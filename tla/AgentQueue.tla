----------------------------- MODULE AgentQueue -----------------------------
(***************************************************************************)
(* The persistent queue of agent runs: the API (api/agent.py), the store   *)
(* (agents/run_store.py), the workers (agents/worker.py) and the coroutine *)
(* of each run (AgentRunManager._run in agents/orchestrator.py).           *)
(*                                                                         *)
(* A run has a public row (agent_runs) and a job row (agent_jobs) with the *)
(* lease and the cancel flag.  As in ExecutionQueue a store method that    *)
(* reads before it writes is two steps; update(), which sets the status,   *)
(* has no filter on the status it replaces.                                *)
(*                                                                         *)
(* A worker watches its run once a second from a loop of its own, so the   *)
(* worker and the coroutine interleave at every await.  Writes of the      *)
(* coroutine are synchronous: its own worker never cuts in between them,   *)
(* but other processes and the store's threads do.                         *)
(***************************************************************************)
EXTENDS Naturals, FiniteSets

CONSTANTS Workers,     \* worker processes (or the loop embedded in the API)
          NoWorker,    \* worker_id of a job nobody holds
          MaxRuns,     \* bound: runs in a behaviour
          Legacy,      \* active runs left by the version without agent_jobs
          Audited,     \* experiment runs, whose coroutine awaits audit.finish
          Lease,       \* lease_seconds, in ticks of the clock
          MaxFaults    \* bound: crashes and database errors in a behaviour

ASSUME NoWorkerAssumption == NoWorker \notin Workers
ASSUME BoundsAssumption == /\ MaxRuns \in Nat \ {0}
                           /\ Lease \in Nat \ {0}
                           /\ MaxFaults \in Nat
ASSUME RunsAssumption == Legacy \cup Audited \subseteq 1 .. MaxRuns

VARIABLES
  status,   \* agent_runs.status; "absent" before the row is inserted
  job,      \* whether the run has a row in agent_jobs
  owner,    \* agent_jobs.worker_id
  flag,     \* agent_jobs.cancel_requested
  age,      \* ticks since agent_jobs.updated_at, up to Lease
  log,      \* the kinds of the run's agent_events that change its status
  coro,     \* where the coroutine _run of each run is
  result,   \* the final status it is about to write ("none": an error is
            \* about to leave _run)
  sealed,   \* whether its audit is closed (_audit_finished)
  begun,    \* history: how often the run was begun (agent_jobs.attempts)
  taker,    \* history: the worker whose process the coroutine runs in
  wpc,      \* where each worker's loop is
  cur,      \* the run a worker holds (0: none)
  stale,    \* the rows ensure_jobs or recover_stale read
  apc,      \* where the API operation is ("idle": none)
  arun,     \* its run
  aseen,    \* the status and the job it read
  faults    \* crashes and database errors so far

jobs   == <<job, owner, flag, age>>
runs   == <<coro, result, sealed, begun, taker>>
worker == <<wpc, cur, stale>>
api    == <<apc, arun, aseen>>
vars   == <<status, jobs, log, runs, worker, api, faults>>

-----------------------------------------------------------------------------
(* Values *)

Runs     == 1 .. MaxRuns             \* numbered in the order of created_at
Terminal == {"completed", "failed", "cancelled"}
Statuses == Terminal \cup {"absent", "queued", "running"}
Events   == Terminal \cup {"started", "cancel_requested"}
Coro     == {"none", "begin", "work", "write", "emit", "close", "ended",
             "raised", "aborted"}
WorkerPC == {"down", "boot", "insert", "recover", "expire", "audit", "idle",
             "claim", "load", "watch", "fail", "emit", "release", "abort", "dead"}
NoView   == <<"absent", FALSE>>

TypeOK ==
  /\ status \in [Runs -> Statuses]
  /\ job \in [Runs -> BOOLEAN]
  /\ owner \in [Runs -> Workers \cup {NoWorker}]
  /\ flag \in [Runs -> BOOLEAN]
  /\ age \in [Runs -> 0 .. Lease]
  /\ log \in [Runs -> SUBSET Events]
  /\ coro \in [Runs -> Coro]
  /\ result \in [Runs -> Terminal \cup {"none"}]
  /\ sealed \in [Runs -> BOOLEAN]
  /\ begun \in [Runs -> Nat]
  /\ taker \in [Runs -> Workers \cup {NoWorker}]
  /\ wpc \in [Workers -> WorkerPC]
  /\ cur \in [Workers -> Runs \cup {0}]
  /\ stale \in [Workers -> SUBSET Runs]
  /\ apc \in {"idle", "cancel", "audit"}
  /\ arun \in Runs \cup {0}
  /\ aseen \in Statuses \X BOOLEAN
  /\ faults \in 0 .. MaxFaults

Init ==
  /\ status \in [Runs -> {"absent", "queued", "running"}]
  /\ \A r \in Runs : status[r] = "absent" <=> r \notin Legacy
  /\ job = [r \in Runs |-> FALSE]
  /\ owner = [r \in Runs |-> NoWorker]
  /\ flag = [r \in Runs |-> FALSE]
  /\ age = [r \in Runs |-> 0]
  /\ log = [r \in Runs |-> {}]
  /\ coro = [r \in Runs |-> "none"]
  /\ result = [r \in Runs |-> "none"]
  /\ sealed = [r \in Runs |-> FALSE]
  /\ begun = [r \in Runs |-> 0]
  /\ taker = [r \in Runs |-> NoWorker]
  /\ wpc = [w \in Workers |-> "down"]
  /\ cur = [w \in Workers |-> 0]
  /\ stale = [w \in Workers |-> {}]
  /\ apc = "idle" /\ arun = 0 /\ aseen = NoView
  /\ faults = 0

-----------------------------------------------------------------------------
(* Steps shared by the operations *)

WithStatus(S) == {r \in Runs : status[r] \in S}
Oldest(S)     == {r \in S : \A u \in S : r <= u}
AddEvent(r, e) == log' = [log EXCEPT ![r] = @ \cup {e}]
Goto(w, from, to) == wpc[w] = from /\ wpc' = [wpc EXCEPT ![w] = to]
Fault == faults < MaxFaults /\ faults' = faults + 1

\* A coroutine whose process lives and that has not returned.
Alive(r) == coro[r] \notin {"none", "ended", "raised", "aborted"}

-----------------------------------------------------------------------------
(* The API process *)

\* create: run and job in one transaction.
Submit ==
  /\ apc = "idle"
  /\ \E r \in Oldest(WithStatus({"absent"})) :
       /\ status' = [status EXCEPT ![r] = "queued"]
       /\ job' = [job EXCEPT ![r] = TRUE]
  /\ UNCHANGED <<owner, flag, age, log, runs, worker, api, faults>>

\* cancel_agent_run returns at once for a terminal run; request_cancel reads.
ReadCancel(r) ==
  /\ apc = "idle"
  /\ status[r] \in {"queued", "running"}
  /\ apc' = "cancel"
  /\ arun' = r
  /\ aseen' = <<status[r], job[r]>>
  /\ UNCHANGED <<status, jobs, log, runs, worker, faults>>

\* It writes what it decided; a missing job row is inserted, which fails when
\* a worker inserted it in the meantime.
WriteCancel ==
  /\ apc = "cancel"
  /\ aseen[2] = job[arun]
  /\ apc' = "audit"
  /\ status' = IF aseen[1] = "queued" THEN [status EXCEPT ![arun] = "cancelled"]
               ELSE status
  /\ job' = [job EXCEPT ![arun] = TRUE]
  /\ flag' = [flag EXCEPT ![arun] = TRUE]
  /\ age' = [age EXCEPT ![arun] = 0]
  /\ UNCHANGED <<owner, log, runs, worker, arun, aseen, faults>>

CancelConflicts ==
  /\ apc = "cancel"
  /\ aseen[2] # job[arun]
  /\ apc' = "idle" /\ arun' = 0 /\ aseen' = NoView
  /\ UNCHANGED <<status, jobs, log, runs, worker, faults>>

AuditCancel ==
  /\ apc = "audit"
  /\ AddEvent(arun, IF aseen[1] = "queued" THEN "cancelled" ELSE "cancel_requested")
  /\ apc' = "idle" /\ arun' = 0 /\ aseen' = NoView
  /\ UNCHANGED <<status, jobs, runs, worker, faults>>

-----------------------------------------------------------------------------
(* recover_stale: at the start of a worker and between its runs *)

StartWorker(w) ==
  /\ Goto(w, "down", "boot")
  /\ UNCHANGED <<status, jobs, log, runs, cur, stale, api, faults>>

RecoverAgain(w) ==
  /\ Goto(w, "idle", "boot")
  /\ UNCHANGED <<status, jobs, log, runs, cur, stale, api, faults>>

\* ensure_jobs reads the active runs without a job ...
EnsureReadIn(w, S) ==
  LET bare == {r \in WithStatus(S) : ~job[r]} IN
  /\ Goto(w, "boot", IF bare = {} THEN "recover" ELSE "insert")
  /\ stale' = [stale EXCEPT ![w] = bare]
  /\ UNCHANGED <<status, jobs, log, runs, cur, api, faults>>

EnsureRunning(w) == EnsureReadIn(w, {"running"})  \* slip: not ACTIVE_STATUSES
EnsureRead(w) == EnsureReadIn(w, {"queued", "running"})

\* ... and inserts all of them, or fails on the first that exists by now.
EnsureWrite(w) ==
  /\ \/ /\ Goto(w, "insert", "recover")
        /\ \A r \in stale[w] : ~job[r]
        /\ job' = [r \in Runs |-> job[r] \/ r \in stale[w]]
     \/ /\ Goto(w, "insert", "dead")
        /\ \E r \in stale[w] : job[r]
        /\ UNCHANGED job
  /\ stale' = [stale EXCEPT ![w] = {}]
  /\ UNCHANGED <<status, owner, flag, age, log, runs, cur, api, faults>>

ExpiredIn(S) == {r \in S : status[r] = "running" /\ job[r] /\ age[r] = Lease}
ExpiredOwned == ExpiredIn({r \in Runs : owner[r] # NoWorker})  \* slip: asks
                                                              \* for a worker
Expired == ExpiredIn(Runs)

RecoverRead(w) ==
  /\ Goto(w, "recover", IF Expired = {} THEN "idle" ELSE "expire")
  /\ stale' = [stale EXCEPT ![w] = Expired]
  /\ UNCHANGED <<status, jobs, log, runs, cur, api, faults>>

\* One commit for all rows that were read, whatever they hold by now.
RecoverTo(w, s) ==
  /\ Goto(w, "expire", "audit")
  /\ status' = [r \in Runs |-> IF r \in stale[w] THEN s ELSE status[r]]
  /\ owner' = [r \in Runs |-> IF r \in stale[w] THEN NoWorker ELSE owner[r]]
  /\ age' = [r \in Runs |-> IF r \in stale[w] THEN 0 ELSE age[r]]
  /\ UNCHANGED <<job, flag, log, runs, cur, stale, api, faults>>

RecoverByRetry(w) == RecoverTo(w, "queued")      \* slip: an automatic retry
RecoverWrite(w) == RecoverTo(w, "failed")

RecoverAudit(w) ==
  /\ Goto(w, "audit", IF Cardinality(stale[w]) = 1 THEN "idle" ELSE "audit")
  /\ \E r \in Oldest(stale[w]) : /\ AddEvent(r, "failed")
                               /\ stale' = [stale EXCEPT ![w] = @ \ {r}]
  /\ UNCHANGED <<status, jobs, runs, cur, api, faults>>

-----------------------------------------------------------------------------
(* A worker claims a run and starts its coroutine *)

Claimable(r) == status[r] = "queued" /\ job[r] /\ ~flag[r]

ReadCandidate(w) ==
  /\ Goto(w, "idle", "claim")
  /\ \E r \in Oldest({u \in Runs : Claimable(u)}) : cur' = [cur EXCEPT ![w] = r]
  /\ UNCHANGED <<status, jobs, log, runs, stale, api, faults>>

\* The conditional update of the run, then its job, in one transaction.
Claim(w) ==
  LET r == cur[w] IN
  \/ /\ Goto(w, "claim", "load")
     /\ status[r] = "queued"
     /\ status' = [status EXCEPT ![r] = "running"]
     /\ owner' = [owner EXCEPT ![r] = w]
     /\ age' = [age EXCEPT ![r] = 0]
     /\ taker' = [taker EXCEPT ![r] = w]
     /\ UNCHANGED <<job, flag, log, coro, result, sealed, begun>>
     /\ UNCHANGED <<cur, stale, api, faults>>
  \/ /\ Goto(w, "claim", "idle")
     /\ status[r] # "queued"
     /\ cur' = [cur EXCEPT ![w] = 0]
     /\ UNCHANGED <<status, jobs, log, runs, stale, api, faults>>

Load(w) ==
  /\ Goto(w, "load", "watch")
  /\ coro' = [coro EXCEPT ![cur[w]] = "begin"]
  /\ UNCHANGED <<status, jobs, log, result, sealed, begun, taker>>
  /\ UNCHANGED <<cur, stale, api, faults>>

\* Project or artifact missing, or the strategy cannot be prepared.
LoadFails(w) ==
  /\ Goto(w, "load", "fail")
  /\ UNCHANGED <<status, jobs, log, runs, cur, stale, api, faults>>

-----------------------------------------------------------------------------
(* The coroutine AgentRunManager._run *)

Step(r, from, to) == coro[r] = from /\ coro' = [coro EXCEPT ![r] = to]
Result(r, s) == result' = [result EXCEPT ![r] = s]

\* run.started, then the first model call: from here the run costs money.
Begin(r) ==
  /\ Step(r, "begin", "work")
  /\ begun' = [begun EXCEPT ![r] = @ + 1]
  /\ AddEvent(r, "started")
  /\ UNCHANGED <<status, jobs, result, sealed, taker, worker, api, faults>>

\* The model answers and _complete closes the audit, or one of the except
\* clauses for errors is taken.
Conclude(r) ==
  /\ Step(r, "work", "write")
  /\ \E s \in {"completed", "failed"} :
       /\ Result(r, s)
       /\ sealed' = [sealed EXCEPT ![r] = s = "completed"]
  /\ UNCHANGED <<status, jobs, log, begun, taker, worker, api, faults>>

\* store.update: whatever the row holds.
WriteResult(r) ==
  /\ Step(r, "write", "emit")
  /\ status' = [status EXCEPT ![r] = result[r]]
  /\ UNCHANGED <<jobs, log, result, sealed, begun, taker, worker, api, faults>>

\* The finally clause closes the audit unless it is closed.
MustClose(r) == r \in Audited /\ ~sealed[r]

EmitResultIf(r, S) ==
  /\ Step(r, "emit", IF MustClose(r) THEN "close" ELSE "ended")
  /\ IF result[r] \in S THEN AddEvent(r, result[r]) ELSE UNCHANGED log
  /\ UNCHANGED <<status, jobs, result, sealed, begun, taker, worker, api, faults>>

EmitEnds(r) == EmitResultIf(r, {"completed", "failed"})  \* slip: no run.cancelled
EmitResult(r) == EmitResultIf(r, Terminal)

\* audit.finish returns, and an error that was on its way out of _run goes on.
Close(r) ==
  /\ Step(r, "close", IF result[r] = "none" THEN "raised" ELSE "ended")
  /\ sealed' = [sealed EXCEPT ![r] = TRUE]
  /\ UNCHANGED <<status, jobs, log, result, begun, taker, worker, api, faults>>

\* A store call of the coroutine fails: while it completes the run, the
\* catch-all clause fails the run instead; inside an except or the finally
\* clause the error leaves _run, by way of the finally clause.
RunFault(r) ==
  /\ Fault
  /\ \/ /\ coro[r] \in {"write", "emit"} /\ result[r] = "completed"
        /\ coro' = [coro EXCEPT ![r] = "write"]
        /\ Result(r, "failed")
     \/ /\ coro[r] \in {"write", "emit"} /\ result[r] # "completed"
        /\ coro' = [coro EXCEPT ![r] = IF MustClose(r) THEN "close" ELSE "raised"]
        /\ Result(r, "none")
     \/ Step(r, "close", "raised") /\ UNCHANGED result
  /\ UNCHANGED <<status, jobs, log, sealed, begun, taker, worker, api>>

-----------------------------------------------------------------------------
(* The worker watches the coroutine *)

Heartbeat(w) ==
  /\ wpc[w] = "watch"
  /\ Alive(cur[w]) /\ owner[cur[w]] = w
  /\ age' = [age EXCEPT ![cur[w]] = 0]
  /\ UNCHANGED <<status, job, owner, flag, log, runs, worker, api, faults>>

\* execution.cancel().  Outside its own except clauses _run turns it into a
\* cancelled run; while the finally clause awaits audit.finish nothing
\* catches it.  Between the two _run never awaits.
Interrupt(r) == \/ Step(r, "work", "write") /\ Result(r, "cancelled")
                \/ Step(r, "close", "aborted") /\ UNCHANGED result

\* Every second while the flag is set, also a second time.
CancelRunIn(w, S) ==
  /\ wpc[w] = "watch"
  /\ status[cur[w]] \in S
  /\ flag[cur[w]]
  /\ Interrupt(cur[w])
  /\ UNCHANGED <<status, jobs, log, sealed, begun, taker, worker, api, faults>>

CancelRunning(w) == CancelRunIn(w, {"running"})  \* slip: asks the row as well
CancelRun(w) == CancelRunIn(w, Statuses)

\* await execution: it returned, raised, or was cancelled.  CancelledError is
\* no Exception, so it leaves execute_claim and run_forever.
Reap(w) ==
  LET r == cur[w] IN
  /\ \/ Goto(w, "watch", "release") /\ coro[r] = "ended"
     \/ Goto(w, "watch", "fail") /\ coro[r] = "raised"
     \/ Goto(w, "watch", "abort") /\ coro[r] = "aborted"
  /\ UNCHANGED <<status, jobs, log, runs, cur, stale, api, faults>>

\* heartbeat or is_cancel_requested raises: the claim is failed, and nobody
\* cancels the coroutine.
WatchFault(w) ==
  /\ Fault
  /\ Goto(w, "watch", "fail")
  /\ Alive(cur[w])
  /\ UNCHANGED <<status, jobs, log, runs, cur, stale, api>>

\* fail_claim.
FailClaim(w) ==
  /\ Goto(w, "fail", "emit")
  /\ status' = [status EXCEPT ![cur[w]] = "failed"]
  /\ UNCHANGED <<jobs, log, runs, cur, stale, api, faults>>

EmitFailed(w) ==
  /\ Goto(w, "emit", "release")
  /\ AddEvent(cur[w], "failed")
  /\ UNCHANGED <<status, jobs, runs, cur, stale, api, faults>>

\* finish_job in the finally clause; after an abort the loop is over.
Release(w) ==
  LET r == cur[w] IN
  /\ Goto(w, "release", "idle") \/ Goto(w, "abort", "dead")
  /\ IF owner[r] = w
       THEN /\ owner' = [owner EXCEPT ![r] = NoWorker]
            /\ age' = [age EXCEPT ![r] = 0]
       ELSE UNCHANGED <<owner, age>>
  /\ cur' = [cur EXCEPT ![w] = 0]
  /\ UNCHANGED <<status, job, flag, log, runs, stale, api, faults>>

\* A store call of the loop raises.  fail_claim raises in the except clause,
\* after which finish_job is still called, or in the try clause, for a run that
\* could not be prepared, and is called once more; any other error leaves
\* run_forever at once.
StoreFault(w) ==
  /\ Fault
  /\ \/ \E at \in {"fail", "emit"} : Goto(w, at, "abort") /\ UNCHANGED <<cur, stale>>
     \/ /\ Goto(w, "emit", "fail")
        /\ coro[cur[w]] = "none"
        /\ UNCHANGED <<cur, stale>>
     \/ /\ \E at \in {"boot", "insert", "recover", "expire", "audit", "idle",
                     "claim", "release", "abort"} : Goto(w, at, "dead")
        /\ cur' = [cur EXCEPT ![w] = 0]
        /\ stale' = [stale EXCEPT ![w] = {}]
  /\ UNCHANGED <<status, jobs, log, runs, api>>

\* run_forever ended with an error ("dead"): asyncio.run cancels what is left
\* of the worker's coroutines and the process ends.
Shutdown(w) ==
  /\ wpc[w] = "dead"
  /\ \E r \in Runs : taker[r] = w /\ Interrupt(r)
  /\ UNCHANGED <<status, jobs, log, sealed, begun, taker, worker, api, faults>>

Exit(w) ==
  /\ Goto(w, "dead", "down")
  /\ \A r \in Runs : taker[r] = w => ~Alive(r)
  /\ UNCHANGED <<status, jobs, log, runs, cur, stale, api, faults>>

\* The worker's process dies, or ends after --once; its coroutines go with it.
Crash(w) ==
  /\ Fault
  /\ wpc[w] # "down"
  /\ wpc' = [wpc EXCEPT ![w] = "down"]
  /\ cur' = [cur EXCEPT ![w] = 0]
  /\ stale' = [stale EXCEPT ![w] = {}]
  /\ coro' = [r \in Runs |-> IF taker[r] = w THEN "none" ELSE coro[r]]
  /\ UNCHANGED <<status, jobs, log, result, sealed, begun, taker, api>>

\* Time passes; only the lease of a running run is ever compared.
Tick ==
  /\ \E r \in WithStatus({"running"}) : job[r] /\ age[r] < Lease
  /\ age' = [r \in Runs |-> IF status[r] = "running" /\ job[r] /\ age[r] < Lease
                              THEN age[r] + 1 ELSE age[r]]
  /\ UNCHANGED <<status, job, owner, flag, log, runs, worker, api, faults>>

-----------------------------------------------------------------------------
ApiStep == \/ Submit \/ \E r \in Runs : ReadCancel(r)
           \/ WriteCancel \/ CancelConflicts \/ AuditCancel

RecoverStep(w) == \/ StartWorker(w) \/ RecoverAgain(w)
                  \/ EnsureRead(w) \/ EnsureWrite(w)
                  \/ RecoverRead(w) \/ RecoverWrite(w) \/ RecoverAudit(w)

ClaimStep(w) == ReadCandidate(w) \/ Claim(w) \/ Load(w) \/ LoadFails(w)

WatchStep(w) == \/ Heartbeat(w) \/ CancelRun(w) \/ Reap(w) \/ WatchFault(w)
                \/ FailClaim(w) \/ EmitFailed(w) \/ Release(w) \/ Crash(w)
                \/ StoreFault(w)

RunStep(r) == \/ Begin(r) \/ Conclude(r) \/ WriteResult(r) \/ EmitResult(r)
              \/ Close(r) \/ RunFault(r)

Operate == \/ ApiStep
           \/ \E w \in Workers : RecoverStep(w) \/ ClaimStep(w) \/ WatchStep(w)
           \/ \E r \in Runs : RunStep(r)
           \/ Tick

Next == Operate \/ \E w \in Workers : Shutdown(w) \/ Exit(w)

Spec == Init /\ [][Next]_vars

(***************************************************************************)
(* Fairness.  An API operation that began runs on; a process manager       *)
(* restarts a worker that ended; the loop of run_forever comes back both   *)
(* to the queue and to recovery; a coroutine that need not wait goes on;   *)
(* the clock runs.  The model is not assumed to answer.                    *)
(***************************************************************************)
LoopFairness(w) ==
  /\ WF_vars(EnsureRead(w) \/ EnsureWrite(w))
  /\ WF_vars(RecoverRead(w) \/ RecoverWrite(w) \/ RecoverAudit(w))
  /\ SF_vars(RecoverAgain(w))
  /\ SF_vars(ReadCandidate(w))
  /\ WF_vars(Claim(w))
  /\ WF_vars(Load(w) \/ LoadFails(w))
  /\ WF_vars(CancelRun(w))
  /\ WF_vars(Reap(w) \/ FailClaim(w) \/ EmitFailed(w) \/ Release(w))

RunFairness(r) ==
  /\ WF_vars(Begin(r))
  /\ WF_vars(WriteResult(r) \/ EmitResult(r) \/ Close(r))

Fairness == /\ WF_vars(WriteCancel \/ CancelConflicts \/ AuditCancel)
            /\ \A w \in Workers : WF_vars(StartWorker(w)) /\ LoopFairness(w)
            /\ \A r \in Runs : RunFairness(r)
            /\ WF_vars(Tick)

FairSpec == /\ Spec /\ Fairness
            /\ \A w \in Workers : WF_vars(Shutdown(w)) /\ WF_vars(Exit(w))

\* The loop embedded in the API is started once, by the application's
\* lifespan; nobody restarts it, and no process ends, while the application
\* runs.
EmbeddedSpec == Init /\ [][Operate]_vars /\ Fairness

-----------------------------------------------------------------------------
(* Properties *)

\* The worker has claimed its run and not released it.
Holding(w) == wpc[w] \in {"load", "watch", "fail", "emit", "release", "abort"}
Held(r) == \E w \in Workers : Holding(w) /\ cur[w] = r

(***************************************************************************)
(* A run is begun at most once, whoever competes, crashes or recovers      *)
(* ("不会自动重试；重复调用在线模型可能产生重复费用").                            *)
(***************************************************************************)
AtMostOnce == \A r \in Runs : begun[r] <= 1

(***************************************************************************)
(* The queue implements ClaimQueue, although the job row forgets its       *)
(* worker when the lease is released or recovered.                         *)
(***************************************************************************)
Place(r) == IF status[r] = "absent" THEN "unknown"
            ELSE IF taker[r] # NoWorker THEN taker[r]
            ELSE IF status[r] = "queued" THEN "waiting" ELSE "withdrawn"

Claims == INSTANCE ClaimQueue WITH
            Tasks <- Runs,
            place <- [r \in Runs |-> Place(r)],
            ran   <- {r \in Runs : begun[r] > 0}

ClaimSpec == Claims!Spec

\* A run that may still be claimed was given to nobody, and only the process
\* it was given to runs its coroutine, which begins once.
RowInv(r) ==
  /\ status[r] \in {"absent", "queued"} => taker[r] = NoWorker
  /\ taker[r] = NoWorker => coro[r] = "none" /\ begun[r] = 0
  /\ coro[r] = "begin" => begun[r] = 0
  /\ begun[r] <= 1
  /\ coro[r] \in {"write", "emit"} => result[r] # "none"

\* A worker was given what it holds, and has not started its coroutine when it
\* is about to; what it is about to recover was claimed.
WorkerInv(w) ==
  /\ wpc[w] = "claim" => cur[w] \in Runs
  /\ Holding(w) => cur[w] \in Runs /\ taker[cur[w]] = w
  /\ wpc[w] = "load" => coro[cur[w]] = "none" /\ begun[cur[w]] = 0
  /\ wpc[w] = "expire" =>
       \A r \in stale[w] : status[r] \notin {"absent", "queued"}

\* The API operation works on a run that exists.
ApiInv == apc # "idle" => arun \in Runs /\ status[arun] # "absent"

(***************************************************************************)
(* Everything the safety of the queue rests on, in one formula that every  *)
(* step preserves: the row, the worker and the coroutine agree on who was  *)
(* given a run, even when its job row has forgotten it.                    *)
(***************************************************************************)
IInv == /\ TypeOK
        /\ \A r \in Runs : RowInv(r)
        /\ \A w \in Workers : WorkerInv(w)
        /\ ApiInv

(***************************************************************************)
(* When nobody is at work on a run any more, its public status is one its  *)
(* events report, although four actors write status and events in separate *)
(* transactions and overwrite each other: a client that followed the       *)
(* events was told.                                                        *)
(***************************************************************************)
AtRest(r) == /\ ~Alive(r) /\ ~Held(r) /\ apc = "idle"
             /\ \A w \in Workers : r \notin stale[w]

StatusIsReported ==
  \A r \in Runs : AtRest(r) /\ status[r] \in Terminal /\ faults = 0
                    => status[r] \in log[r]

\* Every worker watches a coroutine whose model or tool does not answer.
AllBusy == \A w \in Workers : wpc[w] = "watch" /\ coro[cur[w]] = "work"

(***************************************************************************)
(* Every queued run, also one left by the version without jobs, is claimed *)
(* or cancelled, even if it waits behind others and workers die on the     *)
(* way - unless every worker comes to wait for ever for an answer: nothing *)
(* in the worker bounds the time of a run.                                 *)
(***************************************************************************)
QueuedIsServed == \A r \in Runs : \/ status[r] = "queued" ~> status[r] # "queued"
                                  \/ <>[]AllBusy

(***************************************************************************)
(* The run of a worker that died is failed when its lease is over, unless  *)
(* a cancellation renews the lease.                                        *)
(***************************************************************************)
OrphanIsRecovered ==
  \A r \in Runs : (status[r] = "running" /\ ~Held(r) /\ ~Alive(r))
                    ~> (status[r] # "running" \/ flag[r])

(***************************************************************************)
(* A cancellation stops a run that is watched, whatever its row says by    *)
(* then and even if the model never answers, unless a fault comes between. *)
(***************************************************************************)
CancelStopsRun ==
  \A r \in Runs : (flag[r] /\ Alive(r) /\ Held(r) /\ faults = 0)
                    ~> (~Alive(r) \/ faults > 0)

-----------------------------------------------------------------------------
(* What the documents and comments say, and the code does not *)

(***************************************************************************)
(* "持续消费持久化队列，并周期性回收过期租约" (worker.py:160): the loop of     *)
(* the application consumes the queue as long as the application runs.     *)
(***************************************************************************)
LoopGoesOn == \A w \in Workers : []<>(wpc[w] \notin {"dead", "down"})
=============================================================================
