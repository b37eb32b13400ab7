--------------------------- MODULE ExecutionQueue ---------------------------
(***************************************************************************)
(* The persistent queue of isolated execution tasks: the FastAPI process   *)
(* (execution/service.py), the SQLite repository both sides share          *)
(* (execution/repository.py), the worker processes (execution/worker.py)   *)
(* and the containers they drive (execution/docker_executor.py).           *)
(*                                                                         *)
(* Every repository method opens its own session.  SQLite reads take no    *)
(* transaction, so a method that reads a row and then writes it is two     *)
(* steps here, and the write is blind: it sets the columns the method      *)
(* assigned, whatever the row holds by then.  A query .update() with a     *)
(* filter is one conditional step.  add_event is a transaction of its own, *)
(* always later than the change of status it reports.                      *)
(*                                                                         *)
(* The API handlers are coroutines that never await, in one process: one   *)
(* API operation runs at a time, interleaved only with the workers.        *)
(***************************************************************************)
EXTENDS Naturals, FiniteSets

CONSTANTS Workers,     \* worker processes
          NoWorker,    \* worker_id of a row that was never claimed
          MaxTasks,    \* bound: tasks submitted in a behaviour
          MaxActive,   \* settings.max_active_tasks_per_user
          Lease,       \* lease_seconds, in ticks of the clock
          MaxFaults    \* bound: crashes and database errors in a behaviour

ASSUME NoWorkerAssumption == NoWorker \notin Workers
ASSUME BoundsAssumption == /\ MaxTasks \in Nat \ {0}
                           /\ MaxActive \in Nat \ {0}
                           /\ Lease \in Nat \ {0}
                           /\ MaxFaults \in Nat

VARIABLES
  status,     \* execution_tasks.status; "absent" before the row is inserted
  owner,      \* execution_tasks.worker_id, written by the claim alone
  age,        \* ticks since execution_tasks.updated_at, up to Lease
  log,        \* the kinds of execution_events of each task; the order and the
              \* output chunks are left to EventStream
  wpc,        \* where each worker process is
  cur,        \* the task a worker holds (0: none)
  outcome,    \* forced_status in the loop, then the result to be written
  inHandler,  \* the worker is inside run_once's except handlers
  stale,      \* the rows recover_stale read, then those not yet audited
  apc,        \* where the API operation is ("idle": none)
  atask,      \* its task
  aseen,      \* the status it read
  container,  \* the container of each task, seen from the Docker daemon
  client,     \* its docker run process: "alive", "hung" if it will not return by
              \* itself, "zero" or "nonzero" once it ended with such a code
  launches,   \* history: how often docker run was started for the task
  faults      \* crashes and database errors so far

row    == <<status, owner, age>>
worker == <<wpc, cur, outcome, inHandler, stale>>
api    == <<apc, atask, aseen>>
docker == <<container, client, launches>>
vars   == <<row, log, worker, api, docker, faults>>

-----------------------------------------------------------------------------
(* Values *)

Tasks    == 1 .. MaxTasks            \* numbered in the order of created_at
Terminal == {"completed", "failed", "cancelled", "timed_out"}
Running  == {"running", "cancel_requested"}
Active   == Running \cup {"queued"}
Statuses == Active \cup Terminal \cup {"absent"}
Events   == Active \cup Terminal \cup {"started"}
WorkerPC == {"down", "boot", "recover", "audit", "idle", "claim", "announce",
             "prepare", "loop", "remove", "kill", "finish", "emit"}
ApiPC    == {"idle", "insert", "announce", "cancel", "audit"}

TypeOK ==
  /\ status \in [Tasks -> Statuses]
  /\ owner \in [Tasks -> Workers \cup {NoWorker}]
  /\ age \in [Tasks -> 0 .. Lease]
  /\ log \in [Tasks -> SUBSET Events]
  /\ wpc \in [Workers -> WorkerPC]
  /\ cur \in [Workers -> Tasks \cup {0}]
  /\ outcome \in [Workers -> Terminal \cup {"none"}]
  /\ inHandler \in [Workers -> BOOLEAN]
  /\ stale \in [Workers -> SUBSET Tasks]
  /\ apc \in ApiPC
  /\ atask \in Tasks \cup {0}
  /\ aseen \in Statuses
  /\ container \in [Tasks -> {"none", "up", "exit0", "gone"}]
  /\ client \in [Tasks -> {"none", "alive", "hung", "zero", "nonzero"}]
  /\ launches \in [Tasks -> Nat]
  /\ faults \in 0 .. MaxFaults

Init ==
  /\ status = [t \in Tasks |-> "absent"]
  /\ owner = [t \in Tasks |-> NoWorker]
  /\ age = [t \in Tasks |-> 0]
  /\ log = [t \in Tasks |-> {}]
  /\ wpc = [w \in Workers |-> "down"]
  /\ cur = [w \in Workers |-> 0]
  /\ outcome = [w \in Workers |-> "none"]
  /\ inHandler = [w \in Workers |-> FALSE]
  /\ stale = [w \in Workers |-> {}]
  /\ apc = "idle" /\ atask = 0 /\ aseen = "absent"
  /\ container = [t \in Tasks |-> "none"]
  /\ client = [t \in Tasks |-> "none"]
  /\ launches = [t \in Tasks |-> 0]
  /\ faults = 0

-----------------------------------------------------------------------------
(* Steps shared by the operations *)

WithStatus(S) == {t \in Tasks : status[t] \in S}

\* order_by(created_at.asc()).first()
Oldest(S) == {t \in S : \A u \in S : t <= u}

\* add_event: one insert, one commit.
AddEvent(t, e) == log' = [log EXCEPT ![t] = @ \cup {e}]

Goto(w, from, to) == wpc[w] = from /\ wpc' = [wpc EXCEPT ![w] = to]

Fault == faults < MaxFaults /\ faults' = faults + 1

-----------------------------------------------------------------------------
(* The API process *)

\* ExecutionService.submit: quota test, then create.
Submit ==
  /\ apc = "idle"
  /\ Cardinality(WithStatus(Active)) < MaxActive
  /\ apc' = "insert"
  /\ atask' \in Oldest(WithStatus({"absent"}))
  /\ UNCHANGED <<row, log, worker, aseen, docker, faults>>

\* create: the row is visible to the workers from here ...
Insert ==
  /\ apc = "insert"
  /\ apc' = "announce"
  /\ status' = [status EXCEPT ![atask] = "queued"]
  /\ UNCHANGED <<owner, age, log, worker, atask, aseen, docker, faults>>

\* ... and its first event is written afterwards.
AnnounceQueued ==
  /\ apc = "announce"
  /\ AddEvent(atask, "queued")
  /\ apc' = "idle"
  /\ atask' = 0
  /\ UNCHANGED <<row, worker, aseen, docker, faults>>

\* request_cancel reads the row ...
ReadCancel(t) ==
  /\ apc = "idle"
  /\ status[t] # "absent"
  /\ apc' = "cancel"
  /\ atask' = t
  /\ aseen' = status[t]
  /\ UNCHANGED <<row, log, worker, docker, faults>>

\* ... and writes the columns that reading decided, with updated_at always.
WriteCancel ==
  /\ apc = "cancel"
  /\ age' = [age EXCEPT ![atask] = 0]
  /\ \/ /\ aseen \in {"queued", "running"}
        /\ status' = [status EXCEPT ![atask] =
                        IF aseen = "queued" THEN "cancelled" ELSE "cancel_requested"]
        /\ apc' = "audit"
        /\ UNCHANGED <<atask, aseen>>
     \/ /\ aseen \notin {"queued", "running"}
        /\ apc' = "idle" /\ atask' = 0 /\ aseen' = "absent"
        /\ UNCHANGED status
  /\ UNCHANGED <<owner, log, worker, docker, faults>>

AuditCancelOf(S) ==
  /\ apc = "audit"
  /\ LET e == IF aseen = "queued" THEN "cancelled" ELSE "cancel_requested" IN
     IF e \in S THEN AddEvent(atask, e) ELSE UNCHANGED log
  /\ apc' = "idle" /\ atask' = 0 /\ aseen' = "absent"
  /\ UNCHANGED <<row, worker, docker, faults>>

AuditRequestOnly == AuditCancelOf({"cancel_requested"})  \* slip: one branch
AuditCancel == AuditCancelOf({"cancelled", "cancel_requested"})

\* The API process dies, or its next transaction fails: the rest of the
\* operation is lost.
ApiFault ==
  /\ apc # "idle"
  /\ Fault
  /\ apc' = "idle" /\ atask' = 0 /\ aseen' = "absent"
  /\ UNCHANGED <<row, log, worker, docker>>

-----------------------------------------------------------------------------
(* A worker process starts, and terminates the tasks whose lease is over *)

StartWorker(w) ==
  /\ Goto(w, "down", "boot")
  /\ UNCHANGED <<row, log, cur, outcome, inHandler, stale, api, docker, faults>>

Expired == {t \in WithStatus(Running) : age[t] = Lease}

RecoverRead(w) ==
  /\ Goto(w, "boot", IF Expired = {} THEN "idle" ELSE "recover")
  /\ stale' = [stale EXCEPT ![w] = Expired]
  /\ UNCHANGED <<row, log, cur, outcome, inHandler, api, docker, faults>>

\* One commit for all rows that were read, whatever they hold by now.
RecoverTo(w, s) ==
  /\ Goto(w, "recover", "audit")
  /\ status' = [t \in Tasks |-> IF t \in stale[w] THEN s ELSE status[t]]
  /\ age' = [t \in Tasks |-> IF t \in stale[w] THEN 0 ELSE age[t]]
  /\ UNCHANGED <<owner, log, cur, outcome, inHandler, stale, api, docker, faults>>

RecoverByRetry(w) == RecoverTo(w, "queued")      \* slip: an automatic retry
RecoverWrite(w) == RecoverTo(w, "failed")

RecoverAudit(w) ==
  /\ Goto(w, "audit", IF Cardinality(stale[w]) = 1 THEN "idle" ELSE "audit")
  /\ \E t \in Oldest(stale[w]) : /\ AddEvent(t, "failed")
                               /\ stale' = [stale EXCEPT ![w] = @ \ {t}]
  /\ UNCHANGED <<row, cur, outcome, inHandler, api, docker, faults>>

-----------------------------------------------------------------------------
(* A worker claims and prepares a task *)

ReadOneOf(w, S) ==
  /\ Goto(w, "idle", "claim")
  /\ \E t \in S : cur' = [cur EXCEPT ![w] = t]
  /\ UNCHANGED <<row, log, outcome, inHandler, stale, api, docker, faults>>

ReadAny(w) == ReadOneOf(w, WithStatus({"queued"}))       \* slip: no order_by
ReadCandidate(w) == ReadOneOf(w, Oldest(WithStatus({"queued"})))

\* The conditional update, which only changes a row in one of the statuses S.
ClaimIn(w, S) ==
  LET t == cur[w] IN
  \/ /\ Goto(w, "claim", "announce")
     /\ status[t] \in S
     /\ status' = [status EXCEPT ![t] = "running"]
     /\ owner' = [owner EXCEPT ![t] = w]
     /\ age' = [age EXCEPT ![t] = 0]
     /\ UNCHANGED <<log, cur, outcome, inHandler, stale, api, docker, faults>>
  \/ /\ Goto(w, "claim", "idle")
     /\ status[t] \notin S
     /\ cur' = [cur EXCEPT ![w] = 0]
     /\ UNCHANGED <<row, log, outcome, inHandler, stale, api, docker, faults>>

ClaimBlindly(w) == ClaimIn(w, Statuses)          \* slip: filter by id alone
Claim(w) == ClaimIn(w, {"queued"})

AnnounceStarted(w) ==
  /\ Goto(w, "announce", "prepare")
  /\ AddEvent(cur[w], "started")
  /\ UNCHANGED <<row, cur, outcome, inHandler, stale, api, docker, faults>>

\* validate_plan or the workspace check raises ExecutionError: the result is
\* written by the except handler.
Reject(w) ==
  /\ Goto(w, "prepare", "finish")
  /\ outcome' = [outcome EXCEPT ![w] = "failed"]
  /\ inHandler' = [inHandler EXCEPT ![w] = TRUE]
  /\ UNCHANGED <<row, log, cur, stale, api, docker, faults>>

\* Popen fails: execute returns a result instead of raising.
LaunchFails(w) ==
  /\ Goto(w, "prepare", "finish")
  /\ outcome' = [outcome EXCEPT ![w] = "failed"]
  /\ UNCHANGED <<row, log, cur, inHandler, stale, api, docker, faults>>

Launch(w) ==
  /\ Goto(w, "prepare", "loop")
  /\ container' = [container EXCEPT ![cur[w]] = "up"]
  /\ client' = [client EXCEPT ![cur[w]] = "alive"]
  /\ launches' = [launches EXCEPT ![cur[w]] = @ + 1]
  /\ UNCHANGED <<row, log, cur, outcome, inHandler, stale, api, faults>>

-----------------------------------------------------------------------------
(* The loop of DockerExecutor.execute *)

\* process.poll() is None.
ClientRuns(t) == client[t] \in {"alive", "hung"}

ContainerExit(t) ==
  /\ container[t] = "up"
  /\ \E how \in {"exit0", "gone"} : container' = [container EXCEPT ![t] = how]
  /\ UNCHANGED <<row, log, worker, api, client, launches, faults>>

\* docker run returns the exit code of a container that is no longer up ...
ClientReturns(t) ==
  /\ client[t] = "alive" /\ container[t] # "up"
  /\ client' = [client EXCEPT ![t] = IF container[t] = "exit0" THEN "zero" ELSE "nonzero"]
  /\ UNCHANGED <<row, log, worker, api, container, launches, faults>>

\* ... unless it loses the daemon, and then ends early or not at all.
ClientLost(t) ==
  /\ client[t] = "alive"
  /\ \E how \in {"hung", "nonzero"} : client' = [client EXCEPT ![t] = how]
  /\ UNCHANGED <<row, log, worker, api, container, launches, faults>>

Heartbeat(w) ==
  /\ wpc[w] = "loop"
  /\ status[cur[w]] \in Running /\ owner[cur[w]] = w
  /\ age' = [age EXCEPT ![cur[w]] = 0]
  /\ UNCHANGED <<status, owner, log, worker, api, docker, faults>>

\* elif cancelled(): the request is seen, docker rm -f follows.
ObserveCancel(w) ==
  /\ Goto(w, "loop", "remove")
  /\ ClientRuns(cur[w])
  /\ status[cur[w]] = "cancel_requested"
  /\ outcome' = [outcome EXCEPT ![w] = "cancelled"]
  /\ UNCHANGED <<row, log, cur, inHandler, stale, api, docker, faults>>

\* elif now >= deadline.  The client may run for any time before it.
DeadlineIn(w, S) ==
  /\ Goto(w, "loop", "remove")
  /\ ClientRuns(cur[w])
  /\ status[cur[w]] \in S
  /\ outcome' = [outcome EXCEPT ![w] = "timed_out"]
  /\ UNCHANGED <<row, log, cur, inHandler, stale, api, docker, faults>>

DeadlineOfRunningRow(w) == DeadlineIn(w, {"running"})    \* slip: asks the row
Deadline(w) == DeadlineIn(w, Statuses \ {"cancel_requested"})

\* forced_at is the start of the turn that removes, and every turn that removes
\* sets it again: the next turn kills the client only if this removal itself
\* took five seconds.  _force_remove suppresses its errors.
RemoveSucceeds(w) ==
  /\ Goto(w, "remove", "loop") \/ Goto(w, "remove", "kill")
  /\ container' = [container EXCEPT ![cur[w]] = IF @ = "up" THEN "gone" ELSE @]
  /\ UNCHANGED <<row, log, cur, outcome, inHandler, stale, api, client, launches, faults>>

RemoveFails(w) ==
  /\ Goto(w, "remove", "loop") \/ Goto(w, "remove", "kill")
  /\ UNCHANGED <<row, log, cur, outcome, inHandler, stale, api, docker, faults>>

\* process.kill(): the client ends, the container is not told.
AfterSlowRemoval(w, code) ==
  /\ Goto(w, "kill", "loop")
  /\ ClientRuns(cur[w])
  /\ client' = [client EXCEPT ![cur[w]] = code]
  /\ UNCHANGED <<row, log, cur, outcome, inHandler, stale, api, container, launches, faults>>

WaitForClient(w) == AfterSlowRemoval(w, client[cur[w]])  \* slip: no process.kill()
KillClient(w) == AfterSlowRemoval(w, "nonzero")

\* The loop ends with the client.  The result is the forced status or, without
\* one, what the exit code says.
LoopEndsWith(w, result) ==
  /\ \/ Goto(w, "loop", "finish")
     \/ Goto(w, "kill", "finish")
  /\ ~ClientRuns(cur[w])
  /\ outcome' = [outcome EXCEPT ![w] = IF @ # "none" THEN @ ELSE result]
  /\ UNCHANGED <<row, log, cur, inHandler, stale, api, docker, faults>>

LoopEndsUnread(w) == LoopEndsWith(w, "completed")    \* slip: exit code unread
LoopEnds(w) ==
  LoopEndsWith(w, IF client[cur[w]] = "zero" THEN "completed" ELSE "failed")

\* A repository call inside the loop raises: the finally clause tries to
\* remove the container, waits five seconds for the client and kills it, and
\* run_once's except handler fails the task.
LoopFault(w) ==
  /\ Fault
  /\ Goto(w, "loop", "finish")
  /\ outcome' = [outcome EXCEPT ![w] = "failed"]
  /\ inHandler' = [inHandler EXCEPT ![w] = TRUE]
  /\ \/ container' = [container EXCEPT ![cur[w]] = IF @ = "up" THEN "gone" ELSE @]
     \/ UNCHANGED container
  /\ client' = [client EXCEPT ![cur[w]] = IF @ \in {"alive", "hung"} THEN "nonzero" ELSE @]
  /\ UNCHANGED <<row, log, cur, stale, api, launches>>

-----------------------------------------------------------------------------
(* The result is written, then audited *)

FinishIn(w, S) ==
  LET t == cur[w] IN
  /\ Goto(w, "finish", "emit")
  /\ IF status[t] \in S
       THEN /\ status' = [status EXCEPT ![t] = outcome[w]]
            /\ age' = [age EXCEPT ![t] = 0]
       ELSE UNCHANGED <<status, age>>
  /\ UNCHANGED <<owner, log, cur, outcome, inHandler, stale, api, docker, faults>>

FinishCancelled(w) == FinishIn(w, {"cancel_requested"})  \* slip: short filter
Finish(w) == FinishIn(w, Running)

Released(w) == /\ cur' = [cur EXCEPT ![w] = 0]
               /\ outcome' = [outcome EXCEPT ![w] = "none"]
               /\ inHandler' = [inHandler EXCEPT ![w] = FALSE]

AuditFinish(w) ==
  /\ Goto(w, "emit", "idle")
  /\ AddEvent(cur[w], outcome[w])
  /\ Released(w)
  /\ UNCHANGED <<row, stale, api, docker, faults>>

\* finish raises inside the try block: the handler finishes the task again,
\* as failed.
FinishFault(w) ==
  /\ Fault
  /\ ~inHandler[w]
  /\ \/ Goto(w, "finish", "finish")
     \/ Goto(w, "emit", "finish")
  /\ outcome' = [outcome EXCEPT ![w] = "failed"]
  /\ inHandler' = [inHandler EXCEPT ![w] = TRUE]
  /\ UNCHANGED <<row, log, cur, stale, api, docker>>

\* The process ends: killed, by an exception no handler catches, or because it
\* was started with --once.  Its docker client and container stay.
Crash(w) ==
  /\ Fault
  /\ wpc[w] # "down"
  /\ wpc' = [wpc EXCEPT ![w] = "down"]
  /\ Released(w)
  /\ stale' = [stale EXCEPT ![w] = {}]
  /\ UNCHANGED <<row, log, api, docker>>

\* Time passes for every lease; the code never compares updated_at of a row
\* that is not running, so its age stays where it is.
Tick ==
  /\ \E t \in WithStatus(Running) : age[t] < Lease
  /\ age' = [t \in Tasks |-> IF status[t] \in Running /\ age[t] < Lease
                               THEN age[t] + 1 ELSE age[t]]
  /\ UNCHANGED <<status, owner, log, worker, api, docker, faults>>

-----------------------------------------------------------------------------
ApiStep == \/ Submit \/ Insert \/ AnnounceQueued
           \/ \E t \in Tasks : ReadCancel(t)
           \/ WriteCancel \/ AuditCancel \/ ApiFault

StartStep(w) == \/ StartWorker(w) \/ RecoverRead(w) \/ RecoverWrite(w) \/ RecoverAudit(w)

ClaimStep(w) == \/ ReadCandidate(w) \/ Claim(w) \/ AnnounceStarted(w)
                \/ Reject(w) \/ LaunchFails(w) \/ Launch(w)

LoopStep(w) == \/ Heartbeat(w) \/ ObserveCancel(w) \/ Deadline(w)
               \/ RemoveSucceeds(w) \/ RemoveFails(w) \/ KillClient(w)
               \/ LoopEnds(w) \/ LoopFault(w)

FinishStep(w) == \/ Finish(w) \/ AuditFinish(w) \/ FinishFault(w) \/ Crash(w)

WorkerStep(w) == StartStep(w) \/ ClaimStep(w) \/ LoopStep(w) \/ FinishStep(w)

Next == \/ ApiStep
        \/ \E w \in Workers : WorkerStep(w)
        \/ \E t \in Tasks : ContainerExit(t) \/ ClientReturns(t) \/ ClientLost(t)
        \/ Tick

Spec == Init /\ [][Next]_vars

(***************************************************************************)
(* Fairness.  An API operation that began runs on, the supervisor restarts *)
(* a worker that ended, a running worker takes its next step and the       *)
(* deadline comes.  Of Docker: a client that is not hung returns once its  *)
(* container is down, and the daemon does not refuse every removal at once *)
(* for ever (a removal takes effect, or one takes five seconds).           *)
(* Nothing is assumed of submissions, cancellations, faults, refusals,     *)
(* heartbeats, the clock, the end of a container by itself or a client     *)
(* that hangs.                                                             *)
(***************************************************************************)
ApiFairness == WF_vars(Insert \/ AnnounceQueued \/ WriteCancel \/ AuditCancel)

WorkerFairness(w) ==
  /\ WF_vars(StartWorker(w))
  /\ WF_vars(RecoverRead(w) \/ RecoverWrite(w) \/ RecoverAudit(w))
  /\ WF_vars(ReadCandidate(w))
  /\ WF_vars(Claim(w) \/ AnnounceStarted(w))
  /\ WF_vars(Reject(w) \/ LaunchFails(w) \/ Launch(w))
  /\ WF_vars(ObserveCancel(w) \/ Deadline(w) \/ KillClient(w) \/ LoopEnds(w))
  /\ WF_vars(RemoveSucceeds(w) \/ RemoveFails(w))
  /\ SF_vars(RemoveSucceeds(w) \/ (RemoveFails(w) /\ wpc'[w] = "kill"))
  /\ WF_vars(Finish(w) \/ AuditFinish(w))

FairSpec == /\ Spec /\ ApiFairness
            /\ \A w \in Workers : WorkerFairness(w)
            /\ \A t \in Tasks : WF_vars(ClientReturns(t))

-----------------------------------------------------------------------------
(* Properties *)

\* The worker was handed its task and has not let go of it.
Holding(w) == wpc[w] \in {"announce", "prepare", "loop", "remove", "kill",
                          "finish", "emit"}

Held(t) == \E w \in Workers : Holding(w) /\ cur[w] = t

\* A worker holds the task and has not written its result.
InProgress(t) == \E w \in Workers : Holding(w) /\ wpc[w] # "emit" /\ cur[w] = t

(***************************************************************************)
(* A command is never executed twice: neither two workers that compete for *)
(* a row, nor a lease that ended under a live worker, nor a restart makes  *)
(* the container of a task start again ("不自动重试以避免重复执行命令").        *)
(***************************************************************************)
AtMostOnce == \A t \in Tasks : launches[t] <= 1

(***************************************************************************)
(* The queue implements ClaimQueue: a task is given to one worker for      *)
(* ever, or withdrawn for ever.  A cancellation that loses the race with a *)
(* claim changes the row's status but does not take the task back.         *)
(***************************************************************************)
Place(t) == IF status[t] = "absent" THEN "unknown"
            ELSE IF owner[t] # NoWorker THEN owner[t]
            ELSE IF status[t] = "queued" THEN "waiting" ELSE "withdrawn"

Claims == INSTANCE ClaimQueue WITH
            place <- [t \in Tasks |-> Place(t)],
            ran   <- {t \in Tasks : launches[t] > 0}

ClaimSpec == Claims!Spec

(***************************************************************************)
(* The quota test and the insert are two sessions, and a blind cancel can  *)
(* bring a finished row back to an active status; the user's active tasks  *)
(* stay within the limit all the same, because one process runs one API    *)
(* operation at a time.                                                    *)
(***************************************************************************)
QuotaRespected == Cardinality(WithStatus(Active)) <= MaxActive

(***************************************************************************)
(* Tasks start in the order they were submitted, although the candidate a  *)
(* worker read may be old when it claims it.                               *)
(***************************************************************************)
StartsInOrder ==
  [][\A t \in Tasks : (status[t] = "queued" /\ status'[t] = "running")
        => \A u \in 1 .. t - 1 : status[u] # "queued"]_vars

(***************************************************************************)
(* A row that says completed tells the truth about the container: it ended *)
(* by itself with exit code 0, whatever cancel, deadline, recovery and     *)
(* retry of the result write came between.                                 *)
(***************************************************************************)
CompletedMeansExit0 ==
  \A t \in Tasks : status[t] = "completed" => container[t] = "exit0"

(***************************************************************************)
(* The audit trail never runs ahead of the queue: when a final event can   *)
(* be read, the task is no longer waiting or running.  A reader of the     *)
(* stream may therefore act on a final event.                              *)
(***************************************************************************)
NoEarlyAudit ==
  \A t \in Tasks : log[t] \cap Terminal # {}
                     => status[t] \notin {"absent", "queued", "running"}

\* Nothing ends this task by itself any more: its docker client hangs though the
\* container is down.  Only a removal that happens to take five seconds does.
Stuck(t) == InProgress(t) /\ client[t] = "hung" /\ container[t] # "up"

(***************************************************************************)
(* No queued task is passed over for ever: the worker claims it or the     *)
(* user withdraws it, whatever the tasks before it do - cancelled under    *)
(* the worker's hands, running past their deadline, refusing their removal *)
(* - except behind a client that hangs without its container for ever.     *)
(***************************************************************************)
QueuedIsServed ==
  \A t \in Tasks : \/ status[t] = "queued" ~> status[t] # "queued"
                  \/ <>[](\E u \in Tasks : Stuck(u))

(***************************************************************************)
(* A worker that has begun a task and does not crash brings it to a final  *)
(* status: the deadline ends a container that does not end by itself, and  *)
(* a slow removal ends the client with it.  The one way to miss it is a    *)
(* client that hangs after a quick removal.                                *)
(***************************************************************************)
HeldTaskTerminates ==
  \A t \in Tasks : \/ InProgress(t) ~> status[t] \in Terminal
                  \/ <>[]Stuck(t)

(***************************************************************************)
(* Without faults every final status is followed by a final event, so a    *)
(* client that waits for one is answered.                                  *)
(***************************************************************************)
TerminalIsAudited ==
  \A t \in Tasks : status[t] \in Terminal ~> log[t] \cap Terminal # {}

-----------------------------------------------------------------------------
(* The inductive invariant *)

Unclaimed == {"absent", "queued"}
Early     == Unclaimed \cup {"running"}   \* no event has reported an end

\* A row without an owner was never launched, and the container answers for
\* what the row and its events say.
RowInv(t) ==
  /\ status[t] \in Unclaimed => owner[t] = NoWorker
  /\ owner[t] = NoWorker => launches[t] = 0
  /\ launches[t] = 0 => container[t] = "none"
  /\ client[t] = "zero" => container[t] = "exit0"
  /\ launches[t] <= 1
  /\ status[t] = "completed" => container[t] = "exit0"
  /\ log[t] \cap Terminal # {} => status[t] \notin Early

\* A worker owns what it holds, launches it only if nobody did, and has a
\* result that agrees with the container when it writes one.
WorkerInv(w) ==
  /\ wpc[w] = "claim" => cur[w] \in Tasks
  /\ Holding(w) => cur[w] \in Tasks /\ owner[cur[w]] = w
  /\ ~Holding(w) => outcome[w] = "none"
  /\ wpc[w] \in {"announce", "prepare"} => /\ outcome[w] = "none"
                                          /\ launches[cur[w]] = 0
  /\ wpc[w] \in {"remove", "kill", "finish", "emit"} => outcome[w] # "none"
  /\ outcome[w] = "completed" => container[cur[w]] = "exit0"
  /\ wpc[w] = "emit" => status[cur[w]] \notin Early
  /\ \A t \in stale[w] : /\ status[t] \notin Unclaimed
                         /\ wpc[w] = "audit" => status[t] \notin Early

\* What the API operation found is still what it relies on.
ApiInv ==
  /\ apc # "idle" => atask \in Tasks
  /\ apc = "insert" => status[atask] = "absent"
  /\ apc = "cancel" => status[atask] # "absent"
  /\ apc = "audit" => status[atask] \notin Early

(***************************************************************************)
(* Everything the safety of the queue rests on, in one formula that every  *)
(* step preserves: a worker owns what it holds, and rows, events, results  *)
(* and containers agree, however cancel, recovery and finish interleave.   *)
(***************************************************************************)
IInv == /\ TypeOK
        /\ \A t \in Tasks : RowInv(t)
        /\ \A w \in Workers : WorkerInv(w)
        /\ ApiInv

-----------------------------------------------------------------------------
(* What the repository's comments and documents say, and the code does not *)

(***************************************************************************)
(* "queued 任务直接取消" (repository.py:145): a task the API cancelled as      *)
(* queued was not given to a worker.                                       *)
(***************************************************************************)
QueuedCancelWithdraws ==
  (apc = "audit" /\ aseen = "queued") => owner[atask] = NoWorker

(***************************************************************************)
(* "将失去 Worker 心跳的活动任务终止为 failed，避免永久阻塞项目删除"               *)
(* (repository.py:189): a running task that no worker holds is failed.     *)
(***************************************************************************)
OrphanIsRecovered ==
  \A t \in Tasks : (status[t] = "running" /\ ~Held(t)) ~> status[t] # "running"
=============================================================================
