-------------------------- MODULE AgentQueueProofs --------------------------
(***************************************************************************)
(* The safety of the queue of agent runs for every number of workers, runs *)
(* and faults, every lease and every set of runs that were left by the     *)
(* version without jobs.                                                   *)
(***************************************************************************)
EXTENDS AgentQueue, FiniteSetTheorems, TLAPS

USE DEF Terminal, Statuses, Events, Coro, WorkerPC, NoView, Holding, Alive,
        WithStatus, Goto, Fault, AddEvent, Step, Result, jobs, runs, worker, api

\* A database without claimed runs satisfies the invariant.
LEMMA InitIInv == Init => IInv
<1> SUFFICES ASSUME Init PROVE IInv
  OBVIOUS
<1>1. aseen \in Statuses \X BOOLEAN
  BY Zenon DEF Init
<1>2. job \in [Runs -> BOOLEAN] /\ flag \in [Runs -> BOOLEAN] /\ sealed \in [Runs -> BOOLEAN]
  BY DEF Init
<1> QED
  BY <1>1, <1>2, NoWorkerAssumption, BoundsAssumption, RunsAssumption
  DEF Init, IInv, TypeOK, RowInv, WorkerInv, ApiInv, Runs

\* API operations keep the invariant.
LEMMA ApiIInv == IInv /\ ApiStep => IInv'
<1> SUFFICES ASSUME IInv, ApiStep PROVE IInv'
  OBVIOUS
<1> USE NoWorkerAssumption, BoundsAssumption
<1>1. CASE Submit
  BY <1>1 DEF Submit, Oldest, IInv, TypeOK, RowInv, WorkerInv, ApiInv
<1>2. ASSUME NEW r \in Runs, ReadCancel(r) PROVE IInv'
  BY <1>2 DEF ReadCancel, IInv, TypeOK, RowInv, WorkerInv, ApiInv
<1>3. CASE WriteCancel
  BY <1>3 DEF WriteCancel, IInv, TypeOK, RowInv, WorkerInv, ApiInv
<1>4. CASE CancelConflicts
  BY <1>4 DEF CancelConflicts, IInv, TypeOK, RowInv, WorkerInv, ApiInv
<1>5. CASE AuditCancel
  <2>1. log' \in [Runs -> SUBSET Events]
    BY <1>5 DEF AuditCancel, IInv, TypeOK
  <2>2. aseen' \in Statuses \X BOOLEAN
    BY <1>5, Zenon DEF AuditCancel
  <2> QED BY <1>5, <2>1, <2>2 DEF AuditCancel, IInv, TypeOK, RowInv, WorkerInv, ApiInv
<1> QED BY <1>1, <1>2, <1>3, <1>4, <1>5 DEF ApiStep

\* A worker that starts and recovers keeps the invariant.
LEMMA RecoverIInv == ASSUME NEW w \in Workers, IInv, RecoverStep(w) PROVE IInv'
<1> USE NoWorkerAssumption, BoundsAssumption DEF IInv, TypeOK, RowInv, WorkerInv, ApiInv
<1>1. CASE StartWorker(w)
  BY <1>1 DEF StartWorker
<1>2. CASE RecoverAgain(w)
  BY <1>2 DEF RecoverAgain
<1>3. CASE EnsureRead(w)
  BY <1>3 DEF EnsureRead, EnsureReadIn
<1>4. CASE EnsureWrite(w)
  <2>1. CASE Goto(w, "insert", "dead")
    BY <1>4, <2>1 DEF EnsureWrite
  <2>2. CASE Goto(w, "insert", "recover")
    <3>1. job' = [r \in Runs |-> job[r] \/ r \in stale[w]]
      BY <1>4, <2>2 DEF EnsureWrite
    <3>2. ASSUME NEW r \in Runs PROVE (job[r] \/ r \in stale[w]) \in BOOLEAN
      BY Zenon
    <3>3. job' \in [Runs -> BOOLEAN]
      BY <3>1, <3>2, Zenon
    <3> QED BY <1>4, <3>3 DEF EnsureWrite
  <2> QED BY <1>4, <2>1, <2>2 DEF EnsureWrite
<1>5. CASE RecoverRead(w)
  BY <1>5 DEF RecoverRead, Expired, ExpiredIn
<1>6. CASE RecoverWrite(w)
  BY <1>6 DEF RecoverWrite, RecoverTo
<1>7. CASE RecoverAudit(w)
  BY <1>7 DEF RecoverAudit, Oldest
<1> QED BY <1>1, <1>2, <1>3, <1>4, <1>5, <1>6, <1>7 DEF RecoverStep

\* A worker that claims a run and starts its coroutine keeps the invariant.
LEMMA ClaimIInv == ASSUME NEW w \in Workers, IInv, ClaimStep(w) PROVE IInv'
<1> USE NoWorkerAssumption, BoundsAssumption DEF IInv, TypeOK, RowInv, WorkerInv, ApiInv
<1>1. CASE ReadCandidate(w)
  BY <1>1 DEF ReadCandidate, Oldest, Claimable
<1>2. CASE Claim(w)
  <2>1. CASE status[cur[w]] # "queued"
    BY <1>2, <2>1 DEF Claim
  <2>2. CASE status[cur[w]] = "queued"
    <3>1. cur[w] \in Runs /\ taker[cur[w]] = NoWorker
      BY <1>2, <2>2 DEF Claim
    <3>2. /\ wpc[w] = "claim" /\ wpc' = [wpc EXCEPT ![w] = "load"]
          /\ status' = [status EXCEPT ![cur[w]] = "running"]
          /\ owner' = [owner EXCEPT ![cur[w]] = w]
          /\ age' = [age EXCEPT ![cur[w]] = 0]
          /\ taker' = [taker EXCEPT ![cur[w]] = w]
          /\ UNCHANGED <<job, flag, log, coro, result, sealed, begun>>
          /\ UNCHANGED <<cur, stale, api, faults>>
      BY <1>2, <2>2 DEF Claim
    <3>3. TypeOK'
      <4>1. status' \in [Runs -> Statuses] /\ taker' \in [Runs -> Workers \cup {NoWorker}]
        BY <3>1, <3>2
      <4>2. owner' \in [Runs -> Workers \cup {NoWorker}] /\ age' \in [Runs -> 0 .. Lease]
        BY <3>1, <3>2
      <4>3. wpc' \in [Workers -> WorkerPC]
        BY <3>2
      <4> QED BY <3>2, <4>1, <4>2, <4>3
    <3>4. (\A r \in Runs : RowInv(r))'
      BY <3>1, <3>2
    \* Nobody else holds the run: it was given to nobody.
    <3>5. ASSUME NEW x \in Workers PROVE WorkerInv(x)'
      <4>1. CASE x = w
        BY <2>2, <3>1, <3>2, <4>1
      <4>2. CASE x # w
        BY <2>2, <3>1, <3>2, <4>2
      <4> QED BY <4>1, <4>2
    <3>6. ApiInv'
      BY <3>1, <3>2
    <3> QED BY <3>3, <3>4, <3>5, <3>6
  <2> QED BY <2>1, <2>2
<1>3. CASE Load(w)
  BY <1>3 DEF Load
<1>4. CASE LoadFails(w)
  BY <1>4 DEF LoadFails
<1> QED BY <1>1, <1>2, <1>3, <1>4 DEF ClaimStep

\* A worker that watches, releases, fails or dies keeps the invariant.
LEMMA WatchIInv == ASSUME NEW w \in Workers, IInv, WatchStep(w) PROVE IInv'
<1> USE NoWorkerAssumption, BoundsAssumption DEF IInv, TypeOK, RowInv, WorkerInv, ApiInv
<1>1. CASE Heartbeat(w)
  BY <1>1 DEF Heartbeat
<1>2. CASE CancelRun(w)
  BY <1>2 DEF CancelRun, CancelRunIn, Interrupt
<1>3. CASE Reap(w)
  BY <1>3, SMTT(20) DEF Reap
<1>4. CASE WatchFault(w)
  BY <1>4 DEF WatchFault
<1>5. CASE FailClaim(w)
  BY <1>5 DEF FailClaim
<1>6. CASE EmitFailed(w)
  BY <1>6 DEF EmitFailed
<1>7. CASE Release(w)
  <2>1. /\ owner' \in [Runs -> Workers \cup {NoWorker}]
        /\ age' \in [Runs -> 0 .. Lease]
    BY <1>7 DEF Release
  <2>2. /\ wpc' \in [Workers -> WorkerPC] /\ wpc'[w] \in {"idle", "dead"}
        /\ cur' \in [Workers -> Runs \cup {0}]
        /\ \A x \in Workers : x # w => wpc'[x] = wpc[x] /\ cur'[x] = cur[x]
        /\ UNCHANGED <<status, job, flag, log, runs, stale, api, faults>>
    BY <1>7 DEF Release
  <2> QED BY <2>1, <2>2
<1>8. CASE StoreFault(w)
  <2>1. /\ wpc' \in [Workers -> WorkerPC]
        /\ cur' \in [Workers -> Runs \cup {0}]
        /\ stale' \in [Workers -> SUBSET Runs]
        /\ faults' \in 0 .. MaxFaults
    BY <1>8, SMTT(20) DEF StoreFault
  <2>2. /\ wpc'[w] \in {"abort", "fail"} => /\ wpc[w] \in {"fail", "emit"}
                                          /\ cur'[w] = cur[w]
        /\ wpc'[w] \in {"abort", "fail", "dead"}
        /\ \A x \in Workers : x # w => /\ wpc'[x] = wpc[x] /\ cur'[x] = cur[x]
                                      /\ stale'[x] = stale[x]
        /\ UNCHANGED <<status, jobs, log, runs, api>>
    BY <1>8 DEF StoreFault
  <2> QED BY <2>1, <2>2
<1>9. CASE Crash(w)
  <2>1. TypeOK'
    <3> HIDE DEF RowInv, WorkerInv, ApiInv
    <3> QED BY <1>9 DEF Crash
  <2>2. (\A r \in Runs : RowInv(r))'
    BY <1>9 DEF Crash
  \* What another worker loads is no coroutine of this process.
  <2>3. (\A x \in Workers : WorkerInv(x))'
    BY <1>9 DEF Crash
  <2>4. ApiInv'
    BY <1>9 DEF Crash
  <2> QED BY <2>1, <2>2, <2>3, <2>4
<1> QED BY <1>1, <1>2, <1>3, <1>4, <1>5, <1>6, <1>7, <1>8, <1>9 DEF WatchStep

\* A coroutine that goes on keeps the invariant.
LEMMA RunIInv == ASSUME NEW r \in Runs, IInv, RunStep(r) PROVE IInv'
<1> USE NoWorkerAssumption, BoundsAssumption DEF IInv, TypeOK, RowInv, WorkerInv, ApiInv
<1>1. CASE Begin(r)
  BY <1>1 DEF Begin
<1>2. CASE Conclude(r)
  BY <1>2 DEF Conclude
<1>3. CASE WriteResult(r)
  BY <1>3 DEF WriteResult
<1>4. CASE EmitResult(r)
  BY <1>4 DEF EmitResult, EmitResultIf
<1>5. CASE Close(r)
  <2>1. /\ coro[r] = "close" /\ coro' \in [Runs -> Coro]
        /\ coro'[r] \in {"raised", "ended"}
        /\ \A u \in Runs : u # r => coro'[u] = coro[u]
    BY <1>5 DEF Close
  <2>2. sealed' \in [Runs -> BOOLEAN]
    BY <1>5 DEF Close
  <2>3. UNCHANGED <<status, jobs, log, result, begun, taker, worker, api, faults>>
    BY <1>5 DEF Close
  <2> QED BY <2>1, <2>2, <2>3
<1>6. CASE RunFault(r)
  BY <1>6 DEF RunFault
<1> QED BY <1>1, <1>2, <1>3, <1>4, <1>5, <1>6 DEF RunStep

\* The end of a process, the clock and stuttering keep the invariant.
LEMMA OutsideIInv ==
  ASSUME IInv,
         (\E w \in Workers : Shutdown(w) \/ Exit(w)) \/ Tick \/ UNCHANGED vars
  PROVE  IInv'
<1> USE BoundsAssumption DEF IInv, TypeOK, RowInv, WorkerInv, ApiInv
<1>1. ASSUME NEW w \in Workers, Shutdown(w) PROVE IInv'
  <2>1. PICK r \in Runs : Interrupt(r)
    BY <1>1 DEF Shutdown
  <2>2. UNCHANGED <<status, jobs, log, sealed, begun, taker, worker, api, faults>>
    BY <1>1 DEF Shutdown
  <2> QED BY <2>1, <2>2 DEF Interrupt
<1>2. ASSUME NEW w \in Workers, Exit(w) PROVE IInv'
  BY <1>2 DEF Exit
<1>3. CASE Tick
  BY <1>3 DEF Tick
<1>4. CASE UNCHANGED vars
  BY <1>4 DEF vars
<1> QED BY <1>1, <1>2, <1>3, <1>4

\* Every step keeps the invariant.
LEMMA NextIInv == IInv /\ [Next]_vars => IInv'
  BY ApiIInv, RecoverIInv, ClaimIInv, WatchIInv, RunIInv, OutsideIInv
  DEF Next, Operate

(***************************************************************************)
(* The invariant holds in every reachable state.                           *)
(***************************************************************************)
THEOREM AgentInvariance == Spec => []IInv
  BY InitIInv, NextIInv, PTL DEF Spec

(***************************************************************************)
(* Every variable keeps its type.                                          *)
(***************************************************************************)
THEOREM AgentTypes == Spec => []TypeOK
<1>1. IInv => TypeOK
  BY DEF IInv
<1> QED BY <1>1, AgentInvariance, PTL

(***************************************************************************)
(* No run is begun twice, so no model call is paid for twice.              *)
(***************************************************************************)
THEOREM BegunAtMostOnce == Spec => []AtMostOnce
<1>1. IInv => AtMostOnce
  BY DEF IInv, RowInv, AtMostOnce
<1> QED BY <1>1, AgentInvariance, PTL

-----------------------------------------------------------------------------
(* The queue implements ClaimQueue *)

Places == [r \in Runs |-> Place(r)]
Ran    == {r \in Runs : begun[r] > 0}

\* A step that gives no run away and begins none is invisible to ClaimQueue
\* unless it changes the status of a run that may still be claimed.
LEMMA SamePlaces ==
  ASSUME IInv, taker' = taker, begun' = begun,
         \A r \in Runs : \/ status'[r] = status[r]
                         \/ taker[r] # NoWorker
                            /\ status[r] # "absent" /\ status'[r] # "absent"
                         \/ /\ status[r] \notin {"absent", "queued"}
                            /\ status'[r] \notin {"absent", "queued"}
  PROVE  UNCHANGED <<Places, Ran>>
  BY DEF Places, Ran, Place

\* The place of one run changes.
LEMMA OneMoves ==
  ASSUME NEW r \in Runs, NEW p, Place(r)' = p,
         \A u \in Runs : u # r => Place(u)' = Place(u)
  PROVE  Places' = [Places EXCEPT ![r] = p]
  BY DEF Places

\* Submit puts a run into the queue.
LEMMA SubmitRefines == IInv /\ Submit => Claims!Next
<1> SUFFICES ASSUME IInv, Submit PROVE Claims!Next
  OBVIOUS
<1> USE NoWorkerAssumption DEF IInv, TypeOK
<1>1. PICK r \in Runs : status[r] = "absent"
                        /\ status' = [status EXCEPT ![r] = "queued"]
  BY DEF Submit, Oldest
<1>2. UNCHANGED <<taker, begun>> /\ taker[r] = NoWorker
  BY <1>1 DEF Submit, RowInv
<1>3. Place(r) = "unknown" /\ Place(r)' = "waiting"
  BY <1>1, <1>2 DEF Place
<1>4. \A u \in Runs : u # r => Place(u)' = Place(u)
  BY <1>1, <1>2 DEF Place
<1>5. Ran' = Ran
  BY <1>2 DEF Ran
<1>6. Claims!Submit(r)
  BY <1>3, <1>4, <1>5, OneMoves DEF Claims!Submit, Places, Ran
<1> QED BY <1>6 DEF Claims!Next

\* A cancellation withdraws a run that is still queued, and is otherwise
\* invisible: a run that was claimed since stays with its worker.
LEMMA CancelRefines == IInv /\ WriteCancel => [Claims!Next]_<<Places, Ran>>
<1> SUFFICES ASSUME IInv, WriteCancel PROVE [Claims!Next]_<<Places, Ran>>
  OBVIOUS
<1> USE NoWorkerAssumption DEF IInv, TypeOK
<1>1. PICK r \in Runs : r = arun /\ status[r] # "absent"
  BY DEF WriteCancel, ApiInv
<1>2. /\ status'[r] \in {status[r], "cancelled"}
      /\ \A u \in Runs : u # r => status'[u] = status[u]
      /\ taker' = taker /\ begun' = begun
  BY <1>1 DEF WriteCancel
<1>3. CASE status[r] = "queued" /\ status'[r] = "cancelled"
  <2>1. taker[r] = NoWorker
    BY <1>3 DEF RowInv
  <2>2. Place(r) = "waiting" /\ Place(r)' = "withdrawn"
    BY <1>2, <1>3, <2>1 DEF Place
  <2>3. \A u \in Runs : u # r => Place(u)' = Place(u)
    BY <1>2 DEF Place
  <2>4. Ran' = Ran
    BY <1>2 DEF Ran
  <2>5. Claims!Withdraw(r)
    BY <2>2, <2>3, <2>4, OneMoves DEF Claims!Withdraw, Places, Ran
  <2> QED BY <2>5 DEF Claims!Next
<1>4. CASE ~(status[r] = "queued" /\ status'[r] = "cancelled")
  BY <1>1, <1>2, <1>4, SamePlaces
<1> QED BY <1>3, <1>4

\* Only a run that still waits is taken.
LEMMA ClaimRefines ==
  ASSUME IInv, NEW w \in Workers, Claim(w)
  PROVE  [Claims!Next]_<<Places, Ran>>
<1> USE NoWorkerAssumption DEF IInv, TypeOK
<1>1. PICK r \in Runs : r = cur[w]
  BY DEF Claim, WorkerInv
<1>2. CASE status[r] = "queued"
  <2>1. taker[r] = NoWorker
    BY <1>2 DEF RowInv
  <2>2. /\ status'[r] = "running" /\ taker'[r] = w
        /\ \A u \in Runs : u # r => status'[u] = status[u] /\ taker'[u] = taker[u]
        /\ begun' = begun
    BY <1>1, <1>2 DEF Claim
  <2>3. Place(r) = "waiting" /\ Place(r)' = w
    BY <1>2, <2>1, <2>2 DEF Place
  <2>4. \A u \in Runs : u # r => Place(u)' = Place(u)
    BY <2>2 DEF Place
  <2>5. Ran' = Ran
    BY <2>2 DEF Ran
  <2>6. Claims!Take(r, w)
    BY <2>3, <2>4, <2>5, OneMoves DEF Claims!Take, Places, Ran
  <2> QED BY <2>6 DEF Claims!Next
<1>3. CASE status[r] # "queued"
  BY <1>1, <1>3, SamePlaces DEF Claim
<1> QED BY <1>2, <1>3

\* A coroutine begins in the process its run was given to, and only once.
LEMMA BeginRefines == ASSUME IInv, NEW r \in Runs, Begin(r) PROVE Claims!Next
<1> USE NoWorkerAssumption DEF IInv, TypeOK
<1>1. begun[r] = 0 /\ taker[r] \in Workers /\ status[r] # "absent"
  BY DEF Begin, RowInv
<1>2. /\ begun'[r] = 1
      /\ \A u \in Runs : u # r => begun'[u] = begun[u]
      /\ UNCHANGED <<status, taker>>
  BY <1>1 DEF Begin
<1>3. Place(r) \in Workers /\ \A u \in Runs : Place(u)' = Place(u)
  BY <1>1, <1>2 DEF Place
<1>4. r \notin Ran /\ Ran' = Ran \cup {r}
  BY <1>1, <1>2 DEF Ran
<1>5. Claims!Run(r)
  BY <1>3, <1>4 DEF Claims!Run, Ran
<1> QED BY <1>5 DEF Claims!Next

\* Every step of the queue is a step of ClaimQueue or invisible to it.
LEMMA StepRefines == IInv /\ [Next]_vars => [Claims!Next]_(Claims!vars)
<1> SUFFICES ASSUME IInv, [Next]_vars PROVE [Claims!Next]_<<Places, Ran>>
  BY DEF Claims!vars, Places, Ran
<1> USE NoWorkerAssumption
\* Most steps touch neither status nor taker nor begun.
<1>1. CASE UNCHANGED <<status, taker, begun>>
  BY <1>1, SamePlaces
<1>2. CASE ApiStep
  BY <1>1, <1>2, SubmitRefines, CancelRefines
  DEF ApiStep, ReadCancel, CancelConflicts, AuditCancel
<1>3. ASSUME NEW w \in Workers, RecoverStep(w) PROVE [Claims!Next]_<<Places, Ran>>
  <2>1. CASE RecoverWrite(w)
    BY <2>1, SamePlaces DEF RecoverWrite, RecoverTo, IInv, TypeOK, WorkerInv
  <2> QED
    BY <1>1, <1>3, <2>1
    DEF RecoverStep, StartWorker, RecoverAgain, EnsureRead, EnsureReadIn,
        EnsureWrite, RecoverRead, RecoverAudit
<1>4. ASSUME NEW w \in Workers, ClaimStep(w) PROVE [Claims!Next]_<<Places, Ran>>
  BY <1>1, <1>4, ClaimRefines DEF ClaimStep, ReadCandidate, Load, LoadFails
<1>5. ASSUME NEW w \in Workers, WatchStep(w) PROVE [Claims!Next]_<<Places, Ran>>
  <2>1. CASE FailClaim(w)
    BY <2>1, SamePlaces DEF FailClaim, IInv, TypeOK, WorkerInv, RowInv
  <2> QED
    BY <1>1, <1>5, <2>1
    DEF WatchStep, Heartbeat, CancelRun, CancelRunIn, Interrupt, Reap, WatchFault,
        EmitFailed, Release, StoreFault, Crash
<1>6. ASSUME NEW r \in Runs, RunStep(r) PROVE [Claims!Next]_<<Places, Ran>>
  <2>1. CASE WriteResult(r)
    BY <2>1, SamePlaces DEF WriteResult, IInv, TypeOK, RowInv
  <2> QED
    BY <1>1, <1>6, <2>1, BeginRefines
    DEF RunStep, Conclude, EmitResult, EmitResultIf, Close, RunFault
<1>7. ASSUME NEW w \in Workers, Shutdown(w) \/ Exit(w)
      PROVE  [Claims!Next]_<<Places, Ran>>
  BY <1>1, <1>7 DEF Shutdown, Exit, Interrupt
<1>8. CASE Tick \/ UNCHANGED vars
  BY <1>1, <1>8 DEF Tick, vars
<1> QED
  BY <1>2, <1>3, <1>4, <1>5, <1>6, <1>7, <1>8 DEF Next, Operate

\* Runs of the version without jobs wait, or were withdrawn from this queue.
LEMMA InitRefines == Init => Claims!Init
  BY DEF Init, Claims!Init, Claims!Places, Place

(***************************************************************************)
(* The queue of agent runs implements ClaimQueue, although a job row       *)
(* forgets its worker: a run is given to one worker, and begun by it once. *)
(***************************************************************************)
THEOREM AgentRefinement == Spec => ClaimSpec
<1>1. Init => Claims!Init
  BY InitRefines
<1> QED BY <1>1, StepRefines, AgentInvariance, PTL DEF Spec, ClaimSpec, Claims!Spec

-----------------------------------------------------------------------------
(* What the row says at rest has been reported *)

\* Who wrote the final status of a run and has still to report it.
CancelReports(r) == /\ apc = "audit" /\ arun = r
                    /\ aseen[1] = "queued" /\ status[r] = "cancelled"
RunReports(r)    == coro[r] = "emit" /\ result[r] = status[r]
WorkerReports(w, r) ==
  /\ status[r] = "failed"
  /\ \/ wpc[w] = "emit" /\ cur[w] = r
     \/ wpc[w] = "audit" /\ r \in stale[w]

Reported(r) == \/ status[r] \notin Terminal
               \/ status[r] \in log[r]
               \/ CancelReports(r)
               \/ RunReports(r)
               \/ \E w \in Workers : WorkerReports(w, r)

ReportInv == faults = 0 => \A r \in Runs : Reported(r)

LEMMA InitReport == Init => ReportInv
  BY DEF Init, ReportInv, Reported

USE DEF CancelReports, RunReports, WorkerReports

LEMMA ApiReport == ASSUME IInv, ApiStep, NEW r \in Runs, Reported(r)
                   PROVE  Reported(r)'
<1> USE DEF IInv, TypeOK
<1>1. CASE Submit
  BY <1>1 DEF Submit, Oldest, Reported
<1>2. ASSUME NEW u \in Runs, ReadCancel(u) PROVE Reported(r)'
  BY <1>2 DEF ReadCancel, Reported
<1>3. CASE WriteCancel
  BY <1>3 DEF WriteCancel, ApiInv, Reported
<1>4. CASE CancelConflicts
  BY <1>4 DEF CancelConflicts, Reported
<1>5. CASE AuditCancel
  BY <1>5 DEF AuditCancel, ApiInv, Reported
<1> QED BY <1>1, <1>2, <1>3, <1>4, <1>5 DEF ApiStep

\* The last row a worker recovered is reported before it goes on.
LEMMA AuditReport ==
  ASSUME IInv, NEW w \in Workers, RecoverAudit(w), NEW r \in Runs, Reported(r)
  PROVE  Reported(r)'
<1> USE DEF IInv, TypeOK
<1>1. PICK u \in stale[w] : /\ log' = [log EXCEPT ![u] = @ \cup {"failed"}]
                            /\ stale' = [stale EXCEPT ![w] = @ \ {u}]
  BY DEF RecoverAudit, Oldest
<1>2. UNCHANGED <<status, coro, result, apc, arun, aseen, cur>>
  BY DEF RecoverAudit
<1>3. \A x \in Workers : x # w => wpc'[x] = wpc[x] /\ stale'[x] = stale[x]
  BY <1>1 DEF RecoverAudit
<1>4. CASE r = u
  BY <1>1, <1>2, <1>3, <1>4 DEF RecoverAudit, Reported
<1>5. CASE r # u
  <2>1. r \in stale[w] => Cardinality(stale[w]) # 1
    <3>1. IsFiniteSet(Runs)
      BY FS_Interval, BoundsAssumption DEF Runs
    <3>2. stale[w] \subseteq Runs
      OBVIOUS
    <3>3. IsFiniteSet(stale[w])
      BY <3>1, <3>2, FS_Subset
    <3> QED BY <1>1, <1>5, <3>3, FS_Singleton
  <2>2. r \in stale[w] => wpc'[w] = "audit" /\ r \in stale'[w]
    BY <1>1, <1>5, <2>1 DEF RecoverAudit
  <2> QED BY <1>1, <1>2, <1>3, <1>5, <2>2 DEF RecoverAudit, Reported
<1> QED BY <1>4, <1>5

LEMMA RecoverReport ==
  ASSUME IInv, NEW w \in Workers, RecoverStep(w), NEW r \in Runs, Reported(r)
  PROVE  Reported(r)'
<1> USE DEF IInv, TypeOK
<1>1. CASE RecoverWrite(w)
  BY <1>1 DEF RecoverWrite, RecoverTo, Reported
<1>2. CASE StartWorker(w) \/ RecoverAgain(w) \/ EnsureRead(w) \/ EnsureWrite(w)
           \/ RecoverRead(w)
  BY <1>2 DEF StartWorker, RecoverAgain, EnsureRead, EnsureReadIn, EnsureWrite,
              RecoverRead, Reported
<1> QED BY <1>1, <1>2, AuditReport DEF RecoverStep

LEMMA ClaimReport ==
  ASSUME IInv, NEW w \in Workers, ClaimStep(w), NEW r \in Runs, Reported(r)
  PROVE  Reported(r)'
<1> USE DEF IInv, TypeOK
<1>1. CASE ReadCandidate(w)
  BY <1>1 DEF ReadCandidate, Reported
<1>2. CASE Claim(w)
  BY <1>2 DEF Claim, WorkerInv, Reported
<1>3. CASE Load(w)
  BY <1>3 DEF Load, WorkerInv, Reported
<1>4. CASE LoadFails(w)
  BY <1>4 DEF LoadFails, Reported
<1> QED BY <1>1, <1>2, <1>3, <1>4 DEF ClaimStep

\* Only a fault makes a worker leave without a report.
LEMMA WatchReport ==
  ASSUME IInv, NEW w \in Workers, WatchStep(w), NEW r \in Runs, Reported(r),
         faults' = 0
  PROVE  Reported(r)'
<1> USE DEF IInv, TypeOK
<1>1. CASE Heartbeat(w) \/ CancelRun(w)
  BY <1>1 DEF Heartbeat, CancelRun, CancelRunIn, Interrupt, Reported
<1>2. CASE Reap(w) \/ Release(w)
  <2>1. /\ wpc[w] \notin {"emit", "audit"}
        /\ \A x \in Workers : x # w => wpc'[x] = wpc[x] /\ cur'[x] = cur[x]
        /\ UNCHANGED <<status, log, coro, result, apc, arun, aseen, stale>>
    BY <1>2 DEF Reap, Release
  <2> QED BY <2>1 DEF Reported
<1>3. CASE FailClaim(w)
  <2>1. /\ cur[w] \in Runs /\ status'[cur[w]] = "failed"
        /\ \A u \in Runs : u # cur[w] => status'[u] = status[u]
        /\ wpc[w] = "fail" /\ wpc'[w] = "emit"
        /\ \A x \in Workers : x # w => wpc'[x] = wpc[x]
        /\ UNCHANGED <<log, coro, result, apc, arun, aseen, stale, cur>>
    BY <1>3 DEF FailClaim, WorkerInv
  <2> HIDE DEF IInv, TypeOK
  <2>2. CASE r = cur[w]
    BY <2>1, <2>2 DEF Reported
  <2>3. CASE r # cur[w]
    BY <2>1, <2>3 DEF Reported
  <2> QED BY <2>2, <2>3
<1>4. CASE EmitFailed(w)
  BY <1>4 DEF EmitFailed, WorkerInv, Reported
<1>5. CASE WatchFault(w) \/ StoreFault(w) \/ Crash(w)
  BY <1>5 DEF WatchFault, StoreFault, Crash
<1> QED BY <1>1, <1>2, <1>3, <1>4, <1>5 DEF WatchStep

LEMMA RunReport ==
  ASSUME IInv, NEW u \in Runs, RunStep(u), NEW r \in Runs, Reported(r),
         faults' = 0
  PROVE  Reported(r)'
<1> USE DEF IInv, TypeOK
<1>1. CASE Begin(u) \/ Conclude(u) \/ Close(u)
  BY <1>1 DEF Begin, Conclude, Close, Reported
<1>2. CASE WriteResult(u)
  BY <1>2 DEF WriteResult, Reported
<1>3. CASE EmitResult(u)
  BY <1>3 DEF EmitResult, EmitResultIf, Reported
<1>4. CASE RunFault(u)
  BY <1>4 DEF RunFault
<1> QED BY <1>1, <1>2, <1>3, <1>4 DEF RunStep

\* Faults are never forgotten.
LEMMA FaultsGrow == ASSUME IInv, [Next]_vars PROVE faults' >= faults
<1> USE BoundsAssumption DEF IInv, TypeOK
<1>1. ASSUME NEW w \in Workers, RecoverStep(w) \/ ClaimStep(w) PROVE faults' = faults
  BY <1>1
  DEF RecoverStep, StartWorker, RecoverAgain, EnsureRead, EnsureReadIn, EnsureWrite,
      RecoverRead, RecoverWrite, RecoverTo, RecoverAudit, ClaimStep, ReadCandidate,
      Claim, Load, LoadFails
<1>2. ASSUME NEW w \in Workers, WatchStep(w) PROVE faults' \in {faults, faults + 1}
  BY <1>2
  DEF WatchStep, Heartbeat, CancelRun, CancelRunIn, Reap, WatchFault, FailClaim,
      EmitFailed, Release, StoreFault, Crash
<1>3. ASSUME NEW r \in Runs, RunStep(r) PROVE faults' \in {faults, faults + 1}
  BY <1>3
  DEF RunStep, Begin, Conclude, WriteResult, EmitResult, EmitResultIf,
      Close, RunFault
<1>4. CASE ApiStep
  <2>1. faults' = faults
    BY <1>4 DEF ApiStep, Submit, ReadCancel, WriteCancel, CancelConflicts, AuditCancel
  <2> QED BY <2>1
<1>5. CASE (\E w \in Workers : Shutdown(w) \/ Exit(w)) \/ Tick \/ UNCHANGED vars
  BY <1>5 DEF Shutdown, Exit, Tick, vars
<1> QED BY <1>1, <1>2, <1>3, <1>4, <1>5 DEF Next, Operate

LEMMA StepReport == IInv /\ ReportInv /\ [Next]_vars => ReportInv'
<1> SUFFICES ASSUME IInv, ReportInv, [Next]_vars, faults' = 0, NEW r \in Runs
             PROVE  Reported(r)'
  BY DEF ReportInv
<1> USE DEF IInv, TypeOK
<1>1. faults = 0
  BY FaultsGrow, BoundsAssumption
<1>2. Reported(r)
  BY <1>1 DEF ReportInv
<1>3. CASE (\E w \in Workers : Shutdown(w) \/ Exit(w)) \/ Tick \/ UNCHANGED vars
  BY <1>2, <1>3 DEF Shutdown, Interrupt, Exit, Tick, vars, Reported
<1> QED
  BY <1>2, <1>3, ApiReport, RecoverReport, ClaimReport, WatchReport, RunReport
  DEF Next, Operate

(***************************************************************************)
(* In a behaviour without faults the row of a run nobody works at says     *)
(* what an event has reported.                                             *)
(***************************************************************************)
THEOREM RowIsReported == Spec => []StatusIsReported
<1>1. IInv /\ ReportInv => StatusIsReported
  BY DEF IInv, TypeOK, ReportInv, Reported, StatusIsReported, AtRest, Held
<1>2. Spec => []ReportInv
  BY InitReport, StepReport, AgentInvariance, PTL DEF Spec
<1> QED BY <1>1, <1>2, AgentInvariance, PTL
=============================================================================
