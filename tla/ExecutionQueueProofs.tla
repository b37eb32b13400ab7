------------------------ MODULE ExecutionQueueProofs ------------------------
(***************************************************************************)
(* The safety of the execution queue for every number of workers, tasks,   *)
(* active tasks and faults and every lease.  Each group of steps has a     *)
(* lemma that it preserves the inductive invariant IInv.                   *)
(***************************************************************************)
EXTENDS ExecutionQueue, FiniteSetTheorems, TLAPS

\* A fresh database satisfies the invariant.
LEMMA InitIInv == Init => IInv
  BY NoWorkerAssumption, BoundsAssumption
  DEF Init, IInv, TypeOK, RowInv, WorkerInv, ApiInv, Holding, Tasks, Statuses,
      Active, Running, Terminal, Events, WorkerPC, ApiPC, Unclaimed, Early

USE DEF Statuses, Active, Running, Terminal, Events, WorkerPC, ApiPC,
        Unclaimed, Early, Holding, WithStatus, Goto, Fault, AddEvent,
        Released, row, worker, api, docker

\* API operations keep the invariant.
LEMMA ApiIInv == IInv /\ ApiStep => IInv'
<1> SUFFICES ASSUME IInv, ApiStep PROVE IInv'
  OBVIOUS
<1> USE NoWorkerAssumption, BoundsAssumption
<1>1. CASE Submit
  BY <1>1 DEF Submit, Oldest, IInv, TypeOK, RowInv, WorkerInv, ApiInv
<1>2. CASE Insert
  BY <1>2 DEF Insert, IInv, TypeOK, RowInv, WorkerInv, ApiInv
<1>3. CASE AnnounceQueued
  BY <1>3 DEF AnnounceQueued, IInv, TypeOK, RowInv, WorkerInv, ApiInv
<1>4. ASSUME NEW t \in Tasks, ReadCancel(t) PROVE IInv'
  BY <1>4 DEF ReadCancel, IInv, TypeOK, RowInv, WorkerInv, ApiInv
<1>5. CASE WriteCancel
  BY <1>5 DEF WriteCancel, IInv, TypeOK, RowInv, WorkerInv, ApiInv
<1>6. CASE AuditCancel
  BY <1>6 DEF AuditCancel, AuditCancelOf, IInv, TypeOK, RowInv, WorkerInv, ApiInv
<1>7. CASE ApiFault
  BY <1>7 DEF ApiFault, IInv, TypeOK, RowInv, WorkerInv, ApiInv
<1> QED BY <1>1, <1>2, <1>3, <1>4, <1>5, <1>6, <1>7 DEF ApiStep

\* A worker that starts and recovers keeps the invariant.
LEMMA StartIInv == ASSUME NEW w \in Workers, IInv, StartStep(w) PROVE IInv'
<1> USE NoWorkerAssumption, BoundsAssumption DEF IInv, TypeOK, RowInv, WorkerInv, ApiInv
<1>1. CASE StartWorker(w)
  BY <1>1 DEF StartWorker
<1>2. CASE RecoverRead(w)
  BY <1>2 DEF RecoverRead, Expired
<1>3. CASE RecoverWrite(w)
  BY <1>3 DEF RecoverWrite, RecoverTo
<1>4. CASE RecoverAudit(w)
  BY <1>4 DEF RecoverAudit, Oldest
<1> QED BY <1>1, <1>2, <1>3, <1>4 DEF StartStep

\* A worker that claims and launches keeps the invariant.
LEMMA ClaimIInv == ASSUME NEW w \in Workers, IInv, ClaimStep(w) PROVE IInv'
<1> USE NoWorkerAssumption, BoundsAssumption DEF IInv, TypeOK, RowInv, WorkerInv, ApiInv
<1>1. CASE ReadCandidate(w)
  BY <1>1 DEF ReadCandidate, ReadOneOf, Oldest
<1>2. CASE Claim(w)
  <2> USE <1>2 DEF Claim, ClaimIn
  <2>1. CASE status[cur[w]] # "queued"
    BY <2>1, SMTT(30)
  <2>2. CASE status[cur[w]] = "queued"
    <3>1. cur[w] \in Tasks /\ owner[cur[w]] = NoWorker /\ launches[cur[w]] = 0
      BY <2>2
    <3>2. TypeOK'
      BY <2>2, <3>1, SMTT(30)
    <3>3. (\A t \in Tasks : RowInv(t))'
      BY <2>2, <3>1
    \* No other worker holds the row: it has no owner.
    <3>4. ASSUME NEW x \in Workers PROVE WorkerInv(x)'
      <4>1. CASE x = w
        BY <2>2, <3>1, <4>1
      <4>2. CASE x # w
        BY <2>2, <3>1, <4>2
      <4> QED BY <4>1, <4>2
    <3>5. ApiInv'
      BY <2>2, <3>1
    <3> QED BY <3>2, <3>3, <3>4, <3>5
  <2> QED BY <2>1, <2>2
<1>3. CASE AnnounceStarted(w)
  BY <1>3 DEF AnnounceStarted
<1>4. CASE Reject(w)
  BY <1>4 DEF Reject
<1>5. CASE LaunchFails(w)
  BY <1>5 DEF LaunchFails
<1>6. CASE Launch(w)
  BY <1>6 DEF Launch
<1> QED BY <1>1, <1>2, <1>3, <1>4, <1>5, <1>6 DEF ClaimStep

\* A worker that watches its container keeps the invariant.
LEMMA LoopIInv == ASSUME NEW w \in Workers, IInv, LoopStep(w) PROVE IInv'
<1> USE NoWorkerAssumption, BoundsAssumption DEF IInv, TypeOK, RowInv, WorkerInv, ApiInv
<1>1. CASE Heartbeat(w)
  BY <1>1 DEF Heartbeat
<1>2. CASE ObserveCancel(w)
  BY <1>2 DEF ObserveCancel, ClientRuns
<1>3. CASE Deadline(w)
  BY <1>3 DEF Deadline, DeadlineIn, ClientRuns
<1>4. CASE RemoveSucceeds(w)
  BY <1>4 DEF RemoveSucceeds
<1>5. CASE RemoveFails(w)
  BY <1>5 DEF RemoveFails
<1>6. CASE KillClient(w)
  BY <1>6 DEF KillClient, AfterSlowRemoval, ClientRuns
<1>7. CASE LoopEnds(w)
  BY <1>7 DEF LoopEnds, LoopEndsWith, ClientRuns
<1>8. CASE LoopFault(w)
  BY <1>8, SMTT(30) DEF LoopFault
<1> QED BY <1>1, <1>2, <1>3, <1>4, <1>5, <1>6, <1>7, <1>8 DEF LoopStep

\* A worker that finishes or dies keeps the invariant.
LEMMA FinishIInv == ASSUME NEW w \in Workers, IInv, FinishStep(w) PROVE IInv'
<1> USE NoWorkerAssumption, BoundsAssumption DEF IInv, TypeOK, RowInv, WorkerInv, ApiInv
<1>1. CASE Finish(w)
  BY <1>1, SMTT(30) DEF Finish, FinishIn
<1>2. CASE AuditFinish(w)
  BY <1>2 DEF AuditFinish
<1>3. CASE FinishFault(w)
  BY <1>3 DEF FinishFault
<1>4. CASE Crash(w)
  BY <1>4 DEF Crash
<1> QED BY <1>1, <1>2, <1>3, <1>4 DEF FinishStep

\* Steps outside both programs, and stuttering, keep the invariant.
DockerStep == \E t \in Tasks : ContainerExit(t) \/ ClientReturns(t) \/ ClientLost(t)

LEMMA OutsideIInv ==
  IInv /\ (DockerStep \/ Tick \/ UNCHANGED vars) => IInv'
<1> SUFFICES ASSUME IInv,
                    DockerStep \/ Tick \/ UNCHANGED vars
             PROVE  IInv'
  OBVIOUS
<1> USE BoundsAssumption DEF IInv, TypeOK, RowInv, WorkerInv, ApiInv
<1>1. ASSUME NEW t \in Tasks, ContainerExit(t) PROVE IInv'
  BY <1>1 DEF ContainerExit
<1>2. ASSUME NEW t \in Tasks, ClientReturns(t) PROVE IInv'
  BY <1>2 DEF ClientReturns
<1>3. ASSUME NEW t \in Tasks, ClientLost(t) PROVE IInv'
  BY <1>3 DEF ClientLost
<1>4. CASE Tick
  BY <1>4 DEF Tick
<1>5. CASE UNCHANGED vars
  BY <1>5 DEF vars
<1> QED BY <1>1, <1>2, <1>3, <1>4, <1>5 DEF DockerStep

\* Every step keeps the invariant.
LEMMA NextIInv == IInv /\ [Next]_vars => IInv'
  BY ApiIInv, StartIInv, ClaimIInv, LoopIInv, FinishIInv, OutsideIInv
  DEF Next, WorkerStep, DockerStep

(***************************************************************************)
(* The invariant holds in every reachable state.                           *)
(***************************************************************************)
THEOREM Invariance == Spec => []IInv
  BY InitIInv, NextIInv, PTL DEF Spec

(***************************************************************************)
(* Every variable keeps its type.                                          *)
(***************************************************************************)
THEOREM TypeCorrect == Spec => []TypeOK
<1>1. IInv => TypeOK
  BY DEF IInv
<1> QED BY <1>1, Invariance, PTL

(***************************************************************************)
(* No command is executed twice (worker.py: 不自动重试以避免重复执行命令).     *)
(***************************************************************************)
THEOREM ExecutedAtMostOnce == Spec => []AtMostOnce
<1>1. IInv => AtMostOnce
  BY DEF IInv, RowInv, AtMostOnce
<1> QED BY <1>1, Invariance, PTL

(***************************************************************************)
(* A completed row means that the container ended with exit code 0.        *)
(***************************************************************************)
THEOREM CompletedIsTrue == Spec => []CompletedMeansExit0
<1>1. IInv => CompletedMeansExit0
  BY DEF IInv, RowInv, CompletedMeansExit0
<1> QED BY <1>1, Invariance, PTL

(***************************************************************************)
(* A final event is never readable before the row left queued and running. *)
(***************************************************************************)
THEOREM AuditFollowsQueue == Spec => []NoEarlyAudit
<1>1. IInv => NoEarlyAudit
  BY DEF IInv, RowInv, NoEarlyAudit
<1> QED BY <1>1, Invariance, PTL

-----------------------------------------------------------------------------
(* The queue implements ClaimQueue *)

Places == [t \in Tasks |-> Place(t)]
Ran    == {t \in Tasks : launches[t] > 0}

\* A step that keeps every row's owner, and its status but for the steps
\* between claimed statuses, is invisible to ClaimQueue.
LEMMA SamePlaces ==
  ASSUME IInv, owner' = owner, launches' = launches,
         \A t \in Tasks : \/ status'[t] = status[t]
                          \/ /\ owner[t] # NoWorker
                             /\ status[t] # "absent" /\ status'[t] # "absent"
                          \/ status[t] \notin Unclaimed /\ status'[t] \notin Unclaimed
  PROVE  UNCHANGED <<Places, Ran>>
  BY DEF Places, Ran, Place

\* Every step of the queue is a step of ClaimQueue or invisible to it.
LEMMA StepRefines == IInv /\ [Next]_vars => [Claims!Next]_(Claims!vars)
<1> SUFFICES ASSUME IInv, [Next]_vars PROVE [Claims!Next]_<<Places, Ran>>
  BY DEF Claims!vars, Places, Ran
<1> USE NoWorkerAssumption, BoundsAssumption DEF IInv, TypeOK
<1>1. CASE Insert
  <2>1. atask \in Tasks /\ status[atask] = "absent" /\ owner[atask] = NoWorker
    BY <1>1 DEF Insert, ApiInv, RowInv
  <2>2. Claims!Submit(atask)
    BY <1>1, <2>1 DEF Insert, Claims!Submit, Place
  <2> QED BY <2>1, <2>2 DEF Claims!Next
<1>2. CASE WriteCancel
  <2>1. atask \in Tasks /\ status[atask] # "absent"
    BY <1>2 DEF WriteCancel, ApiInv
  <2>2. CASE aseen \in {"queued", "running"} /\ status[atask] = "queued"
    <3>1. owner[atask] = NoWorker
      BY <2>1, <2>2 DEF RowInv
    <3>2. /\ status'[atask] \notin Unclaimed
          /\ \A t \in Tasks \ {atask} : status'[t] = status[t]
          /\ owner' = owner /\ launches' = launches
      BY <1>2, <2>1, <2>2 DEF WriteCancel
    <3>3. PICK t \in Tasks : t = atask
      BY <2>1
    <3>4. Place(t) = "waiting" /\ Place(t)' = "withdrawn"
      BY <2>2, <3>1, <3>2, <3>3 DEF Place
    <3>5. \A u \in Tasks : u # t => Place(u)' = Place(u)
      BY <3>2, <3>3 DEF Place
    <3>6. Ran' = Ran
      BY <3>2 DEF Ran
    <3>7. Claims!Withdraw(t)
      BY <3>4, <3>5, <3>6 DEF Claims!Withdraw, Ran
    <3> QED BY <3>7 DEF Claims!Next
  <2>3. CASE ~(aseen \in {"queued", "running"} /\ status[atask] = "queued")
    BY <1>2, <2>1, <2>3, SamePlaces DEF WriteCancel
  <2> QED BY <2>2, <2>3
<1>3. ASSUME NEW w \in Workers, Claim(w) PROVE [Claims!Next]_<<Places, Ran>>
  <2>1. cur[w] \in Tasks
    BY <1>3 DEF Claim, ClaimIn, WorkerInv
  <2>2. CASE status[cur[w]] = "queued"
    <3>1. owner[cur[w]] = NoWorker
      BY <2>1, <2>2 DEF RowInv
    <3>2. PICK t \in Tasks : t = cur[w]
      BY <2>1
    <3>3. /\ status'[t] = "running" /\ owner'[t] = w
          /\ \A u \in Tasks : u # t => status'[u] = status[u] /\ owner'[u] = owner[u]
          /\ launches' = launches
      BY <1>3, <2>2, <3>2 DEF Claim, ClaimIn
    <3>4. Place(t) = "waiting" /\ Place(t)' = w
      BY <2>2, <3>1, <3>2, <3>3 DEF Place
    <3>5. \A u \in Tasks : u # t => Place(u)' = Place(u)
      BY <3>3 DEF Place
    <3>6. Ran' = Ran
      BY <3>3 DEF Ran
    <3>7. Claims!Take(t, w)
      BY <3>4, <3>5, <3>6 DEF Claims!Take, Ran
    <3> QED BY <3>7 DEF Claims!Next
  <2>3. CASE status[cur[w]] # "queued"
    BY <1>3, <2>1, <2>3, SamePlaces DEF Claim, ClaimIn
  <2> QED BY <2>2, <2>3
<1>4. ASSUME NEW w \in Workers, Launch(w) PROVE [Claims!Next]_<<Places, Ran>>
  <2>1. /\ cur[w] \in Tasks /\ owner[cur[w]] = w /\ launches[cur[w]] = 0
        /\ status[cur[w]] # "absent"
    BY <1>4 DEF Launch, WorkerInv, RowInv
  <2>2. PICK t \in Tasks : t = cur[w]
    BY <2>1
  <2>3. /\ launches'[t] = 1
        /\ \A u \in Tasks : u # t => launches'[u] = launches[u]
        /\ status' = status /\ owner' = owner
    BY <1>4, <2>1, <2>2 DEF Launch
  <2>4. Place(t) = w /\ \A u \in Tasks : Place(u)' = Place(u)
    BY <2>1, <2>2, <2>3 DEF Place
  <2>5. t \notin Ran /\ Ran' = Ran \cup {t}
    BY <2>1, <2>2, <2>3 DEF Ran
  <2>6. Claims!Run(t)
    BY <2>4, <2>5 DEF Claims!Run, Ran
  <2> QED BY <2>6 DEF Claims!Next
<1>5. ASSUME NEW w \in Workers, RecoverWrite(w) PROVE [Claims!Next]_<<Places, Ran>>
  BY <1>5, SamePlaces DEF RecoverWrite, RecoverTo, WorkerInv
<1>6. ASSUME NEW w \in Workers, Finish(w) PROVE [Claims!Next]_<<Places, Ran>>
  BY <1>6, SamePlaces DEF Finish, FinishIn, WorkerInv
\* No other step touches status, owner or launches.
<1>7. CASE UNCHANGED <<status, owner, launches>>
  BY <1>7, SamePlaces
<1>8. ASSUME NEW w \in Workers, WorkerStep(w) PROVE [Claims!Next]_<<Places, Ran>>
  <2>1. CASE StartStep(w)
    BY <2>1, <1>5, <1>7 DEF StartStep, StartWorker, RecoverRead, RecoverAudit
  <2>2. CASE ClaimStep(w)
    BY <2>2, <1>3, <1>4, <1>7
    DEF ClaimStep, ReadCandidate, ReadOneOf, AnnounceStarted, Reject, LaunchFails
  <2>3. CASE LoopStep(w)
    BY <2>3, <1>7
    DEF LoopStep, Heartbeat, ObserveCancel, Deadline, DeadlineIn, RemoveSucceeds,
        RemoveFails, KillClient, AfterSlowRemoval, LoopEnds, LoopEndsWith, LoopFault
  <2>4. CASE FinishStep(w)
    BY <2>4, <1>6, <1>7 DEF FinishStep, AuditFinish, FinishFault, Crash
  <2> QED BY <1>8, <2>1, <2>2, <2>3, <2>4 DEF WorkerStep
<1>9. CASE ApiStep
  BY <1>9, <1>1, <1>2, <1>7
  DEF ApiStep, Submit, AnnounceQueued, ReadCancel, AuditCancel,
      AuditCancelOf, ApiFault
<1> QED
  BY <1>7, <1>8, <1>9 DEF Next, vars, ContainerExit, ClientReturns, ClientLost, Tick

\* An empty queue is an empty abstract queue.
LEMMA InitRefines == Init => Claims!Init
  BY DEF Init, Claims!Init, Claims!Places, Place

(***************************************************************************)
(* The execution queue implements ClaimQueue: one worker for a task, once. *)
(***************************************************************************)
THEOREM Refinement == Spec => ClaimSpec
<1>1. Init => Claims!Init
  BY InitRefines
<1> QED BY <1>1, StepRefines, Invariance, PTL DEF Spec, ClaimSpec, Claims!Spec

-----------------------------------------------------------------------------
(* Tasks start in the order of their submission *)

\* The rows form a prefix, and a candidate stays the oldest queued row: rows
\* older than it were inserted before it and never become queued again.
OrderInv ==
  /\ \A t, u \in Tasks : u < t /\ status[u] = "absent" => status[t] = "absent"
  /\ apc = "insert" => \A u \in Tasks : u < atask => status[u] # "absent"
  /\ \A w \in Workers : wpc[w] = "claim" =>
        /\ status[cur[w]] # "absent"
        /\ \A u \in Tasks : u < cur[w] => status[u] # "queued"

LEMMA InitOrder == Init => OrderInv
  BY DEF Init, OrderInv

\* A step that makes no row queued or absent, and no new candidate or insert,
\* keeps the order.
LEMMA QuietOrder ==
  ASSUME IInv, OrderInv,
         \A t \in Tasks : \/ status'[t] = status[t]
                          \/ /\ status[t] # "absent"
                             /\ status'[t] \notin Unclaimed,
         apc' = "insert" => apc = "insert" /\ atask' = atask,
         \A w \in Workers : wpc'[w] = "claim" => wpc[w] = "claim" /\ cur'[w] = cur[w]
  PROVE  OrderInv'
  BY DEF OrderInv, IInv, TypeOK, ApiInv, WorkerInv, Tasks

LEMMA StepOrder == IInv /\ OrderInv /\ [Next]_vars => OrderInv'
<1> SUFFICES ASSUME IInv, OrderInv, [Next]_vars PROVE OrderInv'
  OBVIOUS
<1> USE NoWorkerAssumption, BoundsAssumption DEF IInv, TypeOK
<1>1. CASE Insert
  BY <1>1 DEF Insert, OrderInv, ApiInv, WorkerInv, Tasks
<1>2. CASE Submit
  BY <1>2 DEF Submit, Oldest, OrderInv, Tasks
<1>3. CASE ApiStep /\ ~Insert /\ ~Submit
  <2>1. \A t \in Tasks : \/ status'[t] = status[t]
                         \/ status[t] # "absent" /\ status'[t] \notin Unclaimed
    BY <1>3 DEF ApiStep, AnnounceQueued, ReadCancel, WriteCancel, AuditCancel,
                AuditCancelOf, ApiFault, ApiInv
  <2>2. apc' # "insert" /\ UNCHANGED <<wpc, cur>>
    BY <1>3 DEF ApiStep, AnnounceQueued, ReadCancel, WriteCancel, AuditCancel,
                AuditCancelOf, ApiFault
  <2> QED BY <2>1, <2>2, QuietOrder
<1>4. ASSUME NEW w \in Workers, ReadCandidate(w) PROVE OrderInv'
  BY <1>4 DEF ReadCandidate, ReadOneOf, Oldest, OrderInv, Tasks
<1>5. ASSUME NEW w \in Workers, WorkerStep(w), ~ReadCandidate(w) PROVE OrderInv'
  <2>1. UNCHANGED <<apc, atask>>
    BY <1>5
    DEF WorkerStep, StartStep, StartWorker, RecoverRead, RecoverWrite, RecoverTo,
        RecoverAudit, ClaimStep, Claim, ClaimIn, AnnounceStarted, Reject,
        LaunchFails, Launch, LoopStep, Heartbeat, ObserveCancel, Deadline,
        DeadlineIn, RemoveSucceeds, RemoveFails, KillClient, AfterSlowRemoval, LoopEnds,
        LoopEndsWith, LoopFault, FinishStep, Finish, FinishIn, AuditFinish,
        FinishFault, Crash
  <2>2. \A x \in Workers : wpc'[x] = "claim" => wpc[x] = "claim" /\ cur'[x] = cur[x]
    BY <1>5
    DEF WorkerStep, StartStep, StartWorker, RecoverRead, RecoverWrite, RecoverTo,
        RecoverAudit, ClaimStep, Claim, ClaimIn, AnnounceStarted, Reject,
        LaunchFails, Launch, LoopStep, Heartbeat, ObserveCancel, Deadline,
        DeadlineIn, RemoveSucceeds, RemoveFails, KillClient, AfterSlowRemoval, LoopEnds,
        LoopEndsWith, LoopFault, FinishStep, Finish, FinishIn, AuditFinish,
        FinishFault, Crash
  <2>3. \A t \in Tasks : \/ status'[t] = status[t]
                         \/ status[t] # "absent" /\ status'[t] \notin Unclaimed
    <3>1. CASE RecoverWrite(w)
      BY <3>1 DEF RecoverWrite, RecoverTo, WorkerInv
    <3>2. CASE Claim(w)
      BY <3>2 DEF Claim, ClaimIn
    <3>3. CASE Finish(w)
      BY <3>3 DEF Finish, FinishIn, WorkerInv
    <3>4. CASE ~RecoverWrite(w) /\ ~Claim(w) /\ ~Finish(w)
      BY <1>5, <3>4
      DEF WorkerStep, StartStep, StartWorker, RecoverRead, RecoverAudit, ClaimStep,
          AnnounceStarted, Reject, LaunchFails, Launch, LoopStep, Heartbeat,
          ObserveCancel, Deadline, DeadlineIn, RemoveSucceeds, RemoveFails,
          KillClient, AfterSlowRemoval, LoopEnds, LoopEndsWith, LoopFault, FinishStep,
          AuditFinish, FinishFault, Crash
    <3> QED BY <3>1, <3>2, <3>3, <3>4
  <2> QED BY <2>1, <2>2, <2>3, QuietOrder
<1>6. CASE DockerStep \/ Tick \/ UNCHANGED vars
  <2>1. UNCHANGED <<status, apc, atask, wpc, cur>>
    BY <1>6 DEF DockerStep, ContainerExit, ClientReturns, ClientLost, Tick, vars
  <2> QED BY <2>1, QuietOrder
<1> QED BY <1>1, <1>2, <1>3, <1>4, <1>5, <1>6 DEF Next, DockerStep

\* Only Claim makes a row running, and its candidate is the oldest.
LEMMA RunningIsOldest ==
  ASSUME IInv, OrderInv, [Next]_vars, NEW t \in Tasks,
         status[t] = "queued", status'[t] = "running"
  PROVE  \A u \in 1 .. t - 1 : status[u] # "queued"
<1> USE NoWorkerAssumption, BoundsAssumption DEF IInv, TypeOK
<1>1. ASSUME NEW w \in Workers, WorkerStep(w)
      PROVE  wpc[w] = "claim" /\ cur[w] = t
  <2>1. CASE Claim(w)
    BY <2>1 DEF Claim, ClaimIn
  <2>2. CASE Finish(w)
    BY <2>2 DEF Finish, FinishIn
  <2>3. CASE RecoverWrite(w)
    BY <2>3 DEF RecoverWrite, RecoverTo
  <2>4. CASE ~RecoverWrite(w) /\ ~Claim(w) /\ ~Finish(w)
    BY <1>1, <2>4
    DEF WorkerStep, StartStep, StartWorker, RecoverRead, RecoverAudit, ClaimStep,
        ReadCandidate, ReadOneOf, AnnounceStarted, Reject, LaunchFails, Launch,
        LoopStep, Heartbeat, ObserveCancel, Deadline, DeadlineIn, RemoveSucceeds,
        RemoveFails, KillClient, AfterSlowRemoval, LoopEnds, LoopEndsWith, LoopFault,
        FinishStep, AuditFinish, FinishFault, Crash
  <2> QED BY <2>1, <2>2, <2>3, <2>4
<1>2. \E w \in Workers : WorkerStep(w)
  <2>1. ~ApiStep
    BY DEF ApiStep, Submit, Insert, AnnounceQueued, ReadCancel,
           WriteCancel, AuditCancel, AuditCancelOf, ApiFault
  <2> QED BY <2>1 DEF Next, ContainerExit, ClientReturns, ClientLost, Tick, vars
<1>3. PICK w \in Workers : wpc[w] = "claim" /\ cur[w] = t
  BY <1>1, <1>2
<1> QED BY <1>3 DEF OrderInv, Tasks

(***************************************************************************)
(* Whatever workers compete and whatever the API cancels, a task starts    *)
(* only when no older one is queued.                                       *)
(***************************************************************************)
THEOREM FirstComeFirstServed == Spec => StartsInOrder
<1>1. IInv /\ OrderInv /\ [Next]_vars =>
        [\A t \in Tasks : (status[t] = "queued" /\ status'[t] = "running")
            => \A u \in 1 .. t - 1 : status[u] # "queued"]_vars
  BY RunningIsOldest
<1>2. Spec => []OrderInv
  BY InitOrder, StepOrder, Invariance, PTL DEF Spec
<1> QED BY <1>1, <1>2, Invariance, PTL DEF Spec, StartsInOrder

-----------------------------------------------------------------------------
(* The limit on active tasks *)

\* The test of an insert still stands, and a row that a cancellation may bring
\* back to cancel_requested has kept its place under the limit.
QuotaInv ==
  /\ Cardinality(WithStatus(Active)) <= MaxActive
  /\ apc = "insert" => Cardinality(WithStatus(Active)) < MaxActive
  /\ apc = "cancel" /\ aseen \in Running =>
       Cardinality(WithStatus(Active) \cup {atask}) <= MaxActive

\* Cardinality never grows with fewer tasks.
LEMMA FewerTasks ==
  ASSUME NEW S \in SUBSET Tasks, NEW T \in SUBSET S
  PROVE  /\ IsFiniteSet(S) /\ Cardinality(S) \in Nat
         /\ Cardinality(T) \in Nat /\ Cardinality(T) <= Cardinality(S)
<1>1. IsFiniteSet(Tasks)
  BY BoundsAssumption, FS_Interval DEF Tasks
<1>2. IsFiniteSet(S)
  BY <1>1, FS_Subset
<1> QED BY <1>2, FS_Subset, FS_CardinalityType

LEMMA InitQuota == Init => QuotaInv
<1> SUFFICES ASSUME Init PROVE QuotaInv
  OBVIOUS
<1>1. WithStatus(Active) = {}
  BY DEF Init
<1>2. Cardinality(WithStatus(Active)) = 0
  BY <1>1, FS_EmptySet
<1>3. apc = "idle"
  BY DEF Init
<1> HIDE DEF Init, WithStatus
<1> QED BY <1>2, <1>3, BoundsAssumption DEF QuotaInv

\* A step that makes no row active, and no new insert or cancellation, keeps
\* the limit.
LEMMA QuietQuota ==
  ASSUME IInv, QuotaInv,
         \A t \in Tasks : status'[t] \in Active => status[t] \in Active,
         apc' = "insert" => apc = "insert",
         apc' = "cancel" => apc = "cancel" /\ UNCHANGED <<atask, aseen>>
  PROVE  QuotaInv'
<1> DEFINE A == {t \in Tasks : status[t] \in Active}
           B == {t \in Tasks : status'[t] \in Active}
<1>1. B \subseteq A /\ A \subseteq Tasks /\ A = WithStatus(Active) /\ B = WithStatus(Active)'
  OBVIOUS
<1>2. Cardinality(A) \in Nat /\ Cardinality(B) \in Nat /\ Cardinality(B) <= Cardinality(A)
  BY <1>1, FewerTasks
<1>3. CASE apc' = "cancel" /\ aseen' \in Running
  <2>1. atask \in Tasks
    BY <1>3 DEF IInv, ApiInv
  <2>2. A \cup {atask} \in SUBSET Tasks /\ B \cup {atask} \in SUBSET (A \cup {atask})
    BY <2>1, <1>1
  <2> HIDE DEF A, B
  <2>3. /\ Cardinality(B \cup {atask}) \in Nat /\ Cardinality(A \cup {atask}) \in Nat
        /\ Cardinality(B \cup {atask}) <= Cardinality(A \cup {atask})
    BY <2>2, FewerTasks
  <2>4. Cardinality(A \cup {atask}) <= MaxActive /\ Cardinality(A) <= MaxActive /\ atask' = atask
    BY <1>1, <1>3 DEF QuotaInv
  <2> QED BY <1>1, <1>2, <1>3, <2>3, <2>4, BoundsAssumption DEF QuotaInv
<1>4. CASE ~(apc' = "cancel" /\ aseen' \in Running)
  <2> HIDE DEF A, B
  <2> QED BY <1>1, <1>2, <1>4, BoundsAssumption DEF QuotaInv
<1> QED BY <1>3, <1>4

\* One more active task fits below the limit.
LEMMA InsertQuota == IInv /\ QuotaInv /\ Insert => QuotaInv'
<1> SUFFICES ASSUME IInv, QuotaInv, Insert PROVE QuotaInv'
  OBVIOUS
<1> DEFINE A == WithStatus(Active)
<1>1. atask \in Tasks /\ WithStatus(Active)' = A \cup {atask}
  BY DEF Insert, IInv, ApiInv, TypeOK
<1>2. IsFiniteSet(A) /\ Cardinality(A) \in Nat /\ Cardinality(A) < MaxActive
  BY FewerTasks DEF QuotaInv, Insert
<1>3. Cardinality(A \cup {atask}) <= Cardinality(A) + 1
  BY <1>2, FS_AddElement
<1>4. Cardinality(A \cup {atask}) \in Nat
  BY <1>2, FS_AddElement, FS_CardinalityType
<1> QED BY <1>1, <1>2, <1>3, <1>4, BoundsAssumption DEF QuotaInv, Insert

\* A cancellation writes back what it read, within its place under the limit.
LEMMA CancelQuota == IInv /\ QuotaInv /\ WriteCancel => QuotaInv'
<1> SUFFICES ASSUME IInv, QuotaInv, WriteCancel PROVE QuotaInv'
  OBVIOUS
<1>1. CASE aseen = "running"
  <2>1. atask \in Tasks /\ WithStatus(Active)' = WithStatus(Active) \cup {atask}
    BY <1>1 DEF WriteCancel, IInv, ApiInv, TypeOK
  <2> QED BY <1>1, <2>1 DEF QuotaInv, WriteCancel
<1>2. CASE aseen # "running"
  BY <1>2, QuietQuota DEF WriteCancel, IInv, TypeOK, ApiInv
<1> QED BY <1>1, <1>2

\* A cancellation that finds a running row finds an active one.
LEMMA ReadQuota ==
  ASSUME IInv, QuotaInv, NEW t \in Tasks, ReadCancel(t) PROVE QuotaInv'
<1>1. WithStatus(Active)' = WithStatus(Active) /\ atask' = t /\ aseen' = status[t] /\ apc' = "cancel"
  BY DEF ReadCancel
<1>2. status[t] \in Running => WithStatus(Active) \cup {t} = WithStatus(Active)
  OBVIOUS
<1> QED BY <1>1, <1>2 DEF QuotaInv

LEMMA StepQuota == IInv /\ QuotaInv /\ [Next]_vars => QuotaInv'
<1> SUFFICES ASSUME IInv, QuotaInv, [Next]_vars PROVE QuotaInv'
  OBVIOUS
<1> USE NoWorkerAssumption, BoundsAssumption
<1>1. CASE Submit
  BY <1>1 DEF Submit, QuotaInv
<1>2. CASE AnnounceQueued \/ AuditCancel \/ ApiFault
  <2>1. status' = status /\ apc' = "idle"
    BY <1>2 DEF AnnounceQueued, AuditCancel, AuditCancelOf, ApiFault
  <2> QED BY <2>1, QuietQuota
<1>3. CASE ApiStep
  BY <1>1, <1>2, <1>3, InsertQuota, CancelQuota, ReadQuota DEF ApiStep
<1>4. ASSUME NEW w \in Workers, WorkerStep(w) PROVE QuotaInv'
  <2>1. UNCHANGED <<apc, atask, aseen>>
    BY <1>4
    DEF WorkerStep, StartStep, StartWorker, RecoverRead, RecoverWrite, RecoverTo,
        RecoverAudit, ClaimStep, ReadCandidate, ReadOneOf, Claim, ClaimIn,
        AnnounceStarted, Reject, LaunchFails, Launch, LoopStep, Heartbeat,
        ObserveCancel, Deadline, DeadlineIn, RemoveSucceeds, RemoveFails, KillClient,
        AfterSlowRemoval, LoopEnds, LoopEndsWith, LoopFault, FinishStep, Finish, FinishIn,
        AuditFinish, FinishFault, Crash
  <2>2. \A t \in Tasks : status'[t] \in Active => status[t] \in Active
    <3>1. CASE RecoverWrite(w)
      BY <3>1 DEF RecoverWrite, RecoverTo
    <3>2. CASE Claim(w)
      BY <3>2 DEF Claim, ClaimIn, IInv, TypeOK
    <3>3. CASE Finish(w)
      BY <3>3 DEF Finish, FinishIn, IInv, TypeOK, WorkerInv
    <3>4. CASE ~RecoverWrite(w) /\ ~Claim(w) /\ ~Finish(w)
      BY <1>4, <3>4
      DEF WorkerStep, StartStep, StartWorker, RecoverRead, RecoverAudit, ClaimStep,
          ReadCandidate, ReadOneOf, AnnounceStarted, Reject, LaunchFails, Launch,
          LoopStep, Heartbeat, ObserveCancel, Deadline, DeadlineIn, RemoveSucceeds,
          RemoveFails, KillClient, AfterSlowRemoval, LoopEnds, LoopEndsWith, LoopFault,
          FinishStep, AuditFinish, FinishFault, Crash
    <3> QED BY <3>1, <3>2, <3>3, <3>4
  <2> QED BY <2>1, <2>2, QuietQuota
<1>5. CASE DockerStep \/ Tick \/ UNCHANGED vars
  <2>1. UNCHANGED <<status, apc, atask, aseen>>
    BY <1>5 DEF DockerStep, ContainerExit, ClientReturns, ClientLost, Tick, vars
  <2> QED BY <2>1, QuietQuota
<1> QED BY <1>3, <1>4, <1>5 DEF Next, DockerStep

(***************************************************************************)
(* The user's active tasks never exceed the limit, though the test and the *)
(* insert are two transactions and a blind cancellation can bring a        *)
(* finished row back to an active status (one API operation at a time).    *)
(***************************************************************************)
THEOREM QuotaHolds == Spec => []QuotaRespected
<1>1. QuotaInv => QuotaRespected
  BY DEF QuotaInv, QuotaRespected
<1> QED BY <1>1, InitQuota, StepQuota, Invariance, PTL DEF Spec
=============================================================================
