----------------------- MODULE ProjectDeletionProofs -----------------------
(***************************************************************************)
(* Proofs about ProjectDeletion, for every set of requests, however many   *)
(* run at once, and every number of faults.                                *)
(*                                                                         *)
(* Recoverable is not inductive: that a journal file may be removed rests  *)
(* on where its request's resources are, and that resources may be purged  *)
(* rests on the row being gone.  IInv says so for each point of a request. *)
(*                                                                         *)
(* The last part is about what is left after the commit.  Its invariant is *)
(* SequenceInv: a request that moves resources alone leaves nothing at     *)
(* home when it deletes the row, and whoever comes later has nothing of    *)
(* its own to bring home.                                                  *)
(***************************************************************************)
EXTENDS ProjectDeletion, TLAPS

-----------------------------------------------------------------------------
(* The initial states *)

LEMMA InitIInv == Init => IInv
<1> SUFFICES ASSUME Init PROVE IInv
  OBVIOUS
<1>1. TypeOK
  BY BoundsAssumption DEF Init, TypeOK, Journal, RequestPC, Idle
<1>2. \A o \in Requests : Journalled(o) /\ Progress(o)
  BY RequestsAssumption
     DEF Init, Journalled, Progress, Free, Moving, Undoing, Purging, Resources
<1>3. ProcessInv
  BY DEF Init, ProcessInv
<1> QED BY <1>1, <1>2, <1>3 DEF IInv

-----------------------------------------------------------------------------
(* Every step preserves it *)

\* Type correctness, by itself.
LEMMA StepTypeOK ==
  ASSUME TypeOK, Next
  PROVE  TypeOK'
<1> USE DEF TypeOK, Journal, RequestPC, Idle, Moving, Undoing, Purging,
            Resources, Goto, Write, Put, Dirty, Fault, request, janitor, history
<1>1. ASSUME NEW o \in Requests, Request(o) PROVE TypeOK'
  BY <1>1 DEF Request
<1>2. ASSUME NEW o \in Requests, Forward(o) PROVE TypeOK'
  <2>1. CASE Check(o) \/ MarkQuarantined(o) \/ FindRow(o) \/ Erase(o)
    BY <2>1 DEF Check, MarkQuarantined, FindRow, Erase
  <2>6. CASE Begin(o)
    BY <2>6 DEF Begin, Contending
  <2>2. CASE Quarantine(o)
    BY <2>2 DEF Quarantine
  <2>3. CASE Restore(o)
    BY <2>3 DEF Restore
  <2>4. CASE Purge(o)
    BY <2>4 DEF Purge
  <2>5. CASE Abandon(o) \/ Confirm(o) \/ Close(o)
    BY <2>5 DEF Abandon, AbandonIf, Confirm, Close, CloseIf
  <2> QED BY <1>2, <2>1, <2>2, <2>3, <2>4, <2>5, <2>6 DEF Forward
<1>3. ASSUME NEW o \in Requests, Failing(o) PROVE TypeOK'
  <2>0. faults < MaxFaults => faults + 1 \in 0 .. MaxFaults
    BY BoundsAssumption
  <2>1. CASE BeginFails(o) \/ MoveFails(o)
    BY <2>0, <2>1 DEF BeginFails, MoveFails
  <2>2. CASE RestoreFails(o) \/ PurgeFails(o)
    BY <2>0, <2>2 DEF RestoreFails, PurgeFails
  <2>3. CASE EndFails(o)
    BY <2>0, <2>3 DEF EndFails
  <2> QED BY <1>3, <2>1, <2>2, <2>3 DEF Failing
<1>4. CASE Tasks
  BY <1>4 DEF Tasks, SubmitRead, SubmitInsert, TaskEnds
<1>5. CASE Crash \/ JanitorFails
  BY <1>5, BoundsAssumption DEF Crash, JanitorFails, InProgress
<1>6. CASE Recover
  BY <1>6 DEF Recover, Start, StartWith, JanitorTake, JanitorResolve,
             JanitorMoves, JanitorRemove, Serve
<1> QED BY <1>1, <1>2, <1>3, <1>4, <1>5, <1>6 DEF Next

\* A step that leaves row, place and the process alone disturbs only the
\* request it belongs to.
LEMMA LocalStep ==
  ASSUME IInv, TypeOK', NEW o \in Requests,
         UNCHANGED <<row, place, process>>, process = "up",
         \A u \in Requests \ {o} :
           pc'[u] = pc[u] /\ journal'[u] = journal[u] /\ dirty'[u] = dirty[u],
         Journalled(o)', Progress(o)'
  PROVE  IInv'
<1>1. \A u \in Requests : Journalled(u)' /\ Progress(u)'
  <2> SUFFICES ASSUME NEW u \in Requests, u # o
               PROVE  Journalled(u)' /\ Progress(u)'
    OBVIOUS
  <2> QED BY DEF IInv, Journalled, Progress, Free
<1>2. ProcessInv'
  BY DEF IInv, ProcessInv
<1> QED BY <1>1, <1>2 DEF IInv

\* Checks, journal writes and failures.
LEMMA QuietSteps ==
  ASSUME IInv, TypeOK', NEW o \in Requests,
         \/ Request(o) \/ Check(o) \/ Begin(o) \/ MarkQuarantined(o)
         \/ FindRow(o) \/ Abandon(o) \/ Confirm(o) \/ Close(o) \/ Failing(o)
  PROVE  IInv'
<1> USE DEF Goto, Write, Dirty, Fault, Idle, Moving, Undoing, Purging, Resources
<1>0. TypeOK /\ Journalled(o) /\ Progress(o) /\ (process # "up" => pc[o] \in Idle)
  BY DEF IInv, ProcessInv, InProgress
<1>1. CASE Request(o)
  <2>1. Journalled(o)' /\ Progress(o)'
    BY <1>0, <1>1 DEF Request, Journalled, Progress, Free, TypeOK
  <2> QED BY <1>1, <2>1, LocalStep DEF Request, TypeOK, IInv
<1>2. CASE Check(o) \/ Begin(o) \/ MarkQuarantined(o)
  <2>1. Journalled(o)' /\ Progress(o)'
    BY <1>0, <1>2 DEF Check, Begin, MarkQuarantined, Journalled, Progress, Free, TypeOK
  <2> QED BY <1>0, <1>2, <2>1, LocalStep
          DEF Check, Begin, MarkQuarantined, TypeOK, IInv
<1>3. CASE FindRow(o) \/ Confirm(o)
  <2>1. Journalled(o)' /\ Progress(o)'
    BY <1>0, <1>3 DEF FindRow, Confirm, Journalled, Progress, Free, TypeOK
  <2> QED BY <1>0, <1>3, <2>1, LocalStep DEF FindRow, Confirm, TypeOK, IInv
<1>4. CASE Abandon(o) \/ Close(o)
  <2>1. Journalled(o)' /\ Progress(o)'
    BY <1>0, <1>4
       DEF Abandon, AbandonIf, Close, CloseIf, Journalled, Progress, Free, TypeOK
  <2> QED BY <1>0, <1>4, <2>1, LocalStep
          DEF Abandon, AbandonIf, Close, CloseIf, TypeOK, IInv
<1>5. CASE Failing(o)
  <2> USE DEF Failing, BeginFails, MoveFails, RestoreFails, PurgeFails, EndFails
  <2>1. Journalled(o)' /\ Progress(o)'
    BY <1>0, <1>5 DEF Journalled, Progress, Free, TypeOK
  <2> QED BY <1>0, <1>5, <2>1, LocalStep DEF TypeOK, IInv
<1> QED BY <1>1, <1>2, <1>3, <1>4, <1>5

\* Steps of a request that move a resource or delete the row.
LEMMA MovingSteps ==
  ASSUME IInv, TypeOK', NEW o \in Requests,
         Quarantine(o) \/ Restore(o) \/ Purge(o) \/ Erase(o)
  PROVE  IInv'
<1> USE RequestsAssumption
    DEF Goto, Put, Idle, Moving, Undoing, Purging, Resources
<1>0. /\ TypeOK /\ ProcessInv
      /\ \A u \in Requests : Journalled(u) /\ Progress(u)
  BY DEF IInv
<1>1. CASE Quarantine(o)
  <2>1. \A u \in Requests : Journalled(u)' /\ Progress(u)'
    BY <1>0, <1>1 DEF Quarantine, Journalled, Progress, Free, TypeOK
  <2>2. ProcessInv'
    BY <1>0, <1>1 DEF Quarantine, ProcessInv, InProgress, TypeOK
  <2> QED BY <2>1, <2>2 DEF IInv
<1>2. CASE Restore(o)
  <2>1. \A u \in Requests : Journalled(u)' /\ Progress(u)'
    BY <1>0, <1>2 DEF Restore, Journalled, Progress, Free, TypeOK
  <2>2. ProcessInv'
    BY <1>0, <1>2 DEF Restore, ProcessInv, InProgress, TypeOK
  <2> QED BY <2>1, <2>2 DEF IInv
<1>3. CASE Purge(o)
  <2>1. \A u \in Requests : Journalled(u)' /\ Progress(u)'
    BY <1>0, <1>3 DEF Purge, Journalled, Progress, Free, TypeOK
  <2>2. ProcessInv'
    BY <1>0, <1>3 DEF Purge, ProcessInv, Progress, InProgress, TypeOK
  <2> QED BY <2>1, <2>2 DEF IInv
<1>4. CASE Erase(o)
  <2>1. \A u \in Requests : Journalled(u)' /\ Progress(u)'
    BY <1>0, <1>4 DEF Erase, Journalled, Progress, Free, TypeOK
  <2>2. ProcessInv'
    BY <1>0, <1>4 DEF Erase, ProcessInv, InProgress, TypeOK
  <2> QED BY <2>1, <2>2 DEF IInv
<1> QED BY <1>1, <1>2, <1>3, <1>4

\* Death of the process and the janitor.
LEMMA ProcessSteps ==
  ASSUME IInv, TypeOK', Crash \/ Recover \/ JanitorFails
  PROVE  IInv'
<1> USE RequestsAssumption
    DEF Put, Write, Fault, Idle, Moving, Undoing, Purging, Resources
<1>0. /\ TypeOK /\ ProcessInv
      /\ \A u \in Requests : Journalled(u) /\ Progress(u)
  BY DEF IInv
<1>1. CASE Crash
  <2>1. \A u \in Requests : Journalled(u)' /\ Progress(u)'
    BY <1>0, <1>1 DEF Crash, Journalled, Progress, Free, InProgress, TypeOK
  <2>2. ProcessInv'
    BY <1>0, <1>1 DEF Crash, ProcessInv, InProgress, TypeOK
  <2> QED BY <2>1, <2>2 DEF IInv
<1>2. CASE Start \/ JanitorTake \/ JanitorFails \/ Serve
  <2> USE DEF Start, StartWith, JanitorTake, JanitorFails, Serve, request, janitor
  <2>1. \A u \in Requests : Journalled(u)' /\ Progress(u)'
    BY <1>0, <1>2 DEF Journalled, Progress, Free
  <2>2. ProcessInv'
    BY <1>0, <1>2 DEF ProcessInv, InProgress
  <2> QED BY <2>1, <2>2 DEF IInv
<1>3. CASE JanitorResolve
  <2> USE DEF JanitorResolve, JanitorMoves, request, janitor
  <2>1. \A u \in Requests : pc[u] \in Idle
    BY <1>0, <1>3 DEF ProcessInv, InProgress
  <2>2. \A u \in Requests : Journalled(u)' /\ Progress(u)'
    BY <1>0, <1>3, <2>1 DEF Journalled, Progress, Free, TypeOK
  <2>3. ProcessInv'
    BY <1>0, <1>3 DEF ProcessInv, InProgress, TypeOK
  <2> QED BY <2>2, <2>3 DEF IInv
<1>4. CASE JanitorRemove
  <2> USE DEF JanitorRemove, request
  <2>1. \A u \in Requests : pc[u] \in Idle
    BY <1>0, <1>4 DEF ProcessInv, InProgress
  <2>2. \A u \in Requests : Journalled(u)' /\ Progress(u)'
    BY <1>0, <1>4, <2>1 DEF Journalled, Progress, Free, TypeOK
  <2>3. ProcessInv'
    BY <1>0, <1>4 DEF ProcessInv, InProgress
  <2> QED BY <2>2, <2>3 DEF IInv
<1> QED BY <1>1, <1>2, <1>3, <1>4 DEF Recover

LEMMA StepIInv == IInv /\ [Next]_vars => IInv'
<1> SUFFICES ASSUME IInv, [Next]_vars PROVE IInv'
  OBVIOUS
<1>1. CASE UNCHANGED vars
  BY <1>1 DEF IInv, TypeOK, Journalled, Progress, Free, ProcessInv, InProgress,
             vars, request, janitor, history
<1>2. CASE Next
  <2>1. TypeOK'
    BY <1>2, StepTypeOK DEF IInv
  <2>2. CASE Tasks
    BY <2>1, <2>2 DEF Tasks, SubmitRead, SubmitInsert, TaskEnds, IInv, Journalled,
                     Progress, Free, ProcessInv, InProgress, request, janitor
  <2>3. ASSUME NEW o \in Requests, Request(o) \/ Forward(o) \/ Failing(o)
        PROVE  IInv'
    BY <2>1, <2>3, QuietSteps, MovingSteps DEF Forward
  <2>4. CASE Crash \/ Recover \/ JanitorFails
    BY <2>1, <2>4, ProcessSteps
  <2> QED BY <1>2, <2>2, <2>3, <2>4 DEF Next
<1> QED BY <1>1, <1>2

-----------------------------------------------------------------------------
(* After the commit *)

LEMMA InitSequence == Init => SequenceInv
<1> SUFFICES ASSUME Init PROVE SequenceInv
  OBVIOUS
<1> USE RequestsAssumption DEF Moving, Undoing, Resources
<1>1. IInv
  BY InitIInv
<1>2. row /\ by = NoRequest /\ Contending = {} /\ \A o \in Requests : Free(o)
  BY DEF Init, Contending, Free
<1>3. Apart /\ NothingStays /\ \A o \in Requests : Ordered(o)
  BY <1>2 DEF Init, Apart, NothingStays, Ordered
<1> QED BY <1>1, <1>2, <1>3 DEF SequenceInv

\* A step of request o moves no other request on, and makes nothing of what the
\* history says untrue.
LEMMA OwnStep ==
  ASSUME TypeOK, NEW o \in Requests, Request(o) \/ Forward(o) \/ Failing(o)
  PROVE  /\ \A u \in Requests \ {o} : pc'[u] = pc[u]
         /\ company \subseteq company'
         /\ pc'[o] \in Moving \cup Undoing => pc[o] \in Moving \cup Undoing \/ Begin(o)
         /\ row' => row
<1> USE DEF TypeOK, Goto, Idle, Moving, Undoing, Purging, Resources, history, request, janitor
<1>1. CASE Request(o) \/ Check(o) \/ Begin(o)
  BY <1>1 DEF Request, Check, Begin
<1>2. CASE Quarantine(o) \/ MarkQuarantined(o)
  BY <1>2 DEF Quarantine, MarkQuarantined
<1>3. CASE FindRow(o) \/ Erase(o)
  BY <1>3 DEF FindRow, Erase
<1>4. CASE Restore(o) \/ Purge(o)
  BY <1>4 DEF Restore, Purge
<1>5. CASE Abandon(o) \/ Confirm(o) \/ Close(o)
  BY <1>5 DEF Abandon, AbandonIf, Confirm, Close, CloseIf
<1>6. CASE Failing(o)
  BY <1>6 DEF Failing, BeginFails, MoveFails, RestoreFails, PurgeFails, EndFails
<1> QED BY <1>1, <1>2, <1>3, <1>4, <1>5, <1>6 DEF Forward

\* Two requests that move resources know of each other.
LEMMA ApartSteps ==
  ASSUME SequenceInv, TypeOK',
         NEW o \in Requests, Request(o) \/ Forward(o) \/ Failing(o)
  PROVE  Apart'
<1>0. TypeOK /\ Apart
  BY DEF SequenceInv, IInv
<1>1. /\ \A u \in Requests \ {o} : pc'[u] = pc[u]
      /\ company \subseteq company'
      /\ pc'[o] \in Moving \cup Undoing => pc[o] \in Moving \cup Undoing \/ Begin(o)
  BY <1>0, OwnStep
<1>2. SUFFICES ASSUME NEW x \in Contending', NEW y \in Contending', x # y
               PROVE  x \in company'
  BY DEF Apart
<1>3. CASE Begin(o)
  <2>1. company' = company \cup (IF Contending = {} THEN {} ELSE Contending \cup {o})
    BY <1>3 DEF Begin
  <2>2. x \in Contending \cup {o} /\ y \in Contending \cup {o}
    BY <1>1, <1>2 DEF Contending
  <2> QED BY <1>2, <2>1, <2>2
<1>4. CASE ~Begin(o)
  <2>1. x \in Contending /\ y \in Contending
    BY <1>1, <1>2, <1>4 DEF Contending
  <2> QED BY <1>0, <1>1, <1>2, <2>1 DEF Apart
<1> QED BY <1>3, <1>4

\* Nobody but the request itself brings something home while it moves resources
\* alone, and nobody but the janitor moves what belongs to a request not begun.
LEMMA OrderedSteps ==
  ASSUME SequenceInv, TypeOK',
         NEW o \in Requests, Request(o) \/ Forward(o) \/ Failing(o),
         NEW u \in Requests
  PROVE  Ordered(u)'
<1> USE RequestsAssumption
    DEF Goto, Put, Idle, Moving, Undoing, Purging, Resources, TypeOK, history
<1>0. TypeOK /\ Apart /\ Ordered(o) /\ Ordered(u)
  BY DEF SequenceInv, IInv
<1>1. /\ \A x \in Requests \ {o} : pc'[x] = pc[x]
      /\ company \subseteq company' /\ (row' => row)
  BY <1>0, OwnStep
<1>2. CASE Quarantine(o)
  BY <1>0, <1>2 DEF Quarantine, Ordered, Free
<1>3. CASE Restore(o)
  <2>1. u # o /\ u \notin company => u \notin Contending
    BY <1>0, <1>3 DEF Restore, Apart, Contending
  <2> QED BY <1>0, <1>3, <2>1 DEF Restore, Ordered, Free, Contending
<1>4. CASE Purge(o)
  BY <1>0, <1>4 DEF Purge, Ordered, Free
<1>5. CASE ~(Quarantine(o) \/ Restore(o) \/ Purge(o))
  <2>1. place' = place
    BY <1>5 DEF Request, Forward, Failing, Check, Begin, MarkQuarantined, FindRow, Erase,
                Abandon, AbandonIf, Confirm, Close, CloseIf, BeginFails, MoveFails,
                RestoreFails, PurgeFails, EndFails
  <2>2. CASE u # o
    BY <1>0, <1>1, <2>1, <2>2 DEF Ordered, Free
  <2>3. CASE u = o
    <3>1. CASE Request(o) \/ Check(o) \/ Begin(o)
      BY <1>0, <1>1, <2>1, <2>3, <3>1 DEF Ordered, Free, Request, Check, Begin
    <3>2. CASE MarkQuarantined(o) \/ FindRow(o) \/ Erase(o)
      BY <1>0, <1>1, <2>1, <2>3, <3>2 DEF Ordered, Free, MarkQuarantined, FindRow, Erase
    <3>3. CASE Abandon(o) \/ Confirm(o) \/ Close(o)
      BY <1>0, <1>1, <2>1, <2>3, <3>3
         DEF Ordered, Free, Abandon, AbandonIf, Confirm, Close, CloseIf
    <3>4. CASE Failing(o)
      BY <1>0, <1>1, <2>1, <2>3, <3>4
         DEF Ordered, Free, Failing, BeginFails, MoveFails, RestoreFails, PurgeFails, EndFails
    <3> QED BY <1>5, <3>1, <3>2, <3>3, <3>4 DEF Forward
  <2> QED BY <2>2, <2>3
<1> QED BY <1>2, <1>3, <1>4, <1>5

\* Who deleted the row is known, and after the commit nothing comes home.
LEMMA StaysSteps ==
  ASSUME SequenceInv, TypeOK',
         NEW o \in Requests, Request(o) \/ Forward(o) \/ Failing(o)
  PROVE  (row <=> by = NoRequest)' /\ NothingStays'
<1> USE RequestsAssumption
    DEF Goto, Put, Idle, Moving, Undoing, Purging, Resources, TypeOK, history
<1>0. TypeOK /\ Apart /\ Ordered(o) /\ NothingStays /\ (row <=> by = NoRequest)
  BY DEF SequenceInv, IInv
<1>1. /\ \A x \in Requests \ {o} : pc'[x] = pc[x]
      /\ company \subseteq company'
      /\ pc'[o] \in Moving \cup Undoing => pc[o] \in Moving \cup Undoing \/ Begin(o)
  BY <1>0, OwnStep
<1>2. CASE Erase(o)
  <2>1. /\ ~row' /\ place' = place /\ company' = company
        /\ by' = IF row THEN o ELSE by
        /\ pc[o] = "erase" /\ pc'[o] = "confirm"
    BY <1>0, <1>2 DEF Erase
  <2>2. Contending' \subseteq Contending \ {o}
    BY <1>1, <2>1 DEF Contending
  <2>3. CASE row
    <3>1. o \in Contending /\ by' = o /\ o # NoRequest
      BY <2>1, <2>3 DEF Contending
    <3>2. o \notin company => Contending' = {}
      BY <1>0, <2>2, <3>1 DEF Apart
    <3>3. o \notin company => \A r \in Resources : place[r] # "home"
      BY <1>0, <2>1, <2>3 DEF Ordered
    <3> QED BY <2>1, <3>1, <3>2, <3>3 DEF NothingStays, Crossed
  <2>4. CASE ~row
    BY <1>0, <2>1, <2>2, <2>4 DEF NothingStays, Crossed, Free
  <2> QED BY <2>3, <2>4
<1>3. CASE ~Erase(o)
  <2>1. row' = row /\ by' = by
    BY <1>3 DEF Request, Forward, Failing, Check, Begin, MarkQuarantined, FindRow, Quarantine,
                Restore, Purge, Abandon, AbandonIf, Confirm, Close, CloseIf, BeginFails,
                MoveFails, RestoreFails, PurgeFails, EndFails
  <2>2. SUFFICES ASSUME ~row, ~Crossed
                 PROVE  /\ \A r \in Resources : place'[r] # "home"
                        /\ \A x \in Contending' : Free(x)'
    BY <1>0, <1>1, <2>1 DEF NothingStays, Crossed
  <2>3. (\A r \in Resources : place[r] # "home") /\ \A x \in Contending : Free(x)
    BY <1>0, <2>2 DEF NothingStays
  <2>4. \A x \in Contending' : x \in Contending \/ (x = o /\ Begin(o))
    BY <1>1 DEF Contending
  <2>5. CASE Begin(o)
    <3>1. place' = place /\ Free(o)
      BY <1>0, <2>5 DEF Begin, Ordered
    <3> QED BY <2>3, <2>4, <3>1 DEF Free
  <2>6. CASE Quarantine(o)
    BY <2>3, <2>4, <2>6 DEF Quarantine, Begin, Free
  <2>7. CASE Restore(o)
    <3>1. Free(o) /\ ~Begin(o)
      BY <2>3, <2>7 DEF Restore, Contending, Begin
    <3>2. place' = place
      BY <2>7, <3>1 DEF Restore, Free
    <3> QED BY <2>3, <2>4, <3>1, <3>2 DEF Free
  <2>8. CASE Purge(o)
    <3>1. \A x \in Contending' : x \in Contending
      BY <2>4, <2>8 DEF Purge, Begin
    <3>2. \A r \in Resources : place'[r] \in {place[r], "gone"}
      BY <1>0, <2>8 DEF Purge
    <3>3. \A x \in Requests : x # "gone"
      BY RequestsAssumption
    <3>4. Contending \subseteq Requests
      BY DEF Contending
    <3> QED BY <2>3, <3>1, <3>2, <3>3, <3>4 DEF Free
  <2>9. CASE ~(Begin(o) \/ Quarantine(o) \/ Restore(o) \/ Purge(o))
    <3>1. place' = place
      BY <1>3, <2>9 DEF Request, Forward, Failing, Check, MarkQuarantined, FindRow,
                  Abandon, AbandonIf, Confirm, Close, CloseIf, BeginFails, MoveFails,
                  RestoreFails, PurgeFails, EndFails
    <3> QED BY <2>3, <2>4, <2>9, <3>1 DEF Free
  <2> QED BY <2>5, <2>6, <2>7, <2>8, <2>9
<1> QED BY <1>2, <1>3

LEMMA StepSequence == SequenceInv /\ [Next]_vars => SequenceInv'
<1> SUFFICES ASSUME SequenceInv, [Next]_vars PROVE SequenceInv'
  OBVIOUS
<1>0. IInv' /\ TypeOK' /\ TypeOK
  BY StepIInv DEF SequenceInv, IInv
<1> USE DEF request, janitor, history
<1>1. ASSUME UNCHANGED <<pc, row, place, company, by>> PROVE SequenceInv'
  BY <1>0, <1>1 DEF SequenceInv, Apart, Contending, Ordered, NothingStays, Crossed, Free
<1>2. ASSUME NEW o \in Requests, Request(o) \/ Forward(o) \/ Failing(o)
      PROVE  SequenceInv'
  BY <1>0, <1>2, ApartSteps, OrderedSteps, StaysSteps DEF SequenceInv
<1>3. CASE UNCHANGED vars \/ Tasks \/ Start \/ JanitorTake \/ JanitorRemove \/ Serve \/ JanitorFails
  BY <1>1, <1>3 DEF vars, Tasks, SubmitRead, SubmitInsert, TaskEnds, Start, StartWith,
                   JanitorTake, JanitorRemove, Serve, JanitorFails
<1>4. CASE Crash
  <2>1. /\ UNCHANGED <<row, place, company, by>>
        /\ \A o \in Requests : pc'[o] = IF InProgress(o) THEN "ended" ELSE pc[o]
    BY <1>4 DEF Crash
  <2>2. Contending' = {} /\ \A o \in Requests : pc'[o] \in {"ended", "idle"} /\ (pc'[o] = "idle" => pc[o] = "idle")
    BY <1>0, <2>1 DEF Contending, InProgress, Idle, Moving, Undoing, Resources
  <2> QED BY <1>0, <2>1, <2>2
          DEF SequenceInv, Apart, Ordered, NothingStays, Crossed, Free, Moving, Resources
<1>5. CASE JanitorResolve
  <2>1. UNCHANGED <<row, pc, company, by>> /\ \A o \in Requests : pc[o] \in Idle
    BY <1>5 DEF JanitorResolve, JanitorMoves, SequenceInv, IInv, ProcessInv, InProgress
  <2>2. Contending' = {} /\ Contending = {}
    BY <2>1 DEF Contending, Idle, Moving, Undoing, Resources
  <2>3. /\ \A r \in Resources : place'[r] = place[r] \/ place'[r] = IF row THEN "home" ELSE "gone"
        /\ \A o \in Requests : Free(o) => Free(o)'
    BY <1>0, <1>5, RequestsAssumption DEF JanitorResolve, JanitorMoves, Put, Free, TypeOK
  <2> QED BY <1>0, <2>1, <2>2, <2>3, RequestsAssumption
          DEF SequenceInv, Apart, Ordered, NothingStays, Crossed, Idle, Moving, Resources
<1> QED BY <1>2, <1>3, <1>4, <1>5 DEF Next, Recover

-----------------------------------------------------------------------------
(* Theorems *)

(***************************************************************************)
(* The journal, the quarantine and the row agree at every point of every   *)
(* request, also across crashes and in the janitor.                        *)
(***************************************************************************)
THEOREM DeletionInvariance == Spec => []IInv
<1> QED BY InitIInv, StepIInv, PTL DEF Spec

(***************************************************************************)
(* The variables keep their types.                                         *)
(***************************************************************************)
THEOREM DeletionTypes == Spec => []TypeOK
<1>1. IInv => TypeOK
  BY DEF IInv
<1> QED BY <1>1, DeletionInvariance, PTL

(***************************************************************************)
(* Nothing of an existing project is destroyed and nothing in quarantine   *)
(* is unknown to the journal, for any number of concurrent requests.       *)
(***************************************************************************)
THEOREM NothingIsLost == Spec => []Recoverable
<1>1. IInv => Recoverable
  BY RequestsAssumption
     DEF IInv, Recoverable, ProcessInv, Journalled, Free, TypeOK
<1> QED BY <1>1, DeletionInvariance, PTL

(***************************************************************************)
(* Whenever nothing is left to do an existing project is whole, and a      *)
(* deleted one gone, or else its row was deleted by a request that moved   *)
(* resources while another one did: for any number of requests, failures   *)
(* and crashes.                                                            *)
(***************************************************************************)
THEOREM RestIsWhole == Spec => []RestIsConsistent
<1>1. Init => SequenceInv
  BY InitSequence
<1>2. SequenceInv /\ [Next]_vars => SequenceInv'
  BY StepSequence
<1>3. SequenceInv => RestIsConsistent
  BY RequestsAssumption
     DEF SequenceInv, IInv, RestIsConsistent, AtRest, Whole, Deleted, ProcessInv,
         Journalled, Free, NothingStays, TypeOK
<1> QED BY <1>1, <1>2, <1>3, PTL DEF Spec

(***************************************************************************)
(* Once the row is deleted only purging goes on: nothing is brought home,  *)
(* neither by the compensation of any request nor by the janitor, unless   *)
(* the request that deleted the row moved resources while another one did. *)
(***************************************************************************)
THEOREM OnlyPurgedAfterCommit == Spec => NoRestoreWithoutRow
<1>1. Init => SequenceInv
  BY InitSequence
<1>2. SequenceInv /\ [Next]_vars => SequenceInv'
  BY StepSequence
<1>3. SequenceInv /\ [Next]_vars
        => [\A r \in Resources : place[r] # "home" /\ place'[r] = "home" => row \/ Crossed]_vars
  <2> SUFFICES ASSUME SequenceInv, [Next]_vars, NEW r \in Resources,
                      place[r] # "home", place'[r] = "home", ~Crossed
               PROVE  row
    OBVIOUS
  <2>0. TypeOK /\ NothingStays
    BY DEF SequenceInv, IInv
  <2> USE RequestsAssumption DEF Resources, Put, request, janitor
  <2>1. CASE UNCHANGED place
    BY <2>1
  <2>2. ASSUME NEW o \in Requests, Quarantine(o) \/ Purge(o)
        PROVE  row
    BY <2>0, <2>2 DEF Quarantine, Purge, TypeOK
  <2>3. ASSUME NEW o \in Requests, Restore(o) PROVE row
    <3>1. o \in Contending /\ place[r] = o
      BY <2>0, <2>3 DEF Restore, Contending, Goto, Undoing, TypeOK
    <3> QED BY <2>0, <3>1 DEF NothingStays, Free
  <2>4. CASE JanitorResolve
    BY <2>0, <2>4 DEF JanitorResolve, JanitorMoves, TypeOK
  <2> QED
    BY <2>1, <2>2, <2>3, <2>4
       DEF Next, vars, Request, Forward, Failing, Check, Begin, MarkQuarantined,
           FindRow, Erase, Abandon, AbandonIf, Confirm, Close, CloseIf, BeginFails,
           MoveFails, RestoreFails, PurgeFails, EndFails, Tasks, SubmitRead,
           SubmitInsert, TaskEnds, Crash, Recover, Start, StartWith, JanitorTake,
           JanitorRemove, Serve, JanitorFails
<1> QED BY <1>1, <1>2, <1>3, PTL DEF Spec, NoRestoreWithoutRow
=============================================================================
