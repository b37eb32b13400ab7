-------------------------- MODULE ProjectDeletion --------------------------
(***************************************************************************)
(* Deletion of one project across the file system and the database:        *)
(* ProjectDeletionService._delete_sync, which runs in a thread for every   *)
(* request, ProjectDeletionJournal, ProjectDeletionJanitor, which runs     *)
(* when the API process starts, and the creation of tasks for the project. *)
(*                                                                         *)
(* A request first moves the workspace and the artifact into a quarantine  *)
(* of its own, then deletes the project's rows, then purges; a journal     *)
(* file per request tells the janitor what a dead process left behind.     *)
(* Every file or database call is a step, and may fail.                    *)
(***************************************************************************)
EXTENDS Naturals

CONSTANTS Requests,      \* the requests to delete the project, by operation_id
          NoRequest,     \* the janitor handles no journal file
          MaxFaults      \* bound: failing calls and crashes in a behaviour

ASSUME RequestsAssumption == Requests \cap {"home", "gone", NoRequest} = {}
ASSUME BoundsAssumption == MaxFaults \in Nat

VARIABLES
  row,      \* whether the project's row exists
  task,     \* the project's agent run or execution task
  place,    \* where each resource is: "home", the quarantine of a request, "gone"
  journal,  \* the state in each request's journal file ("none": no file)
  pc,       \* where the thread of each request is
  dirty,    \* whether it has warnings or restoration_failures
  spc,      \* where the handler that creates a task is
  process,  \* the API process
  pending,  \* the journal files the janitor listed and has not handled
  jop,      \* the one it handles
  faults,
  company,  \* history: the requests that moved resources while another one did
  by        \* history: the request that deleted the row

history == <<company, by>>
request == <<pc, dirty>>
janitor == <<pending, jop>>
vars    == <<row, task, place, journal, request, spc, process, janitor, faults, history>>

-----------------------------------------------------------------------------
(* Values *)

Resources == {"workspace", "artifact"}
Journal   == {"none", "prepared", "quarantined", "database_deleted",
              "cleanup_pending"}
Moving    == {"workspace", "artifact", "mark", "find", "erase"}
Undoing   == {"unartifact", "unworkspace", "abandon"}
Purging   == {"confirm", "purge", "discard", "close"}
Idle      == {"idle", "ended"}
RequestPC == Idle \cup {"check", "begin"} \cup Moving \cup Undoing \cup Purging

TypeOK ==
  /\ row \in BOOLEAN
  /\ task \in {"none", "active", "done"}
  /\ place \in [Resources -> {"home", "gone"} \cup Requests]
  /\ journal \in [Requests -> Journal]
  /\ pc \in [Requests -> RequestPC]
  /\ dirty \in [Requests -> BOOLEAN]
  /\ spc \in {"idle", "insert"}
  /\ process \in {"up", "down", "janitor"}
  /\ pending \subseteq Requests
  /\ jop \in Requests \cup {NoRequest}
  /\ faults \in 0 .. MaxFaults
  /\ company \subseteq Requests
  /\ by \in Requests \cup {NoRequest}

Init ==
  /\ row = TRUE
  /\ task = "none"
  /\ place = [r \in Resources |-> "home"]
  /\ journal = [o \in Requests |-> "none"]
  /\ pc = [o \in Requests |-> "idle"]
  /\ dirty = [o \in Requests |-> FALSE]
  /\ spc = "idle"
  /\ process = "up"
  /\ pending = {} /\ jop = NoRequest
  /\ faults = 0
  /\ company = {} /\ by = NoRequest

-----------------------------------------------------------------------------
(* Steps shared by the operations *)

Goto(o, from, to) == pc[o] = from /\ pc' = [pc EXCEPT ![o] = to]
Fault    == faults < MaxFaults /\ faults' = faults + 1
Put(r, where)   == place' = [place EXCEPT ![r] = where]
Write(o, state) == journal' = [journal EXCEPT ![o] = state]
Dirty(o)        == dirty' = [dirty EXCEPT ![o] = TRUE]
InProgress(o)   == pc[o] \notin Idle
Contending      == {o \in Requests : pc[o] \in Moving \cup Undoing}

-----------------------------------------------------------------------------
(* A request: checks *)

\* get_owned finds the project; without it the answer is 404.
Request(o) ==
  /\ process = "up"
  /\ row
  /\ Goto(o, "idle", "check")
  /\ UNCHANGED <<history, row, task, place, journal, dirty, spc, process, janitor, faults>>

\* has_active_tasks, in a session of its own.
Check(o) ==
  /\ Goto(o, "check", IF task = "active" THEN "ended" ELSE "begin")
  /\ UNCHANGED <<history, row, task, place, journal, dirty, spc, process, janitor, faults>>

Begin(o) ==
  /\ Goto(o, "begin", "workspace")
  /\ Write(o, "prepared")
  /\ company' = company \cup (IF Contending = {} THEN {} ELSE Contending \cup {o})
  /\ UNCHANGED <<by, row, task, place, dirty, spc, process, janitor, faults>>

\* The journal cannot be written: nothing was moved.
BeginFails(o) ==
  /\ Fault
  /\ Goto(o, "begin", "ended")
  /\ UNCHANGED <<history, row, task, place, journal, dirty, spc, process, janitor>>

-----------------------------------------------------------------------------
(* A request: resources into quarantine, then the rows *)

\* A resource that is not at home is skipped.
Quarantine(o) ==
  \E r \in Resources :
    /\ Goto(o, r, IF r = "workspace" THEN "artifact" ELSE "mark")
    /\ IF place[r] = "home" THEN Put(r, o) ELSE UNCHANGED place
    /\ UNCHANGED <<history, row, task, journal, dirty, spc, process, janitor, faults>>

MarkQuarantined(o) ==
  /\ Goto(o, "mark", "find")
  /\ Write(o, "quarantined")
  /\ UNCHANGED <<history, row, task, place, dirty, spc, process, janitor, faults>>

\* delete_owned_with_dependents reads the project; "Project disappeared during
\* deletion" when another request was faster.
FindRow(o) ==
  /\ Goto(o, "find", IF row THEN "erase" ELSE "unartifact")
  /\ UNCHANGED <<history, row, task, place, journal, dirty, spc, process, janitor, faults>>

\* One commit for the project and the rows that belong to it; a request that found
\* the row before another one deleted it goes on like that one.
Erase(o) ==
  /\ Goto(o, "erase", "confirm")
  /\ row' = FALSE
  /\ task' = "none"
  /\ by' = IF row THEN o ELSE by
  /\ UNCHANGED <<company, place, journal, dirty, spc, process, janitor, faults>>

\* Any of these calls may raise before it has changed anything.
MoveFails(o) ==
  /\ Fault
  /\ \E at \in Moving : Goto(o, at, "unartifact")
  /\ UNCHANGED <<history, row, task, place, journal, dirty, spc, process, janitor>>

-----------------------------------------------------------------------------
(* A request: compensation, _restore, then the journal *)

\* What the request quarantined goes home; what it found missing is not its own.
Restore(o) ==
  \E r \in Resources :
    /\ \/ r = "artifact" /\ Goto(o, "unartifact", "unworkspace")
       \/ r = "workspace" /\ Goto(o, "unworkspace", "abandon")
    /\ IF place[r] = o THEN Put(r, "home") ELSE UNCHANGED place
    /\ UNCHANGED <<history, row, task, journal, dirty, spc, process, janitor, faults>>

RestoreFails(o) ==
  /\ Fault
  /\ \/ Goto(o, "unartifact", "unworkspace") /\ place["artifact"] = o
     \/ Goto(o, "unworkspace", "abandon") /\ place["workspace"] = o
  /\ Dirty(o)
  /\ UNCHANGED <<history, row, task, place, journal, spc, process, janitor>>

\* The journal goes unless some resource could not be restored.
AbandonIf(o, clean) ==
  /\ Goto(o, "abandon", "ended")
  /\ IF clean THEN Write(o, "none") ELSE UNCHANGED journal
  /\ UNCHANGED <<history, row, task, place, dirty, spc, process, janitor, faults>>

AbandonAlways(o) == AbandonIf(o, TRUE)       \* slip: failures not asked for
Abandon(o) == AbandonIf(o, ~dirty[o])

-----------------------------------------------------------------------------
(* A request: purge, after the commit *)

Confirm(o) ==
  /\ Goto(o, "confirm", "purge")
  /\ Write(o, "database_deleted")
  /\ UNCHANGED <<history, row, task, place, dirty, spc, process, janitor, faults>>

Purge(o) ==
  \E r \in Resources :
    /\ \/ r = "workspace" /\ Goto(o, "purge", "discard")
       \/ r = "artifact" /\ Goto(o, "discard", "close")
    /\ IF place[r] = o THEN Put(r, "gone") ELSE UNCHANGED place
    /\ UNCHANGED <<history, row, task, journal, dirty, spc, process, janitor, faults>>

\* Every failure becomes a warning.
PurgeFails(o) ==
  /\ Fault
  /\ \/ Goto(o, "confirm", "purge")
     \/ Goto(o, "purge", "discard")
     \/ Goto(o, "discard", "close")
  /\ Dirty(o)
  /\ UNCHANGED <<history, row, task, place, journal, spc, process, janitor>>

\* With a warning the journal stays, for the janitor.
CloseIf(o, clean) ==
  /\ Goto(o, "close", "ended")
  /\ Write(o, IF clean THEN "none" ELSE "cleanup_pending")
  /\ UNCHANGED <<history, row, task, place, dirty, spc, process, janitor, faults>>

CloseAlways(o) == CloseIf(o, TRUE)           \* slip: warnings not asked for
Close(o) == CloseIf(o, ~dirty[o])

\* The journal cannot be removed or rewritten.
EndFails(o) ==
  /\ Fault
  /\ \E at \in {"abandon", "close"} : Goto(o, at, "ended")
  /\ UNCHANGED <<history, row, task, place, journal, dirty, spc, process, janitor>>

-----------------------------------------------------------------------------
(* Tasks of the project *)

\* The handler finds the project ...
SubmitRead ==
  /\ process = "up"
  /\ spc = "idle" /\ row
  /\ spc' = "insert"
  /\ UNCHANGED <<history, row, task, place, journal, request, process, janitor, faults>>

\* ... and inserts the task in another session; no foreign key objects.
SubmitInsert ==
  /\ spc = "insert"
  /\ spc' = "idle"
  /\ task' = "active"
  /\ UNCHANGED <<history, row, place, journal, request, process, janitor, faults>>

TaskEnds ==
  /\ task = "active"
  /\ task' = "done"
  /\ UNCHANGED <<history, row, place, journal, request, spc, process, janitor, faults>>

-----------------------------------------------------------------------------
(* The process dies, starts again and runs the janitor before it serves *)

Crash ==
  /\ Fault
  /\ process # "down"
  /\ process' = "down"
  /\ pc' = [o \in Requests |-> IF InProgress(o) THEN "ended" ELSE pc[o]]
  /\ spc' = "idle"
  /\ pending' = {} /\ jop' = NoRequest
  /\ UNCHANGED <<history, row, task, place, journal, dirty>>

\* list_pending: every journal file, whatever its state.
StartWith(S) ==
  /\ process = "down"
  /\ process' = "janitor"
  /\ pending' = {o \in Requests : journal[o] \in S}
  /\ UNCHANGED <<history, row, task, place, journal, request, spc, jop, faults>>

StartCommitted == StartWith({"database_deleted", "cleanup_pending"})  \* slip
Start == StartWith(Journal \ {"none"})

JanitorTake ==
  /\ process = "janitor" /\ jop = NoRequest
  /\ jop' \in pending
  /\ UNCHANGED <<history, row, task, place, journal, request, spc, process, pending, faults>>

\* _restore brings back the artifact first, _purge clears the workspace first.
JanitorMoves(keep) ==
  LET first == IF keep THEN "artifact" ELSE "workspace" IN
  /\ process = "janitor" /\ jop # NoRequest
  /\ \E r \in Resources :
       /\ place[r] = jop
       /\ r # first => place[first] # jop
       /\ Put(r, IF keep THEN "home" ELSE "gone")
  /\ UNCHANGED <<history, row, task, journal, request, spc, process, janitor, faults>>

\* slip: trusts the journal's state
JanitorByState ==
  jop # NoRequest /\ JanitorMoves(journal[jop] \in {"prepared", "quarantined"})
JanitorResolve == JanitorMoves(row)

JanitorRemove ==
  /\ process = "janitor" /\ jop # NoRequest
  /\ \A r \in Resources : place[r] # jop
  /\ Write(jop, "none")
  /\ pending' = pending \ {jop}
  /\ jop' = NoRequest
  /\ UNCHANGED <<history, row, task, place, request, spc, process, faults>>

\* An error is counted and the next journal file is taken.
JanitorFails ==
  /\ Fault
  /\ process = "janitor" /\ jop # NoRequest
  /\ pending' = pending \ {jop}
  /\ jop' = NoRequest
  /\ UNCHANGED <<history, row, task, place, journal, request, spc, process>>

Serve ==
  /\ process = "janitor" /\ pending = {}
  /\ process' = "up"
  /\ UNCHANGED <<history, row, task, place, journal, request, spc, janitor, faults>>

-----------------------------------------------------------------------------
Forward(o) == \/ Check(o) \/ Begin(o) \/ Quarantine(o) \/ MarkQuarantined(o)
              \/ FindRow(o) \/ Erase(o) \/ Restore(o) \/ Abandon(o)
              \/ Confirm(o) \/ Purge(o) \/ Close(o)

Failing(o) == \/ BeginFails(o) \/ MoveFails(o) \/ RestoreFails(o)
              \/ PurgeFails(o) \/ EndFails(o)

Tasks   == SubmitRead \/ SubmitInsert \/ TaskEnds
Recover == Start \/ JanitorTake \/ JanitorResolve \/ JanitorRemove \/ Serve

Next == \/ \E o \in Requests : Request(o) \/ Forward(o) \/ Failing(o)
        \/ Tasks \/ Crash \/ Recover \/ JanitorFails

Spec == Init /\ [][Next]_vars

(***************************************************************************)
(* Fairness: a thread that began runs on, and a dead process is started    *)
(* again.  Nothing is assumed of requests, tasks and faults.               *)
(***************************************************************************)
FairSpec == Spec /\ WF_vars(Recover) /\ \A o \in Requests : WF_vars(Forward(o))

-----------------------------------------------------------------------------
(* Properties *)

(***************************************************************************)
(* No resource is ever out of reach: as long as the project exists nothing *)
(* is destroyed, and a resource in quarantine is known to a journal file,  *)
(* so that the next start restores or purges it, wherever the process died *)
(* and however many requests ran at once.                                  *)
(***************************************************************************)
Recoverable ==
  \A r \in Resources :
    /\ row => place[r] # "gone"
    /\ place[r] \in Requests => journal[place[r]] # "none"

(***************************************************************************)
(* When nothing is left to do an existing project is whole, whatever       *)
(* failed and however many requests ran at once, and a deleted one is gone *)
(* unless the request that deleted the row moved resources while another   *)
(* one did.                                                                *)
(***************************************************************************)
Whole   == row /\ \A r \in Resources : place[r] = "home"
Deleted == ~row /\ \A r \in Resources : place[r] = "gone"
AtRest  == /\ process = "up"
           /\ \A o \in Requests : ~InProgress(o) /\ journal[o] = "none"
Crossed == by \in company

RestIsConsistent == AtRest => Whole \/ Deleted \/ Crossed

(***************************************************************************)
(* After the commit nothing is restored, neither by the compensation of a  *)
(* later request nor by the janitor, with the same exception.              *)
(***************************************************************************)
NoRestoreWithoutRow ==
  [][\A r \in Resources : place[r] # "home" /\ place'[r] = "home" => row \/ Crossed]_vars

(***************************************************************************)
(* A process that died during a deletion, also one whose compensation or   *)
(* purge had failed before, brings the project back to one of the two when *)
(* it is started again and nothing fails any more.                         *)
(***************************************************************************)
CrashIsRepaired ==
  process = "down" /\ faults = MaxFaults
    ~> process = "up" /\ (Whole \/ Deleted \/ Crossed)

-----------------------------------------------------------------------------
(* The inductive invariant *)

Free(o) == \A r \in Resources : place[r] # o

\* The journal file outlives everything the request holds in quarantine.
Journalled(o) ==
  /\ pc[o] \in Moving \cup Undoing \cup Purging => journal[o] # "none"
  /\ journal[o] = "none" => Free(o)

\* After the commit the row is gone; without a warning what was purged is gone
\* from the quarantine, and what was restored is home.
Progress(o) ==
  /\ pc[o] \in Purging => ~row
  /\ ~dirty[o] =>
       /\ pc[o] \in {"unworkspace", "abandon", "close"} => place["artifact"] # o
       /\ pc[o] \in {"discard", "close", "abandon"} => place["workspace"] # o

ProcessInv ==
  /\ process # "up" => \A o \in Requests : ~InProgress(o)
  /\ row => \A r \in Resources : place[r] # "gone"

(***************************************************************************)
(* What Recoverable rests on: at every point of every request the journal, *)
(* the quarantine, the flags and the row fit together.                     *)
(***************************************************************************)
IInv == /\ TypeOK
        /\ \A o \in Requests : Journalled(o) /\ Progress(o)
        /\ ProcessInv

(***************************************************************************)
(* What RestIsConsistent and NoRestoreWithoutRow rest on: a request that   *)
(* moves resources alone leaves nothing at home when it deletes the row,   *)
(* and no later one has anything of its own to bring home.                 *)
(***************************************************************************)
Apart == \A o, u \in Contending : o # u => o \in company

Ordered(o) ==
  /\ row /\ o \notin company =>
       /\ pc[o] \in Moving \ {"workspace"} => place["workspace"] # "home"
       /\ pc[o] \in Moving \ Resources => place["artifact"] # "home"
  /\ pc[o] \in {"idle", "check", "begin"} => Free(o)

NothingStays == ~row /\ ~Crossed =>
                  /\ \A r \in Resources : place[r] # "home"
                  /\ \A o \in Contending : Free(o)

SequenceInv == /\ IInv
               /\ row <=> by = NoRequest
               /\ Apart
               /\ \A o \in Requests : Ordered(o)
               /\ NothingStays

-----------------------------------------------------------------------------
(* What the repository's documents and comments say *)

(***************************************************************************)
(* "数据库已经提交后只允许继续清理，不能恢复成没有数据库记录的项目"              *)
(* (projects/README.md:67): nothing is restored for a project whose row is *)
(* gone.  Two requests at once break it.                                   *)
(***************************************************************************)
OnlyCleanedAfterCommit ==
  [][\A r \in Resources : place[r] # "home" /\ place'[r] = "home" => row]_vars

(***************************************************************************)
(* "在单一数据库事务中检查活动任务并删除项目关联记录" (repository.py:144): a    *)
(* deletion never removes an active task.                                  *)
(***************************************************************************)
ActiveTaskIsProtected == [][row /\ ~row' => task # "active"]_vars
=============================================================================
