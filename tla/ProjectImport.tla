--------------------------- MODULE ProjectImport ---------------------------
(***************************************************************************)
(* Import of projects: ProjectImportService._import_sync in a thread per   *)
(* request, ProjectImportTransaction with its compensations, the staging   *)
(* directory with its journal, the published workspace, the artifact, the  *)
(* row, and WorkspaceJanitor, which runs when an API process starts.       *)
(*                                                                         *)
(* An import has a staging directory and a project of its own, so it is    *)
(* also the name of both; if it was requested with a progress identifier   *)
(* that is its name, too.  What the journal says is never read, only       *)
(* whether it can be read.  Every file or database call may fail.          *)
(***************************************************************************)
EXTENDS ImportProgress

CONSTANTS Imports,   \* the imports; other identifiers are registered and never used
          NoImport,  \* the janitor handles no directory
          Stale,     \* stale_operation_seconds, in ticks
          MaxFaults  \* bound: failing calls in a behaviour

ASSUME ImportAssumption == Imports \subseteq Ids /\ NoImport \notin Imports /\ Stale \in Nat \ {0} /\ MaxFaults \in Nat

VARIABLES
  ipc,       \* where the import is
  tracked,   \* how many compensations are registered
  broken,    \* whether a compensation failed
  dir,       \* the staging directory: "none", "bare" or "journal" (with one)
  source,    \* the sources: "none", "staged", "published"
  artifact,  \* "none", "temp" or "saved"
  row,       \* whether the project's row exists
  lost,      \* history: refresh failed after the commit of the row
  age,       \* ticks since the staging directory changed
  process,   \* the API process: "down", "starting", "up"
  todo,      \* directories a pass of the janitor has not looked at
  jpc,       \* what the janitor does: "idle", "list" or a step for jop
  jop,       \* the directory it handles
  faults

thread  == <<ipc, tracked, broken>>
disk    == <<dir, source, artifact, age>>
janitor == <<todo, jpc, jop>>
vars    == <<thread, disk, row, lost, process, janitor, faults, progress>>

-----------------------------------------------------------------------------
(* Values *)

Staging  == {"created", "acquiring", "sanitizing"}
Forward  == {"enter", "journal", "analyzing", "published", "saving", "saved",
             "inserted"} \cup Staging
Backward == {"rollback", "undo", "mark"}
Resting  == {"idle", "ended", "dead"}
ImportPC == Forward \cup Backward \cup Resting \cup {"done", "failed"}

Live(i) == ipc[i] \notin Resting

TypeOK ==
  /\ ProgressTypeOK
  /\ ipc \in [Imports -> ImportPC]
  /\ tracked \in [Imports -> 0 .. 3]
  /\ broken \in [Imports -> BOOLEAN]
  /\ dir \in [Imports -> {"none", "bare", "journal"}]
  /\ source \in [Imports -> {"none", "staged", "published"}]
  /\ artifact \in [Imports -> {"none", "temp", "saved"}]
  /\ row \in [Imports -> BOOLEAN]
  /\ lost \in [Imports -> BOOLEAN]
  /\ age \in [Imports -> 0 .. Stale]
  /\ process \in {"down", "starting", "up"}
  /\ todo \subseteq Imports
  /\ jpc \in {"idle", "list", "exists", "project", "artifact", "operation"}
  /\ jop \in Imports \cup {NoImport}
  /\ faults \in 0 .. MaxFaults

Init ==
  /\ ProgressInit
  /\ ipc = [i \in Imports |-> "idle"]
  /\ tracked = [i \in Imports |-> 0]
  /\ broken = [i \in Imports |-> FALSE]
  /\ dir = [i \in Imports |-> "none"]
  /\ source = [i \in Imports |-> "none"]
  /\ artifact = [i \in Imports |-> "none"]
  /\ row = [i \in Imports |-> FALSE]
  /\ lost = [i \in Imports |-> FALSE]
  /\ age = [i \in Imports |-> 0]
  /\ process = "up"
  /\ todo = {} /\ jpc = "idle" /\ jop = NoImport
  /\ faults = 0

-----------------------------------------------------------------------------
(* Steps shared by the operations *)

Goto(i, from, to) == ipc[i] = from /\ ipc' = [ipc EXCEPT ![i] = to]
Fault             == faults < MaxFaults /\ faults' = faults + 1
Track(i, n)       == tracked' = [tracked EXCEPT ![i] = n]

\* OperationJournal._write makes the directory if need be and renews its age.
Journal(i) == /\ dir' = [dir EXCEPT ![i] = "journal"]
              /\ age' = [age EXCEPT ![i] = 0]

\* remove_operation takes the staged sources with it.
RemoveStaging(i) ==
  /\ dir' = [dir EXCEPT ![i] = "none"]
  /\ age' = [age EXCEPT ![i] = 0]
  /\ source' = [source EXCEPT ![i] = IF @ = "staged" THEN "none" ELSE @]

\* rmtree stops at the first entry it cannot remove; what it removed before
\* renews the directory's age.
StagingRemains(i) ==
  /\ dir[i] # "none"
  /\ \/ UNCHANGED <<dir, source, age>>
     \/ /\ age' = [age EXCEPT ![i] = 0]
        /\ dir' = [dir EXCEPT ![i] = "bare"]
        /\ UNCHANGED source \/ source' = [source EXCEPT ![i] = IF @ = "staged" THEN "none" ELSE @]

RemoveProject(i) == source' = [source EXCEPT ![i] = IF @ = "published" THEN "none" ELSE @]
RemoveArtifact(i) == artifact' = [artifact EXCEPT ![i] = "none"]

-----------------------------------------------------------------------------
(* The request and the forward path *)

\* POST /project/analysis-progress, and its polls.
Register(q, u) ==
  /\ process = "up"
  /\ q \in Imports => ipc[q] = "idle"
  /\ CreateEntry(q, u) \/ CreateRefused(u)
  /\ UNCHANGED <<thread, disk, row, lost, process, janitor, faults>>

Poll(q, u) ==
  /\ process = "up"
  /\ Snapshot(q, u)
  /\ UNCHANGED <<thread, disk, row, lost, process, janitor, faults>>

\* POST /project/analyze with a progress identifier; without one (the field
\* is optional) the import is not in the table at all.
Analyze(i, u) ==
  /\ process = "up"
  /\ Goto(i, "idle", "enter")
  /\ ClaimEntry(i, u) \/ (i \notin issued /\ UNCHANGED progress)
  /\ UNCHANGED <<tracked, broken, disk, row, lost, process, janitor, faults>>

AnalyzeRefused(i, u) ==
  /\ process = "up"
  /\ i \in issued /\ ClaimRefused(i, u)
  /\ UNCHANGED <<thread, disk, row, lost, process, janitor, faults>>

MakeDirectory(i) ==
  /\ Goto(i, "enter", "journal")
  /\ dir' = [dir EXCEPT ![i] = "bare"]
  /\ source' = [source EXCEPT ![i] = "staged"]
  /\ age' = [age EXCEPT ![i] = 0]
  /\ UNCHANGED <<tracked, broken, artifact, row, lost, process, janitor, faults, progress>>

\* create_operation makes two directories; begin has not returned, so there
\* is no operation to roll back and a first one stays.
MakeDirectoryFails(i) ==
  /\ Fault
  /\ Goto(i, "enter", "failed")
  /\ \E d \in {"none", "bare"} : dir' = [dir EXCEPT ![i] = d]
  /\ age' = [age EXCEPT ![i] = 0]
  /\ UNCHANGED <<tracked, broken, source, artifact, row, lost, process, janitor, progress>>

BeginOperation(i) ==
  /\ Goto(i, "journal", "created")
  /\ Journal(i)
  /\ Track(i, 1)
  /\ UNCHANGED <<broken, source, artifact, row, lost, process, janitor, faults, progress>>

\* The journal cannot be created; begin removes the directory, or fails to.
BeginFails(i) ==
  /\ Fault
  /\ Goto(i, "journal", "failed")
  /\ RemoveStaging(i) \/ StagingRemains(i)
  /\ UNCHANGED <<tracked, broken, artifact, row, lost, process, janitor, progress>>

\* prepare and the analysis: each writes its state, then works.
Prepare(i) ==
  /\ \/ Goto(i, "created", "acquiring")
     \/ Goto(i, "acquiring", "sanitizing")
     \/ Goto(i, "sanitizing", "analyzing")
  /\ Journal(i)
  /\ UNCHANGED <<tracked, broken, source, artifact, row, lost, process, janitor, faults, progress>>

\* track_published_workspace, the journal, the rename.
Publish(i) ==
  /\ Goto(i, "analyzing", "published")
  /\ source[i] = "staged"
  /\ Track(i, 2)
  /\ Journal(i)
  /\ source' = [source EXCEPT ![i] = "published"]
  /\ UNCHANGED <<broken, artifact, row, lost, process, janitor, faults, progress>>

PublishFails(i) ==
  /\ Goto(i, "analyzing", "rollback")
  /\ IF source[i] = "staged" THEN Fault ELSE UNCHANGED faults
  /\ Track(i, 2)
  /\ Journal(i) \/ UNCHANGED <<dir, age>>
  /\ UNCHANGED <<broken, source, artifact, row, lost, process, janitor, progress>>

\* track_artifact, the journal, the temporary file.
WriteArtifact(i) ==
  /\ Goto(i, "published", "saving")
  /\ Track(i, 3)
  /\ Journal(i)
  /\ artifact' = [artifact EXCEPT ![i] = "temp"]
  /\ UNCHANGED <<broken, source, row, lost, process, janitor, faults, progress>>

WriteArtifactFails(i) ==
  /\ Fault
  /\ Goto(i, "published", "rollback") \/ Goto(i, "saving", "rollback")
  /\ Track(i, 3)
  /\ \E a \in {"none", "temp"} : artifact' = [artifact EXCEPT ![i] = a]
  /\ Journal(i) \/ UNCHANGED <<dir, age>>
  /\ UNCHANGED <<broken, source, row, lost, process, janitor, progress>>

SaveArtifact(i) ==
  /\ Goto(i, "saving", "saved")
  /\ artifact' = [artifact EXCEPT ![i] = "saved"]
  /\ UNCHANGED <<tracked, broken, dir, source, age, row, lost, process, janitor, faults, progress>>

CreateRow(i) ==
  /\ Goto(i, "saved", "inserted")
  /\ row' = [row EXCEPT ![i] = TRUE]
  /\ UNCHANGED <<tracked, broken, disk, lost, process, janitor, faults, progress>>

\* The commit succeeds and the refresh after it does not.
RefreshFails(i) ==
  /\ Fault
  /\ Goto(i, "saved", "rollback")
  /\ row' = [row EXCEPT ![i] = TRUE]
  /\ lost' = [lost EXCEPT ![i] = TRUE]
  /\ UNCHANGED <<tracked, broken, disk, process, janitor, progress>>

\* commit: from here on nothing is rolled back, whatever fails.
Commit(i) ==
  /\ Goto(i, "inserted", "done")
  /\ RemoveStaging(i)
  /\ UNCHANGED <<tracked, broken, artifact, row, lost, process, janitor, faults, progress>>

CommitFails(i, next) ==
  /\ Fault
  /\ Goto(i, "inserted", next)
  /\ StagingRemains(i)
  /\ UNCHANGED <<tracked, broken, artifact, row, lost, process, janitor, progress>>

CommitRollsBack(i) == CommitFails(i, "rollback")      \* slip: cleanup failure undoes the import
CommitLeavesJournal(i) == CommitFails(i, "done")

\* Any other call fails: the sources, the analysis, the journal, the
\* insertion.
StepFails(i) ==
  /\ Fault
  /\ \E from \in Staging \cup {"analyzing", "saved"} : Goto(i, from, "rollback")
  /\ UNCHANGED <<tracked, broken, disk, row, lost, process, janitor, progress>>

-----------------------------------------------------------------------------
(* Rollback: compensations in reverse, the staging directory only if all   *)
(* others succeeded *)

RollBack(i) ==
  /\ Goto(i, "rollback", "undo")
  /\ \/ Journal(i) /\ UNCHANGED faults
     \/ Fault /\ UNCHANGED <<dir, age>>
  /\ UNCHANGED <<tracked, broken, source, artifact, row, lost, process, janitor, progress>>

CompensateIf(i, clean) ==
  /\ ipc[i] = "undo" /\ tracked[i] > 0
  /\ Track(i, tracked[i] - 1)
  /\ \/ tracked[i] = 3 /\ RemoveArtifact(i) /\ UNCHANGED <<dir, source, age>>
     \/ tracked[i] = 2 /\ RemoveProject(i) /\ UNCHANGED <<dir, artifact, age>>
     \/ tracked[i] = 1 /\ clean /\ RemoveStaging(i) /\ UNCHANGED artifact
     \/ tracked[i] = 1 /\ ~ clean /\ UNCHANGED disk
  /\ UNCHANGED <<ipc, broken, row, lost, process, janitor, faults, progress>>

CompensateAll(i) == CompensateIf(i, TRUE)              \* slip: failures not asked for
Compensate(i) == CompensateIf(i, ~ broken[i])

CompensationFails(i) ==
  /\ Fault
  /\ ipc[i] = "undo" /\ tracked[i] > 0
  /\ tracked[i] = 1 => ~ broken[i]
  /\ Track(i, tracked[i] - 1)
  /\ broken' = [broken EXCEPT ![i] = TRUE]
  /\ IF tracked[i] = 1 THEN StagingRemains(i) ELSE UNCHANGED <<dir, source, age>>
  /\ UNCHANGED <<ipc, artifact, row, lost, process, janitor, progress>>

EndRollback(i) ==
  /\ tracked[i] = 0
  /\ Goto(i, "undo", IF broken[i] THEN "mark" ELSE "failed")
  /\ UNCHANGED <<tracked, broken, disk, row, lost, process, janitor, faults, progress>>

\* mark_rollback_failed writes a journal again if the last one is gone.
MarkFailed(i) ==
  /\ Goto(i, "mark", "failed")
  /\ \/ Journal(i) /\ UNCHANGED faults
     \/ Fault /\ UNCHANGED <<dir, age>>
  /\ UNCHANGED <<tracked, broken, source, artifact, row, lost, process, janitor, progress>>

\* _tracked_import_sync tells the progress table how it ended.
ReportStatus(i, known) ==
  /\ \E s \in {"done", "failed"} :
       /\ Goto(i, s, "ended")
       /\ IF s \in known THEN UpdateEntry(i, IF s = "done" THEN "completed" ELSE "failed")
                         ELSE UNCHANGED progress
  /\ UNCHANGED <<tracked, broken, disk, row, lost, process, janitor, faults>>

ReportSuccess(i) == ReportStatus(i, {"done"})          \* slip: errors not reported
Report(i) == ReportStatus(i, {"done", "failed"})

-----------------------------------------------------------------------------
(* The process and the janitor *)

Crash ==
  /\ process # "down"
  /\ process' = "down"
  /\ ipc' = [i \in Imports |-> IF Live(i) THEN "dead" ELSE ipc[i]]
  /\ todo' = {} /\ jpc' = "idle" /\ jop' = NoImport
  /\ ForgetEntries
  /\ UNCHANGED <<tracked, broken, disk, row, lost, faults>>

\* A pass runs when the process starts or, while it is up, in another API
\* process that starts beside it.  Assumption: when that happens no import
\* has rested at one step for stale_operation_seconds; the janitor would take
\* its directory for an abandoned one.
Patient == \A i \in Imports : Live(i) => age[i] < Stale

BeginPass ==
  /\ jpc = "idle"
  /\ \/ process = "down" /\ process' = "starting"
     \/ process = "up" /\ Patient /\ UNCHANGED process
  /\ jpc' = "list"
  /\ todo' = {i \in Imports : dir[i] # "none"}
  /\ UNCHANGED <<thread, disk, row, lost, jop, faults, progress>>

\* The age of the directory decides.
InspectIf(i, found) ==
  /\ jpc = "list" /\ i \in todo
  /\ todo' = todo \ {i}
  /\ IF found /\ age[i] = Stale
     THEN jpc' = (IF dir[i] = "journal" THEN "exists" ELSE "operation") /\ jop' = i
     ELSE UNCHANGED <<jpc, jop>>
  /\ UNCHANGED <<thread, disk, row, lost, process, faults, progress>>

InspectJournals(i) == InspectIf(i, dir[i] = "journal")  \* slip: a directory without one is skipped
Inspect(i) == InspectIf(i, dir[i] # "none")

Decide(keep) ==
  /\ jpc = "exists"
  /\ jpc' = IF keep THEN "operation" ELSE "project"
  /\ UNCHANGED <<thread, disk, row, lost, process, todo, jop, faults, progress>>

ProjectUnknown == Decide(FALSE)                        \* slip: the row is not asked for
ProjectExists == Decide(row[jop])

CleanProject ==
  /\ jpc = "project"
  /\ RemoveProject(jop)
  /\ jpc' = "artifact"
  /\ UNCHANGED <<thread, dir, artifact, age, row, lost, process, todo, jop, faults, progress>>

CleanArtifact ==
  /\ jpc = "artifact"
  /\ RemoveArtifact(jop)
  /\ jpc' = "operation"
  /\ UNCHANGED <<thread, dir, source, age, row, lost, process, todo, jop, faults, progress>>

CleanOperation ==
  /\ jpc = "operation"
  /\ RemoveStaging(jop)
  /\ jpc' = "list" /\ jop' = NoImport
  /\ UNCHANGED <<thread, artifact, row, lost, process, todo, faults, progress>>

\* One directory that cannot be cleaned does not stop the others.
CleanFails ==
  /\ Fault
  /\ jpc \in {"exists", "project", "artifact", "operation"}
  /\ IF jpc = "operation" THEN StagingRemains(jop) ELSE UNCHANGED <<dir, source, age>>
  /\ jpc' = "list" /\ jop' = NoImport
  /\ UNCHANGED <<thread, artifact, row, lost, process, todo, progress>>

EndPass ==
  /\ jpc = "list" /\ todo = {}
  /\ jpc' = "idle"
  /\ process' = "up"
  /\ UNCHANGED <<thread, disk, row, lost, todo, jop, faults, progress>>

\* Bound: ages saturate where the janitor no longer tells them apart.
Tick ==
  /\ age' = [i \in Imports |-> IF dir[i] # "none" /\ age[i] < Stale THEN age[i] + 1 ELSE age[i]]
  /\ AgeEntries /\ UNCHANGED issued
  /\ UNCHANGED <<thread, dir, source, artifact, row, lost, process, janitor, faults>>
  /\ process = "up" /\ jpc # "idle" => Patient'

-----------------------------------------------------------------------------
(* The specification *)

Request == \E u \in Users : \/ \E q \in Ids : Register(q, u) \/ Poll(q, u)
                            \/ \E i \in Imports : Analyze(i, u) \/ AnalyzeRefused(i, u)

Work(i) ==
  \/ MakeDirectory(i) \/ MakeDirectoryFails(i) \/ BeginOperation(i) \/ BeginFails(i)
  \/ Prepare(i) \/ Publish(i) \/ PublishFails(i)
  \/ WriteArtifact(i) \/ WriteArtifactFails(i) \/ SaveArtifact(i)
  \/ CreateRow(i) \/ RefreshFails(i) \/ Commit(i) \/ CommitLeavesJournal(i) \/ StepFails(i)
  \/ RollBack(i) \/ Compensate(i) \/ CompensationFails(i) \/ EndRollback(i) \/ MarkFailed(i)
  \/ Report(i)

Pass == \/ \E i \in Imports : Inspect(i)
        \/ ProjectExists \/ CleanProject \/ CleanArtifact \/ CleanOperation \/ CleanFails
        \/ EndPass

Next == \/ Request
        \/ \E i \in Imports : Work(i)
        \/ Crash \/ BeginPass \/ Pass \/ Tick

Spec == Init /\ [][Next]_vars

(***************************************************************************)
(* Fairness.  A thread runs on, every call of an import returns, a pass    *)
(* of the janitor ends, the clock runs.  Nobody is assumed to restart the  *)
(* process, and it may die again and again.                                *)
(***************************************************************************)
FairSpec == /\ Spec
            /\ \A i \in Imports : WF_vars(Work(i))
            /\ WF_vars(Pass)
            /\ WF_vars(Tick)

-----------------------------------------------------------------------------
(* Properties *)

Whole(i) == source[i] = "published" /\ artifact[i] = "saved"
Files(i) == source[i] = "published" \/ artifact[i] # "none"

(***************************************************************************)
(* A project's row has its workspace and its artifact, at every point of   *)
(* every import, rollback and pass of a janitor, except when the refresh   *)
(* after the commit of the row failed (repository.py:67).                  *)
(***************************************************************************)
RowHasFiles == \A i \in Imports : row[i] /\ ~ lost[i] => Whole(i)

(***************************************************************************)
(* The types, the quotas of the progress table and the files of every row  *)
(* hold together, whatever expires, fails or dies.                         *)
(***************************************************************************)
Consistent == TypeOK /\ Quotas /\ RowHasFiles

(***************************************************************************)
(* What an import left without a row can be found: it is still running,    *)
(* or its journal can be read, which only the janitor needs, however many  *)
(* compensations failed and wherever the process died.                     *)
(***************************************************************************)
Recoverable == \A i \in Imports : Files(i) /\ ~ row[i] => Live(i) \/ dir[i] = "journal"

(***************************************************************************)
(* What the progress table tells the user is what the database and the     *)
(* disk hold: completed for a whole project, failed for one without a row. *)
(***************************************************************************)
ReportIsTrue ==
  \A i \in DOMAIN entries :
    /\ entries[i].status = "completed" => row[i] /\ Whole(i)
    /\ entries[i].status = "failed" /\ ~ lost[i] => ~ row[i]

(***************************************************************************)
(* The inductive invariant: what each point of an import says of its       *)
(* files, its row and its compensations, whom the janitor may work for,    *)
(* and how far an import with a final status has come.                     *)
(***************************************************************************)
Early == {"idle", "enter", "journal", "analyzing"} \cup Staging

Untouched(i) == dir[i] = "none" /\ source[i] = "none" /\ age[i] = 0

FilesFollow(i) ==
  /\ ipc[i] \in {"idle", "enter"} => Untouched(i)
  /\ ipc[i] \in Early => artifact[i] = "none" /\ source[i] # "published"
  /\ ipc[i] = "published" => source[i] = "published" /\ artifact[i] = "none"
  /\ ipc[i] \in {"saving", "saved", "inserted"} => source[i] = "published" /\ tracked[i] = 3
  /\ ipc[i] \in {"saved", "inserted"} => artifact[i] = "saved"

RowFollows(i) ==
  /\ ipc[i] \in Early \cup {"published", "saving", "saved"} => ~ row[i] /\ ~ lost[i]
  /\ ipc[i] \in {"inserted", "done"} => row[i] /\ ~ lost[i]
  /\ ipc[i] \in Backward \cup {"failed"} => (row[i] => lost[i])

\* What no compensation is left for is gone, unless one failed.
Undone(i) ==
  ipc[i] \in {"rollback", "undo"} /\ ~ broken[i] =>
    /\ tracked[i] < 3 => artifact[i] = "none"
    /\ tracked[i] < 2 => source[i] # "published"

Journalled(i) == Files(i) /\ ~ row[i] => dir[i] = "journal"

JanitorInv ==
  /\ process # "up" => \A i \in Imports : ~ Live(i)
  /\ process = "down" => jpc = "idle"
  /\ jpc # "idle" => Patient
  /\ \A i \in todo : ipc[i] # "idle"
  /\ jpc \notin {"idle", "list"} => jop \in Imports /\ ipc[jop] \in {"ended", "dead"}
  /\ jpc = "project" => ~ row[jop]
  /\ jpc = "artifact" => ~ row[jop] /\ source[jop] # "published"
  /\ jpc = "operation" => row[jop] \/ ~ Files(jop)

Reported(i) ==
  /\ entries[i].status = "completed" => i \in Imports /\ ipc[i] = "ended" /\ row[i] /\ ~ lost[i]
  /\ entries[i].status = "failed" => i \in Imports /\ ipc[i] = "ended" /\ (row[i] => lost[i])

IInv ==
  /\ Consistent
  /\ IsFiniteSet(DOMAIN entries)
  /\ \A i \in Imports : FilesFollow(i) /\ RowFollows(i) /\ Undone(i) /\ Journalled(i)
  /\ JanitorInv
  /\ \A i \in DOMAIN entries : Reported(i)

(***************************************************************************)
(* If passes of the janitor go on ending, what an import leaves behind is  *)
(* removed some day.                                                       *)
(***************************************************************************)
Leftover(i) == ~ Live(i) /\ (dir[i] # "none" \/ (Files(i) /\ ~ row[i]))
LeftoverIsCollected ==
  ([]<><<EndPass>>_vars) => \A i \in Imports : Leftover(i) ~> ~ Leftover(i)

(***************************************************************************)
(* An identifier does not stay running: the import reports its end, or the *)
(* process died and the table with it.                                     *)
(***************************************************************************)
RunningEnds ==
  \A i \in Imports : (i \in DOMAIN entries /\ entries[i].status = "running")
                       ~> ~ (i \in DOMAIN entries /\ entries[i].status = "running")
=============================================================================
