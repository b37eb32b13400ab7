------------------------- MODULE ProjectImportProofs -------------------------
(***************************************************************************)
(* Proofs about ProjectImport and ImportProgress, for every set of         *)
(* imports, identifiers and users, every limit and every number of faults. *)
(*                                                                         *)
(* The first part is about the table of progress identifiers alone, the    *)
(* second about the files and the row of an import, where a step of one    *)
(* import or of the janitor disturbs only the import it works for.         *)
(***************************************************************************)
EXTENDS ProjectImport, FiniteSetTheorems, TLAPS

-----------------------------------------------------------------------------
(* The table of progress identifiers *)

TableInv == ProgressTypeOK /\ Quotas /\ IsFiniteSet(DOMAIN entries)

\* Entries may go, and may end; nobody gets more active ones by that.
LEMMA TableShrinks ==
  ASSUME TableInv, issued' = issued, DOMAIN entries' \subseteq DOMAIN entries,
         \A q \in DOMAIN entries' :
           /\ entries'[q] \in Entry /\ entries'[q].user = entries[q].user
           /\ entries'[q].status \in Active => entries[q].status \in Active
  PROVE  TableInv'
<1>1. ProgressTypeOK'
  BY DEF TableInv, ProgressTypeOK
<1>2. IsFiniteSet(DOMAIN entries')
  BY FS_Subset DEF TableInv
<1>3. Cardinality(DOMAIN entries') <= MaxEntries
  <2>1. Cardinality(DOMAIN entries') <= Cardinality(DOMAIN entries)
    BY FS_Subset DEF TableInv
  <2>2. Cardinality(DOMAIN entries') \in Nat /\ Cardinality(DOMAIN entries) \in Nat
    BY <1>2, FS_CardinalityType DEF TableInv
  <2> QED BY <2>1, <2>2, ProgressAssumption DEF TableInv, Quotas
<1>4. ASSUME NEW u \in Users PROVE Cardinality(ActiveOf(u)') <= MaxPerUser
  <2>1. ActiveOf(u)' \subseteq ActiveOf(u) /\ ActiveOf(u) \subseteq DOMAIN entries
    BY DEF ActiveOf
  <2>2. IsFiniteSet(ActiveOf(u))
    BY <2>1, FS_Subset DEF TableInv
  <2>3. Cardinality(ActiveOf(u)') <= Cardinality(ActiveOf(u)) /\ IsFiniteSet(ActiveOf(u)')
    BY <2>1, <2>2, FS_Subset
  <2>4. Cardinality(ActiveOf(u)') \in Nat /\ Cardinality(ActiveOf(u)) \in Nat
    BY <2>2, <2>3, FS_CardinalityType
  <2> QED BY <2>3, <2>4, ProgressAssumption DEF TableInv, Quotas
<1> QED BY <1>1, <1>2, <1>3, <1>4 DEF TableInv, Quotas

\* A new identifier is given out only while its user and the table have room.
LEMMA TableGrows ==
  ASSUME TableInv, NEW q \in Ids, NEW u \in Users, CreateEntry(q, u)
  PROVE  TableInv'
<1> DEFINE new == [user |-> u, status |-> "pending", age |-> 0]
<1>0. new \in Entry /\ new.user = u /\ new.status \in Active
  BY ProgressAssumption DEF Entry, Active
<1>1. Kept \subseteq DOMAIN entries /\ q \notin Kept /\ IsFiniteSet(Kept)
  BY FS_Subset DEF TableInv, CreateEntry, Kept, ProgressTypeOK
<1>2. /\ DOMAIN entries' = Kept \cup {q}
      /\ entries'[q] = new /\ \A k \in Kept : entries'[k] = entries[k]
  BY <1>1 DEF CreateEntry
<1> HIDE DEF new
<1>3. ProgressTypeOK'
  BY <1>0, <1>1, <1>2 DEF TableInv, ProgressTypeOK, CreateEntry
<1>4. IsFiniteSet(DOMAIN entries') /\ Cardinality(DOMAIN entries') <= MaxEntries
  <2>1. Cardinality(Kept) \in Nat /\ Cardinality(Kept) < MaxEntries
    BY <1>1, FS_CardinalityType DEF CreateEntry, Free
  <2>2. IsFiniteSet(Kept \cup {q}) /\ Cardinality(Kept \cup {q}) = Cardinality(Kept) + 1
    BY <1>1, FS_AddElement
  <2> QED BY <1>2, <2>1, <2>2, ProgressAssumption
<1>5. ASSUME NEW v \in Users PROVE Cardinality(ActiveOf(v)') <= MaxPerUser
  <2> DEFINE A == ActiveOf(v) \cap Kept
  <2>1. IsFiniteSet(A) /\ q \notin A
    BY <1>1, FS_Intersection
  <2>2. Cardinality(A) \in Nat
    BY <2>1, FS_CardinalityType
  <2>3. CASE v = u
    <3>1. ActiveOf(v)' = A \cup {q}
      BY <1>0, <1>1, <1>2, <2>3 DEF ActiveOf
    <3>2. Cardinality(A) < MaxPerUser
      BY <2>3 DEF CreateEntry, Free
    <3>3. Cardinality(A \cup {q}) = Cardinality(A) + 1
      BY <2>1, FS_AddElement
    <3> QED BY <2>2, <3>1, <3>2, <3>3, ProgressAssumption
  <2>4. CASE v # u
    <3>1. ActiveOf(v)' = A
      BY <1>0, <1>1, <1>2, <2>4 DEF ActiveOf
    <3>2. ActiveOf(v) \subseteq DOMAIN entries /\ A \subseteq ActiveOf(v)
      BY DEF ActiveOf
    <3>3. IsFiniteSet(ActiveOf(v))
      BY <3>2, FS_Subset DEF TableInv
    <3>4. Cardinality(A) <= Cardinality(ActiveOf(v)) /\ Cardinality(ActiveOf(v)) \in Nat
      BY <3>2, <3>3, FS_Subset, FS_CardinalityType
    <3>5. Cardinality(ActiveOf(v)) <= MaxPerUser
      BY DEF TableInv, Quotas
    <3> QED BY <2>2, <3>1, <3>4, <3>5, ProgressAssumption
  <2> QED BY <2>3, <2>4
<1> QED BY <1>3, <1>4, <1>5 DEF TableInv, Quotas

\* What a renewed entry is.
LEMMA RenewedEntry ==
  ASSUME NEW e \in Entry, NEW s \in Active \cup Final
  PROVE  /\ [e EXCEPT !.status = s, !.age = 0] \in Entry
         /\ [e EXCEPT !.status = s, !.age = 0].user = e.user
         /\ [e EXCEPT !.status = s, !.age = 0].status = s
<1>1. e.user \in Users
  BY DEF Entry
<1> DEFINE t == [e EXCEPT !.status = s]
<1>2. [e EXCEPT !.status = s, !.age = 0] = [user |-> e.user, status |-> s, age |-> 0]
  <2>1. t = [user |-> e.user, status |-> s, age |-> e.age]
    BY DEF Entry
  <2>2. [e EXCEPT !.status = s, !.age = 0] = [t EXCEPT !.age = 0]
    OBVIOUS
  <2> HIDE DEF t
  <2> QED BY <2>1, <2>2
<1>3. 0 \in 0 .. Ttl
  BY ProgressAssumption
<1> QED BY <1>1, <1>2, <1>3 DEF Entry

\* Every operation of the table keeps its invariant.
LEMMA TableSteps ==
  ASSUME TableInv,
         \/ \E q \in Ids, u \in Users : CreateEntry(q, u) \/ ClaimEntry(q, u)
                                        \/ ClaimRefused(q, u) \/ Snapshot(q, u)
         \/ \E u \in Users : CreateRefused(u)
         \/ \E q \in Ids, s \in Final : UpdateEntry(q, s)
         \/ AgeEntries /\ UNCHANGED issued
         \/ ForgetEntries
         \/ UNCHANGED progress
  PROVE  TableInv'
<1>0. \A q \in DOMAIN entries : /\ entries[q] \in Entry
                                /\ entries[q].user \in Users /\ entries[q].age \in 0 .. Ttl
                                /\ entries[q].status \in Active \cup Final
  BY DEF TableInv, ProgressTypeOK, Entry
<1>1. ASSUME issued' = issued, entries' = Pruned PROVE TableInv'
  BY <1>0, <1>1, TableShrinks DEF Pruned, Kept
<1>2. ASSUME NEW q \in Kept, NEW s \in Active, entries[q].status \in Active,
             entries' = Renewed(q, s), issued' = issued
      PROVE  TableInv'
  <2>1. /\ DOMAIN entries' = Kept /\ Kept \subseteq DOMAIN entries
        /\ \A k \in Kept \ {q} : entries'[k] = entries[k]
        /\ entries'[q] = [entries[q] EXCEPT !.status = s, !.age = 0]
    BY <1>2 DEF Renewed, Pruned, Kept
  <2>2. /\ entries'[q] \in Entry /\ entries'[q].user = entries[q].user
    <3>1. entries[q] \in Entry /\ s \in Active \cup Final
      BY <1>0, <2>1
    <3> DEFINE e == entries[q]
               t == [e EXCEPT !.status = s, !.age = 0]
    <3>2. entries'[q] = t /\ entries[q] = e /\ e \in Entry
      BY <2>1, <3>1
    <3> HIDE DEF e
    <3>3. t \in Entry /\ t.user = e.user
      BY <3>1, <3>2, RenewedEntry, Zenon
    <3> HIDE DEF t
    <3> QED BY <3>2, <3>3
  <2> QED BY <1>0, <1>2, <2>1, <2>2, TableShrinks
<1>3. ASSUME NEW q \in Ids, NEW s \in Final, UpdateEntry(q, s) PROVE TableInv'
  <2>1. CASE q \in DOMAIN entries /\ entries[q].status = "running"
    <3>1. /\ DOMAIN entries' = DOMAIN entries
          /\ \A k \in DOMAIN entries \ {q} : entries'[k] = entries[k]
          /\ entries'[q] = [entries[q] EXCEPT !.status = s, !.age = 0]
      BY <1>3, <2>1 DEF UpdateEntry
    <3>2. entries'[q] \in Entry /\ entries'[q].user = entries[q].user
      <4>1. entries[q] \in Entry /\ s \in Active \cup Final
        BY <1>0, <2>1
      <4> DEFINE e == entries[q]
                 t == [e EXCEPT !.status = s, !.age = 0]
      <4>2. entries'[q] = t /\ entries[q] = e /\ e \in Entry
        BY <3>1, <4>1
      <4> HIDE DEF e
      <4>3. t \in Entry /\ t.user = e.user
        BY <4>1, <4>2, RenewedEntry, Zenon
      <4> HIDE DEF t
      <4> QED BY <4>2, <4>3
    <3> QED BY <1>0, <1>3, <2>1, <3>1, <3>2, TableShrinks DEF UpdateEntry, Active
  <2>2. CASE ~ (q \in DOMAIN entries /\ entries[q].status = "running")
    BY <1>0, <1>3, <2>2, TableShrinks DEF UpdateEntry
  <2> QED BY <2>1, <2>2
<1>4. CASE AgeEntries /\ UNCHANGED issued
  <2>1. DOMAIN entries' = DOMAIN entries
    BY <1>4 DEF AgeEntries
  <2>2. ASSUME NEW q \in DOMAIN entries
        PROVE  /\ entries'[q] \in Entry /\ entries'[q].user = entries[q].user
               /\ entries'[q].status = entries[q].status
    <3> DEFINE a == IF entries[q].age < Ttl THEN entries[q].age + 1 ELSE entries[q].age
    <3>1. a \in 0 .. Ttl
      BY <1>0, ProgressAssumption
    <3>2. entries'[q] = [entries[q] EXCEPT !.age = a]
      BY <1>4 DEF AgeEntries
    <3> HIDE DEF a
    <3> QED BY <1>0, <3>1, <3>2 DEF Entry
  <2> QED BY <1>4, <2>1, <2>2, TableShrinks
<1>5. CASE ForgetEntries
  BY <1>5, TableShrinks DEF ForgetEntries
<1>6. CASE UNCHANGED progress
  BY <1>0, <1>6, TableShrinks DEF progress
<1>7. ASSUME NEW q \in Ids, NEW u \in Users,
             ClaimEntry(q, u) \/ ClaimRefused(q, u) \/ Snapshot(q, u)
      PROVE  TableInv'
  BY <1>1, <1>2, <1>7 DEF ClaimEntry, ClaimRefused, Snapshot, Owned, Active
<1> QED BY <1>1, <1>3, <1>4, <1>5, <1>6, <1>7, TableGrows DEF CreateRefused

-----------------------------------------------------------------------------
(* The files and the row of one import *)

FilesTypeOK ==
  /\ ipc \in [Imports -> ImportPC]
  /\ tracked \in [Imports -> 0 .. 3]
  /\ broken \in [Imports -> BOOLEAN]
  /\ dir \in [Imports -> {"none", "bare", "journal"}]
  /\ source \in [Imports -> {"none", "staged", "published"}]
  /\ artifact \in [Imports -> {"none", "temp", "saved"}]
  /\ row \in [Imports -> BOOLEAN]
  /\ lost \in [Imports -> BOOLEAN]
  /\ age \in [Imports -> 0 .. Stale]

RunTypeOK ==
  /\ process \in {"down", "starting", "up"}
  /\ todo \subseteq Imports
  /\ jpc \in {"idle", "list", "exists", "project", "artifact", "operation"}
  /\ jop \in Imports \cup {NoImport}
  /\ faults \in 0 .. MaxFaults

\* What the invariant says of one import.
Local(i) == /\ FilesFollow(i) /\ RowFollows(i) /\ Undone(i) /\ Journalled(i)
            /\ row[i] /\ ~ lost[i] => Whole(i)

Same(j) == /\ ipc'[j] = ipc[j] /\ tracked'[j] = tracked[j] /\ broken'[j] = broken[j]
           /\ dir'[j] = dir[j] /\ source'[j] = source[j] /\ artifact'[j] = artifact[j]
           /\ row'[j] = row[j] /\ lost'[j] = lost[j] /\ age'[j] = age[j]

LEMMA SameIsLocal ==
  ASSUME NEW j, Same(j), Local(j) PROVE Local(j)'
BY DEF Same, Local, FilesFollow, RowFollows, Undone, Journalled, Whole, Files, Untouched

\* What a step of a thread leaves alone.
Stepped(i) ==
  /\ FilesTypeOK'
  /\ \A j \in Imports \ {i} : Same(j)
  /\ Live(i) /\ ipc'[i] \notin {"idle", "dead"}
  /\ age'[i] \in {0, age[i]}
  /\ faults' \in 0 .. MaxFaults
  /\ UNCHANGED <<process, janitor>>
  /\ ipc'[i] # "ended" => UNCHANGED progress

LEMMA FaultKeepsBound ==
  ASSUME faults \in 0 .. MaxFaults, Fault PROVE faults' \in 0 .. MaxFaults
BY ImportAssumption DEF Fault

LEMMA ForwardSteps ==
  ASSUME FilesTypeOK, RunTypeOK, NEW i \in Imports,
         \/ MakeDirectory(i) \/ MakeDirectoryFails(i) \/ BeginOperation(i)
         \/ Prepare(i) \/ Publish(i) \/ PublishFails(i)
  PROVE  Stepped(i)
<1> USE ImportAssumption DEF FilesTypeOK, Stepped, Same, Goto, ImportPC, Forward, Backward,
        Resting, Staging, Live, Journal, Track, janitor
<1>0. faults \in 0 .. MaxFaults
  BY DEF RunTypeOK
<1>1. CASE MakeDirectory(i)
  BY <1>0, <1>1 DEF MakeDirectory
<1>2. CASE MakeDirectoryFails(i)
  BY <1>0, <1>2, FaultKeepsBound DEF MakeDirectoryFails
<1>3. CASE BeginOperation(i)
  BY <1>0, <1>3 DEF BeginOperation
<1>4. CASE Prepare(i)
  BY <1>0, <1>4 DEF Prepare
<1>5. CASE Publish(i)
  BY <1>0, <1>5 DEF Publish
<1>6. CASE PublishFails(i)
  BY <1>0, <1>6, FaultKeepsBound DEF PublishFails
<1> QED BY <1>1, <1>2, <1>3, <1>4, <1>5, <1>6

LEMMA SavingSteps ==
  ASSUME FilesTypeOK, RunTypeOK, NEW i \in Imports,
         \/ WriteArtifact(i) \/ WriteArtifactFails(i) \/ SaveArtifact(i) \/ CreateRow(i)
         \/ RefreshFails(i) \/ StepFails(i)
  PROVE  Stepped(i)
<1> USE ImportAssumption DEF FilesTypeOK, Stepped, Same, Goto, ImportPC, Forward, Backward,
        Resting, Staging, Live, Journal, Track, janitor
<1>0. faults \in 0 .. MaxFaults
  BY DEF RunTypeOK
<1>1. CASE WriteArtifact(i)
  BY <1>0, <1>1 DEF WriteArtifact
<1>2. CASE WriteArtifactFails(i)
  BY <1>0, <1>2, FaultKeepsBound DEF WriteArtifactFails
<1>3. CASE SaveArtifact(i)
  BY <1>0, <1>3 DEF SaveArtifact
<1>4. CASE CreateRow(i)
  BY <1>0, <1>4 DEF CreateRow, disk
<1>5. CASE RefreshFails(i)
  BY <1>0, <1>5, FaultKeepsBound DEF RefreshFails, disk
<1>6. CASE StepFails(i)
  BY <1>0, <1>6, FaultKeepsBound DEF StepFails, disk
<1> QED BY <1>1, <1>2, <1>3, <1>4, <1>5, <1>6

LEMMA EndingSteps ==
  ASSUME FilesTypeOK, RunTypeOK, NEW i \in Imports,
         \/ BeginFails(i) \/ Commit(i) \/ CommitLeavesJournal(i)
  PROVE  Stepped(i)
<1> USE ImportAssumption DEF FilesTypeOK, Stepped, Same, Goto, ImportPC, Forward, Backward,
        Resting, Staging, Live, Journal, Track, janitor
<1>0. faults \in 0 .. MaxFaults
  BY DEF RunTypeOK
<1>1. CASE BeginFails(i)
  BY <1>0, <1>1, FaultKeepsBound DEF BeginFails, RemoveStaging, StagingRemains
<1>2. CASE Commit(i)
  BY <1>0, <1>2 DEF Commit, RemoveStaging
<1>3. CASE CommitLeavesJournal(i)
  BY <1>0, <1>3, FaultKeepsBound DEF CommitLeavesJournal, CommitFails, StagingRemains
<1> QED BY <1>1, <1>2, <1>3

LEMMA RollbackSteps ==
  ASSUME FilesTypeOK, RunTypeOK, NEW i \in Imports,
         \/ RollBack(i) \/ Compensate(i) \/ CompensationFails(i) \/ EndRollback(i)
         \/ MarkFailed(i) \/ Report(i)
  PROVE  Stepped(i)
<1> USE ImportAssumption DEF FilesTypeOK, Stepped, Same, Goto, ImportPC, Forward, Backward,
        Resting, Staging, Live, Journal, Track, janitor
<1>0. faults \in 0 .. MaxFaults
  BY DEF RunTypeOK
<1>1. CASE RollBack(i)
  BY <1>0, <1>1, FaultKeepsBound DEF RollBack
<1>2. CASE Compensate(i)
  BY <1>0, <1>2 DEF Compensate, CompensateIf, RemoveArtifact, RemoveProject, RemoveStaging, disk
<1>3. CASE CompensationFails(i)
  BY <1>0, <1>3, FaultKeepsBound DEF CompensationFails, StagingRemains
<1>4. CASE EndRollback(i)
  BY <1>0, <1>4 DEF EndRollback, disk
<1>5. CASE MarkFailed(i)
  BY <1>0, <1>5, FaultKeepsBound DEF MarkFailed
<1>6. CASE Report(i)
  BY <1>0, <1>6 DEF Report, ReportStatus, disk
<1> QED BY <1>1, <1>2, <1>3, <1>4, <1>5, <1>6

LEMMA ForwardIsLocal ==
  ASSUME FilesTypeOK, NEW i \in Imports, Local(i),
         \/ MakeDirectory(i) \/ MakeDirectoryFails(i) \/ BeginOperation(i) \/ Prepare(i)
         \/ Publish(i) \/ PublishFails(i)
  PROVE  Local(i)'
<1> USE DEF FilesTypeOK, Local, FilesFollow, RowFollows, Undone, Journalled, Whole, Files,
        Untouched, Early, Goto, Forward, Backward, Staging, Journal, Track
<1>1. CASE MakeDirectory(i)
  BY <1>1 DEF MakeDirectory
<1>2. CASE MakeDirectoryFails(i)
  BY <1>2 DEF MakeDirectoryFails
<1>3. CASE BeginOperation(i)
  BY <1>3 DEF BeginOperation
<1>4. CASE Prepare(i)
  BY <1>4 DEF Prepare
<1>5. CASE Publish(i)
  BY <1>5 DEF Publish
<1>6. CASE PublishFails(i)
  BY <1>6 DEF PublishFails
<1> QED BY <1>1, <1>2, <1>3, <1>4, <1>5, <1>6

LEMMA SavingIsLocal ==
  ASSUME FilesTypeOK, NEW i \in Imports, Local(i),
         \/ WriteArtifact(i) \/ WriteArtifactFails(i) \/ SaveArtifact(i) \/ CreateRow(i)
         \/ RefreshFails(i) \/ StepFails(i)
  PROVE  Local(i)'
<1> USE DEF FilesTypeOK, Local, FilesFollow, RowFollows, Undone, Journalled, Whole, Files,
        Untouched, Early, Goto, Forward, Backward, Staging, Journal, Track
<1>1. CASE WriteArtifact(i)
  BY <1>1 DEF WriteArtifact
<1>2. CASE WriteArtifactFails(i)
  BY <1>2 DEF WriteArtifactFails
<1>3. CASE SaveArtifact(i)
  BY <1>3 DEF SaveArtifact
<1>4. CASE CreateRow(i)
  BY <1>4 DEF CreateRow, disk
<1>5. CASE RefreshFails(i)
  BY <1>5 DEF RefreshFails, disk
<1>6. CASE StepFails(i)
  BY <1>6 DEF StepFails, disk
<1> QED BY <1>1, <1>2, <1>3, <1>4, <1>5, <1>6

LEMMA EndingIsLocal ==
  ASSUME FilesTypeOK, NEW i \in Imports, Local(i),
         \/ BeginFails(i) \/ Commit(i) \/ CommitLeavesJournal(i)
  PROVE  Local(i)'
<1> USE DEF FilesTypeOK, Local, FilesFollow, RowFollows, Undone, Journalled, Whole, Files,
        Untouched, Early, Goto, Forward, Backward, Staging, Journal, Track
<1>1. CASE BeginFails(i)
  BY <1>1 DEF BeginFails, RemoveStaging, StagingRemains
<1>2. CASE Commit(i)
  BY <1>2 DEF Commit, RemoveStaging
<1>3. CASE CommitLeavesJournal(i)
  BY <1>3 DEF CommitLeavesJournal, CommitFails, StagingRemains
<1> QED BY <1>1, <1>2, <1>3

LEMMA RollbackIsLocal ==
  ASSUME FilesTypeOK, NEW i \in Imports, Local(i),
         \/ RollBack(i) \/ Compensate(i) \/ CompensationFails(i) \/ EndRollback(i)
         \/ MarkFailed(i) \/ Report(i)
  PROVE  Local(i)'
<1> USE DEF FilesTypeOK, Local, FilesFollow, RowFollows, Undone, Journalled, Whole, Files,
        Untouched, Early, Goto, Forward, Backward, Staging, Journal, Track
<1>1. CASE RollBack(i)
  BY <1>1 DEF RollBack
<1>2. CASE Compensate(i)
  BY <1>2 DEF Compensate, CompensateIf, RemoveArtifact, RemoveProject, RemoveStaging, disk
<1>3. CASE CompensationFails(i)
  BY <1>3 DEF CompensationFails, StagingRemains
<1>4. CASE EndRollback(i)
  BY <1>4 DEF EndRollback, disk
<1>5. CASE MarkFailed(i)
  BY <1>5 DEF MarkFailed
<1>6. CASE Report(i)
  BY <1>6 DEF Report, ReportStatus, disk
<1> QED BY <1>1, <1>2, <1>3, <1>4, <1>5, <1>6

LEMMA WorkIsLocal ==
  ASSUME FilesTypeOK, RunTypeOK, NEW i \in Imports, Local(i), Work(i)
  PROVE  Stepped(i) /\ Local(i)'
BY ForwardSteps, SavingSteps, EndingSteps, RollbackSteps,
   ForwardIsLocal, SavingIsLocal, EndingIsLocal, RollbackIsLocal DEF Work

-----------------------------------------------------------------------------
(* The parts of the invariant *)

Parts == /\ TableInv /\ FilesTypeOK /\ RunTypeOK
         /\ \A i \in Imports : Local(i)
         /\ JanitorInv
         /\ \A q \in DOMAIN entries : Reported(q)

LEMMA InvariantParts == (IInv <=> Parts) /\ (IInv' <=> Parts')
<1> USE DEF IInv, Consistent, TypeOK, RowHasFiles, Parts, TableInv, FilesTypeOK, RunTypeOK, Local
<1>1. IInv <=> Parts
  OBVIOUS
<1>2. IInv' <=> Parts'
  OBVIOUS
<1> QED BY <1>1, <1>2

\* Only a thread that reports gives an entry a final status.
LEMMA FinalsStay ==
  ASSUME TableInv, \A q \in DOMAIN entries : Reported(q),
         \A i \in Imports : ipc[i] = "ended" =>
             ipc'[i] = "ended" /\ row'[i] = row[i] /\ lost'[i] = lost[i],
         \/ \E q \in Ids, u \in Users : CreateEntry(q, u) \/ ClaimEntry(q, u)
                                        \/ ClaimRefused(q, u) \/ Snapshot(q, u)
         \/ \E u \in Users : CreateRefused(u)
         \/ AgeEntries
         \/ ForgetEntries
         \/ UNCHANGED progress
  PROVE  \A q \in DOMAIN entries' : Reported(q)'
<1> DEFINE Old(q) == q \in DOMAIN entries /\ entries'[q].status = entries[q].status
<1>0. \A q \in DOMAIN entries : entries[q] \in Entry
  BY DEF TableInv, ProgressTypeOK
<1>1. ASSUME NEW q \in DOMAIN entries', Old(q) \/ entries'[q].status \notin Final
      PROVE  Reported(q)'
  BY <1>1 DEF Reported, Final
<1>2. ASSUME entries' = Pruned, NEW q \in DOMAIN entries' PROVE Old(q)
  BY <1>2 DEF Pruned, Kept
<1>3. ASSUME NEW k \in Kept, NEW s \in Active, entries' = Renewed(k, s), NEW q \in DOMAIN entries'
      PROVE  Old(q) \/ entries'[q].status \notin Final
  <2>1. /\ DOMAIN entries' = Kept /\ Kept \subseteq DOMAIN entries
        /\ \A j \in Kept \ {k} : entries'[j] = entries[j]
        /\ entries'[k] = [entries[k] EXCEPT !.status = s, !.age = 0]
    BY <1>3 DEF Renewed, Pruned, Kept
  <2> DEFINE e == entries[k]
             t == [e EXCEPT !.status = s, !.age = 0]
  <2>2. entries'[k] = t /\ e \in Entry /\ s \in Active \cup Final
    BY <1>0, <2>1
  <2> HIDE DEF e
  <2>3. t.status = s
    BY <2>2, RenewedEntry, Zenon
  <2> HIDE DEF t
  <2> QED BY <1>3, <2>1, <2>2, <2>3 DEF Active, Final
<1>4. ASSUME NEW k \in Ids, NEW u \in Users, CreateEntry(k, u), NEW q \in DOMAIN entries'
      PROVE  Old(q) \/ entries'[q].status \notin Final
  BY <1>4 DEF CreateEntry, Kept, Final
<1>5. ASSUME AgeEntries, NEW q \in DOMAIN entries' PROVE Old(q)
  <2>1. q \in DOMAIN entries
    BY <1>5 DEF AgeEntries
  <2>2. entries'[q] = [entries[q] EXCEPT !.age = IF @ < Ttl THEN @ + 1 ELSE @]
    BY <1>5, <2>1 DEF AgeEntries
  <2> QED BY <1>0, <2>1, <2>2 DEF Entry
<1>6. ASSUME ForgetEntries, NEW q \in DOMAIN entries' PROVE FALSE
  BY <1>6 DEF ForgetEntries
<1>7. ASSUME UNCHANGED progress, NEW q \in DOMAIN entries' PROVE Old(q)
  BY <1>7 DEF progress
<1> HIDE DEF Old
<1>8. ASSUME NEW k \in Ids, NEW u \in Users,
             ClaimEntry(k, u) \/ ClaimRefused(k, u) \/ Snapshot(k, u),
             NEW q \in DOMAIN entries'
      PROVE  Old(q) \/ entries'[q].status \notin Final
  BY <1>2, <1>3, <1>8 DEF ClaimEntry, ClaimRefused, Snapshot, Owned, Active
<1>9. ASSUME NEW u \in Users, CreateRefused(u), NEW q \in DOMAIN entries' PROVE Old(q)
  BY <1>2, <1>9 DEF CreateRefused
<1> QED BY <1>1, <1>4, <1>5, <1>6, <1>7, <1>8, <1>9

\* What an import that ends reports is what its row says.
LEMMA ReportIsRow ==
  ASSUME TableInv, FilesTypeOK, \A q \in DOMAIN entries : Reported(q),
         NEW i \in Imports, Local(i), Report(i)
  PROVE  \A q \in DOMAIN entries' : Reported(q)'
<1>1. PICK s \in {"done", "failed"} :
        /\ Goto(i, s, "ended")
        /\ UpdateEntry(i, IF s = "done" THEN "completed" ELSE "failed")
  BY DEF Report, ReportStatus
<1> DEFINE f == IF s = "done" THEN "completed" ELSE "failed"
<1>2. /\ ipc' = [ipc EXCEPT ![i] = "ended"] /\ row' = row /\ lost' = lost
      /\ ipc[i] = s /\ ipc'[i] = "ended"
      /\ \A j \in Imports \ {i} : ipc'[j] = ipc[j]
  BY <1>1 DEF Goto, FilesTypeOK, Report, ReportStatus
<1>3. /\ s = "done" => row'[i] /\ ~ lost'[i]
      /\ s = "failed" => (row'[i] => lost'[i])
  BY <1>2 DEF Local, RowFollows, Backward
<1>4. ASSUME NEW q \in DOMAIN entries', entries'[q] = entries[q], q \in DOMAIN entries
      PROVE  Reported(q)'
  BY <1>2, <1>4 DEF Reported
<1>5. CASE i \in DOMAIN entries /\ entries[i].status = "running"
  <2>1. /\ DOMAIN entries' = DOMAIN entries
        /\ \A k \in DOMAIN entries \ {i} : entries'[k] = entries[k]
        /\ entries'[i] = [entries[i] EXCEPT !.status = f, !.age = 0]
    BY <1>1, <1>5 DEF UpdateEntry
  <2> DEFINE e == entries[i]
             t == [e EXCEPT !.status = f, !.age = 0]
  <2>2. entries'[i] = t /\ e \in Entry /\ f \in Active \cup Final
    BY <1>1, <1>5, <2>1 DEF TableInv, ProgressTypeOK, Final
  <2> HIDE DEF e, f
  <2>3. t.status = f
    BY <2>2, RenewedEntry, Zenon
  <2> HIDE DEF t
  <2>4. Reported(i)'
    BY <1>1, <1>2, <1>3, <2>2, <2>3 DEF Reported, f
  <2> QED BY <1>4, <2>1, <2>4
<1>6. CASE ~ (i \in DOMAIN entries /\ entries[i].status = "running")
  BY <1>1, <1>4, <1>6 DEF UpdateEntry
<1> QED BY <1>5, <1>6

LEMMA WorkKeepsJanitor ==
  ASSUME FilesTypeOK, RunTypeOK, JanitorInv, NEW i \in Imports, Stepped(i)
  PROVE  JanitorInv'
<1> USE DEF Stepped, Same, Live, Resting, janitor
<1>1. \A j \in Imports : Live(j)' => Live(j)
  OBVIOUS
<1>2. \A j \in Imports : ipc'[j] = "idle" => ipc[j] = "idle"
  OBVIOUS
<1>3. Patient => Patient'
  <2>1. \A j \in Imports : age'[j] \in {0, age[j]}
    BY DEF FilesTypeOK
  <2> QED BY <1>1, <2>1, ImportAssumption DEF Patient, FilesTypeOK
<1>4. jpc \notin {"idle", "list"} => jop # i /\ Same(jop)
  BY DEF JanitorInv
<1>5. /\ process' # "up" => \A j \in Imports : ~ Live(j)'
      /\ process' = "down" => jpc' = "idle"
      /\ jpc' # "idle" => Patient'
  BY <1>1, <1>3 DEF JanitorInv
<1>6. \A j \in todo' : ipc'[j] # "idle"
  BY <1>2 DEF JanitorInv, RunTypeOK
<1>7. CASE jpc \in {"idle", "list"}
  BY <1>5, <1>6, <1>7 DEF JanitorInv
<1>8. CASE jpc \notin {"idle", "list"}
  BY <1>4, <1>5, <1>6, <1>8 DEF JanitorInv, Files
<1> QED BY <1>7, <1>8

LEMMA WorkStep ==
  ASSUME IInv, NEW i \in Imports, Work(i) PROVE IInv'
<1>1. /\ TableInv /\ FilesTypeOK /\ RunTypeOK /\ JanitorInv /\ Local(i)
      /\ \A j \in Imports : Local(j)
      /\ \A q \in DOMAIN entries : Reported(q)
  BY InvariantParts DEF Parts
<1>2. Stepped(i) /\ Local(i)'
  BY <1>1, WorkIsLocal
<1>3. FilesTypeOK' /\ RunTypeOK'
  BY <1>1, <1>2 DEF Stepped, RunTypeOK, janitor
<1>4. \A j \in Imports : Local(j)'
  BY <1>1, <1>2, SameIsLocal DEF Stepped
<1>5. JanitorInv'
  BY <1>1, <1>2, WorkKeepsJanitor
<1>6. CASE UNCHANGED progress
  <2>1. TableInv'
    BY <1>1, <1>6, TableSteps
  <2>2. \A j \in Imports : ipc[j] = "ended" =>
          ipc'[j] = "ended" /\ row'[j] = row[j] /\ lost'[j] = lost[j]
    BY <1>2 DEF Stepped, Same, Live, Resting
  <2>3. \A q \in DOMAIN entries' : Reported(q)'
    BY <1>1, <1>6, <2>2, FinalsStay
  <2> QED BY <1>3, <1>4, <1>5, <2>1, <2>3, InvariantParts DEF Parts
<1>7. CASE Report(i)
  <2>1. \E s \in Final : UpdateEntry(i, s)
    BY <1>7 DEF Report, ReportStatus, Final
  <2>2. TableInv'
    BY <1>1, <2>1, TableSteps, ImportAssumption
  <2>3. \A q \in DOMAIN entries' : Reported(q)'
    BY <1>1, <1>7, ReportIsRow
  <2> QED BY <1>3, <1>4, <1>5, <2>2, <2>3, InvariantParts DEF Parts
<1>8. ipc'[i] = "ended" => Report(i)
  BY <1>1 DEF FilesTypeOK, Work, MakeDirectory, MakeDirectoryFails, BeginOperation, BeginFails, Prepare,
     Publish, PublishFails, WriteArtifact, WriteArtifactFails, SaveArtifact, CreateRow,
     RefreshFails, Commit, CommitLeavesJournal, CommitFails, StepFails, RollBack, Compensate,
     CompensateIf, CompensationFails, EndRollback, MarkFailed, Goto, Staging
<1> QED BY <1>2, <1>6, <1>7, <1>8 DEF Stepped

-----------------------------------------------------------------------------
(* Requests, the process and the janitor *)

\* Requests touch the table and, when an import starts, where it is.
LEMMA RequestStep ==
  ASSUME IInv, Request PROVE IInv'
<1>1. /\ TableInv /\ FilesTypeOK /\ RunTypeOK /\ JanitorInv
      /\ \A j \in Imports : Local(j)
      /\ \A q \in DOMAIN entries : Reported(q)
  BY InvariantParts DEF Parts
<1>2. ASSUME UNCHANGED <<thread, disk, row, lost, process, janitor, faults>>, NEW u \in Users,
             \/ CreateRefused(u)
             \/ \E q \in Ids : CreateEntry(q, u) \/ ClaimRefused(q, u) \/ Snapshot(q, u)
      PROVE  IInv'
  <2>1. TableInv'
    BY <1>1, <1>2, TableSteps
  <2>2. FilesTypeOK' /\ RunTypeOK' /\ JanitorInv'
    BY <1>1, <1>2 DEF FilesTypeOK, RunTypeOK, JanitorInv, Patient, Live, Files, thread, disk, janitor
  <2>3. \A j \in Imports : Local(j)'
    BY <1>1, <1>2, SameIsLocal DEF Same, thread, disk
  <2>4. \A q \in DOMAIN entries' : Reported(q)'
    BY <1>1, <1>2, FinalsStay DEF thread
  <2> QED BY <2>1, <2>2, <2>3, <2>4, InvariantParts DEF Parts
<1>3. ASSUME NEW i \in Imports, NEW u \in Users, Analyze(i, u) PROVE IInv'
  <2> USE <1>3 DEF Analyze, Goto, disk, janitor
  <2>1. TableInv'
    BY <1>1, TableSteps, ImportAssumption
  <2>2. FilesTypeOK' /\ RunTypeOK'
    BY <1>1 DEF FilesTypeOK, RunTypeOK, ImportPC, Forward
  <2>3. \A j \in Imports \ {i} : ipc'[j] = ipc[j]
    BY <1>1 DEF FilesTypeOK
  <2>4. ipc[i] = "idle" /\ ipc'[i] = "enter"
    BY <1>1 DEF FilesTypeOK
  <2>5. Local(i)'
    BY <1>1, <2>4 DEF Local, FilesFollow, RowFollows, Undone, Journalled, Whole, Files, Untouched,
       Early, Backward, Staging
  <2>6. \A j \in Imports : Local(j)'
    BY <1>1, <2>3, <2>5, SameIsLocal DEF Same
  <2>7. JanitorInv'
    <3>1. Patient => Patient'
      BY <1>1, <2>3, <2>4, ImportAssumption DEF Patient, Live, Local, FilesFollow, Untouched
    <3>2. \A j \in todo' : ipc'[j] # "idle"
      BY <1>1, <2>3, <2>4 DEF JanitorInv, RunTypeOK
    <3>3. jpc \notin {"idle", "list"} => jop # i
      BY <1>1, <2>4 DEF JanitorInv
    <3> QED BY <1>1, <2>3, <3>1, <3>2, <3>3 DEF JanitorInv, Files
  <2>8. \A q \in DOMAIN entries' : Reported(q)'
    BY <1>1, <2>3, <2>4, FinalsStay, ImportAssumption
  <2> QED BY <2>1, <2>2, <2>6, <2>7, <2>8, InvariantParts DEF Parts
<1> QED BY <1>2, <1>3, ImportAssumption DEF Request, Register, Poll, AnalyzeRefused

LEMMA CrashStep ==
  ASSUME IInv, Crash PROVE IInv'
<1>1. /\ TableInv /\ FilesTypeOK /\ RunTypeOK /\ JanitorInv
      /\ \A j \in Imports : Local(j)
  BY InvariantParts DEF Parts
<1>2. TableInv'
  BY <1>1, TableSteps DEF Crash
<1>3. FilesTypeOK' /\ RunTypeOK'
  BY <1>1 DEF Crash, FilesTypeOK, RunTypeOK, ImportPC, Resting, disk
<1>4. \A j \in Imports : Local(j)'
  BY <1>1 DEF Crash, FilesTypeOK, Local, FilesFollow, RowFollows, Undone, Journalled, Whole, Files,
     Untouched, Early, Forward, Backward, Staging, Live, Resting, disk
<1>5. JanitorInv'
  BY <1>1 DEF Crash, JanitorInv, Live, Resting, FilesTypeOK
<1>6. \A q \in DOMAIN entries' : Reported(q)'
  BY DEF Crash, ForgetEntries
<1> QED BY <1>2, <1>3, <1>4, <1>5, <1>6, InvariantParts DEF Parts

LEMMA TickStep ==
  ASSUME IInv, Tick PROVE IInv'
<1>1. /\ TableInv /\ FilesTypeOK /\ RunTypeOK /\ JanitorInv
      /\ \A j \in Imports : Local(j)
      /\ \A q \in DOMAIN entries : Reported(q)
  BY InvariantParts DEF Parts
<1> USE DEF Tick, thread, janitor
<1>2. TableInv'
  BY <1>1, TableSteps
<1>3. FilesTypeOK' /\ RunTypeOK'
  <2>1. ASSUME NEW i \in Imports
        PROVE  (IF dir[i] # "none" /\ age[i] < Stale THEN age[i] + 1 ELSE age[i]) \in 0 .. Stale
    BY <1>1, ImportAssumption DEF FilesTypeOK
  <2>2. age' \in [Imports -> 0 .. Stale]
    BY <2>1
  <2> QED BY <1>1, <2>2 DEF FilesTypeOK, RunTypeOK
<1>4. \A j \in Imports : Local(j)'
  BY <1>1 DEF FilesTypeOK, Local, FilesFollow, RowFollows, Undone, Journalled, Whole, Files, Untouched
<1>5. JanitorInv'
  BY <1>1 DEF JanitorInv, Live, Files, Patient, FilesTypeOK, RunTypeOK
<1>6. \A q \in DOMAIN entries' : Reported(q)'
  BY <1>1, FinalsStay
<1> QED BY <1>2, <1>3, <1>4, <1>5, <1>6, InvariantParts DEF Parts

\* A pass of the janitor looks at directories; only a removal changes one.
LEMMA LookSteps ==
  ASSUME Parts,
         BeginPass \/ EndPass \/ ProjectExists \/ \E i \in Imports : Inspect(i)
  PROVE  Parts'
<1> USE DEF Parts
<1>1. /\ UNCHANGED <<thread, disk, row, lost, faults, progress>>
      /\ ipc' = ipc /\ dir' = dir /\ source' = source /\ artifact' = artifact /\ age' = age
      /\ tracked' = tracked /\ broken' = broken /\ row' = row /\ lost' = lost /\ faults' = faults
  BY DEF BeginPass, EndPass, ProjectExists, Decide, Inspect, InspectIf, thread, disk
<1>2. TableInv' /\ \A q \in DOMAIN entries' : Reported(q)'
  BY <1>1, TableSteps, FinalsStay
<1>3. FilesTypeOK' /\ \A j \in Imports : Local(j)'
  BY <1>1, SameIsLocal DEF FilesTypeOK, Same
<1>4. CASE BeginPass
  <2>1. Patient
    BY <1>4 DEF BeginPass, JanitorInv, Patient
  <2>2. \A j \in todo' : ipc[j] # "idle"
    BY <1>4 DEF BeginPass, Local, FilesFollow, Untouched
  <2>3. process' = process \/ process = "down"
    BY <1>4 DEF BeginPass
  <2>4. RunTypeOK' /\ process' # "down" /\ jpc' = "list"
    BY <1>1, <1>4 DEF BeginPass, RunTypeOK
  <2>5. JanitorInv'
    BY <1>1, <2>1, <2>2, <2>3, <2>4 DEF JanitorInv, Live, Patient
  <2> QED BY <1>2, <1>3, <2>4, <2>5
<1>5. CASE EndPass
  BY <1>1, <1>2, <1>3, <1>5 DEF EndPass, RunTypeOK, JanitorInv, Live
<1>6. CASE ProjectExists
  BY <1>1, <1>2, <1>3, <1>6 DEF ProjectExists, Decide, RunTypeOK, JanitorInv, Live, Patient, Files
<1>7. ASSUME NEW i \in Imports, Inspect(i) PROVE Parts'
  <2>1. RunTypeOK' /\ process' = process /\ todo' = todo \ {i} /\ jpc = "list"
    BY <1>1, <1>7 DEF Inspect, InspectIf, RunTypeOK
  <2>2. jpc' = "list" \/ jpc' = "exists" \/ jpc' = "operation"
    BY <1>7 DEF Inspect, InspectIf
  <2>3. ASSUME jpc' # "list"
        PROVE  /\ jop' = i /\ ipc[i] \in {"ended", "dead"}
               /\ jpc' = "operation" => row[i] \/ ~ Files(i)
    <3>1. dir[i] # "none" /\ age[i] = Stale /\ jop' = i /\ i \in todo
          /\ (jpc' = "operation" => dir[i] # "journal")
      BY <1>7, <2>3 DEF Inspect, InspectIf
    <3>2. ~ Live(i) /\ ipc[i] # "idle"
      BY <2>1, <3>1, ImportAssumption DEF JanitorInv, Patient
    <3> QED BY <3>1, <3>2 DEF Live, Resting, Local, Journalled
  <2>4. JanitorInv'
    BY <1>1, <2>1, <2>2, <2>3 DEF JanitorInv, Live, Patient, Files
  <2> QED BY <1>2, <1>3, <2>1, <2>4
<1> QED BY <1>4, <1>5, <1>6, <1>7

\* What the janitor removes belongs to an import that has ended, and has no row
\* where it takes more than the staging directory.
LEMMA RemovalSteps ==
  ASSUME Parts, CleanProject \/ CleanArtifact \/ CleanOperation \/ CleanFails
  PROVE  Parts'
<1>0. /\ TableInv /\ FilesTypeOK /\ RunTypeOK /\ JanitorInv
      /\ \A j \in Imports : Local(j)
      /\ \A q \in DOMAIN entries : Reported(q)
  BY DEF Parts
<1>1. /\ UNCHANGED <<thread, row, lost, process, todo, progress>>
      /\ ipc' = ipc /\ tracked' = tracked /\ broken' = broken /\ row' = row /\ lost' = lost
      /\ process' = process /\ todo' = todo
  BY DEF CleanProject, CleanArtifact, CleanOperation, CleanFails, thread
<1>2. TableInv' /\ \A q \in DOMAIN entries' : Reported(q)'
  BY <1>0, <1>1, TableSteps, FinalsStay
<1>3. jop \in Imports /\ ipc[jop] \in {"ended", "dead"} /\ Local(jop)
  BY <1>0 DEF JanitorInv, CleanProject, CleanArtifact, CleanOperation, CleanFails
<1>4. faults' \in 0 .. MaxFaults
  BY <1>0, FaultKeepsBound DEF RunTypeOK, CleanProject, CleanArtifact, CleanOperation, CleanFails
<1>5. FilesTypeOK' /\ \A j \in Imports \ {jop} : Same(j)
  <2> USE <1>0, ImportAssumption DEF FilesTypeOK, Same
  <2>1. CASE CleanProject
    BY <1>1, <1>3, <2>1 DEF CleanProject, RemoveProject
  <2>2. CASE CleanArtifact
    BY <1>1, <1>3, <2>2 DEF CleanArtifact, RemoveArtifact
  <2>3. CASE CleanOperation
    BY <1>1, <1>3, <2>3 DEF CleanOperation, RemoveStaging
  <2>4. CASE CleanFails
    BY <1>1, <1>3, <2>4 DEF CleanFails, StagingRemains
  <2> QED BY <2>1, <2>2, <2>3, <2>4
<1>6. ASSUME NEW k \in Imports, k = jop PROVE Local(k)'
  <2>0. /\ jpc = "project" => ~ row[k]
        /\ jpc = "artifact" => ~ row[k] /\ source[k] # "published"
        /\ jpc = "operation" => row[k] \/ ~ Files(k)
        /\ FilesTypeOK /\ Local(k) /\ ipc[k] \in {"ended", "dead"}
    BY <1>0, <1>3, <1>6 DEF JanitorInv
  <2> USE <1>1, <1>6, <2>0 DEF FilesTypeOK, Local, FilesFollow, RowFollows, Undone, Journalled, Whole,
          Files, Untouched, Early, Forward, Backward, Staging
  <2>1. CASE CleanProject
    BY <2>1 DEF CleanProject, RemoveProject
  <2>2. CASE CleanArtifact
    BY <2>2 DEF CleanArtifact, RemoveArtifact
  <2>3. CASE CleanOperation
    BY <2>3 DEF CleanOperation, RemoveStaging
  <2>4. CASE CleanFails
    BY <2>4 DEF CleanFails, StagingRemains
  <2> QED BY <2>1, <2>2, <2>3, <2>4
<1>7. \A j \in Imports : Local(j)'
  BY <1>0, <1>3, <1>5, <1>6, SameIsLocal
<1>8. JanitorInv' /\ RunTypeOK'
  <2>1. Patient'
    <3>1. \A j \in Imports : Live(j) => j # jop /\ age'[j] = age[j]
      BY <1>0, <1>3, <1>5 DEF Live, Resting, Same
    <3> QED BY <1>0, <1>1, <3>1
        DEF Patient, Live, JanitorInv, CleanProject, CleanArtifact, CleanOperation, CleanFails
  <2>2. \/ jpc' = "list"
        \/ jop' = jop /\ jpc = "project" /\ jpc' = "artifact" /\ source'[jop] # "published"
        \/ jop' = jop /\ jpc = "artifact" /\ jpc' = "operation" /\ ~ Files(jop)'
    BY <1>0, <1>3 DEF CleanProject, CleanArtifact, CleanOperation, CleanFails, RemoveProject, RemoveArtifact,
       FilesTypeOK, JanitorInv, Files
  <2>3. jpc # "idle" /\ jop' \in Imports \cup {NoImport}
    BY <1>0, <1>3 DEF CleanProject, CleanArtifact, CleanOperation, CleanFails
  <2>4. JanitorInv'
    BY <1>0, <1>1, <1>3, <2>1, <2>2, <2>3 DEF JanitorInv, Live
  <2>5. RunTypeOK'
    BY <1>0, <1>1, <1>4, <2>2, <2>3 DEF RunTypeOK
  <2> QED BY <2>4, <2>5
<1> QED BY <1>2, <1>5, <1>7, <1>8 DEF Parts

-----------------------------------------------------------------------------
(* The theorems *)

LEMMA InitIInv == Init => IInv
<1> SUFFICES ASSUME Init PROVE IInv
  OBVIOUS
<1>1. TableInv
  <2>1. DOMAIN entries = {} /\ \A u \in Users : ActiveOf(u) = {}
    BY DEF Init, ProgressInit, ActiveOf
  <2> QED BY <2>1, FS_EmptySet, ProgressAssumption
      DEF TableInv, Quotas, ProgressTypeOK, Init, ProgressInit
<1>2. FilesTypeOK /\ RunTypeOK
  BY ImportAssumption DEF Init, FilesTypeOK, RunTypeOK, ImportPC, Resting
<1>3. JanitorInv /\ \A j \in Imports : Local(j)
  BY DEF Init, JanitorInv, Live, Resting, Local, FilesFollow, RowFollows, Undone, Journalled, Whole,
     Files, Untouched, Early, Backward, Staging
<1>4. \A q \in DOMAIN entries : Reported(q)
  BY DEF Init, ProgressInit
<1> QED BY <1>1, <1>2, <1>3, <1>4, InvariantParts DEF Parts

LEMMA StepIInv == IInv /\ [Next]_vars => IInv'
<1> SUFFICES ASSUME IInv, [Next]_vars PROVE IInv'
  OBVIOUS
<1>1. CASE Pass \/ BeginPass
  BY <1>1, LookSteps, RemovalSteps, InvariantParts DEF Pass
<1>2. CASE UNCHANGED vars
  <2>1. UNCHANGED <<thread, disk, row, lost, process, janitor, faults, progress>>
    BY <1>2 DEF vars
  <2>2. TableInv' /\ \A q \in DOMAIN entries' : Reported(q)'
    BY <2>1, InvariantParts, TableSteps, FinalsStay DEF Parts, thread
  <2>3. \A j \in Imports : Local(j)'
    BY <2>1, InvariantParts, SameIsLocal DEF Parts, Same, thread, disk
  <2>4. FilesTypeOK' /\ RunTypeOK' /\ JanitorInv'
    BY <2>1, InvariantParts
    DEF Parts, FilesTypeOK, RunTypeOK, JanitorInv, Live, Patient, Files, thread, disk, janitor
  <2> QED BY <2>2, <2>3, <2>4, InvariantParts DEF Parts
<1> QED BY <1>1, <1>2, RequestStep, WorkStep, CrashStep, TickStep DEF Next

(***************************************************************************)
(* What holds of every import at each of its points, of the janitor's      *)
(* next removal and of the statuses in the progress table, in every        *)
(* reachable state of every number of imports, users and failing calls.    *)
(***************************************************************************)
THEOREM ImportInvariance == Spec => []IInv
<1>1. Init => IInv
  BY InitIInv
<1>2. IInv /\ [Next]_vars => IInv'
  BY StepIInv
<1> QED BY <1>1, <1>2, PTL DEF Spec

(***************************************************************************)
(* Every row whose refresh did not fail has its workspace and its          *)
(* artifact, and the table of identifiers keeps its quotas.                *)
(***************************************************************************)
THEOREM RowsAreWhole == Spec => []Consistent
<1>1. IInv => Consistent
  BY DEF IInv
<1> QED BY <1>1, ImportInvariance, PTL

(***************************************************************************)
(* Files without a row keep a journal as long as they are there, through   *)
(* failing compensations, failing removals and deaths of the process.      *)
(***************************************************************************)
THEOREM NothingIsLost == Spec => []Recoverable
<1>1. IInv => Recoverable
  BY DEF IInv, Journalled, Recoverable
<1> QED BY <1>1, ImportInvariance, PTL

(***************************************************************************)
(* An identifier says completed only of a whole project and failed, unless *)
(* a refresh failed, only of one without a row, as long as it can be read. *)
(***************************************************************************)
THEOREM ReportsAreTrue == Spec => []ReportIsTrue
<1>1. IInv => ReportIsTrue
  BY DEF IInv, Consistent, RowHasFiles, Reported, ReportIsTrue
<1> QED BY <1>1, ImportInvariance, PTL
==============================================================================
