--------------------------- MODULE ImportProgress ---------------------------
(***************************************************************************)
(* ImportProgressStore: the table of progress identifiers in the memory of *)
(* one API process.  Every method holds the table's lock, so every method  *)
(* is one action; _prune is the first thing each of them but update does,  *)
(* also on the calls it then refuses.  An identifier is a fresh uuid4.     *)
(***************************************************************************)
EXTENDS Naturals, FiniteSets

CONSTANTS Ids,         \* progress identifiers
          Users,
          MaxEntries,  \* max_entries
          MaxPerUser,  \* max_per_user
          Ttl          \* ttl_seconds, in ticks

ASSUME ProgressAssumption == MaxEntries \in Nat /\ MaxPerUser \in Nat /\ Ttl \in Nat \ {0}

VARIABLES
  entries,  \* the registered identifiers with their owner, status and age
  issued    \* the identifiers that were ever given out

progress == <<entries, issued>>

Active   == {"pending", "running"}
Final    == {"completed", "failed"}
Entry    == [user : Users, status : Active \cup Final, age : 0 .. Ttl]

ProgressTypeOK ==
  /\ issued \subseteq Ids
  /\ DOMAIN entries \subseteq issued
  /\ \A q \in DOMAIN entries : entries[q] \in Entry

ProgressInit == entries = [q \in {} |-> 0] /\ issued = {}

\* A running import stays however long it takes; the others expire.
Kept       == {q \in DOMAIN entries : entries[q].status = "running" \/ entries[q].age < Ttl}
Pruned     == [q \in Kept |-> entries[q]]
ActiveOf(u) == {q \in DOMAIN entries : entries[q].user = u /\ entries[q].status \in Active}
Renewed(q, s) == [Pruned EXCEPT ![q].status = s, ![q].age = 0]

Free(u) == /\ Cardinality(Kept) < MaxEntries
           /\ Cardinality(ActiveOf(u) \cap Kept) < MaxPerUser

CreateEntry(q, u) ==
  /\ q \notin issued
  /\ Free(u)
  /\ entries' = [k \in Kept \cup {q} |->
                   IF k = q THEN [user |-> u, status |-> "pending", age |-> 0] ELSE entries[k]]
  /\ issued' = issued \cup {q}

\* 429; the expired entries are gone all the same.
CreateRefused(u) == ~ Free(u) /\ entries' = Pruned /\ UNCHANGED issued

Owned(q, u) == q \in Kept /\ entries[q].user = u

ClaimEntry(q, u) ==
  /\ Owned(q, u) /\ entries[q].status = "pending"
  /\ entries' = Renewed(q, "running")
  /\ UNCHANGED issued

\* 404 or 409.
ClaimRefused(q, u) ==
  /\ ~ (Owned(q, u) /\ entries[q].status = "pending")
  /\ entries' = Pruned
  /\ UNCHANGED issued

\* update: only a running entry changes, and a final stage ends it.
UpdateEntry(q, s) ==
  /\ entries' = IF q \in DOMAIN entries /\ entries[q].status = "running"
                THEN [entries EXCEPT ![q].status = s, ![q].age = 0] ELSE entries
  /\ UNCHANGED issued

\* A poll keeps a pending identifier alive while its file is uploaded.
Snapshot(q, u) ==
  /\ entries' = IF Owned(q, u) /\ entries[q].status = "pending" THEN Renewed(q, "pending") ELSE Pruned
  /\ UNCHANGED issued

\* Bound: ages saturate where _prune no longer tells them apart.
AgeEntries == entries' = [q \in DOMAIN entries |->
                 [entries[q] EXCEPT !.age = IF @ < Ttl THEN @ + 1 ELSE @]]

\* The table is the process's memory.
ForgetEntries == entries' = [q \in {} |-> 0] /\ UNCHANGED issued

-----------------------------------------------------------------------------
(* Properties *)

(***************************************************************************)
(* No user has more active identifiers than max_per_user and the table no  *)
(* more than max_entries, although entries expire, are claimed, polled and *)
(* ended in any order and a running one is never removed.                  *)
(***************************************************************************)
Quotas ==
  /\ \A u \in Users : Cardinality(ActiveOf(u)) <= MaxPerUser
  /\ Cardinality(DOMAIN entries) <= MaxEntries
=============================================================================
