--------------------------- MODULE ExperimentAudit ---------------------------
(***************************************************************************)
(* Paired A/B experiments: the comparison row, its two agent runs, the     *)
(* audit session each run writes into, the blind review and the on-demand  *)
(* explanation of a failed report.  The code is experiments/repository.py, *)
(* experiments/service.py, experiments/audit/repository.py,                *)
(* experiments/report_diagnostics.py and the end of a run in               *)
(* agents/orchestrator.py.                                                 *)
(*                                                                         *)
(* A byte of payload is a unit; every record has size 1.  Expiry is one    *)
(* flag per comparison (both sessions are given the same retention).       *)
(* What makes two completed answers comparable is abstracted to the set    *)
(* answered: the runs whose final EVENT (not status) told of a complete    *)
(* answer.  "sealed" stands for complete and incomplete alike, and a       *)
(* cancelled running run ends as a failed one does.  recover_stale is one  *)
(* step here; AgentQueue has its two.                                      *)
(***************************************************************************)
EXTENDS Naturals, FiniteSets, Functions

CONSTANTS Comparisons,     \* comparisons, numbered in the order they are created
          RunBytes,        \* AuditLimits.run_bytes
          TotalBytes,      \* AuditLimits.total_bytes
          Snapshot,        \* size of the frozen input, 0 in the paired protocol
          Audited,         \* comparisons an administrator may read the audit of
          Cancelled,       \* bound: runs whose user may cancel them
          Conflicting,     \* runs whose failure, if any, is a conflict inside the ledger
          MaxWorkers,      \* worker processes; each executes one run at a time
          MaxDiagnoses,    \* diagnoses one process runs at a time (2 in the code)
          MaxFaults        \* bound on crashes, stalls and failures

ASSUME ExperimentAssumption ==
    /\ Comparisons \subseteq Nat /\ IsFiniteSet(Comparisons)
    /\ Audited \subseteq Comparisons
    /\ Cancelled \subseteq Comparisons \X {1, 2}
    /\ Conflicting \subseteq Comparisons \X {1, 2}
    /\ RunBytes \in Nat \ {0} /\ TotalBytes \in Nat /\ Snapshot \in 0..RunBytes
    /\ MaxWorkers \in Nat \ {0} /\ MaxDiagnoses \in Nat \ {0} /\ MaxFaults \in Nat

VARIABLES run,         \* status of each agent run
          worker,      \* where the coroutine that executes the run stands
          session,     \* its audit session row and number of records
          answered,    \* runs whose final event told of a complete answer
          aged,        \* comparisons whose sessions are past expires_at
          reviewing,   \* reviews that passed the check and are not saved
          reviewed,    \* comparisons with a review row
          exposed,     \* comparisons whose audit was read before a review
          diagnosis,   \* newest report.diagnostic event of the run
          cancelling,  \* the run whose cancellation read that it is queued
          requests,    \* model requests sent to explain the run
          faults

vars == <<run, worker, session, answered, aged, reviewing, reviewed, exposed,
          diagnosis, cancelling, requests, faults>>

\* The two runs of a comparison by their place in the shuffled execution
\* order; which of them is the control group makes no difference here.
Places == {1, 2}
Runs == Comparisons \X Places
RunsOf(c) == {c} \X Places
Before(q, r) == q[1] < r[1] \/ (q[1] = r[1] /\ q[2] < r[2])

Terminal == {"completed", "failed", "cancelled"}
Session == [status : {"none", "reserved", "recording", "sealed", "expired"},
            reserved : 0..RunBytes, payload : 0..RunBytes, records : 0..RunBytes,
            protected : BOOLEAN]
NoSession == [status |-> "none", reserved |-> 0, payload |-> 0,
              records |-> 0, protected |-> FALSE]

Live == {r \in Runs : worker[r] \notin {"none", "gone"}}
Total(bytes) == FoldFunction(+, 0, bytes)
Used == Total([r \in Runs |-> session[r].reserved])

Init ==
    /\ run = [r \in Runs |-> "absent"]
    /\ worker = [r \in Runs |-> "none"]
    /\ session = [r \in Runs |-> NoSession]
    /\ answered = {}
    /\ aged = {} /\ reviewing = {} /\ reviewed = {} /\ exposed = {}
    /\ diagnosis = [r \in Runs |-> "none"]
    /\ cancelling = {}
    /\ requests = [r \in Runs |-> 0]
    /\ faults = 0

Fault == faults < MaxFaults /\ faults' = faults + 1

---------------------------------------------------------------------------
(* Creating a comparison: one write transaction.                           *)

\* The handlers that create, cancel and review never await: one at a time.
ApiIdle == cancelling = {} /\ reviewing = {}

RoomFor(n) == Used + n * RunBytes <= TotalBytes

NewSession == [status |-> "reserved", reserved |-> RunBytes, payload |-> Snapshot,
               records |-> Snapshot, protected |-> FALSE]

\* create_pair: lock, reserve both runs (with the frozen input, if any, as
\* their first record), queue both runs, all in one commit.  A refusal
\* leaves nothing behind.
CreatePair(c) ==
    /\ ApiIdle
    /\ \A r \in RunsOf(c) : run[r] = "absent"
    /\ \A r \in Runs : r[1] < c => run[r] # "absent"
    /\ RoomFor(Cardinality(RunsOf(c)))
    /\ session' = [r \in Runs |->
          IF r \in RunsOf(c) THEN NewSession ELSE session[r]]
    /\ run' = [r \in Runs |-> IF r \in RunsOf(c) THEN "queued" ELSE run[r]]
    /\ UNCHANGED <<cancelling, worker, answered, aged, reviewing, reviewed, exposed, diagnosis, requests, faults>>

---------------------------------------------------------------------------
(* The worker.                                                             *)

Claim(r) ==
    /\ run[r] = "queued"
    /\ \A q \in Runs : run[q] = "queued" => ~Before(q, r)
    /\ Cardinality(Live) < MaxWorkers
    /\ run' = [run EXCEPT ![r] = "running"]
    /\ worker' = [worker EXCEPT ![r] = "work"]
    /\ UNCHANGED <<cancelling, session, answered, aged, reviewing, reviewed, exposed, diagnosis, requests, faults>>

\* request_cancel reads the row.  A run it finds running ends as one that fails.
ReadCancel(r) ==
    /\ ApiIdle /\ r \in Cancelled /\ run[r] = "queued"
    /\ cancelling' = {r}
    /\ UNCHANGED <<run, worker, session, answered, aged, reviewing, reviewed, exposed, diagnosis, requests, faults>>

\* It writes by primary key, whatever the row has become, and no worker seals the
\* session of a run that never began.
CancelQueued(r) ==
    /\ r \in cancelling
    /\ cancelling' = {}
    /\ run' = [run EXCEPT ![r] = "cancelled"]
    /\ UNCHANGED <<worker, session, answered, aged, reviewing, reviewed, exposed, diagnosis, requests, faults>>

Writable(s) == s.status \notin {"none", "sealed", "expired"}
Appended(s) == [s EXCEPT !.records = @ + 1, !.payload = @ + 1, !.status = "recording"]

\* append: BEGIN IMMEDIATE, status check, quota check, record and counter.
Append(r) ==
    /\ worker[r] = "work"
    /\ Writable(session[r])
    /\ session[r].payload + 1 <= session[r].reserved
    /\ session' = [session EXCEPT ![r] = Appended(@)]
    /\ UNCHANGED <<cancelling, run, worker, answered, aged, reviewing, reviewed, exposed, diagnosis, requests, faults>>

\* The AuditError of a refused append ends the run on the failure path.
AppendRefused(r) ==
    /\ worker[r] = "work"
    /\ \/ ~Writable(session[r])
       \/ session[r].payload + 1 > session[r].reserved
    /\ worker' = [worker EXCEPT ![r] = "fail"]
    /\ UNCHANGED <<cancelling, run, session, answered, aged, reviewing, reviewed, exposed, diagnosis, requests, faults>>

\* _complete: the answer is out (the manifest at least is on record), the
\* audit is sealed before the status is written.
AnswerReady(r) ==
    /\ worker[r] = "work" /\ session[r].records > Snapshot
    /\ worker' = [worker EXCEPT ![r] = "seal"]
    /\ UNCHANGED <<cancelling, run, session, answered, aged, reviewing, reviewed, exposed, diagnosis, requests, faults>>

Finished(s) ==
    IF s.status = "expired" THEN s
    ELSE [s EXCEPT !.status = "sealed", !.reserved = s.payload]

\* finish on the way to "completed", and after a failure was announced.
Seal(r) ==
    /\ worker[r] \in {"seal", "sealFailed"}
    /\ session' = [session EXCEPT ![r] = Finished(@)]
    /\ worker' = [worker EXCEPT ![r] = IF @ = "seal" THEN "complete" ELSE "gone"]
    /\ UNCHANGED <<cancelling, run, answered, aged, reviewing, reviewed, exposed, diagnosis, requests, faults>>

\* store.update(run_id, status="completed") by primary key, whatever the
\* row has become; the final event is a transaction of its own.
Complete(r) ==
    /\ worker[r] = "complete"
    /\ run' = [run EXCEPT ![r] = "completed"]
    /\ worker' = [worker EXCEPT ![r] = "announce"]
    /\ UNCHANGED <<cancelling, session, answered, aged, reviewing, reviewed, exposed, diagnosis, requests, faults>>

Announce(r) ==
    /\ worker[r] = "announce"
    /\ answered' \in {answered, answered \union {r}}
    /\ worker' = [worker EXCEPT ![r] = "gone"]
    /\ UNCHANGED <<cancelling, run, session, aged, reviewing, reviewed, exposed, diagnosis, requests, faults>>

\* Any error or cancellation before "completed" leads to the handlers.
Fail(r) ==
    /\ Fault
    /\ worker[r] \in {"work", "seal", "complete"}
    /\ worker' = [worker EXCEPT ![r] = "fail"]
    /\ UNCHANGED <<cancelling, run, session, answered, aged, reviewing, reviewed, exposed, diagnosis, requests>>

\* The handlers write the status first and announce it; sealing is
\* left to the finally block.
SetFailed(r) ==
    /\ worker[r] = "fail"
    /\ run' = [run EXCEPT ![r] = "failed"]
    /\ worker' = [worker EXCEPT ![r] = "sealFailed"]
    /\ UNCHANGED <<cancelling, session, answered, aged, reviewing, reviewed, exposed, diagnosis, requests, faults>>

Crash(r) ==
    /\ Fault
    /\ r \in Live
    /\ worker' = [worker EXCEPT ![r] = "gone"]
    /\ UNCHANGED <<cancelling, run, session, answered, aged, reviewing, reviewed, exposed, diagnosis, requests>>

\* recover_stale of any worker ends a run whose lease ran out: its worker
\* is gone, or (a fault) it only missed its heartbeats and still runs.
Recover(r) ==
    /\ run[r] = "running"
    /\ IF worker[r] = "gone" THEN UNCHANGED faults ELSE Fault
    /\ run' = [run EXCEPT ![r] = "failed"]
    /\ UNCHANGED <<cancelling, worker, session, answered, aged, reviewing, reviewed, exposed, diagnosis, requests>>

---------------------------------------------------------------------------
(* Retention.                                                              *)

\* Every session has the same retention, so the older pair ages first.
Age(c) ==
    /\ c \notin aged /\ \A b \in Comparisons : b < c => b \in aged
    /\ \E r \in RunsOf(c) : run[r] # "absent"
    /\ aged' = aged \union {c}
    /\ UNCHANGED <<cancelling, run, worker, session, answered, reviewing, reviewed, exposed, diagnosis, requests, faults>>

\* slip: the retention job forgets that reviewed audits are kept
ExpiredEvenProtected(r) ==
    /\ session[r].status \notin {"none", "expired"}
    /\ r[1] \in aged /\ run[r] \in Terminal
\* slip: only sealed sessions are collected
ExpiredIfSealed(r) ==
    /\ session[r].status = "sealed"
    /\ r[1] \in aged /\ ~session[r].protected /\ run[r] \in Terminal
Expired(r) ==
    /\ session[r].status \notin {"none", "expired"}
    /\ r[1] \in aged /\ ~session[r].protected /\ run[r] \in Terminal

\* slip: the records go, the counter of the session row stays
CleanupKeepsPayload ==
    /\ \E r \in Runs : Expired(r)
    /\ session' = [r \in Runs |->
          IF Expired(r)
          THEN [session[r] EXCEPT !.status = "expired", !.records = 0, !.reserved = 0]
          ELSE session[r]]
    /\ UNCHANGED <<cancelling, run, worker, answered, aged, reviewing, reviewed, exposed, diagnosis, requests, faults>>

Emptied(s) == [s EXCEPT !.status = "expired", !.records = 0, !.payload = 0, !.reserved = 0]

\* cleanup_expired: one write transaction over every expired session.
Cleanup ==
    /\ \E r \in Runs : Expired(r)
    /\ session' = [r \in Runs |-> IF Expired(r) THEN Emptied(session[r]) ELSE session[r]]
    /\ UNCHANGED <<cancelling, run, worker, answered, aged, reviewing, reviewed, exposed, diagnosis, requests, faults>>

---------------------------------------------------------------------------
(* Review and disclosure.                                                  *)

ViewCompleted(c) == \A r \in RunsOf(c) : run[r] \in Terminal
ValidForReview(c) == \A r \in RunsOf(c) : run[r] = "completed" /\ r \in answered

\* review reads and checks the comparison, then saves in a later transaction.
BeginReview(c) ==
    /\ ApiIdle /\ ValidForReview(c)
    /\ reviewing' = reviewing \union {c}
    /\ UNCHANGED <<cancelling, run, worker, session, answered, aged, reviewed, exposed, diagnosis, requests, faults>>

SaveReview(c) ==
    /\ c \in reviewing
    /\ reviewing' = reviewing \ {c}
    /\ reviewed' = reviewed \union {c}
    /\ session' = [r \in Runs |-> IF r \in RunsOf(c)
                                  THEN [session[r] EXCEPT !.protected = TRUE]
                                  ELSE session[r]]
    /\ UNCHANGED <<cancelling, run, worker, answered, aged, exposed, diagnosis, requests, faults>>

\* read_comparison_audit: open after the review; before it only for an
\* ended comparison that is not valid, with the unblinding acknowledged.
ReadAudit(c) ==
    /\ ApiIdle /\ c \in Audited \ reviewed
    /\ ViewCompleted(c) /\ ~ValidForReview(c)
    /\ exposed' = exposed \union {c}
    /\ UNCHANGED <<cancelling, run, worker, session, answered, aged, reviewing, reviewed, diagnosis, requests, faults>>

---------------------------------------------------------------------------
(* Explaining a failed report.                                             *)

\* slip: an interrupted diagnosis may be asked for again
ClaimableAgain(r) == diagnosis[r] # "finished" /\ diagnosis[r] # "running"
Claimable(r) == diagnosis[r] = "none"

\* start/_prepare: under the write lock, no earlier event, a failed run with
\* a rejected submission still on record, and room among the live tasks.
StartDiagnosis(r) ==
    /\ r \in Conflicting /\ run[r] = "failed"
    /\ Claimable(r)
    /\ Cardinality({q \in Runs : diagnosis[q] = "running"}) < MaxDiagnoses
    /\ session[r].records > 0
    /\ diagnosis' = [diagnosis EXCEPT ![r] = "running"]
    /\ requests' = [requests EXCEPT ![r] = @ + 1]
    /\ UNCHANGED <<cancelling, run, worker, session, answered, aged, reviewing, reviewed, exposed, faults>>

FinishDiagnosis(r) ==
    /\ diagnosis[r] = "running"
    /\ diagnosis' = [diagnosis EXCEPT ![r] = "finished"]
    /\ UNCHANGED <<cancelling, run, worker, session, answered, aged, reviewing, reviewed, exposed, requests, faults>>

\* The process stops before _finish: the started event stays the newest one
\* and is shown as interrupted once its deadline is past.
LoseDiagnosis(r) ==
    /\ Fault
    /\ diagnosis[r] = "running"
    /\ diagnosis' = [diagnosis EXCEPT ![r] = "interrupted"]
    /\ UNCHANGED <<cancelling, run, worker, session, answered, aged, reviewing, reviewed, exposed, requests>>

---------------------------------------------------------------------------
WorkerStep(r) ==
    \/ Append(r) \/ AppendRefused(r) \/ AnswerReady(r) \/ Seal(r)
    \/ Complete(r) \/ Announce(r) \/ SetFailed(r)

Next ==
    \/ \E c \in Comparisons : \/ CreatePair(c) \/ Age(c)
                              \/ BeginReview(c) \/ SaveReview(c) \/ ReadAudit(c)
    \/ \E r \in Runs : \/ Claim(r) \/ ReadCancel(r) \/ CancelQueued(r) \/ WorkerStep(r)
                       \/ Fail(r) \/ Crash(r) \/ Recover(r)
                       \/ StartDiagnosis(r) \/ FinishDiagnosis(r) \/ LoseDiagnosis(r)
    \/ Cleanup

Spec == Init /\ [][Next]_vars

\* The queue serves its runs, a live coroutine goes on, another worker ends
\* the run of a dead one, days pass and the retention job runs again and
\* again.  Nothing obliges a user to review, cancel or ask for a diagnosis.
Fairness ==
    /\ \A r \in Runs : /\ WF_vars(Claim(r)) /\ WF_vars(WorkerStep(r))
                       /\ WF_vars(worker[r] = "gone" /\ Recover(r))
    /\ \A c \in Comparisons : WF_vars(Age(c))
    /\ WF_vars(Cleanup)

FairSpec == Spec /\ Fairness

---------------------------------------------------------------------------
(* Properties.                                                             *)

\* Every variable has its type, and the counters of a session agree: the
\* payload is exactly what is on record and stays within the reservation.
TypeOK ==
    /\ run \in [Runs -> {"absent", "queued", "running"} \union Terminal]
    /\ worker \in [Runs -> {"none", "work", "seal", "complete", "announce",
                            "fail", "sealFailed", "gone"}]
    /\ session \in [Runs -> Session]
    /\ answered \subseteq Runs
    /\ aged \subseteq Comparisons /\ reviewing \subseteq Comparisons
    /\ reviewed \subseteq Comparisons /\ exposed \subseteq Comparisons
    /\ diagnosis \in [Runs -> {"none", "running", "finished", "interrupted"}]
    /\ cancelling \subseteq Runs
    /\ requests \in [Runs -> Nat] /\ faults \in 0..MaxFaults

\* The bytes on record are the bytes counted, within the bytes reserved:
\* append, sealing and retention each change two rows and may not drift.
Accounted ==
    \A r \in Runs : /\ session[r].payload = session[r].records
                    /\ session[r].payload <= session[r].reserved

\* The reservations of all sessions never exceed the total, although pairs
\* are reserved, appended to, sealed and expired in any order.
QuotaHeld == Used <= TotalBytes

\* A session that a review protects for good is sealed: an unsealed one
\* would keep its whole reservation for ever.
ProtectedIsSealed ==
    \A r \in Runs : session[r].protected => session[r].status \in {"sealed", "expired"}

\* Counters, reservations and the sessions behind reviews fit together in every
\* order of reserving, appending, sealing, expiring and reviewing.
AuditInv == TypeOK /\ Accounted /\ QuotaHeld /\ ProtectedIsSealed

\* What a run has come to decides what its session may be: there is one from
\* the moment the run is queued, and it is closed before the run counts as
\* completed, before a worker is about to say so, and during a review.
Closed(r) == session[r].status \in {"sealed", "expired"}
SessionFollowsRun ==
    \A r \in Runs :
        /\ run[r] = "absent" => /\ session[r] = NoSession
                                /\ worker[r] = "none" /\ r \notin cancelling
        /\ run[r] # "absent" => session[r].status # "none"
        /\ run[r] = "completed" \/ worker[r] = "complete" \/ r[1] \in reviewing => Closed(r)

\* A request is sent when the first event is written, and only then.
RequestsAreEvents ==
    \A r \in Runs : requests[r] = IF diagnosis[r] = "none" THEN 0 ELSE 1

\* AuditInv and ExplainedOnce with what their proof needs of the other variables.
IInv == AuditInv /\ SessionFollowsRun /\ RequestsAreEvents

\* A sealed session takes no record any more and an expired one stays empty,
\* also when the coroutine outlives its lease, its status or its audit.
SealedForever ==
    [][\A r \in Runs :
         /\ session[r].status = "sealed" => session'[r].records <= session[r].records
         /\ session[r].status = "expired" => session'[r].status = "expired"]_vars

\* The records behind a saved review are never removed by retention.
ReviewPinsAudit ==
    [][\A r \in Runs : session[r].protected => session'[r].records >= session[r].records]_vars

\* One run is explained by at most one model request, through repeated
\* clicks, concurrent processes and a restart in the middle.
ExplainedOnce == \A r \in Runs : requests[r] <= 1

\* Once a run has ended, its unused reservation is given back, also when
\* its worker died or never existed.
ReservationReturned ==
    \A r \in Runs : run[r] \in Terminal ~> session[r].reserved = session[r].payload

\* A valid comparison is reviewed blind (docs/EXPERIMENT_PROTOCOL.md:151):
\* no review is accepted once the audit of the comparison has been read.
BlindUntilReviewed ==
    [][\A c \in Comparisons : c \in reviewed' \ reviewed => c \notin exposed]_vars
=============================================================================
