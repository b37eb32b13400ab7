----------------------------- MODULE ModelRequest -----------------------------
(***************************************************************************)
(* One call of the model by a run: the retry loop of llm/http.py on the    *)
(* event loop, the thread that sends one attempt, and the audit recorder   *)
(* both threads write to.  The thread of a cancelled call lives on, so it  *)
(* races the sealing of the audit.                                         *)
(*                                                                         *)
(* Abstractions: a request is the set of evidence items its messages show; *)
(* the audit's `request' rows are counted as open or ended, and the items  *)
(* of the answered ones are kept; what the endpoint does is one of three   *)
(* outcomes.  External: the endpoint, and the thread pool.                 *)
(***************************************************************************)
EXTENDS Integers, Sequences, FiniteSets

CONSTANTS
    Items,          \* the evidence a request may show
    MaxRetries      \* MAX_TRANSIENT_RETRIES

ASSUME RetryAssumption == MaxRetries \in Nat

VARIABLES
    call,           \* the awaiting side: pc, number of the attempt, items shown
    thread,         \* the thread of the attempt: pc, items, outcome, cancelled
    wire,           \* request records of the audit: open ones and ended ones
    delivered,      \* items of the requests whose record is a response
    planned, sent, resolved,    \* the recorder's counters
    verdicts,       \* statuses computed by finish() and not yet written
    sealed          \* the status of the audit session

requestVars == <<call, thread, wire, delivered, planned, sent, resolved, verdicts, sealed>>

NoCall == [pc |-> "idle", attempt |-> 0, shown |-> {}]
NoThread == [pc |-> "none", shown |-> {}, outcome |-> "none", cancelled |-> FALSE]

Outcomes == {"none", "ok", "transient", "permanent", "audit"}

RequestTypeOK ==
    /\ call \in [pc: {"idle", "thread", "sleep", "returned", "raised"},
                 attempt: 0 .. MaxRetries + 1, shown: SUBSET Items]
    /\ thread \in [pc: {"none", "begin", "record", "count", "wait", "settle", "note",
                        "tally", "done"},
                   shown: SUBSET Items, outcome: Outcomes, cancelled: BOOLEAN]
    /\ wire \in [open: Nat, ended: Nat] /\ delivered \subseteq Items
    /\ {planned, sent, resolved} \subseteq Nat
    /\ verdicts \subseteq {"complete", "incomplete"}
    /\ sealed \in {"recording", "complete", "incomplete"}

RequestInit ==
    /\ call = NoCall /\ thread = NoThread /\ wire = [open |-> 0, ended |-> 0] /\ delivered = {}
    /\ planned = 0 /\ sent = 0 /\ resolved = 0
    /\ verdicts = {} /\ sealed = "recording"

Launch(items) == thread' = [NoThread EXCEPT !.pc = "begin", !.shown = items]

\* _generate_once: the plan is recorded, and the first attempt handed to a thread.
Plan(items) ==
    /\ call.pc \in {"idle", "returned"} /\ thread.pc = "none"
    /\ planned' = planned + 1
    /\ call' = [pc |-> "thread", attempt |-> 1, shown |-> items]
    /\ Launch(items)
    /\ UNCHANGED <<wire, delivered, sent, resolved, verdicts, sealed>>

(***************************************************************************)
(* The thread.  A cancelled thread stops at the next place it looks, and   *)
(* an append is refused once the session is sealed (or its quota is used). *)
(***************************************************************************)
Goto(pc) == thread' = [thread EXCEPT !.pc = pc]

Stop == thread' = NoThread

AppendFails == thread' = [thread EXCEPT !.pc = "done", !.outcome = "audit"]

\* slip: the append looks at the quota only.
AppendableAlways == TRUE

Appendable == sealed = "recording"

Begin ==
    /\ thread.pc = "begin"
    /\ IF thread.cancelled THEN Stop ELSE Goto("record")
    /\ UNCHANGED <<call, wire, delivered, planned, sent, resolved, verdicts, sealed>>

RecordSent ==
    /\ thread.pc = "record"
    /\ \/ /\ Appendable
          /\ wire' = [wire EXCEPT !.open = @ + 1]
          /\ Goto("count")
       \/ AppendFails /\ UNCHANGED wire
    /\ UNCHANGED <<call, delivered, planned, sent, resolved, verdicts, sealed>>

CountSent ==
    /\ thread.pc = "count"
    /\ sent' = sent + 1
    /\ Goto("wait")
    /\ UNCHANGED <<call, wire, delivered, planned, resolved, verdicts, sealed>>

\* urlopen and the reader: an answer, an error worth a retry, or any other error.
Answer ==
    /\ thread.pc = "wait"
    /\ IF thread.cancelled THEN Stop
       ELSE \E outcome \in {"ok", "transient", "permanent"} :
                thread' = [thread EXCEPT !.pc = "settle", !.outcome = outcome]
    /\ UNCHANGED <<call, wire, delivered, planned, sent, resolved, verdicts, sealed>>

\* The nested finish(): the last look at the cancellation before the record.
Settle ==
    /\ thread.pc = "settle"
    /\ IF thread.cancelled THEN Stop ELSE Goto("note")
    /\ UNCHANGED <<call, wire, delivered, planned, sent, resolved, verdicts, sealed>>

NoteResult ==
    /\ thread.pc = "note"
    /\ \/ /\ Appendable
          /\ wire' = [open |-> wire.open - 1, ended |-> wire.ended + 1]
          /\ delivered' = IF thread.outcome = "ok" THEN delivered \union thread.shown ELSE delivered
          /\ Goto("tally")
       \/ AppendFails /\ UNCHANGED <<wire, delivered>>
    /\ UNCHANGED <<call, planned, sent, resolved, verdicts, sealed>>

\* slip: only an answer counts as resolved.
TallyAnswers ==
    /\ thread.pc = "tally"
    /\ resolved' = IF thread.outcome = "ok" THEN resolved + 1 ELSE resolved
    /\ Goto("done")
    /\ UNCHANGED <<call, wire, delivered, planned, sent, verdicts, sealed>>

Tally ==
    /\ thread.pc = "tally"
    /\ resolved' = resolved + 1
    /\ Goto("done")
    /\ UNCHANGED <<call, wire, delivered, planned, sent, verdicts, sealed>>

ThreadStep ==
    \/ Begin \/ RecordSent \/ CountSent \/ Answer
    \/ Settle \/ NoteResult \/ Tally

\* A thread whose caller has gone ends unseen.
Vanish ==
    /\ thread.pc = "done" /\ thread.cancelled
    /\ Stop
    /\ UNCHANGED <<call, wire, delivered, planned, sent, resolved, verdicts, sealed>>

(***************************************************************************)
(* The retry loop.                                                         *)
(***************************************************************************)
Retried == thread.outcome = "transient" /\ call.attempt <= MaxRetries

Collect ==
    /\ call.pc = "thread" /\ thread.pc = "done"
    /\ call' = [call EXCEPT !.pc = CASE thread.outcome = "ok" -> "returned"
                                     [] Retried -> "sleep"
                                     [] OTHER -> "raised"]
    /\ Stop
    /\ UNCHANGED <<wire, delivered, planned, sent, resolved, verdicts, sealed>>

\* The wait is recorded when it is over, and that record may fail.
Retry ==
    /\ call.pc = "sleep"
    /\ \/ /\ call' = [call EXCEPT !.pc = "thread", !.attempt = @ + 1]
          /\ Launch(call.shown)
       \/ /\ call' = [call EXCEPT !.pc = "raised"]
          /\ UNCHANGED thread
    /\ UNCHANGED <<wire, delivered, planned, sent, resolved, verdicts, sealed>>

\* A cancelled call leaves at once; the thread is only told.
Abandon ==
    /\ call' = NoCall
    /\ thread' = IF thread.pc = "none" THEN thread ELSE [thread EXCEPT !.cancelled = TRUE]
    /\ UNCHANGED <<wire, delivered, planned, sent, resolved, verdicts, sealed>>

(***************************************************************************)
(* finish() of the recorder, in a thread of its own: the counters are      *)
(* compared, then the session is written.                                  *)
(***************************************************************************)
Verdict ==
    IF sent > 0 /\ sent >= planned /\ resolved = sent THEN "complete" ELSE "incomplete"

Judge ==
    /\ verdicts' = verdicts \union {Verdict}
    /\ UNCHANGED <<call, thread, wire, delivered, planned, sent, resolved, sealed>>

Seal ==
    /\ \E verdict \in verdicts :
           sealed' = verdict /\ verdicts' = verdicts \ {verdict}
    /\ UNCHANGED <<call, thread, wire, delivered, planned, sent, resolved>>

Resolved == wire.open = 0
===============================================================================
