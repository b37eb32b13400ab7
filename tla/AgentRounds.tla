----------------------------- MODULE AgentRounds -----------------------------
(***************************************************************************)
(* One audited run of the agent (agents/orchestrator.py): investigation    *)
(* rounds, batch reports, the final report, the one resubmission of a      *)
(* malformed report, and the two ways the run ends, over the requests of   *)
(* ModelRequest.  The worker may deliver cancellation at every await, more *)
(* than once.                                                              *)
(*                                                                         *)
(* Modes: "plain" investigates and answers in the same loop, "batch"       *)
(* reports each batch of evidence in a request of its own, "single" (full  *)
(* source) sends one request.  Abstractions: an item is a security route   *)
(* (Ids) or a range of source (Scopes); an answer is well formed or not.   *)
(***************************************************************************)
EXTENDS ModelRequest

CONSTANTS
    Ids, Scopes,    \* the items: routes to select, source ranges
    MaxSteps,       \* request.max_steps
    MaxActive,      \* three selected routes per batch in the code
    Modes,          \* the protocols the run may have
    MaxCancels      \* bound: deliveries of cancellation

ASSUME RoundsAssumption ==
    /\ Items = Ids \union Scopes /\ Ids \cap Scopes = {}
    /\ MaxSteps \in Nat \ {0} /\ MaxActive \in Nat /\ MaxCancels \in Nat

VARIABLES
    mode,       \* the protocol
    run,        \* where the coroutine stands: pc, phase of its request, round
    status,     \* the run's row
    batch,      \* AnalysisBatches: active, visible, scopes, doneIds, doneScopes
    kept,       \* items of the kept tool rounds: older ones and the latest one
    reports,    \* the published batches
    resubmitted,\* format_retries_used > 0
    told,       \* the audit.completed event carrying the recorder's summary
    cancels     \* deliveries of cancellation so far

vars == <<requestVars, mode, run, status, batch, kept, reports, resubmitted, told, cancels>>
roundVars == <<mode, run, status, batch, kept, reports, resubmitted, told, cancels>>

NoBatch == [active |-> {}, visible |-> {}, scopes |-> {}, doneIds |-> {}, doneScopes |-> {}]
NoRounds == [older |-> {}, last |-> {}]

Awaiting == {"asking", "using", "citing", "judging", "sealing", "closing"}
Phases == {"investigation", "batch_report", "final_report"}

TypeOK ==
    /\ RequestTypeOK
    /\ mode \in Modes
    /\ run \in [pc: {"round", "clean", "ended"} \union Awaiting,
                phase: Phases, round: 1 .. MaxSteps + 1]
    /\ status \in {"running", "completed", "failed", "cancelled"}
    /\ batch \in [active: SUBSET Ids, visible: SUBSET Ids, scopes: SUBSET Scopes,
                  doneIds: SUBSET Ids, doneScopes: SUBSET Scopes]
    /\ kept \in [older: SUBSET Items, last: SUBSET Items]
    /\ reports \in Seq([ids: SUBSET Ids, scopes: SUBSET Scopes])
    /\ resubmitted \in BOOLEAN /\ told \in BOOLEAN
    /\ cancels \in 0 .. MaxCancels

Init ==
    /\ RequestInit
    /\ mode \in Modes
    /\ run = [pc |-> "round", round |-> IF mode = "single" THEN MaxSteps + 1 ELSE 1,
              phase |-> IF mode = "single" THEN "final_report" ELSE "investigation"]
    /\ status = "running" /\ batch = NoBatch /\ kept = NoRounds /\ reports = <<>>
    /\ resubmitted = FALSE /\ told = FALSE /\ cancels = 0

-------------------------------------------------------------------------------
\* What the window keeps of the rounds: any of it may be compacted or left out.
Windows == SUBSET (kept.older \union kept.last)

Ask(phase, items) ==
    /\ run' = [run EXCEPT !.pc = "asking", !.phase = phase]
    /\ Plan(items)

\* observe(): what a completed request showed becomes reportable.
Observed(b, items) ==
    [b EXCEPT !.visible = @ \union (items \cap b.active),
              !.scopes = @ \union ((items \cap Scopes) \ b.doneScopes)]

Pending(b) == b.active # {} \/ b.scopes # {}

\* Source of the latest round that no request has shown yet.
PendingPreview == (kept.last \cap Scopes) \ batch.doneScopes # {}

Reply(phase) == run.pc = "asking" /\ run.phase = phase /\ call.pc = "returned"

Idle == call' = NoCall /\ UNCHANGED <<thread, wire, delivered, planned, sent, resolved, verdicts, sealed>>

(***************************************************************************)
(* The loop.                                                               *)
(***************************************************************************)
Investigate ==
    /\ run.pc = "round" /\ run.round <= MaxSteps
    /\ \E items \in Windows : Ask("investigation", items)
    /\ UNCHANGED <<mode, status, batch, kept, reports, resubmitted, told, cancels>>

Observe == IF mode = "batch" THEN Observed(batch, call.shown) ELSE batch

\* The reply calls tools.
CallTools ==
    /\ Reply("investigation")
    /\ batch' = Observe
    /\ run' = [run EXCEPT !.pc = "using"]
    /\ Idle
    /\ UNCHANGED <<mode, status, kept, reports, resubmitted, told, cancels>>

\* slip: a reported route may be selected again.
SelectableAgain(b, id) == id \in b.active \/ Cardinality(b.active) < MaxActive

\* select(): a reported route is refused, and so is one too many.
Selectable(b, id) == id \notin b.doneIds /\ (id \in b.active \/ Cardinality(b.active) < MaxActive)

\* Results of one round: some source, and at most one route more.
Found == IF mode = "batch" THEN {{}} \union {{item} : item \in Items} ELSE {{}}

\* slip: what the tools returned counts as shown at once.
UseToolsAndShow ==
    /\ run.pc = "using"
    /\ \E found \in Found :
        /\ \A id \in found \cap Ids : Selectable(batch, id)
        /\ batch' = Observed([batch EXCEPT !.active = @ \union (found \cap Ids)], found)
        /\ kept' = [older |-> kept.older \union kept.last, last |-> found]
    /\ run' = [run EXCEPT !.pc = "round", !.round = @ + 1]
    /\ UNCHANGED <<requestVars, mode, status, reports, resubmitted, told, cancels>>

UseTools ==
    /\ run.pc = "using"
    /\ \E found \in Found :
        /\ \A id \in found \cap Ids : Selectable(batch, id)
        /\ batch' = [batch EXCEPT !.active = @ \union (found \cap Ids)]
        /\ kept' = [older |-> kept.older \union kept.last, last |-> found]
    /\ run' = [run EXCEPT !.pc = "round", !.round = @ + 1]
    /\ UNCHANGED <<requestVars, mode, status, reports, resubmitted, told, cancels>>

\* A reply without calls in batch mode: report what there is, or leave the loop.
StopBatch ==
    /\ Reply("investigation") /\ mode = "batch"
    /\ batch' = Observe
    /\ \/ /\ Pending(batch')
          /\ \E items \in Windows : Ask("batch_report", items)
       \/ /\ ~Pending(batch')
          /\ run' = [run EXCEPT !.pc = "round", !.round = MaxSteps + 1]
          /\ Idle
    /\ UNCHANGED <<mode, status, kept, reports, resubmitted, told, cancels>>

\* After the loop: the last batch, else the final report.
Close ==
    /\ run.pc = "round" /\ run.round = MaxSteps + 1
    /\ \E items \in Windows :
        IF mode = "batch" /\ (Pending(batch) \/ PendingPreview)
        THEN Ask("batch_report", items)
        ELSE Ask("final_report", items)
    /\ UNCHANGED <<mode, status, batch, kept, reports, resubmitted, told, cancels>>

(***************************************************************************)
(* Reports.                                                                *)
(***************************************************************************)
\* Replies that end in an answer, a plain investigation's included.
Answering(phase) == phase # "investigation" \/ mode = "plain"

\* slip: every malformed report is resubmitted.
CanAlwaysResubmit == TRUE

CanResubmit == ~resubmitted

\* A malformed report: the same messages and the refusal are sent, once a run.
Resubmit ==
    /\ Reply(run.phase) /\ Answering(run.phase)
    /\ CanResubmit
    /\ Plan(call.shown)
    /\ resubmitted' = TRUE
    /\ UNCHANGED <<mode, run, status, batch, kept, reports, told, cancels>>

\* The scopes a report may name: all of them from text, any of them from the tool.
ReportScopes(b) == SUBSET b.scopes

Publish(b, scopes) ==
    /\ reports' = Append(reports, [ids |-> b.active, scopes |-> scopes])
    /\ batch' = [NoBatch EXCEPT !.doneIds = b.doneIds \union b.active,
                                !.doneScopes = b.doneScopes \union scopes]

Publishable(b, scopes) == b.active \subseteq b.visible /\ (b.active # {} \/ scopes # {})

PublishBatch ==
    /\ Reply("batch_report")
    /\ LET b == Observed(batch, call.shown)
       IN  \E scopes \in ReportScopes(b) : Publishable(b, scopes) /\ Publish(b, scopes)
    /\ kept' = NoRounds
    /\ run' = [run EXCEPT !.pc = "round", !.round = IF @ > MaxSteps THEN @ ELSE @ + 1]
    /\ Idle
    /\ UNCHANGED <<mode, status, resubmitted, told, cancels>>

AcceptAnswer ==
    /\ \/ Reply("final_report")
       \/ Reply("investigation") /\ mode = "plain"
    /\ run' = [run EXCEPT !.pc = "citing"]
    /\ Idle
    /\ UNCHANGED <<mode, status, batch, kept, reports, resubmitted, told, cancels>>

(***************************************************************************)
(* The end of a run.  _complete seals the audit before the status is       *)
(* written; a failed or cancelled run is sealed by the finally clause.     *)
(***************************************************************************)
\* citations(): one more record.
Cite ==
    /\ run.pc = "citing" /\ Appendable
    /\ run' = [run EXCEPT !.pc = "judging"]
    /\ UNCHANGED <<requestVars, mode, status, batch, kept, reports, resubmitted, told, cancels>>

JudgeCompleted ==
    /\ run.pc = "judging"
    /\ Judge
    /\ run' = [run EXCEPT !.pc = "sealing"]
    /\ UNCHANGED <<mode, status, batch, kept, reports, resubmitted, told, cancels>>

Complete ==
    /\ run.pc = "sealing" /\ verdicts = {}
    /\ status' = "completed" /\ told' = TRUE
    /\ run' = [run EXCEPT !.pc = "ended"]
    /\ UNCHANGED <<requestVars, mode, batch, kept, reports, resubmitted, cancels>>

\* An error: of the request, of a report, of the window, of the audit.
FailAs(outcome) ==
    /\ status' = outcome
    /\ run' = [run EXCEPT !.pc = "clean"]

\* slip: an error raised by the request is handled nowhere.
FailOfReply ==
    /\ \/ run.pc = "asking" /\ call.pc = "returned" /\ Idle
       \/ run.pc \in {"round", "citing"} /\ UNCHANGED requestVars
    /\ FailAs("failed")
    /\ UNCHANGED <<mode, batch, kept, reports, resubmitted, told, cancels>>

Fail ==
    /\ \/ run.pc = "asking" /\ call.pc \in {"returned", "raised"} /\ Idle
       \/ run.pc \in {"round", "citing"} /\ UNCHANGED requestVars
    /\ FailAs("failed")
    /\ UNCHANGED <<mode, batch, kept, reports, resubmitted, told, cancels>>

JudgeFailed ==
    /\ run.pc = "clean"
    /\ Judge
    /\ run' = [run EXCEPT !.pc = "closing"]
    /\ UNCHANGED <<mode, status, batch, kept, reports, resubmitted, told, cancels>>

End ==
    /\ run.pc = "closing" /\ verdicts = {}
    /\ told' = TRUE
    /\ run' = [run EXCEPT !.pc = "ended"]
    /\ UNCHANGED <<requestVars, mode, status, batch, kept, reports, resubmitted, cancels>>

\* CancelledError at an await; the one in the finally clause ends the coroutine.
Cancel ==
    /\ run.pc \in Awaiting /\ cancels < MaxCancels
    /\ cancels' = cancels + 1
    /\ IF run.pc = "closing"
       THEN run' = [run EXCEPT !.pc = "ended"] /\ UNCHANGED status
       ELSE FailAs("cancelled")
    /\ IF run.pc = "asking" THEN Abandon ELSE UNCHANGED requestVars
    /\ UNCHANGED <<mode, batch, kept, reports, resubmitted, told>>

-------------------------------------------------------------------------------
Requesting == (ThreadStep \/ Vanish \/ Collect \/ Retry \/ Seal) /\ UNCHANGED roundVars

Coroutine ==
    \/ Investigate \/ CallTools \/ UseTools \/ StopBatch \/ Close
    \/ Resubmit \/ PublishBatch \/ AcceptAnswer
    \/ Cite \/ JudgeCompleted \/ Complete \/ Fail \/ JudgeFailed \/ End

Next == Requesting \/ Coroutine \/ Cancel

Spec == Init /\ [][Next]_vars

(***************************************************************************)
(* The event loop runs; a thread ends because its sockets have timeouts,   *)
(* but a cancelled one may hang (response_reader.py says so).              *)
(***************************************************************************)
FairSpec ==
    /\ Spec
    /\ WF_vars(Coroutine)
    /\ WF_vars((~thread.cancelled /\ ThreadStep) /\ UNCHANGED roundVars)
    /\ WF_vars((Collect \/ Retry \/ Seal) /\ UNCHANGED roundVars)

-------------------------------------------------------------------------------
(***************************************************************************)
(* Properties.                                                             *)
(***************************************************************************)
\* A published batch names only routes and ranges that some answered request
\* really carried: tool results of a later round, compacted ones, and the
\* preview of the last round do not count (observe and publish).
ReportedWasShown ==
    \A i \in 1 .. Len(reports) : reports[i].ids \union reports[i].scopes \subseteq delivered

\* No route and no range is reported by two batches, and none that is
\* reported is selected again (select, completed_scopes).
ReportedOnce ==
    /\ \A i, j \in 1 .. Len(reports) : i # j =>
        /\ reports[i].ids \cap reports[j].ids = {}
        /\ reports[i].scopes \cap reports[j].scopes = {}
    /\ batch.active \cap batch.doneIds = {}

\* A batch run completes only with every selected route reported.
NothingForgotten ==
    status = "completed" =>
        batch.active = {} /\ batch.doneIds = UNION {reports[i].ids : i \in 1 .. Len(reports)}

\* What a run selected is reported, and once.
ReportsAreExact == TypeOK /\ ReportedOnce /\ NothingForgotten

\* The frozen execution policy: the investigation rounds, one report per round,
\* the summary and one resubmission bound the requests of a run.
WithinPolicy == planned <= MaxSteps + (MaxSteps + 1) + 1

\* A completed run has told of a complete audit, in which every request that
\* left is resolved (_complete seals before it writes the status).
CompletedIsAudited ==
    status = "completed" => told /\ sealed = "complete" /\ Resolved

\* A failed run whose audit is sealed as complete has no request without an
\* end.  (A cancelled one may: its thread can stand between the two halves of
\* sent().)
CompleteIsResolved == status = "failed" /\ sealed = "complete" => Resolved

\* What the seal of an audit says of its requests is true.
AuditIsTrue == CompletedIsAudited /\ CompleteIsResolved

(***************************************************************************)
(* The inductive invariant: how the coroutine, its call and the call's     *)
(* thread stand to one another, what the counters of the audit say of its  *)
(* records, where items that become reportable come from, and what each    *)
(* round may have spent.                                                   *)
(***************************************************************************)
One(condition) == IF condition THEN 1 ELSE 0

Over == {"clean", "closing", "ended"}

Together ==
    /\ call.pc = "thread" =>
          thread.pc # "none" /\ ~ thread.cancelled /\ thread.shown = call.shown
    /\ thread.pc # "none" => call.pc = "thread" \/ thread.cancelled
    /\ thread.cancelled => status = "cancelled"
    /\ call.pc = "idle" <=> run.pc # "asking"
    /\ call.pc = "sleep" => call.attempt <= MaxRetries
    /\ status = "running" <=> run.pc \notin Over
    /\ status = "completed" => run.pc = "ended" /\ told /\ verdicts = {} /\ sealed = "complete"

Counted ==
    /\ wire.open + wire.ended = sent + One(thread.pc = "count")
    /\ wire.ended = resolved + One(thread.pc = "tally")
    /\ thread.pc \in {"count", "wait", "settle", "note"} => wire.open > 0

Answered == thread.pc = "tally" \/ (thread.pc = "done" /\ thread.outcome # "audit")

\* A run that is not over has every record of a finished attempt ended.
Followed ==
    status = "running" =>
        /\ call.pc \in {"idle", "returned", "sleep"} => wire.open = 0 /\ sent >= planned
        /\ call.pc = "thread" =>
            /\ thread.pc \in {"begin", "record"} => wire.open = 0
            /\ thread.pc \in {"count", "wait", "settle", "note"} => wire.open = 1
            /\ thread.pc \in {"wait", "settle", "note"} => sent >= planned
            /\ Answered => wire.open = 0 /\ sent >= planned
            /\ sent + 1 >= planned
        /\ run.pc \in Awaiting \ {"using"} => planned > 0
        /\ run.pc # "sealing" => verdicts = {} /\ sealed = "recording"
        /\ run.pc = "sealing" => \/ verdicts = {"complete"} /\ sealed = "recording"
                                 \/ verdicts = {} /\ sealed = "complete"

\* A run that failed or completed has no thread behind it.
Settled ==
    status \in {"failed", "completed"} =>
        /\ thread.pc = "none"
        /\ "complete" \in verdicts \/ sealed = "complete" => Resolved

Shown ==
    /\ call.pc = "returned" => call.shown \subseteq delivered
    /\ Answered /\ thread.outcome = "ok" => thread.shown \subseteq delivered
    /\ batch.visible \subseteq delivered /\ batch.scopes \subseteq delivered

\* Where no selected route is left to report.
Closing ==
    \/ mode # "batch"
    \/ run.pc = "asking" /\ run.phase = "final_report"
    \/ run.pc \in {"citing", "judging", "sealing"}
    \/ status = "completed"

ReportedIds == UNION {reports[i].ids : i \in 1 .. Len(reports)}

Reported ==
    /\ \A i \in 1 .. Len(reports) :
          reports[i].ids \subseteq batch.doneIds /\ reports[i].scopes \subseteq batch.doneScopes
    /\ batch.doneIds = ReportedIds
    /\ batch.scopes \cap batch.doneScopes = {}
    /\ Closing => batch.active = {}

\* A round costs its request and a report; what is still owed was not spent.
Owed == mode = "batch" /\ (Pending(batch) \/ PendingPreview)

Spent ==
    LET used == planned - One(resubmitted)
    IN  /\ run.pc = "round" => used + One(Owed) <= 2 * (run.round - 1)
        /\ run.pc = "using" \/ (run.pc = "asking" /\ run.phase = "investigation") =>
              run.round <= MaxSteps /\ used <= 2 * run.round - 1
        /\ run.pc = "asking" /\ run.phase = "batch_report" =>
              used <= 2 * run.round /\ used <= 2 * MaxSteps
        /\ used <= 2 * MaxSteps + 1

IInv ==
    /\ TypeOK /\ Together /\ Counted /\ Followed /\ Settled /\ Shown
    /\ ReportedWasShown /\ ReportedOnce /\ Reported /\ Spent

\* Whatever a leftover thread does, a sealed audit keeps its requests.
SealedIsFinal == [][sealed # "recording" => UNCHANGED <<wire, delivered>>]_vars

\* Every run ends, with a hung thread behind it or not.
RunEnds == <>[](run.pc = "ended")
===============================================================================
