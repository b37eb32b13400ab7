-------------------------- MODULE AgentRoundsProofs --------------------------
(***************************************************************************)
(* Proofs about AgentRounds and ModelRequest, for every set of items, every *)
(* number of rounds, retries and cancellations and every set of protocols. *)
(*                                                                         *)
(* The steps of a request leave the coroutine alone and most steps of the  *)
(* coroutine leave the request alone, so the invariant is split the same   *)
(* way: RequestInv relates the call, its thread and the audit, RoundInv    *)
(* the batches, the reports and the rounds.                                *)
(***************************************************************************)
EXTENDS AgentRounds, TLAPS

-----------------------------------------------------------------------------
(* The records of a request *)

PCs == {"none", "begin", "record", "count", "wait", "settle", "note", "tally", "done"}
Threads == [pc: PCs, shown: SUBSET Items, outcome: Outcomes, cancelled: BOOLEAN]
Calls == [pc: {"idle", "thread", "sleep", "returned", "raised"},
          attempt: 0 .. MaxRetries + 1, shown: SUBSET Items]

\* v is t moved on to p with outcome o; a call moved on; a thread that begins.
MovedTo(t, v, p, o) ==
  v \in Threads /\ v.pc = p /\ v.shown = t.shown /\ v.outcome = o /\ v.cancelled = t.cancelled
CallMovedTo(c, v, p, n) == v \in Calls /\ v.pc = p /\ v.attempt = n /\ v.shown = c.shown
Begun(v, items) ==
  v \in Threads /\ v.pc = "begin" /\ v.shown = items /\ v.outcome = "none" /\ ~ v.cancelled

LEMMA NoThreadIsOne == NoThread \in Threads /\ NoThread.pc = "none" /\ ~ NoThread.cancelled
<1>1. NoThread \in Threads
  BY DEF NoThread, Threads, Outcomes, PCs
<1> QED BY <1>1 DEF NoThread

LEMMA ThreadMoves ==
  ASSUME NEW t \in Threads, NEW p \in PCs, NEW o \in Outcomes
  PROVE  /\ MovedTo(t, [t EXCEPT !.pc = p], p, t.outcome)
         /\ MovedTo(t, [t EXCEPT !.pc = p, !.outcome = o], p, o)
<1> DEFINE u == [t EXCEPT !.pc = p]
           v == [u EXCEPT !.outcome = o]
<1>1. MovedTo(t, u, p, t.outcome)
  BY DEF Threads, MovedTo, PCs
<1>2. [t EXCEPT !.pc = p, !.outcome = o] = v
  OBVIOUS
<1>3. MovedTo(t, v, p, o)
  <2> HIDE DEF u
  <2> QED BY <1>1 DEF MovedTo, Threads
<1> HIDE DEF v
<1> QED BY <1>1, <1>2, <1>3, Zenon

LEMMA ThreadMoved ==
  ASSUME NEW t \in Threads, NEW v, NEW p \in PCs, NEW o \in Outcomes
  PROVE  /\ v = [t EXCEPT !.pc = p] => MovedTo(t, v, p, t.outcome)
         /\ v = [t EXCEPT !.pc = p, !.outcome = o] => MovedTo(t, v, p, o)
BY ThreadMoves, Zenon

LEMMA ThreadBegins ==
  ASSUME NEW items \in SUBSET Items
  PROVE  Begun([NoThread EXCEPT !.pc = "begin", !.shown = items], items)
<1> DEFINE u == [NoThread EXCEPT !.pc = "begin"]
           v == [u EXCEPT !.shown = items]
<1>1. [NoThread EXCEPT !.pc = "begin", !.shown = items] = v
  OBVIOUS
<1>2. u \in Threads
  BY NoThreadIsOne DEF Threads, PCs
<1>3. v \in Threads
  <2> HIDE DEF u
  <2> QED BY <1>2 DEF Threads
<1>4. v.pc = "begin" /\ v.shown = items /\ v.outcome = "none" /\ ~ v.cancelled
  BY DEF NoThread
<1>5. Begun(v, items)
  <2> HIDE DEF v
  <2> QED BY <1>3, <1>4 DEF Begun
<1> HIDE DEF v
<1> QED BY <1>1, <1>5, Zenon

LEMMA ThreadBegun ==
  ASSUME NEW items \in SUBSET Items, NEW v, v = [NoThread EXCEPT !.pc = "begin", !.shown = items]
  PROVE  Begun(v, items)
BY ThreadBegins, Zenon

LEMMA CallMoves ==
  ASSUME NEW c \in Calls, NEW p \in {"idle", "thread", "sleep", "returned", "raised"},
         NEW n \in 0 .. MaxRetries + 1
  PROVE  /\ CallMovedTo(c, [c EXCEPT !.pc = p], p, c.attempt)
         /\ CallMovedTo(c, [c EXCEPT !.pc = p, !.attempt = n], p, n)
<1> DEFINE u == [c EXCEPT !.pc = p]
           v == [u EXCEPT !.attempt = n]
<1>1. CallMovedTo(c, u, p, c.attempt)
  BY DEF Calls, CallMovedTo
<1>2. [c EXCEPT !.pc = p, !.attempt = n] = v
  OBVIOUS
<1>3. CallMovedTo(c, v, p, n)
  <2> HIDE DEF u
  <2> QED BY <1>1 DEF CallMovedTo, Calls
<1> HIDE DEF v
<1> QED BY <1>1, <1>2, <1>3, Zenon

LEMMA CallMoved ==
  ASSUME NEW c \in Calls, NEW v, NEW p \in {"idle", "thread", "sleep", "returned", "raised"},
         NEW n \in 0 .. MaxRetries + 1
  PROVE  /\ v = [c EXCEPT !.pc = p] => CallMovedTo(c, v, p, c.attempt)
         /\ v = [c EXCEPT !.pc = p, !.attempt = n] => CallMovedTo(c, v, p, n)
BY CallMoves, Zenon

LEMMA TypesAreSets ==
  ASSUME RequestTypeOK
  PROVE  /\ thread \in Threads /\ call \in Calls /\ wire \in [open: Nat, ended: Nat]
         /\ thread.outcome \in Outcomes
BY DEF RequestTypeOK, Threads, Calls, PCs

-----------------------------------------------------------------------------
(* What the steps of a thread and of the retry loop change *)

LEMMA BeginMoves ==
  ASSUME Begin, RequestTypeOK
  PROVE  /\ UNCHANGED <<call, wire, delivered, planned, sent, resolved, verdicts, sealed>>
         /\ thread.pc = "begin"
         /\ \/ thread.cancelled /\ thread' = NoThread
            \/ ~ thread.cancelled /\ MovedTo(thread, thread', "record", thread.outcome)
BY TypesAreSets, ThreadMoved DEF Begin, Stop, Goto, PCs

LEMMA RecordSentMoves ==
  ASSUME RecordSent, RequestTypeOK
  PROVE  /\ UNCHANGED <<call, delivered, planned, sent, resolved, verdicts, sealed>>
         /\ thread.pc = "record"
         /\ wire' \in [open: Nat, ended: Nat] /\ wire'.ended = wire.ended
         /\ \/ /\ sealed = "recording" /\ wire'.open = wire.open + 1
               /\ MovedTo(thread, thread', "count", thread.outcome)
            \/ /\ wire' = wire
               /\ MovedTo(thread, thread', "done", "audit")
<1>1. CASE Appendable /\ wire' = [wire EXCEPT !.open = @ + 1] /\ Goto("count")
  <2>1. MovedTo(thread, thread', "count", thread.outcome)
    BY <1>1, TypesAreSets, ThreadMoved DEF Goto, PCs
  <2> QED BY <1>1, <2>1, TypesAreSets DEF Appendable, RecordSent
<1>2. CASE AppendFails /\ UNCHANGED wire
  <2>1. MovedTo(thread, thread', "done", "audit")
    BY <1>2, TypesAreSets, ThreadMoved DEF AppendFails, PCs, Outcomes
  <2> QED BY <1>2, <2>1, TypesAreSets DEF RecordSent
<1> QED BY <1>1, <1>2 DEF RecordSent

LEMMA AnswerMoves ==
  ASSUME Answer, RequestTypeOK
  PROVE  /\ UNCHANGED <<call, wire, delivered, planned, sent, resolved, verdicts, sealed>>
         /\ thread.pc = "wait"
         /\ \/ thread.cancelled /\ thread' = NoThread
            \/ /\ ~ thread.cancelled
               /\ \E outcome \in {"ok", "transient", "permanent"} :
                     MovedTo(thread, thread', "settle", outcome)
<1>1. ASSUME NEW outcome \in {"ok", "transient", "permanent"},
             thread' = [thread EXCEPT !.pc = "settle", !.outcome = outcome]
      PROVE  MovedTo(thread, thread', "settle", outcome)
  BY <1>1, TypesAreSets, ThreadMoved DEF PCs, Outcomes
<1> QED BY <1>1 DEF Answer, Stop

LEMMA SettleMoves ==
  ASSUME Settle, RequestTypeOK
  PROVE  /\ UNCHANGED <<call, wire, delivered, planned, sent, resolved, verdicts, sealed>>
         /\ thread.pc = "settle"
         /\ \/ thread.cancelled /\ thread' = NoThread
            \/ ~ thread.cancelled /\ MovedTo(thread, thread', "note", thread.outcome)
BY TypesAreSets, ThreadMoved DEF Settle, Stop, Goto, PCs

LEMMA NoteResultMoves ==
  ASSUME NoteResult, RequestTypeOK, wire.open > 0
  PROVE  /\ UNCHANGED <<call, planned, sent, resolved, verdicts, sealed>>
         /\ thread.pc = "note"
         /\ wire' \in [open: Nat, ended: Nat]
         /\ \/ /\ sealed = "recording"
               /\ wire'.open = wire.open - 1 /\ wire'.ended = wire.ended + 1
               /\ delivered' = IF thread.outcome = "ok" THEN delivered \union thread.shown ELSE delivered
               /\ MovedTo(thread, thread', "tally", thread.outcome)
            \/ /\ wire' = wire /\ delivered' = delivered
               /\ MovedTo(thread, thread', "done", "audit")
<1>1. CASE /\ Appendable /\ Goto("tally")
           /\ wire' = [open |-> wire.open - 1, ended |-> wire.ended + 1]
           /\ delivered' = IF thread.outcome = "ok" THEN delivered \union thread.shown ELSE delivered
  <2>1. MovedTo(thread, thread', "tally", thread.outcome)
    BY <1>1, TypesAreSets, ThreadMoved DEF Goto, PCs
  <2>2. wire' \in [open: Nat, ended: Nat]
    BY <1>1, TypesAreSets
  <2> QED BY <1>1, <2>1, <2>2 DEF Appendable, NoteResult
<1>2. CASE AppendFails /\ UNCHANGED <<wire, delivered>>
  <2>1. MovedTo(thread, thread', "done", "audit")
    BY <1>2, TypesAreSets, ThreadMoved DEF AppendFails, PCs, Outcomes
  <2> QED BY <1>2, <2>1, TypesAreSets DEF NoteResult
<1> QED BY <1>1, <1>2 DEF NoteResult

LEMMA RetryMoves ==
  ASSUME Retry, RequestTypeOK, call.attempt <= MaxRetries
  PROVE  /\ UNCHANGED <<wire, delivered, planned, sent, resolved, verdicts, sealed>>
         /\ call.pc = "sleep"
         /\ \/ Begun(thread', call.shown) /\ CallMovedTo(call, call', "thread", call.attempt + 1)
            \/ thread' = thread /\ CallMovedTo(call, call', "raised", call.attempt)
<1>1. call \in Calls /\ call.shown \in SUBSET Items /\ call.attempt + 1 \in 0 .. MaxRetries + 1
      /\ call.attempt \in 0 .. MaxRetries + 1
  BY TypesAreSets, RetryAssumption DEF Calls
<1>2. CASE call' = [call EXCEPT !.pc = "thread", !.attempt = @ + 1] /\ Launch(call.shown)
  <2>1. CallMovedTo(call, call', "thread", call.attempt + 1)
    BY <1>1, <1>2, CallMoved
  <2>2. Begun(thread', call.shown)
    BY <1>1, <1>2, ThreadBegun DEF Launch
  <2> QED BY <2>1, <2>2 DEF Retry
<1>3. CASE call' = [call EXCEPT !.pc = "raised"] /\ UNCHANGED thread
  <2>1. CallMovedTo(call, call', "raised", call.attempt)
    BY <1>1, <1>3, CallMoved
  <2> QED BY <1>3, <2>1 DEF Retry
<1> QED BY <1>2, <1>3 DEF Retry

-----------------------------------------------------------------------------
(* The steps of a request: they leave the coroutine alone *)

RequestInv == RequestTypeOK /\ Together /\ Counted /\ Followed /\ Settled /\ Shown

LEMMA BeginStep ==
  ASSUME RequestInv, Begin, UNCHANGED roundVars
  PROVE  RequestInv'
<1> USE BeginMoves, NoThreadIsOne, RetryAssumption DEF RequestInv, roundVars, MovedTo
<1>1. RequestTypeOK'
  BY DEF RequestTypeOK, Threads, Calls, PCs
<1>2. Together'
  BY DEF RequestTypeOK, Outcomes, Together, Over
<1>3. Counted'
  BY DEF RequestTypeOK, Outcomes, Counted, One, Together, Over
<1>4. Followed'
  BY DEF RequestTypeOK, Outcomes, Followed, Together, Over, Counted, Answered, One
<1>5. Settled'
  BY DEF RequestTypeOK, Outcomes, Settled, Together, Over, Counted, Resolved, One
<1>6. Shown'
  BY DEF RequestTypeOK, Outcomes, Shown, Together, Answered
<1> QED BY <1>1, <1>2, <1>3, <1>4, <1>5, <1>6

LEMMA RecordSentStep ==
  ASSUME RequestInv, RecordSent, UNCHANGED roundVars
  PROVE  RequestInv'
<1> USE RecordSentMoves, NoThreadIsOne, RetryAssumption DEF RequestInv, roundVars, MovedTo
<1>1. RequestTypeOK'
  BY DEF RequestTypeOK, Threads, Calls, PCs
<1>2. Together'
  BY DEF RequestTypeOK, Outcomes, Together, Over
<1>3. Counted'
  BY DEF RequestTypeOK, Outcomes, Counted, One, Together, Over
<1>4. Followed'
  <2> SUFFICES ASSUME status = "running" PROVE Followed'
    BY DEF Followed
  <2>1. call.pc = "thread" /\ wire.open = 0 /\ sent + 1 >= planned /\ ~ thread.cancelled
    BY DEF Together, Followed
  <2> HIDE RecordSentMoves
  <2>2. /\ UNCHANGED <<call, planned, sent, verdicts, sealed>>
        /\ \/ wire'.open = 1 /\ thread'.pc = "count"
           \/ thread'.pc = "done" /\ thread'.outcome = "audit"
    BY <2>1, RecordSentMoves
  <2>3. (sent + 1 >= planned)' /\ call'.pc = "thread" /\ ~ Answered'
    BY <2>1, <2>2 DEF Answered
  <2> QED BY <2>2, <2>3 DEF Followed
<1>5. Settled'
  BY DEF RequestTypeOK, Outcomes, Settled, Together, Over, Counted, Resolved, One
<1>6. Shown'
  BY DEF RequestTypeOK, Outcomes, Shown, Together, Answered
<1> QED BY <1>1, <1>2, <1>3, <1>4, <1>5, <1>6

LEMMA CountSentStep ==
  ASSUME RequestInv, CountSent, UNCHANGED roundVars
  PROVE  RequestInv'
<1> USE RetryAssumption DEF RequestInv, roundVars, NoThread, CountSent, Goto
<1>1. RequestTypeOK'
  BY DEF RequestTypeOK, Outcomes, Counted
<1>2. Together'
  BY DEF RequestTypeOK, Outcomes, Together, Over
<1>3. Counted'
  BY DEF RequestTypeOK, Outcomes, Counted, One, Together, Over
<1>4. Followed'
  BY DEF RequestTypeOK, Outcomes, Followed, Together, Over, Counted, Answered, One
<1>5. Settled'
  BY DEF RequestTypeOK, Outcomes, Settled, Together, Over, Counted, Resolved, One
<1>6. Shown'
  BY DEF RequestTypeOK, Outcomes, Shown, Together, Answered
<1> QED BY <1>1, <1>2, <1>3, <1>4, <1>5, <1>6

LEMMA AnswerStep ==
  ASSUME RequestInv, Answer, UNCHANGED roundVars
  PROVE  RequestInv'
<1> USE AnswerMoves, NoThreadIsOne, RetryAssumption DEF RequestInv, roundVars, MovedTo
<1>1. RequestTypeOK'
  BY DEF RequestTypeOK, Threads, Calls, PCs
<1>2. Together'
  BY DEF RequestTypeOK, Outcomes, Together, Over
<1>3. Counted'
  BY DEF RequestTypeOK, Outcomes, Counted, One, Together, Over
<1>4. Followed'
  BY DEF RequestTypeOK, Outcomes, Followed, Together, Over, Counted, Answered, One
<1>5. Settled'
  BY DEF RequestTypeOK, Outcomes, Settled, Together, Over, Counted, Resolved, One
<1>6. Shown'
  BY DEF RequestTypeOK, Outcomes, Shown, Together, Answered
<1> QED BY <1>1, <1>2, <1>3, <1>4, <1>5, <1>6

LEMMA SettleStep ==
  ASSUME RequestInv, Settle, UNCHANGED roundVars
  PROVE  RequestInv'
<1> USE SettleMoves, NoThreadIsOne, RetryAssumption DEF RequestInv, roundVars, MovedTo
<1>1. RequestTypeOK'
  BY DEF RequestTypeOK, Threads, Calls, PCs
<1>2. Together'
  BY DEF RequestTypeOK, Outcomes, Together, Over
<1>3. Counted'
  BY DEF RequestTypeOK, Outcomes, Counted, One, Together, Over
<1>4. Followed'
  BY DEF RequestTypeOK, Outcomes, Followed, Together, Over, Counted, Answered, One
<1>5. Settled'
  BY DEF RequestTypeOK, Outcomes, Settled, Together, Over, Counted, Resolved, One
<1>6. Shown'
  BY DEF RequestTypeOK, Outcomes, Shown, Together, Answered
<1> QED BY <1>1, <1>2, <1>3, <1>4, <1>5, <1>6

LEMMA NoteResultStep ==
  ASSUME RequestInv, NoteResult, UNCHANGED roundVars
  PROVE  RequestInv'
<1>0. wire.open > 0
  BY DEF RequestInv, Counted, NoteResult
<1> USE <1>0, NoteResultMoves, NoThreadIsOne, RetryAssumption
    DEF RequestInv, roundVars, MovedTo
<1>1. RequestTypeOK'
  BY DEF RequestTypeOK, Threads, Calls, PCs
<1>2. Together'
  BY DEF RequestTypeOK, Outcomes, Together, Over
<1>3. Counted'
  BY DEF RequestTypeOK, Outcomes, Counted, One, Together, Over
<1>4. Followed'
  <2> SUFFICES ASSUME status = "running" PROVE Followed'
    BY DEF Followed
  <2>1. /\ call.pc = "thread" /\ wire.open = 1 /\ sent >= planned /\ ~ thread.cancelled
        /\ sent + 1 >= planned
    BY DEF Together, Followed
  <2> HIDE NoteResultMoves
  <2>2. /\ UNCHANGED <<call, planned, sent, verdicts, sealed>>
        /\ \/ wire'.open = 0 /\ thread'.pc = "tally"
           \/ thread'.pc = "done" /\ thread'.outcome = "audit"
    BY <2>1, NoteResultMoves
  <2>3. (sent >= planned)' /\ (sent + 1 >= planned)' /\ call'.pc = "thread"
    BY <2>1, <2>2
  <2> QED BY <2>2, <2>3 DEF Followed, Answered
<1>5. Settled'
  BY DEF RequestTypeOK, Outcomes, Settled, Together, Over, Counted, Resolved, One
<1>6. Shown'
  BY DEF RequestTypeOK, Outcomes, Shown, Together, Answered
<1> QED BY <1>1, <1>2, <1>3, <1>4, <1>5, <1>6

LEMMA TallyStep ==
  ASSUME RequestInv, Tally, UNCHANGED roundVars
  PROVE  RequestInv'
<1> USE RetryAssumption DEF RequestInv, roundVars, NoThread, Tally, Goto
<1>1. RequestTypeOK'
  BY DEF RequestTypeOK, Outcomes, Counted
<1>2. Together'
  BY DEF RequestTypeOK, Outcomes, Together, Over
<1>3. Counted'
  BY DEF RequestTypeOK, Outcomes, Counted, One, Together, Over
<1>4. Followed'
  BY DEF RequestTypeOK, Outcomes, Followed, Together, Over, Counted, Answered, One
<1>5. Settled'
  BY DEF RequestTypeOK, Outcomes, Settled, Together, Over, Counted, Resolved, One
<1>6. Shown'
  BY DEF RequestTypeOK, Outcomes, Shown, Together, Answered
<1> QED BY <1>1, <1>2, <1>3, <1>4, <1>5, <1>6

LEMMA VanishStep ==
  ASSUME RequestInv, Vanish, UNCHANGED roundVars
  PROVE  RequestInv'
<1> USE RetryAssumption DEF RequestInv, roundVars, NoThread, Vanish, Stop
<1>1. RequestTypeOK'
  BY DEF RequestTypeOK, Outcomes, Counted
<1>2. Together'
  BY DEF RequestTypeOK, Outcomes, Together, Over
<1>3. Counted'
  BY DEF RequestTypeOK, Outcomes, Counted, One, Together, Over
<1>4. Followed'
  BY DEF RequestTypeOK, Outcomes, Followed, Together, Over, Counted, Answered, One
<1>5. Settled'
  BY DEF RequestTypeOK, Outcomes, Settled, Together, Over, Counted, Resolved, One
<1>6. Shown'
  BY DEF RequestTypeOK, Outcomes, Shown, Together, Answered
<1> QED BY <1>1, <1>2, <1>3, <1>4, <1>5, <1>6

LEMMA CollectStep ==
  ASSUME RequestInv, Collect, UNCHANGED roundVars
  PROVE  RequestInv'
<1> USE RetryAssumption DEF RequestInv, roundVars, NoThread, Collect, Stop, Retried
<1>1. RequestTypeOK'
  BY DEF RequestTypeOK, Outcomes, Counted
<1>2. Together'
  BY DEF RequestTypeOK, Outcomes, Together, Over
<1>3. Counted'
  BY DEF RequestTypeOK, Outcomes, Counted, One, Together, Over
<1>4. Followed'
  BY DEF RequestTypeOK, Outcomes, Followed, Together, Over, Counted, Answered, One
<1>5. Settled'
  BY DEF RequestTypeOK, Outcomes, Settled, Together, Over, Counted, Resolved, One
<1>6. Shown'
  BY DEF RequestTypeOK, Outcomes, Shown, Together, Answered
<1> QED BY <1>1, <1>2, <1>3, <1>4, <1>5, <1>6

LEMMA RetryStep ==
  ASSUME RequestInv, Retry, UNCHANGED roundVars
  PROVE  RequestInv'
<1>0. call.attempt <= MaxRetries
  BY DEF RequestInv, Together, Retry
<1> USE <1>0, RetryMoves, NoThreadIsOne, RetryAssumption
    DEF RequestInv, roundVars, MovedTo, CallMovedTo, Begun
<1>1. RequestTypeOK'
  BY DEF RequestTypeOK, Threads, Calls, PCs
<1>2. Together'
  BY DEF RequestTypeOK, Outcomes, Together, Over
<1>3. Counted'
  BY DEF RequestTypeOK, Outcomes, Counted, One, Together, Over
<1>4. Followed'
  <2> SUFFICES ASSUME status = "running" PROVE Followed'
    BY DEF Followed
  <2>1. wire.open = 0 /\ sent >= planned /\ sent + 1 >= planned
    BY DEF Followed, RequestTypeOK
  <2> HIDE RetryMoves
  <2>2. /\ UNCHANGED <<wire, planned, sent, verdicts, sealed>>
        /\ \/ call'.pc = "thread" /\ thread'.pc = "begin"
           \/ call'.pc = "raised"
    BY RetryMoves
  <2> QED BY <2>1, <2>2 DEF Followed, Answered
<1>5. Settled'
  BY DEF RequestTypeOK, Outcomes, Settled, Together, Over, Counted, Resolved, One
<1>6. Shown'
  BY DEF RequestTypeOK, Outcomes, Shown, Together, Answered
<1> QED BY <1>1, <1>2, <1>3, <1>4, <1>5, <1>6

LEMMA SealStep ==
  ASSUME RequestInv, Seal, UNCHANGED roundVars
  PROVE  RequestInv'
<1> USE RetryAssumption DEF RequestInv, roundVars, NoThread, Seal
<1>1. RequestTypeOK'
  BY DEF RequestTypeOK, Outcomes, Counted
<1>2. Together'
  BY DEF RequestTypeOK, Outcomes, Together, Over
<1>3. Counted'
  BY DEF RequestTypeOK, Outcomes, Counted, One, Together, Over
<1>4. Followed'
  BY DEF RequestTypeOK, Outcomes, Followed, Together, Over, Counted, Answered, One
<1>5. Settled'
  BY DEF RequestTypeOK, Outcomes, Settled, Together, Over, Counted, Resolved, One
<1>6. Shown'
  BY DEF RequestTypeOK, Outcomes, Shown, Together, Answered
<1> QED BY <1>1, <1>2, <1>3, <1>4, <1>5, <1>6

-----------------------------------------------------------------------------
(* What the coroutine does to a request *)

LEMMA PlanMoves ==
  ASSUME RequestTypeOK, NEW items \in SUBSET Items, Plan(items)
  PROVE  /\ UNCHANGED <<wire, delivered, sent, resolved, verdicts, sealed>>
         /\ thread.pc = "none" /\ call.pc \in {"idle", "returned"}
         /\ planned' = planned + 1
         /\ Begun(thread', items)
         /\ call' \in Calls /\ call'.pc = "thread" /\ call'.attempt = 1 /\ call'.shown = items
<1>1. Begun(thread', items)
  BY ThreadBegun DEF Plan, Launch
<1>2. call' \in Calls
  BY RetryAssumption DEF Plan, Calls
<1> QED BY <1>1, <1>2 DEF Plan

\* A running coroutine sends a request.
LEMMA AskStep ==
  ASSUME RequestInv, NEW items \in SUBSET Items, Plan(items),
         run.pc # "sealing", run'.pc = "asking", status = "running", status' = status, told' = told,
         batch'.visible \subseteq delivered, batch'.scopes \subseteq delivered
  PROVE  RequestInv'
<1> USE PlanMoves DEF RequestInv, Begun
<1>1. RequestTypeOK'
  <2>1. {planned, sent, resolved}' \subseteq Nat
    BY DEF RequestTypeOK
  <2>2. thread' \in Threads /\ call' \in Calls
    OBVIOUS
  <2> QED BY <2>1, <2>2 DEF RequestTypeOK, Threads, Calls, PCs
<1>2. Together'
  BY DEF Together, Over
<1>3. Counted'
  BY DEF Counted, One, RequestTypeOK
<1>4. Followed'
  <2>1. wire.open = 0 /\ sent >= planned /\ verdicts = {} /\ sealed = "recording"
    BY DEF Followed, Together, RequestTypeOK
  <2>2. sent + 1 >= planned + 1 /\ planned + 1 > 0
    BY <2>1 DEF RequestTypeOK
  <2> QED BY <2>1, <2>2 DEF Followed, Answered, Awaiting
<1>5. Settled' /\ Shown'
  BY DEF Settled, Shown, Answered
<1> QED BY <1>1, <1>2, <1>3, <1>4, <1>5

\* A running coroutine has its answer and goes on.
LEMMA IdleStep ==
  ASSUME RequestInv, Idle, call.pc = "returned",
         run'.pc \in {"round", "using", "citing"}, status = "running", status' = status, told' = told,
         batch'.visible \subseteq delivered, batch'.scopes \subseteq delivered
  PROVE  RequestInv'
<1> USE RetryAssumption DEF RequestInv, Idle, NoCall
<1>1. RequestTypeOK'
  BY DEF RequestTypeOK
<1>2. Together'
  BY DEF Together, Over
<1>3. Counted'
  BY DEF Counted, One
<1>4. Followed'
  BY DEF Followed, Together, Awaiting
<1>5. Settled' /\ Shown'
  BY DEF Settled, Shown, Answered
<1> QED BY <1>1, <1>2, <1>3, <1>4, <1>5

LEMMA AbandonMoves ==
  ASSUME Abandon, RequestTypeOK
  PROVE  /\ UNCHANGED <<wire, delivered, planned, sent, resolved, verdicts, sealed>>
         /\ call' \in Calls /\ call'.pc = "idle"
         /\ thread' \in Threads /\ thread'.pc = thread.pc /\ thread'.outcome = thread.outcome
         /\ thread'.shown = thread.shown
         /\ IF thread.pc = "none" THEN thread' = thread ELSE thread'.cancelled
<1>1. call' \in Calls /\ call'.pc = "idle"
  BY RetryAssumption DEF Abandon, NoCall, Calls
<1>2. CASE thread.pc = "none"
  BY <1>1, <1>2, TypesAreSets DEF Abandon
<1>3. CASE thread.pc # "none"
  <2>1. thread' = [thread EXCEPT !.cancelled = TRUE] /\ thread \in Threads
    BY <1>3, TypesAreSets DEF Abandon
  <2>2. thread' \in Threads
    BY <2>1 DEF Threads
  <2>3. thread'.cancelled
    BY <2>1 DEF Threads
  <2>4. thread'.pc = thread.pc /\ thread'.outcome = thread.outcome /\ thread'.shown = thread.shown
    BY <2>1 DEF Threads
  <2> QED BY <1>1, <1>3, <2>2, <2>3, <2>4 DEF Abandon
<1> QED BY <1>2, <1>3

LEMMA CancelStep ==
  ASSUME RequestInv, Cancel, run \in [pc: {"round", "clean", "ended"} \union Awaiting,
                                      phase: Phases, round: 1 .. MaxSteps + 1]
  PROVE  RequestInv'
<1>1. \/ /\ run.pc = "closing" /\ run'.pc = "ended" /\ UNCHANGED <<status, requestVars>>
      \/ /\ run.pc \in Awaiting \ {"closing", "asking"} /\ run'.pc = "clean" /\ status' = "cancelled"
         /\ UNCHANGED requestVars
      \/ run.pc = "asking" /\ run'.pc = "clean" /\ status' = "cancelled" /\ Abandon
  BY DEF Cancel, FailAs, Awaiting
<1>2. batch' = batch /\ told' = told
  BY DEF Cancel
<1>3. CASE UNCHANGED requestVars
  BY <1>1, <1>2, <1>3
  DEF RequestInv, requestVars, RequestTypeOK, Together, Over, Counted, Followed, Settled, Shown,
      Answered, Awaiting, Resolved, Abandon, NoCall
<1>4. CASE run.pc = "asking" /\ run'.pc = "clean" /\ status' = "cancelled" /\ Abandon
  <2> USE <1>2, <1>4, AbandonMoves DEF RequestInv
  <2>1. RequestTypeOK'
    BY DEF RequestTypeOK, Threads, Calls, PCs
  <2>2. Together'
    BY DEF Together, Over
  <2>3. Counted'
    BY DEF Counted, One
  <2>4. Followed' /\ Settled' /\ Shown'
    BY DEF Followed, Settled, Shown, Answered
  <2> QED BY <2>1, <2>2, <2>3, <2>4
<1> QED BY <1>1, <1>3, <1>4

\* The steps that end a run.
LEMMA EndSteps ==
  ASSUME RequestInv, Cite \/ JudgeCompleted \/ Complete \/ Fail \/ JudgeFailed \/ End,
         run \in [pc: {"round", "clean", "ended"} \union Awaiting,
                  phase: Phases, round: 1 .. MaxSteps + 1]
  PROVE  RequestInv'
<1> USE RetryAssumption DEF RequestInv, Awaiting
<1>1. CASE Cite
  <2>1. run.pc = "citing" /\ run'.pc = "judging" /\ UNCHANGED <<requestVars, status, batch, told>>
    BY <1>1 DEF Cite
  <2> QED BY <2>1 DEF requestVars, RequestTypeOK, Together, Over, Counted, Followed, Settled, Shown,
          Answered, Resolved
<1>2. CASE JudgeCompleted
  <2>1. /\ run.pc = "judging" /\ run'.pc = "sealing" /\ UNCHANGED <<status, batch, told>>
        /\ verdicts' = verdicts \union {Verdict}
        /\ UNCHANGED <<call, thread, wire, delivered, planned, sent, resolved, sealed>>
    BY <1>2 DEF JudgeCompleted, Judge
  <2>2. /\ status = "running" /\ call.pc = "idle" /\ thread.pc = "none"
        /\ verdicts = {} /\ sealed = "recording" /\ wire.open = 0 /\ sent >= planned /\ planned > 0
    BY <2>1 DEF Together, Over, Followed
  <2>3. resolved = sent /\ sent > 0
    BY <2>2 DEF Counted, One, RequestTypeOK
  <2>4. verdicts' = {"complete"}
    BY <2>1, <2>2, <2>3 DEF Verdict
  <2> QED BY <2>1, <2>2, <2>4 DEF RequestTypeOK, Together, Over, Counted, Followed, Settled, Shown, Answered
<1>3. CASE Complete
  <2>1. /\ run.pc = "sealing" /\ run'.pc = "ended" /\ status' = "completed" /\ told' = TRUE
        /\ verdicts = {} /\ UNCHANGED <<requestVars, batch>>
    BY <1>3 DEF Complete
  <2>2. status = "running" /\ call.pc = "idle" /\ thread.pc = "none" /\ sealed = "complete" /\ wire.open = 0
    BY <2>1 DEF Together, Over, Followed
  <2> QED BY <2>1, <2>2
      DEF requestVars, RequestTypeOK, Together, Over, Counted, Followed, Settled, Shown, Answered, Resolved
<1>4. CASE Fail
  <2>1. /\ run'.pc = "clean" /\ status' = "failed" /\ UNCHANGED <<batch, told>>
        /\ UNCHANGED <<thread, wire, delivered, planned, sent, resolved, verdicts, sealed>>
        /\ \/ run.pc = "asking" /\ call.pc \in {"returned", "raised"} /\ call' = NoCall
           \/ run.pc \in {"round", "citing"} /\ call' = call
    BY <1>4 DEF Fail, FailAs, Idle, requestVars
  <2>2. status = "running" /\ thread.pc = "none" /\ verdicts = {} /\ sealed = "recording"
    BY <2>1 DEF Together, Over, Followed
  <2>3. RequestTypeOK' /\ call'.pc = "idle"
    BY <2>1 DEF RequestTypeOK, NoCall, Together
  <2> QED BY <2>1, <2>2, <2>3 DEF Together, Over, Counted, Followed, Settled, Shown, Answered
<1>5. CASE JudgeFailed
  <2>1. /\ run.pc = "clean" /\ run'.pc = "closing" /\ UNCHANGED <<status, batch, told>>
        /\ verdicts' = verdicts \union {Verdict}
        /\ UNCHANGED <<call, thread, wire, delivered, planned, sent, resolved, sealed>>
    BY <1>5 DEF JudgeFailed, Judge
  <2>2. status # "running" /\ status # "completed"
    BY <2>1 DEF Together, Over
  <2>3. Verdict \in {"complete", "incomplete"}
    BY DEF Verdict
  <2>4. status = "failed" /\ Verdict = "complete" => wire.open = 0
    BY DEF Verdict, Settled, Counted, One, RequestTypeOK
  <2>5. Settled'
    BY <2>1, <2>2, <2>4 DEF Settled, Resolved
  <2> QED BY <2>1, <2>2, <2>3, <2>5 DEF RequestTypeOK, Together, Over, Counted, Followed, Shown, Answered
<1>6. CASE End
  <2>1. /\ run.pc = "closing" /\ run'.pc = "ended" /\ told' = TRUE
        /\ UNCHANGED <<requestVars, status, batch>>
    BY <1>6 DEF End
  <2> QED BY <2>1
      DEF requestVars, RequestTypeOK, Together, Over, Counted, Followed, Settled, Shown, Answered, Resolved
<1> QED BY <1>1, <1>2, <1>3, <1>4, <1>5, <1>6

-----------------------------------------------------------------------------
(* The records of a round *)

Runs == [pc: {"round", "clean", "ended"} \union Awaiting, phase: Phases, round: 1 .. MaxSteps + 1]
Batches == [active: SUBSET Ids, visible: SUBSET Ids, scopes: SUBSET Scopes,
            doneIds: SUBSET Ids, doneScopes: SUBSET Scopes]

RunAt(r, p, f, n) == r \in Runs /\ r.pc = p /\ r.phase = f /\ r.round = n

LEMMA RunMoves ==
  ASSUME NEW r \in Runs, NEW v, NEW p \in {"round", "clean", "ended"} \union Awaiting,
         NEW f \in Phases, NEW n \in 1 .. MaxSteps + 1
  PROVE  /\ v = [r EXCEPT !.pc = p] => RunAt(v, p, r.phase, r.round)
         /\ v = [r EXCEPT !.pc = p, !.phase = f] => RunAt(v, p, f, r.round)
         /\ v = [r EXCEPT !.pc = p, !.round = n] => RunAt(v, p, r.phase, n)
<1> DEFINE u == [r EXCEPT !.pc = p]
           a == [u EXCEPT !.phase = f]
           b == [u EXCEPT !.round = n]
<1>1. RunAt(u, p, r.phase, r.round)
  BY DEF Runs, RunAt
<1>2. /\ [r EXCEPT !.pc = p, !.phase = f] = a
      /\ [r EXCEPT !.pc = p, !.round = n] = b
  OBVIOUS
<1>3. RunAt(a, p, f, r.round) /\ RunAt(b, p, r.phase, n)
  <2> HIDE DEF u
  <2> QED BY <1>1 DEF RunAt, Runs
<1>4. v = [r EXCEPT !.pc = p] => RunAt(v, p, r.phase, r.round)
  <2> HIDE DEF a, b
  <2> QED BY <1>1, Zenon
<1> HIDE DEF u, a, b
<1> QED BY <1>2, <1>3, <1>4, Zenon

\* What an answered request shows becomes reportable, and nothing else.
LEMMA ObservedIs ==
  ASSUME NEW b \in Batches, NEW items \in SUBSET Items
  PROVE  /\ Observed(b, items) \in Batches
         /\ Observed(b, items).active = b.active
         /\ Observed(b, items).visible = b.visible \union (items \cap b.active)
         /\ Observed(b, items).scopes = b.scopes \union ((items \cap Scopes) \ b.doneScopes)
         /\ Observed(b, items).doneIds = b.doneIds /\ Observed(b, items).doneScopes = b.doneScopes
<1> DEFINE x == b.visible \union (items \cap b.active)
           y == b.scopes \union ((items \cap Scopes) \ b.doneScopes)
           u == [b EXCEPT !.visible = x]
           v == [u EXCEPT !.scopes = y]
<1>1. Observed(b, items) = v
  BY DEF Observed
<1>2. x \in SUBSET Ids /\ y \in SUBSET Scopes
  BY DEF Batches
<1> HIDE DEF x, y
<1>3. /\ u \in Batches /\ u.active = b.active /\ u.visible = x /\ u.scopes = b.scopes
      /\ u.doneIds = b.doneIds /\ u.doneScopes = b.doneScopes
  BY <1>2 DEF Batches
<1> HIDE DEF u
<1>4. /\ v \in Batches /\ v.active = b.active /\ v.visible = x /\ v.scopes = y
      /\ v.doneIds = b.doneIds /\ v.doneScopes = b.doneScopes
  BY <1>2, <1>3 DEF Batches
<1> HIDE DEF v
<1> QED BY <1>1, <1>4, Zenon DEF x, y

Fresh(x, y) == [NoBatch EXCEPT !.doneIds = x, !.doneScopes = y]
OnlyDone(b, x, y) == /\ b \in Batches /\ b.active = {} /\ b.visible = {} /\ b.scopes = {}
                     /\ b.doneIds = x /\ b.doneScopes = y

LEMMA PublishedIs ==
  ASSUME NEW x \in SUBSET Ids, NEW y \in SUBSET Scopes, NEW b, b = Fresh(x, y)
  PROVE  OnlyDone(b, x, y)
<1>1. b = [active |-> {}, visible |-> {}, scopes |-> {}, doneIds |-> x, doneScopes |-> y]
  <2> DEFINE u == [NoBatch EXCEPT !.doneIds = x]
             v == [u EXCEPT !.doneScopes = y]
  <2>1. u = [active |-> {}, visible |-> {}, scopes |-> {}, doneIds |-> x, doneScopes |-> {}]
    BY DEF NoBatch
  <2>2. b = v
    BY DEF Fresh
  <2> HIDE DEF u
  <2> QED BY <2>1, <2>2
<1>2. b \in Batches
  BY <1>1 DEF Batches
<1> DEFINE c == [active |-> {}, visible |-> {}, scopes |-> {}, doneIds |-> x, doneScopes |-> y]
<1>3. c.active = {} /\ c.visible = {} /\ c.scopes = {} /\ c.doneIds = x /\ c.doneScopes = y
  OBVIOUS
<1>4. b = c
  BY <1>1, Zenon
<1> HIDE DEF c
<1>5. /\ b.active = {} /\ b.visible = {} /\ b.scopes = {}
      /\ b.doneIds = x /\ b.doneScopes = y
  BY <1>3, <1>4, Zenon
<1> QED BY <1>2, <1>5 DEF OnlyDone

LEMMA PublishIs ==
  ASSUME NEW b, NEW scopes, Publish(b, scopes),
         b.doneIds \union b.active \in SUBSET Ids, b.doneScopes \union scopes \in SUBSET Scopes
  PROVE  /\ batch' \in Batches /\ batch'.active = {} /\ batch'.visible = {} /\ batch'.scopes = {}
         /\ batch'.doneIds = b.doneIds \union b.active
         /\ batch'.doneScopes = b.doneScopes \union scopes
<1>1. PICK x \in SUBSET Ids, y \in SUBSET Scopes :
        x = b.doneIds \union b.active /\ y = b.doneScopes \union scopes
  OBVIOUS
<1>2. batch' = Fresh(x, y)
  BY <1>1 DEF Publish, Fresh
<1>3. OnlyDone(batch', x, y)
  BY <1>2, PublishedIs, Zenon
<1> QED BY <1>1, <1>3, Zenon DEF OnlyDone

LEMMA SelectedIs ==
  ASSUME NEW b \in Batches, NEW found \in SUBSET Items, NEW v,
         v = [b EXCEPT !.active = @ \union (found \cap Ids)]
  PROVE  /\ v \in Batches /\ v.active = b.active \union (found \cap Ids)
         /\ v.visible = b.visible /\ v.scopes = b.scopes
         /\ v.doneIds = b.doneIds /\ v.doneScopes = b.doneScopes
BY DEF Batches

-----------------------------------------------------------------------------
(* The invariant of the rounds *)

RoundTypeOK ==
  /\ mode \in Modes
  /\ run \in Runs
  /\ status \in {"running", "completed", "failed", "cancelled"}
  /\ batch \in Batches
  /\ kept \in [older: SUBSET Items, last: SUBSET Items]
  /\ reports \in Seq([ids: SUBSET Ids, scopes: SUBSET Scopes])
  /\ resubmitted \in BOOLEAN /\ told \in BOOLEAN
  /\ cancels \in 0 .. MaxCancels

RoundInv == RoundTypeOK /\ ReportedWasShown /\ ReportedOnce /\ Reported /\ Spent

LEMMA InvariantParts ==
  (IInv <=> RequestInv /\ RoundInv) /\ (IInv' <=> RequestInv' /\ RoundInv')
<1> USE DEF IInv, TypeOK, RequestInv, RoundInv, RoundTypeOK, Runs, Batches
<1>1. IInv <=> RequestInv /\ RoundInv
  OBVIOUS
<1>2. IInv' <=> RequestInv' /\ RoundInv'
  OBVIOUS
<1> QED BY <1>1, <1>2

\* While nothing is published or selected, only the spending has to be counted.
LEMMA QuietRound ==
  ASSUME RoundInv, RequestTypeOK, RoundTypeOK', Spent',
         reports' = reports, mode' = mode, delivered \subseteq delivered',
         batch'.active = batch.active, batch'.doneIds = batch.doneIds,
         batch'.doneScopes = batch.doneScopes, batch'.scopes \cap batch.doneScopes = {},
         Closing' => batch.active = {}
  PROVE  RoundInv'
<1>1. ReportedWasShown'
  BY DEF RoundInv, ReportedWasShown
<1>2. ReportedOnce'
  BY DEF RoundInv, ReportedOnce
<1>3. Reported'
  BY DEF RoundInv, Reported, ReportedIds
<1> QED BY <1>1, <1>2, <1>3 DEF RoundInv

\* The steps of a request show more, at most.
LEMMA RequestingRound ==
  ASSUME RoundInv, RequestTypeOK, UNCHANGED roundVars, planned' = planned, delivered \subseteq delivered'
  PROVE  RoundInv'
<1>1. RoundTypeOK' /\ Spent'
  BY DEF RoundInv, RoundTypeOK, roundVars, Spent, Owed, Pending, PendingPreview, One
<1>2. Closing' => batch.active = {}
  BY DEF RoundInv, Reported, Closing, roundVars
<1> QED BY <1>1, <1>2, QuietRound DEF roundVars, RoundInv, Reported

-----------------------------------------------------------------------------
(* The steps of the coroutine *)

LEMMA WindowsAreItems ==
  ASSUME RoundTypeOK, NEW items \in Windows PROVE items \in SUBSET Items
BY DEF RoundTypeOK, Windows

\* A request is asked in a phase p while the batch stays what it is.
LEMMA AskRound ==
  ASSUME RequestInv, RoundInv, NEW items \in SUBSET Items, NEW f \in Phases, Ask(f, items),
         run.pc \in {"round", "asking"}, status = "running",
         UNCHANGED <<mode, status, reports, resubmitted, told, cancels, kept>>,
         batch' \in Batches,
         batch'.active = batch.active, batch'.doneIds = batch.doneIds,
         batch'.doneScopes = batch.doneScopes, batch'.scopes \cap batch.doneScopes = {},
         batch'.visible \subseteq delivered, batch'.scopes \subseteq delivered,
         f = "final_report" => batch.active = {},
         f = "investigation" => run.round <= MaxSteps,
         LET used == planned - One(resubmitted)
         IN  /\ f = "investigation" => used <= 2 * run.round - 2
             /\ f = "batch_report" => used <= 2 * run.round - 1 /\ used <= 2 * MaxSteps - 1
             /\ used <= 2 * MaxSteps
  PROVE  RequestInv' /\ RoundInv'
<1>1. RunAt(run', "asking", f, run.round) /\ run' \in Runs
  BY RunMoves DEF Ask, RoundInv, RoundTypeOK, Runs, RunAt, Awaiting
<1>2. Plan(items) /\ planned' = planned + 1 /\ delivered' = delivered /\ RequestTypeOK
  BY PlanMoves DEF Ask, RequestInv
<1>3. RequestInv'
  BY <1>1, <1>2, AskStep DEF RunAt
<1>4. RoundTypeOK'
  BY <1>1 DEF RoundInv, RoundTypeOK
<1>5. Spent'
  <2> DEFINE used == planned - One(resubmitted)
  <2>1. used \in Int /\ MaxSteps \in Nat /\ run.round \in Nat /\ used' = used + 1
    BY <1>2, RoundsAssumption DEF RequestTypeOK, One, RoundInv, RoundTypeOK, Runs
  <2>2. /\ f = "investigation" => used' <= 2 * run.round - 1
        /\ f = "batch_report" => used' <= 2 * run.round /\ used' <= 2 * MaxSteps
        /\ used' <= 2 * MaxSteps + 1
    BY <2>1
  <2> HIDE DEF used
  <2>3. used' = planned' - One(resubmitted')
    BY DEF used
  <2> QED BY <1>1, <2>2, <2>3 DEF Spent, RunAt, used
<1>6. Closing' => batch.active = {}
  BY <1>1 DEF RequestInv, Together, RoundInv, Reported, Closing, RunAt
<1> QED BY <1>2, <1>3, <1>4, <1>5, <1>6, QuietRound

LEMMA InvestigateStep ==
  ASSUME RequestInv, RoundInv, Investigate PROVE RequestInv' /\ RoundInv'
<1>1. PICK items \in Windows : Ask("investigation", items)
  BY DEF Investigate
<1>2. items \in SUBSET Items /\ "investigation" \in Phases
  BY WindowsAreItems DEF RoundInv, Phases
<1>3. status = "running" /\ run.pc = "round" /\ run.round <= MaxSteps
  BY DEF Investigate, RequestInv, Together, Over
<1>4. LET used == planned - One(resubmitted)
      IN  used <= 2 * run.round - 2 /\ used <= 2 * MaxSteps
  <2> DEFINE used == planned - One(resubmitted)
  <2>1. used \in Int /\ MaxSteps \in Nat /\ run.round \in Nat /\ One(Owed) \in {0, 1}
    BY RoundsAssumption DEF RequestInv, RequestTypeOK, One, RoundInv, RoundTypeOK, Runs
  <2>2. used + One(Owed) <= 2 * (run.round - 1)
    BY <1>3 DEF RoundInv, Spent
  <2> HIDE DEF used
  <2>3. used <= 2 * run.round - 2 /\ used <= 2 * MaxSteps
    BY <1>3, <2>1, <2>2
  <2> QED BY <2>3 DEF used
<1>5. /\ batch \in Batches /\ batch' = batch /\ batch.scopes \cap batch.doneScopes = {}
      /\ batch.visible \subseteq delivered /\ batch.scopes \subseteq delivered
  BY DEF Investigate, RoundInv, RoundTypeOK, Reported, RequestInv, Shown
<1> QED BY <1>1, <1>2, <1>3, <1>4, <1>5, AskRound DEF Investigate

LEMMA CloseStep ==
  ASSUME RequestInv, RoundInv, Close PROVE RequestInv' /\ RoundInv'
<1>1. PICK items \in Windows :
        IF Owed THEN Ask("batch_report", items) ELSE Ask("final_report", items)
  BY DEF Close, Owed
<1>2. items \in SUBSET Items /\ "batch_report" \in Phases /\ "final_report" \in Phases
  BY WindowsAreItems DEF RoundInv, Phases
<1>3. status = "running" /\ run.pc = "round" /\ run.round = MaxSteps + 1
  BY DEF Close, RequestInv, Together, Over
<1>4. LET used == planned - One(resubmitted)
      IN  used <= 2 * MaxSteps /\ (Owed => used <= 2 * MaxSteps - 1 /\ used <= 2 * run.round - 1)
  BY <1>3, RoundsAssumption DEF RequestInv, RequestTypeOK, RoundInv, RoundTypeOK, Runs, Spent, One
<1>5. /\ batch \in Batches /\ batch' = batch /\ batch.scopes \cap batch.doneScopes = {}
      /\ batch.visible \subseteq delivered /\ batch.scopes \subseteq delivered
      /\ ~ Owed => batch.active = {}
  BY DEF Close, RoundInv, RoundTypeOK, Reported, Closing, RequestInv, Shown, Owed, Pending
<1>6. UNCHANGED <<mode, status, reports, resubmitted, told, cancels, kept>>
  BY DEF Close
<1>7. CASE Owed
  BY <1>1, <1>2, <1>3, <1>4, <1>5, <1>6, <1>7, AskRound
<1>8. CASE ~ Owed
  BY <1>1, <1>2, <1>3, <1>4, <1>5, <1>6, <1>8, AskRound
<1> QED BY <1>7, <1>8

\* A reply is there: what it showed was delivered.
LEMMA ReplyIs ==
  ASSUME RequestInv, RoundInv, NEW f, Reply(f)
  PROVE  /\ run.pc = "asking" /\ run.phase = f /\ status = "running" /\ call.pc = "returned"
         /\ call.shown \in SUBSET Items /\ call.shown \subseteq delivered
         /\ batch \in Batches /\ batch.visible \subseteq delivered /\ batch.scopes \subseteq delivered
         /\ batch.scopes \cap batch.doneScopes = {}
BY DEF RequestInv, Together, Over, Shown, RequestTypeOK, RoundInv, RoundTypeOK, Reported, Reply

LEMMA ObservedStays ==
  ASSUME RequestInv, RoundInv, NEW f, Reply(f), NEW b, b \in {Observe, Observed(batch, call.shown)}
  PROVE  /\ b \in Batches /\ b.active = batch.active
         /\ b.doneIds = batch.doneIds /\ b.doneScopes = batch.doneScopes
         /\ b.visible \subseteq delivered /\ b.scopes \subseteq delivered
         /\ b.scopes \cap batch.doneScopes = {}
<1>1. CASE b = batch
  BY <1>1, ReplyIs
<1>2. CASE b = Observed(batch, call.shown)
  BY <1>2, ReplyIs, ObservedIs
<1> QED BY <1>1, <1>2 DEF Observe

\* The coroutine goes on with its answer, the batch staying what it is.
LEMMA GoOn ==
  ASSUME RequestInv, RoundInv, NEW f, Reply(f), Idle,
         NEW p \in {"round", "using", "citing"}, NEW n \in 1 .. MaxSteps + 1,
         RunAt(run', p, f, n), run' \in Runs,
         batch' \in {batch, Observe},
         UNCHANGED <<mode, status, kept, reports, resubmitted, told, cancels>>,
         p = "citing" => f = "final_report" \/ mode = "plain",
         p = "using" => n = run.round,
         p = "round" => f = "investigation" /\ n = MaxSteps + 1,
         p # "citing" => f = "investigation"
  PROVE  RequestInv' /\ RoundInv'
<1>1. /\ batch' \in Batches /\ batch'.active = batch.active
      /\ batch'.doneIds = batch.doneIds /\ batch'.doneScopes = batch.doneScopes
      /\ batch'.visible \subseteq delivered /\ batch'.scopes \subseteq delivered
      /\ batch'.scopes \cap batch.doneScopes = {}
  <2>1. CASE batch' = batch
    BY <2>1, ReplyIs
  <2>2. CASE batch' = Observe
    BY <2>2, ObservedStays
  <2> QED BY <2>1, <2>2
<1>2. RequestInv'
  BY <1>1, ReplyIs, IdleStep DEF RunAt
<1>3. RoundTypeOK'
  BY <1>1 DEF RoundInv, RoundTypeOK
<1>4. Spent'
  <2> DEFINE used == planned - One(resubmitted)
  <2>1. used \in Int /\ MaxSteps \in Nat /\ run.round \in Nat /\ n \in Nat /\ used' = used
    BY RoundsAssumption DEF RequestInv, RequestTypeOK, One, RoundInv, RoundTypeOK, Runs, Idle
  <2>2. /\ f = "investigation" => run.round <= MaxSteps /\ used <= 2 * run.round - 1
        /\ used <= 2 * MaxSteps + 1
    BY ReplyIs DEF RoundInv, Spent
  <2>3. One(Owed') \in {0, 1}
    BY DEF One
  <2> HIDE DEF used
  <2>4. p = "round" => used' + One(Owed') <= 2 * (n - 1)
    BY <2>1, <2>2, <2>3
  <2>5. p = "using" => n <= MaxSteps /\ used' <= 2 * n - 1
    BY <2>1, <2>2
  <2> QED BY <2>1, <2>2, <2>4, <2>5 DEF Spent, RunAt, used
<1>5. Closing' => batch.active = {}
  BY ReplyIs DEF RequestInv, Together, RoundInv, Reported, Closing, RunAt
<1> QED BY <1>1, <1>2, <1>3, <1>4, <1>5, QuietRound DEF Idle, RequestInv

LEMMA CallToolsStep ==
  ASSUME RequestInv, RoundInv, CallTools PROVE RequestInv' /\ RoundInv'
<1>1. Reply("investigation") /\ run \in Runs /\ run.phase = "investigation" /\ Idle
  BY DEF CallTools, Reply, RoundInv, RoundTypeOK
<1>2. run.round \in 1 .. MaxSteps + 1
  BY <1>1 DEF Runs
<1>3. RunAt(run', "using", "investigation", run.round) /\ run' \in Runs
  BY <1>1, <1>2, RunMoves DEF CallTools, Awaiting, Phases, RunAt, Runs
<1> QED BY <1>1, <1>2, <1>3, GoOn DEF CallTools

LEMMA AcceptAnswerStep ==
  ASSUME RequestInv, RoundInv, AcceptAnswer PROVE RequestInv' /\ RoundInv'
<1>1. run \in Runs /\ Idle /\ batch' = batch
      /\ (Reply("final_report") \/ (Reply("investigation") /\ mode = "plain"))
  BY DEF AcceptAnswer, RoundInv, RoundTypeOK
<1>2. run.round \in 1 .. MaxSteps + 1 /\ run.phase \in Phases
  BY <1>1 DEF Runs
<1>3. RunAt(run', "citing", run.phase, run.round) /\ run' \in Runs
  BY <1>1, <1>2, RunMoves DEF AcceptAnswer, Awaiting, RunAt, Runs
<1>4. Reply(run.phase) /\ (run.phase = "final_report" \/ mode = "plain")
  BY <1>1 DEF Reply
<1> QED BY <1>1, <1>2, <1>3, <1>4, GoOn DEF AcceptAnswer

LEMMA StopBatchStep ==
  ASSUME RequestInv, RoundInv, StopBatch PROVE RequestInv' /\ RoundInv'
<1>1. /\ Reply("investigation") /\ run \in Runs /\ run.phase = "investigation" /\ batch' = Observe
      /\ UNCHANGED <<mode, status, kept, reports, resubmitted, told, cancels>>
  BY DEF StopBatch, Reply, RoundInv, RoundTypeOK
<1>2. /\ run.round \in 1 .. MaxSteps + 1 /\ run.phase \in Phases
      /\ MaxSteps + 1 \in 1 .. MaxSteps + 1
  BY <1>1, RoundsAssumption DEF Runs
<1>3. ASSUME NEW items \in Windows, Ask("batch_report", items) PROVE RequestInv' /\ RoundInv'
  <2>1. items \in SUBSET Items /\ "batch_report" \in Phases
    BY WindowsAreItems DEF RoundInv, Phases
  <2>2. LET used == planned - One(resubmitted)
        IN  used <= 2 * run.round - 1 /\ used <= 2 * MaxSteps - 1 /\ used <= 2 * MaxSteps
    <3> DEFINE used == planned - One(resubmitted)
    <3>1. used \in Int /\ MaxSteps \in Nat /\ run.round \in Nat
      BY <1>2, RoundsAssumption DEF RequestInv, RequestTypeOK, One
    <3>2. run.round <= MaxSteps /\ used <= 2 * run.round - 1
      BY <1>1 DEF RoundInv, Spent, Reply
    <3> HIDE DEF used
    <3>3. used <= 2 * MaxSteps - 1 /\ used <= 2 * MaxSteps
      BY <3>1, <3>2
    <3> QED BY <3>2, <3>3 DEF used
  <2>3. /\ batch' \in Batches /\ batch'.active = batch.active
        /\ batch'.doneIds = batch.doneIds /\ batch'.doneScopes = batch.doneScopes
        /\ batch'.visible \subseteq delivered /\ batch'.scopes \subseteq delivered
        /\ batch'.scopes \cap batch.doneScopes = {}
    BY <1>1, ObservedStays
  <2>4. run.pc \in {"round", "asking"} /\ status = "running"
    BY <1>1, ReplyIs
  <2> QED BY <1>1, <1>3, <2>1, <2>2, <2>3, <2>4, AskRound
<1>4. CASE Idle /\ run' = [run EXCEPT !.pc = "round", !.round = MaxSteps + 1]
  <2>1. RunAt(run', "round", "investigation", MaxSteps + 1) /\ run' \in Runs
    BY <1>1, <1>2, <1>4, RunMoves DEF RunAt, Runs
  <2> QED BY <1>1, <1>2, <1>4, <2>1, GoOn
<1> QED BY <1>3, <1>4 DEF StopBatch

LEMMA ResubmitStep ==
  ASSUME RequestInv, RoundInv, Resubmit PROVE RequestInv' /\ RoundInv'
<1>1. Reply(run.phase) /\ Plan(call.shown) /\ ~ resubmitted /\ resubmitted'
      /\ UNCHANGED <<mode, run, status, batch, kept, reports, told, cancels>>
  BY DEF Resubmit, CanResubmit
<1>2. /\ run.pc = "asking" /\ status = "running" /\ call.shown \in SUBSET Items
      /\ batch.visible \subseteq delivered /\ batch.scopes \subseteq delivered
      /\ batch.scopes \cap batch.doneScopes = {}
  BY <1>1, ReplyIs
<1>3. planned' = planned + 1 /\ delivered' = delivered /\ RequestTypeOK
  BY <1>1, <1>2, PlanMoves DEF RequestInv
<1>4. RequestInv'
  BY <1>1, <1>2, AskStep
<1>5. RoundTypeOK'
  BY <1>1 DEF RoundInv, RoundTypeOK, Resubmit
<1>6. Spent'
  <2>1. planned' - One(resubmitted') = planned - One(resubmitted)
    BY <1>1, <1>3 DEF One, RequestTypeOK
  <2> QED BY <1>1, <1>2, <2>1 DEF RoundInv, Spent
<1>7. Closing' => batch.active = {}
  BY <1>1 DEF RoundInv, Reported, Closing
<1> QED BY <1>1, <1>2, <1>3, <1>4, <1>5, <1>6, <1>7, QuietRound

\* What the tools found may be selected; it is shown by a later request.
LEMMA UseToolsStep ==
  ASSUME RequestInv, RoundInv, UseTools PROVE RequestInv' /\ RoundInv'
<1>1. PICK found \in Found :
        /\ \A id \in found \cap Ids : Selectable(batch, id)
        /\ batch' = [batch EXCEPT !.active = @ \union (found \cap Ids)]
        /\ kept' = [older |-> kept.older \union kept.last, last |-> found]
  BY DEF UseTools
<1>2. /\ run.pc = "using" /\ run' = [run EXCEPT !.pc = "round", !.round = @ + 1]
      /\ UNCHANGED <<requestVars, mode, status, reports, resubmitted, told, cancels>>
  BY DEF UseTools
<1>3. found \in SUBSET Items /\ (mode # "batch" => found = {})
  BY DEF Found
<1>4. batch \in Batches /\ run \in Runs /\ run.round + 1 \in 1 .. MaxSteps + 1 /\ run.phase \in Phases
      /\ run.round \in Nat
  BY <1>2, RoundsAssumption DEF RoundInv, RoundTypeOK, Spent, Runs
<1>5. RunAt(run', "round", run.phase, run.round + 1) /\ run' \in Runs
  BY <1>2, <1>4, RunMoves DEF RunAt, Runs
<1>6. /\ batch' \in Batches /\ batch'.active = batch.active \union (found \cap Ids)
      /\ batch'.visible = batch.visible /\ batch'.scopes = batch.scopes
      /\ batch'.doneIds = batch.doneIds /\ batch'.doneScopes = batch.doneScopes
  BY <1>1, <1>3, <1>4, SelectedIs
<1>7. RequestInv'
  BY <1>2, <1>5, <1>6
  DEF RequestInv, requestVars, RequestTypeOK, Together, Over, Counted, Followed, Settled, Shown, Answered,
      Awaiting, Resolved, RunAt
<1>8. RoundTypeOK'
  BY <1>1, <1>2, <1>3, <1>5, <1>6 DEF RoundInv, RoundTypeOK
<1>9. ReportedWasShown' /\ ReportedOnce'
  <2>1. (found \cap Ids) \cap batch.doneIds = {}
    BY <1>1 DEF Selectable
  <2>2. ReportedWasShown'
    BY <1>2 DEF RoundInv, ReportedWasShown, requestVars
  <2>3. ReportedOnce'
    BY <1>2, <1>6, <2>1 DEF RoundInv, ReportedOnce
  <2> QED BY <2>2, <2>3
<1>10. Reported'
  <2>1. Closing' => batch'.active = {}
    BY <1>2, <1>3, <1>5, <1>6 DEF Closing, RoundInv, Reported, RequestInv, Together, Over, RunAt
  <2> QED BY <1>2, <1>6, <2>1 DEF RoundInv, Reported, ReportedIds
<1>11. Spent'
  <2> DEFINE used == planned - One(resubmitted)
  <2>1. used \in Int /\ MaxSteps \in Nat /\ run.round \in Nat /\ used' = used
    BY <1>2, <1>4, RoundsAssumption DEF RequestInv, RequestTypeOK, One, requestVars
  <2>2. /\ used <= 2 * run.round - 1 /\ used <= 2 * MaxSteps + 1
    BY <1>2 DEF RoundInv, Spent
  <2>3. One(Owed') \in {0, 1}
    BY DEF One
  <2> HIDE DEF used
  <2>4. used' + One(Owed') <= 2 * (run.round + 1 - 1) /\ used' <= 2 * MaxSteps + 1
    BY <2>1, <2>2, <2>3
  <2>5. used' + One(Owed') <= 2 * (run'.round - 1)
    BY <1>5, <2>1, <2>4 DEF RunAt
  <2> QED BY <1>5, <2>4, <2>5 DEF Spent, RunAt, used
<1> QED BY <1>7, <1>8, <1>9, <1>10, <1>11 DEF RoundInv

\* A published batch is new, was shown, and leaves nothing owed.
LEMMA PublishBatchStep ==
  ASSUME RequestInv, RoundInv, PublishBatch PROVE RequestInv' /\ RoundInv'
<1> DEFINE b == Observed(batch, call.shown)
           n == IF run.round > MaxSteps THEN run.round ELSE run.round + 1
<1>1. PICK scopes \in ReportScopes(b) : Publishable(b, scopes) /\ Publish(b, scopes)
  BY DEF PublishBatch
<1>2. /\ Reply("batch_report") /\ Idle /\ kept' = NoRounds
      /\ run' = [run EXCEPT !.pc = "round", !.round = n]
      /\ UNCHANGED <<mode, status, resubmitted, told, cancels>>
  BY DEF PublishBatch
<1>3. /\ b \in Batches /\ b.active = batch.active
      /\ b.doneIds = batch.doneIds /\ b.doneScopes = batch.doneScopes
      /\ b.visible \subseteq delivered /\ b.scopes \subseteq delivered
      /\ b.scopes \cap batch.doneScopes = {}
  BY <1>2, ObservedStays
<1>4. /\ run.pc = "asking" /\ run.phase = "batch_report" /\ status = "running" /\ call.pc = "returned"
      /\ run \in Runs /\ run.round \in 1 .. MaxSteps + 1 /\ run.phase \in Phases
  BY <1>2, ReplyIs DEF RoundInv, RoundTypeOK, Runs
<1>5. n \in 1 .. MaxSteps + 1
  BY <1>4, RoundsAssumption
<1> HIDE DEF b, n
<1>6. RunAt(run', "round", run.phase, n) /\ run' \in Runs
  BY <1>2, <1>4, <1>5, RunMoves DEF RunAt, Runs
<1>7. /\ reports' = Append(reports, [ids |-> b.active, scopes |-> scopes])
      /\ scopes \subseteq b.scopes /\ b.active \subseteq b.visible
      /\ scopes \in SUBSET Scopes /\ b.active \in SUBSET Ids
  BY <1>1, <1>3 DEF Publish, Publishable, ReportScopes, Batches
<1>8. /\ batch' \in Batches /\ batch'.active = {} /\ batch'.visible = {} /\ batch'.scopes = {}
      /\ batch'.doneIds = batch.doneIds \union b.active
      /\ batch'.doneScopes = batch.doneScopes \union scopes
  <2>1. b.doneIds \union b.active \in SUBSET Ids /\ b.doneScopes \union scopes \in SUBSET Scopes
    BY <1>3, <1>7 DEF Batches
  <2> QED BY <1>1, <1>3, <2>1, PublishIs
<1>9. RequestInv'
  BY <1>2, <1>4, <1>6, <1>8, IdleStep DEF RunAt
<1>10. /\ reports \in Seq([ids: SUBSET Ids, scopes: SUBSET Scopes])
       /\ reports' \in Seq([ids: SUBSET Ids, scopes: SUBSET Scopes])
       /\ Len(reports) \in Nat /\ Len(reports') = Len(reports) + 1
       /\ \A i \in 1 .. Len(reports) : reports'[i] = reports[i]
       /\ reports'[Len(reports) + 1] = [ids |-> b.active, scopes |-> scopes]
  BY <1>7 DEF RoundInv, RoundTypeOK
<1>11. RoundTypeOK'
  BY <1>2, <1>6, <1>8, <1>10 DEF RoundInv, RoundTypeOK, NoRounds
<1>12. \A i \in 1 .. Len(reports') :
         \/ i \in 1 .. Len(reports) /\ reports'[i] = reports[i]
         \/ i = Len(reports) + 1 /\ reports'[i].ids = b.active /\ reports'[i].scopes = scopes
  BY <1>10
<1>13. ReportedWasShown'
  BY <1>2, <1>3, <1>7, <1>12 DEF RoundInv, ReportedWasShown, Idle
<1>14. \A i \in 1 .. Len(reports) :
         reports[i].ids \cap b.active = {} /\ reports[i].scopes \cap scopes = {}
  <2>1. b.active \cap batch.doneIds = {} /\ scopes \cap batch.doneScopes = {}
    BY <1>3, <1>7 DEF RoundInv, ReportedOnce
  <2> QED BY <2>1 DEF RoundInv, Reported
<1>15. ReportedOnce'
  BY <1>8, <1>12, <1>14 DEF RoundInv, ReportedOnce
<1>16. batch'.doneIds = ReportedIds'
  <2>1. batch.doneIds = ReportedIds
    BY DEF RoundInv, Reported
  <2>2. Len(reports) + 1 \in 1 .. Len(reports') /\ 1 .. Len(reports) \subseteq 1 .. Len(reports')
    BY <1>10
  <2>3. \A x : x \in ReportedIds' <=> \E i \in 1 .. Len(reports') : x \in reports'[i].ids
    BY DEF ReportedIds
  <2>4. \A x : x \in ReportedIds <=> \E i \in 1 .. Len(reports) : x \in reports[i].ids
    BY DEF ReportedIds
  <2>5. \A x : x \in ReportedIds' <=> x \in ReportedIds \union b.active
    BY <1>10, <1>12, <2>2, <2>3, <2>4
  <2> QED BY <1>8, <2>1, <2>5
<1>17. Reported'
  <2>1. \A i \in 1 .. Len(reports') :
          reports'[i].ids \subseteq batch'.doneIds /\ reports'[i].scopes \subseteq batch'.doneScopes
    BY <1>8, <1>12 DEF RoundInv, Reported
  <2> QED BY <1>8, <1>16, <2>1 DEF Reported
<1>18. Spent'
  <2> DEFINE used == planned - One(resubmitted)
  <2>1. used \in Int /\ MaxSteps \in Nat /\ run.round \in Nat /\ used' = used
    BY <1>2, <1>4, RoundsAssumption DEF RequestInv, RequestTypeOK, One, Idle
  <2>2. used <= 2 * run.round /\ used <= 2 * MaxSteps
    BY <1>4 DEF RoundInv, Spent
  <2>3. ~ Owed'
    BY <1>2, <1>8 DEF Owed, Pending, PendingPreview, NoRounds
  <2> HIDE DEF used
  <2>4. used' <= 2 * (n - 1) /\ used' <= 2 * MaxSteps + 1
    BY <1>4, <2>1, <2>2 DEF n
  <2>5. used' + One(Owed') <= 2 * (n - 1)
    BY <2>1, <2>3, <2>4 DEF One
  <2> QED BY <1>6, <2>4, <2>5 DEF Spent, RunAt, used
<1> QED BY <1>9, <1>11, <1>13, <1>15, <1>17, <1>18 DEF RoundInv

\* A run that ends publishes and sends nothing more.
LEMMA LeaveRound ==
  ASSUME RequestTypeOK, RoundInv, NEW p \in {"judging", "sealing", "ended", "clean", "closing"},
         run' = [run EXCEPT !.pc = p],
         UNCHANGED <<mode, batch, kept, reports, resubmitted, planned, delivered>>,
         status' \in {"running", "completed", "failed", "cancelled"}, told' \in BOOLEAN,
         cancels' \in 0 .. MaxCancels,
         Closing' => Closing
  PROVE  RoundInv'
<1>1. run \in Runs /\ run.phase \in Phases /\ run.round \in 1 .. MaxSteps + 1
  BY DEF RoundInv, RoundTypeOK, Runs
<1>2. RunAt(run', p, run.phase, run.round) /\ run' \in Runs
  BY <1>1, RunMoves DEF RunAt, Runs, Awaiting
<1>3. RoundTypeOK'
  BY <1>2 DEF RoundInv, RoundTypeOK
<1>4. Spent'
  BY <1>2 DEF RoundInv, Spent, RunAt
<1> QED BY <1>3, <1>4, QuietRound DEF RoundInv, Reported

LEMMA EndRound ==
  ASSUME RequestInv, RoundInv,
         Cite \/ JudgeCompleted \/ Complete \/ Fail \/ JudgeFailed \/ End \/ Cancel
  PROVE  RoundInv'
<1>0. /\ RequestTypeOK /\ run \in Runs
      /\ status \in {"running", "completed", "failed", "cancelled"} /\ told \in BOOLEAN
      /\ cancels \in 0 .. MaxCancels
      /\ status = "completed" => run.pc = "ended"
  BY DEF RequestInv, RoundInv, RoundTypeOK, Together
<1> USE DEF Closing, Runs
<1>1. CASE Cite
  BY <1>0, <1>1, LeaveRound DEF Cite, requestVars
<1>2. CASE JudgeCompleted
  BY <1>0, <1>2, LeaveRound DEF JudgeCompleted, Judge
<1>3. CASE Complete
  BY <1>0, <1>3, LeaveRound DEF Complete, requestVars
<1>4. CASE Fail
  BY <1>0, <1>4, LeaveRound DEF Fail, FailAs, requestVars, Idle
<1>5. CASE JudgeFailed
  BY <1>0, <1>5, LeaveRound DEF JudgeFailed, Judge
<1>6. CASE End
  BY <1>0, <1>6, LeaveRound DEF End, requestVars
<1>7. CASE Cancel
  <2>1. cancels' \in 0 .. MaxCancels
    BY <1>0, <1>7, RoundsAssumption DEF Cancel
  <2>2. planned' = planned /\ delivered' = delivered
    BY <1>7 DEF Cancel, Abandon, requestVars
  <2> QED BY <1>0, <1>7, <2>1, <2>2, LeaveRound DEF Cancel, FailAs
<1> QED BY <1>1, <1>2, <1>3, <1>4, <1>5, <1>6, <1>7

-----------------------------------------------------------------------------
(* The theorems *)

LEMMA InitIInv == Init => IInv
<1> SUFFICES ASSUME Init PROVE IInv
  OBVIOUS
<1> USE RetryAssumption, RoundsAssumption DEF Init, RequestInit, NoCall, NoThread
<1>1. RequestTypeOK
  BY DEF RequestTypeOK, Outcomes
<1>2. Together /\ Counted /\ Followed /\ Settled
  BY DEF Together, Over, Counted, One, Followed, Settled, Answered, Awaiting
<1>3. Shown
  BY DEF Shown, Answered, NoBatch
<1>4. run \in Runs
  BY DEF Runs, Phases
<1>5. batch \in Batches
  BY DEF Batches, NoBatch
<1>6. RoundTypeOK
  <2>1. reports \in Seq([ids: SUBSET Ids, scopes: SUBSET Scopes])
    OBVIOUS
  <2>2. kept \in [older: SUBSET Items, last: SUBSET Items]
    BY DEF NoRounds
  <2>3. mode \in Modes /\ resubmitted \in BOOLEAN /\ told \in BOOLEAN
    BY Zenon
  <2>4. cancels \in 0 .. MaxCancels
    OBVIOUS
  <2> QED BY <1>4, <1>5, <2>1, <2>2, <2>3, <2>4 DEF RoundTypeOK
<1>7. Len(reports) = 0
  OBVIOUS
<1>8. ReportedWasShown /\ ReportedOnce
  BY <1>7 DEF ReportedWasShown, ReportedOnce, NoBatch
<1>9. Reported
  BY <1>7 DEF Reported, ReportedIds, NoBatch, Closing
<1>10. Spent
  BY DEF Spent, One, Owed, Pending, PendingPreview, NoBatch, NoRounds
<1> QED BY <1>1, <1>2, <1>3, <1>6, <1>8, <1>9, <1>10, InvariantParts DEF RequestInv, RoundInv

LEMMA StepIInv == IInv /\ [Next]_vars => IInv'
<1> SUFFICES ASSUME IInv, [Next]_vars PROVE IInv'
  OBVIOUS
<1>1. RequestInv /\ RoundInv /\ RequestTypeOK /\ run \in Runs
  BY InvariantParts DEF RequestInv, RoundInv, RoundTypeOK
<1>2. CASE Requesting
  <2>1. RequestInv'
    BY <1>1, <1>2, BeginStep, RecordSentStep, CountSentStep, AnswerStep, SettleStep, NoteResultStep,
       TallyStep, VanishStep, CollectStep, RetryStep, SealStep DEF Requesting, ThreadStep
  <2>2. planned' = planned /\ delivered \subseteq delivered' /\ UNCHANGED roundVars
    BY <1>2 DEF Requesting, ThreadStep, Begin, RecordSent, CountSent, Answer, Settle, NoteResult, Tally,
       Vanish, Collect, Retry, Seal
  <2> QED BY <1>1, <2>1, <2>2, RequestingRound, InvariantParts
<1>3. CASE Investigate \/ CallTools \/ UseTools \/ StopBatch \/ Close
  BY <1>1, <1>3, InvestigateStep, CallToolsStep, UseToolsStep, StopBatchStep, CloseStep, InvariantParts
<1>4. CASE Resubmit \/ PublishBatch \/ AcceptAnswer
  BY <1>1, <1>4, ResubmitStep, PublishBatchStep, AcceptAnswerStep, InvariantParts
<1>5. CASE Cite \/ JudgeCompleted \/ Complete \/ Fail \/ JudgeFailed \/ End \/ Cancel
  <2>1. RequestInv'
    BY <1>1, <1>5, EndSteps, CancelStep DEF Runs
  <2> QED BY <1>1, <1>5, <2>1, EndRound, InvariantParts
<1>6. CASE UNCHANGED vars
  <2>1. UNCHANGED <<requestVars, roundVars>>
    BY <1>6 DEF vars, roundVars
  <2>2. RequestInv'
    BY <1>1, <2>1
    DEF RequestInv, requestVars, roundVars, RequestTypeOK, Together, Over, Counted, Followed, Settled,
        Shown, Answered, Resolved
  <2>3. RoundInv'
    BY <1>1, <2>1, RequestingRound DEF requestVars
  <2> QED BY <2>2, <2>3, InvariantParts
<1> QED BY <1>2, <1>3, <1>4, <1>5, <1>6 DEF Next, Coroutine

(***************************************************************************)
(* What the coroutine, its call, the call's thread and the audit's         *)
(* counters say of one another, in every reachable state, a thread that a  *)
(* cancellation left behind included.                                      *)
(***************************************************************************)
THEOREM RoundsInvariance == Spec => []IInv
<1>1. Init => IInv
  BY InitIInv
<1>2. IInv /\ [Next]_vars => IInv'
  BY StepIInv
<1> QED BY <1>1, <1>2, PTL DEF Spec

(***************************************************************************)
(* Every published batch names only what an answered request carried.      *)
(***************************************************************************)
THEOREM ReportsWereShown == Spec => []ReportedWasShown
<1>1. IInv => ReportedWasShown
  BY DEF IInv
<1> QED BY <1>1, RoundsInvariance, PTL

(***************************************************************************)
(* No item is reported twice, no reported route is selected again, and a   *)
(* completed run has reported every route it selected.                     *)
(***************************************************************************)
THEOREM ReportsExactlyOnce == Spec => []ReportsAreExact
<1>1. IInv => ReportsAreExact
  <2>1. ASSUME IInv, status = "completed"
        PROVE  batch.active = {} /\ batch.doneIds = ReportedIds
    BY <2>1 DEF IInv, Reported, Closing
  <2> QED BY <2>1 DEF IInv, ReportsAreExact, NothingForgotten, ReportedIds
<1> QED BY <1>1, RoundsInvariance, PTL

(***************************************************************************)
(* The requests of a run stay within the policy it was frozen with,        *)
(* whichever protocol it follows and whatever it leaves unreported.        *)
(***************************************************************************)
THEOREM RunsStayInPolicy == Spec => []WithinPolicy
<1>1. IInv => WithinPolicy
  <2> SUFFICES ASSUME IInv PROVE WithinPolicy
    OBVIOUS
  <2>1. planned - One(resubmitted) <= 2 * MaxSteps + 1
    BY DEF IInv, Spent
  <2>2. planned \in Nat /\ MaxSteps \in Nat /\ One(resubmitted) <= 1 /\ One(resubmitted) \in Nat
    BY RoundsAssumption DEF IInv, TypeOK, RequestTypeOK, One
  <2> QED BY <2>1, <2>2 DEF WithinPolicy
<1> QED BY <1>1, RoundsInvariance, PTL

(***************************************************************************)
(* A completed run told of a complete audit that misses no answer, and an  *)
(* audit that a failed run sealed as complete misses none either.          *)
(***************************************************************************)
THEOREM AuditsAreTrue == Spec => []AuditIsTrue
<1>1. IInv => AuditIsTrue
  BY DEF IInv, Together, Settled, AuditIsTrue, CompletedIsAudited, CompleteIsResolved
<1> QED BY <1>1, RoundsInvariance, PTL

(***************************************************************************)
(* No thread, left behind or not, adds to the requests of a sealed audit   *)
(* or ends one of them.                                                    *)
(***************************************************************************)
THEOREM SealedStays == Spec => SealedIsFinal
<1>1. [Next]_vars => (sealed # "recording" => UNCHANGED <<wire, delivered>>)
  <2> SUFFICES ASSUME [Next]_vars, sealed # "recording" PROVE UNCHANGED <<wire, delivered>>
    OBVIOUS
  <2>1. CASE Requesting
    BY <2>1 DEF Requesting, ThreadStep, Begin, RecordSent, Appendable, CountSent, Answer, Settle,
       NoteResult, Tally, Vanish, Collect, Retry, Seal
  <2>2. CASE Coroutine
    BY <2>2 DEF Coroutine, Investigate, CallTools, UseTools, StopBatch, Close, Resubmit, PublishBatch,
       AcceptAnswer, Cite, JudgeCompleted, Complete, Fail, JudgeFailed, End, Ask, Plan, Idle, Judge,
       requestVars
  <2>3. CASE Cancel
    BY <2>3 DEF Cancel, Abandon, requestVars
  <2>4. CASE UNCHANGED vars
    BY <2>4 DEF vars, requestVars
  <2> QED BY <2>1, <2>2, <2>3, <2>4 DEF Next
<1>2. [Next]_vars => [sealed # "recording" => UNCHANGED <<wire, delivered>>]_vars
  BY <1>1
<1> QED BY <1>2, PTL DEF Spec, SealedIsFinal
==============================================================================
