---------------------------- MODULE PathConditions ----------------------------
(***************************************************************************)
(* The query whether some path visits given statements in order            *)
(* (program_graph/path_conditions.py, prove): a queue of prefixes over the *)
(* control-flow graph, each with its values, its conditions, the finally   *)
(* blocks it is in and its reasons for doubt.                              *)
(*                                                                         *)
(* Abstractions: the symbolic values and assertions of a prefix are the    *)
(* set of concrete stores they allow (a solver that answers); an           *)
(* expression is a literal, a test of one variable, or unknown; writes     *)
(* without an expression (compound, of a pattern) are left out.  All       *)
(* reasons are one flag, and all budgets (states, time) one step that may  *)
(* end the search at any moment.  Outgoing edges come in any fixed order.  *)
(***************************************************************************)
EXTENDS ControlFlow

CONSTANTS
    Names, Vals,        \* variables and their values
    Unknown,            \* the value of an expression that is not modelled
    AnyName,            \* no variable
    Queries,            \* [body, points, carried, goal]
    MaxVisits

\* body: the statements of the function; points: ids in order, one or two;
\* carried: the variable of the def-use edge from the first to the last, or
\* AnyName; goal: a test that holds on arrival at the last point.
VARIABLES query, graph, prefixes, doubts, verdict

proofVars == <<query, graph, prefixes, doubts, verdict>>

Stores == [Names -> Vals]

-------------------------------------------------------------------------------
\* The statement of a node, if it does anything there: the nodes of entry, exit,
\* empty handlers and put-off exits write nothing.
StatementAt(n) == graph.statements[n]
Acts(n) == n \in DOMAIN graph.statements
WritesAt(n) == IF Acts(n) THEN StatementAt(n).writes ELSE {}
CallsAt(n) == Acts(n) /\ StatementAt(n).calls

Written(writes) == {w.var : w \in writes}

\* The stores behind some writes: a literal is stored, anything else is fresh;
\* a call may change every variable.
Stored(store, writes, calls) ==
    {after \in Stores :
        \/ calls
        \/ \A v \in Names :
            /\ v \notin Written(writes) => after[v] = store[v]
            /\ \A w \in writes : w.var = v /\ w.sure /\ w.value # Unknown => after[v] = w.value}

\* A test: of a variable, or of AnyName when it is not modelled.
Modelled(test) == test.var # AnyName
Holds(test, store) == Modelled(test) => store[test.var] = test.value
Fails(test, store) == Modelled(test) => store[test.var] # test.value

\* A prefix behind its node: the names it knows, and those it has doubts about,
\* a value whose expression is not modelled included.
Effect(p) ==
    LET writes == WritesAt(p.node)
        known == p.known \union Written(writes)
    IN  [stores |-> UNION {Stored(s, writes, CallsAt(p.node)) : s \in p.stores},
         known |-> known,
         gaps |-> IF CallsAt(p.node) THEN known
                  ELSE (p.gaps \ Written(writes))
                       \union {w.var : w \in {w \in writes : ~w.sure \/ w.value = Unknown}},
         doubt |-> p.doubt \/ p.node \in ToSet(p.seen)]

\* The definition carried to the last point is overridden here.
FirstPoint(q) == <<q.points[1]>>
LastPoint(q) == <<q.points[Len(q.points)]>>
KilledAt(p) ==
    /\ query.carried # AnyName
    /\ FirstPoint(query) \in ToSet(p.seen) /\ LastPoint(query) \notin ToSet(p.seen)
    /\ p.node \notin {FirstPoint(query), LastPoint(query)}
    /\ \E w \in WritesAt(p.node) : w.var = query.carried /\ w.sure

Progress(p) ==
    IF p.progress < Len(query.points) /\ p.node = <<query.points[p.progress + 1]>>
    THEN p.progress + 1 ELSE p.progress

Occurrences(n, seen) == Cardinality({i \in DOMAIN seen : seen[i] = n})
TooOften(p, e) == Occurrences(e.to, Append(p.seen, p.node)) >= MaxVisits

\* The edges out of a prefix that match the finally block it is in and do not
\* carry an overridden definition.
Matches(p, e) ==
    e.pop = {} \/ (p.completions # <<>> /\ Last(p.completions) \in e.pop)
Open(p) ==
    {e \in graph.edges : e.from = p.node /\ (KilledAt(p) => e.before) /\ Matches(p, e)}

\* The prefix behind an edge: an early edge takes what was before the node.
Following(p, e) ==
    LET base == IF e.before THEN [stores |-> p.stores, known |-> p.known, gaps |-> p.gaps, doubt |-> p.doubt]
                ELSE Effect(p)
        popped == IF e.pop = {} THEN p.completions ELSE Front(p.completions)
        test == StatementAt(p.node).test
        tested == e.branch \in {"true", "false"}
        named == IF tested /\ Modelled(test) THEN {test.var} ELSE {}
    IN  [node |-> e.to,
         progress |-> Progress(p),
         stores |-> IF ~tested THEN base.stores
                    ELSE {s \in base.stores : IF e.branch = "true" THEN Holds(test, s) ELSE Fails(test, s)},
         known |-> base.known \union named,
         gaps |-> base.gaps,
         doubt |-> \/ base.doubt
                   \/ tested /\ (Modelled(test) => test.var \in base.gaps)
                   \/ e.branch = "exception",
         seen |-> Append(p.seen, p.node),
         completions |-> IF e.push = NoToken THEN popped ELSE Append(popped, e.push)]

\* The goal is judged on arrival, and a name with doubts gives a doubtful answer.
Arrived(p) == Progress(p) = Len(query.points)
GoalPossible(p) == \E s \in p.stores : Holds(query.goal, s)
GoalDoubtful(p) == p.doubt \/ (Modelled(query.goal) /\ query.goal.var \in p.gaps)

-------------------------------------------------------------------------------
Running == verdict = "open"

ProofInit ==
    /\ query \in Queries
    /\ graph = Graph(query.body)
    /\ prefixes = <<[node |-> EntryNode, progress |-> 0, stores |-> Stores, known |-> {},
                     gaps |-> {}, doubt |-> FALSE, seen |-> <<>>, completions |-> <<>>]>>
    /\ doubts = FALSE
    /\ verdict = "open"

\* The last point is reached under a condition that can hold, and without doubt.
Witness ==
    LET p == Head(prefixes)
    IN  /\ Running /\ prefixes # <<>>
        /\ Arrived(p) /\ GoalPossible(p) /\ ~GoalDoubtful(p)
        /\ verdict' = "satisfiable"
        /\ UNCHANGED <<query, graph, prefixes, doubts>>

\* It is reached, but the goal cannot hold or the prefix is doubtful.
Undecided ==
    LET p == Head(prefixes)
    IN  /\ Running /\ prefixes # <<>>
        /\ Arrived(p) /\ (GoalPossible(p) => GoalDoubtful(p))
        /\ prefixes' = Tail(prefixes)
        /\ doubts' = (doubts \/ GoalDoubtful(p))
        /\ UNCHANGED <<query, graph, verdict>>

\* slip: a branch that cannot be taken leaves no doubt behind.
ExtendUndoubted ==
    LET p == Head(prefixes)
        fitting == {e \in Open(p) : ~TooOften(p, e)}
        next == {Following(p, e) : e \in fitting}
        possible == {f \in next : f.stores # {}}
    IN  /\ Running /\ prefixes # <<>> /\ ~Arrived(p)
        /\ prefixes' = Tail(prefixes) \o SetToSeq(possible)
        /\ doubts' = (doubts \/ fitting # Open(p))
        /\ UNCHANGED <<query, graph, verdict>>

\* It is not reached yet: every open edge that is not a loop too many and whose
\* condition can hold is queued; what is given up in doubt is remembered.
Extend ==
    LET p == Head(prefixes)
        fitting == {e \in Open(p) : ~TooOften(p, e)}
        next == {Following(p, e) : e \in fitting}
        possible == {f \in next : f.stores # {}}
    IN  /\ Running /\ prefixes # <<>> /\ ~Arrived(p)
        /\ prefixes' = Tail(prefixes) \o SetToSeq(possible)
        /\ doubts' = (doubts \/ fitting # Open(p) \/ \E f \in next \ possible : f.doubt)
        /\ UNCHANGED <<query, graph, verdict>>

\* A budget ends the search.
GiveUp ==
    /\ Running /\ prefixes # <<>>
    /\ prefixes' = <<>>
    /\ doubts' = TRUE
    /\ UNCHANGED <<query, graph, verdict>>

Conclude ==
    /\ Running /\ prefixes = <<>>
    /\ verdict' = IF doubts THEN "unknown" ELSE "infeasible"
    /\ UNCHANGED <<query, graph, prefixes, doubts>>

ProofNext == Witness \/ Undecided \/ Extend \/ GiveUp \/ Conclude

ProofSpec == ProofInit /\ [][ProofNext]_proofVars

-------------------------------------------------------------------------------
(***************************************************************************)
(* The runs of the function itself, from its statements and without the    *)
(* graph: the statements visited, each with the store it found and the     *)
(* variables it surely wrote; the store left; and the way it ended.        *)
(***************************************************************************)
Step(s, store, done) ==
    [id |-> s.id, store |-> store,
     sets |-> {w.var : w \in {w \in s.writes : done /\ w.sure}}]
Run(trace, store, end) == [trace |-> trace, store |-> store, end |-> end]

\* The runs that end otherwise, and the others with what follows them.
Onward(runs, end, more(_)) ==
    {r \in runs : r.end # end}
    \union UNION {{Run(r.trace \o m.trace, m.store, m.end) : m \in more(r.store)} :
                     r \in {r \in runs : r.end = end}}

Renamed(runs, end, as) == {IF r.end = end THEN [r EXCEPT !.end = as] ELSE r : r \in runs}

\* A statement by itself: it may throw where it calls.
Alone(s, store, end) ==
    {Run(<<Step(s, store, TRUE)>>, after, end) : after \in Stored(store, s.writes, s.calls)}
    \union {Run(<<Step(s, store, FALSE)>>, after, "throw") : after \in {after \in Stores : s.calls}}

RECURSIVE RunsOf(_, _, _)
RECURSIVE RunsOfAll(_, _, _)
RunsOfAll(statements, store, turns) ==
    IF statements = <<>> THEN {Run(<<>>, store, "normal")}
    ELSE Onward(RunsOf(Head(statements), store, turns), "normal",
                LAMBDA st : RunsOfAll(Tail(statements), st, turns))

\* turns: how often a loop may run its body; a run that goes on is cut there.
RunsOf(s, store, turns) ==
    LET branch(yes(_), no(_)) ==
            Onward(Alone(s, store, "test"), "test",
                   LAMBDA st : (IF Holds(s.test, st) THEN yes(st) ELSE {})
                               \union (IF Fails(s.test, st) THEN no(st) ELSE {}))
        else(st) == RunsOfAll(s.alternative, st, turns)
        body(st) == RunsOfAll(s.body, st, turns)
        handled(st) == UNION {RunsOfAll(s.handlers[i], st, turns) : i \in DOMAIN s.handlers}
                       \union {Run(<<>>, st, "throw") : x \in {0} \ (IF s.catchAll THEN {0} ELSE {})}
        entered == Onward(Alone(s, store, "normal"), "normal", body)
        tried == Onward(Onward(Renamed(entered, "normal", "else"), "throw", handled), "else", else)
        cleaned(st, end) == Renamed(RunsOfAll(s.finalizer, st, turns), "normal", end)
        turned(st) == Renamed(Renamed(body(st), "continue", "normal"), "break", "broken")
        again(st) ==
            IF turns = 0 THEN {Run(<<>>, st, "cut")}
            ELSE Renamed(Onward(turned(st), "normal", LAMBDA after : RunsOf(s, after, turns - 1)),
                         "broken", "normal")
    IN  CASE s.kind = "if" -> branch(body, else)
          [] s.kind = "loop" -> branch(again, else)
          [] s.kind = "try" -> UNION {IF r.end = "cut" THEN {r}
                                         ELSE Onward({r}, r.end, LAMBDA st : cleaned(st, r.end)) : r \in tried}
          [] s.kind \in Leaving -> Alone(s, store, s.kind)
          [] OTHER -> Alone(s, store, "normal")

\* The run answers the query with its i-th and j-th statements.
Answers(q, r, i, j) ==
    /\ i <= j /\ (i = j <=> Len(q.points) = 1)
    /\ r.trace[i].id = q.points[1] /\ r.trace[j].id = Last(q.points)
    /\ Holds(q.goal, r.trace[j].store)
    /\ q.carried # AnyName =>
        /\ q.carried \in r.trace[i].sets
        /\ \A k \in i + 1 .. j - 1 : q.carried \notin r.trace[k].sets

RunsAsked == UNION {RunsOfAll(query.body, store, MaxVisits) : store \in Stores}

-------------------------------------------------------------------------------
(***************************************************************************)
(* Properties.                                                             *)
(***************************************************************************)
ProofTypeOK ==
    /\ doubts \in BOOLEAN
    /\ verdict \in {"open", "satisfiable", "infeasible", "unknown"}
    /\ \A i \in DOMAIN prefixes :
        /\ prefixes[i].stores \in SUBSET Stores \ {{}}
        /\ prefixes[i].progress \in 0..Len(query.points)

\* _edge drops an edge whose source, target and branch were seen before, whatever
\* its tokens are: no graph has two that differ in the rest, so nothing is lost.
OneEdgePerKey ==
    prefixes = <<>> =>
        \A e, f \in graph.edges :
            <<e.from, e.to, e.branch>> = <<f.from, f.to, f.branch>> => e = f

\* A path called satisfiable is one the function can take: through finally
\* blocks that resume what brought them there, with values some run has.
WitnessIsReal ==
    verdict = "satisfiable" =>
        \E r \in RunsAsked : \E i, j \in DOMAIN r.trace : Answers(query, r, i, j)

\* Graph and witness are those of the function.
PathIsReal == ProofTypeOK /\ OneEdgePerKey /\ WitnessIsReal

\* A query called infeasible is answered by no run at its first arrival: the
\* first visit of the first point, and the first visit of the last one after it.
InfeasibleOnFirstVisit ==
    verdict = "infeasible" =>
        \A r \in RunsAsked : \A i, j \in DOMAIN r.trace :
            Answers(query, r, i, j) =>
                \/ \E k \in 1 .. i - 1 : r.trace[k].id = query.points[1]
                \/ \E k \in i .. j - 1 : i # j /\ r.trace[k].id = Last(query.points)

\* program_graph/README.md:45 promises that loops are an explicit unknown, never
\* the absence of a path: what is called infeasible is answered by no run.
InfeasibleIsFinal ==
    verdict = "infeasible" =>
        \A r \in RunsAsked : \A i, j \in DOMAIN r.trace : ~Answers(query, r, i, j)
===============================================================================
