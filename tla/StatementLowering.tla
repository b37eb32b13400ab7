-------------------------- MODULE StatementLowering --------------------------
(***************************************************************************)
(* How the language frontends reduce the statements of a function to the   *)
(* few kinds of ControlFlow (program_graph/frontends): what is taken       *)
(* apart, what becomes one operation, and which approximations are noted   *)
(* as limitations of the function.                                         *)
(*                                                                         *)
(* A source statement is [id, is, body, else, clauses, handlers, final,    *)
(* calls]; clauses are elif branches [id, body, calls] and handlers        *)
(* [id, names, all, body].  Conditions are not evaluated.  Without Python's *)
(* else of a try, which its grammar does not mark.                         *)
(***************************************************************************)
EXTENDS ControlFlow, TLC

CONSTANTS
    SourceFunctions,    \* [lang, statements]
    RunLength           \* the longest runs that are compared

VARIABLES source, lowering

lowerVars == <<source, lowering>>

Languages == {"java", "js", "python", "go", "c", "rust"}

\* What the frontends make: statements of ControlFlow and whether a limitation
\* beyond the one every function has was noted.
Lowering(statements, limited) == [statements |-> statements, limited |-> limited]
Empty == Lowering(<<>>, FALSE)
Concat(a, b) == Lowering(a.statements \o b.statements, a.limited \/ b.limited)

Control(id, kind, calls) ==
    [id |-> id, kind |-> kind, body |-> <<>>, alternative |-> <<>>, handlers |-> <<>>,
     finalizer |-> <<>>, catchAll |-> FALSE, calls |-> calls]

LeafStatement(s, kind) == Lowering(<<Control(s.id, kind, s.calls)>>, FALSE)

\* The calls found when a whole statement is searched, and those of a condition: the
\* loop over a collection in JavaScript shows its variable instead, Rust's loop all of it.
RECURSIVE CallsIn(_)
Parts(s) == s.body \o s.else \o s.final \o FlattenSeq([i \in DOMAIN s.clauses |-> s.clauses[i].body]) \o FlattenSeq([i \in DOMAIN s.handlers |-> s.handlers[i].body])
CallsIn(s) == s.calls \/ \E i \in DOMAIN Parts(s) : CallsIn(Parts(s)[i])
ConditionCalls(lang, s) ==
    CASE s.is = "forever" -> CallsIn(s)
      [] lang = "js" /\ s.is = "each" -> FALSE
      [] OTHER -> s.calls
Whole(s) == [s EXCEPT !.calls = CallsIn(s)]

-------------------------------------------------------------------------------
(***************************************************************************)
(* The tables of the languages.                                            *)
(***************************************************************************)
\* Java opens a block only as the body of something.
Blocks(lang) == IF lang = "java" THEN {} ELSE {"block"}

JavaLoops == {"while", "for", "each", "do"}
LoopsOf(lang) ==
    CASE lang = "java" -> JavaLoops
      [] lang = "python" -> {"while", "each"}
      [] lang = "js" -> {"while", "for", "each", "do"}
      [] lang = "go" -> {"for", "each"}
      [] lang = "c" -> {"while", "for", "do"}
      [] lang = "rust" -> {"while", "each", "forever"}

\* Loops whose statement is called for in the grammar, and those that test at the end.
JavaApproximated == {"for", "do"}
Approximated(lang) ==
    IF lang = "java" THEN JavaApproximated
    ELSE {"for", "do"} \union (IF lang \in {"python", "go", "rust"} THEN {"each"} ELSE {})

\* Statements with a header that is an operation before the body.
PythonHeaders == {"with"}
JavaHeaders == {"sync", "labeled"}
HeadersOf(lang) == CASE lang = "python" -> PythonHeaders [] lang = "java" -> JavaHeaders [] OTHER -> {}

\* A switch becomes one operation; that of Go has a name the table does not know.
JavaSwitches == {"switch"}
Switches(lang) == IF lang = "java" THEN JavaSwitches ELSE IF lang = "go" THEN {} ELSE {"switch"}

CatchesAll(lang, h) == lang = "js" \/ (lang = "python" /\ h.all)

-------------------------------------------------------------------------------
(***************************************************************************)
(* _lower_statement and _lower_body.                                       *)
(***************************************************************************)
RECURSIVE LowerStatement(_, _)
LowerBody(lang, statements) == FoldLeft(LAMBDA low, s : Concat(low, LowerStatement(lang, s)), Empty, statements)

\* A handler starts with the definition of its name, if it has one.
NameOf(h) == IF h.names THEN Lowering(<<Control(h.id, "step", FALSE)>>, FALSE) ELSE Empty
LowerHandler(lang, h) == Concat(NameOf(h), LowerBody(lang, h.body))
LowerCatch(h) == Concat(NameOf(h), LowerBody("java", h.body))

\* Python: clauses that follow become nested alternatives, the last one innermost.
RECURSIVE Folded(_, _)
Folded(clauses, else) ==
    IF clauses = <<>> THEN else
    ELSE LET c == Head(clauses)
             body == LowerBody("python", c.body)
             rest == Folded(Tail(clauses), else)
         IN  Lowering(<<[Control(c.id, "if", c.calls) EXCEPT !.body = body.statements, !.alternative = rest.statements]>>,
                      body.limited \/ rest.limited)

LowerAlternative(lang, s) == LowerBody(lang, s.else)
PythonAlternative(s) == Folded(s.clauses, LowerBody("python", s.else))

Nested(s, kind, calls, body, else, limited) ==
    Lowering(<<[Control(s.id, kind, calls) EXCEPT !.body = body.statements, !.alternative = else.statements]>>,
             limited \/ body.limited \/ else.limited)

LowerTry(s, body, handlers, final, all) ==
    Lowering(<<[Control(s.id, "try", FALSE) EXCEPT
                    !.body = body.statements, !.finalizer = final.statements, !.catchAll = all,
                    !.handlers = [i \in DOMAIN handlers |-> handlers[i].statements]]>>,
             body.limited \/ final.limited \/ \E i \in DOMAIN handlers : handlers[i].limited)

LowerCommon(lang, s) ==
    CASE s.is \in Blocks(lang) -> LowerBody(lang, s.body)
      [] s.is = "if" -> Nested(s, "if", s.calls, LowerBody(lang, s.body),
                               IF lang = "python" THEN PythonAlternative(s) ELSE LowerAlternative(lang, s), FALSE)
      [] s.is \in LoopsOf(lang) -> Nested(s, "loop", ConditionCalls(lang, s), LowerBody(lang, s.body), LowerAlternative(lang, s), s.is \in Approximated(lang))
      [] s.is = "try" -> LowerTry(s, LowerBody(lang, s.body), [i \in DOMAIN s.handlers |-> LowerHandler(lang, s.handlers[i])],
                                  LowerBody(lang, s.final), \E i \in DOMAIN s.handlers : CatchesAll(lang, s.handlers[i]))
      [] s.is \in Leaving -> LeafStatement(s, s.is)
      [] OTHER -> Lowering(LeafStatement(Whole(s), "step").statements, s.is \in Switches(lang))

\* Java: an else that is an if is nested by its own statement; no loop has an else.
LowerJava(s) ==
    CASE s.is = "if" -> Nested(s, "if", s.calls, LowerBody("java", s.body), LowerBody("java", s.else), FALSE)
      [] s.is \in JavaLoops -> Nested(s, "loop", s.calls, LowerBody("java", s.body), Empty, s.is \in JavaApproximated)
      [] s.is = "try" -> LowerTry(s, LowerBody("java", s.body), [i \in DOMAIN s.handlers |-> LowerCatch(s.handlers[i])],
                                  LowerBody("java", s.final), FALSE)
      [] s.is \in JavaHeaders -> Concat(LeafStatement(Whole(s), "step"), LowerBody("java", s.body))
      [] s.is \in Leaving -> LeafStatement(s, s.is)
      [] OTHER -> Lowering(LeafStatement(Whole(s), "step").statements, s.is \in JavaSwitches)

LowerPython(s) ==
    IF s.is \in PythonHeaders THEN Concat(LeafStatement(s, "step"), LowerBody("python", s.body)) ELSE LowerCommon("python", s)

LowerStatement(lang, s) ==
    CASE lang = "java" -> LowerJava(s)
      [] lang = "python" -> LowerPython(s)
      [] OTHER -> LowerCommon(lang, s)

LowerInit == source \in SourceFunctions /\ lowering = <<>>

\* _append_function, then the graph of what was lowered.
GraphOfLowering(limited, graph) ==
    [limited |-> limited, edges |-> graph.edges,
     tries |-> {n \in DOMAIN graph.statements : graph.statements[n].kind = "try"}]
GraphOfBody(low) == GraphOfLowering(low.limited, Graph(low.statements))
LowerFunction ==
    /\ lowering = <<>>
    /\ lowering' = GraphOfBody(LowerBody(source.lang, source.statements))
    /\ UNCHANGED source

LowerNext == LowerFunction
LowerSpec == LowerInit /\ [][LowerNext]_lowerVars

-------------------------------------------------------------------------------
(***************************************************************************)
(* The runs of the source: the statements in order, and how the run ended. *)
(* A call throws where a try can see it.                                   *)
(***************************************************************************)
SourceRun(trace, end) == [trace |-> trace, end |-> end]

Short(runs) == {r \in runs : Len(r.trace) <= RunLength}

\* The runs that end so go on.
GoOn(runs, end, next) ==
    {r \in runs : r.end # end}
    \union Short({SourceRun(r.trace \o m.trace, m.end) : r \in {r \in runs : r.end = end}, m \in next})
EndAs(runs, from, to) == {IF r.end = from THEN [r EXCEPT !.end = to] ELSE r : r \in runs}

Event(id, calls, guarded, end) ==
    {SourceRun(<<id>>, end)} \union (IF calls /\ guarded THEN {SourceRun(<<id>>, "throw")} ELSE {})

RECURSIVE SourceRuns(_, _)
RunsThrough(statements, guarded) ==
    FoldLeft(LAMBDA runs, s : GoOn(runs, "normal", SourceRuns(s, guarded)), {SourceRun(<<>>, "normal")}, statements)

\* The branches of an if: its own, the clauses one after another, the else.
ClausesOf(s) == <<[id |-> s.id, body |-> s.body, calls |-> s.calls]>> \o s.clauses
RunsOfBranches(s, guarded) ==
    FoldRight(LAMBDA c, else : GoOn(Event(c.id, c.calls, guarded, "test"), "test", RunsThrough(c.body, guarded) \union else),
              ClausesOf(s), RunsThrough(s.else, guarded))

\* A loop tests, and tests again after each turn, do in the other order; Rust's loop
\* never ends by itself.
RECURSIVE Turns(_, _, _, _)
Turns(test, turn, done, n) ==
    IF n = 0 THEN {} ELSE GoOn(test, "test", done \union GoOn(turn, "normal", Turns(test, turn, done, n - 1)))
TurnOf(s, guarded) == EndAs(EndAs(RunsThrough(s.body, guarded), "continue", "normal"), "break", "broken")
TurnsOf(s, guarded, turn) ==
    Turns(Event(s.id, s.calls, guarded, "test"), turn,
          IF s.is = "forever" THEN {} ELSE RunsThrough(s.else, guarded), RunLength)
RunsOfLoop(s, guarded, turn) ==
    EndAs(IF s.is = "do" THEN GoOn(turn, "normal", TurnsOf(s, guarded, turn)) ELSE TurnsOf(s, guarded, turn),
          "broken", "normal")

\* What is thrown in the body may be caught by any handler, or goes on; the last
\* block is run whatever happened.
RunsOfHandler(h) == GoOn(IF h.names THEN Event(h.id, FALSE, TRUE, "normal") ELSE {SourceRun(<<>>, "normal")}, "normal", RunsThrough(h.body, TRUE))
Handled(s) ==
    UNION {RunsOfHandler(s.handlers[i]) : i \in DOMAIN s.handlers}
    \union (IF \E i \in DOMAIN s.handlers : source.lang = "js" \/ s.handlers[i].all THEN {} ELSE {SourceRun(<<>>, "throw")})
Cleaned(s, runs, final) ==
    UNION {GoOn({r \in runs : r.end = end}, end, EndAs(final, "normal", end)) : end \in {r.end : r \in runs}}

SourceRuns(s, guarded) ==
    CASE s.is = "block" -> RunsThrough(s.body, guarded)
      [] s.is = "if" -> RunsOfBranches(s, guarded)
      [] s.is \in {"while", "for", "each", "do", "forever"} -> RunsOfLoop(s, guarded, TurnOf(s, guarded))
      [] s.is = "switch" -> EndAs(GoOn(Event(s.id, s.calls, guarded, "test"), "test",
                                       RunsThrough(s.body, guarded) \union {SourceRun(<<>>, "normal")}), "break", "normal")
      [] s.is = "try" -> Cleaned(s, GoOn(RunsThrough(s.body, TRUE), "throw", Handled(s)), RunsThrough(s.final, TRUE))
      [] s.is \in {"with", "sync", "labeled"} -> GoOn(Event(s.id, s.calls, guarded, "normal"), "normal", RunsThrough(s.body, guarded))
      [] s.is \in Leaving -> Event(s.id, s.calls, guarded, s.is)
      [] OTHER -> Event(s.id, s.calls, guarded, "normal")

RunsOfSource == {r \in RunsThrough(source.statements, FALSE) : r.end \in {"normal", "return", "throw"}}

-------------------------------------------------------------------------------
(***************************************************************************)
(* The paths of the graph that keep to the tokens of the finally blocks,   *)
(* with an event for every node of a statement that is not a try.          *)
(***************************************************************************)
Passable(at) == {e \in lowering.edges : e.from = at.node /\ (e.pop = {} \/ (at.tokens # <<>> /\ Last(at.tokens) \in e.pop))}
TokensAfter(tokens, e) == IF e.pop = {} THEN tokens ELSE Front(tokens)
Pushed(tokens, e) == IF e.push = NoToken THEN tokens ELSE Append(tokens, e.push)
EventOf(node) == IF Len(node) = 1 /\ node \notin lowering.tries THEN node ELSE <<>>
EndBy(e) == CASE e.branch = "exception" -> "throw" [] e.branch = "return" -> "return" [] OTHER -> "normal"
PathTo(at, e) == [node |-> e.to, tokens |-> Pushed(TokensAfter(at.tokens, e), e), trace |-> at.trace \o EventOf(e.to)]

RECURSIVE PathsFrom(_)
PathsFrom(at) ==
    UNION {IF e.to = ExitNode THEN {SourceRun(at.trace, EndBy(e))}
           ELSE IF Len(PathTo(at, e).trace) > RunLength THEN {} ELSE PathsFrom(PathTo(at, e)) : e \in Passable(at)}
RunsOfGraph == PathsFrom([node |-> EntryNode, tokens |-> <<>>, trace |-> <<>>])

-------------------------------------------------------------------------------
(***************************************************************************)
(* Properties.                                                             *)
(***************************************************************************)
\* Compound statements that are not in the tables become one operation without a
\* limitation, and the calls of what JavaScript iterates over are not seen.
Table(lang) == {"op", "if", "try"} \union Leaving \union Blocks(lang) \union LoopsOf(lang) \union HeadersOf(lang) \union Switches(lang)
RECURSIVE InTheTables(_)
InTheTables(s) ==
    /\ s.is \in Table(source.lang) /\ ~(source.lang = "js" /\ s.is = "each" /\ s.calls)
    /\ \A i \in DOMAIN Parts(s) : InTheTables(Parts(s)[i])

\* Rust's loop seems to end by itself, a header with a body repeats the calls of the
\* body, and Java is not told of a handler for everything.
RECURSIVE Widened(_)
Widened(s) ==
    \/ s.is \in {"forever", "sync", "labeled"}
    \/ source.lang = "java" /\ \E i \in DOMAIN s.handlers : s.handlers[i].all
    \/ \E i \in DOMAIN Parts(s) : Widened(Parts(s)[i])

\* A function without a limitation (normal_exit_writes_modelled) has in its graph all
\* runs of its statements: through elif chains, nested loops with their else, handlers
\* and finally blocks, in every language; and no others, but for those.
StatementsKeepRuns ==
    lowering # <<>> /\ ~lowering.limited /\ (\A i \in DOMAIN source.statements : InTheTables(source.statements[i])) =>
        /\ RunsOfSource \subseteq RunsOfGraph
        /\ (\E i \in DOMAIN source.statements : Widened(source.statements[i])) \/ RunsOfGraph \subseteq RunsOfSource
===============================================================================
