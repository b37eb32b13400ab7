------------------------------ MODULE FlowRoutes ------------------------------
(***************************************************************************)
(* The search for flows from one source through calls, returns and value   *)
(* boundaries to sinks (security_analysis/flow_analysis/program_graph.py,  *)
(* _interprocedural_flows) and the choice of what is reported              *)
(* (flow_analysis/variants.py).                                            *)
(*                                                                         *)
(* Abstraction: a point is a place of a value in a function: a node and    *)
(* the names that hold the value there.  What ValuePaths finds between two *)
(* points is data here: a path is [no, from, to, steps, sure], where steps *)
(* stands for the assignments the path shows in a report (two paths may    *)
(* show the same), and cuts are the pairs of points whose search was cut.  *)
(* A call is [no, site, arg, param, result, sure, slot]: result is NoPoint *)
(* when nothing receives what is returned, slot says that the index knows  *)
(* the place of the result for sure.  A boundary is [no, from, to,         *)
(* resume]; resume is the call site it comes back to, or NoSite.           *)
(***************************************************************************)
EXTENDS Integers, Sequences, FiniteSets, SequencesExt

CONSTANTS
    Programs,       \* [in, paths, cuts, calls, returns, boundaries, source, sinks]
    NoPoint, NoSite,
    CallDepth,      \* max_call_depth
    FlowVariants,   \* max_path_variants
    FlowStates      \* max_search_states

\* A path stays in its function; a call's result is received where it was called,
\* and a boundary that resumes a call site leads there.  Calls and boundaries are
\* known by their numbers.
ASSUME FlowRoutesAssumption ==
    /\ {CallDepth, FlowVariants, FlowStates} \subseteq Nat \ {0}
    /\ \A p \in Programs :
        /\ IsFiniteSet(p.paths) /\ IsFiniteSet(p.calls)
        /\ IsFiniteSet(p.returns) /\ IsFiniteSet(p.boundaries)
        /\ \A path \in p.paths : p.in[path.from] = p.in[path.to]
        /\ \A c \in p.calls : c.result # NoPoint => p.in[c.result] = p.in[c.arg]
        /\ \A c \in p.calls : \A b \in p.boundaries : b.resume = c.site => p.in[b.to] = p.in[c.arg]
        /\ \A c, d \in p.calls : c.no = d.no => c = d
        /\ \A b, d \in p.boundaries : b.no = d.no => b = d

VARIABLES
    program,
    states,         \* the queue of [at, hops, stack, depth, sure]
    visited,        \* the keys of the states visited
    flows,          \* what reached a sink: [sink, hops, last, sure, cut]
    sourceLimit,    \* states were thrown away (source_limits)
    sinkLimits,     \* sinks at which flows were no longer counted (variant_limits)
    delivered       \* what is reported: flows with their final mark, or none yet

routeVars == <<program, states, visited, flows, sourceLimit, sinkLimits, delivered>>

-------------------------------------------------------------------------------
Of(p) == program.in[p]

\* What the search for a value's routes between two points returns.
Local(from, to) == {path \in program.paths : path.from = from /\ path.to = to}

\* A state one hop further: along a path, then over a call, a return, a boundary.
Hopped(s, path, kind, over, at, stack, depth, sure) ==
    [at |-> at, hops |-> Append(s.hops, [path |-> path, kind |-> kind, over |-> over]),
     stack |-> stack, depth |-> depth, sure |-> s.sure /\ path.sure /\ sure]

\* The stack without the call returned from, if there is one.
Popped(s) == IF s.stack = <<>> THEN <<>> ELSE Front(s.stack)

CallStates(s) ==
    UNION {{Hopped(s, path, "call", c, c.param, Append(s.stack, c), s.depth + 1, c.sure) :
                path \in Local(s.at, c.arg)} : c \in program.calls}

\* slip: a function that was entered may return to any call of it.
ReturnsToAny(s) ==
    {c \in program.calls :
        /\ c.result # NoPoint
        /\ Of(c.param) = Of(s.at) /\ (s.stack = <<>> => s.depth < CallDepth)}

\* Where a function may return to: the call it was entered by; any call of it,
\* when the value arose in it.
ReturnsTo(s) ==
    {c \in program.calls :
        /\ c.result # NoPoint
        /\ IF s.stack # <<>> THEN c = Last(s.stack)
           ELSE s.depth < CallDepth /\ Of(c.param) = Of(s.at)}

ReturnStates(s) ==
    LET Surely(c, r) == r.sure /\ c.slot /\ (c.sure \/ s.stack # <<>>)
        Deeper == IF s.stack = <<>> THEN 1 ELSE 0
    IN  UNION {{Hopped(s, path, "return", c, c.result, Popped(s), s.depth + Deeper, Surely(c, r)) :
                    path \in Local(s.at, r.at)} : c \in ReturnsTo(s), r \in program.returns}

\* A boundary that resumes a call site takes up the call the function was entered
\* by; one that does not forgets how it got there.
BoundaryStates(s, returning) ==
    LET Takes(b) ==
            /\ (b.resume # NoSite) = returning
            /\ returning => IF s.stack = <<>> THEN s.depth < CallDepth ELSE Last(s.stack).site = b.resume
        Deeper == IF returning /\ s.stack # <<>> THEN 0 ELSE 1
    IN  UNION {{Hopped(s, path, "boundary", b, b.to, IF returning THEN Popped(s) ELSE <<>>, s.depth + Deeper, FALSE) :
                    path \in Local(s.at, b.from)} : b \in {x \in program.boundaries : Takes(x)}}

\* The state after a visit; what lies below the depth limit is not entered.  The
\* order within the four groups is not modelled.
Onwards(s) ==
    SetToSeq(ReturnStates(s)) \o SetToSeq(BoundaryStates(s, TRUE))
    \o IF s.depth >= CallDepth THEN <<>>
       ELSE SetToSeq(BoundaryStates(s, FALSE)) \o SetToSeq(CallStates(s))

\* What makes two states the same: what their reports would show.
Shown(hops) == [i \in DOMAIN hops |-> <<hops[i].path.steps, hops[i].path.to, hops[i].kind, hops[i].over.no>>]

Key(s) == <<s.at, Shown(s.hops), [i \in DOMAIN s.stack |-> s.stack[i].site]>>

-------------------------------------------------------------------------------
FlowTo(s, last) ==
    [sink |-> last.to, hops |-> s.hops, last |-> last, sure |-> s.sure /\ last.sure,
     cut |-> \E path \in {last} \union {s.hops[i].path : i \in DOMAIN s.hops} :
                 <<path.from, path.to>> \in program.cuts]

SinksAt(s) == {k \in program.sinks : Of(k) = Of(s.at)}

\* Once a pair has one flow more than is reported, no state adds to it.
Enough(k) == Cardinality({f \in flows : f.sink = k /\ f.hops # <<>>}) > FlowVariants

AtSource(p) == [at |-> p.source, hops |-> <<>>, stack |-> <<>>, depth |-> 0, sure |-> TRUE]

RouteInit ==
    /\ program \in Programs
    /\ states = <<AtSource(program)>>
    /\ visited = {}
    /\ flows = UNION {{FlowTo(AtSource(program), path) : path \in Local(program.source, k)} : k \in SinksAt(AtSource(program))}
    /\ sourceLimit = FALSE /\ sinkLimits = {}
    /\ delivered = {}

\* The number of states that may still be visited; the last ones queued go first.
RoomLeft == FlowStates - Cardinality(visited)

Fitting == SubSeq(states, 1, IF RoomLeft < Len(states) THEN RoomLeft ELSE Len(states))

Exhausted ==
    /\ states # <<>> /\ Fitting = <<>>
    /\ states' = <<>> /\ sourceLimit' = TRUE
    /\ UNCHANGED <<program, visited, flows, sinkLimits, delivered>>

SeenBefore ==
    /\ Fitting # <<>> /\ Key(Head(Fitting)) \in visited
    /\ states' = Tail(Fitting)
    /\ sourceLimit' = (sourceLimit \/ Len(states) > RoomLeft)
    /\ UNCHANGED <<program, visited, flows, sinkLimits, delivered>>

VisitState ==
    LET s == Head(Fitting)
        here == IF s.hops = <<>> THEN {} ELSE SinksAt(s)
    IN  /\ Fitting # <<>> /\ Key(s) \notin visited
        /\ visited' = visited \union {Key(s)}
        /\ sourceLimit' = (sourceLimit \/ Len(states) > RoomLeft)
        /\ sinkLimits' = sinkLimits \union {k \in here : Enough(k)}
        /\ flows' = flows \union UNION {{FlowTo(s, path) : path \in Local(s.at, k)} : k \in {x \in here : ~Enough(x)}}
        /\ states' = Tail(Fitting) \o Onwards(s)
        /\ UNCHANGED <<program, delivered>>

\* For every sink at most FlowVariants flows.  The order they are chosen in
\* (condition status, length, hash) is not modelled.
Retain ==
    LET To(k) == {f \in flows : f.sink = k}
        Beyond(k) == Cardinality(To(k)) > FlowVariants \/ k \in sinkLimits
        Marked(f) == [flow |-> f, truncated |-> f.cut \/ Beyond(f.sink) \/ sourceLimit]
    IN  /\ states = <<>> /\ delivered = {} /\ flows # {}
        /\ \E chosen \in SUBSET flows :
              /\ \A k \in program.sinks :
                    Cardinality(chosen \intersect To(k)) =
                        IF Cardinality(To(k)) > FlowVariants THEN FlowVariants ELSE Cardinality(To(k))
              /\ delivered' = {Marked(f) : f \in chosen}
        /\ UNCHANGED <<program, states, visited, flows, sourceLimit, sinkLimits>>

RouteNext == Exhausted \/ SeenBefore \/ VisitState \/ Retain

RouteSpec == RouteInit /\ [][RouteNext]_routeVars

-------------------------------------------------------------------------------
(***************************************************************************)
(* Properties.                                                             *)
(***************************************************************************)
Landing(h) == CASE h.kind = "call" -> h.over.param
                [] h.kind = "return" -> h.over.result
                [] OTHER -> h.over.to

\* A hop that leaves the function it is in for the one that called it.
Closing(h) == h.kind = "return" \/ (h.kind = "boundary" /\ h.over.resume # NoSite)

Count(hops, i, j, Is(_)) == Cardinality({k \in i..j : Is(hops[k])})

\* The call that hop j closes: the last one before it with as many calls as
\* closings in between and no boundary that forgets.
Partners(hops, j) ==
    {i \in 1..j - 1 :
        /\ hops[i].kind = "call"
        /\ Count(hops, i + 1, j - 1, LAMBDA h : h.kind = "call") = Count(hops, i + 1, j - 1, Closing)
        /\ \A k \in i..j - 1 : hops[k].kind # "boundary" \/ Closing(hops[k])}

Partner(hops, j) == CHOOSE i \in Partners(hops, j) : \A k \in Partners(hops, j) : k <= i

\* The hops a program allows, and what a route made of them has to observe: it
\* hangs together, comes back only to where it was called from, and goes through
\* at most CallDepth hops that lead to a further function.
HopsOf(p) ==
    (UNION {{[path |-> path, kind |-> "call", over |-> c] : path \in {x \in p.paths : x.to = c.arg}} : c \in p.calls})
    \union (UNION {{[path |-> path, kind |-> "return", over |-> c] :
                path \in {x \in p.paths : /\ x.to \in {r.at : r \in p.returns}
                                          /\ p.in[x.to] = p.in[c.param]}} :
            c \in {x \in p.calls : x.result # NoPoint}})
    \union (UNION {{[path |-> path, kind |-> "boundary", over |-> b] : path \in {x \in p.paths : x.to = b.from}} :
            b \in p.boundaries})

Connected(p, hops) ==
    \A i \in DOMAIN hops : hops[i].path.from = IF i = 1 THEN p.source ELSE Landing(hops[i - 1])

Matched(hops) ==
    \A j \in DOMAIN hops : Closing(hops[j]) /\ Partners(hops, j) # {} =>
        LET c == hops[Partner(hops, j)].over
        IN  IF hops[j].kind = "return" THEN hops[j].over = c ELSE hops[j].over.resume = c.site

Deepening(hops) == {j \in DOMAIN hops : ~(Closing(hops[j]) /\ Partners(hops, j) # {})}

IsRoute(p, hops) == Connected(p, hops) /\ Matched(hops) /\ Cardinality(Deepening(hops)) <= CallDepth

RoutesIn(p) ==
    LET routesOf[n \in Nat] ==
            IF n = 0 THEN {<<>>}
            ELSE {r \in {Append(x[1], x[2]) : x \in routesOf[n - 1] \X HopsOf(p)} : IsRoute(p, r)}
    IN  UNION {routesOf[n] : n \in 0..2 * CallDepth}

Surely(f) == f.last.sure /\ \A i \in DOMAIN f.hops : f.hops[i].path.sure /\ f.hops[i].kind # "boundary"

\* Every flow, whatever limit was hit, is a route of the program that ends at its
\* sink, and one that is given as certain takes no uncertain step.
FlowsAreReal ==
    /\ Cardinality(visited) <= FlowStates
    /\ \A f \in flows :
        /\ \A i \in DOMAIN f.hops : f.hops[i] \in HopsOf(program)
        /\ IsRoute(program, f.hops)
        /\ f.last \in Local(IF f.hops = <<>> THEN program.source ELSE Landing(Last(f.hops)), f.sink)
        /\ f.sure => Surely(f) /\ \A i \in DOMAIN f.hops : f.hops[i].kind = "call" => f.hops[i].over.sure

\* What is not reported is announced: when a route to a sink is missing, every
\* flow reported for that sink carries the mark, and the search knows why.
MissingIsMarked ==
    states = <<>> /\ (flows = {} \/ delivered # {}) =>
        \A hops \in RoutesIn(program) : \A last \in program.paths :
            /\ last.from = (IF hops = <<>> THEN program.source ELSE Landing(Last(hops)))
            /\ last.to \in program.sinks
            /\ \A d \in delivered : ~(d.flow.last = last /\ Shown(d.flow.hops) = Shown(hops))
            =>
            /\ sourceLimit \/ last.to \in sinkLimits \/ Cardinality({f \in flows : f.sink = last.to}) > FlowVariants
            /\ \A d \in delivered : d.flow.sink = last.to => d.truncated
===============================================================================
