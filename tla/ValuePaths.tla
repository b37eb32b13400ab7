------------------------------ MODULE ValuePaths ------------------------------
(***************************************************************************)
(* The bounded search for the routes of a value inside one function        *)
(* (program_graph/value_paths.py): from the values defined at one node to  *)
(* a node that uses one of some names, over the value-flow edges.  Routes  *)
(* that meet in a node stay different routes; a route does not come back   *)
(* to a value it has held.                                                 *)
(*                                                                         *)
(* Abstraction: a value is <<node, name>>, a name standing for the         *)
(* identity the code gives it; an edge is                                  *)
(* [no, from, to, reads]: the value at its start, the value at its end,    *)
(* and the name it is read under at the node of the end.  The numbers give *)
(* the order of the sorted adjacency lists.                                *)
(***************************************************************************)
EXTENDS Integers, Sequences, FiniteSets, SequencesExt

CONSTANTS
    ValueQueries    \* [edges, reached, start, names, use, wanted, reads_input, limit, states, probe]

\* Values are pairs, and the numbers tell the edges apart.
ASSUME ValueAssumption ==
    \A q \in ValueQueries :
        /\ IsFiniteSet(q.edges) /\ IsFiniteSet(q.names)
        /\ \A e \in q.edges : e.no \in Nat /\ e.from = <<e.from[1], e.from[2]>>
        /\ \A e, f \in q.edges : e.no = f.no => e = f
        /\ {q.limit, q.states} \subseteq Nat \ {0}
        /\ {q.probe, q.reads_input} \subseteq BOOLEAN

VARIABLES
    ask,            \* the query
    waiting,        \* routes to be extended: [value, route, held]
    current,        \* the one being extended, <<>> between two of them
    left,           \* its edges not looked at
    routes,         \* the routes found, in order
    looked,         \* explored_states
    cut             \* truncated

valueVars == <<ask, waiting, current, left, routes, looked, cut>>

-------------------------------------------------------------------------------
\* The nodes from which edges lead to the node of the use.
Toward ==
    {n \in ask.reached \union {e.from[1] : e \in ask.edges} : \A back \in SUBSET {e.from[1] : e \in ask.edges} :
        (\A e \in ask.edges : e.to[1] \in back \union {ask.use} => e.from[1] \in back) => n \in back}
    \union {ask.use}

\* What an edge delivers where it ends.
Delivered(e) == IF ask.reads_input THEN e.reads ELSE e.to[2]

\* The edges a route is extended by: they carry the value, lead towards the use,
\* and at the use deliver a name that is asked for.
Carriers(value) ==
    {e \in ask.edges : /\ e.from = value /\ e.to[1] \in Toward
                       /\ e.to[1] = ask.use => Delivered(e) \in ask.wanted}

\* In the order of the sorted adjacency list.
Carrying(value) ==
    [n \in 1..Cardinality(Carriers(value)) |->
        CHOOSE e \in Carriers(value) : Cardinality({f \in Carriers(value) : f.no < e.no}) = n - 1]

Starts == {<<ask.start, name>> : name \in ask.names}

\* The use is where the value starts.
Direct == ask.start = ask.use /\ ask.names \intersect ask.wanted # {}

\* Both ends lie in code that can be reached.
Live(q) == {q.start, q.use} \subseteq q.reached

-------------------------------------------------------------------------------
ValueInit ==
    /\ ask \in ValueQueries
    /\ waiting = IF Live(ask) /\ (Direct => ask.probe)
                 THEN [i \in 1..Cardinality(Starts) |->
                          LET v == SetToSeq(Starts)[i] IN [value |-> v, route |-> <<>>, held |-> {v}]]
                 ELSE <<>>
    /\ routes = IF Live(ask) /\ Direct THEN <<(<<>>)>> ELSE <<>>
    /\ current = <<>> /\ left = <<>> /\ looked = 0 /\ cut = FALSE

\* The search returns at once with the mark.
Give(mark) ==
    /\ waiting' = <<>> /\ current' = <<>> /\ left' = <<>> /\ cut' = mark

TakeNext ==
    /\ left = <<>> /\ waiting # <<>> /\ looked < ask.states
    /\ current' = Head(waiting) /\ waiting' = Tail(waiting)
    /\ left' = Carrying(Head(waiting).value)
    /\ looked' = looked + 1
    /\ UNCHANGED <<ask, routes, cut>>

OutOfStates ==
    /\ left = <<>> /\ waiting # <<>> /\ looked = ask.states
    /\ Give(TRUE)
    /\ UNCHANGED <<ask, routes, looked>>

Follow ==
    LET e == Head(left)
        longer == Append(current.route, e)
    IN  /\ left # <<>>
        /\ UNCHANGED <<ask, looked>>
        /\ \/ /\ e.to \in current.held
              /\ cut' = TRUE /\ left' = Tail(left)
              /\ UNCHANGED <<waiting, current, routes>>
           \/ /\ e.to \notin current.held /\ e.to[1] = ask.use
              /\ IF Len(routes) >= ask.limit THEN Give(TRUE) /\ UNCHANGED routes
                 ELSE /\ routes' = Append(routes, longer)
                      /\ IF ~ask.probe /\ Len(routes) + 1 >= ask.limit THEN Give(waiting # <<>>)
                         ELSE left' = Tail(left) /\ UNCHANGED <<waiting, current, cut>>
           \/ /\ e.to \notin current.held /\ e.to[1] # ask.use
              /\ UNCHANGED routes
              /\ IF Len(waiting) + 1 + looked > ask.states THEN Give(TRUE)
                 ELSE /\ waiting' = Append(waiting, [value |-> e.to, route |-> longer,
                                                     held |-> current.held \union {e.to}])
                      /\ left' = Tail(left)
                      /\ UNCHANGED <<current, cut>>

ValueNext == TakeNext \/ OutOfStates \/ Follow

ValueSpec == ValueInit /\ [][ValueNext]_valueVars

ValueDone == left = <<>> /\ waiting = <<>>

-------------------------------------------------------------------------------
(***************************************************************************)
(* Properties.                                                             *)
(***************************************************************************)
\* The routes of a value, over sequences of edges: they begin with a value asked
\* for, hang together, hold no value twice, and meet the use at their end only.
RoutesOf(q) ==
    {r \in UNION {[1..k -> q.edges] : k \in 1..Cardinality(q.edges)} :
        /\ r[1].from[1] = q.start /\ r[1].from[2] \in q.names
        /\ \A i \in 2..Len(r) : r[i].from = r[i - 1].to
        /\ \A i, j \in DOMAIN r : r[i].to # r[1].from /\ (i # j => r[i].to # r[j].to)
        /\ \A i \in DOMAIN r : r[i].to[1] = q.use <=> i = Len(r)
        /\ (IF q.reads_input THEN r[Len(r)].reads ELSE r[Len(r)].to[2]) \in q.wanted}

Found == {routes[i] : i \in DOMAIN routes}

\* Whatever limit was hit, each route kept is a route of the value, kept once,
\* and no more are kept than asked for.
ValueRoutesAreReal ==
    /\ looked <= ask.states /\ Len(routes) <= ask.limit
    /\ Cardinality(Found) = Len(routes)
    /\ Found \subseteq RoutesOf(ask) \union IF Direct THEN {<<>>} ELSE {}

\* A search without the mark has found every route.  The search for one route
\* says none only where there is none.
UnmarkedHasAllRoutes ==
    ValueDone /\ ~cut /\ Live(ask) =>
        IF ask.probe THEN RoutesOf(ask) \subseteq Found
        ELSE routes = <<>> => RoutesOf(ask) = {}
===============================================================================
