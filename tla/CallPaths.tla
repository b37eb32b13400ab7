------------------------------ MODULE CallPaths ------------------------------
(***************************************************************************)
(* The bounded search for call paths from one source to a set of targets   *)
(* (security_analysis/path_finder.py, find_variants): a queue of paths     *)
(* without repeated nodes, pruned to what can reach a target, with limits  *)
(* on depth, on states and on the paths kept per target.  Whether a limit  *)
(* was hit is written on the paths returned, and so on nothing for a       *)
(* target without a path.                                                  *)
(*                                                                         *)
(* Abstraction: an edge is <<caller, callee, number>>; the numbers give    *)
(* the order of the sorted adjacency lists.                                *)
(***************************************************************************)
EXTENDS Integers, Sequences, FiniteSets

CONSTANTS
    Routines,       \* the routines, numbers
    CallGraphs,     \* the sets of edges searched
    TargetSets,
    Source,
    MaxDepth, MaxVariants, MaxStates

ASSUME PathAssumption ==
    /\ Routines \subseteq Nat /\ Source \in Routines
    /\ TargetSets \subseteq SUBSET Routines
    /\ CallGraphs \subseteq SUBSET (Routines \X Routines \X Nat)
    /\ \A g \in CallGraphs : IsFiniteSet(g)
    /\ {MaxDepth, MaxVariants, MaxStates} \subseteq Nat \ {0}

VARIABLES
    calls,          \* the call graph
    targets,
    queue,          \* paths: sequences of edges from the source
    explored,
    truncated,      \* whether some limit was hit: known to the search alone
    found           \* for every target the paths kept, in order

pathVars == <<calls, targets, queue, explored, truncated, found>>

-------------------------------------------------------------------------------
End(path) == IF path = <<>> THEN Source ELSE path[Len(path)][2]

Visited(path) == {Source} \union {path[i][2] : i \in DOMAIN path}

\* relevant: the routines from which calls lead to a target.
Relevant ==
    {r \in Routines : \A back \in SUBSET Routines :
        /\ targets \subseteq back
        /\ \A e \in calls : e[2] \in back => e[1] \in back
        => r \in back}

\* The calls a path is extended by, before the limit on states: to routines that
\* matter and that the path has not been through.
NewCalls(path) ==
    {e \in calls : e[1] = End(path) /\ e[2] \in Relevant \ Visited(path)}

\* adjacency: sorted by callee, then by edge.
SortedBefore(e, f) == e[2] < f[2] \/ (e[2] = f[2] /\ e[3] < f[3])

Extensions(path) ==
    [n \in 1..Cardinality(NewCalls(path)) |->
        CHOOSE e \in NewCalls(path) : Cardinality({f \in NewCalls(path) : SortedBefore(f, e)}) = n - 1]

Repeats(path) == \E e \in calls : e[1] = End(path) /\ e[2] \in Relevant \intersect Visited(path)

Deepest(path) == Len(path) >= MaxDepth

\* The calls that still fit: the queue and what was explored stay below
\* MaxStates; the path itself is counted as explored.
Room == MaxStates - (Len(queue) - 1) - (explored + 1)

Taken(path) ==
    IF Deepest(path) THEN <<>>
    ELSE SubSeq(Extensions(path), 1, IF Room < Len(Extensions(path)) THEN Room ELSE Len(Extensions(path)))

Reported(path) == End(path) \in targets

Full(path) == Len(found[End(path)]) >= MaxVariants

\* slip: the search may stop at the depth limit unmarked.
CutSilently(path) ==
    \/ Reported(path) /\ Full(path)
    \/ ~Deepest(path) /\ (Repeats(path) \/ Len(Taken(path)) < Len(Extensions(path)))

\* What marks the search as cut.  The loop that runs into the limit on
\* states stops: a repeat behind the first call that does not fit adds nothing.
Cut(path) ==
    \/ Reported(path) /\ Full(path)
    \/ Deepest(path) /\ \E e \in calls : e[1] = End(path) /\ e[2] \in Relevant
    \/ ~Deepest(path) /\ (Repeats(path) \/ Len(Taken(path)) < Len(Extensions(path)))

-------------------------------------------------------------------------------
PathInit ==
    /\ calls \in CallGraphs
    /\ targets \in TargetSets
    /\ queue = IF Source \in Relevant THEN <<(<<>>)>> ELSE <<>>
    /\ explored = 0
    /\ truncated = FALSE
    /\ found = [t \in targets |-> <<>>]

\* One turn of the loop.
Explore ==
    LET path == Head(queue)
    IN  /\ queue # <<>> /\ explored < MaxStates
        /\ explored' = explored + 1
        /\ queue' = Tail(queue) \o [i \in DOMAIN Taken(path) |-> Append(path, Taken(path)[i])]
        /\ truncated' = (truncated \/ Cut(path))
        /\ found' = IF Reported(path) /\ ~Full(path)
                    THEN [found EXCEPT ![End(path)] = Append(@, path)] ELSE found
        /\ UNCHANGED <<calls, targets>>

PathSpec == PathInit /\ [][Explore]_pathVars

\* The test of the limit at the head of the loop never ends it: nothing is
\* queued that could not be explored (PathTypeOK).
Searched == queue = <<>>

\* What is returned: for every target that has paths these, each with the mark.
Results ==
    [t \in {u \in targets : found[u] # <<>>} |->
        [i \in DOMAIN found[t] |-> [edges |-> found[t][i], truncated |-> truncated]]]

-------------------------------------------------------------------------------
(***************************************************************************)
(* Properties.                                                             *)
(***************************************************************************)
\* Chains of at most n calls from the source, repeated routines included.
Chains(n) ==
    {path \in UNION {[1..k -> calls] : k \in 0..n} :
        \A i \in DOMAIN path : path[i][1] = IF i = 1 THEN Source ELSE path[i - 1][2]}

PathTypeOK ==
    /\ explored + Len(queue) \in 0..MaxStates /\ truncated \in BOOLEAN
    /\ \A i \in DOMAIN queue : queue[i] \in Chains(MaxDepth)
    /\ \A t \in targets : Len(found[t]) <= MaxVariants

\* One path returned without the mark vouches for the whole answer: it holds every
\* chain of calls from the source to any target, of whatever length, each once.
UnmarkedIsComplete ==
    Searched => \A t \in DOMAIN Results : \A i \in DOMAIN Results[t] :
        ~Results[t][i].truncated =>
            \A path \in Chains(MaxDepth + 1) : End(path) \in targets =>
                /\ End(path) \in DOMAIN Results
                /\ Cardinality({j \in DOMAIN Results[End(path)] :
                                  Results[End(path)][j].edges = path}) = 1

\* A target that is not in the answer carries no mark; what its absence means is
\* that no chain within the depth leads to it, or that all the states were used up.
AbsentIsFar ==
    Searched => \A t \in targets \ DOMAIN Results :
        explored = MaxStates \/ \A path \in Chains(MaxDepth) : End(path) # t

\* The first path reported for a target, the one find() returns and caches, is a
\* shortest one, whatever limits were hit.
FirstIsShortest ==
    \A t \in DOMAIN Results :
        \A path \in Chains(MaxDepth) : End(path) = t => Len(Results[t][1].edges) <= Len(path)

\* The search keeps its limits, and its answer says no more than it knows.
CallsSearchedHonestly == PathTypeOK /\ UnmarkedIsComplete /\ AbsentIsFar /\ FirstIsShortest

\* What the code says of itself, and does not do: "深度/状态/数量上限均明确标记"
\* (path_finder.py:80), a path that a limit cost is marked in the answer.
LimitsAreMarked ==
    Searched => \A path \in Chains(MaxDepth + 1) : End(path) \in targets =>
        \/ \E i \in DOMAIN found[End(path)] : found[End(path)][i] = path
        \/ \E t \in DOMAIN Results : \E i \in DOMAIN Results[t] : Results[t][i].truncated
===============================================================================
