-------------------------- MODULE CandidateSelection --------------------------
(***************************************************************************)
(* The choice of what a security analysis reports as candidates            *)
(* (security_analysis/service.py and candidate_search.py): first a flow    *)
(* for every pair of a source and a sink that has one, then the other      *)
(* flows, then pairs that are joined by calls only, found window by window *)
(* under limits on queries and time, last the other call routes of those   *)
(* pairs.                                                                  *)
(*                                                                         *)
(* Abstraction: sources and sinks are numbers in the order of the sorted   *)
(* facts; a flow is <<rank, source, sink>>, the rank its place among the   *)
(* flows of the pair; the search for call routes (CallPaths) is data: the  *)
(* number of routes from a function to a function.                         *)
(***************************************************************************)
EXTENDS Integers, Sequences, FiniteSets

CONSTANTS
    Scans,          \* [sources, sinks, inFunction, ofSink, flows, joined]
    MaxCandidates,
    SourceWindow,   \* max_sources
    SinkWindow,     \* max_sinks
    MaxQueries,     \* max_structural_queries
    NoFlow          \* the rank of a candidate that is a call route

\* The facts are numbered, flows are between them, and routes are counted.
ASSUME CandidateAssumption ==
    /\ {MaxCandidates, SourceWindow, SinkWindow, MaxQueries} \subseteq Nat \ {0}
    /\ \A s \in Scans :
        /\ s.sources \in Nat /\ s.sinks \in Nat
        /\ IsFiniteSet(s.flows)
        /\ s.flows \subseteq (Nat \ {NoFlow}) \X (1..s.sources) \X (1..s.sinks)
        /\ \A k \in 1..s.sinks : s.ofSink[k] \in Nat
        /\ \A i \in 1..s.sources, k \in 1..s.sinks : s.joined[<<s.inFunction[i], s.ofSink[k]>>] \in Nat

VARIABLES
    scan,
    stage,          \* "flows", "pairs", "rest" (the other call routes), "done"
    inOrder,        \* flows still to be taken, later: call routes still to be taken
    place,          \* the next source and the first sink of the window: <<sink, source>>
    asked,          \* functions asked for in the present windows
    queries,        \* number of queries
    reason,         \* why the search of call routes ended early
    exhausted,      \* it went through all windows
    candidates,     \* in order: <<rank, source, sink, route>>
    limitReached

candidateVars == <<scan, stage, inOrder, place, asked, queries, reason, exhausted, candidates, limitReached>>

\* Tuples are sorted by their first items, then by the next ones.
Precedes(a, b) == \E i \in DOMAIN a : a[i] < b[i] /\ \A j \in 1..i - 1 : a[j] = b[j]

\* The members of a set in order: the n-th one has n - 1 before it.
Sorted(S, Before(_, _)) ==
    [n \in 1..Cardinality(S) |-> CHOOSE e \in S : Cardinality({f \in S : Before(f, e)}) = n - 1]

-------------------------------------------------------------------------------
\* The order of the flows: all first ones by source and sink, all second ones, ...
\* When the analysis of flows failed there are none.
CandidateInit ==
    /\ scan \in Scans
    /\ stage = "flows"
    /\ inOrder = Sorted(scan.flows, Precedes)
    /\ place = <<1, 1>> /\ asked = {} /\ queries = 0
    /\ reason = "" /\ exhausted = FALSE
    /\ candidates = <<>> /\ limitReached = FALSE

AtLimit == Len(candidates) >= MaxCandidates

\* The limit ends everything: the lists behind it are not looked at.
EndAtLimit ==
    /\ stage' = "done" /\ limitReached' = TRUE /\ reason' = "candidate_budget"
    /\ UNCHANGED <<scan, inOrder, place, asked, queries, exhausted, candidates>>

TakeFlow ==
    /\ stage = "flows" /\ inOrder # <<>>
    /\ IF AtLimit THEN EndAtLimit
       ELSE /\ candidates' = Append(candidates, Append(Head(inOrder), 1))
            /\ inOrder' = Tail(inOrder)
            /\ UNCHANGED <<scan, stage, place, asked, queries, reason, exhausted, limitReached>>

StartPairs ==
    /\ stage = "flows" /\ inOrder = <<>>
    /\ stage' = "pairs"
    /\ UNCHANGED <<scan, inOrder, place, asked, queries, reason, exhausted, candidates, limitReached>>

-------------------------------------------------------------------------------
Window(first, width, last) == {i \in first..last : i < first + width}

Function == scan.inFunction[place[2]]

HasFlow(source, sink) == \E f \in scan.flows : f[2] = source /\ f[3] = sink

RoutesTo(k) == scan.joined[<<Function, scan.ofSink[k]>>]

\* The sinks of the window that calls lead to from the source; pairs with a flow
\* are left out.
SinksJoined == {k \in Window(place[1], SinkWindow, scan.sinks) : RoutesTo(k) > 0 /\ ~HasFlow(place[2], k)}

\* Call routes of one source go by the function of the sink, the sink, and the
\* order they were found in.
BySink(a, b) == Precedes(<<scan.ofSink[a[3]], a[3], a[4]>>, <<scan.ofSink[b[3]], b[3], b[4]>>)

\* The source behind this one; behind the last, the first one of the next window
\* of sinks.  Every window of sources begins with nothing asked.
NextPlace == IF place[2] < scan.sources THEN <<place[1], place[2] + 1>> ELSE <<place[1] + SinkWindow, 1>>

OpensWindow(p) == (p[2] - 1) % SourceWindow = 0

\* The search ends, what was found so far stays; the other routes follow.
EndPairs(why, complete) ==
    /\ stage' = "rest" /\ reason' = why /\ exhausted' = complete
    /\ UNCHANGED <<scan, inOrder, place, asked, queries, candidates, limitReached>>

InWindows == stage = "pairs" /\ place[1] <= scan.sinks /\ scan.sources > 0

OutOfTime == InWindows /\ EndPairs("time_budget", FALSE)

OutOfQueries ==
    /\ InWindows /\ Function \notin asked /\ queries >= MaxQueries
    /\ EndPairs("query_budget", FALSE)

Finished == stage = "pairs" /\ ~InWindows /\ EndPairs("", TRUE)

\* One source against one window of sinks.  The routes of a pair beyond its first
\* are put off.  When a candidate does not fit the search is abandoned there.
TakePairs ==
    LET room == MaxCandidates - Len(candidates)
        first == Sorted({<<NoFlow, place[2], k, 1>> : k \in SinksJoined}, BySink)
        others == Sorted(UNION {{<<NoFlow, place[2], k, n>> : n \in 2..RoutesTo(k)} : k \in SinksJoined}, BySink)
    IN  /\ InWindows
        /\ Function \in asked \/ queries < MaxQueries
        /\ queries' = IF Function \in asked THEN queries ELSE queries + 1
        /\ inOrder' = inOrder \o others
        /\ candidates' = candidates \o SubSeq(first, 1, IF room < Len(first) THEN room ELSE Len(first))
        /\ IF Len(first) > room
           THEN /\ stage' = "done" /\ limitReached' = TRUE /\ reason' = "candidate_budget"
                /\ UNCHANGED <<place, asked>>
           ELSE /\ place' = NextPlace
                /\ asked' = IF OpensWindow(NextPlace) THEN {} ELSE asked \union {Function}
                /\ UNCHANGED <<stage, limitReached, reason>>
        /\ UNCHANGED <<scan, exhausted>>

TakeOther ==
    /\ stage = "rest" /\ inOrder # <<>>
    /\ IF AtLimit THEN EndAtLimit
       ELSE /\ candidates' = Append(candidates, Head(inOrder))
            /\ inOrder' = Tail(inOrder)
            /\ UNCHANGED <<scan, stage, place, asked, queries, reason, exhausted, limitReached>>

Close ==
    /\ stage = "rest" /\ inOrder = <<>>
    /\ stage' = "done"
    /\ UNCHANGED <<scan, inOrder, place, asked, queries, reason, exhausted, candidates, limitReached>>

CandidateNext ==
    \/ TakeFlow \/ StartPairs \/ OutOfTime \/ OutOfQueries \/ Finished
    \/ TakePairs \/ TakeOther \/ Close

CandidateSpec == CandidateInit /\ [][CandidateNext]_candidateVars

-------------------------------------------------------------------------------
(***************************************************************************)
(* Properties.                                                             *)
(***************************************************************************)
Chosen == {candidates[i] : i \in DOMAIN candidates}
FlowChosen(f) == Append(f, 1) \in Chosen

\* The call routes of the pairs that have no flow.
RoutesOfPairs ==
    UNION {UNION {{<<NoFlow, s, k, n>> : n \in 1..scan.joined[<<scan.inFunction[s], scan.ofSink[k]>>]} :
                     k \in {x \in 1..scan.sinks : ~HasFlow(s, x)}} : s \in 1..scan.sources}

\* A weaker lead never takes the place of a stronger one: a call route is chosen
\* only when all flows are, a further flow of a pair only when every pair has its
\* first, the further routes of a pair only when no pair was left over for them.
\* Nothing is chosen twice, and nothing that was not found.
StrongerFirst ==
    /\ Len(candidates) <= MaxCandidates /\ Cardinality(Chosen) = Len(candidates)
    /\ Chosen \subseteq {Append(f, 1) : f \in scan.flows} \union RoutesOfPairs
    /\ (\E c \in Chosen : c[1] = NoFlow) => \A f \in scan.flows : FlowChosen(f)
    /\ \A f, g \in scan.flows : FlowChosen(f) /\ g[1] < f[1] => FlowChosen(g)
    /\ (\E c \in Chosen : c[4] > 1) /\ exhausted => \A r \in RoutesOfPairs : r[4] = 1 => r \in Chosen

\* The reason given at the end is true: without one nothing that the analyses
\* returned is missing, with a limit on time or queries only call routes are, and
\* when all windows were gone through no pair is missing that a search returned.
ReasonIsTrue ==
    stage = "done" =>
        /\ reason = "" => Chosen = {Append(f, 1) : f \in scan.flows} \union RoutesOfPairs
        /\ ~limitReached => \A f \in scan.flows : FlowChosen(f)
        /\ limitReached <=> reason = "candidate_budget"
        /\ limitReached => Len(candidates) = MaxCandidates
        /\ exhausted => \A r \in RoutesOfPairs : r[4] = 1 => r \in Chosen
===============================================================================
