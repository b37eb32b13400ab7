---------------------------- MODULE GraphAnalyses ----------------------------
(***************************************************************************)
(* The analyses that work on a finished graph: reaching definitions with   *)
(* control dependence, and the searches for call paths, for a value's      *)
(* routes in a function and through functions, with the choice of what is  *)
(* reported.  A behaviour is one analysis of one input; the other machines *)
(* stand still with nothing to do.                                         *)
(***************************************************************************)
EXTENDS ControlDependence, CallPaths, ValuePaths, FlowRoutes, CandidateSelection

VARIABLE analysis

searchVars == <<pathVars, valueVars, routeVars, candidateVars>>
graphVars == <<flowVars, searchVars, analysis>>

FlowIdle ==
    /\ function = CHOOSE f \in Functions : TRUE
    /\ reachable = {} /\ pending = {}
    /\ incoming = <<>> /\ outgoing = <<>>

PathIdle ==
    /\ calls = {} /\ targets = {} /\ queue = <<>>
    /\ explored = 0 /\ truncated = FALSE /\ found = <<>>

ValueIdle ==
    /\ ask = <<>> /\ waiting = <<>> /\ current = <<>> /\ left = <<>>
    /\ routes = <<>> /\ looked = 0 /\ cut = FALSE

RouteIdle ==
    /\ program = <<>> /\ states = <<>> /\ visited = {} /\ flows = {}
    /\ sourceLimit = FALSE /\ sinkLimits = {} /\ delivered = {}

CandidateIdle ==
    /\ scan = <<>> /\ stage = "none" /\ inOrder = <<>> /\ place = <<1, 1>>
    /\ asked = {} /\ queries = 0 /\ reason = "" /\ exhausted = FALSE
    /\ candidates = <<>> /\ limitReached = FALSE

GraphInit ==
    /\ IF analysis = "flow" THEN FlowInit ELSE FlowIdle
    /\ IF analysis = "calls" THEN PathInit ELSE PathIdle
    /\ IF analysis = "values" THEN ValueInit ELSE ValueIdle
    /\ IF analysis = "routes" THEN RouteInit ELSE RouteIdle
    /\ IF analysis = "candidates" THEN CandidateInit ELSE CandidateIdle

Flow == analysis = "flow" /\ FlowNext /\ UNCHANGED <<searchVars, analysis>>

Paths == Explore /\ UNCHANGED <<valueVars, routeVars, candidateVars>>
Values == ValueNext /\ UNCHANGED <<pathVars, routeVars, candidateVars>>
Routes == RouteNext /\ UNCHANGED <<pathVars, valueVars, candidateVars>>
Candidates == CandidateNext /\ UNCHANGED <<pathVars, valueVars, routeVars>>
Search ==
    /\ \/ analysis = "calls" /\ Paths
       \/ analysis = "values" /\ Values
       \/ analysis = "routes" /\ Routes
       \/ analysis = "candidates" /\ Candidates
    /\ UNCHANGED <<flowVars, analysis>>

GraphNext == Flow \/ Search

GraphSpec == GraphInit /\ [][GraphNext]_graphVars

-------------------------------------------------------------------------------
(***************************************************************************)
(* Properties.                                                             *)
(***************************************************************************)
\* What the passes write at an operation, the definitions that arrive there and the
\* branches it depends on, is what the paths of the function say, whatever order the
\* queue had.
AnnotationsAreExact == analysis = "flow" => ExactlyByPaths /\ DependsOnTheBranch

\* A search keeps its limits and says no more than it knows: what an unmarked call
\* path and an absent target mean, the routes of a value, the flows through functions
\* reported for a sink, and the reason given when the choice of candidates ends.
SearchIsHonest ==
    /\ analysis = "calls" => CallsSearchedHonestly
    /\ analysis = "values" => UnmarkedHasAllRoutes
    /\ analysis = "routes" => MissingIsMarked
    /\ analysis = "candidates" => ReasonIsTrue /\ StrongerFirst

\* What is reported is there in the code, whatever limit was hit: the route of a
\* value, and a flow that returns only to where it came from.
PathsAreReal ==
    /\ analysis = "values" => ValueRoutesAreReal
    /\ analysis = "routes" => FlowsAreReal
===============================================================================
