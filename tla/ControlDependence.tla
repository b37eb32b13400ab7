--------------------------- MODULE ControlDependence ---------------------------
(***************************************************************************)
(* Control dependence over the final control-flow graph of a function      *)
(* (program_graph/passes/control_dependence.py): post-dominators of the    *)
(* reachable part, closed by virtual edges where the exit cannot be        *)
(* reached, and the walk up their tree from every edge.                    *)
(*                                                                         *)
(* immediate_dominators is a library's (networkx): here it is what it is   *)
(* documented to compute, the nearest strict dominator.                    *)
(***************************************************************************)
EXTENDS FlowAnalysis

CONSTANTS Exit, Virtual

ASSUME DependenceAssumption == Exit \in Nodes /\ Virtual \notin Nodes /\ IsFiniteSet(Nodes)

CfgEdges == {e \in function.edges : e[1] \in reachable /\ e[2] \in reachable}

\* exit_reaching: the exit, if it is reached, and its ancestors.
ExitReaching ==
    {n \in reachable : /\ Exit \in reachable
                       /\ \A back \in SUBSET reachable :
                            /\ Exit \in back
                            /\ \A e \in CfgEdges : e[2] \in back => e[1] \in back
                            => n \in back}

\* slip: only the exit leads to the virtual end.
EscapingAtExit == {Exit} \intersect reachable

\* Where virtual edges start: every node that cannot reach the exit has its own.
Escaping == (reachable \ ExitReaching) \union ({Exit} \intersect reachable)

View == {<<e[1], e[2]>> : e \in CfgEdges} \union {<<n, Virtual>> : n \in Escaping}

Ends == reachable \union {Virtual}

\* Every way from n to the virtual end goes through m.
PostDominates(m, n, view) ==
    \/ m = n
    \/ \E seen \in SUBSET (Ends \ {m, Virtual}) :
        n \in seen /\ \A e \in view : e[1] \in seen => e[2] \in seen \union {m}

PostDominators == LET view == View IN [n \in Ends |-> {m \in Ends : PostDominates(m, n, view)}]

\* immediate_dominators of the reversed view (networkx): the nearest of the strict
\* post-dominators.
ImmediatePost(post) ==
    [n \in reachable |-> CHOOSE m \in post[n] \ {n} : post[n] \ {n} \subseteq post[m]]

Stop(e, parent) == parent[e[1]]

\* The nodes on the walk from the target of an edge up the tree.
Walk(e, parent) ==
    LET stop == {Stop(e, parent), Virtual}
        runner[k \in 0..Cardinality(Nodes)] ==
            IF k = 0 THEN e[2]
            ELSE IF runner[k - 1] \in stop THEN runner[k - 1] ELSE parent[runner[k - 1]]
    IN  {runner[k] : k \in 0..Cardinality(Nodes)} \ stop

-------------------------------------------------------------------------------
(***************************************************************************)
(* Properties.                                                             *)
(***************************************************************************)
\* A node depends on an edge exactly when the edge makes its execution certain
\* and another way out of the same node leaves it open; a region that never
\* reaches the exit makes nothing certain behind it.
DependsOnTheBranch ==
    Analysed =>
        LET post == PostDominators
            parent == ImmediatePost(post)
            view == View
        IN  \A e \in CfgEdges :
                Walk(e, parent) = {n \in reachable : /\ n \in post[e[2]]
                                                     /\ \E v \in view : v[1] = e[1] /\ n \notin post[v[2]]}
===============================================================================
