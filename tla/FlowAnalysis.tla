----------------------------- MODULE FlowAnalysis -----------------------------
(***************************************************************************)
(* Reaching definitions of one function (program_graph/passes/             *)
(* reaching_definitions.py): the writes each node makes and overrides, and *)
(* the work list that carries them along the control flow.                 *)
(*                                                                         *)
(* The work list starts as deque(reachable) of a set of strings, so its    *)
(* order is that of the hash seed: the model takes any pending node.       *)
(*                                                                         *)
(* Abstractions: variables are identities already bound (value_identity);  *)
(* Below holds the access paths under a path (a.f under a).  The links     *)
(* from reads to the definitions that arrive are left out.                 *)
(***************************************************************************)
EXTENDS Integers, FiniteSets

CONSTANTS
    Nodes, Entry,
    Vars,           \* value identities
    Below,          \* pairs <<path, path under it>>
    Functions       \* the functions analysed

\* An edge is <<source, target, before>>; before: it leaves before the write,
\* as the exception of a call does.
Edges == Nodes \X Nodes \X BOOLEAN
Definitions == Nodes \X Vars

\* weak: the definitions of writes that may not happen or reach one element.
ASSUME FlowAssumption ==
    /\ Entry \in Nodes /\ Below \subseteq Vars \X Vars
    /\ Functions \subseteq [edges: SUBSET Edges, writes: [Nodes -> SUBSET Vars],
                            weak: SUBSET Definitions]

VARIABLES
    function,       \* the function under analysis
    reachable,      \* its nodes that the entry leads to
    incoming, outgoing,
    pending         \* the nodes in the queue

flowVars == <<function, reachable, incoming, outgoing, pending>>

-------------------------------------------------------------------------------
\* _reachable: the nodes in every set that holds the entry and no edge leaves.
Reachable(f) ==
    {n \in Nodes : \A nodes \in SUBSET Nodes :
        /\ Entry \in nodes
        /\ \A e \in f.edges : e[1] \in nodes => e[2] \in nodes
        => n \in nodes}

Generated(n) == {n} \X function.writes[n]

\* A sure write overrides every other definition of its path and of the paths
\* under it.
Killed(n) ==
    {d \in Definitions \ Generated(n) :
        /\ d[1] \in reachable /\ d[2] \in function.writes[d[1]]
        /\ \E v \in function.writes[n] :
            /\ <<n, v>> \notin function.weak
            /\ d[2] = v \/ <<v, d[2]>> \in Below}

\* What an edge carries: what its source read, or what it leaves behind.
Carried(e) == IF e[3] THEN incoming[e[1]] ELSE outgoing[e[1]]

Into(n) == {e \in function.edges : e[2] = n /\ e[1] \in reachable}

NewIn(n) == UNION {Carried(e) : e \in Into(n)}

NewOut(n) == Generated(n) \union (NewIn(n) \ Killed(n))

Successors(n) == {m \in reachable : \E e \in function.edges : e[1] = n /\ e[2] = m}

Changed(n) == NewIn(n) # incoming[n] \/ NewOut(n) # outgoing[n]

-------------------------------------------------------------------------------
FlowInit ==
    /\ function \in Functions
    /\ reachable = Reachable(function)
    /\ incoming = [n \in reachable |-> {}]
    /\ outgoing = [n \in reachable |-> Generated(n)]
    /\ pending = reachable

\* One turn of the loop, for a queued node.
Visit(n) ==
    /\ n \in pending
    /\ \/ /\ Changed(n)
          /\ incoming' = [incoming EXCEPT ![n] = NewIn(n)]
          /\ outgoing' = [outgoing EXCEPT ![n] = NewOut(n)]
          /\ pending' = (pending \ {n}) \union Successors(n)
       \/ /\ ~Changed(n)
          /\ pending' = pending \ {n}
          /\ UNCHANGED <<incoming, outgoing>>
    /\ UNCHANGED <<function, reachable>>

FlowNext == \E n \in Nodes : Visit(n)

FlowSpec == FlowInit /\ [][FlowNext]_flowVars

Analysed == pending = {}

-------------------------------------------------------------------------------
(***************************************************************************)
(* Properties.                                                             *)
(***************************************************************************)
FlowTypeOK ==
    /\ function \in Functions
    /\ reachable \subseteq Nodes
    /\ incoming \in [reachable -> SUBSET Definitions]
    /\ outgoing \in [reachable -> SUBSET Definitions]
    /\ pending \subseteq reachable

\* The write certainly happens and replaces what the other definition holds.
Overrides(n, d) ==
    /\ d \notin Generated(n)
    /\ \E v \in function.writes[n] :
        <<n, v>> \notin function.weak /\ (d[2] = v \/ <<v, d[2]>> \in Below)

\* A set of places <<node, TRUE>> (arrives) and <<node, FALSE>> (leaves) that a
\* definition cannot get out of by flowing along edges and past nodes that do
\* not override it.
Confines(places, d) ==
    /\ <<d[1], FALSE>> \in places
    /\ \A n \in reachable : <<n, TRUE>> \in places /\ ~Overrides(n, d) => <<n, FALSE>> \in places
    /\ \A e \in function.edges :
        e[1] \in reachable /\ <<e[1], e[3]>> \in places => <<e[2], TRUE>> \in places

\* A path without an override leads from the write to the node.
Reaches(d, n) == \A places \in SUBSET (reachable \X BOOLEAN) :
                     Confines(places, d) => <<n, TRUE>> \in places

\* Whatever order the queue had, a definition is said to arrive at a node
\* exactly when some path from its write leads there and overrides it nowhere:
\* nothing is lost when a node changes after its successors were visited (an
\* early edge carries what arrives, not what leaves), nothing is made up.
ExactlyByPaths ==
    Analysed => \A n \in reachable : \A m \in reachable : \A v \in function.writes[m] :
                    <<m, v>> \in incoming[n] <=> Reaches(<<m, v>>, n)
===============================================================================
