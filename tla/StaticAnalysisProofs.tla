--------------------------- MODULE StaticAnalysisProofs ---------------------------
(***************************************************************************)
(* Reaching definitions (FlowAnalysis): for every function, every control  *)
(* flow and every order of the work list, the definitions that arrive at a *)
(* node are those a path leads to it.  The invariant has two halves.  No   *)
(* definition is at a place that a set it cannot get out of leaves out     *)
(* (nothing made up).  A node that is not queued agrees with its           *)
(* predecessors (nothing lost); when the queue is empty the places of a    *)
(* definition are such a set.                                              *)
(*                                                                         *)
(* The bounded search for call paths (CallPaths): for every call graph and *)
(* all limits, an unmarked result holds every chain of calls to a target   *)
(* once, of whatever length, and the first chain found is a shortest one.  *)
(* The invariant says where a chain still is while the search runs: found, *)
(* or going on from a queued one (Complete); that the queue holds shorter  *)
(* chains before longer ones (Layered) and none that begins another        *)
(* (Once); and, whatever was cut, that a simple chain was cut only by one  *)
(* no longer than itself or by a full store (Nearest).                     *)
(*                                                                         *)
(* The routes of a value (ValuePaths): for every set of edges and both     *)
(* limits, every route given is one, once, and an unmarked answer has them *)
(* all.  The invariant says that whatever is queued is a walk the value    *)
(* can make (Sound); that no two places of the search hold the same walk   *)
(* or one that goes on from another (Apart); and where each route still is *)
(* while nothing was cut (Covered).                                        *)
(*                                                                         *)
(* Flows through functions (FlowRoutes): for every program and all limits, *)
(* what is found is a route of the program.  The invariant says of every   *)
(* queued state where the calls on its stack were made (OpenAt): the       *)
(* uppermost one is the call that the next closing hop closes, so that the *)
(* stack, the depth and the route never disagree.  What is not found is    *)
(* marked: the invariant (MarkInv) says that every route is found, cut     *)
(* with a mark, or goes on from a queued state (NothingForgotten).         *)
(*                                                                         *)
(* Control dependence (ControlDependence): the parents that the pass walks *)
(* up are the immediate post-dominators, and a node depends on a branch    *)
(* exactly when one way out of the branch leads through it and another     *)
(* way does not.                                                           *)
(*                                                                         *)
(* The choice of candidates (CandidateSelection): flows come before routes *)
(* of calls, each in its order; nothing is chosen twice; and the reason    *)
(* given for stopping is the one that stopped it.                          *)
(*                                                                         *)
(* The last section puts these together for the machine that makes one of  *)
(* the analyses (GraphAnalyses).                                           *)
(***************************************************************************)
EXTENDS GraphAnalyses, SequenceTheorems, FiniteSetTheorems, WellFoundedInduction, TLAPS

-------------------------------------------------------------------------------
(* Reaching definitions *)

\* A write that some reachable node makes.
Genuine(d) == /\ d \in Definitions
              /\ d[1] \in reachable /\ d[2] \in function.writes[d[1]]

\* An edge leads from reachable nodes to reachable nodes.
Closed == \A e \in function.edges : e[1] \in reachable => e[2] \in reachable

AllGenuine == \A n \in reachable : \A d \in incoming[n] \union outgoing[n] : Genuine(d)

\* No definition is where no path can have taken it.
NothingMadeUp ==
    \A d \in Definitions : \A places \in SUBSET (reachable \X BOOLEAN) :
        Confines(places, d) =>
            \A n \in reachable : /\ d \in incoming[n] => <<n, TRUE>> \in places
                                 /\ d \in outgoing[n] => <<n, FALSE>> \in places

\* A node that waits for no visit has what its predecessors send.
Settled == \A n \in reachable \ pending :
               incoming[n] = NewIn(n) /\ outgoing[n] = NewOut(n)

FlowInv == FlowTypeOK /\ Closed /\ AllGenuine /\ NothingMadeUp /\ Settled

-------------------------------------------------------------------------------
LEMMA FunctionShape ==
    ASSUME function \in Functions
    PROVE  /\ function.edges \subseteq Edges
           /\ function.writes \in [Nodes -> SUBSET Vars]
           /\ function.weak \subseteq Definitions
BY FlowAssumption

\* The entry's closure is closed.
LEMMA ReachableCloses ==
    ASSUME NEW f \in Functions, NEW e \in f.edges, e[1] \in Reachable(f)
    PROVE  e[2] \in Reachable(f)
<1>1. e \in Edges
  BY FlowAssumption
<1>2. e[2] \in Nodes
  BY <1>1 DEF Edges
<1> QED BY <1>2 DEF Reachable

LEMMA GeneratedGenuine ==
    ASSUME FlowTypeOK, NEW n \in reachable, NEW d \in Generated(n)
    PROVE  Genuine(d) /\ d[1] = n
<1>1. function.writes[n] \subseteq Vars
  BY FunctionShape DEF FlowTypeOK
<1> QED BY <1>1 DEF FlowTypeOK, Generated, Genuine, Definitions

\* What an edge carries to a node has been at the edge's source.
LEMMA NewInFrom ==
    ASSUME FlowTypeOK, NEW n \in reachable, NEW d \in NewIn(n)
    PROVE  \E e \in function.edges :
               /\ e \in Edges /\ e[1] \in reachable /\ e[2] = n
               /\ d \in IF e[3] THEN incoming[e[1]] ELSE outgoing[e[1]]
BY FunctionShape DEF NewIn, Into, Carried, FlowTypeOK

LEMMA NewGenuine ==
    ASSUME FlowTypeOK, AllGenuine, NEW n \in reachable
    PROVE  \A d \in NewIn(n) \union NewOut(n) : Genuine(d)
<1>1. ASSUME NEW d \in NewIn(n) PROVE Genuine(d)
  <2>1. PICK e \in function.edges : /\ e \in Edges /\ e[1] \in reachable
                                    /\ d \in IF e[3] THEN incoming[e[1]] ELSE outgoing[e[1]]
    BY NewInFrom
  <2> QED BY <2>1 DEF AllGenuine
<1> QED BY <1>1, GeneratedGenuine DEF NewOut

\* A definition that a confined set holds is not let out by a visit.
LEMMA NewConfined ==
    ASSUME FlowInv, NEW n \in reachable, NEW d \in Definitions,
           NEW places \in SUBSET (reachable \X BOOLEAN), Confines(places, d)
    PROVE  /\ d \in NewIn(n) => <<n, TRUE>> \in places
           /\ d \in NewOut(n) => <<n, FALSE>> \in places
<1>1. ASSUME d \in NewIn(n) PROVE <<n, TRUE>> \in places
  <2>1. PICK e \in function.edges :
            /\ e \in Edges /\ e[1] \in reachable /\ e[2] = n
            /\ d \in IF e[3] THEN incoming[e[1]] ELSE outgoing[e[1]]
    BY <1>1, NewInFrom DEF FlowInv
  <2>2. <<e[1], e[3]>> \in places
    <3>1. CASE e[3] = TRUE
      BY <2>1, <3>1 DEF FlowInv, NothingMadeUp
    <3>2. CASE e[3] = FALSE
      BY <2>1, <3>2 DEF FlowInv, NothingMadeUp
    <3> QED BY <2>1, <3>1, <3>2 DEF Edges
  <2> QED BY <2>1, <2>2 DEF Confines
<1>2. ASSUME d \in NewOut(n) PROVE <<n, FALSE>> \in places
  <2>1. CASE d \in Generated(n)
    BY <2>1, GeneratedGenuine DEF FlowInv, Confines
  <2>2. CASE d \in NewIn(n) \ Killed(n) /\ d \notin Generated(n)
    <3>1. Genuine(d)
      BY <2>2, NewGenuine DEF FlowInv
    <3>2. ~Overrides(n, d)
      BY <2>2, <3>1 DEF Overrides, Killed, Genuine
    <3>3. <<n, TRUE>> \in places
      BY <1>1, <2>2
    <3> QED BY <3>2, <3>3 DEF Confines
  <2> QED BY <1>2, <2>1, <2>2 DEF NewOut
<1> QED BY <1>1, <1>2

-------------------------------------------------------------------------------
LEMMA FlowInitInv == FlowInit => FlowInv
<1> SUFFICES ASSUME FlowInit PROVE FlowInv
  OBVIOUS
<1>1. reachable \subseteq Nodes
  BY DEF FlowInit, Reachable
<1>2. \A n \in reachable : Generated(n) \subseteq Definitions
  <2>1. \A n \in reachable : function.writes[n] \subseteq Vars
    BY <1>1, FunctionShape DEF FlowInit
  <2> QED BY <1>1, <2>1 DEF Generated, Definitions
<1>3. FlowTypeOK
  BY <1>1, <1>2 DEF FlowInit, FlowTypeOK
<1>4. Closed
  BY ReachableCloses DEF FlowInit, Closed
<1>5. AllGenuine
  BY <1>3, GeneratedGenuine DEF FlowInit, AllGenuine
<1>6. NothingMadeUp
  <2> SUFFICES ASSUME NEW d \in Definitions, NEW places \in SUBSET (reachable \X BOOLEAN),
                      Confines(places, d), NEW n \in reachable
               PROVE  /\ d \in incoming[n] => <<n, TRUE>> \in places
                      /\ d \in outgoing[n] => <<n, FALSE>> \in places
    BY DEF NothingMadeUp
  <2>1. incoming[n] = {} /\ outgoing[n] = Generated(n)
    BY DEF FlowInit
  <2> QED BY <1>3, <2>1, GeneratedGenuine DEF Confines
<1>7. Settled
  BY DEF FlowInit, Settled
<1> QED BY <1>3, <1>4, <1>5, <1>6, <1>7 DEF FlowInv

\* A visit that finds a change.
LEMMA ChangeInv ==
    ASSUME FlowInv, NEW n \in pending,
           incoming' = [incoming EXCEPT ![n] = NewIn(n)],
           outgoing' = [outgoing EXCEPT ![n] = NewOut(n)],
           pending' = (pending \ {n}) \union Successors(n),
           UNCHANGED <<function, reachable>>
    PROVE  FlowInv'
<1>1. n \in reachable
  BY DEF FlowInv, FlowTypeOK
<1>2. /\ incoming'[n] = NewIn(n) /\ outgoing'[n] = NewOut(n)
      /\ \A m \in reachable : m # n => incoming'[m] = incoming[m] /\ outgoing'[m] = outgoing[m]
  BY <1>1 DEF FlowInv, FlowTypeOK
<1>3. NewIn(n) \subseteq Definitions /\ NewOut(n) \subseteq Definitions
  BY <1>1, NewGenuine DEF FlowInv, Genuine
<1>4. FlowTypeOK'
  BY <1>1, <1>3 DEF FlowInv, FlowTypeOK, Successors
<1>5. Closed'
  BY DEF FlowInv, Closed
<1>6. AllGenuine'
  <2>1. \A d : Genuine(d)' <=> Genuine(d)
    BY DEF Genuine
  <2>2. \A m \in reachable : \A d \in incoming'[m] \union outgoing'[m] : Genuine(d)
    BY <1>1, <1>2, NewGenuine DEF FlowInv, AllGenuine
  <2> QED BY <2>1, <2>2 DEF AllGenuine
<1>7. NothingMadeUp'
  <2> SUFFICES ASSUME NEW d \in Definitions, NEW places \in SUBSET (reachable \X BOOLEAN),
                      Confines(places, d), NEW m \in reachable
               PROVE  /\ d \in incoming'[m] => <<m, TRUE>> \in places
                      /\ d \in outgoing'[m] => <<m, FALSE>> \in places
    BY DEF NothingMadeUp, Confines, Overrides, Generated
  <2>1. CASE m = n
    BY <1>1, <1>2, <2>1, NewConfined
  <2>2. CASE m # n
    BY <1>2, <2>2 DEF FlowInv, NothingMadeUp
  <2> QED BY <2>1, <2>2
<1>8. Settled'
  <2> SUFFICES ASSUME NEW m \in reachable, m \notin pending'
               PROVE  incoming'[m] = NewIn(m)' /\ outgoing'[m] = NewOut(m)'
    BY DEF Settled
  \* The visited node is no predecessor of a node that is not queued.
  <2>1. \A e \in Into(m) : e[1] # n /\ e[1] \in reachable
    BY DEF Into, Successors
  <2>2. Into(m)' = Into(m)
    BY DEF Into
  <2>3. \A e \in Into(m) : Carried(e)' = Carried(e)
    BY <1>2, <2>1 DEF Carried
  <2>4. NewIn(m)' = NewIn(m)
    BY <2>2, <2>3 DEF NewIn
  <2>5. Generated(m)' = Generated(m) /\ Killed(m)' = Killed(m)
    BY DEF Generated, Killed
  <2>6. NewOut(m)' = NewOut(m)
    BY <2>4, <2>5 DEF NewOut
  <2>7. CASE m = n
    BY <1>2, <2>4, <2>6, <2>7
  <2>8. CASE m # n
    BY <1>2, <2>4, <2>6, <2>8 DEF FlowInv, Settled
  <2> QED BY <2>7, <2>8
<1> QED BY <1>4, <1>5, <1>6, <1>7, <1>8 DEF FlowInv

\* A visit that finds none.
LEMMA NoChangeInv ==
    ASSUME FlowInv, NEW n \in pending, ~Changed(n), pending' = pending \ {n},
           UNCHANGED <<function, reachable, incoming, outgoing>>
    PROVE  FlowInv'
<1>1. FlowTypeOK' /\ Closed'
  BY DEF FlowInv, FlowTypeOK, Closed
<1>2. AllGenuine'
  BY DEF FlowInv, AllGenuine, Genuine
<1>3. NothingMadeUp'
  BY DEF FlowInv, NothingMadeUp, Confines, Overrides, Generated
<1>4. Settled'
  <2>1. \A m \in reachable : NewIn(m)' = NewIn(m) /\ NewOut(m)' = NewOut(m)
    BY DEF NewIn, NewOut, Into, Carried, Generated, Killed
  <2> QED BY <2>1 DEF FlowInv, Settled, Changed
<1> QED BY <1>1, <1>2, <1>3, <1>4 DEF FlowInv

LEMMA FlowStepInv == FlowInv /\ [FlowNext]_flowVars => FlowInv'
<1> SUFFICES ASSUME FlowInv, [FlowNext]_flowVars PROVE FlowInv'
  OBVIOUS
<1>1. ASSUME NEW n \in Nodes, Visit(n) PROVE FlowInv'
  BY <1>1, ChangeInv, NoChangeInv DEF Visit
<1>2. CASE UNCHANGED flowVars
  <2>1. FlowTypeOK' /\ Closed' /\ AllGenuine'
    BY <1>2 DEF FlowInv, FlowTypeOK, Closed, AllGenuine, Genuine, flowVars
  <2>2. NothingMadeUp'
    BY <1>2 DEF FlowInv, NothingMadeUp, Confines, Overrides, Generated, flowVars
  <2>3. Settled'
    <3>1. \A n \in reachable : NewIn(n)' = NewIn(n) /\ NewOut(n)' = NewOut(n)
      BY <1>2 DEF NewIn, NewOut, Into, Carried, Generated, Killed, flowVars
    <3> QED BY <1>2, <3>1 DEF FlowInv, Settled, flowVars
  <2> QED BY <2>1, <2>2, <2>3 DEF FlowInv
<1> QED BY <1>1, <1>2 DEF FlowNext

\* The two halves and the settled nodes hold from the start, for any function,
\* control flow and order of the queue.
THEOREM FlowInvariance == FlowSpec => []FlowInv
BY FlowInitInv, FlowStepInv, PTL DEF FlowSpec

-------------------------------------------------------------------------------
\* The places where a definition is said to be.
Places(d) == {p \in reachable \X BOOLEAN :
                 d \in IF p[2] THEN incoming[p[1]] ELSE outgoing[p[1]]}

\* When no node waits, these places are a set it cannot leave.
LEMMA PlacesConfine ==
    ASSUME FlowInv, Analysed, NEW d \in Definitions, Genuine(d)
    PROVE  Confines(Places(d), d)
<1> DEFINE places == Places(d)
<1>1. \A n \in reachable : incoming[n] = NewIn(n) /\ outgoing[n] = NewOut(n)
  BY DEF FlowInv, Settled, Analysed
<1>2. \A n \in reachable : /\ <<n, TRUE>> \in places <=> d \in incoming[n]
                           /\ <<n, FALSE>> \in places <=> d \in outgoing[n]
  BY DEF Places
<1>3. <<d[1], FALSE>> \in places
  <2>1. d \in Generated(d[1])
    BY DEF Genuine, Generated, Definitions
  <2> QED BY <1>1, <1>2, <2>1 DEF Genuine, NewOut
<1>4. ASSUME NEW n \in reachable, <<n, TRUE>> \in places, ~Overrides(n, d)
      PROVE  <<n, FALSE>> \in places
  <2>1. d \in NewIn(n)
    BY <1>1, <1>2, <1>4
  <2>2. d \notin Killed(n)
    BY <1>4 DEF Overrides, Killed
  <2> QED BY <1>1, <1>2, <2>1, <2>2 DEF NewOut
<1>5. ASSUME NEW e \in function.edges, e[1] \in reachable, <<e[1], e[3]>> \in places
      PROVE  <<e[2], TRUE>> \in places
  <2>1. e[2] \in reachable
    BY <1>5 DEF FlowInv, Closed
  <2>2. d \in Carried(e)
    BY <1>5 DEF Carried, Places
  <2>3. d \in NewIn(e[2])
    BY <1>5, <2>2 DEF NewIn, Into
  <2> QED BY <1>1, <1>2, <2>1, <2>3
<1> QED BY <1>3, <1>4, <1>5 DEF Confines

\* When nothing waits for a visit, a definition arrives exactly where a path takes it.
LEMMA ArriveByPaths ==
  FlowInv => ExactlyByPaths
<1> SUFFICES ASSUME FlowInv, Analysed, NEW n \in reachable, NEW m \in reachable,
                    NEW v \in function.writes[m]
             PROVE  <<m, v>> \in incoming[n] <=> Reaches(<<m, v>>, n)
  BY DEF ExactlyByPaths
<1> DEFINE d == <<m, v>>
<1>1. d \in Definitions /\ Genuine(d)
  <2>1. m \in Nodes /\ function.writes[m] \subseteq Vars
    BY FunctionShape DEF FlowInv, FlowTypeOK
  <2> QED BY <2>1 DEF Definitions, Genuine
<1> HIDE DEF d
<1>2. d \in incoming[n] => Reaches(d, n)
  BY <1>1 DEF FlowInv, NothingMadeUp, Reaches
<1>3. Confines(Places(d), d)
  BY <1>1, PlacesConfine
<1>4. Reaches(d, n) => <<n, TRUE>> \in Places(d)
  <2>1. Places(d) \in SUBSET (reachable \X BOOLEAN)
    BY DEF Places
  <2> QED BY <1>3, <2>1 DEF Reaches
<1>5. <<n, TRUE>> \in Places(d) => d \in incoming[n]
  BY DEF Places
<1> QED BY <1>2, <1>4, <1>5 DEF d

\* At the end of the analysis a definition arrives at a node exactly when a
\* path from its write leads there and overrides it nowhere, for any function
\* and any order of the queue.
THEOREM ArrivesByPaths == FlowSpec => []ExactlyByPaths
BY ArriveByPaths, FlowInvariance, PTL

-------------------------------------------------------------------------------
(* Smallest numbers and sets *)

\* Among sets of subsets of a finite set there is a smallest one.
LEMMA SmallestSubset ==
  ASSUME NEW S, IsFiniteSet(S), NEW F, F \subseteq SUBSET S, F # {}
  PROVE  \E A \in F : \A B \in F : B \subseteq A => B = A
<1>1. IsWellFoundedOn(StrictSubsetOrdering(S), SUBSET S)
  BY FS_StrictSubsetOrderingWellFounded, FS_FiniteSubsetsOfFinite
<1>2. \E A \in F : \A B \in F : ~ (<<B, A>> \in StrictSubsetOrdering(S))
  BY <1>1, WFMin
<1>3. \A A, B \in SUBSET S : B \subseteq A /\ B # A => <<B, A>> \in StrictSubsetOrdering(S)
  BY DEF StrictSubsetOrdering
<1> QED BY <1>2, <1>3

\* Among natural numbers there is a smallest one.
LEMMA SmallestNumber ==
  ASSUME NEW T, T \subseteq Nat, T # {}
  PROVE  \E m \in T : \A k \in T : m <= k
<1>1. PICK n \in T : n \in Nat
  OBVIOUS
<1> DEFINE S == 1 .. n
           F == {1 .. k : k \in {j \in T : j <= n}}
<1>2. IsFiniteSet(S) /\ F \subseteq SUBSET S /\ F # {}
  <2>1. IsFiniteSet(1 .. n)
    BY <1>1, FS_Interval
  <2>2. F \subseteq SUBSET (1 .. n)
    BY <1>1
  <2>3. F # {}
    BY <1>1
  <2> QED BY <2>1, <2>2, <2>3
<1>3. \E A \in F : \A B \in F : B \subseteq A => B = A
  <2> HIDE DEF S, F
  <2> QED BY <1>2, SmallestSubset
<1>4. PICK A \in F : \A B \in F : B \subseteq A => B = A
  BY <1>3
<1>5. PICK m \in T : m <= n /\ A = 1 .. m
  BY <1>4
<1>6. ASSUME NEW k \in T, k < m PROVE FALSE
  <2>1. 1 .. k \in F
    BY <1>1, <1>5, <1>6
  <2>2. 1 .. k \subseteq A /\ m \in A /\ m \notin 1 .. k
    BY <1>5, <1>6
  <2> QED BY <2>1, <2>2, <1>4
<1> QED BY <1>5, <1>6

-------------------------------------------------------------------------------
(* Repetition *)

\* What is repeated from a on has a value after every number of times.
Iterates(X, g, a, n) == {f \in [0..n -> X] : f[0] = a /\ \A i \in 0..n - 1 : f[i + 1] = g[f[i]]}

LEMMA IteratesAgree ==
  ASSUME NEW X, NEW g, NEW a, NEW m \in Nat, NEW n \in Nat,
         NEW e \in Iterates(X, g, a, m), NEW f \in Iterates(X, g, a, n), NEW i \in Nat, i <= m, i <= n
  PROVE  e[i] = f[i]
<1> DEFINE T == {k \in Nat : k <= m /\ k <= n /\ e[k] # f[k]}
<1>1. /\ e[0] = a /\ f[0] = a
      /\ \A k \in 0..m - 1 : e[k + 1] = g[e[k]]
      /\ \A k \in 0..n - 1 : f[k + 1] = g[f[k]]
  BY DEF Iterates
<1>2. SUFFICES ASSUME T # {} PROVE FALSE
  OBVIOUS
<1>3. PICK k \in T : \A j \in T : k <= j
  <2>1. T \subseteq Nat
    OBVIOUS
  <2> HIDE DEF T
  <2> QED BY <1>2, <2>1, SmallestNumber
<1>4. k \in Nat /\ k # 0 /\ k <= m /\ k <= n /\ e[k] # f[k]
  BY <1>1
<1>5. k - 1 \in 0..m - 1 /\ k - 1 \in 0..n - 1 /\ k - 1 \notin T /\ k - 1 \in Nat /\ k - 1 + 1 = k
  BY <1>3, <1>4
<1>6. e[k - 1] = f[k - 1]
  BY <1>4, <1>5
<1>7. e[k - 1 + 1] = g[e[k - 1]] /\ f[k - 1 + 1] = g[f[k - 1]]
  BY <1>1, <1>5
<1> QED BY <1>4, <1>5, <1>6, <1>7

LEMMA IteratesExist ==
  ASSUME NEW X, NEW g \in [X -> X], NEW a \in X, NEW n \in Nat
  PROVE  Iterates(X, g, a, n) # {}
<1> DEFINE T == {k \in Nat : Iterates(X, g, a, k) = {}}
<1>1. SUFFICES ASSUME T # {} PROVE FALSE
  OBVIOUS
<1>2. PICK k \in T : \A j \in T : k <= j
  <2>1. T \subseteq Nat
    OBVIOUS
  <2> HIDE DEF T
  <2> QED BY <1>1, <2>1, SmallestNumber
<1>3. k # 0
  <2>1. [i \in 0..0 |-> a] \in Iterates(X, g, a, 0)
    BY DEF Iterates
  <2> QED BY <2>1
<1>4. k \in Nat /\ k - 1 \in Nat /\ k - 1 \notin T
  BY <1>2, <1>3
<1>5. PICK f : f \in Iterates(X, g, a, k - 1)
  BY <1>4
<1>6. f \in [0..k - 1 -> X] /\ f[0] = a /\ \A i \in 0..k - 2 : f[i + 1] = g[f[i]]
  <2>1. k - 1 - 1 = k - 2
    BY <1>4
  <2> QED BY <1>5, <2>1 DEF Iterates
<1> DEFINE e == [i \in 0..k |-> IF i = k THEN g[f[k - 1]] ELSE f[i]]
<1>7. e \in [0..k -> X]
  <2>1. k - 1 \in 0..k - 1 /\ \A i \in 0..k : i # k => i \in 0..k - 1
    BY <1>4
  <2> QED BY <1>6, <2>1
<1>8. e[0] = a
  BY <1>3, <1>4, <1>6
<1>9. ASSUME NEW i \in 0..k - 1 PROVE e[i + 1] = g[e[i]]
  <2>1. e[i] = f[i]
    BY <1>4
  <2>2. CASE i = k - 1
    <3>1. e[i + 1] = g[f[k - 1]]
      BY <1>4, <2>2
    <3> QED BY <2>1, <2>2, <3>1
  <2>3. CASE i # k - 1
    <3>1. i \in 0..k - 2 /\ e[i + 1] = f[i + 1]
      BY <1>4, <2>3
    <3> QED BY <1>6, <2>1, <3>1
  <2> QED BY <2>2, <2>3
<1> HIDE DEF e
<1>10. e \in Iterates(X, g, a, k)
  BY <1>7, <1>8, <1>9 DEF Iterates
<1> QED BY <1>2, <1>10

Sequel(X, g, a, r) == r \in [Nat -> X] /\ r[0] = a /\ \A n \in Nat : r[n + 1] = g[r[n]]

LEMMA Iteration ==
  ASSUME NEW X, NEW g, g \in [X -> X], NEW a, a \in X
  PROVE  \E r : Sequel(X, g, a, r)
<1> DEFINE Pick(n) == CHOOSE f : f \in Iterates(X, g, a, n)
           r == [n \in Nat |-> Pick(n)[n]]
<1>1. ASSUME NEW n \in Nat PROVE Pick(n) \in Iterates(X, g, a, n)
  BY IteratesExist
<1> HIDE DEF Pick
<1>2. r \in [Nat -> X]
  <2>1. ASSUME NEW n \in Nat PROVE Pick(n)[n] \in X
    <3>1. Pick(n) \in [0..n -> X] /\ n \in 0..n
      BY <1>1 DEF Iterates
    <3> QED BY <3>1
  <2> QED BY <2>1
<1>3. r[0] = a
  BY <1>1 DEF Iterates
<1>4. ASSUME NEW n \in Nat PROVE r[n + 1] = g[r[n]]
  <2>1. r[n + 1] = Pick(n + 1)[n + 1] /\ r[n] = Pick(n)[n] /\ n + 1 \in Nat
    OBVIOUS
  <2>2. Pick(n + 1)[n + 1] = g[Pick(n + 1)[n]]
    <3>1. n \in 0..n + 1 - 1
      OBVIOUS
    <3> QED BY <1>1, <2>1, <3>1 DEF Iterates
  <2>3. Pick(n + 1)[n] = Pick(n)[n]
    BY <1>1, <2>1, IteratesAgree
  <2> QED BY <2>1, <2>2, <2>3
<1> HIDE DEF r
<1>5. Sequel(X, g, a, r)
  BY <1>2, <1>3, <1>4 DEF Sequel
<1> QED BY <1>5

\* A finite set is listed with every member.
LEMMA EveryoneListed ==
  ASSUME NEW S, IsFiniteSet(S), NEW x \in S
  PROVE  \E i \in 1..Len(SetToSeq(S)) : SetToSeq(S)[i] = x
<1>1. PICK n \in Nat : ExistsBijection(1..n, S)
  BY FS_NatBijection
<1>2. PICK f \in Bijection(1..n, S) : TRUE
  BY <1>1 DEF ExistsBijection
<1>3. Cardinality(S) = n
  BY <1>1, FS_CountingElements
<1>4. f \in [1..n -> S] /\ IsInjective(f)
  BY <1>2 DEF Bijection, Injection, IsInjective
<1> DEFINE q == SetToSeq(S)
<1>5. q \in [1..n -> S] /\ IsInjective(q)
  BY <1>3, <1>4 DEF SetToSeq
<1> HIDE DEF q
<1>6. q \in Injection(1..n, S)
  BY <1>5 DEF Injection, IsInjective
<1>7. Cardinality(1..n) = n
  BY FS_Interval
<1>8. q \in Surjection(1..n, S)
  BY <1>3, <1>6, <1>7, FS_Injection
<1>9. \E i \in 1..n : q[i] = x
  BY <1>8 DEF Surjection
<1>10. Len(q) = n
  BY <1>5
<1> QED BY <1>9, <1>10 DEF q

-------------------------------------------------------------------------------
(* Control dependence *)

\* What all ways from n to the virtual end go through.
Post(n) == {m \in Ends : PostDominates(m, n, View)}

\* A part of the graph that only leads out through m.
LeadsOnlyTo(S, m) == S \subseteq Ends \ {m, Virtual} /\ \A e \in View : e[1] \in S => e[2] \in S \union {m}

LEMMA GraphShape ==
  ASSUME reachable \subseteq Nodes
  PROVE  /\ Virtual \notin reachable /\ Virtual \in Ends /\ Ends = reachable \union {Virtual}
         /\ \A e \in View : e[1] \in reachable /\ e[2] \in Ends
         /\ \A e \in CfgEdges : e[1] \in reachable /\ e[2] \in reachable /\ <<e[1], e[2]>> \in View
<1>1. Virtual \notin reachable
  BY DependenceAssumption
<1>2. \A e \in CfgEdges : e[1] \in reachable /\ e[2] \in reachable
  BY DEF CfgEdges
<1>3. Escaping \subseteq reachable
  BY DEF Escaping
<1>4. ASSUME NEW e \in View PROVE e[1] \in reachable /\ e[2] \in Ends
  <2>1. CASE \E x \in CfgEdges : e = <<x[1], x[2]>>
    BY <1>2, <2>1 DEF Ends
  <2>2. CASE \E n \in Escaping : e = <<n, Virtual>>
    BY <1>3, <2>2 DEF Ends
  <2> QED BY <2>1, <2>2 DEF View
<1>5. \A e \in CfgEdges : <<e[1], e[2]>> \in View
  BY DEF View
<1> QED BY <1>1, <1>2, <1>4, <1>5 DEF Ends

LEMMA PostIs ==
  ASSUME NEW n, NEW m
  PROVE  m \in Post(n) <=> m \in Ends /\ (m = n \/ \E S : n \in S /\ LeadsOnlyTo(S, m))
BY DEF Post, PostDominates, LeadsOnlyTo

\* There is a way out of every part of the graph.
LEMMA NoTrap ==
  ASSUME reachable \subseteq Nodes, NEW S, S \subseteq reachable, S # {},
         \A e \in View : e[1] \in S => e[2] \in S
  PROVE  FALSE
<1>1. Virtual \notin S
  BY GraphShape
<1>2. S \intersect Escaping = {}
  <2> SUFFICES ASSUME NEW n \in S, n \in Escaping PROVE FALSE
    OBVIOUS
  <2> DEFINE e == <<n, Virtual>>
  <2>1. e \in View
    BY DEF View
  <2>2. e[1] = n /\ e[2] = Virtual
    OBVIOUS
  <2> HIDE DEF e
  <2> QED BY <1>1, <2>1, <2>2
<1>3. S \subseteq ExitReaching
  BY <1>2 DEF Escaping
<1>4. Exit \notin S
  BY <1>2 DEF Escaping
<1>5. PICK n \in S : n \in ExitReaching
  BY <1>3
<1> DEFINE back == reachable \ S
<1>6. Exit \in reachable
  BY <1>5 DEF ExitReaching
<1>7. Exit \in back
  BY <1>4, <1>6
<1>8. ASSUME NEW e \in CfgEdges, e[2] \in back PROVE e[1] \in back
  <2>1. e[1] \in reachable /\ <<e[1], e[2]>> \in View
    BY GraphShape
  <2>2. e[1] \in S => e[2] \in S
    <3> DEFINE x == <<e[1], e[2]>>
    <3>1. x[1] = e[1] /\ x[2] = e[2] /\ x \in View
      BY <2>1
    <3> HIDE DEF x
    <3> QED BY <3>1
  <2> QED BY <1>8, <2>1, <2>2
<1>9. back \in SUBSET reachable
  OBVIOUS
<1>10. n \in back
  <2> HIDE DEF back
  <2> QED BY <1>5, <1>7, <1>8, <1>9 DEF ExitReaching
<1> QED BY <1>5, <1>10

LEMMA PostEnds ==
  ASSUME reachable \subseteq Nodes, NEW n \in Ends
  PROVE  n \in Post(n) /\ Virtual \in Post(n) /\ Post(n) \subseteq Ends /\ Post(Virtual) = {Virtual}
<1>1. n \in Post(n) /\ Post(n) \subseteq Ends
  BY PostIs DEF Post
<1>2. Virtual \in Post(n)
  <2>1. CASE n = Virtual
    BY <1>1, <2>1
  <2>2. CASE n # Virtual
    <3>1. n \in reachable /\ LeadsOnlyTo(reachable, Virtual)
      BY <2>2, GraphShape DEF LeadsOnlyTo
    <3> QED BY <3>1, PostIs, GraphShape
  <2> QED BY <2>1, <2>2
<1>3. Post(Virtual) = {Virtual}
  <2>1. ASSUME NEW m \in Post(Virtual) PROVE m = Virtual
    <3>1. \A S : LeadsOnlyTo(S, m) => Virtual \notin S
      BY DEF LeadsOnlyTo
    <3> QED BY <3>1, PostIs
  <2>2. Virtual \in Post(Virtual)
    BY PostIs, GraphShape
  <2> QED BY <2>1, <2>2
<1> QED BY <1>1, <1>2, <1>3

LEMMA PostTransitive ==
  ASSUME reachable \subseteq Nodes, NEW a, NEW b \in Post(a), NEW c \in Post(b)
  PROVE  c \in Post(a)
<1>1. c \in Ends /\ b \in Ends
  BY PostIs
<1>2. CASE a = b \/ b = c \/ a = c
  BY <1>1, <1>2, PostIs
<1>3. CASE a # b /\ b # c /\ a # c
  <2>1. PICK S : a \in S /\ LeadsOnlyTo(S, b)
    BY <1>3, PostIs
  <2>2. PICK T : b \in T /\ LeadsOnlyTo(T, c)
    BY <1>3, PostIs
  <2> DEFINE U == (S \ {c}) \union T
  <2>3. a \in U /\ U \subseteq Ends \ {c, Virtual}
    BY <1>3, <2>1, <2>2 DEF LeadsOnlyTo
  <2>4. ASSUME NEW e \in View, e[1] \in U PROVE e[2] \in U \union {c}
    BY <2>1, <2>2, <2>4 DEF LeadsOnlyTo
  <2>5. LeadsOnlyTo(U, c)
    BY <2>3, <2>4 DEF LeadsOnlyTo
  <2> QED BY <1>1, <2>3, <2>5, PostIs
<1> QED BY <1>2, <1>3

LEMMA PostAntisymmetric ==
  ASSUME reachable \subseteq Nodes, NEW a, NEW b, a \in Post(b), b \in Post(a)
  PROVE  a = b
<1> SUFFICES ASSUME a # b PROVE FALSE
  OBVIOUS
<1>1. PICK S : a \in S /\ LeadsOnlyTo(S, b)
  BY PostIs
<1>2. PICK T : b \in T /\ LeadsOnlyTo(T, a)
  BY PostIs
<1> DEFINE U == S \union T
<1>3. U \subseteq reachable /\ U # {}
  BY <1>1, <1>2, GraphShape DEF LeadsOnlyTo
<1>4. ASSUME NEW e \in View, e[1] \in U PROVE e[2] \in U
  BY <1>1, <1>2, <1>4 DEF LeadsOnlyTo
<1> HIDE DEF U
<1> QED BY <1>3, <1>4, NoTrap

\* What post-dominates one node forms a chain.
LEMMA PostChain ==
  ASSUME reachable \subseteq Nodes, NEW n, NEW a \in Post(n), NEW b \in Post(n)
  PROVE  b \in Post(a) \/ a \in Post(b)
<1>1. a \in Ends /\ b \in Ends
  BY PostIs
<1>2. CASE a = n \/ b = n \/ a = b
  BY <1>1, <1>2, PostIs
<1>3. CASE a # n /\ b # n /\ a # b
  <2>1. PICK S : n \in S /\ LeadsOnlyTo(S, a)
    BY <1>3, PostIs
  <2>2. PICK T : n \in T /\ LeadsOnlyTo(T, b)
    BY <1>3, PostIs
  <2>3. CASE a \in T
    BY <1>1, <2>2, <2>3, PostIs
  <2>4. CASE b \in S
    BY <1>1, <2>1, <2>4, PostIs
  <2>5. CASE a \notin T /\ b \notin S
    <3> DEFINE U == S \intersect T
    <3>1. U \subseteq reachable /\ U # {}
      BY <2>1, <2>2, GraphShape DEF LeadsOnlyTo
    <3>2. ASSUME NEW e \in View, e[1] \in U PROVE e[2] \in U
      BY <1>3, <2>1, <2>2, <2>5, <3>2 DEF LeadsOnlyTo
    <3> HIDE DEF U
    <3> QED BY <3>1, <3>2, NoTrap
  <2> QED BY <2>3, <2>4, <2>5
<1> QED BY <1>2, <1>3

Parents == ImmediatePost(PostDominators)

LEMMA PostOf ==
  ASSUME NEW n \in Ends
  PROVE  PostDominators[n] = Post(n)
BY DEF PostDominators, Post

\* The nearest one exists, and behind it lies all the rest.
LEMMA ParentIs ==
  ASSUME reachable \subseteq Nodes, IsFiniteSet(Ends), NEW n \in reachable
  PROVE  Parents[n] \in Ends /\ Post(Parents[n]) = Post(n) \ {n}
<1> DEFINE S == Post(n) \ {n}
           F == {Ends \ Post(m) : m \in S}
<1>1. n \in Ends /\ n # Virtual
  BY GraphShape
<1>2. Virtual \in S /\ S \subseteq Ends
  BY <1>1, PostEnds
<1>3. F \subseteq SUBSET Ends /\ F # {}
  BY <1>2
<1>4. PICK A \in F : \A B \in F : B \subseteq A => B = A
  <2> HIDE DEF F, S
  <2> QED BY <1>3, SmallestSubset
<1>5. PICK m \in S : A = Ends \ Post(m)
  BY <1>4
<1>6. ASSUME NEW b \in S PROVE b \in Post(m)
  <2>1. b \in Post(m) \/ m \in Post(b)
    BY PostChain
  <2>2. CASE m \in Post(b)
    <3>1. Post(m) \subseteq Post(b)
      BY <2>2, PostTransitive
    <3>2. Ends \ Post(b) \in F /\ Ends \ Post(b) \subseteq A
      BY <1>5, <3>1
    <3>3. Ends \ Post(b) = A
      BY <1>4, <3>2
    <3>4. b \in Post(b) /\ b \in Ends
      BY <1>2, PostEnds
    <3> QED BY <1>5, <3>3, <3>4
  <2> QED BY <2>1, <2>2
<1> DEFINE p == CHOOSE x \in S : S \subseteq PostDominators[x]
<1>7. p \in S /\ S \subseteq Post(p)
  <2>1. \E x \in S : S \subseteq PostDominators[x]
    BY <1>2, <1>6, PostOf
  <2> HIDE DEF S
  <2>2. p \in S /\ S \subseteq PostDominators[p]
    BY <2>1
  <2> QED BY <1>2, <2>2, PostOf
<1>8. Parents[n] = p
  <2>1. Parents[n] = CHOOSE x \in PostDominators[n] \ {n} : PostDominators[n] \ {n} \subseteq PostDominators[x]
    BY DEF Parents, ImmediatePost
  <2>2. PostDominators[n] = Post(n)
    BY <1>1, PostOf
  <2> QED BY <2>1, <2>2
<1> HIDE DEF p
<1>9. Post(p) \subseteq Post(n)
  BY <1>7, PostTransitive
<1>10. n \notin Post(p)
  <2> SUFFICES ASSUME n \in Post(p) PROVE FALSE
    OBVIOUS
  <2>1. p \in Post(n) /\ p # n
    BY <1>7
  <2> QED BY <2>1, PostAntisymmetric
<1> QED BY <1>2, <1>7, <1>8, <1>9, <1>10

\* What follows certainly behind a node follows behind its successors.
LEMMA PostCarried ==
  ASSUME reachable \subseteq Nodes, NEW e \in View, NEW n \in Post(e[1]), n # e[1]
  PROVE  n \in Post(e[2])
<1>1. PICK S : e[1] \in S /\ LeadsOnlyTo(S, n)
  BY PostIs
<1>2. n \in Ends /\ e[2] \in S \union {n}
  BY <1>1, PostIs DEF LeadsOnlyTo
<1> QED BY <1>1, <1>2, PostIs

\* ... and what follows certainly behind all of them lies behind the nearest.
LEMMA PostGathered ==
  ASSUME reachable \subseteq Nodes, IsFiniteSet(Ends), NEW u \in reachable, NEW n \in reachable
  PROVE  n \in Post(Parents[u]) <=> \A v \in View : v[1] = u => n \in Post(v[2])
<1>1. Post(Parents[u]) = Post(u) \ {u}
  BY ParentIs
<1>2. ASSUME n \in Post(u) \ {u}, NEW v \in View, v[1] = u PROVE n \in Post(v[2])
  BY <1>2, PostCarried
<1>3. ASSUME \A v \in View : v[1] = u => n \in Post(v[2]) PROVE n \in Post(u) \ {u}
  <2> DEFINE W == {x \in Ends \ {n, Virtual} : n \in Post(x)}
  <2>1. n \in Ends /\ n # Virtual /\ u \in Ends /\ u # Virtual
    BY GraphShape
  <2>2. ASSUME NEW e \in View, e[1] \in W \union {u} PROVE e[2] \in W \union {n}
    <3>1. e[2] \in Ends
      BY GraphShape
    <3>2. n \in Post(e[2])
      <4>1. CASE e[1] = u
        BY <1>3, <4>1
      <4>2. CASE e[1] # u
        <5>1. n \in Post(e[1]) /\ n # e[1]
          BY <2>2, <4>2
        <5> QED BY <5>1, PostCarried
      <4> QED BY <4>1, <4>2
    <3>3. e[2] # Virtual
      BY <2>1, <3>2, PostEnds
    <3> QED BY <3>1, <3>2, <3>3
  <2>3. u # n
    <3> SUFFICES ASSUME u = n PROVE FALSE
      OBVIOUS
    <3> DEFINE U == W \union {u}
    <3>1. U \subseteq reachable /\ U # {}
      BY GraphShape
    <3>2. \A e \in View : e[1] \in U => e[2] \in U
      BY <2>2
    <3> HIDE DEF U
    <3> QED BY <3>1, <3>2, NoTrap
  <2>4. n \in Post(u)
    <3> DEFINE U == W \union {u}
    <3>1. U \subseteq Ends \ {n, Virtual}
      BY <2>1, <2>3
    <3>2. \A e \in View : e[1] \in U => e[2] \in U \union {n}
      BY <2>2
    <3>3. u \in U
      OBVIOUS
    <3> HIDE DEF U
    <3>4. LeadsOnlyTo(U, n)
      BY <3>1, <3>2 DEF LeadsOnlyTo
    <3> QED BY <2>1, <3>3, <3>4, PostIs
  <2> QED BY <2>3, <2>4
<1> QED BY <1>1, <1>2, <1>3

-------------------------------------------------------------------------------
(* The walk up the tree *)

Upwards(x, stop) == IF x \in stop THEN x ELSE Parents[x]

\* How far the walk from t towards p has come after k steps.
OnTheWay(t, p, r, k) ==
  /\ r[k] \in Post(t) /\ p \in Post(r[k])
  /\ \A n \in Post(t) : n \in Post(r[k]) \/ \E j \in 0..k : r[j] = n /\ n \notin {p, Virtual}
  /\ r[k] \notin {p, Virtual} => Cardinality(Post(r[k])) + k <= Cardinality(Post(t))

LEMMA WalkStep ==
  ASSUME reachable \subseteq Nodes, IsFiniteSet(Ends), NEW t \in Ends, NEW p, NEW r, NEW k \in Nat,
         OnTheWay(t, p, r, k), r[k + 1] = Upwards(r[k], {p, Virtual})
  PROVE  OnTheWay(t, p, r, k + 1)
<1>1. /\ r[k] \in Post(t) /\ p \in Post(r[k])
      /\ \A n \in Post(t) : n \in Post(r[k]) \/ \E j \in 0..k : r[j] = n /\ n \notin {p, Virtual}
      /\ r[k] \notin {p, Virtual} => Cardinality(Post(r[k])) + k <= Cardinality(Post(t))
  BY DEF OnTheWay
<1>2. 0..k \subseteq 0..k + 1
  OBVIOUS
<1>3. CASE r[k] \in {p, Virtual}
  <2>1. r[k + 1] = r[k]
    BY <1>3 DEF Upwards
  <2> QED BY <1>1, <1>2, <1>3, <2>1 DEF OnTheWay
<1>4. CASE r[k] \notin {p, Virtual}
  <2> DEFINE x == r[k]
             y == r[k + 1]
  <2>1. x \in reachable /\ y = Parents[x]
    BY <1>1, <1>4, PostEnds, GraphShape DEF Upwards
  <2>2. y \in Ends /\ Post(y) = Post(x) \ {x}
    BY <2>1, ParentIs
  <2>3. y \in Post(y) /\ x \in Post(x)
    BY <2>1, <2>2, PostEnds, GraphShape
  <2>4. y \in Post(t)
    BY <1>1, <2>2, <2>3, PostTransitive
  <2>5. p \in Post(y)
    BY <1>1, <1>4, <2>2
  <2>6. ASSUME NEW n \in Post(t)
        PROVE  n \in Post(y) \/ \E j \in 0..k + 1 : r[j] = n /\ n \notin {p, Virtual}
    <3>1. CASE n \in Post(x) /\ n # x
      BY <2>2, <3>1
    <3>2. CASE n = x
      <4>1. k \in 0..k + 1
        OBVIOUS
      <4> QED BY <1>4, <3>2, <4>1
    <3>3. CASE n \notin Post(x)
      BY <1>1, <1>2, <3>3
    <3> QED BY <3>1, <3>2, <3>3
  <2>7. Cardinality(Post(y)) + (k + 1) <= Cardinality(Post(t))
    <3>1. IsFiniteSet(Post(x)) /\ IsFiniteSet(Post(t))
      BY FS_Subset DEF Post
    <3>2. /\ Cardinality(Post(x)) \in Nat /\ Cardinality(Post(t)) \in Nat
          /\ Cardinality(Post(x) \ {x}) = Cardinality(Post(x)) - 1
      BY <2>3, <3>1, FS_CardinalityType, FS_RemoveElement
    <3>3. Cardinality(Post(x)) + k <= Cardinality(Post(t))
      BY <1>1, <1>4
    <3> QED BY <2>2, <3>2, <3>3
  <2> QED BY <2>4, <2>5, <2>6, <2>7 DEF OnTheWay
<1> QED BY <1>3, <1>4

LEMMA WalkOnTheWay ==
  ASSUME reachable \subseteq Nodes, IsFiniteSet(Ends), NEW t \in Ends, NEW p \in Post(t), NEW r, NEW m \in Nat,
         r[0] = t, \A k \in 0..m - 1 : r[k + 1] = Upwards(r[k], {p, Virtual}), NEW k \in 0..m
  PROVE  OnTheWay(t, p, r, k)
<1> DEFINE Bad == {i \in 0..m : ~OnTheWay(t, p, r, i)}
<1>1. SUFFICES ASSUME Bad # {} PROVE FALSE
  OBVIOUS
<1>2. PICK i \in Bad : \A j \in Bad : i <= j
  <2>1. Bad \subseteq Nat
    OBVIOUS
  <2> HIDE DEF Bad
  <2> QED BY <1>1, <2>1, SmallestNumber
<1>3. OnTheWay(t, p, r, 0)
  <2>1. t \in Post(t)
    BY PostEnds
  <2>2. IsFiniteSet(Post(t))
    BY FS_Subset DEF Post
  <2>3. Cardinality(Post(t)) \in Nat
    BY <2>2, FS_CardinalityType
  <2> QED BY <2>1, <2>3 DEF OnTheWay
<1>4. i # 0 /\ i \in 0..m
  BY <1>3
<1>5. i - 1 \in 0..m - 1 /\ i - 1 \in 0..m /\ i - 1 \in Nat /\ i - 1 + 1 = i /\ i - 1 \notin Bad
  BY <1>2, <1>4
<1>6. OnTheWay(t, p, r, i - 1) /\ r[i - 1 + 1] = Upwards(r[i - 1], {p, Virtual})
  BY <1>5
<1>7. OnTheWay(t, p, r, i - 1 + 1)
  BY <1>5, <1>6, WalkStep
<1> QED BY <1>2, <1>5, <1>7

\* The walk of an edge, step by step.
LEMMA RunnerIs ==
  ASSUME reachable \subseteq Nodes, IsFiniteSet(Ends), IsFiniteSet(Nodes), NEW e \in CfgEdges
  PROVE  \E r : /\ r[0] = e[2]
                /\ \A k \in 0..Cardinality(Nodes) - 1 : r[k + 1] = Upwards(r[k], {Parents[e[1]], Virtual})
                /\ Walk(e, Parents) = {r[k] : k \in 0..Cardinality(Nodes)} \ {Parents[e[1]], Virtual}
<1> DEFINE m == Cardinality(Nodes)
           t == e[2]
           stop == {Parents[e[1]], Virtual}
           X == Ends
           g == [x \in X |-> Upwards(x, stop)]
           Runs(r) == r = [k \in 0..m |-> IF k = 0 THEN t
                                          ELSE IF r[k - 1] \in stop THEN r[k - 1] ELSE Parents[r[k - 1]]]
<1>1. m \in Nat
  BY FS_CardinalityType
<1>2. t \in X
  BY GraphShape
<1>3. g \in [X -> X]
  <2>1. ASSUME NEW x \in X PROVE Upwards(x, stop) \in X
    <3>1. x \in reachable \/ x = Virtual
      BY GraphShape
    <3> QED BY <3>1, ParentIs DEF Upwards
  <2> QED BY <2>1
<1> HIDE DEF m, t, X, g
<1>4. PICK f : f \in Iterates(X, g, t, m)
  BY <1>1, <1>2, <1>3, IteratesExist
<1>5. f \in [0..m -> X] /\ f[0] = t /\ \A i \in 0..m - 1 : f[i + 1] = g[f[i]]
  BY <1>4 DEF Iterates
<1>6. Runs(f)
  <2>1. ASSUME NEW k \in 0..m, k # 0 PROVE f[k] = Upwards(f[k - 1], stop)
    <3>1. k - 1 \in 0..m - 1 /\ k - 1 \in 0..m /\ k - 1 + 1 = k
      BY <1>1, <2>1
    <3>2. f[k] = g[f[k - 1]] /\ f[k - 1] \in X
      BY <1>5, <3>1
    <3> QED BY <3>2 DEF g
  <2>2. f = [k \in 0..m |-> IF k = 0 THEN t ELSE Upwards(f[k - 1], stop)]
    BY <1>5, <2>1
  <2> QED BY <2>2 DEF Upwards
<1> DEFINE r == CHOOSE r : Runs(r)
<1>7. Runs(r)
  <2> HIDE DEF Runs
  <2> QED BY <1>6
<1>8. Walk(e, Parents) = {r[k] : k \in 0..m} \ stop
  BY DEF Walk, Stop, m, t
<1>9. r = [k \in 0..m |-> IF k = 0 THEN t ELSE Upwards(r[k - 1], stop)]
  <2> HIDE DEF r
  <2> QED BY <1>7 DEF Upwards
<1> HIDE DEF r, Runs
<1> HIDE DEF stop
<1>12. \A i \in 0..m : i # 0 => r[i] = Upwards(r[i - 1], stop)
  BY <1>9
<1>10. r[0] = t
  <2>1. 0 \in 0..m
    BY <1>1
  <2> QED BY <1>9, <2>1
<1>11. ASSUME NEW k \in 0..m - 1 PROVE r[k + 1] = Upwards(r[k], stop)
  <2>1. k + 1 \in 0..m /\ k + 1 # 0 /\ k + 1 - 1 = k
    BY <1>1
  <2>2. r[k + 1] = Upwards(r[k + 1 - 1], stop)
    BY <1>12, <2>1
  <2> QED BY <2>1, <2>2
<1> QED BY <1>8, <1>10, <1>11 DEF m, t, stop

LEMMA WalkIsBranch ==
  ASSUME reachable \subseteq Nodes, NEW e \in CfgEdges
  PROVE  Walk(e, Parents) = {n \in reachable : n \in Post(e[2]) /\ n \notin Post(Parents[e[1]])}
<1> DEFINE m == Cardinality(Nodes)
           t == e[2]
           p == Parents[e[1]]
           stop == {p, Virtual}
<1>1. IsFiniteSet(Nodes) /\ Virtual \notin Nodes
  BY DependenceAssumption
<1>2. IsFiniteSet(reachable) /\ Cardinality(reachable) <= m /\ m \in Nat /\ Virtual \notin reachable
  BY <1>1, FS_Subset, FS_CardinalityType
<1>3. IsFiniteSet(Ends) /\ Cardinality(Ends) = Cardinality(reachable) + 1
  BY <1>2, FS_AddElement DEF Ends
<1>4. t \in Ends /\ t \in reachable /\ e[1] \in reachable
  BY GraphShape
<1>5. p \in Ends
  BY <1>3, <1>4, ParentIs
<1>6. p \in Post(t)
  <2>1. Post(p) = Post(e[1]) \ {e[1]} /\ p \in Post(p)
    BY <1>3, <1>4, <1>5, ParentIs, PostEnds
  <2> DEFINE v == <<e[1], e[2]>>
  <2>2. v \in View /\ v[1] = e[1] /\ v[2] = e[2]
    BY GraphShape
  <2> HIDE DEF v, p
  <2> QED BY <2>1, <2>2, PostCarried
<1>7. PICK r : /\ r[0] = t
               /\ \A k \in 0..m - 1 : r[k + 1] = Upwards(r[k], stop)
               /\ Walk(e, Parents) = {r[k] : k \in 0..m} \ stop
  BY <1>1, <1>3, RunnerIs
<1> HIDE DEF m, t, p
<1>8. ASSUME NEW k \in 0..m PROVE OnTheWay(t, p, r, k)
  BY <1>2, <1>3, <1>4, <1>6, <1>7, WalkOnTheWay
<1>9. r[m] = p
  <2>1. OnTheWay(t, p, r, m)
    BY <1>2, <1>8
  <2>2. /\ r[m] \in Post(t) /\ p \in Post(r[m])
        /\ r[m] \notin stop => Cardinality(Post(r[m])) + m <= Cardinality(Post(t))
    BY <2>1 DEF OnTheWay
  <2>3. r[m] \in Ends
    BY <2>2, PostIs
  <2>4. r[m] = Virtual => p = Virtual
    BY <2>2, PostEnds, GraphShape
  <2>5. r[m] \in stop
    <3> SUFFICES ASSUME r[m] \notin stop PROVE FALSE
      OBVIOUS
    <3>1. {r[m], Virtual} \subseteq Post(r[m]) /\ r[m] # Virtual
      BY <2>3, PostEnds
    <3>2. IsFiniteSet(Post(r[m])) /\ IsFiniteSet(Post(t)) /\ Cardinality(Post(t)) <= Cardinality(Ends)
      BY <1>3, FS_Subset DEF Post
    <3>3. Cardinality({r[m], Virtual}) = 2
      <4>1. Cardinality({r[m]}) = 1 /\ IsFiniteSet({r[m]}) /\ Virtual \notin {r[m]}
        BY <3>1, FS_Singleton
      <4>2. Cardinality({r[m]} \union {Virtual}) = 2
        BY <4>1, FS_AddElement
      <4>3. {r[m]} \union {Virtual} = {r[m], Virtual}
        OBVIOUS
      <4> QED BY <4>2, <4>3
    <3>4. 2 <= Cardinality(Post(r[m]))
      BY <3>1, <3>2, <3>3, FS_Subset
    <3>5. /\ Cardinality(Post(r[m])) \in Nat /\ Cardinality(Post(t)) \in Nat /\ Cardinality(reachable) \in Nat
      BY <1>2, <3>2, FS_CardinalityType
    <3> QED BY <1>2, <1>3, <2>2, <3>2, <3>4, <3>5
  <2> QED BY <2>4, <2>5
<1>10. ASSUME NEW n \in Walk(e, Parents) PROVE n \in reachable /\ n \in Post(t) /\ n \notin Post(p)
  <2>1. PICK k \in 0..m : n = r[k]
    BY <1>7
  <2>2. n \notin stop
    BY <1>7
  <2>3. n \in Post(t) /\ p \in Post(n)
    BY <1>8, <2>1 DEF OnTheWay
  <2>4. n \in reachable
    BY <2>2, <2>3, PostIs, GraphShape
  <2>5. n \notin Post(p)
    BY <2>2, <2>3, PostAntisymmetric
  <2> QED BY <2>3, <2>4, <2>5
<1>11. ASSUME NEW n \in reachable, n \in Post(t), n \notin Post(p) PROVE n \in Walk(e, Parents)
  <2>1. OnTheWay(t, p, r, m)
    BY <1>2, <1>8
  <2>2. PICK j \in 0..m : r[j] = n /\ n \notin stop
    BY <1>9, <1>11, <2>1 DEF OnTheWay
  <2> QED BY <1>7, <2>2
<1> QED BY <1>10, <1>11 DEF t, p

LEMMA BranchesDecide ==
  ASSUME reachable \subseteq Nodes
  PROVE  DependsOnTheBranch
<1>1. SUFFICES ASSUME NEW e \in CfgEdges
               PROVE  Walk(e, Parents) = {n \in reachable : /\ n \in PostDominators[e[2]]
                                             /\ \E v \in View : v[1] = e[1] /\ n \notin PostDominators[v[2]]}
  BY DEF DependsOnTheBranch, Parents
<1>2. e[1] \in reachable /\ e[2] \in Ends /\ \A v \in View : v[2] \in Ends
  BY GraphShape
<1>3. PostDominators[e[2]] = Post(e[2]) /\ \A v \in View : PostDominators[v[2]] = Post(v[2])
  BY <1>2, PostOf
<1>4. IsFiniteSet(Ends)
  <2>1. IsFiniteSet(reachable)
    BY DependenceAssumption, FS_Subset
  <2> QED BY <2>1, FS_AddElement DEF Ends
<1>5. \A n \in reachable : n \notin Post(Parents[e[1]]) <=> \E v \in View : v[1] = e[1] /\ n \notin Post(v[2])
  BY <1>2, <1>4, PostGathered
<1>6. Walk(e, Parents) = {n \in reachable : n \in Post(e[2]) /\ n \notin Post(Parents[e[1]])}
  BY WalkIsBranch
<1> QED BY <1>3, <1>5, <1>6

\* The walk up the tree of post-dominators from an edge finds exactly the nodes whose
\* execution the edge makes certain and another way out of its source leaves open, for
\* every control-flow graph, with or without a way to the exit.
THEOREM DependenceIsExact == FlowSpec => []DependsOnTheBranch
<1>1. FlowInv => DependsOnTheBranch
  BY BranchesDecide DEF FlowInv, FlowTypeOK
<1> QED BY <1>1, FlowInvariance, PTL

-------------------------------------------------------------------------------
(* Finite sets put in order *)

StrictOrder(R, S) ==
  /\ \A e \in S : <<e, e>> \notin R
  /\ \A e, f, g \in S : <<e, f>> \in R /\ <<f, g>> \in R => <<e, g>> \in R
  /\ \A e, f \in S : e # f => <<e, f>> \in R \/ <<f, e>> \in R

\* The list that has at each place the element with as many before it as there
\* are places before.
ByPlace(S, R) ==
  [n \in 1..Cardinality(S) |-> CHOOSE e \in S : Cardinality({f \in S : <<f, e>> \in R}) = n - 1]

\* A list that names every element of a set once.
NamesEachOnce(L, S) ==
  /\ Cardinality(S) \in Nat
  /\ L \in [1..Cardinality(S) -> S]
  /\ \A e \in S : \E n \in 1..Cardinality(S) : L[n] = e
  /\ \A m, n \in 1..Cardinality(S) : L[m] = L[n] => m = n

\* In a finite set with a strict order every element has a place of its own: it
\* is the n-th when n - 1 elements come before it, and no place is empty.
LEMMA EveryPlaceIsTaken ==
  ASSUME NEW S, IsFiniteSet(S), NEW R, StrictOrder(R, S)
  PROVE  /\ Cardinality(S) \in Nat
         /\ \A n \in 1..Cardinality(S) :
              \E e \in S : Cardinality({f \in S : <<f, e>> \in R}) = n - 1
         /\ \A e, g \in S :
              Cardinality({f \in S : <<f, e>> \in R}) = Cardinality({f \in S : <<f, g>> \in R}) => e = g
<1> USE DEF StrictOrder
<1> DEFINE Behind(e) == {f \in S : <<f, e>> \in R}
           rank == [e \in S |-> Cardinality(Behind(e)) + 1]
           T == 1..Cardinality(S)
<1>1. Cardinality(S) \in Nat
  BY FS_CardinalityType
<1>2. \A e \in S : IsFiniteSet(Behind(e)) /\ Cardinality(Behind(e)) \in Nat
                   /\ Cardinality(Behind(e)) < Cardinality(S)
  <2> SUFFICES ASSUME NEW e \in S
               PROVE  IsFiniteSet(Behind(e)) /\ Cardinality(Behind(e)) \in Nat
                      /\ Cardinality(Behind(e)) < Cardinality(S)
    OBVIOUS
  <2>1. IsFiniteSet(Behind(e)) /\ Cardinality(Behind(e)) <= Cardinality(S)
        /\ (Cardinality(S) = Cardinality(Behind(e)) => S = Behind(e))
    BY FS_Subset
  <2>2. S # Behind(e)
    OBVIOUS
  <2>3. Cardinality(Behind(e)) \in Nat
    BY <2>1, FS_CardinalityType
  <2> QED BY <1>1, <2>1, <2>2, <2>3
<1>3. \A e, g \in S : <<e, g>> \in R => Cardinality(Behind(e)) < Cardinality(Behind(g))
  <2> SUFFICES ASSUME NEW e \in S, NEW g \in S, <<e, g>> \in R
               PROVE  Cardinality(Behind(e)) < Cardinality(Behind(g))
    OBVIOUS
  <2>1. Behind(e) \subseteq Behind(g) /\ e \in Behind(g) /\ e \notin Behind(e)
    OBVIOUS
  <2>2. /\ Cardinality(Behind(e)) <= Cardinality(Behind(g))
        /\ Cardinality(Behind(g)) = Cardinality(Behind(e)) => Behind(g) = Behind(e)
    BY <1>2, <2>1, FS_Subset
  <2> HIDE DEF Behind
  <2> QED BY <1>2, <2>1, <2>2
<1>4. \A e, g \in S : Cardinality(Behind(e)) = Cardinality(Behind(g)) => e = g
  <2> SUFFICES ASSUME NEW e \in S, NEW g \in S, e # g,
                      Cardinality(Behind(e)) = Cardinality(Behind(g))
               PROVE  FALSE
    OBVIOUS
  <2>1. Cardinality(Behind(e)) < Cardinality(Behind(g))
        \/ Cardinality(Behind(g)) < Cardinality(Behind(e))
    BY <1>3
  <2> HIDE DEF Behind
  <2> QED BY <1>2, <2>1
<1>5. rank \in Injection(S, T)
  <2>1. rank \in [S -> T]
    <3> HIDE DEF Behind
    <3> QED BY <1>1, <1>2
  <2>2. \A e, g \in S : rank[e] = rank[g] => e = g
    <3> HIDE DEF Behind
    <3> QED BY <1>2, <1>4
  <2> HIDE DEF rank, T
  <2> QED BY <2>1, <2>2 DEF Injection, IsInjective
<1>6. IsFiniteSet(T) /\ Cardinality(T) = Cardinality(S)
  BY <1>1, FS_Interval
<1>7. rank \in Surjection(S, T)
  <2> HIDE DEF rank, T
  <2> QED BY <1>5, <1>6, FS_Injection
<1>8. \A n \in T : \E e \in S : rank[e] = n
  <2> HIDE DEF rank, T
  <2> QED BY <1>7 DEF Surjection
<1>9. \A n \in 1..Cardinality(S) : \E e \in S : Cardinality(Behind(e)) = n - 1
  <2> SUFFICES ASSUME NEW n \in 1..Cardinality(S)
               PROVE  \E e \in S : Cardinality(Behind(e)) = n - 1
    OBVIOUS
  <2> HIDE DEF Behind
  <2>1. PICK e \in S : rank[e] = n
    BY <1>8
  <2> QED BY <1>1, <1>2, <2>1
<1> QED BY <1>1, <1>4, <1>9

LEMMA ListedByPlace ==
  ASSUME NEW S, IsFiniteSet(S), NEW R, StrictOrder(R, S)
  PROVE  NamesEachOnce(ByPlace(S, R), S)
<1> USE DEF StrictOrder
<1> DEFINE L == ByPlace(S, R)
<1> DEFINE Behind(e) == {f \in S : <<f, e>> \in R}
           N == 1..Cardinality(S)
<1>1. /\ Cardinality(S) \in Nat
      /\ \A n \in N : \E e \in S : Cardinality(Behind(e)) = n - 1
      /\ \A e, g \in S : Cardinality(Behind(e)) = Cardinality(Behind(g)) => e = g
  BY EveryPlaceIsTaken
<1>2. \A n \in N : L[n] \in S /\ Cardinality(Behind(L[n])) = n - 1
  <2> SUFFICES ASSUME NEW n \in N PROVE L[n] \in S /\ Cardinality(Behind(L[n])) = n - 1
    OBVIOUS
  <2>1. L[n] = CHOOSE e \in S : Cardinality(Behind(e)) = n - 1
    BY DEF ByPlace
  <2> HIDE DEF Behind, N, L
  <2> QED BY <1>1, <2>1
<1>3. L \in [N -> S]
  <2> DEFINE At(n) == CHOOSE e \in S : Cardinality(Behind(e)) = n - 1
  <2>1. L = [n \in N |-> At(n)]
    BY DEF ByPlace
  <2> HIDE DEF At, Behind, N, L
  <2> QED BY <1>2, <2>1
<1>4. \A e \in S : Cardinality(Behind(e)) + 1 \in N /\ Cardinality(Behind(e)) \in Nat
  <2> SUFFICES ASSUME NEW e \in S
               PROVE  Cardinality(Behind(e)) + 1 \in N /\ Cardinality(Behind(e)) \in Nat
    OBVIOUS
  <2>1. Behind(e) \subseteq S /\ e \notin Behind(e)
    OBVIOUS
  <2> HIDE DEF Behind
  <2>2. /\ IsFiniteSet(Behind(e)) /\ Cardinality(Behind(e)) <= Cardinality(S)
        /\ Cardinality(S) = Cardinality(Behind(e)) => S = Behind(e)
    BY <2>1, FS_Subset
  <2>3. Cardinality(Behind(e)) \in Nat
    BY <2>2, FS_CardinalityType
  <2> QED BY <1>1, <2>1, <2>2, <2>3
<1>5. \A e \in S : \E n \in N : L[n] = e
  <2> SUFFICES ASSUME NEW e \in S PROVE \E n \in N : L[n] = e
    OBVIOUS
  <2> DEFINE k == Cardinality(Behind(e)) + 1
  <2>1. k \in N
    BY <1>4
  <2>2. L[k] \in S /\ Cardinality(Behind(L[k])) = k - 1
    BY <1>2, <2>1, Zenon
  <2>3. k - 1 = Cardinality(Behind(e))
    <3> HIDE DEF Behind
    <3> QED BY <1>4
  <2>4. L[k] = e
    <3> HIDE DEF Behind, k, L
    <3> QED BY <1>1, <2>2, <2>3
  <2> QED BY <2>1, <2>4, Zenon
<1>6. \A m, n \in N : L[m] = L[n] => m = n
  <2> SUFFICES ASSUME NEW m \in N, NEW n \in N, L[m] = L[n] PROVE m = n
    OBVIOUS
  <2>1. Cardinality(Behind(L[m])) = m - 1 /\ Cardinality(Behind(L[n])) = n - 1
    BY <1>2, Zenon
  <2>2. m \in Int /\ n \in Int
    BY <1>1
  <2> HIDE DEF Behind, N, L
  <2> QED BY <2>1, <2>2
<1> QED BY <1>1, <1>3, <1>5, <1>6 DEF NamesEachOnce

-------------------------------------------------------------------------------
(* Calls and chains of calls *)

\* The program the search is about.
Given == calls \in CallGraphs /\ targets \in TargetSets

LEMMA CallsAreTriples ==
  ASSUME Given
  PROVE  /\ IsFiniteSet(calls)
         /\ calls \subseteq Routines \X Routines \X Nat
         /\ targets \subseteq Routines
         /\ Routines \subseteq Nat /\ Source \in Routines
BY PathAssumption DEF Given

\* The sorted list of calls names each of them once.
LEMMA ExtensionsAreListed ==
  ASSUME Given, NEW path
  PROVE  NamesEachOnce(Extensions(path), NewCalls(path))
<1> DEFINE S == NewCalls(path)
           R == {p \in S \X S : SortedBefore(p[1], p[2])}
<1>1. IsFiniteSet(S) /\ S \subseteq calls
  BY CallsAreTriples, FS_Subset DEF NewCalls
<1>2. \A e \in S : e \in Nat \X Nat \X Nat /\ e[1] = End(path)
  BY CallsAreTriples DEF NewCalls
<1>3. \A e, f \in S : <<e, f>> \in R <=> SortedBefore(e, f)
  OBVIOUS
<1>4. /\ \A e \in S : ~SortedBefore(e, e)
      /\ \A e, f, g \in S : SortedBefore(e, f) /\ SortedBefore(f, g) => SortedBefore(e, g)
      /\ \A e, f \in S : e # f => SortedBefore(e, f) \/ SortedBefore(f, e)
  <2> HIDE DEF S
  <2> QED BY <1>2 DEF SortedBefore
<1>5. StrictOrder(R, S)
  <2> HIDE DEF S, R
  <2> QED BY <1>3, <1>4 DEF StrictOrder
<1>6. \A e \in S : {f \in S : <<f, e>> \in R} = {f \in S : SortedBefore(f, e)}
  BY <1>3
<1>7. Extensions(path) = ByPlace(S, R)
  <2> DEFINE A(n) == CHOOSE e \in S : Cardinality({f \in S : SortedBefore(f, e)}) = n - 1
             B(n) == CHOOSE e \in S : Cardinality({f \in S : <<f, e>> \in R}) = n - 1
  <2>1. \A n : A(n) = B(n)
    <3> HIDE DEF S, R
    <3> QED BY <1>6
  <2>2. Extensions(path) = [n \in 1..Cardinality(S) |-> A(n)]
    BY DEF Extensions
  <2>3. [n \in 1..Cardinality(S) |-> A(n)] = [n \in 1..Cardinality(S) |-> B(n)]
    <3> HIDE DEF A, B, S
    <3> QED BY <2>1
  <2> QED BY <2>2, <2>3 DEF ByPlace
<1> HIDE DEF S, R
<1>8. NamesEachOnce(Extensions(path), S)
  BY <1>1, <1>5, <1>7, ListedByPlace
<1> QED BY <1>8 DEF S

\* The routine a path has come to after i calls.
At(path, i) == IF i = 0 THEN Source ELSE path[i][2]

IsChain(path) ==
  /\ path \in Seq(calls)
  /\ \A i \in 1..Len(path) : path[i][1] = At(path, i - 1)

Begins(start, path) ==
  /\ Len(start) <= Len(path)
  /\ \A i \in 1..Len(start) : start[i] = path[i]

\* A chain that comes to no routine twice.
Simple(path) == \A i, j \in 0..Len(path) : At(path, i) = At(path, j) => i = j

LEMMA ChainsAreBounded ==
  ASSUME NEW n \in Nat, NEW path
  PROVE  path \in Chains(n) <=> IsChain(path) /\ Len(path) <= n
<1>1. ASSUME path \in Chains(n) PROVE IsChain(path) /\ Len(path) <= n
  <2>1. PICK k \in 0..n : path \in [1..k -> calls]
    BY <1>1 DEF Chains
  <2>2. path \in Seq(calls) /\ Len(path) = k /\ DOMAIN path = 1..k
    BY <2>1
  <2> QED BY <1>1, <2>1, <2>2 DEF Chains, IsChain, At
<1>2. ASSUME IsChain(path), Len(path) <= n PROVE path \in Chains(n)
  <2>1. path \in [1..Len(path) -> calls] /\ Len(path) \in 0..n /\ DOMAIN path = 1..Len(path)
    BY <1>2 DEF IsChain
  <2>2. path \in UNION {[1..k -> calls] : k \in 0..n}
    BY <2>1
  <2>3. \A i \in DOMAIN path : path[i][1] = IF i = 1 THEN Source ELSE path[i - 1][2]
    BY <1>2, <2>1 DEF IsChain, At
  <2> QED BY <2>2, <2>3 DEF Chains
<1> QED BY <1>1, <1>2

LEMMA EndOfChain ==
  ASSUME NEW path, IsChain(path)
  PROVE  /\ End(path) = At(path, Len(path))
         /\ Visited(path) = {At(path, i) : i \in 0..Len(path)}
<1>1. Len(path) \in Nat /\ DOMAIN path = 1..Len(path)
  BY DEF IsChain
<1>2. path = <<>> <=> Len(path) = 0
  BY DEF IsChain
<1> QED BY <1>1, <1>2 DEF End, Visited, At

\* What marks a routine as relevant reaches the caller of a relevant one.
LEMMA RelevantBack ==
  ASSUME Given
  PROVE  /\ targets \subseteq Relevant
         /\ \A e \in calls : e[2] \in Relevant => e[1] \in Relevant
<1>1. targets \subseteq Relevant
  BY CallsAreTriples DEF Relevant
<1>2. ASSUME NEW e \in calls, e[2] \in Relevant PROVE e[1] \in Relevant
  <2>1. e[1] \in Routines
    BY CallsAreTriples
  <2>2. ASSUME NEW back \in SUBSET Routines, targets \subseteq back,
               \A d \in calls : d[2] \in back => d[1] \in back
        PROVE  e[1] \in back
    BY <1>2, <2>2 DEF Relevant
  <2> QED BY <2>1, <2>2 DEF Relevant
<1> QED BY <1>1, <1>2

\* Every routine of a chain to a target is relevant.
LEMMA ChainIsRelevant ==
  ASSUME Given, NEW path, IsChain(path), End(path) \in targets, NEW i \in 0..Len(path)
  PROVE  At(path, i) \in Relevant
<1> DEFINE Bad == {k \in Nat : k <= Len(path) /\ At(path, Len(path) - k) \notin Relevant}
<1>0. Len(path) \in Nat
  BY DEF IsChain
<1>1. CASE Bad = {}
  <2>1. Len(path) - i \in Nat /\ Len(path) - i <= Len(path) /\ Len(path) - (Len(path) - i) = i
    BY <1>0
  <2> QED BY <1>1, <2>1
<1>2. CASE Bad # {}
  <2>1. PICK k \in Bad : \A m \in Bad : k <= m
    <3> HIDE DEF Bad
    <3>1. Bad \subseteq Nat
      BY DEF Bad
    <3> QED BY <1>2, <3>1, SmallestNumber
  <2>2. k # 0
    BY <1>0, <2>1, EndOfChain, RelevantBack
  <2>3. k \in Nat /\ k - 1 \in Nat /\ k - 1 < k /\ k <= Len(path)
    BY <2>1, <2>2
  <2> DEFINE n == Len(path) - k + 1
  <2>4. n \in 1..Len(path) /\ n - 1 = Len(path) - k /\ n = Len(path) - (k - 1)
    BY <1>0, <2>3
  <2>5. At(path, n) \in Relevant
    <3>1. k - 1 \notin Bad
      BY <2>1, <2>3
    <3> QED BY <2>3, <2>4, <3>1
  <2>6. path[n] \in calls /\ path[n][1] = At(path, n - 1) /\ path[n][2] = At(path, n)
    <3> HIDE DEF n, Bad
    <3> QED BY <1>0, <2>4 DEF IsChain, At
  <2>7. At(path, n - 1) \in Relevant
    BY <2>5, <2>6, RelevantBack
  <2> QED BY <2>1, <2>4, <2>7
<1> QED BY <1>1, <1>2

\* A chain and one more call.
LEMMA LongerChain ==
  ASSUME NEW path, IsChain(path), NEW e \in calls, e[1] = End(path)
  PROVE  /\ IsChain(Append(path, e))
         /\ Len(Append(path, e)) = Len(path) + 1
         /\ End(Append(path, e)) = e[2]
         /\ Begins(path, Append(path, e))
<1>1. path \in Seq(calls) /\ Len(path) \in Nat
  BY DEF IsChain
<1>2. /\ Append(path, e) \in Seq(calls)
      /\ Len(Append(path, e)) = Len(path) + 1
      /\ \A i \in 1..Len(path) : Append(path, e)[i] = path[i]
      /\ Append(path, e)[Len(path) + 1] = e
  BY <1>1
<1>3. \A i \in 0..Len(path) : At(Append(path, e), i) = At(path, i)
  BY <1>1, <1>2 DEF At
<1>4. IsChain(Append(path, e))
  <2> SUFFICES ASSUME NEW i \in 1..Len(path) + 1
               PROVE  Append(path, e)[i][1] = At(Append(path, e), i - 1)
    BY <1>2 DEF IsChain
  <2>1. CASE i = Len(path) + 1
    BY <1>1, <1>2, <1>3, <2>1, EndOfChain
  <2>2. CASE i \in 1..Len(path)
    BY <1>1, <1>2, <1>3, <2>2 DEF IsChain
  <2> QED BY <1>1, <2>1, <2>2
<1>5. End(Append(path, e)) = e[2]
  <2>1. End(Append(path, e)) = At(Append(path, e), Len(path) + 1)
    BY <1>2, <1>4, EndOfChain
  <2>2. Len(path) + 1 # 0
    BY <1>1
  <2> QED BY <1>2, <2>1, <2>2 DEF At
<1> QED BY <1>2, <1>4, <1>5, <1>1 DEF Begins

\* What a chain goes on with behind its start.
LEMMA NextCall ==
  ASSUME NEW start, NEW path, IsChain(start), IsChain(path), Begins(start, path),
         Len(start) < Len(path)
  PROVE  LET e == path[Len(start) + 1] IN
         /\ e \in calls /\ e[1] = End(start)
         /\ Begins(Append(start, e), path)
         /\ e[2] = At(path, Len(start) + 1)
         /\ \A i \in 0..Len(start) : At(start, i) = At(path, i)
<1> DEFINE e == path[Len(start) + 1]
<1>1. start \in Seq(calls) /\ path \in Seq(calls) /\ Len(start) \in Nat /\ Len(path) \in Nat
  BY DEF IsChain
<1>2. e \in calls /\ e[1] = At(path, Len(start))
  BY <1>1 DEF IsChain
<1>3. \A i \in 0..Len(start) : At(start, i) = At(path, i)
  BY <1>1 DEF At, Begins
<1>4. e[1] = End(start)
  BY <1>1, <1>2, <1>3, EndOfChain
<1>5. Begins(Append(start, e), path)
  <2> HIDE DEF e
  <2>1. /\ Len(Append(start, e)) = Len(start) + 1
        /\ \A i \in 1..Len(start) : Append(start, e)[i] = start[i]
        /\ Append(start, e)[Len(start) + 1] = e
    BY <1>1, <1>2
  <2> QED BY <1>1, <2>1 DEF Begins, e
<1>6. e[2] = At(path, Len(start) + 1)
  BY <1>1 DEF At
<1> QED BY <1>2, <1>3, <1>4, <1>5, <1>6

\* Of two sequences that both begin with the whole of the other there is one.
LEMMA BeginsBoth ==
  ASSUME NEW p, NEW q, IsChain(p), IsChain(q), Begins(p, q), Len(p) = Len(q)
  PROVE  p = q
BY DEF IsChain, Begins

LEMMA BeginsOrdered ==
  ASSUME NEW p, NEW q, NEW r, IsChain(p), IsChain(q), IsChain(r), Begins(p, q)
  PROVE  /\ Begins(q, r) => Begins(p, r)
         /\ Begins(r, q) => Begins(p, r) \/ Begins(r, p)
         /\ Begins(p, p)
BY DEF IsChain, Begins

\* A chain with a routine it comes to twice can be cut short.
LEMMA ShorterChain ==
  ASSUME NEW path, IsChain(path), ~Simple(path)
  PROVE  \E short : IsChain(short) /\ End(short) = End(path) /\ Len(short) < Len(path)
<1>1. path \in Seq(calls) /\ Len(path) \in Nat
  BY DEF IsChain
<1>2. PICK i \in 0..Len(path), j \in 0..Len(path) : At(path, i) = At(path, j) /\ i < j
  BY <1>1 DEF Simple
<1> DEFINE n == Len(path) - (j - i)
           short == [k \in 1..n |-> IF k <= i THEN path[k] ELSE path[k + (j - i)]]
<1>3. n \in Nat /\ n < Len(path) /\ i <= n
  BY <1>1, <1>2
<1>4. short \in Seq(calls) /\ Len(short) = n
  <2>1. \A k \in 1..n : short[k] \in calls
    BY <1>1, <1>2
  <2>2. short \in [1..n -> calls]
    <3> HIDE DEF n
    <3> QED BY <2>1
  <2> HIDE DEF short
  <2> QED BY <1>3, <2>2
<1>5. \A k \in 0..n : At(short, k) = IF k <= i THEN At(path, k) ELSE At(path, k + (j - i))
  BY <1>1, <1>2, <1>3 DEF At
<1>6. \A k \in 1..n : short[k][1] = At(short, k - 1)
  <2> SUFFICES ASSUME NEW k \in 1..n PROVE short[k][1] = At(short, k - 1)
    OBVIOUS
  <2>0. k - 1 \in 0..n /\ k \in Int
    BY <1>3
  <2>1. CASE k <= i
    <3>1. short[k] = path[k] /\ k \in 1..Len(path) /\ k - 1 <= i
      BY <1>1, <1>2, <2>0, <2>1
    <3>2. At(short, k - 1) = At(path, k - 1)
      <4> HIDE DEF short
      <4> QED BY <1>5, <2>0, <3>1
    <3> QED BY <3>1, <3>2 DEF IsChain
  <2>2. CASE k = i + 1
    <3>1. short[k] = path[j + 1] /\ j + 1 \in 1..Len(path) /\ k - 1 = i
      BY <1>1, <1>2, <1>3, <2>2
    <3>2. At(short, k - 1) = At(path, i)
      <4> HIDE DEF short
      <4> QED BY <1>5, <2>0, <3>1
    <3>3. path[j + 1][1] = At(path, j)
      BY <3>1 DEF IsChain
    <3> QED BY <1>2, <3>1, <3>2, <3>3
  <2>3. CASE k > i + 1
    <3>1. /\ short[k] = path[k + (j - i)] /\ k + (j - i) \in 1..Len(path)
          /\ ~(k - 1 <= i) /\ k - 1 + (j - i) = k + (j - i) - 1
      BY <1>1, <1>2, <1>3, <2>3
    <3>2. At(short, k - 1) = At(path, k - 1 + (j - i))
      <4> HIDE DEF short
      <4> QED BY <1>5, <2>0, <3>1
    <3>3. path[k + (j - i)][1] = At(path, k + (j - i) - 1)
      BY <3>1 DEF IsChain
    <3> QED BY <3>1, <3>2, <3>3
  <2> QED BY <1>2, <2>0, <2>1, <2>2, <2>3
<1>7. IsChain(short)
  <2> HIDE DEF short
  <2> QED BY <1>4, <1>6 DEF IsChain
<1>8. End(short) = At(path, Len(path))
  <2>1. End(short) = At(short, n)
    <3> HIDE DEF short, n
    <3> QED BY <1>4, <1>7, EndOfChain
  <2>2. n \in 0..n
    BY <1>3
  <2>3. CASE n <= i
    <3>1. n = i /\ j = Len(path)
      BY <1>1, <1>2, <1>3, <2>3
    <3> QED BY <1>2, <1>5, <2>1, <2>2, <2>3, <3>1
  <2>4. CASE ~(n <= i)
    <3>1. n + (j - i) = Len(path)
      BY <1>1, <1>2
    <3> HIDE DEF short, n
    <3> QED BY <1>5, <2>1, <2>2, <2>4, <3>1
  <2> QED BY <2>3, <2>4
<1>9. End(path) = At(path, Len(path))
  BY EndOfChain
<1> HIDE DEF short, n
<1> QED BY <1>3, <1>4, <1>7, <1>8, <1>9

\* So the shortest chains to a routine are simple.
LEMMA SimpleIsEnough ==
  ASSUME NEW path, IsChain(path)
  PROVE  \E short : IsChain(short) /\ Simple(short) /\ End(short) = End(path)
                    /\ Len(short) <= Len(path)
<1> DEFINE Lengths == {n \in Nat : \E p : IsChain(p) /\ End(p) = End(path) /\ Len(p) = n}
<1>1. Len(path) \in Lengths /\ Lengths \subseteq Nat
  BY DEF IsChain
<1>2. PICK n \in Lengths : \A k \in Lengths : n <= k
  <2> HIDE DEF Lengths
  <2> QED BY <1>1, SmallestNumber
<1>3. PICK p : IsChain(p) /\ End(p) = End(path) /\ Len(p) = n
  BY <1>2
<1>4. Simple(p)
  <2> SUFFICES ASSUME ~Simple(p) PROVE FALSE
    OBVIOUS
  <2>1. PICK q : IsChain(q) /\ End(q) = End(p) /\ Len(q) < Len(p)
    BY <1>3, ShorterChain
  <2>2. Len(q) \in Nat
    BY <2>1 DEF IsChain
  <2>3. Len(q) \in Lengths
    BY <1>3, <2>1, <2>2
  <2> HIDE DEF Lengths
  <2> QED BY <1>1, <1>2, <1>3, <2>1, <2>2, <2>3
<1>5. n <= Len(path)
  BY <1>1, <1>2
<1> QED BY <1>3, <1>4, <1>5

-------------------------------------------------------------------------------
(* The invariant of the search, of a queue q, n explored, f found *)

Typed(q, n, f) ==
  /\ q \in Seq(Seq(calls)) /\ n \in Nat /\ n + Len(q) <= MaxStates
  /\ \A i \in 1..Len(q) : IsChain(q[i]) /\ Len(q[i]) <= MaxDepth /\ End(q[i]) \in Relevant
  /\ f \in [targets -> Seq(Seq(calls))]
  /\ \A t \in targets :
       /\ Len(f[t]) <= MaxVariants
       /\ \A k \in 1..Len(f[t]) : IsChain(f[t][k]) /\ End(f[t][k]) = t /\ Len(f[t][k]) <= MaxDepth

\* Nothing cut: every chain to a target is found or goes on from a queued one.
Complete(q, mark, f) ==
  ~mark => \A path : IsChain(path) /\ End(path) \in targets =>
            \/ \E i \in 1..Len(q) : Begins(q[i], path)
            \/ \E k \in 1..Len(f[End(path)]) : f[End(path)][k] = path

\* No chain can be queued or found a second time.
Once(q, f) ==
  /\ \A i, j \in 1..Len(q) : Begins(q[i], q[j]) => i = j
  /\ \A t \in targets : \A k \in 1..Len(f[t]) : \A i \in 1..Len(q) : ~Begins(q[i], f[t][k])
  /\ \A t \in targets : \A k, l \in 1..Len(f[t]) : f[t][k] = f[t][l] => k = l

\* Shorter chains come first.
Layered(q, f) ==
  /\ \A i, j \in 1..Len(q) : i <= j => Len(q[i]) <= Len(q[j]) /\ Len(q[j]) <= Len(q[i]) + 1
  /\ \A t \in targets : \A k \in 1..Len(f[t]) : \A i \in 1..Len(q) : Len(f[t][k]) <= Len(q[i])

\* A path to t that is found first is no longer than path.
FirstWithin(f, t, path) == f[t] # <<>> => Len(f[t][1]) <= Len(path)

\* A simple chain goes on from a queued one, or is no longer needed, or there was
\* no room for it, and then for nothing longer.
Nearest(q, n, f) ==
  \A path : IsChain(path) /\ Simple(path) /\ End(path) \in targets /\ Len(path) <= MaxDepth =>
    /\ FirstWithin(f, End(path), path)
    /\ \/ \E i \in 1..Len(q) : Begins(q[i], path)
       \/ f[End(path)] # <<>>
       \/ n + Len(q) = MaxStates /\ \A i \in 1..Len(q) : Len(q[i]) <= Len(path)

SearchInv ==
  /\ Given /\ truncated \in BOOLEAN
  /\ Typed(queue, explored, found)
  /\ Complete(queue, truncated, found)
  /\ Once(queue, found)
  /\ Layered(queue, found)
  /\ Nearest(queue, explored, found)

\* One turn takes h from the queue and adds it with each of the calls T.
Turn(h, T, q) ==
  /\ Len(queue) \in Nat \ {0} /\ h = queue[1]
  /\ IsChain(h) /\ Len(h) <= MaxDepth /\ Len(h) \in Nat /\ End(h) \in Relevant
  /\ T \in Seq(NewCalls(h))
  /\ explored + Len(queue) + Len(T) <= MaxStates
  /\ \A k, l \in 1..Len(T) : T[k] = T[l] => k = l
  /\ T # <<>> => ~Deepest(h)
  /\ ~Deepest(h) =>
       \A e \in NewCalls(h) : \/ \E k \in 1..Len(T) : T[k] = e
                              \/ /\ Len(T) < Len(Extensions(h))
                                 /\ explored + Len(queue) + Len(T) = MaxStates
  /\ q \in Seq(Seq(calls)) /\ Len(q) = Len(queue) - 1 + Len(T)
  /\ \A i \in 1..Len(queue) - 1 : q[i] = queue[i + 1]
  /\ \A k \in 1..Len(T) : q[Len(queue) - 1 + k] = Append(h, T[k])

LEMMA ExploreIsTurn ==
  ASSUME Given, Typed(queue, explored, found), Explore
  PROVE  Turn(Head(queue), Taken(Head(queue)), queue')
<1> DEFINE h == Head(queue)
           T == Taken(h)
           S == NewCalls(h)
           X == Extensions(h)
<1>1. queue \in Seq(Seq(calls)) /\ queue # <<>> /\ Len(queue) \in Nat \ {0} /\ h = queue[1]
  BY DEF Typed, Explore
<1>2. IsChain(h) /\ Len(h) <= MaxDepth /\ Len(h) \in Nat /\ End(h) \in Relevant /\ h \in Seq(calls)
  BY <1>1 DEF Typed, IsChain
<1>3. NamesEachOnce(X, S)
  BY ExtensionsAreListed
<1>4. /\ X \in Seq(S) /\ Len(X) = Cardinality(S) /\ Len(X) \in Nat
      /\ \A e \in S : \E n \in 1..Len(X) : X[n] = e
      /\ \A m, n \in 1..Len(X) : X[m] = X[n] => m = n
  <2> HIDE DEF X, S
  <2> QED BY <1>3 DEF NamesEachOnce
<1>5. S \subseteq calls
  BY DEF NewCalls
<1> DEFINE room == MaxStates - explored - Len(queue)
           n == IF room < Len(X) THEN room ELSE Len(X)
<1>6. room \in Nat /\ explored \in Nat /\ MaxStates \in Nat
  BY <1>1, PathAssumption DEF Typed
<1>7. Room = room
  BY <1>1, <1>6 DEF Room
<1>8. T = IF Deepest(h) THEN <<>> ELSE SubSeq(X, 1, n)
  <2> HIDE DEF room, h
  <2> QED BY <1>7 DEF Taken
<1>9. n \in 0..Len(X) /\ n <= room /\ (n < Len(X) => n = room)
  <2> HIDE DEF room, X
  <2> QED BY <1>4, <1>6
<1>10. /\ SubSeq(X, 1, n) \in Seq(S) /\ Len(SubSeq(X, 1, n)) = n
       /\ \A k \in 1..n : SubSeq(X, 1, n)[k] = X[k]
  <2> HIDE DEF X, S, n
  <2> QED BY <1>4, <1>9
<1>11. /\ T \in Seq(S) /\ Len(T) <= room /\ Len(T) \in Nat
       /\ \A k, l \in 1..Len(T) : T[k] = T[l] => k = l
       /\ T # <<>> => ~Deepest(h)
  <2>1. CASE Deepest(h)
    <3>1. T = <<>>
      BY <1>8, <2>1
    <3> HIDE DEF T, room, S
    <3> QED BY <1>6, <3>1
  <2>2. CASE ~Deepest(h)
    <3>1. T = SubSeq(X, 1, n)
      BY <1>8, <2>2
    <3> HIDE DEF T, X, S, n, room
    <3> QED BY <1>4, <1>9, <1>10, <2>2, <3>1
  <2> QED BY <2>1, <2>2
<1>12. ASSUME ~Deepest(h), NEW e \in S
       PROVE  \/ \E k \in 1..Len(T) : T[k] = e
              \/ Len(T) < Len(X) /\ Len(T) = room
  <2>1. T = SubSeq(X, 1, n)
    BY <1>8, <1>12
  <2>2. PICK m \in 1..Len(X) : X[m] = e
    BY <1>4
  <2> HIDE DEF T, X, S, n, room
  <2> QED BY <1>4, <1>9, <1>10, <2>1, <2>2
<1> DEFINE new == [k \in 1..Len(T) |-> Append(h, T[k])]
<1>13. queue' = Tail(queue) \o new
  <2>1. DOMAIN T = 1..Len(T)
    <3> HIDE DEF T
    <3> QED BY <1>11
  <2>2. queue' = Tail(queue) \o [i \in DOMAIN T |-> Append(h, T[i])]
    BY DEF Explore
  <2> HIDE DEF T, h
  <2> QED BY <2>1, <2>2
<1>14. new \in Seq(Seq(calls)) /\ Len(new) = Len(T) /\ \A k \in 1..Len(T) : new[k] = Append(h, T[k])
  <2> HIDE DEF T, h, S
  <2>1. \A k \in 1..Len(T) : Append(h, T[k]) \in Seq(calls)
    BY <1>2, <1>5, <1>11
  <2>2. new \in [1..Len(T) -> Seq(calls)]
    BY <2>1
  <2> QED BY <1>11, <2>2
<1>15. /\ Tail(queue) \in Seq(Seq(calls)) /\ Len(Tail(queue)) = Len(queue) - 1
       /\ \A i \in 1..Len(queue) - 1 : Tail(queue)[i] = queue[i + 1]
  BY <1>1
<1>16. /\ queue' \in Seq(Seq(calls)) /\ Len(queue') = Len(queue) - 1 + Len(T)
       /\ \A i \in 1..Len(queue) - 1 : queue'[i] = queue[i + 1]
       /\ \A k \in 1..Len(T) : queue'[Len(queue) - 1 + k] = Append(h, T[k])
  <2> DEFINE rest == Tail(queue)
  <2>1. rest \in Seq(Seq(calls)) /\ Len(rest) = Len(queue) - 1
    BY <1>15
  <2> HIDE DEF new, T, h, rest
  <2>2. /\ rest \o new \in Seq(Seq(calls)) /\ Len(rest \o new) = Len(rest) + Len(new)
        /\ \A i \in 1..Len(rest) : (rest \o new)[i] = rest[i]
        /\ \A k \in 1..Len(new) : (rest \o new)[Len(rest) + k] = new[k]
    <3>1. new \in Seq(Seq(calls)) /\ Len(new) \in Nat /\ Len(rest) \in Nat
      BY <1>14, <2>1
    <3>2. rest \o new \in Seq(Seq(calls)) /\ Len(rest \o new) = Len(rest) + Len(new)
      BY <2>1, <3>1, ConcatProperties
    <3>3. \A i \in 1..Len(rest) : (rest \o new)[i] = rest[i]
      BY <2>1, <3>1
    <3>4. \A k \in 1..Len(new) : (rest \o new)[Len(rest) + k] = new[k]
      BY <2>1, <3>1
    <3> QED BY <3>2, <3>3, <3>4
  <2>3. queue' = rest \o new
    BY <1>13 DEF rest
  <2> QED BY <1>14, <1>15, <2>1, <2>2, <2>3 DEF rest
<1> HIDE DEF T, h, X, S, new
<1>17. explored + Len(queue) + Len(T) <= MaxStates
  BY <1>1, <1>6, <1>11
<1>18. ~Deepest(h) =>
         \A e \in S : \/ \E k \in 1..Len(T) : T[k] = e
                      \/ Len(T) < Len(X) /\ explored + Len(queue) + Len(T) = MaxStates
  BY <1>1, <1>6, <1>12
<1> QED BY <1>1, <1>2, <1>11, <1>16, <1>17, <1>18 DEF Turn, T, h, X, S

\* h is filed under its end, as long as there are fewer than MaxVariants.
Filed(h, g) ==
  /\ g \in [targets -> Seq(Seq(calls))]
  /\ \A t \in targets : t # End(h) \/ Full(h) => g[t] = found[t]
  /\ End(h) \in targets /\ ~Full(h) =>
       /\ Len(g[End(h)]) = Len(found[End(h)]) + 1
       /\ g[End(h)][Len(found[End(h)]) + 1] = h
       /\ \A k \in 1..Len(found[End(h)]) : g[End(h)][k] = found[End(h)][k]

LEMMA ReportIsFiled ==
  ASSUME Typed(queue, explored, found), NEW h, IsChain(h), NEW g,
         g = IF Reported(h) /\ ~Full(h) THEN [found EXCEPT ![End(h)] = Append(@, h)] ELSE found
  PROVE  Filed(h, g)
<1>1. found \in [targets -> Seq(Seq(calls))] /\ h \in Seq(calls)
  BY DEF Typed, IsChain
<1>2. CASE Reported(h) /\ ~Full(h)
  <2>1. End(h) \in targets
    BY <1>2 DEF Reported
  <2> DEFINE old == found[End(h)]
             upd == Append(old, h)
  <2>2. old \in Seq(Seq(calls))
    BY <1>1, <2>1
  <2>3. /\ upd \in Seq(Seq(calls)) /\ Len(upd) = Len(old) + 1 /\ upd[Len(old) + 1] = h
        /\ \A k \in 1..Len(old) : upd[k] = old[k]
    <3> HIDE DEF old
    <3> QED BY <1>1, <2>2
  <2>4. g = [found EXCEPT ![End(h)] = upd]
    BY <1>2
  <2> HIDE DEF upd
  <2>5. g[End(h)] = upd /\ g \in [targets -> Seq(Seq(calls))]
    BY <1>1, <2>1, <2>3, <2>4
  <2>6. \A t \in targets : t # End(h) => g[t] = found[t]
    BY <1>1, <2>4
  <2> HIDE DEF old
  <2> QED BY <1>2, <2>3, <2>5, <2>6 DEF Filed, old
<1>3. CASE ~(Reported(h) /\ ~Full(h))
  BY <1>1, <1>3 DEF Filed, Reported
<1> QED BY <1>2, <1>3

\* What is queued after a turn: what was, and h with one more call.
Kept(q, i) == i + 1 \in 2..Len(queue) /\ i < Len(queue) /\ q[i] = queue[i + 1] /\ IsChain(q[i])

Added(h, T, q, i, k) ==
  /\ i = Len(queue) - 1 + k /\ q[i] = Append(h, T[k])
  /\ T[k] \in NewCalls(h) /\ T[k] \in calls /\ T[k][1] = End(h)
  /\ IsChain(q[i]) /\ Len(q[i]) = Len(h) + 1 /\ Begins(h, q[i]) /\ End(q[i]) = T[k][2]

LEMMA QueueAfterTurn ==
  ASSUME Typed(queue, explored, found), NEW h, NEW T, NEW q, Turn(h, T, q), NEW i \in 1..Len(q)
  PROVE  Kept(q, i) \/ \E k \in 1..Len(T) : Added(h, T, q, i, k)
<1>1. Len(queue) \in Nat \ {0} /\ Len(T) \in Nat /\ Len(q) = Len(queue) - 1 + Len(T)
  BY DEF Turn
<1>2. CASE i <= Len(queue) - 1
  <2>1. i \in 1..Len(queue) - 1 /\ i + 1 \in 1..Len(queue) /\ i + 1 \in 2..Len(queue) /\ i < Len(queue)
    BY <1>1, <1>2
  <2>2. q[i] = queue[i + 1]
    BY <2>1 DEF Turn
  <2>3. IsChain(queue[i + 1])
    BY <2>1 DEF Typed
  <2> QED BY <2>1, <2>2, <2>3 DEF Kept
<1>3. CASE i > Len(queue) - 1
  <2> DEFINE k == i - (Len(queue) - 1)
  <2>1. k \in 1..Len(T) /\ i = Len(queue) - 1 + k
    BY <1>1, <1>3
  <2> HIDE DEF k
  <2>2. q[i] = Append(h, T[k])
    BY <2>1 DEF Turn
  <2>3. T[k] \in NewCalls(h) /\ IsChain(h)
    <3>1. T \in Seq(NewCalls(h)) /\ IsChain(h)
      BY DEF Turn
    <3> QED BY <2>1, <3>1
  <2>4. T[k] \in calls /\ T[k][1] = End(h)
    BY <2>3 DEF NewCalls
  <2>5. IsChain(q[i]) /\ Len(q[i]) = Len(h) + 1 /\ Begins(h, q[i]) /\ End(q[i]) = T[k][2]
    BY <2>2, <2>3, <2>4, LongerChain
  <2> QED BY <2>1, <2>2, <2>3, <2>4, <2>5 DEF Added
<1> QED BY <1>1, <1>2, <1>3

\* What was found is found after a turn, and besides it only h.
Grown(h, g, t) ==
  /\ Len(g[t]) \in Nat /\ Len(found[t]) \in Nat /\ Len(found[t]) <= Len(g[t])
  /\ g[t] \in Seq(Seq(calls)) /\ found[t] \in Seq(Seq(calls))
  /\ \A k \in 1..Len(found[t]) : g[t][k] = found[t][k]
  /\ \A k \in 1..Len(g[t]) : k \notin 1..Len(found[t]) =>
       k = Len(found[t]) + 1 /\ g[t][k] = h /\ t = End(h) /\ ~Full(h)

LEMMA FoundAfterTurn ==
  ASSUME Typed(queue, explored, found), NEW h, NEW g, Filed(h, g), NEW t \in targets
  PROVE  Grown(h, g, t)
<1>1. g[t] \in Seq(Seq(calls)) /\ found[t] \in Seq(Seq(calls))
  BY DEF Typed, Filed
<1>2. Len(g[t]) \in Nat /\ Len(found[t]) \in Nat
  BY <1>1
<1>3. CASE t # End(h) \/ Full(h)
  <2>1. g[t] = found[t]
    BY <1>3 DEF Filed
  <2> QED BY <1>1, <1>2, <2>1 DEF Grown
<1>4. CASE t = End(h) /\ ~Full(h)
  <2>1. /\ Len(g[t]) = Len(found[t]) + 1
        /\ g[t][Len(found[t]) + 1] = h
        /\ \A k \in 1..Len(found[t]) : g[t][k] = found[t][k]
    BY <1>4 DEF Filed
  <2> QED BY <1>1, <1>2, <1>4, <2>1 DEF Grown
<1> QED BY <1>3, <1>4

LEMMA TypedStep ==
  ASSUME Given, Typed(queue, explored, found), NEW h, NEW T, NEW q, Turn(h, T, q),
         NEW g, Filed(h, g)
  PROVE  Typed(q, explored + 1, g)
<1>1. q \in Seq(Seq(calls)) /\ explored + 1 \in Nat /\ explored + 1 + Len(q) <= MaxStates
  <2>1. /\ q \in Seq(Seq(calls)) /\ Len(q) = Len(queue) - 1 + Len(T)
        /\ explored + Len(queue) + Len(T) <= MaxStates
    BY DEF Turn
  <2>2. Len(queue) \in Nat /\ T \in Seq(NewCalls(h))
    BY DEF Turn
  <2>3. Len(T) \in Nat
    BY <2>2
  <2>4. explored \in Nat
    BY DEF Typed
  <2>5. MaxStates \in Nat
    BY PathAssumption
  <2> QED BY <2>1, <2>2, <2>3, <2>4, <2>5
<1>2. ASSUME NEW i \in 1..Len(q)
      PROVE  IsChain(q[i]) /\ Len(q[i]) <= MaxDepth /\ End(q[i]) \in Relevant
  <2>1. CASE Kept(q, i)
    <3>1. i + 1 \in 1..Len(queue) /\ q[i] = queue[i + 1]
      BY <2>1 DEF Kept
    <3> QED BY <2>1, <3>1 DEF Typed
  <2>2. ASSUME NEW k \in 1..Len(T), Added(h, T, q, i, k)
        PROVE  IsChain(q[i]) /\ Len(q[i]) <= MaxDepth /\ End(q[i]) \in Relevant
    <3>1. Len(h) < MaxDepth /\ Len(h) \in Nat
      <4>1. T # <<>>
        BY <2>2 DEF Turn
      <4>2. ~Deepest(h) /\ Len(h) \in Nat
        BY <4>1 DEF Turn
      <4>3. MaxDepth \in Nat
        BY PathAssumption
      <4> QED BY <4>2, <4>3 DEF Deepest
    <3> QED BY <2>2, <3>1, PathAssumption DEF Added, NewCalls
  <2> QED BY <2>1, <2>2, QueueAfterTurn
<1>3. g \in [targets -> Seq(Seq(calls))]
  BY DEF Filed
<1>4. ASSUME NEW t \in targets
      PROVE  /\ Len(g[t]) <= MaxVariants
             /\ \A k \in 1..Len(g[t]) : IsChain(g[t][k]) /\ End(g[t][k]) = t /\ Len(g[t][k]) <= MaxDepth
  <2>1. Len(g[t]) <= MaxVariants
    <3>1. Len(found[t]) <= MaxVariants
      BY DEF Typed
    <3>2. CASE t = End(h) /\ ~Full(h)
      BY <3>2, FoundAfterTurn, PathAssumption DEF Full, Filed, Grown
    <3>3. CASE t # End(h) \/ Full(h)
      BY <3>1, <3>3 DEF Filed
    <3> QED BY <3>2, <3>3
  <2>2. ASSUME NEW k \in 1..Len(g[t])
        PROVE  IsChain(g[t][k]) /\ End(g[t][k]) = t /\ Len(g[t][k]) <= MaxDepth
    <3>1. CASE k \in 1..Len(found[t])
      <4>1. g[t][k] = found[t][k]
        BY <3>1, FoundAfterTurn DEF Grown
      <4> QED BY <3>1, <4>1 DEF Typed
    <3>2. CASE k \notin 1..Len(found[t])
      <4>1. g[t][k] = h /\ t = End(h)
        BY <2>2, <3>2, FoundAfterTurn DEF Grown
      <4> QED BY <4>1 DEF Turn
    <3> QED BY <3>1, <3>2
  <2> QED BY <2>1, <2>2
<1> QED BY <1>1, <1>2, <1>3, <1>4 DEF Typed

LEMMA CompleteStep ==
  ASSUME Given, Typed(queue, explored, found), Complete(queue, truncated, found),
         NEW h, NEW q, Turn(h, Taken(h), q), NEW g, Filed(h, g)
  PROVE  Complete(q, truncated \/ Cut(h), g)
<1> SUFFICES ASSUME ~truncated, ~Cut(h), NEW path, IsChain(path), End(path) \in targets
             PROVE  \/ \E i \in 1..Len(q) : Begins(q[i], path)
                    \/ \E k \in 1..Len(g[End(path)]) : g[End(path)][k] = path
  BY DEF Complete
<1> DEFINE T == Taken(h)
           t == End(path)
<1>0. /\ IsChain(h) /\ h = queue[1] /\ Len(h) \in Nat /\ Len(path) \in Nat
      /\ Len(queue) \in Nat \ {0} /\ Len(T) \in Nat /\ Len(q) = Len(queue) - 1 + Len(T)
  BY DEF Turn, IsChain
<1>1. ASSUME NEW k \in 1..Len(found[t]), found[t][k] = path
      PROVE  \E l \in 1..Len(g[t]) : g[t][l] = path
  <2>1. k \in 1..Len(g[t]) /\ g[t][k] = found[t][k]
    <3> HIDE DEF t
    <3>1. t \in targets
      BY DEF t
    <3>2. Grown(h, g, t)
      BY <3>1, FoundAfterTurn
    <3> QED BY <1>1, <3>2 DEF Grown
  <2> QED BY <1>1, <2>1
<1>2. ASSUME NEW i \in 1..Len(queue), i # 1, Begins(queue[i], path)
      PROVE  \E j \in 1..Len(q) : Begins(q[j], path)
  <2>1. i - 1 \in 1..Len(queue) - 1 /\ i - 1 \in 1..Len(q) /\ (i - 1) + 1 = i
    BY <1>0, <1>2
  <2>2. q[i - 1] = queue[i]
    <3> HIDE DEF T
    <3>1. \A j \in 1..Len(queue) - 1 : q[j] = queue[j + 1]
      BY DEF Turn
    <3> QED BY <2>1, <3>1
  <2> QED BY <1>2, <2>1, <2>2
<1>3. CASE Begins(h, path) /\ Len(h) = Len(path)
  <2>1. h = path
    BY <1>0, <1>3, BeginsBoth
  <2>2. End(h) \in targets /\ ~Full(h)
    BY <2>1 DEF Cut, Reported
  <2>3. Len(found[t]) \in Nat /\ Len(g[t]) = Len(found[t]) + 1 /\ g[t][Len(found[t]) + 1] = path
    BY <2>1, <2>2, FoundAfterTurn DEF Grown, Filed
  <2>4. Len(found[t]) + 1 \in 1..Len(g[t])
    BY <2>3
  <2> QED BY <2>3, <2>4
<1>4. CASE Begins(h, path) /\ Len(h) < Len(path)
  <2> DEFINE e == path[Len(h) + 1]
  <2>1. e \in calls /\ e[1] = End(h) /\ Begins(Append(h, e), path) /\ e[2] = At(path, Len(h) + 1)
    BY <1>0, <1>4, NextCall
  <2>2. e[2] \in Relevant
    <3>1. Len(h) + 1 \in 0..Len(path)
      BY <1>0, <1>4
    <3> QED BY <2>1, <3>1, ChainIsRelevant
  <2> HIDE DEF e
  <2>3. ~Deepest(h) /\ e[2] \notin Visited(h) /\ ~(Len(T) < Len(Extensions(h)))
    BY <2>1, <2>2 DEF Cut, Repeats
  <2>4. e \in NewCalls(h)
    BY <2>1, <2>2, <2>3 DEF NewCalls
  <2>5. PICK k \in 1..Len(T) : T[k] = e
    <3> HIDE DEF T
    <3>1. Turn(h, T, q)
      BY DEF T
    <3> QED BY <2>3, <2>4, <3>1 DEF Turn
  <2>6. Len(queue) - 1 + k \in 1..Len(q) /\ q[Len(queue) - 1 + k] = Append(h, e)
    <3> HIDE DEF T
    <3>1. Turn(h, T, q)
      BY DEF T
    <3>2. \A n \in 1..Len(T) : q[Len(queue) - 1 + n] = Append(h, T[n])
      BY <3>1 DEF Turn
    <3> QED BY <1>0, <2>5, <3>2
  <2> QED BY <2>1, <2>6
<1>5. \/ \E i \in 1..Len(queue) : Begins(queue[i], path)
      \/ \E k \in 1..Len(found[t]) : found[t][k] = path
  BY DEF Complete
<1>6. Begins(h, path) => Len(h) <= Len(path)
  BY DEF Begins
<1> HIDE DEF T, t
<1>7. ASSUME NEW i \in 1..Len(queue), Begins(queue[i], path)
      PROVE  (\E j \in 1..Len(q) : Begins(q[j], path)) \/ (\E k \in 1..Len(g[t]) : g[t][k] = path)
  <2>1. CASE i # 1
    BY <1>2, <1>7, <2>1
  <2>2. CASE i = 1
    BY <1>0, <1>3, <1>4, <1>6, <1>7, <2>2 DEF t
  <2> QED BY <2>1, <2>2
<1> QED BY <1>1, <1>5, <1>7 DEF t

LEMMA OnceStep ==
  ASSUME Typed(queue, explored, found), Once(queue, found),
         NEW h, NEW T, NEW q, Turn(h, T, q), NEW g, Filed(h, g)
  PROVE  Once(q, g)
<1>0. /\ IsChain(h) /\ h = queue[1] /\ Len(h) \in Nat /\ 1 \in 1..Len(queue)
      /\ Len(queue) \in Nat \ {0} /\ Len(T) \in Nat /\ Len(q) = Len(queue) - 1 + Len(T)
  BY DEF Turn
<1>1. \A i, j \in 1..Len(queue) : Begins(queue[i], queue[j]) => i = j
  BY DEF Once
<1>2. ASSUME NEW i \in 1..Len(q), Kept(q, i)
      PROVE  ~Begins(q[i], h) /\ ~Begins(h, q[i])
  BY <1>0, <1>1, <1>2 DEF Kept
<1>3. ASSUME NEW i \in 1..Len(q), NEW j \in 1..Len(q), Begins(q[i], q[j])
      PROVE  i = j
  <2>1. CASE Kept(q, i) /\ Kept(q, j)
    <3>1. /\ i + 1 \in 1..Len(queue) /\ q[i] = queue[i + 1]
          /\ j + 1 \in 1..Len(queue) /\ q[j] = queue[j + 1]
      BY <2>1 DEF Kept
    <3>2. i + 1 = j + 1
      BY <1>1, <1>3, <3>1
    <3> QED BY <3>2
  <2>2. ASSUME Kept(q, i), NEW l \in 1..Len(T), Added(h, T, q, j, l) PROVE FALSE
    <3>1. IsChain(q[i]) /\ IsChain(q[j]) /\ Begins(h, q[j])
      BY <2>2 DEF Kept, Added
    <3> QED BY <1>0, <1>2, <1>3, <2>2, <3>1, BeginsOrdered
  <2>3. ASSUME NEW k \in 1..Len(T), Added(h, T, q, i, k), Kept(q, j) PROVE FALSE
    <3>1. IsChain(q[i]) /\ IsChain(q[j]) /\ Begins(h, q[i])
      BY <2>3 DEF Kept, Added
    <3> QED BY <1>0, <1>2, <1>3, <2>3, <3>1, BeginsOrdered
  <2>4. ASSUME NEW k \in 1..Len(T), Added(h, T, q, i, k), NEW l \in 1..Len(T), Added(h, T, q, j, l)
        PROVE  i = j
    <3>1. /\ IsChain(q[i]) /\ IsChain(q[j]) /\ Len(q[i]) = Len(q[j])
          /\ q[i] = Append(h, T[k]) /\ q[j] = Append(h, T[l])
          /\ i = Len(queue) - 1 + k /\ j = Len(queue) - 1 + l
      BY <2>4 DEF Added
    <3>2. Append(h, T[k]) = Append(h, T[l])
      BY <1>3, <3>1, BeginsBoth
    <3>3. Append(h, T[k])[Len(h) + 1] = T[k] /\ Append(h, T[l])[Len(h) + 1] = T[l]
      BY <1>0 DEF IsChain
    <3>4. T[k] = T[l]
      BY <3>2, <3>3
    <3>5. \A m, n \in 1..Len(T) : T[m] = T[n] => m = n
      BY DEF Turn
    <3> QED BY <3>1, <3>4, <3>5
  <2>5. Kept(q, i) \/ \E k \in 1..Len(T) : Added(h, T, q, i, k)
    BY QueueAfterTurn
  <2>6. Kept(q, j) \/ \E k \in 1..Len(T) : Added(h, T, q, j, k)
    BY QueueAfterTurn
  <2> QED BY <2>1, <2>2, <2>3, <2>4, <2>5, <2>6
<1>4. ASSUME NEW t \in targets, NEW k \in 1..Len(g[t]), NEW i \in 1..Len(q), Begins(q[i], g[t][k])
      PROVE  FALSE
  <2>1. Kept(q, i) \/ \E l \in 1..Len(T) : Added(h, T, q, i, l)
    BY QueueAfterTurn
  <2>2. CASE k \in 1..Len(found[t])
    <3>1. g[t][k] = found[t][k]
      <4>1. Grown(h, g, t)
        BY FoundAfterTurn
      <4> QED BY <2>2, <4>1 DEF Grown
    <3>2. \A j \in 1..Len(queue) : ~Begins(queue[j], found[t][k])
      BY <2>2 DEF Once
    <3>3. IsChain(found[t][k])
      BY <2>2 DEF Typed
    <3>4. CASE Kept(q, i)
      <4>1. q[i] = queue[i + 1] /\ i + 1 \in 1..Len(queue)
        BY <3>4 DEF Kept
      <4> QED BY <1>4, <3>1, <3>2, <4>1
    <3>5. ASSUME NEW l \in 1..Len(T), Added(h, T, q, i, l) PROVE FALSE
      <4>1. IsChain(q[i]) /\ Begins(h, q[i])
        BY <3>5 DEF Added
      <4>2. Begins(h, found[t][k])
        BY <1>0, <1>4, <3>1, <3>3, <4>1, BeginsOrdered
      <4> QED BY <1>0, <3>2, <4>2
    <3> QED BY <2>1, <3>4, <3>5
  <2>3. CASE k \notin 1..Len(found[t])
    <3>1. g[t][k] = h
      BY <2>3, FoundAfterTurn DEF Grown
    <3>2. ASSUME NEW l \in 1..Len(T), Added(h, T, q, i, l) PROVE FALSE
      <4>1. Len(q[i]) = Len(h) + 1 /\ Len(q[i]) <= Len(h)
        BY <1>4, <3>1, <3>2 DEF Added, Begins
      <4> QED BY <1>0, <4>1
    <3> QED BY <1>2, <1>4, <2>1, <3>1, <3>2
  <2> QED BY <2>2, <2>3
<1>5. ASSUME NEW t \in targets, NEW k \in 1..Len(g[t]), NEW l \in 1..Len(g[t]), g[t][k] = g[t][l]
      PROVE  k = l
  <2>1. ASSUME NEW m \in 1..Len(found[t]) PROVE found[t][m] # h
    <3>1. IsChain(found[t][m]) /\ ~Begins(queue[1], found[t][m])
      BY <1>0 DEF Typed, Once
    <3> QED BY <1>0, <3>1, BeginsOrdered DEF Begins
  <2>2. \A m, n \in 1..Len(found[t]) : found[t][m] = found[t][n] => m = n
    BY DEF Once
  <2>3. /\ \A m \in 1..Len(found[t]) : g[t][m] = found[t][m]
        /\ \A m \in 1..Len(g[t]) : m \notin 1..Len(found[t]) => m = Len(found[t]) + 1 /\ g[t][m] = h
    <3>1. Grown(h, g, t)
      BY FoundAfterTurn
    <3> QED BY <3>1 DEF Grown
  <2> QED BY <1>5, <2>1, <2>2, <2>3
<1> QED BY <1>3, <1>4, <1>5 DEF Once

\* How long what is queued may be beside the path that is taken.
LEMMA OneLayerOn ==
  ASSUME Typed(queue, explored, found), Layered(queue, found),
         NEW h, NEW T, NEW q, Turn(h, T, q), NEW i \in 1..Len(q)
  PROVE  /\ Len(q[i]) \in Nat /\ Len(h) <= Len(q[i]) /\ Len(q[i]) <= Len(h) + 1
         /\ (\E k \in 1..Len(T) : Added(h, T, q, i, k)) => Len(q[i]) = Len(h) + 1
<1>0. h = queue[1] /\ 1 \in 1..Len(queue) /\ Len(h) \in Nat
  BY DEF Turn
<1>1. (\E k \in 1..Len(T) : Added(h, T, q, i, k)) => Len(q[i]) = Len(h) + 1
  BY DEF Added
<1>2. CASE Kept(q, i)
  <2>1. i + 1 \in 1..Len(queue) /\ 1 <= i + 1 /\ q[i] = queue[i + 1] /\ IsChain(q[i])
    BY <1>2 DEF Kept
  <2>2. Len(queue[1]) <= Len(queue[i + 1]) /\ Len(queue[i + 1]) <= Len(queue[1]) + 1
    BY <1>0, <2>1 DEF Layered
  <2>3. Len(q[i]) \in Nat
    BY <2>1 DEF IsChain
  <2> QED BY <1>0, <1>1, <2>1, <2>2, <2>3
<1>3. CASE \E k \in 1..Len(T) : Added(h, T, q, i, k)
  BY <1>0, <1>1, <1>3
<1> QED BY <1>2, <1>3, QueueAfterTurn

LEMMA LayeredStep ==
  ASSUME Typed(queue, explored, found), Layered(queue, found),
         NEW h, NEW T, NEW q, Turn(h, T, q), NEW g, Filed(h, g)
  PROVE  Layered(q, g)
<1>0. /\ h = queue[1] /\ Len(h) \in Nat /\ 1 \in 1..Len(queue)
      /\ Len(queue) \in Nat \ {0} /\ Len(T) \in Nat /\ Len(q) = Len(queue) - 1 + Len(T)
  BY DEF Turn
<1>1. ASSUME NEW i \in 1..Len(q), NEW j \in 1..Len(q), i <= j
      PROVE  Len(q[i]) <= Len(q[j]) /\ Len(q[j]) <= Len(q[i]) + 1
  <2>1. /\ Len(q[i]) \in Nat /\ Len(h) <= Len(q[i]) /\ Len(q[i]) <= Len(h) + 1
        /\ Len(q[j]) \in Nat /\ Len(h) <= Len(q[j]) /\ Len(q[j]) <= Len(h) + 1
        /\ (\E k \in 1..Len(T) : Added(h, T, q, j, k)) => Len(q[j]) = Len(h) + 1
    BY OneLayerOn
  <2>2. CASE \E k \in 1..Len(T) : Added(h, T, q, j, k)
    BY <1>0, <2>1, <2>2
  <2>3. CASE Kept(q, j)
    <3>1. i < Len(queue) /\ i + 1 \in 1..Len(queue) /\ j + 1 \in 1..Len(queue) /\ i + 1 <= j + 1
          /\ q[j] = queue[j + 1]
      BY <1>0, <1>1, <2>3 DEF Kept
    <3>2. q[i] = queue[i + 1]
      BY <1>0, <3>1 DEF Turn
    <3> QED BY <3>1, <3>2 DEF Layered
  <2> QED BY <2>2, <2>3, QueueAfterTurn
<1>2. ASSUME NEW t \in targets, NEW k \in 1..Len(g[t]), NEW i \in 1..Len(q)
      PROVE  Len(g[t][k]) <= Len(q[i])
  <2>1. Len(q[i]) \in Nat /\ Len(h) <= Len(q[i])
    BY OneLayerOn
  <2>2. CASE k \in 1..Len(found[t])
    <3>1. g[t][k] = found[t][k]
      <4>1. Grown(h, g, t)
        BY FoundAfterTurn
      <4> QED BY <2>2, <4>1 DEF Grown
    <3>2. Len(found[t][k]) <= Len(queue[1])
      BY <1>0, <2>2 DEF Layered
    <3>3. Len(found[t][k]) \in Nat
      BY <2>2 DEF Typed, IsChain
    <3> QED BY <1>0, <2>1, <3>1, <3>2, <3>3
  <2>3. CASE k \notin 1..Len(found[t])
    <3>1. g[t][k] = h
      BY <2>3, FoundAfterTurn DEF Grown
    <3> QED BY <2>1, <3>1
  <2> QED BY <2>2, <2>3
<1> QED BY <1>1, <1>2 DEF Layered

LEMMA NearestStep ==
  ASSUME Given, Typed(queue, explored, found), Layered(queue, found),
         Nearest(queue, explored, found),
         NEW h, NEW T, NEW q, Turn(h, T, q), NEW g, Filed(h, g)
  PROVE  Nearest(q, explored + 1, g)
<1> SUFFICES ASSUME NEW path, IsChain(path), Simple(path), End(path) \in targets,
                    Len(path) <= MaxDepth
             PROVE  /\ FirstWithin(g, End(path), path)
                    /\ \/ \E i \in 1..Len(q) : Begins(q[i], path)
                       \/ g[End(path)] # <<>>
                       \/ /\ explored + 1 + Len(q) = MaxStates
                          /\ \A i \in 1..Len(q) : Len(q[i]) <= Len(path)
  BY DEF Nearest
<1> DEFINE t == End(path)
<1>0. /\ IsChain(h) /\ h = queue[1] /\ Len(h) \in Nat /\ Len(path) \in Nat /\ 1 \in 1..Len(queue)
      /\ Len(queue) \in Nat \ {0} /\ Len(T) \in Nat /\ Len(q) = Len(queue) - 1 + Len(T)
      /\ explored \in Nat /\ MaxStates \in Nat /\ MaxDepth \in Nat /\ MaxVariants \in Nat \ {0}
      /\ t \in targets /\ explored + Len(queue) + Len(T) <= MaxStates
  <2>1. /\ IsChain(h) /\ h = queue[1] /\ Len(h) \in Nat /\ 1 \in 1..Len(queue)
        /\ Len(queue) \in Nat \ {0} /\ Len(T) \in Nat /\ Len(q) = Len(queue) - 1 + Len(T)
        /\ explored + Len(queue) + Len(T) <= MaxStates
    BY DEF Turn
  <2>2. Len(path) \in Nat
    BY DEF IsChain
  <2>3. explored \in Nat
    BY DEF Typed
  <2>4. MaxStates \in Nat /\ MaxDepth \in Nat /\ MaxVariants \in Nat \ {0}
    BY PathAssumption
  <2> QED BY <2>1, <2>2, <2>3, <2>4
<1>1. /\ FirstWithin(found, t, path)
      /\ \/ \E i \in 1..Len(queue) : Begins(queue[i], path)
         \/ found[t] # <<>>
         \/ explored + Len(queue) = MaxStates /\ \A i \in 1..Len(queue) : Len(queue[i]) <= Len(path)
  BY DEF Nearest
<1> HIDE DEF t
<1>2. /\ g[t] \in Seq(Seq(calls)) /\ found[t] \in Seq(Seq(calls))
      /\ Len(g[t]) \in Nat /\ Len(found[t]) \in Nat /\ Len(found[t]) <= Len(g[t])
      /\ \A k \in 1..Len(found[t]) : g[t][k] = found[t][k]
      /\ \A k \in 1..Len(g[t]) : k \notin 1..Len(found[t]) => g[t][k] = h /\ t = End(h)
  <2>1. Grown(h, g, t)
    BY <1>0, FoundAfterTurn
  <2> QED BY <2>1 DEF Grown
<1>3. \A i \in 1..Len(queue) : Len(h) <= Len(queue[i])
  BY <1>0 DEF Layered
<1>4. \A i \in 1..Len(queue) : Len(queue[i]) \in Nat
  BY DEF Typed, IsChain
<1>5. FirstWithin(g, t, path)
  <2> SUFFICES ASSUME g[t] # <<>> PROVE Len(g[t][1]) <= Len(path)
    BY DEF FirstWithin
  <2>1. 1 \in 1..Len(g[t])
    BY <1>2
  <2>2. CASE found[t] # <<>>
    <3>1. 1 \in 1..Len(found[t])
      BY <1>2, <2>2
    <3> QED BY <1>1, <1>2, <2>2, <3>1 DEF FirstWithin
  <2>3. CASE found[t] = <<>>
    <3>1. g[t][1] = h
      BY <1>2, <2>1, <2>3
    <3>2. ASSUME NEW i \in 1..Len(queue), Begins(queue[i], path) PROVE Len(h) <= Len(path)
      BY <1>0, <1>3, <1>4, <3>2 DEF Begins
    <3> QED BY <1>0, <1>1, <2>3, <3>1, <3>2
  <2> QED BY <2>2, <2>3
<1>6. ASSUME NEW i \in 1..Len(queue), i # 1, Begins(queue[i], path)
      PROVE  \E j \in 1..Len(q) : Begins(q[j], path)
  <2>1. i - 1 \in 1..Len(queue) - 1 /\ i - 1 \in 1..Len(q) /\ (i - 1) + 1 = i
    BY <1>0, <1>6
  <2>2. q[i - 1] = queue[i]
    <3>1. \A j \in 1..Len(queue) - 1 : q[j] = queue[j + 1]
      BY DEF Turn
    <3> QED BY <2>1, <3>1
  <2> QED BY <1>6, <2>1, <2>2
<1>7. ASSUME Begins(h, path), Len(h) = Len(path)
      PROVE  g[t] # <<>>
  <2>1. h = path
    BY <1>0, <1>7, BeginsBoth
  <2>2. CASE Full(h)
    <3>1. Len(found[t]) >= MaxVariants
      BY <2>1, <2>2 DEF Full, t
    <3> QED BY <1>0, <1>2, <3>1 DEF t
  <2>3. CASE ~Full(h)
    <3>1. Len(g[t]) = Len(found[t]) + 1
      BY <1>0, <2>1, <2>3 DEF Filed, t
    <3> QED BY <1>2, <3>1 DEF t
  <2> QED BY <2>2, <2>3
<1>8. ASSUME Begins(h, path), Len(h) < Len(path)
      PROVE  \/ \E j \in 1..Len(q) : Begins(q[j], path)
             \/ explored + 1 + Len(q) = MaxStates /\ \A i \in 1..Len(q) : Len(q[i]) <= Len(path)
  <2> DEFINE e == path[Len(h) + 1]
  <2>1. /\ e \in calls /\ e[1] = End(h) /\ Begins(Append(h, e), path)
        /\ e[2] = At(path, Len(h) + 1) /\ \A i \in 0..Len(h) : At(h, i) = At(path, i)
    BY <1>0, <1>8, NextCall
  <2>2. Len(h) + 1 \in 0..Len(path) /\ ~Deepest(h)
    BY <1>0, <1>8 DEF Deepest
  <2>3. e[2] \in Relevant
    BY <1>0, <2>1, <2>2, ChainIsRelevant DEF t
  <2> HIDE DEF e
  <2>4. e[2] \notin Visited(h)
    <3>0. Visited(h) = {At(h, i) : i \in 0..Len(h)}
      BY <1>0, EndOfChain
    <3> SUFFICES ASSUME NEW i \in 0..Len(h), e[2] = At(h, i) PROVE FALSE
      BY <3>0
    <3>1. At(path, Len(h) + 1) = At(path, i) /\ i \in 0..Len(path) /\ i # Len(h) + 1
      BY <1>0, <1>8, <2>1
    <3> QED BY <2>2, <3>1 DEF Simple
  <2>5. e \in NewCalls(h)
    BY <2>1, <2>3, <2>4 DEF NewCalls
  <2>6. ASSUME NEW k \in 1..Len(T), T[k] = e PROVE \E j \in 1..Len(q) : Begins(q[j], path)
    <3>1. \A n \in 1..Len(T) : q[Len(queue) - 1 + n] = Append(h, T[n])
      BY DEF Turn
    <3>2. Len(queue) - 1 + k \in 1..Len(q) /\ q[Len(queue) - 1 + k] = Append(h, e)
      BY <1>0, <2>6, <3>1
    <3> QED BY <2>1, <3>2
  <2>7. ASSUME explored + Len(queue) + Len(T) = MaxStates
        PROVE  explored + 1 + Len(q) = MaxStates /\ \A i \in 1..Len(q) : Len(q[i]) <= Len(path)
    <3>1. explored + 1 + Len(q) = MaxStates
      BY <1>0, <2>7
    <3>2. ASSUME NEW i \in 1..Len(q) PROVE Len(q[i]) <= Len(path)
      <4>1. Len(q[i]) \in Nat /\ Len(q[i]) <= Len(h) + 1
        BY OneLayerOn
      <4> QED BY <1>0, <1>8, <4>1
    <3> QED BY <3>1, <3>2
  <2> QED BY <2>2, <2>5, <2>6, <2>7 DEF Turn
<1>9. ASSUME explored + Len(queue) = MaxStates, \A i \in 1..Len(queue) : Len(queue[i]) <= Len(path)
      PROVE  explored + 1 + Len(q) = MaxStates /\ \A i \in 1..Len(q) : Len(q[i]) <= Len(path)
  <2>1. Len(T) = 0 /\ explored + 1 + Len(q) = MaxStates
    BY <1>0, <1>9
  <2>2. ASSUME NEW i \in 1..Len(q) PROVE Len(q[i]) <= Len(path)
    <3>1. i \in 1..Len(queue) - 1 /\ i + 1 \in 1..Len(queue)
      BY <1>0, <2>1
    <3>2. q[i] = queue[i + 1]
      BY <3>1 DEF Turn
    <3> QED BY <1>9, <3>1, <3>2
  <2> QED BY <2>1, <2>2
<1>10. found[t] # <<>> => g[t] # <<>>
  BY <1>2
<1>11. ASSUME NEW i \in 1..Len(queue), Begins(queue[i], path)
       PROVE  \/ \E j \in 1..Len(q) : Begins(q[j], path)
              \/ g[t] # <<>>
              \/ explored + 1 + Len(q) = MaxStates /\ \A j \in 1..Len(q) : Len(q[j]) <= Len(path)
  <2>1. CASE i # 1
    BY <1>6, <1>11, <2>1
  <2>2. CASE i = 1
    <3>1. Begins(h, path) /\ Len(h) <= Len(path)
      BY <1>0, <1>11, <2>2 DEF Begins
    <3>2. CASE Len(h) = Len(path)
      BY <1>7, <3>1, <3>2
    <3>3. CASE Len(h) < Len(path)
      BY <1>8, <3>1, <3>3
    <3> QED BY <1>0, <3>1, <3>2, <3>3
  <2> QED BY <2>1, <2>2
<1> QED BY <1>1, <1>5, <1>9, <1>10, <1>11 DEF t

LEMMA SearchStart ==
  PathInit => SearchInv
<1> SUFFICES ASSUME PathInit PROVE SearchInv
  OBVIOUS
<1>1. Given /\ truncated \in BOOLEAN
  BY DEF PathInit, Given
<1>2. explored = 0 /\ \A t \in targets : found[t] = <<>>
  BY DEF PathInit
<1>3. \A t \in targets : Len(found[t]) = 0
  BY <1>2
<1>4. found \in [targets -> Seq(Seq(calls))]
  <2>1. <<>> \in Seq(Seq(calls))
    OBVIOUS
  <2> QED BY <2>1 DEF PathInit
<1>5. {MaxDepth, MaxVariants, MaxStates} \subseteq Nat \ {0}
  BY PathAssumption
<1>6. CASE Source \in Relevant
  <2>1. queue = <<(<<>>)>>
    BY <1>6 DEF PathInit
  <2>2. queue \in Seq(Seq(calls)) /\ Len(queue) = 1 /\ queue[1] = <<>>
    <3>1. <<>> \in Seq(calls)
      OBVIOUS
    <3> QED BY <2>1, <3>1
  <2>3. IsChain(<<>>) /\ Len(<<>>) = 0 /\ End(<<>>) = Source
    BY DEF IsChain, End
  <2>4. \A i \in 1..Len(queue) : i = 1 /\ queue[i] = <<>> /\ Len(queue[i]) = 0
    BY <2>2, <2>3
  <2>5. Typed(queue, explored, found)
    BY <1>2, <1>3, <1>4, <1>5, <1>6, <2>2, <2>3, <2>4 DEF Typed
  <2>6. \A path : IsChain(path) => Begins(queue[1], path) /\ 1 \in 1..Len(queue)
    BY <2>2, <2>3 DEF Begins, IsChain
  <2>7. Complete(queue, truncated, found)
    BY <2>6 DEF Complete
  <2>8. Once(queue, found)
    BY <1>3, <2>4 DEF Once
  <2>9. Layered(queue, found)
    BY <1>3, <2>4 DEF Layered
  <2>10. Nearest(queue, explored, found)
    BY <1>2, <2>6 DEF Nearest, FirstWithin
  <2> QED BY <1>1, <2>5, <2>7, <2>8, <2>9, <2>10 DEF SearchInv
<1>7. CASE Source \notin Relevant
  <2>1. queue = <<>> /\ Len(queue) = 0 /\ queue \in Seq(Seq(calls))
    BY <1>7 DEF PathInit
  <2>2. ASSUME NEW path, IsChain(path), End(path) \in targets PROVE FALSE
    <3>1. 0 \in 0..Len(path) /\ At(path, 0) = Source
      BY <2>2 DEF IsChain, At
    <3> QED BY <1>1, <1>7, <2>2, <3>1, ChainIsRelevant
  <2>3. Typed(queue, explored, found)
    BY <1>2, <1>3, <1>4, <1>5, <2>1 DEF Typed
  <2>4. Complete(queue, truncated, found) /\ Nearest(queue, explored, found)
    BY <2>2 DEF Complete, Nearest
  <2>5. Once(queue, found) /\ Layered(queue, found)
    BY <1>3, <2>1 DEF Once, Layered
  <2> QED BY <1>1, <2>3, <2>4, <2>5 DEF SearchInv
<1> QED BY <1>6, <1>7

LEMMA SearchStep ==
  SearchInv /\ [Explore]_pathVars => SearchInv'
<1> SUFFICES ASSUME SearchInv, [Explore]_pathVars PROVE SearchInv'
  OBVIOUS
<1>0. /\ Given /\ truncated \in BOOLEAN /\ Typed(queue, explored, found)
      /\ Complete(queue, truncated, found) /\ Once(queue, found)
      /\ Layered(queue, found) /\ Nearest(queue, explored, found)
  BY DEF SearchInv
<1>1. calls' = calls /\ targets' = targets
  BY DEF Explore, pathVars
<1>2. ASSUME Explore
      PROVE  /\ Typed(queue', explored', found') /\ truncated' \in BOOLEAN
             /\ Complete(queue', truncated', found') /\ Once(queue', found')
             /\ Layered(queue', found') /\ Nearest(queue', explored', found')
  <2> DEFINE h == Head(queue)
  <2>1. Turn(h, Taken(h), queue')
    BY <1>0, <1>2, ExploreIsTurn
  <2>2. IsChain(h)
    BY <2>1 DEF Turn
  <2>3. explored' = explored + 1 /\ truncated' = (truncated \/ Cut(h))
        /\ found' = IF Reported(h) /\ ~Full(h) THEN [found EXCEPT ![End(h)] = Append(@, h)] ELSE found
    BY <1>2 DEF Explore
  <2> HIDE DEF h
  <2>4. Filed(h, found')
    BY <1>0, <2>2, <2>3, ReportIsFiled
  <2>5. Typed(queue', explored + 1, found')
    BY <1>0, <2>1, <2>4, TypedStep
  <2>6. Complete(queue', truncated \/ Cut(h), found')
    BY <1>0, <2>1, <2>4, CompleteStep
  <2>7. Once(queue', found')
    BY <1>0, <2>1, <2>4, OnceStep
  <2>8. Layered(queue', found')
    BY <1>0, <2>1, <2>4, LayeredStep
  <2>9. Nearest(queue', explored + 1, found')
    BY <1>0, <2>1, <2>4, NearestStep
  <2>10. truncated' \in BOOLEAN
    <3>1. Cut(h) \in BOOLEAN
      BY DEF Cut
    <3> QED BY <1>0, <2>3, <3>1
  <2> QED BY <2>3, <2>5, <2>6, <2>7, <2>8, <2>9, <2>10
<1>3. ASSUME UNCHANGED pathVars
      PROVE  /\ Typed(queue', explored', found') /\ truncated' \in BOOLEAN
             /\ Complete(queue', truncated', found') /\ Once(queue', found')
             /\ Layered(queue', found') /\ Nearest(queue', explored', found')
  BY <1>0, <1>3 DEF pathVars
<1>4. /\ Typed(queue', explored', found') /\ truncated' \in BOOLEAN
      /\ Complete(queue', truncated', found') /\ Once(queue', found')
      /\ Layered(queue', found') /\ Nearest(queue', explored', found')
  BY <1>2, <1>3
<1>5. Typed(queue, explored, found)'
  BY <1>1, <1>4 DEF Typed, IsChain, Relevant
<1>6. Complete(queue, truncated, found)'
  BY <1>1, <1>4 DEF Complete, IsChain
<1>7. Once(queue, found)' /\ Layered(queue, found)'
  BY <1>1, <1>4 DEF Once, Layered
<1>8. Nearest(queue, explored, found)'
  BY <1>1, <1>4 DEF Nearest, IsChain
<1>9. Given' /\ (truncated \in BOOLEAN)'
  BY <1>0, <1>1, <1>4 DEF Given
<1> QED BY <1>5, <1>6, <1>7, <1>8, <1>9 DEF SearchInv

\* The search keeps its invariant, whatever the program and the limits.
THEOREM SearchInvariance == PathSpec => []SearchInv
BY SearchStart, SearchStep, PTL DEF PathSpec

LEMMA SearchIsTyped ==
  SearchInv => PathTypeOK
<1> SUFFICES ASSUME SearchInv PROVE PathTypeOK
  OBVIOUS
<1>1. Typed(queue, explored, found) /\ truncated \in BOOLEAN /\ MaxDepth \in Nat
  BY PathAssumption DEF SearchInv
<1>2. queue \in Seq(Seq(calls)) /\ Len(queue) \in Nat /\ explored \in Nat /\ DOMAIN queue = 1..Len(queue)
  BY <1>1 DEF Typed
<1>3. ASSUME NEW i \in DOMAIN queue PROVE queue[i] \in Chains(MaxDepth)
  <2>1. IsChain(queue[i]) /\ Len(queue[i]) <= MaxDepth
    BY <1>1, <1>2, <1>3 DEF Typed
  <2> QED BY <1>1, <2>1, ChainsAreBounded
<1>4. explored + Len(queue) \in 0..MaxStates /\ \A t \in targets : Len(found[t]) <= MaxVariants
  BY <1>1, <1>2, PathAssumption DEF Typed
<1> QED BY <1>1, <1>3, <1>4 DEF PathTypeOK

\* The chain is found, and found once, however long it is.
FoundOnce(path) ==
  \E k \in DOMAIN found[End(path)] :
    {i \in DOMAIN found[End(path)] : found[End(path)][i] = path} = {k}

LEMMA SearchIsWhole ==
  ASSUME SearchInv, Searched, ~truncated, NEW path, IsChain(path), End(path) \in targets
  PROVE  FoundOnce(path)
<1> DEFINE t == End(path)
<1>1. Typed(queue, explored, found) /\ Complete(queue, truncated, found) /\ Once(queue, found)
  BY DEF SearchInv
<1>2. Len(queue) = 0
  BY DEF Searched
<1>3. PICK k \in 1..Len(found[t]) : found[t][k] = path
  BY <1>1, <1>2 DEF Complete
<1>4. found[t] \in Seq(Seq(calls))
  BY <1>1 DEF Typed
<1>5. DOMAIN found[t] = 1..Len(found[t])
  <2> HIDE DEF t
  <2> QED BY <1>4
<1>6. \A i \in 1..Len(found[t]) : found[t][i] = path => i = k
  BY <1>1, <1>3 DEF Once
<1> HIDE DEF t
<1>7. {i \in DOMAIN found[t] : found[t][i] = path} = {k} /\ k \in DOMAIN found[t]
  BY <1>3, <1>5, <1>6
<1> QED BY <1>7 DEF FoundOnce, t

\* What is returned is what was found, by target.
LEMMA ResultsAreFound ==
  ASSUME SearchInv
  PROVE  /\ \A t \in targets : t \in DOMAIN Results <=> found[t] # <<>>
         /\ DOMAIN Results \subseteq targets
         /\ \A t \in DOMAIN Results :
              /\ DOMAIN Results[t] = DOMAIN found[t] /\ DOMAIN found[t] = 1..Len(found[t])
              /\ Len(found[t]) \in Nat \ {0}
              /\ \A i \in DOMAIN found[t] : Results[t][i] = [edges |-> found[t][i], truncated |-> truncated]
<1>1. found \in [targets -> Seq(Seq(calls))]
  BY DEF SearchInv, Typed
<1>2. /\ \A t \in targets : t \in DOMAIN Results <=> found[t] # <<>>
      /\ DOMAIN Results \subseteq targets
  BY DEF Results
<1>3. ASSUME NEW t \in DOMAIN Results
      PROVE  /\ DOMAIN Results[t] = DOMAIN found[t]
             /\ \A i \in DOMAIN found[t] : Results[t][i] = [edges |-> found[t][i], truncated |-> truncated]
  BY DEF Results
<1>4. ASSUME NEW t \in DOMAIN Results
      PROVE  DOMAIN found[t] = 1..Len(found[t]) /\ Len(found[t]) \in Nat \ {0}
  <2>1. found[t] \in Seq(Seq(calls)) /\ found[t] # <<>>
    BY <1>1, <1>2
  <2> QED BY <2>1
<1> QED BY <1>2, <1>3, <1>4

\* The chain is in the answer, and there once, however long it is.
Returned(path) ==
  /\ End(path) \in DOMAIN Results
  /\ \E k \in DOMAIN Results[End(path)] :
       {j \in DOMAIN Results[End(path)] : Results[End(path)][j].edges = path} = {k}

LEMMA AnswerIsWhole ==
  ASSUME SearchInv, Searched,
         NEW t \in DOMAIN Results, NEW i \in DOMAIN Results[t], ~Results[t][i].truncated,
         NEW path, IsChain(path), End(path) \in targets
  PROVE  Returned(path)
<1>1. ~truncated
  <2>1. Results[t][i] = [edges |-> found[t][i], truncated |-> truncated]
    BY ResultsAreFound
  <2> QED BY <2>1
<1> DEFINE u == End(path)
<1>2. PICK k \in DOMAIN found[u] : {j \in DOMAIN found[u] : found[u][j] = path} = {k}
  BY <1>1, SearchIsWhole DEF FoundOnce
<1> HIDE DEF u
<1>3. u \in DOMAIN Results
  <2>1. found[u] # <<>>
    BY <1>2
  <2> QED BY <2>1, ResultsAreFound DEF u
<1>4. DOMAIN Results[u] = DOMAIN found[u] /\ \A j \in DOMAIN found[u] : Results[u][j].edges = found[u][j]
  <2>1. /\ DOMAIN Results[u] = DOMAIN found[u]
        /\ \A j \in DOMAIN found[u] : Results[u][j] = [edges |-> found[u][j], truncated |-> truncated]
    BY <1>3, ResultsAreFound
  <2>2. ASSUME NEW j \in DOMAIN found[u] PROVE Results[u][j].edges = found[u][j]
    <3>1. Results[u][j] = [edges |-> found[u][j], truncated |-> truncated]
      BY <2>1
    <3> QED BY <3>1
  <2> QED BY <2>1, <2>2
<1>5. {j \in DOMAIN Results[u] : Results[u][j].edges = path} = {k}
  BY <1>2, <1>4
<1> QED BY <1>2, <1>3, <1>4, <1>5 DEF Returned, u

LEMMA SearchIsComplete ==
  SearchInv => UnmarkedIsComplete
<1> SUFFICES ASSUME SearchInv, Searched,
                    NEW t \in DOMAIN Results, NEW i \in DOMAIN Results[t], ~Results[t][i].truncated,
                    NEW path \in Chains(MaxDepth + 1), End(path) \in targets
             PROVE  /\ End(path) \in DOMAIN Results
                    /\ Cardinality({j \in DOMAIN Results[End(path)] :
                                      Results[End(path)][j].edges = path}) = 1
  BY DEF UnmarkedIsComplete
<1>1. MaxDepth + 1 \in Nat
  BY PathAssumption
<1>2. IsChain(path)
  BY <1>1, ChainsAreBounded
<1>3. Returned(path)
  BY <1>2, AnswerIsWhole
<1>4. PICK k : {j \in DOMAIN Results[End(path)] : Results[End(path)][j].edges = path} = {k}
  BY <1>3 DEF Returned
<1>5. End(path) \in DOMAIN Results
  BY <1>3 DEF Returned
<1> QED BY <1>4, <1>5, FS_Singleton

LEMMA SearchLeavesFar ==
  SearchInv => AbsentIsFar
<1> SUFFICES ASSUME SearchInv, Searched, NEW t \in targets \ DOMAIN Results,
                    NEW path \in Chains(MaxDepth), End(path) = t
             PROVE  explored = MaxStates
  BY DEF AbsentIsFar
<1>1. Typed(queue, explored, found) /\ Nearest(queue, explored, found) /\ MaxDepth \in Nat
  BY PathAssumption DEF SearchInv
<1>2. IsChain(path) /\ Len(path) <= MaxDepth
  BY <1>1, ChainsAreBounded
<1>3. PICK short : IsChain(short) /\ Simple(short) /\ End(short) = t /\ Len(short) <= Len(path)
  BY <1>2, SimpleIsEnough
<1>4. Len(short) \in Nat /\ Len(path) \in Nat
  BY <1>2, <1>3 DEF IsChain
<1>5. Len(short) <= MaxDepth
  BY <1>1, <1>2, <1>3, <1>4
<1>6. found[t] = <<>> /\ Len(queue) = 0 /\ explored \in Nat
  BY <1>1, ResultsAreFound DEF Searched, Typed
<1>7. explored + Len(queue) = MaxStates
  BY <1>1, <1>3, <1>5, <1>6 DEF Nearest
<1> QED BY <1>6, <1>7

LEMMA SearchFindsShortest ==
  SearchInv => FirstIsShortest
<1> SUFFICES ASSUME SearchInv, NEW t \in DOMAIN Results,
                    NEW path \in Chains(MaxDepth), End(path) = t
             PROVE  Len(Results[t][1].edges) <= Len(path)
  BY DEF FirstIsShortest
<1>1. Typed(queue, explored, found) /\ Nearest(queue, explored, found) /\ MaxDepth \in Nat
  BY PathAssumption DEF SearchInv
<1>2. IsChain(path) /\ Len(path) <= MaxDepth
  BY <1>1, ChainsAreBounded
<1>3. PICK short : IsChain(short) /\ Simple(short) /\ End(short) = t /\ Len(short) <= Len(path)
  BY <1>2, SimpleIsEnough
<1>4. Len(short) \in Nat /\ Len(path) \in Nat
  BY <1>2, <1>3 DEF IsChain
<1>5. Len(short) <= MaxDepth
  BY <1>1, <1>2, <1>3, <1>4
<1>6. /\ t \in targets /\ found[t] # <<>> /\ 1 \in 1..Len(found[t])
      /\ Results[t][1].edges = found[t][1]
  <2>1. t \in targets /\ DOMAIN found[t] = 1..Len(found[t]) /\ Len(found[t]) \in Nat \ {0}
    BY ResultsAreFound
  <2>2. found[t] # <<>>
    BY <2>1, ResultsAreFound
  <2>3. 1 \in DOMAIN found[t]
    BY <2>1
  <2>4. Results[t][1] = [edges |-> found[t][1], truncated |-> truncated]
    BY <2>3, ResultsAreFound
  <2> QED BY <2>1, <2>2, <2>3, <2>4
<1>7. FirstWithin(found, t, short)
  BY <1>1, <1>3, <1>5, <1>6 DEF Nearest
<1>8. Len(found[t][1]) \in Nat
  <2>1. IsChain(found[t][1])
    BY <1>1, <1>6 DEF Typed
  <2> QED BY <2>1 DEF IsChain
<1> QED BY <1>3, <1>4, <1>6, <1>7, <1>8 DEF FirstWithin

\* find_variants keeps its limits; if one path of its answer is not marked as
\* truncated, every chain of calls to any target is in the answer once; a target
\* that is not in the answer is out of the depth or all states were used up; and
\* the first path of a target, which find() returns, is a shortest one even when a
\* limit was hit.
THEOREM CallsAreSearchedHonestly == PathSpec => []CallsSearchedHonestly
<1>1. SearchInv => CallsSearchedHonestly
  BY SearchIsTyped, SearchIsComplete, SearchLeavesFar, SearchFindsShortest DEF CallsSearchedHonestly
<1> QED BY <1>1, SearchInvariance, PTL

\* An answer with a path that is not marked as truncated leaves out no chain of
\* calls to any target, of whatever length: not only those up to max_depth, and not
\* only those without a repeated routine.
THEOREM UnmarkedSearchIsExhaustive ==
  PathSpec => [](Searched =>
                   \A t \in DOMAIN Results : \A i \in DOMAIN Results[t] : ~Results[t][i].truncated =>
                     \A path : IsChain(path) /\ End(path) \in targets => Returned(path))
<1>1. SearchInv => (Searched =>
                      \A t \in DOMAIN Results : \A i \in DOMAIN Results[t] : ~Results[t][i].truncated =>
                        \A path : IsChain(path) /\ End(path) \in targets => Returned(path))
  BY AnswerIsWhole
<1> QED BY <1>1, SearchInvariance, PTL

-------------------------------------------------------------------------------
(* The routes of a value *)

Asked == ask \in ValueQueries

ValuesOfAsk == Starts \union {e.from : e \in ask.edges} \union {e.to : e \in ask.edges}

Entries == [value: ValuesOfAsk, route: Seq(ask.edges), held: SUBSET ValuesOfAsk]

\* The value a route starts from.
Start(w) == IF w.route = <<>> THEN w.value ELSE w.route[1].from

\* A value on its way: where it started, that it came along edges, what it has
\* been, and that it has not met the use.
ValueWalk(w) ==
  /\ Start(w) \in Starts
  /\ w.route # <<>> => w.value = w.route[Len(w.route)].to
  /\ \A i \in 2..Len(w.route) : w.route[i].from = w.route[i - 1].to
  /\ w.held = {Start(w)} \union {w.route[i].to : i \in 1..Len(w.route)}
  /\ \A i, j \in 1..Len(w.route) :
       w.route[i].to # Start(w) /\ (i # j => w.route[i].to # w.route[j].to)
  /\ \A i \in 1..Len(w.route) : w.route[i].to[1] # ask.use

\* A route of the value, of whatever length.
IsValueRoute(r) ==
  /\ r \in Seq(ask.edges) /\ Len(r) >= 1
  /\ r[1].from \in Starts
  /\ \A i \in 2..Len(r) : r[i].from = r[i - 1].to
  /\ \A i, j \in 1..Len(r) : r[i].to # r[1].from /\ (i # j => r[i].to # r[j].to)
  /\ \A i \in 1..Len(r) : r[i].to[1] = ask.use <=> i = Len(r)
  /\ Delivered(r[Len(r)]) \in ask.wanted

LEMMA QueryShape ==
  ASSUME Asked
  PROVE  /\ IsFiniteSet(ask.edges) /\ IsFiniteSet(ask.names)
         /\ \A e \in ask.edges : e.no \in Nat /\ e.from = <<e.from[1], e.from[2]>>
         /\ \A e, f \in ask.edges : e.no = f.no => e = f
         /\ ask.limit \in Nat \ {0} /\ ask.states \in Nat \ {0}
         /\ ask.probe \in BOOLEAN /\ ask.reads_input \in BOOLEAN
BY ValueAssumption DEF Asked

\* The sorted list of edges names each of them once.
LEMMA CarryingIsListed ==
  ASSUME Asked, NEW v
  PROVE  /\ Carriers(v) \subseteq ask.edges
         /\ Carrying(v) \in Seq(Carriers(v))
         /\ \A e \in Carriers(v) : \E j \in 1..Len(Carrying(v)) : Carrying(v)[j] = e
         /\ \A i, j \in 1..Len(Carrying(v)) : Carrying(v)[i] = Carrying(v)[j] => i = j
<1> DEFINE S == Carriers(v)
           R == {p \in S \X S : p[1].no < p[2].no}
           L == Carrying(v)
<1>1. IsFiniteSet(S) /\ S \subseteq ask.edges
  <2>1. S \subseteq ask.edges
    BY DEF Carriers
  <2> QED BY <2>1, QueryShape, FS_Subset
<1>2. /\ \A e \in S : e.no \in Nat
      /\ \A e, f \in S : e.no = f.no => e = f
  <2> HIDE DEF S
  <2> QED BY <1>1, QueryShape
<1>3. \A e, f \in S : <<e, f>> \in R <=> e.no < f.no
  OBVIOUS
<1>4. StrictOrder(R, S)
  <2> HIDE DEF S, R
  <2> QED BY <1>2, <1>3 DEF StrictOrder
<1>5. \A e \in S : {f \in S : <<f, e>> \in R} = {f \in S : f.no < e.no}
  BY <1>3
<1>6. L = ByPlace(S, R)
  <2> DEFINE A(n) == CHOOSE e \in S : Cardinality({f \in S : f.no < e.no}) = n - 1
             B(n) == CHOOSE e \in S : Cardinality({f \in S : <<f, e>> \in R}) = n - 1
  <2>1. \A n : A(n) = B(n)
    <3> HIDE DEF S, R
    <3> QED BY <1>5
  <2>2. L = [n \in 1..Cardinality(S) |-> A(n)]
    BY DEF Carrying
  <2>3. [n \in 1..Cardinality(S) |-> A(n)] = [n \in 1..Cardinality(S) |-> B(n)]
    <3> HIDE DEF A, B, S
    <3> QED BY <2>1
  <2> QED BY <2>2, <2>3 DEF ByPlace
<1> HIDE DEF S, R, L
<1>7. NamesEachOnce(L, S)
  BY <1>1, <1>4, <1>6, ListedByPlace
<1>8. L \in Seq(S) /\ Len(L) = Cardinality(S)
  BY <1>7 DEF NamesEachOnce
<1>9. /\ \A e \in S : \E j \in 1..Len(L) : L[j] = e
      /\ \A i, j \in 1..Len(L) : L[i] = L[j] => i = j
  BY <1>7, <1>8 DEF NamesEachOnce
<1> QED BY <1>1, <1>8, <1>9 DEF S, L

\* What leads towards the use reaches the start of an edge from its end.
LEMMA TowardBack ==
  ASSUME NEW e \in ask.edges, e.to[1] \in Toward
  PROVE  e.from[1] \in Toward
<1> DEFINE F == {d.from[1] : d \in ask.edges}
<1> SUFFICES ASSUME NEW back \in SUBSET F,
                    \A d \in ask.edges : d.to[1] \in back \union {ask.use} => d.from[1] \in back
             PROVE  e.from[1] \in back
  BY DEF Toward
<1>1. e.to[1] \in back \union {ask.use}
  BY DEF Toward
<1> QED BY <1>1

LEMMA RoutesLeadToward ==
  ASSUME NEW r, IsValueRoute(r), NEW i \in 1..Len(r)
  PROVE  r[i].to[1] \in Toward
<1>0. Len(r) \in Nat \ {0} /\ \A n \in 1..Len(r) : r[n] \in ask.edges
  BY DEF IsValueRoute
<1> DEFINE Bad == {k \in Nat : k < Len(r) /\ r[Len(r) - k].to[1] \notin Toward}
<1>1. CASE Bad = {}
  <2>1. Len(r) - i \in Nat /\ Len(r) - i < Len(r) /\ Len(r) - (Len(r) - i) = i
    BY <1>0
  <2> QED BY <1>1, <2>1
<1>2. CASE Bad # {}
  <2>1. PICK k \in Bad : \A m \in Bad : k <= m
    <3>1. Bad \subseteq Nat
      OBVIOUS
    <3> HIDE DEF Bad
    <3> QED BY <1>2, <3>1, SmallestNumber
  <2>2. k \in Nat /\ k < Len(r) /\ r[Len(r) - k].to[1] \notin Toward
    BY <2>1
  <2>3. k # 0
    <3>1. r[Len(r)].to[1] = ask.use
      BY <1>0 DEF IsValueRoute
    <3>2. ask.use \in Toward
      BY DEF Toward
    <3> QED BY <1>0, <2>2, <3>1, <3>2
  <2>4. k - 1 \in Nat /\ k - 1 < Len(r) /\ k - 1 \notin Bad
    <3>1. k - 1 \in Nat /\ k - 1 < k /\ k - 1 < Len(r)
      BY <1>0, <2>2, <2>3
    <3> HIDE DEF Bad
    <3> QED BY <2>1, <2>2, <3>1
  <2> DEFINE n == Len(r) - k + 1
  <2>5. n \in 2..Len(r) /\ n - 1 = Len(r) - k /\ n = Len(r) - (k - 1)
    BY <1>0, <2>2, <2>3
  <2>6. r[n].to[1] \in Toward
    BY <2>4, <2>5
  <2> HIDE DEF n, Bad
  <2>7. r[n].from = r[n - 1].to /\ r[n] \in ask.edges
    BY <1>0, <2>5 DEF IsValueRoute
  <2>8. r[n].from[1] \in Toward
    BY <2>6, <2>7, TowardBack
  <2> QED BY <2>2, <2>5, <2>7, <2>8
<1> QED BY <1>1, <1>2

\* r goes on from the value w is about, behind w's route.
Goes(w, r) ==
  /\ Len(w.route) < Len(r)
  /\ \A i \in 1..Len(w.route) : r[i] = w.route[i]
  /\ r[Len(w.route) + 1].from = w.value

\* ... along one of the edges not looked at.
Hand(c, l, r) == Goes(c, r) /\ \E j \in 1..Len(l) : l[j] = r[Len(c.route) + 1]

\* ... along the first of them.
First(c, l, r) == Goes(c, r) /\ r[Len(c.route) + 1] = l[1]

\* A route that goes on from a value is carried on by an edge from it.
LEMMA RouteIsCarried ==
  ASSUME NEW w \in Entries, NEW r, IsValueRoute(r), Goes(w, r)
  PROVE  r[Len(w.route) + 1] \in Carriers(w.value)
<1> DEFINE n == Len(w.route) + 1
<1>1. n \in 1..Len(r) /\ r[n] \in ask.edges /\ r[n].from = w.value
  BY DEF Entries, Goes, IsValueRoute
<1>2. r[n].to[1] \in Toward
  BY <1>1, RoutesLeadToward
<1>3. r[n].to[1] = ask.use => Delivered(r[n]) \in ask.wanted
  BY <1>1 DEF IsValueRoute
<1> QED BY <1>1, <1>2, <1>3 DEF Carriers

LEMMA HandTail ==
  ASSUME NEW S, NEW l \in Seq(S), l # <<>>, NEW c, NEW r
  PROVE  /\ Hand(c, l, r) <=> First(c, l, r) \/ Hand(c, Tail(l), r)
         /\ (\A i, j \in 1..Len(l) : l[i] = l[j] => i = j) => ~(First(c, l, r) /\ Hand(c, Tail(l), r))
<1>1. /\ Len(l) \in Nat \ {0} /\ Len(Tail(l)) = Len(l) - 1
      /\ \A j \in 1..Len(Tail(l)) : Tail(l)[j] = l[j + 1] /\ j + 1 \in 2..Len(l)
  OBVIOUS
<1>2. ASSUME Hand(c, l, r) PROVE First(c, l, r) \/ Hand(c, Tail(l), r)
  <2>1. PICK j \in 1..Len(l) : l[j] = r[Len(c.route) + 1]
    BY <1>2 DEF Hand
  <2>2. CASE j = 1
    BY <1>2, <2>1, <2>2 DEF Hand, First
  <2>3. CASE j # 1
    <3>1. j - 1 \in 1..Len(Tail(l)) /\ Tail(l)[j - 1] = l[j]
      BY <1>1, <2>3
    <3> QED BY <1>2, <2>1, <3>1 DEF Hand
  <2> QED BY <2>2, <2>3
<1>3. First(c, l, r) => Hand(c, l, r)
  <2>1. 1 \in 1..Len(l)
    BY <1>1
  <2> QED BY <2>1 DEF Hand, First
<1>4. Hand(c, Tail(l), r) => \E j \in 2..Len(l) : l[j] = r[Len(c.route) + 1]
  BY <1>1 DEF Hand
<1>5. Hand(c, Tail(l), r) => Hand(c, l, r)
  <2>1. \A j \in 2..Len(l) : j \in 1..Len(l)
    BY <1>1
  <2> QED BY <1>4, <2>1 DEF Hand
<1>6. ASSUME \A i, j \in 1..Len(l) : l[i] = l[j] => i = j, First(c, l, r), Hand(c, Tail(l), r)
      PROVE  FALSE
  <2>1. PICK j \in 2..Len(l) : l[j] = r[Len(c.route) + 1]
    BY <1>4, <1>6
  <2>2. l[1] = l[j]
    BY <1>6, <2>1 DEF First
  <2> QED BY <1>1, <1>6, <2>1, <2>2
<1> QED BY <1>2, <1>3, <1>5, <1>6

\* The entry for the end of an edge.
Extended(c, e) == [value |-> e.to, route |-> Append(c.route, e), held |-> c.held \union {e.to}]

LEMMA LongerRoute ==
  ASSUME NEW c \in Entries, NEW e \in ask.edges, e.from = c.value
  PROVE  LET longer == Append(c.route, e) IN
         /\ longer \in Seq(ask.edges) /\ Len(longer) = Len(c.route) + 1 /\ Len(c.route) \in Nat
         /\ longer # <<>> /\ longer[Len(c.route) + 1] = e
         /\ \A i \in 1..Len(c.route) : longer[i] = c.route[i]
         /\ Goes(c, longer)
<1> DEFINE longer == Append(c.route, e)
<1>1. c.route \in Seq(ask.edges) /\ Len(c.route) \in Nat
  BY DEF Entries
<1>2. /\ longer \in Seq(ask.edges) /\ Len(longer) = Len(c.route) + 1
      /\ longer[Len(c.route) + 1] = e
      /\ \A i \in 1..Len(c.route) : longer[i] = c.route[i]
  <2>1. \A s \in Seq(ask.edges) :
          /\ Append(s, e) \in Seq(ask.edges) /\ Len(Append(s, e)) = Len(s) + 1
          /\ Append(s, e)[Len(s) + 1] = e
          /\ \A i \in 1..Len(s) : Append(s, e)[i] = s[i]
    OBVIOUS
  <2> QED BY <1>1, <2>1
<1> HIDE DEF longer
<1>3. longer # <<>>
  BY <1>1, <1>2
<1>4. Goes(c, longer)
  BY <1>1, <1>2 DEF Goes
<1> QED BY <1>1, <1>2, <1>3, <1>4 DEF longer

\* One edge further: the value is still on its way, or it has met the use.
LEMMA LongerWalk ==
  ASSUME NEW c \in Entries, ValueWalk(c), NEW e \in Carriers(c.value), e.to \notin c.held
  PROVE  /\ e.to[1] # ask.use => Extended(c, e) \in Entries /\ ValueWalk(Extended(c, e))
         /\ e.to[1] = ask.use => IsValueRoute(Append(c.route, e))
<1> DEFINE longer == Append(c.route, e)
           n == Len(c.route)
<1>0. e \in ask.edges /\ e.from = c.value /\ (e.to[1] = ask.use => Delivered(e) \in ask.wanted)
  BY DEF Carriers
<1>1. /\ longer \in Seq(ask.edges) /\ Len(longer) = n + 1 /\ n \in Nat
      /\ longer # <<>> /\ longer[n + 1] = e
      /\ \A i \in 1..n : longer[i] = c.route[i]
  BY <1>0, LongerRoute
<1>2. n = 0 <=> c.route = <<>>
  BY DEF Entries
<1> HIDE DEF longer
<1>3. longer[1].from = Start(c)
  BY <1>0, <1>1, <1>2 DEF Start
<1>4. \A i \in 2..n + 1 : longer[i].from = longer[i - 1].to
  <2> SUFFICES ASSUME NEW i \in 2..n + 1 PROVE longer[i].from = longer[i - 1].to
    OBVIOUS
  <2>1. CASE i = n + 1
    <3>1. n \in 1..n /\ n # 0 /\ i - 1 = n
      BY <1>1, <2>1
    <3>2. c.value = c.route[n].to
      BY <1>2, <3>1 DEF ValueWalk
    <3> QED BY <1>0, <1>1, <2>1, <3>1, <3>2
  <2>2. CASE i \in 2..n
    <3>1. i \in 1..n /\ i - 1 \in 1..n /\ c.route[i].from = c.route[i - 1].to
      BY <1>1, <2>2 DEF ValueWalk
    <3> QED BY <1>1, <3>1
  <2> QED BY <1>1, <2>1, <2>2
<1>5. \A i \in 1..n : longer[i].to \in c.held /\ longer[i].to # Start(c) /\ longer[i].to[1] # ask.use
  BY <1>1 DEF ValueWalk
<1>6. Start(c) \in c.held /\ Start(c) \in Starts
  BY DEF ValueWalk
<1>7. \A i, j \in 1..n + 1 : longer[i].to # Start(c) /\ (i # j => longer[i].to # longer[j].to)
  <2> SUFFICES ASSUME NEW i \in 1..n + 1, NEW j \in 1..n + 1
               PROVE  longer[i].to # Start(c) /\ (i # j => longer[i].to # longer[j].to)
    OBVIOUS
  <2>1. i \in 1..n \/ i = n + 1
    BY <1>1
  <2>2. j \in 1..n \/ j = n + 1
    BY <1>1
  <2>3. ASSUME i \in 1..n, j \in 1..n, i # j PROVE longer[i].to # longer[j].to
    BY <1>1, <2>3 DEF ValueWalk
  <2> QED BY <1>1, <1>5, <1>6, <2>1, <2>2, <2>3
<1>8. c.held \union {e.to} = {Start(c)} \union {longer[i].to : i \in 1..n + 1}
  <2>1. {longer[i].to : i \in 1..n + 1} = {longer[i].to : i \in 1..n} \union {e.to}
    BY <1>1
  <2>2. {longer[i].to : i \in 1..n} = {c.route[i].to : i \in 1..n}
    BY <1>1
  <2>3. c.held = {Start(c)} \union {c.route[i].to : i \in 1..n}
    BY DEF ValueWalk
  <2> QED BY <2>1, <2>2, <2>3
<1>9. ASSUME e.to[1] # ask.use
      PROVE  Extended(c, e) \in Entries /\ ValueWalk(Extended(c, e))
  <2> DEFINE u == Extended(c, e)
  <2>1. u.value = e.to /\ u.route = longer /\ u.held = c.held \union {e.to}
    BY DEF Extended, longer
  <2>2. u \in Entries
    <3>1. e.to \in ValuesOfAsk /\ c.held \in SUBSET ValuesOfAsk
      BY <1>0 DEF ValuesOfAsk, Entries
    <3>2. u = [value |-> e.to, route |-> longer, held |-> c.held \union {e.to}]
      BY DEF Extended, longer
    <3> HIDE DEF u
    <3> QED BY <1>1, <3>1, <3>2 DEF Entries
  <2> HIDE DEF u
  <2>3. Start(u) = Start(c)
    BY <1>1, <1>3, <2>1 DEF Start
  <2>4. \A i \in 1..n + 1 : longer[i].to[1] # ask.use
    BY <1>1, <1>5, <1>9
  <2>5. Len(u.route) = n + 1 /\ u.route # <<>>
    BY <1>1, <2>1
  <2>6. Start(u) \in Starts /\ (u.route # <<>> => u.value = u.route[Len(u.route)].to)
    BY <1>1, <1>6, <2>1, <2>3, <2>5
  <2>7. /\ \A i \in 2..Len(u.route) : u.route[i].from = u.route[i - 1].to
        /\ u.held = {Start(u)} \union {u.route[i].to : i \in 1..Len(u.route)}
    BY <1>4, <1>8, <2>1, <2>3, <2>5
  <2>8. /\ \A i, j \in 1..Len(u.route) :
             u.route[i].to # Start(u) /\ (i # j => u.route[i].to # u.route[j].to)
        /\ \A i \in 1..Len(u.route) : u.route[i].to[1] # ask.use
    BY <1>7, <2>1, <2>3, <2>4, <2>5
  <2>9. ValueWalk(u)
    BY <2>6, <2>7, <2>8 DEF ValueWalk
  <2> QED BY <2>2, <2>9 DEF u
<1>10. ASSUME e.to[1] = ask.use PROVE IsValueRoute(longer)
  <2>1. \A i \in 1..n + 1 : longer[i].to[1] = ask.use <=> i = n + 1
    BY <1>1, <1>5, <1>10
  <2>2. n + 1 >= 1
    BY <1>1
  <2> QED BY <1>0, <1>1, <1>3, <1>4, <1>6, <1>7, <1>10, <2>1, <2>2 DEF IsValueRoute
<1> QED BY <1>9, <1>10 DEF longer

\* What goes on behind an edge has gone along it.
LEMMA BehindTheEdge ==
  ASSUME NEW c \in Entries, NEW l \in Seq(ask.edges), l # <<>>, l[1].from = c.value,
         NEW r \in Seq(ask.edges)
  PROVE  /\ Goes(Extended(c, l[1]), r) => First(c, l, r)
         /\ IsValueRoute(r) /\ First(c, l, r) /\ l[1].to[1] # ask.use => Goes(Extended(c, l[1]), r)
         /\ IsValueRoute(r) /\ First(c, l, r) /\ l[1].to[1] = ask.use => r = Append(c.route, l[1])
         /\ First(c, l, Append(c.route, l[1]))
<1> DEFINE e == l[1]
           longer == Append(c.route, e)
           n == Len(c.route)
           u == Extended(c, e)
<1>0. e \in ask.edges
  <2>1. 1 \in 1..Len(l)
    OBVIOUS
  <2> QED BY <2>1
<1>1. /\ longer \in Seq(ask.edges) /\ Len(longer) = n + 1 /\ n \in Nat
      /\ longer[n + 1] = e /\ \A i \in 1..n : longer[i] = c.route[i]
      /\ Goes(c, longer)
  <2> HIDE DEF e
  <2>1. e.from = c.value
    BY DEF e
  <2> QED BY <1>0, <2>1, LongerRoute
<1>2. u.value = e.to /\ u.route = longer
  BY DEF Extended
<1> HIDE DEF u, longer, e
<1>3. ASSUME Goes(u, r) PROVE First(c, l, r)
  <2>1. n + 1 < Len(r) /\ \A i \in 1..n + 1 : r[i] = longer[i]
    BY <1>1, <1>2, <1>3 DEF Goes
  <2>2. r[n + 1] = e /\ \A i \in 1..n : r[i] = c.route[i]
    BY <1>1, <2>1
  <2>3. n < Len(r)
    BY <1>1, <2>1
  <2> QED BY <2>2, <2>3 DEF First, Goes, e
<1>4. ASSUME IsValueRoute(r), First(c, l, r) PROVE r[n + 1] = e /\ \A i \in 1..n + 1 : r[i] = longer[i]
  <2>1. r[n + 1] = e /\ \A i \in 1..n : r[i] = c.route[i]
    BY <1>4 DEF First, Goes, e
  <2> QED BY <1>1, <2>1
<1>5. ASSUME IsValueRoute(r), First(c, l, r) PROVE n + 1 \in 1..Len(r) /\ Len(r) \in Nat
  BY <1>1, <1>5 DEF IsValueRoute, First, Goes
<1>6. ASSUME IsValueRoute(r), First(c, l, r), e.to[1] # ask.use PROVE Goes(u, r)
  <2>1. n + 1 # Len(r)
    BY <1>4, <1>5, <1>6 DEF IsValueRoute
  <2>2. n + 1 < Len(r) /\ n + 2 \in 2..Len(r) /\ n + 2 - 1 = n + 1
    BY <1>1, <1>5, <1>6, <2>1
  <2>3. r[n + 2].from = r[n + 2 - 1].to
    BY <1>6, <2>2 DEF IsValueRoute
  <2>4. r[n + 2].from = e.to
    BY <1>4, <1>6, <2>2, <2>3
  <2>5. n + 1 + 1 = n + 2
    BY <1>1
  <2> QED BY <1>1, <1>2, <1>4, <1>6, <2>2, <2>4, <2>5 DEF Goes
<1>7. ASSUME IsValueRoute(r), First(c, l, r), e.to[1] = ask.use PROVE r = longer
  <2>1. n + 1 = Len(r)
    BY <1>4, <1>5, <1>7 DEF IsValueRoute
  <2>2. Len(r) = Len(longer) /\ \A i \in 1..Len(r) : r[i] = longer[i]
    BY <1>1, <1>4, <1>7, <2>1
  <2> QED BY <1>1, <2>2, SeqEqual
<1>8. First(c, l, longer)
  BY <1>1 DEF First, e
<1> QED BY <1>3, <1>6, <1>7, <1>8 DEF u, longer, e

(* The invariant, of w waiting, l left of the edges of c, found rs after n *)
(* states, with the mark m                                                 *)

Sound(w, c, l, rs, n) ==
  /\ w \in Seq(Entries) /\ \A i \in 1..Len(w) : ValueWalk(w[i])
  /\ n \in Nat /\ n <= ask.states
  /\ l \in Seq(ask.edges)
  /\ l # <<>> => c \in Entries /\ ValueWalk(c)
  /\ \A j \in 1..Len(l) : l[j] \in Carriers(c.value)
  /\ \A i, j \in 1..Len(l) : l[i] = l[j] => i = j
  /\ rs \in Seq(Seq(ask.edges)) /\ Len(rs) <= ask.limit
  /\ \A k \in 1..Len(rs) : IsValueRoute(rs[k]) \/ (rs[k] = <<>> /\ Direct)

\* What waits, what is in hand and what is found go different ways.
ApartAt(w, c, l, rs, r) ==
  /\ \A i, j \in 1..Len(w) : Goes(w[i], r) /\ Goes(w[j], r) => i = j
  /\ \A i \in 1..Len(w) : Goes(w[i], r) => ~Hand(c, l, r)
  /\ \A k \in 1..Len(rs) : rs[k] = r => ~Hand(c, l, r) /\ \A i \in 1..Len(w) : ~Goes(w[i], r)

Apart(w, c, l, rs) ==
  /\ \A r \in Seq(ask.edges) : ApartAt(w, c, l, rs, r)
  /\ \A k, m \in 1..Len(rs) : rs[k] = rs[m] => k = m

\* Where a route is while the search runs.
CoveredAt(w, c, l, rs, r) ==
  \/ \E k \in 1..Len(rs) : rs[k] = r
  \/ \E i \in 1..Len(w) : Goes(w[i], r)
  \/ Hand(c, l, r)

\* Nothing cut: no route is lost.  The search for one route may lose the others
\* once it has it.
Covered(w, c, l, rs, mark) ==
  ~mark /\ Live(ask) /\ (ask.probe \/ rs = <<>>) =>
    \A r : IsValueRoute(r) => CoveredAt(w, c, l, rs, r)

ValueInvOf(w, c, l, rs, n, mark) ==
  /\ Sound(w, c, l, rs, n) /\ Apart(w, c, l, rs) /\ Covered(w, c, l, rs, mark)
  /\ mark \in BOOLEAN

ValueInv == Asked /\ ValueInvOf(waiting, current, left, routes, looked, cut)

LEMMA TakeStep ==
  ASSUME Asked, NEW w, NEW c, NEW rs, NEW n, NEW mark,
         ValueInvOf(w, c, <<>>, rs, n, mark), w # <<>>, n < ask.states
  PROVE  ValueInvOf(Tail(w), Head(w), Carrying(Head(w).value), rs, n + 1, mark)
<1> DEFINE h == Head(w)
           t == Tail(w)
           l == Carrying(h.value)
<1>1. /\ w \in Seq(Entries) /\ \A i \in 1..Len(w) : ValueWalk(w[i])
      /\ n \in Nat /\ ask.states \in Nat
  BY QueryShape DEF ValueInvOf, Sound
<1>2. /\ h \in Entries /\ h = w[1] /\ t \in Seq(Entries) /\ 1 \in 1..Len(w)
      /\ \A i \in 1..Len(t) : i + 1 \in 2..Len(w) /\ i + 1 \in 1..Len(w) /\ t[i] = w[i + 1]
      /\ \A i \in 1..Len(w) : i # 1 => i - 1 \in 1..Len(t) /\ t[i - 1] = w[i]
  BY <1>1
<1>3. /\ l \in Seq(Carriers(h.value)) /\ Carriers(h.value) \subseteq ask.edges
      /\ \A e \in Carriers(h.value) : \E j \in 1..Len(l) : l[j] = e
      /\ \A i, j \in 1..Len(l) : l[i] = l[j] => i = j
  <2> HIDE DEF h
  <2> QED BY CarryingIsListed
<1> HIDE DEF h, t, l
<1>4. l \in Seq(ask.edges) /\ \A j \in 1..Len(l) : l[j] \in Carriers(h.value)
  BY <1>3
<1>5. ValueWalk(h) /\ \A i \in 1..Len(t) : ValueWalk(t[i])
  BY <1>1, <1>2
<1>6. Sound(t, h, l, rs, n + 1)
  <2>1. n + 1 \in Nat /\ n + 1 <= ask.states
    BY <1>1
  <2>2. /\ rs \in Seq(Seq(ask.edges)) /\ Len(rs) <= ask.limit
        /\ \A k \in 1..Len(rs) : IsValueRoute(rs[k]) \/ (rs[k] = <<>> /\ Direct)
    BY DEF ValueInvOf, Sound
  <2> QED BY <1>2, <1>3, <1>4, <1>5, <2>1, <2>2 DEF Sound
<1>7. ASSUME NEW r \in Seq(ask.edges) PROVE ApartAt(t, h, l, rs, r)
  <2>1. ApartAt(w, c, <<>>, rs, r)
    BY DEF ValueInvOf, Apart
  <2>2. Hand(h, l, r) => Goes(w[1], r)
    BY <1>2 DEF Hand
  <2>3. \A i, j \in 1..Len(t) : Goes(t[i], r) /\ Goes(t[j], r) => i = j
    <3> SUFFICES ASSUME NEW i \in 1..Len(t), NEW j \in 1..Len(t), Goes(t[i], r), Goes(t[j], r)
                 PROVE  i = j
      OBVIOUS
    <3>1. i + 1 = j + 1
      BY <1>2, <2>1 DEF ApartAt
    <3> QED BY <3>1
  <2>4. \A i \in 1..Len(t) : Goes(t[i], r) => ~Hand(h, l, r)
    <3> SUFFICES ASSUME NEW i \in 1..Len(t), Goes(t[i], r), Goes(w[1], r) PROVE FALSE
      BY <2>2
    <3>1. i + 1 = 1
      BY <1>2, <2>1 DEF ApartAt
    <3> QED BY <3>1
  <2>5. \A k \in 1..Len(rs) : rs[k] = r => \A i \in 1..Len(w) : ~Goes(w[i], r)
    BY <2>1 DEF ApartAt
  <2> QED BY <1>2, <2>2, <2>3, <2>4, <2>5 DEF ApartAt
<1>8. Apart(t, h, l, rs)
  BY <1>7 DEF ValueInvOf, Apart
<1>9. Covered(t, h, l, rs, mark)
  <2> SUFFICES ASSUME ~mark, Live(ask), ask.probe \/ rs = <<>>, NEW r, IsValueRoute(r)
               PROVE  CoveredAt(t, h, l, rs, r)
    BY DEF Covered
  <2>1. CoveredAt(w, c, <<>>, rs, r)
    BY DEF ValueInvOf, Covered
  <2>2. ~Hand(c, <<>>, r)
    BY DEF Hand
  <2>3. ASSUME NEW i \in 1..Len(w), Goes(w[i], r) PROVE CoveredAt(t, h, l, rs, r)
    <3>1. CASE i = 1
      <4>1. Goes(h, r) /\ r[Len(h.route) + 1] \in Carriers(h.value)
        BY <1>2, <2>3, <3>1, RouteIsCarried
      <4> QED BY <1>3, <4>1 DEF CoveredAt, Hand
    <3>2. CASE i # 1
      BY <1>2, <2>3, <3>2 DEF CoveredAt
    <3> QED BY <3>1, <3>2
  <2> QED BY <2>1, <2>2, <2>3 DEF CoveredAt
<1> QED BY <1>6, <1>8, <1>9 DEF ValueInvOf, h, t, l

\* The search ends before its time.
LEMMA GiveStep ==
  ASSUME Asked, NEW w, NEW c, NEW l, NEW rs, NEW n, NEW mark \in BOOLEAN,
         Sound(w, c, l, rs, n), Apart(w, c, l, rs),
         mark \/ ~(ask.probe \/ rs = <<>>)
  PROVE  ValueInvOf(<<>>, <<>>, <<>>, rs, n, mark)
<1>1. <<>> \in Seq(Entries) /\ <<>> \in Seq(ask.edges) /\ Len(<<>>) = 0
  OBVIOUS
<1>2. Sound(<<>>, <<>>, <<>>, rs, n)
  BY <1>1 DEF Sound
<1>3. Apart(<<>>, <<>>, <<>>, rs)
  <2>1. \A r : ~Hand(<<>>, <<>>, r)
    BY <1>1 DEF Hand
  <2> QED BY <1>1, <2>1 DEF Apart, ApartAt
<1>4. Covered(<<>>, <<>>, <<>>, rs, mark)
  BY DEF Covered
<1> QED BY <1>2, <1>3, <1>4 DEF ValueInvOf

\* What holds of the rest of the edges, when the first one is passed over.
LEMMA RestStep ==
  ASSUME Asked, NEW w, NEW c, NEW l, NEW rs, NEW n, NEW mark,
         ValueInvOf(w, c, l, rs, n, mark), l # <<>>
  PROVE  /\ Sound(w, c, Tail(l), rs, n) /\ Apart(w, c, Tail(l), rs)
         /\ c \in Entries /\ ValueWalk(c) /\ l \in Seq(ask.edges)
         /\ l[1] \in Carriers(c.value) /\ l[1] \in ask.edges /\ l[1].from = c.value
         /\ \A i, j \in 1..Len(l) : l[i] = l[j] => i = j
<1> DEFINE t == Tail(l)
<1>1. /\ l \in Seq(ask.edges) /\ c \in Entries /\ ValueWalk(c)
      /\ \A j \in 1..Len(l) : l[j] \in Carriers(c.value)
      /\ \A i, j \in 1..Len(l) : l[i] = l[j] => i = j
  BY DEF ValueInvOf, Sound
<1>2. /\ 1 \in 1..Len(l) /\ t \in Seq(ask.edges)
      /\ \A j \in 1..Len(t) : j + 1 \in 1..Len(l) /\ t[j] = l[j + 1]
  BY <1>1
<1>3. l[1] \in Carriers(c.value) /\ l[1] \in ask.edges /\ l[1].from = c.value
  BY <1>1, <1>2 DEF Carriers
<1> HIDE DEF t
<1>4. /\ \A j \in 1..Len(t) : t[j] \in Carriers(c.value)
      /\ \A i, j \in 1..Len(t) : t[i] = t[j] => i = j
  <2>1. \A j \in 1..Len(t) : t[j] \in Carriers(c.value)
    BY <1>1, <1>2
  <2>2. ASSUME NEW i \in 1..Len(t), NEW j \in 1..Len(t), t[i] = t[j] PROVE i = j
    <3>1. i + 1 = j + 1
      BY <1>1, <1>2, <2>2
    <3> QED BY <3>1
  <2> QED BY <2>1, <2>2
<1>5. Sound(w, c, t, rs, n)
  BY <1>1, <1>2, <1>4 DEF ValueInvOf, Sound
<1>6. \A r : Hand(c, t, r) => Hand(c, l, r)
  BY <1>1, HandTail DEF t
<1>7. Apart(w, c, t, rs)
  <2>1. \A r \in Seq(ask.edges) : ApartAt(w, c, t, rs, r)
    <3> SUFFICES ASSUME NEW r \in Seq(ask.edges) PROVE ApartAt(w, c, t, rs, r)
      OBVIOUS
    <3>1. ApartAt(w, c, l, rs, r)
      BY DEF ValueInvOf, Apart
    <3> QED BY <1>6, <3>1 DEF ApartAt
  <2> QED BY <2>1 DEF ValueInvOf, Apart
<1> QED BY <1>1, <1>3, <1>5, <1>7 DEF t

\* An edge met the use: the route is kept.
LEMMA FoundStep ==
  ASSUME Asked, NEW w, NEW c, NEW l, NEW rs, NEW n, NEW mark,
         ValueInvOf(w, c, l, rs, n, mark), l # <<>>,
         l[1].to \notin c.held, l[1].to[1] = ask.use, ~(Len(rs) >= ask.limit)
  PROVE  ValueInvOf(w, c, Tail(l), Append(rs, Append(c.route, l[1])), n, mark)
<1> DEFINE t == Tail(l)
           e == l[1]
           longer == Append(c.route, e)
           rs2 == Append(rs, longer)
<1>0. /\ Sound(w, c, t, rs, n) /\ Apart(w, c, t, rs)
      /\ c \in Entries /\ ValueWalk(c) /\ l \in Seq(ask.edges)
      /\ e \in Carriers(c.value) /\ e \in ask.edges /\ e.from = c.value
      /\ \A i, j \in 1..Len(l) : l[i] = l[j] => i = j
  BY RestStep
<1>1. IsValueRoute(longer)
  <2> HIDE DEF e
  <2>1. e.to \notin c.held /\ e.to[1] = ask.use
    BY DEF e
  <2> QED BY <1>0, <2>1, LongerWalk
<1>2. /\ \A r \in Seq(ask.edges) : IsValueRoute(r) /\ First(c, l, r) => r = longer
      /\ First(c, l, longer)
  BY <1>0, BehindTheEdge
<1>3. /\ \A r : Hand(c, l, r) <=> First(c, l, r) \/ Hand(c, t, r)
      /\ \A r : ~(First(c, l, r) /\ Hand(c, t, r))
  BY <1>0, HandTail
<1> HIDE DEF t, e, longer
<1>4. longer \in Seq(ask.edges) /\ longer # <<>>
  BY <1>1 DEF IsValueRoute
<1>5. rs \in Seq(Seq(ask.edges)) /\ Len(rs) \in Nat /\ ask.limit \in Nat
  BY QueryShape DEF ValueInvOf, Sound
<1>6. /\ rs2 \in Seq(Seq(ask.edges)) /\ Len(rs2) = Len(rs) + 1
      /\ rs2[Len(rs) + 1] = longer /\ \A k \in 1..Len(rs) : rs2[k] = rs[k]
  BY <1>4, <1>5, AppendProperties
<1> HIDE DEF rs2
<1>7. \A k \in 1..Len(rs2) : k \in 1..Len(rs) \/ (k = Len(rs) + 1 /\ rs2[k] = longer)
  BY <1>5, <1>6
<1>8. Sound(w, c, t, rs2, n)
  <2>1. Len(rs2) <= ask.limit
    BY <1>5, <1>6
  <2>2. \A k \in 1..Len(rs2) : IsValueRoute(rs2[k]) \/ (rs2[k] = <<>> /\ Direct)
    BY <1>0, <1>1, <1>6, <1>7 DEF Sound
  <2> QED BY <1>0, <1>6, <2>1, <2>2 DEF Sound
<1>9. ApartAt(w, c, l, rs, longer) /\ Hand(c, l, longer) /\ ~Hand(c, t, longer)
  BY <1>2, <1>3, <1>4 DEF ValueInvOf, Apart
<1>10. (\A k \in 1..Len(rs) : rs[k] # longer) /\ \A i \in 1..Len(w) : ~Goes(w[i], longer)
  BY <1>9 DEF ApartAt
<1>11. Apart(w, c, t, rs2)
  <2>1. ASSUME NEW r \in Seq(ask.edges) PROVE ApartAt(w, c, t, rs2, r)
    <3>1. ApartAt(w, c, t, rs, r)
      BY <1>0 DEF Apart
    <3> QED BY <1>6, <1>7, <1>9, <1>10, <3>1 DEF ApartAt
  <2>2. ASSUME NEW k \in 1..Len(rs2), NEW m \in 1..Len(rs2), rs2[k] = rs2[m] PROVE k = m
    <3>1. \A i, j \in 1..Len(rs) : rs[i] = rs[j] => i = j
      BY <1>0 DEF Apart
    <3> QED BY <1>6, <1>7, <1>10, <2>2, <3>1
  <2> QED BY <2>1, <2>2 DEF Apart
<1>12. Covered(w, c, t, rs2, mark)
  <2> SUFFICES ASSUME ~mark, Live(ask), ask.probe \/ rs2 = <<>>, NEW r, IsValueRoute(r)
               PROVE  CoveredAt(w, c, t, rs2, r)
    BY DEF Covered
  <2>1. ask.probe
    BY <1>5, <1>6
  <2>2. CoveredAt(w, c, l, rs, r)
    BY <2>1 DEF ValueInvOf, Covered
  <2>3. CASE First(c, l, r)
    <3>1. r = longer
      BY <1>2, <2>3 DEF IsValueRoute
    <3>2. Len(rs) + 1 \in 1..Len(rs2)
      BY <1>5, <1>6
    <3> QED BY <1>6, <3>1, <3>2 DEF CoveredAt
  <2>4. CASE ~First(c, l, r)
    <3>1. \A k \in 1..Len(rs) : k \in 1..Len(rs2)
      BY <1>5, <1>6
    <3> QED BY <1>3, <1>6, <2>2, <2>4, <3>1 DEF CoveredAt
  <2> QED BY <2>3, <2>4
<1> QED BY <1>8, <1>11, <1>12 DEF ValueInvOf, t, e, longer, rs2

\* An edge did not meet the use: its end waits.
LEMMA QueuedStep ==
  ASSUME Asked, NEW w, NEW c, NEW l, NEW rs, NEW n, NEW mark,
         ValueInvOf(w, c, l, rs, n, mark), l # <<>>,
         l[1].to \notin c.held, l[1].to[1] # ask.use
  PROVE  ValueInvOf(Append(w, Extended(c, l[1])), c, Tail(l), rs, n, mark)
<1> DEFINE t == Tail(l)
           e == l[1]
           u == Extended(c, e)
           w2 == Append(w, u)
<1>0. /\ Sound(w, c, t, rs, n) /\ Apart(w, c, t, rs)
      /\ c \in Entries /\ ValueWalk(c) /\ l \in Seq(ask.edges)
      /\ e \in Carriers(c.value) /\ e \in ask.edges /\ e.from = c.value
      /\ \A i, j \in 1..Len(l) : l[i] = l[j] => i = j
  BY RestStep
<1>1. u \in Entries /\ ValueWalk(u)
  <2> HIDE DEF e
  <2>1. e.to \notin c.held /\ e.to[1] # ask.use
    BY DEF e
  <2> QED BY <1>0, <2>1, LongerWalk
<1>2. /\ \A r \in Seq(ask.edges) : Goes(u, r) => First(c, l, r)
      /\ \A r \in Seq(ask.edges) : IsValueRoute(r) /\ First(c, l, r) => Goes(u, r)
  BY <1>0, BehindTheEdge
<1>3. /\ \A r : Hand(c, l, r) <=> First(c, l, r) \/ Hand(c, t, r)
      /\ \A r : ~(First(c, l, r) /\ Hand(c, t, r))
  BY <1>0, HandTail
<1> HIDE DEF t, e, u
<1>4. w \in Seq(Entries) /\ Len(w) \in Nat
  BY DEF ValueInvOf, Sound
<1>5. /\ w2 \in Seq(Entries) /\ Len(w2) = Len(w) + 1
      /\ w2[Len(w) + 1] = u /\ \A i \in 1..Len(w) : w2[i] = w[i]
  BY <1>1, <1>4, AppendProperties
<1> HIDE DEF w2
<1>6. \A i \in 1..Len(w2) : i \in 1..Len(w) \/ (i = Len(w) + 1 /\ w2[i] = u)
  BY <1>4, <1>5
<1>7. Sound(w2, c, t, rs, n)
  <2>1. \A i \in 1..Len(w2) : ValueWalk(w2[i])
    BY <1>0, <1>1, <1>5, <1>6 DEF Sound
  <2> QED BY <1>0, <1>5, <2>1 DEF Sound
<1>8. Apart(w2, c, t, rs)
  <2>1. ASSUME NEW r \in Seq(ask.edges) PROVE ApartAt(w2, c, t, rs, r)
    <3>1. ApartAt(w, c, t, rs, r) /\ ApartAt(w, c, l, rs, r)
      BY <1>0 DEF Apart, ValueInvOf
    <3>2. CASE Goes(u, r)
      <4>1. Hand(c, l, r) /\ ~Hand(c, t, r)
        BY <1>2, <1>3, <3>2
      <4>2. (\A i \in 1..Len(w) : ~Goes(w[i], r)) /\ \A k \in 1..Len(rs) : rs[k] # r
        BY <3>1, <4>1 DEF ApartAt
      <4> QED BY <1>5, <1>6, <4>1, <4>2 DEF ApartAt
    <3>3. CASE ~Goes(u, r)
      BY <1>5, <1>6, <3>1, <3>3 DEF ApartAt
    <3> QED BY <3>2, <3>3
  <2> QED BY <1>0, <2>1 DEF Apart
<1>9. Covered(w2, c, t, rs, mark)
  <2> SUFFICES ASSUME ~mark, Live(ask), ask.probe \/ rs = <<>>, NEW r, IsValueRoute(r)
               PROVE  CoveredAt(w2, c, t, rs, r)
    BY DEF Covered
  <2>2. CoveredAt(w, c, l, rs, r)
    BY DEF ValueInvOf, Covered
  <2>3. CASE First(c, l, r)
    <3>1. Goes(u, r)
      BY <1>2, <2>3 DEF IsValueRoute
    <3>2. Len(w) + 1 \in 1..Len(w2)
      BY <1>4, <1>5
    <3> QED BY <1>5, <3>1, <3>2 DEF CoveredAt
  <2>4. CASE ~First(c, l, r)
    <3>1. \A i \in 1..Len(w) : i \in 1..Len(w2)
      BY <1>4, <1>5
    <3> QED BY <1>3, <1>5, <2>2, <2>4, <3>1 DEF CoveredAt
  <2> QED BY <2>3, <2>4
<1> QED BY <1>7, <1>8, <1>9 DEF ValueInvOf, t, e, u, w2

LEMMA StartsAreListed ==
  ASSUME Asked
  PROVE  NamesEachOnce([i \in 1..Cardinality(Starts) |-> SetToSeq(Starts)[i]], Starts)
<1> DEFINE N == Cardinality(Starts)
           L == SetToSeq(Starts)
<1>1. IsFiniteSet(Starts)
  <2>1. IsFiniteSet(ask.names)
    BY QueryShape
  <2> DEFINE f == [name \in ask.names |-> <<ask.start, name>>]
  <2>2. f \in Surjection(ask.names, Starts)
    BY DEF Starts, Surjection
  <2> HIDE DEF f
  <2> QED BY <2>1, <2>2, FS_Surjection
<1>2. N \in Nat /\ ExistsBijection(1..N, Starts)
  BY <1>1, FS_CountingElements, FS_CardinalityType
<1>3. \E f \in [1..N -> Starts] : IsInjective(f)
  BY <1>2 DEF ExistsBijection, Bijection, Injection
<1>4. L \in [1..N -> Starts] /\ IsInjective(L)
  BY <1>3 DEF SetToSeq
<1> HIDE DEF L
<1>5. \A m, n \in 1..N : L[m] = L[n] => m = n
  BY <1>4 DEF IsInjective
<1>6. L \in Surjection(1..N, Starts)
  <2>1. L \in Injection(1..N, Starts)
    BY <1>4 DEF Injection
  <2>2. IsFiniteSet(1..N) /\ Cardinality(1..N) = N
    BY <1>2, FS_Interval
  <2> HIDE DEF N
  <2> QED BY <1>1, <2>1, <2>2, FS_Injection DEF N
<1>7. \A v \in Starts : \E n \in 1..N : L[n] = v
  BY <1>6 DEF Surjection
<1>8. [i \in 1..N |-> L[i]] = L
  BY <1>4
<1> QED BY <1>2, <1>4, <1>5, <1>7, <1>8 DEF NamesEachOnce, L

LEMMA ValueStart ==
  ValueInit => ValueInv
<1> SUFFICES ASSUME ValueInit PROVE ValueInv
  OBVIOUS
<1>1. Asked /\ current = <<>> /\ left = <<>> /\ looked = 0 /\ cut = FALSE
  BY DEF ValueInit, Asked
<1>2. ask.limit \in Nat \ {0} /\ ask.states \in Nat \ {0}
  BY <1>1, QueryShape
<1>3. /\ routes \in Seq(Seq(ask.edges)) /\ Len(routes) <= ask.limit
      /\ \A k \in 1..Len(routes) : k = 1 /\ routes[k] = <<>> /\ Len(routes[k]) = 0 /\ Direct
      /\ routes = <<>> \/ Direct
  <2>1. CASE Live(ask) /\ Direct
    <3>1. routes = <<(<<>>)>>
      BY <2>1 DEF ValueInit
    <3>2. <<>> \in Seq(ask.edges) /\ Len(<<>>) = 0
      OBVIOUS
    <3>3. routes \in Seq(Seq(ask.edges)) /\ Len(routes) = 1 /\ routes[1] = <<>>
      <4>1. \A E : <<>> \in E => <<(<<>>)>> \in Seq(E) /\ Len(<<(<<>>)>>) = 1 /\ <<(<<>>)>>[1] = <<>>
        OBVIOUS
      <4> QED BY <3>1, <3>2, <4>1
    <3>4. \A k \in 1..Len(routes) : k = 1
      BY <3>3
    <3> QED BY <1>2, <2>1, <3>2, <3>3, <3>4
  <2>2. CASE ~(Live(ask) /\ Direct)
    <3>1. routes = <<>>
      BY <2>2 DEF ValueInit
    <3> QED BY <1>2, <3>1
  <2> QED BY <2>1, <2>2
<1> DEFINE N == Cardinality(Starts)
           At1(i) == [value |-> SetToSeq(Starts)[i], route |-> <<>>, held |-> {SetToSeq(Starts)[i]}]
           L == [i \in 1..N |-> SetToSeq(Starts)[i]]
<1>4. NamesEachOnce(L, Starts)
  BY <1>1, StartsAreListed
<1>5. /\ N \in Nat /\ \A i \in 1..N : L[i] \in Starts /\ L[i] = SetToSeq(Starts)[i]
      /\ \A v \in Starts : \E n \in 1..N : L[n] = v
      /\ \A m, n \in 1..N : L[m] = L[n] => m = n
  BY <1>4 DEF NamesEachOnce
<1>6. /\ waiting \in Seq(Entries)
      /\ \A i \in 1..Len(waiting) : /\ i \in 1..N /\ waiting[i].value = L[i] /\ waiting[i].route = <<>>
                                    /\ waiting[i].held = {L[i]}
      /\ Live(ask) /\ (Direct => ask.probe) => Len(waiting) = N
  <2>1. CASE Live(ask) /\ (Direct => ask.probe)
    <3>1. waiting = [i \in 1..N |-> At1(i)]
      BY <2>1 DEF ValueInit
    <3>2. \A i \in 1..N : /\ At1(i).value = L[i] /\ At1(i).route = <<>> /\ At1(i).held = {L[i]}
                          /\ At1(i) \in Entries
      <4> SUFFICES ASSUME NEW i \in 1..N
                   PROVE  /\ At1(i).value = L[i] /\ At1(i).route = <<>> /\ At1(i).held = {L[i]}
                          /\ At1(i) \in Entries
        OBVIOUS
      <4> DEFINE v == L[i]
      <4>1. v \in ValuesOfAsk /\ SetToSeq(Starts)[i] = v
        BY <1>5 DEF ValuesOfAsk
      <4> HIDE DEF v
      <4>2. At1(i) = [value |-> v, route |-> <<>>, held |-> {v}]
        BY <4>1
      <4>3. <<>> \in Seq(ask.edges)
        OBVIOUS
      <4>4. At1(i) \in Entries
        BY <4>1, <4>2, <4>3 DEF Entries
      <4> HIDE DEF At1
      <4> QED BY <4>2, <4>4 DEF v
    <3> HIDE DEF At1, L, N
    <3>3. waiting \in [1..N -> Entries]
      BY <3>1, <3>2
    <3>4. waiting \in Seq(Entries) /\ Len(waiting) = N
      BY <1>5, <3>3 DEF N
    <3> QED BY <3>1, <3>2, <3>4
  <2>2. CASE ~(Live(ask) /\ (Direct => ask.probe))
    <3>1. waiting = <<>>
      BY <2>2 DEF ValueInit
    <3> QED BY <2>2, <3>1
  <2> QED BY <2>1, <2>2
<1> HIDE DEF L, N
<1>7. \A i \in 1..Len(waiting) : Len(waiting[i].route) = 0 /\ ValueWalk(waiting[i])
  <2> SUFFICES ASSUME NEW i \in 1..Len(waiting) PROVE Len(waiting[i].route) = 0 /\ ValueWalk(waiting[i])
    OBVIOUS
  <2> DEFINE x == waiting[i]
  <2>1. x.route = <<>> /\ Len(x.route) = 0 /\ x.held = {x.value} /\ x.value \in Starts
    BY <1>5, <1>6
  <2> HIDE DEF x
  <2>2. Start(x) = x.value
    BY <2>1 DEF Start
  <2>3. {x.route[j].to : j \in 1..Len(x.route)} = {}
    BY <2>1
  <2>4. ValueWalk(x)
    BY <2>1, <2>2, <2>3 DEF ValueWalk
  <2> QED BY <2>1, <2>4 DEF x
<1>8. <<>> \in Seq(ask.edges) /\ Len(<<>>) = 0
  OBVIOUS
<1>9. Sound(waiting, <<>>, <<>>, routes, 0)
  BY <1>2, <1>3, <1>6, <1>7, <1>8 DEF Sound
<1>10. \A i \in 1..Len(waiting) : \A r : Goes(waiting[i], r) => Len(r) > 0 /\ r[1].from = L[i]
  <2> SUFFICES ASSUME NEW i \in 1..Len(waiting), NEW r, Goes(waiting[i], r)
               PROVE  Len(r) > 0 /\ r[1].from = L[i]
    OBVIOUS
  <2>1. Len(waiting[i].route) = 0 /\ waiting[i].value = L[i]
    BY <1>6, <1>7
  <2> QED BY <2>1 DEF Goes
<1>11. \A r : ~Hand(<<>>, <<>>, r)
  BY <1>8 DEF Hand
<1>12. Apart(waiting, <<>>, <<>>, routes)
  <2>1. ASSUME NEW r \in Seq(ask.edges) PROVE ApartAt(waiting, <<>>, <<>>, routes, r)
    <3>1. \A i, j \in 1..Len(waiting) : Goes(waiting[i], r) /\ Goes(waiting[j], r) => i = j
      BY <1>5, <1>6, <1>10
    <3>2. \A k \in 1..Len(routes) : routes[k] = r => \A i \in 1..Len(waiting) : ~Goes(waiting[i], r)
      BY <1>3, <1>10
    <3> QED BY <1>11, <3>1, <3>2 DEF ApartAt
  <2> QED BY <1>3, <2>1 DEF Apart
<1>13. Covered(waiting, <<>>, <<>>, routes, FALSE)
  <2> SUFFICES ASSUME Live(ask), ask.probe \/ routes = <<>>, NEW r, IsValueRoute(r)
               PROVE  \E i \in 1..Len(waiting) : Goes(waiting[i], r)
    BY DEF Covered, CoveredAt
  <2>1. Direct => ask.probe
    BY DEF ValueInit
  <2>2. Len(waiting) = N
    BY <1>6, <2>1
  <2>3. PICK i \in 1..N : L[i] = r[1].from
    BY <1>5 DEF IsValueRoute
  <2>4. waiting[i].route = <<>> /\ Len(waiting[i].route) = 0 /\ waiting[i].value = r[1].from
    BY <1>6, <1>7, <2>2, <2>3
  <2>5. Goes(waiting[i], r)
    BY <2>4 DEF Goes, IsValueRoute
  <2> QED BY <2>2, <2>5
<1> QED BY <1>1, <1>9, <1>12, <1>13 DEF ValueInv, ValueInvOf

LEMMA ValueMove ==
  ASSUME ValueInv, ValueNext
  PROVE  ask' = ask /\ ValueInvOf(waiting', current', left', routes', looked', cut')
<1>0. /\ Asked /\ ValueInvOf(waiting, current, left, routes, looked, cut)
      /\ Sound(waiting, current, left, routes, looked) /\ Apart(waiting, current, left, routes)
      /\ cut \in BOOLEAN
  BY DEF ValueInv, ValueInvOf
<1>1. CASE TakeNext
  <2>1. /\ left = <<>> /\ waiting # <<>> /\ looked < ask.states
        /\ current' = Head(waiting) /\ waiting' = Tail(waiting)
        /\ left' = Carrying(Head(waiting).value) /\ looked' = looked + 1
        /\ ask' = ask /\ routes' = routes /\ cut' = cut
    BY <1>1 DEF TakeNext
  <2> QED BY <1>0, <2>1, TakeStep
<1>2. CASE OutOfStates
  <2>1. /\ waiting' = <<>> /\ current' = <<>> /\ left' = <<>> /\ cut' = TRUE
        /\ ask' = ask /\ routes' = routes /\ looked' = looked
    BY <1>2 DEF OutOfStates, Give
  <2> QED BY <1>0, <2>1, GiveStep
<1>3. CASE Follow
  <2> DEFINE e == left[1]
             longer == Append(current.route, e)
             t == Tail(left)
  <2>0. left # <<>> /\ Head(left) = e /\ ask' = ask /\ looked' = looked
    BY <1>3 DEF Follow
  <2>1. Sound(waiting, current, t, routes, looked) /\ Apart(waiting, current, t, routes)
    BY <1>0, <2>0, RestStep
  <2>2. CASE e.to \in current.held
    <3>1. /\ cut' = TRUE /\ left' = t
          /\ waiting' = waiting /\ current' = current /\ routes' = routes
      BY <1>3, <2>0, <2>2 DEF Follow
    <3>2. Covered(waiting, current, t, routes, TRUE)
      BY DEF Covered
    <3> QED BY <2>0, <2>1, <3>1, <3>2 DEF ValueInvOf
  <2>3. CASE e.to \notin current.held /\ e.to[1] = ask.use /\ Len(routes) >= ask.limit
    <3>1. /\ waiting' = <<>> /\ current' = <<>> /\ left' = <<>> /\ cut' = TRUE /\ routes' = routes
      BY <1>3, <2>0, <2>3 DEF Follow, Give
    <3> QED BY <1>0, <2>0, <3>1, GiveStep
  <2>4. CASE e.to \notin current.held /\ e.to[1] = ask.use /\ ~(Len(routes) >= ask.limit)
    <3> DEFINE rs2 == Append(routes, longer)
    <3>1. ValueInvOf(waiting, current, t, rs2, looked, cut)
      BY <1>0, <2>0, <2>4, FoundStep
    <3>2. rs2 # <<>>
      <4>1. longer \in Seq(ask.edges)
        BY <1>0, <2>0, RestStep, LongerRoute
      <4>2. routes \in Seq(Seq(ask.edges))
        BY <1>0 DEF Sound
      <4>3. Len(rs2) = Len(routes) + 1 /\ Len(routes) \in Nat
        BY <4>1, <4>2, AppendProperties
      <4> HIDE DEF rs2
      <4> QED BY <4>3
    <3>3. CASE ~ask.probe /\ Len(routes) + 1 >= ask.limit
      <4>1. /\ waiting' = <<>> /\ current' = <<>> /\ left' = <<>> /\ cut' = (waiting # <<>>)
            /\ routes' = rs2
        BY <1>3, <2>0, <2>4, <3>3 DEF Follow, Give
      <4>2. Sound(waiting, current, t, rs2, looked) /\ Apart(waiting, current, t, rs2)
        BY <3>1 DEF ValueInvOf
      <4> HIDE DEF rs2, t
      <4>3. (waiting # <<>>) \in BOOLEAN
        OBVIOUS
      <4>4. ~(ask.probe \/ rs2 = <<>>)
        BY <3>2, <3>3
      <4>5. ValueInvOf(<<>>, <<>>, <<>>, rs2, looked, waiting # <<>>)
        BY <1>0, <4>2, <4>3, <4>4, GiveStep
      <4> QED BY <2>0, <4>1, <4>5
    <3>4. CASE ~(~ask.probe /\ Len(routes) + 1 >= ask.limit)
      <4>1. /\ waiting' = waiting /\ current' = current /\ left' = t /\ cut' = cut
            /\ routes' = rs2
        BY <1>3, <2>0, <2>4, <3>4 DEF Follow
      <4> QED BY <2>0, <3>1, <4>1
    <3> QED BY <3>3, <3>4
  <2>5. CASE e.to \notin current.held /\ e.to[1] # ask.use
    <3>1. ValueInvOf(Append(waiting, Extended(current, e)), current, t, routes, looked, cut)
      BY <1>0, <2>0, <2>5, QueuedStep
    <3>2. CASE Len(waiting) + 1 + looked > ask.states
      <4>1. /\ waiting' = <<>> /\ current' = <<>> /\ left' = <<>> /\ cut' = TRUE /\ routes' = routes
        BY <1>3, <2>0, <2>5, <3>2 DEF Follow, Give
      <4> QED BY <1>0, <2>0, <4>1, GiveStep
    <3>3. CASE ~(Len(waiting) + 1 + looked > ask.states)
      <4>1. /\ current' = current /\ left' = t /\ cut' = cut /\ routes' = routes
            /\ waiting' = Append(waiting, [value |-> e.to, route |-> longer,
                                          held |-> current.held \union {e.to}])
        <5> HIDE DEF longer, t, e
        <5> QED BY <1>3, <2>0, <2>5, <3>3 DEF Follow, longer, t
      <4>2. waiting' = Append(waiting, Extended(current, e))
        BY <4>1 DEF Extended
      <4> QED BY <2>0, <3>1, <4>1, <4>2
    <3> QED BY <3>2, <3>3
  <2> QED BY <2>2, <2>3, <2>4, <2>5
<1> QED BY <1>1, <1>2, <1>3 DEF ValueNext

LEMMA ValueStep ==
  ValueInv /\ [ValueNext]_valueVars => ValueInv'
<1> SUFFICES ASSUME ValueInv, [ValueNext]_valueVars PROVE ValueInv'
  OBVIOUS
<1>1. ask' = ask /\ Asked /\ ValueInvOf(waiting', current', left', routes', looked', cut')
  <2>1. CASE ValueNext
    BY <2>1, ValueMove DEF ValueInv
  <2>2. CASE UNCHANGED valueVars
    BY <2>2 DEF ValueInv, valueVars
  <2> QED BY <2>1, <2>2
<1>2. Starts' = Starts /\ Toward' = Toward /\ (Direct <=> Direct') /\ Asked'
  BY <1>1 DEF Starts, Toward, Direct, Asked
<1>3. Entries' = Entries
  BY <1>1, <1>2 DEF Entries, ValuesOfAsk
<1>4. Sound(waiting, current, left, routes, looked)'
  BY <1>1, <1>2, <1>3 DEF ValueInvOf, Sound, ValueWalk, IsValueRoute, Carriers, Delivered, Start
<1>5. Apart(waiting, current, left, routes)'
  BY <1>1 DEF ValueInvOf, Apart, ApartAt, Goes, Hand
<1>6. Covered(waiting, current, left, routes, cut)'
  BY <1>1, <1>2 DEF ValueInvOf, Covered, CoveredAt, Goes, Hand, IsValueRoute, Delivered, Live
<1> QED BY <1>1, <1>2, <1>4, <1>5, <1>6 DEF ValueInv, ValueInvOf

\* The search for the routes of a value keeps its invariant, whatever the graph,
\* the question and the limits.
THEOREM ValueInvariance == ValueSpec => []ValueInv
BY ValueStart, ValueStep, PTL DEF ValueSpec

\* The routes of the reference definition are those without a limit on length.
LEMMA RoutesAreBounded ==
  ASSUME Asked, NEW r
  PROVE  r \in RoutesOf(ask) <=> IsValueRoute(r)
<1>0. ask.edges \subseteq ask.edges /\ IsFiniteSet(ask.edges) /\ Cardinality(ask.edges) \in Nat
  BY QueryShape, FS_CardinalityType
<1>1. \A e \in ask.edges : e.from \in Starts <=> e.from[1] = ask.start /\ e.from[2] \in ask.names
  <2> SUFFICES ASSUME NEW e \in ask.edges
               PROVE  e.from \in Starts <=> e.from[1] = ask.start /\ e.from[2] \in ask.names
    OBVIOUS
  <2>1. e.from = <<e.from[1], e.from[2]>>
    BY QueryShape
  <2>2. ASSUME e.from \in Starts PROVE e.from[1] = ask.start /\ e.from[2] \in ask.names
    <3>1. PICK name \in ask.names : e.from = <<ask.start, name>>
      BY <2>2 DEF Starts
    <3> QED BY <3>1
  <2>3. ASSUME e.from[1] = ask.start, e.from[2] \in ask.names PROVE e.from \in Starts
    BY <2>1, <2>3 DEF Starts
  <2> QED BY <2>2, <2>3
<1>2. ASSUME r \in RoutesOf(ask) PROVE IsValueRoute(r)
  <2>1. PICK k \in 1..Cardinality(ask.edges) : r \in [1..k -> ask.edges]
    BY <1>2 DEF RoutesOf
  <2>2. r \in Seq(ask.edges) /\ Len(r) = k /\ DOMAIN r = 1..k /\ k \in Nat /\ k >= 1
    BY <1>0, <2>1
  <2>3. 1 \in 1..k /\ r[1] \in ask.edges
    BY <2>1, <2>2
  <2>4. /\ r[1].from[1] = ask.start /\ r[1].from[2] \in ask.names
        /\ \A i \in 2..Len(r) : r[i].from = r[i - 1].to
        /\ \A i, j \in DOMAIN r : r[i].to # r[1].from /\ (i # j => r[i].to # r[j].to)
        /\ \A i \in DOMAIN r : r[i].to[1] = ask.use <=> i = Len(r)
        /\ (IF ask.reads_input THEN r[Len(r)].reads ELSE r[Len(r)].to[2]) \in ask.wanted
    BY <1>2 DEF RoutesOf
  <2> QED BY <1>1, <2>2, <2>3, <2>4 DEF IsValueRoute, Delivered
<1>3. ASSUME IsValueRoute(r) PROVE r \in RoutesOf(ask)
  <2> DEFINE k == Len(r)
  <2>1. r \in Seq(ask.edges) /\ k \in Nat \ {0} /\ DOMAIN r = 1..k /\ r \in [1..k -> ask.edges]
    BY <1>3 DEF IsValueRoute
  <2>2. IsFiniteSet(1..k) /\ Cardinality(1..k) = k
    BY <2>1, FS_Interval
  <2>3. \A i, j \in 1..k : r[i] = r[j] => i = j
    BY <1>3 DEF IsValueRoute
  <2>4. k <= Cardinality(ask.edges)
    <3> SUFFICES ASSUME Cardinality(ask.edges) < k PROVE FALSE
      BY <1>0, <2>1
    <3> HIDE DEF k
    <3>1. \E x, y \in 1..k : x # y /\ r[x] = r[y]
      BY <1>0, <2>1, <2>2, FS_PigeonHole
    <3> QED BY <2>3, <3>1
  <2>5. k \in 1..Cardinality(ask.edges)
    BY <1>0, <2>1, <2>4
  <2>6. r \in UNION {[1..n -> ask.edges] : n \in 1..Cardinality(ask.edges)}
    BY <2>1, <2>5
  <2>7. 1 \in 1..k /\ r[1] \in ask.edges
    BY <2>1
  <2> QED BY <1>1, <1>3, <2>1, <2>6, <2>7 DEF RoutesOf, IsValueRoute, Delivered
<1> QED BY <1>2, <1>3

\* A list without repetition is as long as the set of its members is large.
LEMMA AsManyAsListed ==
  ASSUME NEW S, NEW s \in Seq(S), \A i, j \in 1..Len(s) : s[i] = s[j] => i = j
  PROVE  Cardinality({s[i] : i \in DOMAIN s}) = Len(s)
<1> DEFINE T == {s[i] : i \in DOMAIN s}
           n == Len(s)
<1>1. n \in Nat /\ DOMAIN s = 1..n
  OBVIOUS
<1>2. IsFiniteSet(1..n) /\ Cardinality(1..n) = n
  BY <1>1, FS_Interval
<1>3. s \in [1..n -> T]
  BY <1>1
<1>4. s \in Surjection(1..n, T)
  BY <1>1, <1>3 DEF Surjection
<1>5. s \in Injection(1..n, T)
  BY <1>1, <1>3 DEF Injection, IsInjective
<1> HIDE DEF T, n
<1>6. IsFiniteSet(T)
  BY <1>2, <1>4, FS_Surjection
<1>7. s \in Bijection(1..n, T)
  BY <1>4, <1>5 DEF Bijection
<1>8. ExistsBijection(1..n, T)
  BY <1>7 DEF ExistsBijection
<1>9. Cardinality(T) = Cardinality(1..n)
  BY <1>2, <1>8, FS_Bijection
<1> QED BY <1>2, <1>9 DEF T, n

LEMMA RoutesReal ==
  ValueInv => ValueRoutesAreReal
<1> SUFFICES ASSUME ValueInv PROVE ValueRoutesAreReal
  OBVIOUS
<1>1. /\ Asked /\ Sound(waiting, current, left, routes, looked)
      /\ \A k, m \in 1..Len(routes) : routes[k] = routes[m] => k = m
  BY DEF ValueInv, ValueInvOf, Apart
<1>2. /\ routes \in Seq(Seq(ask.edges)) /\ DOMAIN routes = 1..Len(routes)
      /\ \A k \in 1..Len(routes) : IsValueRoute(routes[k]) \/ (routes[k] = <<>> /\ Direct)
  BY <1>1 DEF Sound
<1>3. Cardinality(Found) = Len(routes)
  BY <1>1, <1>2, AsManyAsListed DEF Found
<1>4. Found \subseteq RoutesOf(ask) \union IF Direct THEN {<<>>} ELSE {}
  <2> SUFFICES ASSUME NEW k \in 1..Len(routes)
               PROVE  routes[k] \in RoutesOf(ask) \union IF Direct THEN {<<>>} ELSE {}
    BY <1>2 DEF Found
  <2>1. IsValueRoute(routes[k]) \/ (routes[k] = <<>> /\ Direct)
    BY <1>2
  <2>2. IsValueRoute(routes[k]) => routes[k] \in RoutesOf(ask)
    BY <1>1, RoutesAreBounded
  <2> QED BY <2>1, <2>2
<1>5. looked <= ask.states /\ Len(routes) <= ask.limit
  BY <1>1 DEF Sound
<1> QED BY <1>3, <1>4, <1>5, Zenon DEF ValueRoutesAreReal

LEMMA RoutesAllThere ==
  ValueInv => UnmarkedHasAllRoutes
<1> SUFFICES ASSUME ValueInv, ValueDone, ~cut, Live(ask)
             PROVE  IF ask.probe THEN RoutesOf(ask) \subseteq Found
                    ELSE routes = <<>> => RoutesOf(ask) = {}
  BY DEF UnmarkedHasAllRoutes
<1>1. /\ Asked /\ Sound(waiting, current, left, routes, looked)
      /\ Covered(waiting, current, left, routes, cut)
  BY DEF ValueInv, ValueInvOf
<1>2. routes \in Seq(Seq(ask.edges)) /\ DOMAIN routes = 1..Len(routes)
  BY <1>1 DEF Sound
<1>3. ASSUME ask.probe \/ routes = <<>>, NEW r, r \in RoutesOf(ask)
      PROVE  \E k \in 1..Len(routes) : routes[k] = r
  <2>1. IsValueRoute(r)
    BY <1>1, <1>3, RoutesAreBounded
  <2>2. CoveredAt(waiting, current, left, routes, r)
    BY <1>1, <1>3, <2>1 DEF Covered
  <2>3. Len(waiting) = 0 /\ Len(left) = 0
    BY DEF ValueDone
  <2> QED BY <2>2, <2>3 DEF CoveredAt, Hand
<1>4. CASE ask.probe
  <2>1. RoutesOf(ask) \subseteq Found
    BY <1>2, <1>3, <1>4 DEF Found
  <2> QED BY <1>4, <2>1
<1>5. CASE ~ask.probe
  <2>1. ASSUME routes = <<>>, NEW r \in RoutesOf(ask) PROVE FALSE
    <3>1. Len(routes) = 0
      BY <2>1
    <3>2. \E k \in 1..Len(routes) : routes[k] = r
      BY <1>3, <2>1
    <3> QED BY <3>1, <3>2
  <2> QED BY <1>5, <2>1
<1> QED BY <1>4, <1>5

\* Whatever limit ended ValuePathSearch.search, every route it gives is a route of
\* the value from the source to a wanted name at the use, each once, and no more
\* than the limit.
THEOREM ValueRoutesReal == ValueSpec => []ValueRoutesAreReal
BY ValueInvariance, RoutesReal, PTL

\* Where search() does not mark its answer as truncated no route is missing; the
\* search for a single one says there is none only where there is none.
THEOREM ValueRoutesComplete == ValueSpec => []UnmarkedHasAllRoutes
BY ValueInvariance, RoutesAllThere, PTL

-------------------------------------------------------------------------------
(* Routes through functions: calls and the hops that close them *)

Calling(h) == h.kind = "call"

\* A boundary behind which the calls before it are forgotten.
Forgets(h) == h.kind = "boundary" /\ ~Closing(h)

CallsFrom(hops, k) == {x \in k..Len(hops) : Calling(hops[x])}
ClosingsFrom(hops, k) == {x \in k..Len(hops) : Closing(hops[x])}

\* How many calls more than closings there are from the k-th hop on.
Level(hops, k) == Cardinality(CallsFrom(hops, k)) - Cardinality(ClosingsFrom(hops, k))

Remembered(hops, k) == \A x \in k..Len(hops) : ~Forgets(hops[x])

LEMMA Within ==
  ASSUME NEW a \in Int, NEW b \in Int, NEW S, S \subseteq a..b
  PROVE  IsFiniteSet(S) /\ Cardinality(S) \in Nat
<1>1. IsFiniteSet(a..b)
  BY FS_Interval
<1>2. IsFiniteSet(S)
  BY <1>1, FS_Subset
<1> QED BY <1>2, FS_CardinalityType

\* A finite set of numbers that is not empty has a largest one.
LEMMA LargestOf ==
  ASSUME NEW n \in Nat, NEW S, S \subseteq 1..n, S # {}
  PROVE  \E i \in S : \A k \in S : k <= i
<1> DEFINE U == {u \in Nat : \A k \in S : k <= u}
<1>1. n \in U /\ U \subseteq Nat
  OBVIOUS
<1>2. PICK u \in U : \A v \in U : u <= v
  BY <1>1, SmallestNumber
<1>3. u \in S
  <2> SUFFICES ASSUME u \notin S PROVE FALSE
    OBVIOUS
  <2>1. PICK x \in S : TRUE
    OBVIOUS
  <2>2. x \in 1..n /\ x <= u
    BY <1>2, <2>1
  <2>3. u - 1 \in U
    BY <1>2, <2>2
  <2> QED BY <1>2, <2>3
<1> QED BY <1>2, <1>3

LEMMA CallsAndClosings ==
  ASSUME NEW E, NEW H \in Seq(E), NEW k \in Nat \ {0}
  PROVE  /\ IsFiniteSet(CallsFrom(H, k)) /\ Cardinality(CallsFrom(H, k)) \in Nat
         /\ IsFiniteSet(ClosingsFrom(H, k)) /\ Cardinality(ClosingsFrom(H, k)) \in Nat
         /\ Level(H, k) \in Int
<1>1. CallsFrom(H, k) \subseteq k..Len(H) /\ ClosingsFrom(H, k) \subseteq k..Len(H) /\ Len(H) \in Int
  BY DEF CallsFrom, ClosingsFrom
<1>2. /\ IsFiniteSet(CallsFrom(H, k)) /\ Cardinality(CallsFrom(H, k)) \in Nat
      /\ IsFiniteSet(ClosingsFrom(H, k)) /\ Cardinality(ClosingsFrom(H, k)) \in Nat
  BY <1>1, Within
<1> QED BY <1>2 DEF Level

\* No hop from the one behind the last on.
LEMMA LevelAtEnd ==
  ASSUME NEW E, NEW H \in Seq(E)
  PROVE  Level(H, Len(H) + 1) = 0
<1>1. Len(H) + 1..Len(H) = {}
  OBVIOUS
<1>2. CallsFrom(H, Len(H) + 1) = {} /\ ClosingsFrom(H, Len(H) + 1) = {}
  BY <1>1 DEF CallsFrom, ClosingsFrom
<1>3. Cardinality({}) = 0
  BY FS_EmptySet
<1>4. Level(H, Len(H) + 1) = Cardinality({}) - Cardinality({})
  BY <1>2 DEF Level
<1> QED BY <1>3, <1>4

OneIf(condition) == IF condition THEN 1 ELSE 0

\* One element more, if it belongs to the set.
LEMMA OneMore ==
  ASSUME NEW S, IsFiniteSet(S), Cardinality(S) \in Nat, NEW x, x \notin S, NEW b \in BOOLEAN
  PROVE  Cardinality(IF b THEN S \union {x} ELSE S) = Cardinality(S) + OneIf(b)
<1>1. CASE b
  <2>1. Cardinality(S \union {x}) = Cardinality(S) + 1
    BY FS_AddElement
  <2> QED BY <1>1, <2>1 DEF OneIf
<1>2. CASE ~b
  BY <1>2 DEF OneIf
<1> QED BY <1>1, <1>2

Exclusive(h) == ~(Calling(h) /\ Closing(h))

\* A hop more at the end.
LEMMA LevelAppend ==
  ASSUME NEW E, NEW H \in Seq(E), NEW h \in E, NEW k \in 1..Len(H) + 1
  PROVE  Level(Append(H, h), k) = Level(H, k) + OneIf(Calling(h)) - OneIf(Closing(h))
<1> DEFINE n == Len(H)
           G == Append(H, h)
<1>1. /\ n \in Nat /\ Len(G) = n + 1 /\ G[n + 1] = h /\ \A x \in k..n : G[x] = H[x]
      /\ k..n + 1 = (k..n) \union {n + 1} /\ n + 1 \notin k..n
  OBVIOUS
<1>2. CallsFrom(G, k) = IF Calling(h) THEN CallsFrom(H, k) \union {n + 1} ELSE CallsFrom(H, k)
  BY <1>1 DEF CallsFrom
<1>3. ClosingsFrom(G, k) = IF Closing(h) THEN ClosingsFrom(H, k) \union {n + 1} ELSE ClosingsFrom(H, k)
  BY <1>1 DEF ClosingsFrom
<1>4. n + 1 \notin CallsFrom(H, k) /\ n + 1 \notin ClosingsFrom(H, k)
  BY <1>1 DEF CallsFrom, ClosingsFrom
<1>5. Calling(h) \in BOOLEAN /\ Closing(h) \in BOOLEAN
  BY DEF Calling, Closing
<1> HIDE DEF n, G
<1>6. /\ IsFiniteSet(CallsFrom(H, k)) /\ Cardinality(CallsFrom(H, k)) \in Nat
      /\ IsFiniteSet(ClosingsFrom(H, k)) /\ Cardinality(ClosingsFrom(H, k)) \in Nat
  BY CallsAndClosings
<1>7. Cardinality(CallsFrom(G, k)) = Cardinality(CallsFrom(H, k)) + OneIf(Calling(h))
  BY <1>2, <1>4, <1>5, <1>6, OneMore
<1>8. Cardinality(ClosingsFrom(G, k)) = Cardinality(ClosingsFrom(H, k)) + OneIf(Closing(h))
  BY <1>3, <1>4, <1>5, <1>6, OneMore
<1>9. OneIf(Calling(h)) \in Int /\ OneIf(Closing(h)) \in Int
  BY DEF OneIf
<1> QED BY <1>6, <1>7, <1>8, <1>9 DEF Level, G

\* The level at a hop and behind it.
LEMMA LevelNext ==
  ASSUME NEW E, NEW H \in Seq(E), NEW k \in 1..Len(H)
  PROVE  Level(H, k) = Level(H, k + 1) + OneIf(Calling(H[k])) - OneIf(Closing(H[k]))
<1>1. /\ Len(H) \in Nat /\ k..Len(H) = (k + 1..Len(H)) \union {k} /\ k \notin k + 1..Len(H)
      /\ k + 1 \in Nat \ {0}
  OBVIOUS
<1>2. CallsFrom(H, k) = IF Calling(H[k]) THEN CallsFrom(H, k + 1) \union {k} ELSE CallsFrom(H, k + 1)
  BY <1>1 DEF CallsFrom
<1>3. ClosingsFrom(H, k) = IF Closing(H[k]) THEN ClosingsFrom(H, k + 1) \union {k} ELSE ClosingsFrom(H, k + 1)
  BY <1>1 DEF ClosingsFrom
<1>4. k \notin CallsFrom(H, k + 1) /\ k \notin ClosingsFrom(H, k + 1)
  BY <1>1 DEF CallsFrom, ClosingsFrom
<1>5. Calling(H[k]) \in BOOLEAN /\ Closing(H[k]) \in BOOLEAN
  BY DEF Calling, Closing
<1>6. /\ IsFiniteSet(CallsFrom(H, k + 1)) /\ Cardinality(CallsFrom(H, k + 1)) \in Nat
      /\ IsFiniteSet(ClosingsFrom(H, k + 1)) /\ Cardinality(ClosingsFrom(H, k + 1)) \in Nat
  BY <1>1, CallsAndClosings
<1>7. Cardinality(CallsFrom(H, k)) = Cardinality(CallsFrom(H, k + 1)) + OneIf(Calling(H[k]))
  BY <1>2, <1>4, <1>5, <1>6, OneMore
<1>8. Cardinality(ClosingsFrom(H, k)) = Cardinality(ClosingsFrom(H, k + 1)) + OneIf(Closing(H[k]))
  BY <1>3, <1>4, <1>5, <1>6, OneMore
<1>9. OneIf(Calling(H[k])) \in Int /\ OneIf(Closing(H[k])) \in Int
  BY DEF OneIf
<1> QED BY <1>6, <1>7, <1>8, <1>9 DEF Level

\* The calls that a hop may close depend on the hops before it only.
LEMMA PartnersBefore ==
  ASSUME NEW E, NEW H \in Seq(E), NEW h \in E, NEW j \in 1..Len(H)
  PROVE  Partners(Append(H, h), j) = Partners(H, j)
<1>1. Len(H) \in Nat /\ \A x \in 1..j : Append(H, h)[x] = H[x]
  OBVIOUS
<1> DEFINE G == Append(H, h)
<1>2. \A x \in 1..j : G[x] = H[x]
  BY <1>1
<1> HIDE DEF G
<1>3. ASSUME NEW i \in 1..j - 1
      PROVE  /\ {k \in i + 1..j - 1 : G[k].kind = "call"} = {k \in i + 1..j - 1 : H[k].kind = "call"}
             /\ {k \in i + 1..j - 1 : Closing(G[k])} = {k \in i + 1..j - 1 : Closing(H[k])}
             /\ \A k \in i..j - 1 : G[k] = H[k]
             /\ G[i] = H[i]
  BY <1>1, <1>2
<1>4. Partners(G, j) = Partners(H, j)
  BY <1>3 DEF Partners, Count
<1> QED BY <1>4 DEF G

\* The calls the next hop may close.
LEMMA PartnersOfNext ==
  ASSUME NEW E, NEW H \in Seq(E), NEW h \in E
  PROVE  Partners(Append(H, h), Len(H) + 1) =
           {i \in 1..Len(H) : Calling(H[i]) /\ Level(H, i + 1) = 0 /\ Remembered(H, i)}
<1> DEFINE G == Append(H, h)
           n == Len(H)
<1>1. n \in Nat /\ n + 1 - 1 = n /\ \A x \in 1..n : G[x] = H[x]
  OBVIOUS
<1> HIDE DEF G
<1>2. ASSUME NEW i \in 1..n
      PROVE  /\ {k \in i + 1..n : G[k].kind = "call"} = CallsFrom(H, i + 1)
             /\ {k \in i + 1..n : Closing(G[k])} = ClosingsFrom(H, i + 1)
             /\ (\A k \in i..n : G[k].kind # "boundary" \/ Closing(G[k])) <=> Remembered(H, i)
             /\ G[i] = H[i]
  BY <1>1 DEF CallsFrom, ClosingsFrom, Calling, Remembered, Forgets
<1>3. \A i \in 1..n : Cardinality(CallsFrom(H, i + 1)) = Cardinality(ClosingsFrom(H, i + 1)) <=> Level(H, i + 1) = 0
  <2> TAKE i \in 1..n
  <2>1. Cardinality(CallsFrom(H, i + 1)) \in Nat /\ Cardinality(ClosingsFrom(H, i + 1)) \in Nat
    BY <1>1, CallsAndClosings
  <2> QED BY <2>1 DEF Level
<1> HIDE DEF n
<1>4. Partners(G, n + 1) =
        {i \in 1..n : /\ G[i].kind = "call"
                      /\ Cardinality({k \in i + 1..n : G[k].kind = "call"}) =
                           Cardinality({k \in i + 1..n : Closing(G[k])})
                      /\ \A k \in i..n : G[k].kind # "boundary" \/ Closing(G[k])}
  BY <1>1 DEF Partners, Count
<1>5. ASSUME NEW i \in 1..n
      PROVE  i \in Partners(G, n + 1) <=> Calling(H[i]) /\ Level(H, i + 1) = 0 /\ Remembered(H, i)
  <2>1. i \in Partners(G, n + 1) <=>
          /\ G[i].kind = "call"
          /\ Cardinality({k \in i + 1..n : G[k].kind = "call"}) =
               Cardinality({k \in i + 1..n : Closing(G[k])})
          /\ \A k \in i..n : G[k].kind # "boundary" \/ Closing(G[k])
    BY <1>4
  <2>2. G[i].kind = "call" <=> Calling(H[i])
    BY <1>2 DEF Calling
  <2> QED BY <1>2, <1>3, <2>1, <2>2
<1>6. Partners(G, n + 1) \subseteq 1..n
  BY <1>4
<1>7. Partners(G, n + 1) = {i \in 1..n : Calling(H[i]) /\ Level(H, i + 1) = 0 /\ Remembered(H, i)}
  BY <1>5, <1>6
<1> QED BY <1>7 DEF G, n

\* Where the calls on the stack were made: they are not closed yet, and no later
\* call is still open except those above them.
OpenAt(H, stack, pos) ==
  /\ pos \in Seq(1..Len(H)) /\ Len(pos) = Len(stack)
  /\ \A m \in 1..Len(stack) :
       /\ Calling(H[pos[m]]) /\ H[pos[m]].over = stack[m]
       /\ Remembered(H, pos[m]) /\ Level(H, pos[m]) = Len(stack) - m + 1
  /\ \A k \in 1..Len(H) : Remembered(H, k) =>
       /\ Level(H, k) <= Len(stack)
       /\ \A m \in 1..Len(stack) : k > pos[m] => Level(H, k) <= Len(stack) - m

LEMMA OneKind ==
  ASSUME NEW h
  PROVE  /\ Calling(h) => ~Closing(h) /\ ~Forgets(h)
         /\ Closing(h) => ~Calling(h) /\ ~Forgets(h)
         /\ Forgets(h) => ~Calling(h) /\ ~Closing(h)
BY DEF Calling, Closing, Forgets

LEMMA RememberedAppend ==
  ASSUME NEW E, NEW H \in Seq(E), NEW h \in E, NEW k \in 1..Len(H) + 1
  PROVE  Remembered(Append(H, h), k) <=> Remembered(H, k) /\ ~Forgets(h)
<1> DEFINE n == Len(H)
           G == Append(H, h)
<1>1. /\ n \in Nat /\ Len(G) = n + 1 /\ G[n + 1] = h /\ \A x \in k..n : G[x] = H[x]
      /\ k..n + 1 = (k..n) \union {n + 1}
  OBVIOUS
<1> HIDE DEF G, n
<1>2. Remembered(G, k) <=> (\A x \in k..n : ~Forgets(H[x])) /\ ~Forgets(h)
  BY <1>1 DEF Remembered
<1> QED BY <1>2 DEF Remembered, G, n

LEMMA OpenCall ==
  ASSUME NEW E, NEW H \in Seq(E), NEW h \in E, NEW C, NEW stack \in Seq(C), NEW pos,
         OpenAt(H, stack, pos), Calling(h), h.over \in C
  PROVE  OpenAt(Append(H, h), Append(stack, h.over), Append(pos, Len(H) + 1))
<1> DEFINE n == Len(H)
           G == Append(H, h)
           d == Len(stack)
           q == Append(pos, n + 1)
           S == Append(stack, h.over)
<1>1. pos \in Seq(1..n) /\ Len(pos) = d /\ d \in Nat /\ n \in Nat
  BY DEF OpenAt
<1>2. /\ Len(G) = n + 1 /\ G[n + 1] = h /\ (\A x \in 1..n : G[x] = H[x])
      /\ Len(S) = d + 1 /\ S[d + 1] = h.over /\ (\A m \in 1..d : S[m] = stack[m])
  OBVIOUS
<1>3. /\ q \in Seq(1..n + 1) /\ Len(q) = d + 1 /\ q[d + 1] = n + 1
      /\ \A m \in 1..d : q[m] = pos[m] /\ pos[m] \in 1..n
  <2>1. pos \in Seq(1..n + 1)
    BY <1>1
  <2> QED BY <1>1, <2>1
<1>4. ASSUME NEW k \in 1..n
      PROVE  /\ Level(G, k) = Level(H, k) + 1 /\ Level(H, k) \in Int
             /\ Remembered(G, k) <=> Remembered(H, k)
  <2>1. k \in 1..n + 1 /\ k \in Nat \ {0}
    BY <1>1
  <2>2. Level(G, k) = Level(H, k) + OneIf(Calling(h)) - OneIf(Closing(h))
    BY <2>1, LevelAppend
  <2>3. Level(H, k) \in Int
    BY <2>1, CallsAndClosings
  <2>4. Remembered(G, k) <=> Remembered(H, k)
    BY <2>1, RememberedAppend, OneKind
  <2> QED BY <2>2, <2>3, <2>4, OneKind DEF OneIf
<1>5. Level(G, n + 1) = 1 /\ Remembered(G, n + 1)
  <2>1. n + 1 \in 1..n + 1
    BY <1>1
  <2>2. Level(G, n + 1) = Level(H, n + 1) + OneIf(Calling(h)) - OneIf(Closing(h))
    BY <2>1, LevelAppend
  <2>3. Level(H, n + 1) = 0
    BY LevelAtEnd
  <2>4. Remembered(H, n + 1)
    BY <1>1 DEF Remembered
  <2>5. Remembered(G, n + 1)
    BY <2>1, <2>4, RememberedAppend, OneKind
  <2> QED BY <2>2, <2>3, <2>5, OneKind DEF OneIf
<1> HIDE DEF n, G, d, q, S
<1>6. ASSUME NEW m \in 1..d + 1
      PROVE  /\ Calling(G[q[m]]) /\ G[q[m]].over = S[m]
             /\ Remembered(G, q[m]) /\ Level(G, q[m]) = (d + 1) - m + 1
  <2>1. CASE m = d + 1
    BY <1>1, <1>2, <1>3, <1>5, <2>1
  <2>2. CASE m \in 1..d
    <3>1. /\ Calling(H[pos[m]]) /\ H[pos[m]].over = stack[m]
          /\ Remembered(H, pos[m]) /\ Level(H, pos[m]) = d - m + 1
      BY <2>2 DEF OpenAt, d
    <3>2. q[m] = pos[m] /\ pos[m] \in 1..n /\ G[pos[m]] = H[pos[m]] /\ S[m] = stack[m]
      BY <1>2, <1>3, <2>2
    <3>3. Level(G, pos[m]) = Level(H, pos[m]) + 1 /\ (Remembered(G, pos[m]) <=> Remembered(H, pos[m]))
      BY <1>4, <3>2
    <3> QED BY <1>1, <2>2, <3>1, <3>2, <3>3
  <2> QED BY <1>1, <2>1, <2>2
<1>7. ASSUME NEW k \in 1..n + 1, Remembered(G, k)
      PROVE  /\ Level(G, k) <= d + 1
             /\ \A m \in 1..d + 1 : k > q[m] => Level(G, k) <= (d + 1) - m
  <2>1. CASE k = n + 1
    <3>1. Level(G, k) = 1
      BY <1>5, <2>1
    <3>2. ~(n + 1 > q[d + 1])
      BY <1>1, <1>3
    <3>3. \A m \in 1..d + 1 : k > q[m] => m \in 1..d
      BY <1>1, <2>1, <3>2
    <3>4. \A m \in 1..d : 1 <= (d + 1) - m
      BY <1>1
    <3>5. 1 <= d + 1
      BY <1>1
    <3> QED BY <3>1, <3>3, <3>4, <3>5
  <2>2. CASE k \in 1..n
    <3>1. Level(G, k) = Level(H, k) + 1 /\ Level(H, k) \in Int /\ Remembered(H, k)
      BY <1>4, <1>7, <2>2
    <3>2. Level(H, k) <= d /\ \A m \in 1..d : k > pos[m] => Level(H, k) <= d - m
      BY <2>2, <3>1 DEF OpenAt, d, n
    <3>3. Level(G, k) <= d + 1
      BY <1>1, <3>1, <3>2
    <3>4. ASSUME NEW m \in 1..d + 1, k > q[m] PROVE Level(G, k) <= (d + 1) - m
      <4>1. m # d + 1
        BY <1>1, <1>3, <2>2, <3>4
      <4>2. m \in 1..d
        BY <1>1, <4>1
      <4>3. Level(H, k) <= d - m
        BY <1>3, <3>2, <3>4, <4>2
      <4> QED BY <1>1, <3>1, <4>2, <4>3
    <3> QED BY <3>3, <3>4
  <2> QED BY <1>1, <2>1, <2>2
<1> QED BY <1>2, <1>3, <1>6, <1>7 DEF OpenAt, q, G, S, n

LEMMA OpenClose ==
  ASSUME NEW E, NEW H \in Seq(E), NEW h \in E, NEW C, NEW stack \in Seq(C), NEW pos,
         OpenAt(H, stack, pos), Closing(h), stack # <<>>
  PROVE  OpenAt(Append(H, h), Front(stack), Front(pos))
<1> DEFINE n == Len(H)
           G == Append(H, h)
           d == Len(stack)
           q == Front(pos)
           S == Front(stack)
<1>1. pos \in Seq(1..n) /\ Len(pos) = d /\ d \in Nat /\ d >= 1 /\ n \in Nat
  BY DEF OpenAt
<1>2. Len(G) = n + 1 /\ G[n + 1] = h /\ (\A x \in 1..n : G[x] = H[x])
  OBVIOUS
<1>3. Len(S) = d - 1 /\ \A m \in 1..d - 1 : S[m] = stack[m]
  BY <1>1 DEF Front
<1>4. /\ q \in Seq(1..n + 1) /\ Len(q) = d - 1
      /\ \A m \in 1..d - 1 : q[m] = pos[m] /\ pos[m] \in 1..n
  <2>1. pos \in Seq(1..n + 1)
    BY <1>1
  <2> QED BY <1>1, <2>1 DEF Front
<1>5. ASSUME NEW k \in 1..n
      PROVE  /\ Level(G, k) = Level(H, k) - 1 /\ Level(H, k) \in Int
             /\ Remembered(G, k) <=> Remembered(H, k)
  <2>1. k \in 1..n + 1 /\ k \in Nat \ {0}
    BY <1>1
  <2>2. Level(G, k) = Level(H, k) + OneIf(Calling(h)) - OneIf(Closing(h))
    BY <2>1, LevelAppend
  <2>3. Level(H, k) \in Int
    BY <2>1, CallsAndClosings
  <2>4. Remembered(G, k) <=> Remembered(H, k)
    BY <2>1, RememberedAppend, OneKind
  <2> QED BY <2>2, <2>3, <2>4, OneKind DEF OneIf
<1>6. Level(G, n + 1) = -1
  <2>1. n + 1 \in 1..n + 1
    BY <1>1
  <2>2. Level(G, n + 1) = Level(H, n + 1) + OneIf(Calling(h)) - OneIf(Closing(h))
    BY <2>1, LevelAppend
  <2>3. Level(H, n + 1) = 0
    BY LevelAtEnd
  <2> QED BY <2>2, <2>3, OneKind DEF OneIf
<1> HIDE DEF n, G, d, q, S
<1>7. ASSUME NEW m \in 1..d - 1
      PROVE  /\ Calling(G[q[m]]) /\ G[q[m]].over = S[m]
             /\ Remembered(G, q[m]) /\ Level(G, q[m]) = (d - 1) - m + 1
  <2>0. m \in 1..d
    BY <1>1
  <2>1. /\ Calling(H[pos[m]]) /\ H[pos[m]].over = stack[m]
        /\ Remembered(H, pos[m]) /\ Level(H, pos[m]) = d - m + 1
    BY <2>0 DEF OpenAt, d
  <2>2. q[m] = pos[m] /\ pos[m] \in 1..n /\ G[pos[m]] = H[pos[m]] /\ S[m] = stack[m]
    BY <1>2, <1>3, <1>4
  <2>3. Level(G, pos[m]) = Level(H, pos[m]) - 1 /\ (Remembered(G, pos[m]) <=> Remembered(H, pos[m]))
    BY <1>5, <2>2
  <2> QED BY <1>1, <2>1, <2>2, <2>3
<1>8. ASSUME NEW k \in 1..n + 1, Remembered(G, k)
      PROVE  /\ Level(G, k) <= d - 1
             /\ \A m \in 1..d - 1 : k > q[m] => Level(G, k) <= (d - 1) - m
  <2>1. CASE k = n + 1
    <3>1. Level(G, k) = -1
      BY <1>6, <2>1
    <3> QED BY <1>1, <3>1
  <2>2. CASE k \in 1..n
    <3>1. Level(G, k) = Level(H, k) - 1 /\ Level(H, k) \in Int /\ Remembered(H, k)
      BY <1>5, <1>8, <2>2
    <3>2. Level(H, k) <= d /\ \A m \in 1..d : k > pos[m] => Level(H, k) <= d - m
      BY <2>2, <3>1 DEF OpenAt, d, n
    <3>3. Level(G, k) <= d - 1
      BY <1>1, <3>1, <3>2
    <3>4. ASSUME NEW m \in 1..d - 1, k > q[m] PROVE Level(G, k) <= (d - 1) - m
      <4>1. m \in 1..d
        BY <1>1
      <4>2. Level(H, k) <= d - m
        BY <1>4, <3>2, <3>4, <4>1
      <4> QED BY <1>1, <3>1, <4>1, <4>2
    <3> QED BY <3>3, <3>4
  <2> QED BY <1>1, <2>1, <2>2
<1> QED BY <1>2, <1>3, <1>4, <1>7, <1>8 DEF OpenAt, q, G, S, n

\* A return to any caller, or a boundary that forgets the calls.
LEMMA OpenBottom ==
  ASSUME NEW E, NEW H \in Seq(E), NEW h \in E, NEW stack, NEW pos,
         OpenAt(H, stack, pos), Forgets(h) \/ (Closing(h) /\ stack = <<>>)
  PROVE  OpenAt(Append(H, h), <<>>, <<>>)
<1> DEFINE n == Len(H)
           G == Append(H, h)
<1>1. n \in Nat /\ Len(G) = n + 1
  OBVIOUS
<1>2. ASSUME NEW k \in 1..n + 1, Remembered(G, k) PROVE Level(G, k) <= 0
  <2>1. Remembered(H, k) /\ ~Forgets(h)
    BY <1>2, RememberedAppend
  <2>2. Level(G, k) = Level(H, k) + OneIf(Calling(h)) - OneIf(Closing(h))
    BY LevelAppend
  <2>3. Closing(h) /\ stack = <<>>
    BY <2>1
  <2>4. CASE k = n + 1
    <3>1. Level(H, k) = 0
      BY <2>4, LevelAtEnd
    <3> QED BY <2>2, <2>3, <3>1, OneKind DEF OneIf
  <2>5. CASE k \in 1..n
    <3>1. Level(H, k) <= Len(stack) /\ Len(stack) = 0
      BY <2>1, <2>3, <2>5 DEF OpenAt
    <3>2. Level(H, k) \in Int
      BY <1>1, <2>5, CallsAndClosings
    <3> QED BY <2>2, <2>3, <3>1, <3>2, OneKind DEF OneIf
  <2> QED BY <1>1, <2>4, <2>5
<1> HIDE DEF n, G
<1> QED BY <1>1, <1>2 DEF OpenAt, G

\* The hop that comes next closes the uppermost call of the stack, if it closes one.
TopCloses(H, h, stack) ==
  /\ stack = <<>> => Partners(Append(H, h), Len(H) + 1) = {}
  /\ stack # <<>> => /\ Partners(Append(H, h), Len(H) + 1) # {}
                     /\ Append(H, h)[Partner(Append(H, h), Len(H) + 1)].over = Last(stack)

LEMMA ClosesTheTop ==
  ASSUME NEW E, NEW H \in Seq(E), NEW h \in E, NEW C, NEW stack \in Seq(C), NEW pos,
         OpenAt(H, stack, pos)
  PROVE  TopCloses(H, h, stack)
<1> DEFINE n == Len(H)
           d == Len(stack)
           P == Partners(Append(H, h), n + 1)
<1>1. P = {i \in 1..n : Calling(H[i]) /\ Level(H, i + 1) = 0 /\ Remembered(H, i)}
  BY PartnersOfNext
<1>2. ASSUME NEW i \in 1..n, Calling(H[i])
      PROVE  Level(H, i + 1) = 0 <=> Level(H, i) = 1
  <2>1. Level(H, i) = Level(H, i + 1) + OneIf(Calling(H[i])) - OneIf(Closing(H[i]))
    BY LevelNext
  <2>2. Level(H, i + 1) \in Int
    BY CallsAndClosings
  <2> QED BY <1>2, <2>1, <2>2, OneKind DEF OneIf
<1> HIDE DEF P
<1>3. \A i \in P : i \in 1..n /\ Calling(H[i]) /\ Level(H, i) = 1 /\ Remembered(H, i)
  BY <1>1, <1>2
<1>4. CASE stack = <<>>
  <2>1. \A i \in 1..n : Remembered(H, i) => Level(H, i) <= 0
    BY <1>4 DEF OpenAt
  <2>2. P = {}
    BY <1>3, <2>1
  <2> QED BY <1>4, <2>2 DEF P, TopCloses
<1>5. CASE stack # <<>>
  <2>1. /\ d \in Nat \ {0} /\ d \in 1..d /\ pos[d] \in 1..n /\ d - d = 0 /\ d - d + 1 = 1
    <3>1. d \in Nat \ {0} /\ pos \in Seq(1..n) /\ Len(pos) = d
      BY <1>5 DEF OpenAt
    <3> QED BY <3>1
  <2>2. /\ Calling(H[pos[d]]) /\ H[pos[d]].over = stack[d]
        /\ Remembered(H, pos[d]) /\ Level(H, pos[d]) = d - d + 1
    BY <2>1 DEF OpenAt
  <2>3. \A k \in 1..n : Remembered(H, k) /\ k > pos[d] => Level(H, k) <= d - d
    BY <2>1 DEF OpenAt
  <2> HIDE DEF d
  <2>4. pos[d] \in P
    BY <1>1, <1>2, <2>1, <2>2
  <2>5. \A i \in P : i <= pos[d]
    <3> SUFFICES ASSUME NEW i \in P, i > pos[d] PROVE FALSE
      BY <1>3, <2>1
    <3>1. i \in 1..n /\ Level(H, i) = 1 /\ Remembered(H, i)
      BY <1>3
    <3>2. Level(H, i) <= 0
      BY <2>1, <2>3, <3>1
    <3> QED BY <3>1, <3>2
  <2>6. Partner(Append(H, h), n + 1) = CHOOSE i \in P : \A k \in P : k <= i
    BY DEF Partner, P
  <2>7. \A i \in P : i \in Nat
    BY <1>3
  <2>8. Partner(Append(H, h), n + 1) = pos[d]
    <3>1. \E i \in P : \A k \in P : k <= i
      BY <2>4, <2>5
    <3> DEFINE p == CHOOSE i \in P : \A k \in P : k <= i
    <3>2. p \in P /\ \A k \in P : k <= p
      BY <3>1
    <3> HIDE DEF p
    <3>3. p = pos[d]
      BY <2>4, <2>5, <2>7, <3>2
    <3> QED BY <2>6, <3>3 DEF p
  <2>9. Append(H, h)[pos[d]] = H[pos[d]]
    BY <2>1
  <2> QED BY <1>5, <2>2, <2>4, <2>8, <2>9 DEF P, Last, d, TopCloses
<1> QED BY <1>4, <1>5

LEMMA PartnersEarlier ==
  ASSUME NEW H, NEW j
  PROVE  \A i \in Partners(H, j) : i \in 1..j - 1
BY DEF Partners

LEMMA SamePartner ==
  ASSUME NEW E, NEW H \in Seq(E), NEW h \in E, NEW j \in 1..Len(H), Partners(H, j) # {}
  PROVE  /\ Partner(Append(H, h), j) = Partner(H, j)
         /\ Partner(H, j) \in 1..Len(H)
<1>1. Partners(Append(H, h), j) = Partners(H, j)
  BY PartnersBefore
<1>2. Partner(Append(H, h), j) = Partner(H, j)
  BY <1>1 DEF Partner
<1>3. /\ \A i \in Partners(H, j) : i \in 1..j - 1 /\ i \in Nat
      /\ j - 1 \in Nat /\ Partners(H, j) \subseteq 1..j - 1
  BY PartnersEarlier
<1>4. \E i \in Partners(H, j) : \A k \in Partners(H, j) : k <= i
  BY <1>3, LargestOf
<1>5. Partner(H, j) \in Partners(H, j)
  BY <1>4 DEF Partner
<1> QED BY <1>2, <1>3, <1>5

\* What a closing hop says of the call it closes.
Closes(h, c) == IF h.kind = "return" THEN h.over = c ELSE h.over.resume = c.site

LEMMA MatchedAppend ==
  ASSUME NEW E, NEW H \in Seq(E), NEW h \in E, Matched(H),
         Closing(h) /\ Partners(Append(H, h), Len(H) + 1) # {} =>
           Closes(h, Append(H, h)[Partner(Append(H, h), Len(H) + 1)].over)
  PROVE  Matched(Append(H, h))
<1> DEFINE n == Len(H)
           G == Append(H, h)
<1>1. n \in Nat /\ DOMAIN G = 1..n + 1 /\ DOMAIN H = 1..n /\ G[n + 1] = h /\ \A x \in 1..n : G[x] = H[x]
  OBVIOUS
<1>2. ASSUME NEW j \in 1..n + 1, Closing(G[j]), Partners(G, j) # {}
      PROVE  Closes(G[j], G[Partner(G, j)].over)
  <2>1. CASE j = n + 1
    <3>1. Closing(h) /\ Partners(G, n + 1) # {} => Closes(h, G[Partner(G, n + 1)].over)
      OBVIOUS
    <3> HIDE DEF G, n
    <3> QED BY <1>1, <1>2, <2>1, <3>1
  <2>2. CASE j \in 1..n
    <3>1. G[j] = H[j] /\ Partners(H, j) # {}
      BY <1>1, <1>2, <2>2, PartnersBefore
    <3>2. Closes(H[j], H[Partner(H, j)].over)
      BY <1>1, <1>2, <2>2, <3>1 DEF Matched, Closes
    <3>3. Partner(G, j) = Partner(H, j) /\ Partner(H, j) \in 1..n
      BY <2>2, <3>1, SamePartner
    <3> QED BY <1>1, <3>1, <3>2, <3>3
  <2> HIDE DEF G, n
  <2> QED BY <1>1, <2>1, <2>2
<1> HIDE DEF G, n
<1>3. Matched(G)
  BY <1>1, <1>2 DEF Matched, Closes
<1> QED BY <1>3 DEF G

LEMMA DeepeningAppend ==
  ASSUME NEW E, NEW H \in Seq(E), NEW h \in E
  PROVE  /\ Cardinality(Deepening(H)) \in Nat
         /\ Cardinality(Deepening(Append(H, h))) =
              Cardinality(Deepening(H))
                + OneIf(~(Closing(h) /\ Partners(Append(H, h), Len(H) + 1) # {}))
<1> DEFINE n == Len(H)
           G == Append(H, h)
           b == ~(Closing(h) /\ Partners(G, n + 1) # {})
<1>1. /\ n \in Nat /\ DOMAIN G = 1..n + 1 /\ DOMAIN H = 1..n /\ G[n + 1] = h
      /\ (\A x \in 1..n : G[x] = H[x]) /\ 1..n + 1 = (1..n) \union {n + 1} /\ n + 1 \notin 1..n
  OBVIOUS
<1>2. \A j \in 1..n : Partners(G, j) = Partners(H, j)
  BY PartnersBefore
<1>3. b \in BOOLEAN
  BY DEF Closing
<1> HIDE DEF G
<1>4. Deepening(G) = IF b THEN Deepening(H) \union {n + 1} ELSE Deepening(H)
  BY <1>1, <1>2 DEF Deepening
<1>5. Deepening(H) \subseteq 1..n /\ n + 1 \notin Deepening(H)
  BY <1>1 DEF Deepening
<1>6. IsFiniteSet(Deepening(H)) /\ Cardinality(Deepening(H)) \in Nat
  BY <1>1, <1>5, Within
<1> HIDE DEF b
<1>7. Cardinality(Deepening(G)) = Cardinality(Deepening(H)) + OneIf(b)
  BY <1>3, <1>4, <1>5, <1>6, OneMore
<1> QED BY <1>6, <1>7 DEF G, b

LEMMA ConnectedAppend ==
  ASSUME NEW E, NEW H \in Seq(E), NEW h \in E, NEW p, Connected(p, H),
         h.path.from = IF H = <<>> THEN p.source ELSE Landing(Last(H))
  PROVE  Connected(p, Append(H, h))
<1> DEFINE n == Len(H)
           G == Append(H, h)
<1>1. /\ n \in Nat /\ DOMAIN G = 1..n + 1 /\ DOMAIN H = 1..n /\ G[n + 1] = h
      /\ (\A x \in 1..n : G[x] = H[x]) /\ (H = <<>> <=> n = 0)
  OBVIOUS
<1>2. ASSUME NEW i \in 1..n + 1
      PROVE  G[i].path.from = IF i = 1 THEN p.source ELSE Landing(G[i - 1])
  <2>1. CASE i = n + 1
    <3>1. h.path.from = IF n = 0 THEN p.source ELSE Landing(H[n])
      BY <1>1 DEF Last
    <3>2. n # 0 => n \in 1..n
      BY <1>1
    <3>3. i - 1 = n /\ (i = 1 <=> n = 0)
      BY <1>1, <2>1
    <3> HIDE DEF G, n
    <3> QED BY <1>1, <2>1, <3>1, <3>2, <3>3
  <2>2. CASE i \in 1..n
    <3>1. H[i].path.from = IF i = 1 THEN p.source ELSE Landing(H[i - 1])
      BY <1>1, <2>2 DEF Connected
    <3>2. i # 1 => i - 1 \in 1..n
      BY <2>2
    <3> QED BY <1>1, <2>2, <3>1, <3>2
  <2> QED BY <1>1, <2>1, <2>2
<1> HIDE DEF G, n
<1>3. Connected(p, G)
  BY <1>1, <1>2 DEF Connected
<1> QED BY <1>3 DEF G

-------------------------------------------------------------------------------
(* States of the search *)

EndOf(p, hops) == IF hops = <<>> THEN p.source ELSE Landing(Last(hops))

SureHop(h) == h.path.sure /\ h.kind # "boundary" /\ (h.kind = "call" => h.over.sure)

SureHops(hops) == \A i \in 1..Len(hops) : SureHop(hops[i])

\* A function on the stack was entered by the call above it, and left by the next.
Nested(p, at, stack) ==
  /\ stack # <<>> => p.in[at] = p.in[Last(stack).param]
  /\ \A m \in 1..Len(stack) - 1 : p.in[stack[m + 1].arg] = p.in[stack[m].param]

RouteState(p, s) ==
  /\ s.hops \in Seq(HopsOf(p))
  /\ s.stack \in Seq(p.calls)
  /\ s.depth \in 0..CallDepth
  /\ s.at = EndOf(p, s.hops)
  /\ Connected(p, s.hops)
  /\ Matched(s.hops)
  /\ Cardinality(Deepening(s.hops)) = s.depth
  /\ \E pos : OpenAt(s.hops, s.stack, pos)
  /\ Nested(p, s.at, s.stack)
  /\ s.sure => SureHops(s.hops)

LEMMA AppendOf ==
  ASSUME NEW E, NEW S \in Seq(E), NEW e \in E
  PROVE  /\ Append(S, e) \in Seq(E) /\ Append(S, e) # <<>>
         /\ Len(S) \in Nat /\ Len(Append(S, e)) = Len(S) + 1 /\ Append(S, e)[Len(S) + 1] = e
         /\ \A m \in 1..Len(S) : Append(S, e)[m] = S[m]
OBVIOUS

LEMMA FrontOf ==
  ASSUME NEW E, NEW S \in Seq(E), S # <<>>
  PROVE  /\ Len(S) \in Nat /\ Len(S) >= 1 /\ Front(S) \in Seq(E) /\ Len(Front(S)) = Len(S) - 1
         /\ \A m \in 1..Len(S) - 1 : Front(S)[m] = S[m]
<1>1. Len(S) \in Nat /\ Len(S) >= 1
  OBVIOUS
<1>2. Front(S) = [m \in 1..Len(S) - 1 |-> S[m]]
  BY <1>1 DEF Front
<1>3. [m \in 1..Len(S) - 1 |-> S[m]] \in Seq(E)
  BY <1>1
<1>4. Len([m \in 1..Len(S) - 1 |-> S[m]]) = Len(S) - 1
  BY <1>1
<1> QED BY <1>1, <1>2, <1>3, <1>4

LEMMA SureAppend ==
  ASSUME NEW E, NEW H \in Seq(E), NEW h \in E, SureHops(H), SureHop(h)
  PROVE  SureHops(Append(H, h))
<1> DEFINE G == Append(H, h)
<1>1. /\ Len(H) \in Nat /\ Len(G) = Len(H) + 1 /\ G[Len(H) + 1] = h
      /\ \A i \in 1..Len(H) : G[i] = H[i]
  OBVIOUS
<1> HIDE DEF G
<1>2. SureHops(G)
  BY <1>1 DEF SureHops
<1> QED BY <1>2 DEF G

LEMMA EndAppend ==
  ASSUME NEW E, NEW H \in Seq(E), NEW h \in E, NEW p
  PROVE  EndOf(p, Append(H, h)) = Landing(h)
<1>1. Append(H, h) # <<>> /\ Last(Append(H, h)) = h
  BY DEF Last
<1> QED BY <1>1 DEF EndOf

\* What a hop does to the route, whichever way it leads.
LEMMA RouteAppend ==
  ASSUME NEW p, NEW s, NEW h, RouteState(p, s), h \in HopsOf(p), h.path.from = s.at,
         Closing(h) /\ s.stack # <<>> => Closes(h, Last(s.stack))
  PROVE  /\ Append(s.hops, h) \in Seq(HopsOf(p))
         /\ Landing(h) = EndOf(p, Append(s.hops, h))
         /\ Connected(p, Append(s.hops, h))
         /\ Matched(Append(s.hops, h))
         /\ Cardinality(Deepening(Append(s.hops, h))) =
              IF Closing(h) /\ s.stack # <<>> THEN s.depth ELSE s.depth + 1
         /\ s.sure /\ SureHop(h) => SureHops(Append(s.hops, h))
<1> DEFINE H == s.hops
           G == Append(H, h)
           P == Partners(G, Len(H) + 1)
<1>1. /\ H \in Seq(HopsOf(p)) /\ s.stack \in Seq(p.calls) /\ s.depth \in Nat
      /\ s.at = EndOf(p, H) /\ Connected(p, H) /\ Matched(H)
      /\ Cardinality(Deepening(H)) = s.depth
      /\ s.sure => SureHops(H)
  BY DEF RouteState
<1>2. PICK pos : OpenAt(H, s.stack, pos)
  BY DEF RouteState
<1> HIDE DEF H
<1>3. /\ s.stack = <<>> => P = {}
      /\ s.stack # <<>> => P # {} /\ G[Partner(G, Len(H) + 1)].over = Last(s.stack)
  <2>1. TopCloses(H, h, s.stack)
    BY <1>1, <1>2, ClosesTheTop
  <2> QED BY <2>1 DEF TopCloses
<1>4. G \in Seq(HopsOf(p))
  BY <1>1
<1>5. Landing(h) = EndOf(p, G)
  BY <1>1, EndAppend
<1>6. Connected(p, G)
  <2>1. h.path.from = IF H = <<>> THEN p.source ELSE Landing(Last(H))
    BY <1>1 DEF EndOf
  <2> QED BY <1>1, <2>1, ConnectedAppend
<1>7. Matched(G)
  <2>1. Closing(h) /\ P # {} => Closes(h, G[Partner(G, Len(H) + 1)].over)
    BY <1>3
  <2> HIDE DEF P
  <2>2. Closing(h) /\ Partners(Append(H, h), Len(H) + 1) # {} =>
          Closes(h, Append(H, h)[Partner(Append(H, h), Len(H) + 1)].over)
    BY <2>1 DEF P
  <2> QED BY <1>1, <2>2, MatchedAppend
<1>8. Cardinality(Deepening(G)) = IF Closing(h) /\ s.stack # <<>> THEN s.depth ELSE s.depth + 1
  <2>1. Cardinality(Deepening(G)) = Cardinality(Deepening(H)) + OneIf(~(Closing(h) /\ P # {}))
    BY <1>1, DeepeningAppend
  <2> HIDE DEF G, P
  <2> QED BY <1>1, <1>3, <2>1 DEF OneIf
<1>9. s.sure /\ SureHop(h) => SureHops(G)
  BY <1>1, SureAppend
<1> HIDE DEF G
<1> QED BY <1>4, <1>5, <1>6, <1>7, <1>8, <1>9 DEF G, H

\* A call puts the function called on top.
LEMMA HopCall ==
  ASSUME NEW p, NEW s, NEW t, NEW h, RouteState(p, s), h \in HopsOf(p), h.path.from = s.at,
         Calling(h), h.over \in p.calls, p.in[s.at] = p.in[h.over.arg], s.depth < CallDepth,
         t.at = Landing(h), t.hops = Append(s.hops, h), t.stack = Append(s.stack, h.over),
         t.depth = s.depth + 1, t.sure => s.sure /\ SureHop(h)
  PROVE  RouteState(p, t)
<1>1. ~Closing(h)
  BY OneKind
<1>2. /\ t.hops \in Seq(HopsOf(p)) /\ t.at = EndOf(p, t.hops)
      /\ Connected(p, t.hops) /\ Matched(t.hops)
      /\ Cardinality(Deepening(t.hops)) = s.depth + 1
      /\ t.sure => SureHops(t.hops)
  BY <1>1, RouteAppend
<1>3. /\ s.hops \in Seq(HopsOf(p)) /\ s.stack \in Seq(p.calls) /\ s.depth \in 0..CallDepth
      /\ Nested(p, s.at, s.stack)
  BY DEF RouteState
<1>4. t.stack \in Seq(p.calls) /\ t.depth \in 0..CallDepth
  <2>1. t.stack \in Seq(p.calls)
    <3>1. Append(s.stack, h.over) \in Seq(p.calls)
      BY <1>3, AppendOf
    <3> QED BY <3>1
  <2>2. t.depth \in 0..CallDepth
    BY <1>3, FlowRoutesAssumption
  <2> QED BY <2>1, <2>2
<1>5. \E pos : OpenAt(t.hops, t.stack, pos)
  <2>1. PICK pos : OpenAt(s.hops, s.stack, pos)
    BY DEF RouteState
  <2>2. OpenAt(Append(s.hops, h), Append(s.stack, h.over), Append(pos, Len(s.hops) + 1))
    BY <1>3, <2>1, OpenCall
  <2> QED BY <2>2
<1>6. Nested(p, t.at, t.stack)
  <2>1. /\ Len(s.stack) \in Nat /\ Len(t.stack) = Len(s.stack) + 1 /\ t.stack[Len(s.stack) + 1] = h.over
        /\ t.stack # <<>> /\ \A m \in 1..Len(s.stack) : t.stack[m] = s.stack[m]
    BY <1>3, AppendOf
  <2>2. Last(t.stack) = h.over /\ t.at = h.over.param
    BY <2>1 DEF Last, Landing, Calling
  <2>3. ASSUME NEW m \in 1..Len(s.stack) PROVE p.in[t.stack[m + 1].arg] = p.in[t.stack[m].param]
    <3>1. CASE m = Len(s.stack)
      <4>1. s.stack # <<>> /\ Last(s.stack) = s.stack[m]
        BY <1>3, <3>1 DEF Last
      <4>2. p.in[s.at] = p.in[s.stack[m].param]
        BY <1>3, <4>1 DEF Nested
      <4> QED BY <2>1, <3>1, <4>2
    <3>2. CASE m \in 1..Len(s.stack) - 1
      <4>1. p.in[s.stack[m + 1].arg] = p.in[s.stack[m].param]
        BY <1>3, <3>2 DEF Nested
      <4>2. m + 1 \in 1..Len(s.stack)
        BY <2>1, <3>2
      <4> QED BY <2>1, <4>1, <4>2
    <3> QED BY <2>1, <3>1, <3>2
  <2>4. Len(t.stack) - 1 = Len(s.stack)
    BY <2>1
  <2> QED BY <2>2, <2>3, <2>4 DEF Nested
<1> QED BY <1>2, <1>3, <1>4, <1>5, <1>6 DEF RouteState

\* A return, or a boundary that resumes, comes back behind the call on top.
LEMMA HopBack ==
  ASSUME NEW p, NEW s, NEW t, NEW h, RouteState(p, s), h \in HopsOf(p), h.path.from = s.at,
         Closing(h), s.stack # <<>>, Closes(h, Last(s.stack)),
         p.in[Landing(h)] = p.in[Last(s.stack).arg],
         t.at = Landing(h), t.hops = Append(s.hops, h), t.stack = Front(s.stack),
         t.depth = s.depth, t.sure => s.sure /\ SureHop(h)
  PROVE  RouteState(p, t)
<1>2. /\ t.hops \in Seq(HopsOf(p)) /\ t.at = EndOf(p, t.hops)
      /\ Connected(p, t.hops) /\ Matched(t.hops)
      /\ Cardinality(Deepening(t.hops)) = s.depth
      /\ t.sure => SureHops(t.hops)
  BY RouteAppend
<1>3. /\ s.hops \in Seq(HopsOf(p)) /\ s.stack \in Seq(p.calls) /\ s.depth \in 0..CallDepth
      /\ Nested(p, s.at, s.stack)
  BY DEF RouteState
<1> DEFINE d == Len(s.stack)
<1>4. /\ d \in Nat /\ d >= 1 /\ t.stack \in Seq(p.calls) /\ Len(t.stack) = d - 1
      /\ \A m \in 1..d - 1 : t.stack[m] = s.stack[m]
  BY <1>3, FrontOf
<1>5. \E pos : OpenAt(t.hops, t.stack, pos)
  <2>1. PICK pos : OpenAt(s.hops, s.stack, pos)
    BY DEF RouteState
  <2>2. OpenAt(Append(s.hops, h), Front(s.stack), Front(pos))
    BY <1>3, <2>1, OpenClose
  <2> QED BY <2>2
<1>6. Nested(p, t.at, t.stack)
  <2>1. \A m \in 1..d - 1 : p.in[s.stack[m + 1].arg] = p.in[s.stack[m].param]
    BY <1>3 DEF Nested
  <2> HIDE DEF d
  <2>2. ASSUME t.stack # <<>> PROVE p.in[t.at] = p.in[Last(t.stack).param]
    <3>1. d - 1 \in 1..d - 1 /\ (d - 1) + 1 = d /\ Last(t.stack) = t.stack[d - 1]
      BY <1>4, <2>2 DEF Last
    <3>2. p.in[s.stack[d].arg] = p.in[s.stack[d - 1].param]
      BY <2>1, <3>1
    <3>3. Last(s.stack) = s.stack[d]
      BY DEF Last, d
    <3> QED BY <1>4, <3>1, <3>2, <3>3
  <2>3. ASSUME NEW m \in 1..Len(t.stack) - 1 PROVE p.in[t.stack[m + 1].arg] = p.in[t.stack[m].param]
    <3>1. m \in 1..d - 1 /\ m + 1 \in 1..d - 1
      BY <1>4
    <3> QED BY <1>4, <2>1, <3>1
  <2> QED BY <2>2, <2>3 DEF Nested
<1> QED BY <1>2, <1>3, <1>4, <1>5, <1>6 DEF RouteState

\* A return from where the search began, or a boundary that forgets the calls.
LEMMA HopOut ==
  ASSUME NEW p, NEW s, NEW t, NEW h, RouteState(p, s), h \in HopsOf(p), h.path.from = s.at,
         Forgets(h) \/ (Closing(h) /\ s.stack = <<>>), s.depth < CallDepth,
         t.at = Landing(h), t.hops = Append(s.hops, h), t.stack = <<>>,
         t.depth = s.depth + 1, t.sure => s.sure /\ SureHop(h)
  PROVE  RouteState(p, t)
<1>1. ~(Closing(h) /\ s.stack # <<>>)
  BY OneKind
<1>2. /\ t.hops \in Seq(HopsOf(p)) /\ t.at = EndOf(p, t.hops)
      /\ Connected(p, t.hops) /\ Matched(t.hops)
      /\ Cardinality(Deepening(t.hops)) = s.depth + 1
      /\ t.sure => SureHops(t.hops)
  BY <1>1, RouteAppend
<1>3. s.hops \in Seq(HopsOf(p)) /\ s.depth \in 0..CallDepth
  BY DEF RouteState
<1>4. t.stack \in Seq(p.calls) /\ t.depth \in 0..CallDepth
  BY <1>3, FlowRoutesAssumption
<1>5. \E pos : OpenAt(t.hops, t.stack, pos)
  <2>1. PICK pos : OpenAt(s.hops, s.stack, pos)
    BY DEF RouteState
  <2>2. OpenAt(Append(s.hops, h), <<>>, <<>>)
    BY <1>3, <2>1, OpenBottom
  <2> QED BY <2>2
<1>6. Nested(p, t.at, t.stack)
  BY DEF Nested
<1> QED BY <1>2, <1>3, <1>4, <1>5, <1>6 DEF RouteState

-------------------------------------------------------------------------------
(* What one visit queues *)

LEMMA FiniteWithin ==
  ASSUME NEW S, IsFiniteSet(S), NEW f, DOMAIN f = S, NEW T, \A t \in T : \E x \in S : t = f[x]
  PROVE  IsFiniteSet(T)
<1> DEFINE U == {f[x] : x \in S}
           g == [x \in S |-> f[x]]
<1>1. g \in Surjection(S, U)
  BY DEF Surjection
<1>2. IsFiniteSet(U)
  BY <1>1, FS_Surjection
<1>3. T \subseteq U
  OBVIOUS
<1> QED BY <1>2, <1>3, FS_Subset

LEMMA ListOf ==
  ASSUME NEW S, IsFiniteSet(S)
  PROVE  SetToSeq(S) \in Seq(S)
<1>1. PICK n \in Nat : ExistsBijection(1..n, S)
  BY FS_NatBijection
<1>2. PICK f \in Bijection(1..n, S) : TRUE
  BY <1>1 DEF ExistsBijection
<1>3. Cardinality(S) = n
  BY <1>1, FS_CountingElements
<1>4. f \in [1..n -> S] /\ IsInjective(f)
  BY <1>2 DEF Bijection, Injection, IsInjective
<1>5. SetToSeq(S) \in [1..n -> S]
  BY <1>3, <1>4 DEF SetToSeq
<1> QED BY <1>5

LEMMA HopCases ==
  ASSUME NEW path, NEW c, NEW b
  PROVE  /\ Calling([path |-> path, kind |-> "call", over |-> c])
         /\ Closing([path |-> path, kind |-> "return", over |-> c])
         /\ b.resume # NoSite => Closing([path |-> path, kind |-> "boundary", over |-> b])
         /\ b.resume = NoSite => Forgets([path |-> path, kind |-> "boundary", over |-> b])
BY DEF Calling, Closing, Forgets

\* The hops of a program, one kind at a time.
LEMMA HopsAllowed ==
  ASSUME NEW p, NEW path \in p.paths
  PROVE  /\ \A c \in p.calls : path.to = c.arg =>
              [path |-> path, kind |-> "call", over |-> c] \in HopsOf(p)
         /\ \A c \in p.calls, r \in p.returns :
              c.result # NoPoint /\ path.to = r.at /\ p.in[path.to] = p.in[c.param] =>
                [path |-> path, kind |-> "return", over |-> c] \in HopsOf(p)
         /\ \A b \in p.boundaries : path.to = b.from =>
              [path |-> path, kind |-> "boundary", over |-> b] \in HopsOf(p)
<1> DEFINE CallHops(c) == {[path |-> x, kind |-> "call", over |-> c] : x \in {y \in p.paths : y.to = c.arg}}
           ReturnHops(c) == {[path |-> x, kind |-> "return", over |-> c] :
                               x \in {y \in p.paths : /\ y.to \in {r.at : r \in p.returns}
                                                      /\ p.in[y.to] = p.in[c.param]}}
           BoundaryHops(b) == {[path |-> x, kind |-> "boundary", over |-> b] : x \in {y \in p.paths : y.to = b.from}}
<1>1. ASSUME NEW c \in p.calls, path.to = c.arg
      PROVE  [path |-> path, kind |-> "call", over |-> c] \in CallHops(c)
  BY <1>1
<1>2. ASSUME NEW c \in p.calls, NEW r \in p.returns, path.to = r.at, p.in[path.to] = p.in[c.param]
      PROVE  [path |-> path, kind |-> "return", over |-> c] \in ReturnHops(c)
  BY <1>2
<1>3. ASSUME NEW b \in p.boundaries, path.to = b.from
      PROVE  [path |-> path, kind |-> "boundary", over |-> b] \in BoundaryHops(b)
  BY <1>3
<1> DEFINE A == UNION {CallHops(c) : c \in p.calls}
           B == UNION {ReturnHops(c) : c \in {x \in p.calls : x.result # NoPoint}}
           C == UNION {BoundaryHops(b) : b \in p.boundaries}
<1>4. HopsOf(p) = A \union B \union C
  BY DEF HopsOf
<1>5. /\ \A c \in p.calls : CallHops(c) \subseteq A
      /\ \A c \in p.calls : c.result # NoPoint => ReturnHops(c) \subseteq B
      /\ \A b \in p.boundaries : BoundaryHops(b) \subseteq C
  <2> HIDE DEF CallHops, ReturnHops, BoundaryHops
  <2>1. \A c \in p.calls : CallHops(c) \subseteq A
    OBVIOUS
  <2>2. \A c \in p.calls : c.result # NoPoint => ReturnHops(c) \subseteq B
    OBVIOUS
  <2>3. \A b \in p.boundaries : BoundaryHops(b) \subseteq C
    OBVIOUS
  <2> QED BY <2>1, <2>2, <2>3
<1> HIDE DEF A, B, C, CallHops, ReturnHops, BoundaryHops
<1>8. ASSUME NEW c \in p.calls, path.to = c.arg
      PROVE  [path |-> path, kind |-> "call", over |-> c] \in HopsOf(p)
  BY <1>1, <1>4, <1>5, <1>8
<1>9. ASSUME NEW c \in p.calls, NEW r \in p.returns, c.result # NoPoint, path.to = r.at,
             p.in[path.to] = p.in[c.param]
      PROVE  [path |-> path, kind |-> "return", over |-> c] \in HopsOf(p)
  BY <1>2, <1>4, <1>5, <1>9
<1>10. ASSUME NEW b \in p.boundaries, path.to = b.from
       PROVE  [path |-> path, kind |-> "boundary", over |-> b] \in HopsOf(p)
  BY <1>3, <1>4, <1>5, <1>10
<1> QED BY <1>8, <1>9, <1>10

LEMMA CallOnwards ==
  ASSUME program \in Programs, NEW s, RouteState(program, s), s.depth < CallDepth
  PROVE  IsFiniteSet(CallStates(s)) /\ \A t \in CallStates(s) : RouteState(program, t)
<1>1. ASSUME NEW t \in CallStates(s) PROVE RouteState(program, t)
  <2>1. PICK c \in program.calls : \E path \in Local(s.at, c.arg) :
          t = Hopped(s, path, "call", c, c.param, Append(s.stack, c), s.depth + 1, c.sure)
    BY DEF CallStates
  <2>0. PICK path \in Local(s.at, c.arg) :
          t = Hopped(s, path, "call", c, c.param, Append(s.stack, c), s.depth + 1, c.sure)
    BY <2>1
  <2>2. path \in program.paths /\ path.from = s.at /\ path.to = c.arg
    BY DEF Local
  <2> DEFINE h == [path |-> path, kind |-> "call", over |-> c]
  <2>3. h \in HopsOf(program)
    BY <2>2, HopsAllowed
  <2>4. /\ h.path = path /\ h.over = c /\ h.kind = "call" /\ Calling(h) /\ Landing(h) = c.param
        /\ SureHop(h) <=> path.sure /\ c.sure
    BY HopCases DEF Landing, SureHop
  <2>5. program.in[s.at] = program.in[c.arg]
    BY <2>2, FlowRoutesAssumption
  <2>6. /\ t.at = c.param /\ t.hops = Append(s.hops, h) /\ t.stack = Append(s.stack, c)
        /\ t.depth = s.depth + 1
        /\ t.sure => s.sure /\ path.sure /\ c.sure
    BY <2>0 DEF Hopped
  <2> HIDE DEF h
  <2> QED BY <2>2, <2>3, <2>4, <2>5, <2>6, HopCall
<1>2. IsFiniteSet(CallStates(s))
  <2> DEFINE S == program.calls \X program.paths
             f == [x \in S |-> Hopped(s, x[2], "call", x[1], x[1].param, Append(s.stack, x[1]),
                                      s.depth + 1, x[1].sure)]
  <2>1. IsFiniteSet(S)
    BY FlowRoutesAssumption, FS_Product
  <2>2. ASSUME NEW t \in CallStates(s) PROVE \E x \in S : t = f[x]
    <3>1. PICK c \in program.calls : \E path \in Local(s.at, c.arg) :
            t = Hopped(s, path, "call", c, c.param, Append(s.stack, c), s.depth + 1, c.sure)
      BY DEF CallStates
    <3>0. PICK path \in Local(s.at, c.arg) :
            t = Hopped(s, path, "call", c, c.param, Append(s.stack, c), s.depth + 1, c.sure)
      BY <3>1
    <3>2. <<c, path>> \in S
      BY DEF Local
    <3>3. t = f[<<c, path>>]
      BY <3>0, <3>2
    <3> QED BY <3>2, <3>3
  <2>3. DOMAIN f = S
    OBVIOUS
  <2> HIDE DEF S, f
  <2> QED BY <2>1, <2>2, <2>3, FiniteWithin
<1> QED BY <1>1, <1>2

LEMMA ReturnOnwards ==
  ASSUME program \in Programs, NEW s, RouteState(program, s)
  PROVE  IsFiniteSet(ReturnStates(s)) /\ \A t \in ReturnStates(s) : RouteState(program, t)
<1> DEFINE Surely1(c, r) == r.sure /\ c.slot /\ (c.sure \/ s.stack # <<>>)
           Deeper1 == IF s.stack = <<>> THEN 1 ELSE 0
           To(c, r, path) == Hopped(s, path, "return", c, c.result, Popped(s), s.depth + Deeper1, Surely1(c, r))
<1>0. \A t \in ReturnStates(s) : \E c \in ReturnsTo(s), r \in program.returns : \E path \in Local(s.at, r.at) :
        t = To(c, r, path)
  BY DEF ReturnStates
<1>1. ASSUME NEW t \in ReturnStates(s) PROVE RouteState(program, t)
  <2>1. PICK c \in ReturnsTo(s), r \in program.returns : \E path \in Local(s.at, r.at) : t = To(c, r, path)
    BY <1>0
  <2>2. PICK path \in Local(s.at, r.at) : t = To(c, r, path)
    BY <2>1
  <2>3. path \in program.paths /\ path.from = s.at /\ path.to = r.at
    BY DEF Local
  <2>4. /\ c \in program.calls /\ c.result # NoPoint
        /\ IF s.stack # <<>> THEN c = Last(s.stack) ELSE s.depth < CallDepth /\ program.in[c.param] = program.in[s.at]
    BY DEF ReturnsTo, Of
  <2> DEFINE h == [path |-> path, kind |-> "return", over |-> c]
  <2>5. /\ program.in[path.from] = program.in[path.to] /\ program.in[c.result] = program.in[c.arg]
        /\ s.stack # <<>> => program.in[s.at] = program.in[Last(s.stack).param]
    BY <2>3, <2>4, FlowRoutesAssumption DEF RouteState, Nested
  <2>6. program.in[path.to] = program.in[c.param]
    BY <2>3, <2>4, <2>5
  <2>7. h \in HopsOf(program)
    BY <2>3, <2>4, <2>6, HopsAllowed
  <2>8. /\ h.path = path /\ h.over = c /\ h.kind = "return" /\ Closing(h) /\ Landing(h) = c.result
        /\ SureHop(h) <=> path.sure
    BY HopCases DEF Landing, SureHop
  <2>9. /\ t.at = c.result /\ t.hops = Append(s.hops, h) /\ t.stack = Popped(s)
        /\ t.depth = s.depth + Deeper1
        /\ t.sure => s.sure /\ path.sure
    BY <2>2 DEF Hopped
  <2>10. s.depth \in Nat
    BY DEF RouteState
  <2> HIDE DEF h
  <2>11. CASE s.stack = <<>>
    <3>1. t.stack = <<>> /\ t.depth = s.depth + 1
      BY <2>9, <2>11 DEF Popped
    <3> QED BY <2>3, <2>4, <2>7, <2>8, <2>9, <2>11, <3>1, HopOut
  <2>12. CASE s.stack # <<>>
    <3>1. t.stack = Front(s.stack) /\ t.depth = s.depth
      BY <2>9, <2>10, <2>12 DEF Popped
    <3>2. Closes(h, Last(s.stack)) /\ program.in[Landing(h)] = program.in[Last(s.stack).arg]
      BY <2>4, <2>5, <2>8, <2>12 DEF Closes
    <3> QED BY <2>3, <2>7, <2>8, <2>9, <2>12, <3>1, <3>2, HopBack
  <2> QED BY <2>11, <2>12
<1>2. IsFiniteSet(ReturnStates(s))
  <2> DEFINE S == (program.calls \X program.returns) \X program.paths
             f == [x \in S |-> To(x[1][1], x[1][2], x[2])]
  <2>1. IsFiniteSet(S)
    <3>1. IsFiniteSet(program.calls) /\ IsFiniteSet(program.returns) /\ IsFiniteSet(program.paths)
      BY FlowRoutesAssumption
    <3>2. IsFiniteSet(program.calls \X program.returns)
      BY <3>1, FS_Product
    <3> QED BY <3>1, <3>2, FS_Product
  <2>2. ASSUME NEW t \in ReturnStates(s) PROVE \E x \in S : t = f[x]
    <3>1. PICK c \in ReturnsTo(s), r \in program.returns : \E path \in Local(s.at, r.at) : t = To(c, r, path)
      BY <1>0
    <3>2. PICK path \in Local(s.at, r.at) : t = To(c, r, path)
      BY <3>1
    <3>3. <<<<c, r>>, path>> \in S
      BY DEF Local, ReturnsTo
    <3> HIDE DEF To
    <3>4. t = f[<<<<c, r>>, path>>]
      BY <3>2, <3>3
    <3> QED BY <3>3, <3>4
  <2>3. DOMAIN f = S
    OBVIOUS
  <2> HIDE DEF S, f
  <2> QED BY <2>1, <2>2, <2>3, FiniteWithin
<1> QED BY <1>1, <1>2

LEMMA BoundaryOnwards ==
  ASSUME program \in Programs, NEW s, RouteState(program, s), NEW returning \in BOOLEAN,
         returning \/ s.depth < CallDepth
  PROVE  /\ IsFiniteSet(BoundaryStates(s, returning))
         /\ \A t \in BoundaryStates(s, returning) : RouteState(program, t)
<1> DEFINE Takes1(b) ==
             /\ (b.resume # NoSite) = returning
             /\ returning => IF s.stack = <<>> THEN s.depth < CallDepth ELSE Last(s.stack).site = b.resume
           Deeper1 == IF returning /\ s.stack # <<>> THEN 0 ELSE 1
           To(b, path) == Hopped(s, path, "boundary", b, b.to, IF returning THEN Popped(s) ELSE <<>>,
                                 s.depth + Deeper1, FALSE)
<1>0. \A t \in BoundaryStates(s, returning) : \E b \in program.boundaries : Takes1(b) /\
        \E path \in Local(s.at, b.from) : t = To(b, path)
  BY DEF BoundaryStates
<1>1. ASSUME NEW t \in BoundaryStates(s, returning) PROVE RouteState(program, t)
  <2>1. PICK b \in program.boundaries : Takes1(b) /\ \E path \in Local(s.at, b.from) : t = To(b, path)
    BY <1>0
  <2>2. PICK path \in Local(s.at, b.from) : t = To(b, path)
    BY <2>1
  <2>3. path \in program.paths /\ path.from = s.at /\ path.to = b.from
    BY DEF Local
  <2> DEFINE h == [path |-> path, kind |-> "boundary", over |-> b]
  <2>4. h \in HopsOf(program)
    BY <2>3, HopsAllowed
  <2>5. /\ h.path = path /\ h.over = b /\ h.kind = "boundary" /\ Landing(h) = b.to
        /\ returning => Closing(h)
        /\ ~returning => Forgets(h)
    BY <2>1, HopCases DEF Landing
  <2>6. /\ t.at = b.to /\ t.hops = Append(s.hops, h)
        /\ t.stack = (IF returning THEN Popped(s) ELSE <<>>)
        /\ t.depth = s.depth + Deeper1
        /\ ~t.sure
    BY <2>2 DEF Hopped
  <2>7. s.depth \in Nat /\ s.stack \in Seq(program.calls)
    BY DEF RouteState
  <2> HIDE DEF h
  <2>8. CASE returning /\ s.stack # <<>>
    <3>1. t.stack = Front(s.stack) /\ t.depth = s.depth
      BY <2>6, <2>7, <2>8 DEF Popped
    <3>2. Last(s.stack) \in program.calls /\ Last(s.stack).site = b.resume
      BY <2>1, <2>7, <2>8 DEF Last
    <3>3. Closes(h, Last(s.stack)) /\ program.in[Landing(h)] = program.in[Last(s.stack).arg]
      BY <2>5, <3>2, FlowRoutesAssumption DEF Closes
    <3> QED BY <2>3, <2>4, <2>5, <2>6, <2>8, <3>1, <3>3, HopBack
  <2>9. CASE ~(returning /\ s.stack # <<>>)
    <3>1. t.stack = <<>> /\ t.depth = s.depth + 1
      BY <2>6, <2>9 DEF Popped
    <3>2. s.depth < CallDepth /\ (Forgets(h) \/ (Closing(h) /\ s.stack = <<>>))
      BY <2>1, <2>5, <2>9
    <3> QED BY <2>3, <2>4, <2>5, <2>6, <3>1, <3>2, HopOut
  <2> QED BY <2>8, <2>9
<1>2. IsFiniteSet(BoundaryStates(s, returning))
  <2> DEFINE S == program.boundaries \X program.paths
             f == [x \in S |-> To(x[1], x[2])]
  <2>1. IsFiniteSet(S)
    BY FlowRoutesAssumption, FS_Product
  <2>2. ASSUME NEW t \in BoundaryStates(s, returning) PROVE \E x \in S : t = f[x]
    <3>1. PICK b \in program.boundaries : \E path \in Local(s.at, b.from) : t = To(b, path)
      BY <1>0
    <3>2. PICK path \in Local(s.at, b.from) : t = To(b, path)
      BY <3>1
    <3>3. <<b, path>> \in S
      BY DEF Local
    <3> HIDE DEF To
    <3>4. t = f[<<b, path>>]
      BY <3>2, <3>3
    <3> QED BY <3>3, <3>4
  <2>3. DOMAIN f = S
    OBVIOUS
  <2> HIDE DEF S, f
  <2> QED BY <2>1, <2>2, <2>3, FiniteWithin
<1> QED BY <1>1, <1>2

-------------------------------------------------------------------------------
(* The queue, the flows and the theorem *)

\* A queue of states of the search.
QueueOf(p, q) == \E U : q \in Seq(U) /\ \A t \in U : RouteState(p, t)

RealFlow(p, f) ==
  /\ \A i \in DOMAIN f.hops : f.hops[i] \in HopsOf(p)
  /\ IsRoute(p, f.hops)
  /\ f.last \in p.paths /\ f.last.from = EndOf(p, f.hops) /\ f.last.to = f.sink
  /\ f.sure => Surely(f) /\ \A i \in DOMAIN f.hops : f.hops[i].kind = "call" => f.hops[i].over.sure

RouteInv ==
  /\ program \in Programs
  /\ QueueOf(program, states)
  /\ IsFiniteSet(visited) /\ Cardinality(visited) <= FlowStates
  /\ \A f \in flows : RealFlow(program, f)

LEMMA QueueIntro ==
  ASSUME NEW p, NEW U, NEW q \in Seq(U), \A t \in U : RouteState(p, t)
  PROVE  QueueOf(p, q)
BY DEF QueueOf

LEMMA EmptyQueue ==
  ASSUME NEW p
  PROVE  QueueOf(p, <<>>)
<1> DEFINE none == {}
           nothing == <<>>
<1>1. nothing \in Seq(none) /\ \A t \in none : RouteState(p, t)
  OBVIOUS
<1> HIDE DEF none, nothing
<1>2. QueueOf(p, nothing)
  BY <1>1, QueueIntro
<1> QED BY <1>2 DEF nothing

LEMMA QueueParts ==
  ASSUME NEW p, NEW q, QueueOf(p, q)
  PROVE  /\ Len(q) \in Nat
         /\ \A m \in Int : m <= Len(q) => QueueOf(p, SubSeq(q, 1, m))
         /\ q # <<>> => QueueOf(p, Tail(q)) /\ RouteState(p, Head(q))
<1>1. PICK U : q \in Seq(U) /\ \A t \in U : RouteState(p, t)
  BY DEF QueueOf
<1>2. ASSUME NEW m \in Int, m <= Len(q) PROVE SubSeq(q, 1, m) \in Seq(U)
  BY <1>1, <1>2
<1>3. q # <<>> => Tail(q) \in Seq(U) /\ Head(q) \in U
  BY <1>1
<1>4. \A m \in Int : m <= Len(q) => QueueOf(p, SubSeq(q, 1, m))
  BY <1>1, <1>2, QueueIntro
<1>5. q # <<>> => QueueOf(p, Tail(q)) /\ RouteState(p, Head(q))
  BY <1>1, <1>3, QueueIntro
<1> QED BY <1>1, <1>4, <1>5

LEMMA QueueJoined ==
  ASSUME NEW p, NEW q, NEW r, QueueOf(p, q), QueueOf(p, r)
  PROVE  QueueOf(p, q \o r)
<1>1. PICK U : q \in Seq(U) /\ \A t \in U : RouteState(p, t)
  BY DEF QueueOf
<1>2. PICK V : r \in Seq(V) /\ \A t \in V : RouteState(p, t)
  BY DEF QueueOf
<1>3. q \in Seq(U \union V) /\ r \in Seq(U \union V)
  BY <1>1, <1>2
<1>4. q \o r \in Seq(U \union V)
  BY <1>3
<1> QED BY <1>1, <1>2, <1>4 DEF QueueOf

LEMMA OnwardsQueue ==
  ASSUME program \in Programs, NEW s, RouteState(program, s)
  PROVE  QueueOf(program, Onwards(s))
<1>1. ASSUME NEW S, IsFiniteSet(S), \A t \in S : RouteState(program, t) PROVE QueueOf(program, SetToSeq(S))
  <2>1. SetToSeq(S) \in Seq(S)
    BY <1>1, ListOf
  <2> QED BY <1>1, <2>1 DEF QueueOf
<1>2. QueueOf(program, SetToSeq(ReturnStates(s)))
  BY <1>1, ReturnOnwards
<1>3. QueueOf(program, SetToSeq(BoundaryStates(s, TRUE)))
  BY <1>1, BoundaryOnwards
<1>4. QueueOf(program, SetToSeq(ReturnStates(s)) \o SetToSeq(BoundaryStates(s, TRUE)))
  BY <1>2, <1>3, QueueJoined
<1>5. CASE s.depth >= CallDepth
  <2>2. QueueOf(program, <<>>)
    BY EmptyQueue
  <2>3. QueueOf(program, (SetToSeq(ReturnStates(s)) \o SetToSeq(BoundaryStates(s, TRUE))) \o <<>>)
    BY <1>4, <2>2, QueueJoined
  <2> QED BY <1>5, <2>3 DEF Onwards
<1>6. CASE ~(s.depth >= CallDepth)
  <2>1. s.depth < CallDepth
    BY <1>6, FlowRoutesAssumption DEF RouteState
  <2>2. QueueOf(program, SetToSeq(BoundaryStates(s, FALSE)))
    BY <1>1, <2>1, BoundaryOnwards
  <2>3. QueueOf(program, SetToSeq(CallStates(s)))
    BY <1>1, <2>1, CallOnwards
  <2>4. QueueOf(program, SetToSeq(BoundaryStates(s, FALSE)) \o SetToSeq(CallStates(s)))
    BY <2>2, <2>3, QueueJoined
  <2>5. QueueOf(program, (SetToSeq(ReturnStates(s)) \o SetToSeq(BoundaryStates(s, TRUE)))
                           \o (SetToSeq(BoundaryStates(s, FALSE)) \o SetToSeq(CallStates(s))))
    BY <1>4, <2>4, QueueJoined
  <2> QED BY <1>6, <2>5 DEF Onwards
<1> QED BY <1>5, <1>6

LEMMA FlowReal ==
  ASSUME program \in Programs, NEW s, RouteState(program, s), NEW k, NEW path \in Local(s.at, k)
  PROVE  RealFlow(program, FlowTo(s, path))
<1> DEFINE f == FlowTo(s, path)
<1>1. /\ f.sink = path.to /\ f.hops = s.hops /\ f.last = path
      /\ f.sure => s.sure /\ path.sure
  BY DEF FlowTo
<1> HIDE DEF f
<1>2. path \in program.paths /\ path.from = s.at
  BY DEF Local
<1>3. /\ s.hops \in Seq(HopsOf(program)) /\ s.at = EndOf(program, s.hops) /\ s.depth \in 0..CallDepth
      /\ Connected(program, s.hops) /\ Matched(s.hops) /\ Cardinality(Deepening(s.hops)) = s.depth
      /\ s.sure => SureHops(s.hops)
  BY DEF RouteState
<1>4. IsRoute(program, f.hops)
  BY <1>1, <1>3, FlowRoutesAssumption DEF IsRoute
<1>5. DOMAIN f.hops = 1..Len(f.hops) /\ \A i \in DOMAIN f.hops : f.hops[i] \in HopsOf(program)
  BY <1>1, <1>3
<1>6. ASSUME f.sure
      PROVE  Surely(f) /\ \A i \in DOMAIN f.hops : f.hops[i].kind = "call" => f.hops[i].over.sure
  <2>1. f.last.sure /\ \A i \in 1..Len(f.hops) : SureHop(f.hops[i])
    BY <1>1, <1>3, <1>6 DEF SureHops
  <2> QED BY <1>5, <2>1 DEF Surely, SureHop
<1>7. RealFlow(program, f)
  BY <1>1, <1>2, <1>3, <1>4, <1>5, <1>6 DEF RealFlow
<1> QED BY <1>7 DEF f

LEMMA AtSourceState ==
  ASSUME NEW p
  PROVE  RouteState(p, AtSource(p))
<1> DEFINE s == AtSource(p)
<1>1. s.at = p.source /\ s.hops = <<>> /\ s.stack = <<>> /\ s.depth = 0
  BY DEF AtSource
<1> HIDE DEF s
<1>2. s.hops \in Seq(HopsOf(p)) /\ s.stack \in Seq(p.calls) /\ s.depth \in 0..CallDepth
  BY <1>1, FlowRoutesAssumption
<1>3. s.at = EndOf(p, s.hops) /\ Connected(p, s.hops) /\ Matched(s.hops)
  BY <1>1 DEF EndOf, Connected, Matched
<1>4. Cardinality(Deepening(s.hops)) = s.depth
  <2>1. Deepening(s.hops) = {}
    BY <1>1 DEF Deepening
  <2> QED BY <1>1, <2>1, FS_EmptySet
<1>5. OpenAt(s.hops, s.stack, <<>>)
  BY <1>1 DEF OpenAt
<1>6. Nested(p, s.at, s.stack) /\ SureHops(s.hops)
  BY <1>1 DEF Nested, SureHops
<1>7. RouteState(p, s)
  BY <1>2, <1>3, <1>4, <1>5, <1>6 DEF RouteState
<1> QED BY <1>7 DEF s

LEMMA RouteInvInit ==
  ASSUME RouteInit
  PROVE  RouteInv
<1>1. program \in Programs /\ states = <<AtSource(program)>> /\ visited = {}
  BY DEF RouteInit
<1>2. RouteState(program, AtSource(program))
  BY AtSourceState
<1>3. QueueOf(program, states)
  <2> DEFINE only == {AtSource(program)}
             single == <<AtSource(program)>>
  <2>1. single \in Seq(only) /\ \A t \in only : RouteState(program, t)
    BY <1>2
  <2>2. single = states
    BY <1>1
  <2> HIDE DEF only, single
  <2>3. QueueOf(program, single)
    BY <2>1, QueueIntro
  <2> QED BY <2>2, <2>3
<1>4. IsFiniteSet(visited) /\ Cardinality(visited) <= FlowStates
  BY <1>1, FS_EmptySet, FlowRoutesAssumption
<1>5. ASSUME NEW f \in flows PROVE RealFlow(program, f)
  <2>1. PICK k \in SinksAt(AtSource(program)) : \E path \in Local(program.source, k) : f = FlowTo(AtSource(program), path)
    BY DEF RouteInit
  <2>2. PICK path \in Local(program.source, k) : f = FlowTo(AtSource(program), path)
    BY <2>1
  <2>3. path \in Local(AtSource(program).at, k)
    BY DEF AtSource
  <2> QED BY <1>1, <1>2, <2>2, <2>3, FlowReal
<1> QED BY <1>1, <1>3, <1>4, <1>5 DEF RouteInv

LEMMA FittingQueue ==
  ASSUME RouteInv
  PROVE  /\ QueueOf(program, Fitting)
         /\ Fitting # <<>> => Cardinality(visited) < FlowStates
<1>1. Cardinality(visited) \in Nat /\ FlowStates \in Nat /\ RoomLeft = FlowStates - Cardinality(visited)
  BY FS_CardinalityType, FlowRoutesAssumption DEF RouteInv, RoomLeft
<1>2. QueueOf(program, states)
  BY DEF RouteInv
<1> DEFINE m == IF RoomLeft < Len(states) THEN RoomLeft ELSE Len(states)
<1>3. Len(states) \in Nat
  BY <1>2, QueueParts
<1>4. m \in Int /\ m <= Len(states) /\ m <= RoomLeft
  BY <1>1, <1>3
<1>5. Fitting = SubSeq(states, 1, m)
  BY DEF Fitting
<1> HIDE DEF m
<1>6. QueueOf(program, SubSeq(states, 1, m))
  BY <1>2, <1>4, QueueParts
<1>7. m <= 0 => SubSeq(states, 1, m) = <<>>
  BY <1>4
<1>8. Fitting # <<>> => m > 0
  BY <1>4, <1>5, <1>7
<1> QED BY <1>1, <1>4, <1>5, <1>6, <1>8

LEMMA RouteInvStep ==
  ASSUME RouteInv, [RouteNext]_routeVars
  PROVE  RouteInv'
<1>1. /\ program \in Programs /\ QueueOf(program, states)
      /\ IsFiniteSet(visited) /\ Cardinality(visited) <= FlowStates
      /\ \A f \in flows : RealFlow(program, f)
  BY DEF RouteInv
<1>2. QueueOf(program, Fitting) /\ (Fitting # <<>> => Cardinality(visited) < FlowStates)
  BY FittingQueue
<1>3. CASE Exhausted
  <2>2. QueueOf(program, <<>>)
    BY EmptyQueue
  <2> QED BY <1>1, <1>3, <2>2 DEF Exhausted, RouteInv
<1>4. CASE SeenBefore
  <2>1. Fitting # <<>> /\ states' = Tail(Fitting) /\ UNCHANGED <<program, visited, flows>>
    BY <1>4 DEF SeenBefore
  <2>2. QueueOf(program, Tail(Fitting))
    BY <1>2, <2>1, QueueParts
  <2> QED BY <1>1, <2>1, <2>2 DEF RouteInv
<1>5. CASE VisitState
  <2> DEFINE s == Head(Fitting)
             here == IF s.hops = <<>> THEN {} ELSE SinksAt(s)
  <2>1. /\ Fitting # <<>> /\ visited' = visited \union {Key(s)} /\ Key(s) \notin visited
        /\ flows' = flows \union UNION {{FlowTo(s, path) : path \in Local(s.at, k)} : k \in {x \in here : ~Enough(x)}}
        /\ states' = Tail(Fitting) \o Onwards(s)
        /\ program' = program
    BY <1>5 DEF VisitState
  <2>2. RouteState(program, s) /\ QueueOf(program, Tail(Fitting))
    BY <1>2, <2>1, QueueParts
  <2> HIDE DEF s, here
  <2>3. QueueOf(program, Onwards(s))
    BY <1>1, <2>2, OnwardsQueue
  <2>4. QueueOf(program, states')
    BY <2>1, <2>2, <2>3, QueueJoined
  <2>5. IsFiniteSet(visited') /\ Cardinality(visited') <= FlowStates
    <3>1. IsFiniteSet(visited \union {Key(s)}) /\ Cardinality(visited \union {Key(s)}) = Cardinality(visited) + 1
      BY <1>1, <2>1, FS_AddElement
    <3>2. Cardinality(visited) \in Nat /\ FlowStates \in Nat
      BY <1>1, FS_CardinalityType, FlowRoutesAssumption
    <3> QED BY <1>2, <2>1, <3>1, <3>2
  <2>6. ASSUME NEW f \in flows' PROVE RealFlow(program, f)
    <3>1. CASE f \in flows
      BY <1>1, <3>1
    <3>2. CASE f \notin flows
      <4>1. PICK k \in {x \in here : ~Enough(x)} : \E path \in Local(s.at, k) : f = FlowTo(s, path)
        BY <2>1, <3>2
      <4> QED BY <1>1, <2>2, <4>1, FlowReal
    <3> QED BY <3>1, <3>2
  <2> QED BY <1>1, <2>1, <2>4, <2>5, <2>6 DEF RouteInv
<1>6. CASE Retain
  BY <1>1, <1>6 DEF Retain, RouteInv
<1>7. CASE UNCHANGED routeVars
  BY <1>1, <1>7 DEF routeVars, RouteInv
<1> QED BY <1>3, <1>4, <1>5, <1>6, <1>7 DEF RouteNext

\* In every state of _interprocedural_flows, for every program and all limits: what
\* is queued are routes of the program with their stack of open calls and their
\* depth, every flow is one that goes on to its sink, and no more states were
\* visited than max_search_states.
THEOREM RouteInvariance == RouteSpec => []RouteInv
<1>1. RouteInit => RouteInv
  BY RouteInvInit
<1>2. RouteInv /\ [RouteNext]_routeVars => RouteInv'
  BY RouteInvStep
<1> QED BY <1>1, <1>2, PTL DEF RouteSpec

LEMMA RouteInvFlows ==
  ASSUME RouteInv
  PROVE  FlowsAreReal
<1>1. Cardinality(visited) <= FlowStates /\ \A f \in flows : RealFlow(program, f)
  BY DEF RouteInv
<1>2. ASSUME NEW f \in flows
      PROVE  f.last \in Local(IF f.hops = <<>> THEN program.source ELSE Landing(Last(f.hops)), f.sink)
  BY <1>1 DEF RealFlow, Local, EndOf
<1> QED BY <1>1, <1>2 DEF FlowsAreReal, RealFlow

\* What the search for interprocedural flows finds is there in the program, whatever
\* limit was hit: a flow hangs together, comes back only to where it was called
\* from, keeps the limits, and one given as certain takes no uncertain step.
THEOREM FlowsFollowRoutes == RouteSpec => []FlowsAreReal
<1>1. RouteInv => FlowsAreReal
  BY RouteInvFlows
<1> QED BY <1>1, RouteInvariance, PTL

-------------------------------------------------------------------------------
(* Routes that show the same *)

\* The other way round: what a hop of the program is.
LEMMA HopShape ==
  ASSUME NEW p, NEW h \in HopsOf(p)
  PROVE  /\ h.path \in p.paths
         /\ \/ h.kind = "call" /\ h.over \in p.calls /\ h.path.to = h.over.arg
            \/ /\ h.kind = "return" /\ h.over \in p.calls /\ h.over.result # NoPoint
               /\ (\E r \in p.returns : h.path.to = r.at) /\ p.in[h.path.to] = p.in[h.over.param]
            \/ h.kind = "boundary" /\ h.over \in p.boundaries /\ h.path.to = h.over.from
<1> DEFINE CallHops(c) == {[path |-> x, kind |-> "call", over |-> c] : x \in {y \in p.paths : y.to = c.arg}}
           ReturnHops(c) == {[path |-> x, kind |-> "return", over |-> c] :
                               x \in {y \in p.paths : /\ y.to \in {r.at : r \in p.returns}
                                                      /\ p.in[y.to] = p.in[c.param]}}
           BoundaryHops(b) == {[path |-> x, kind |-> "boundary", over |-> b] : x \in {y \in p.paths : y.to = b.from}}
           A == UNION {CallHops(c) : c \in p.calls}
           B == UNION {ReturnHops(c) : c \in {x \in p.calls : x.result # NoPoint}}
           C == UNION {BoundaryHops(b) : b \in p.boundaries}
<1>1. HopsOf(p) = A \union B \union C
  BY DEF HopsOf
<1>2. CASE h \in A
  <2>1. PICK c \in p.calls : h \in CallHops(c)
    BY <1>2
  <2>2. PICK x \in p.paths : x.to = c.arg /\ h = [path |-> x, kind |-> "call", over |-> c]
    BY <2>1
  <2> QED BY <2>2
<1>3. CASE h \in B
  <2>1. PICK c \in p.calls : c.result # NoPoint /\ h \in ReturnHops(c)
    BY <1>3
  <2>2. PICK x \in p.paths : /\ x.to \in {r.at : r \in p.returns} /\ p.in[x.to] = p.in[c.param]
                             /\ h = [path |-> x, kind |-> "return", over |-> c]
    BY <2>1
  <2>3. h.path = x /\ h.kind = "return" /\ h.over = c
    BY <2>2
  <2> QED BY <2>1, <2>2, <2>3
<1>4. CASE h \in C
  <2>1. PICK b \in p.boundaries : h \in BoundaryHops(b)
    BY <1>4
  <2>2. PICK x \in p.paths : x.to = b.from /\ h = [path |-> x, kind |-> "boundary", over |-> b]
    BY <2>1
  <2> QED BY <2>2
<1> HIDE DEF A, B, C
<1> QED BY <1>1, <1>2, <1>3, <1>4

\* Two routes over the same calls, returns and boundaries.
SameCourse(a, b) ==
  /\ Len(a) = Len(b) /\ DOMAIN a = 1..Len(a) /\ DOMAIN b = 1..Len(a) /\ Len(a) \in Nat
  /\ \A i \in 1..Len(a) : a[i].kind = b[i].kind /\ a[i].over = b[i].over /\ a[i].path.to = b[i].path.to

LEMMA SameInterval ==
  ASSUME NEW a \in Nat, NEW b \in Nat, 1..a = 1..b
  PROVE  a = b
<1>1. a \in 1..a \/ a = 0
  OBVIOUS
<1>2. b \in 1..b \/ b = 0
  OBVIOUS
<1>3. a \in 1..b \/ a = 0
  BY <1>1
<1>4. b \in 1..a \/ b = 0
  BY <1>2
<1>5. a <= b /\ b <= a
  BY <1>3, <1>4
<1> QED BY <1>5

LEMMA ShownCourse ==
  ASSUME NEW p \in Programs, NEW a \in Seq(HopsOf(p)), NEW b \in Seq(HopsOf(p)), Shown(a) = Shown(b)
  PROVE  SameCourse(a, b)
<1>1. /\ DOMAIN a = 1..Len(a) /\ DOMAIN b = 1..Len(b) /\ Len(a) \in Nat /\ Len(b) \in Nat
      /\ \A i \in 1..Len(a) : a[i] \in HopsOf(p)
      /\ \A i \in 1..Len(b) : b[i] \in HopsOf(p)
  OBVIOUS
<1>2. /\ DOMAIN Shown(a) = DOMAIN a /\ DOMAIN Shown(b) = DOMAIN b
      /\ \A i \in DOMAIN a : Shown(a)[i] = <<a[i].path.steps, a[i].path.to, a[i].kind, a[i].over.no>>
      /\ \A i \in DOMAIN b : Shown(b)[i] = <<b[i].path.steps, b[i].path.to, b[i].kind, b[i].over.no>>
  BY DEF Shown
<1>3. Len(a) = Len(b)
  <2>1. 1..Len(a) = 1..Len(b)
    BY <1>1, <1>2
  <2> QED BY <1>1, <2>1, SameInterval
<1>4. ASSUME NEW i \in 1..Len(a)
      PROVE  a[i].kind = b[i].kind /\ a[i].over = b[i].over /\ a[i].path.to = b[i].path.to
  <2>1. <<a[i].path.steps, a[i].path.to, a[i].kind, a[i].over.no>> = <<b[i].path.steps, b[i].path.to, b[i].kind, b[i].over.no>>
    BY <1>1, <1>2, <1>3
  <2>2. a[i].path.to = b[i].path.to /\ a[i].kind = b[i].kind /\ a[i].over.no = b[i].over.no
    BY <2>1
  <2>3. a[i] \in HopsOf(p) /\ b[i] \in HopsOf(p)
    BY <1>1, <1>3
  <2>4. /\ a[i].kind \in {"call", "return"} => a[i].over \in p.calls /\ b[i].over \in p.calls
        /\ a[i].kind = "boundary" => a[i].over \in p.boundaries /\ b[i].over \in p.boundaries
        /\ a[i].kind \in {"call", "return", "boundary"}
    BY <2>2, <2>3, HopShape
  <2> QED BY <2>2, <2>4, FlowRoutesAssumption
<1> QED BY <1>1, <1>3, <1>4 DEF SameCourse

LEMMA CourseShown ==
  ASSUME NEW E, NEW a \in Seq(E), NEW b \in Seq(E), NEW g \in E, Shown(a) = Shown(b)
  PROVE  Shown(Append(a, g)) = Shown(Append(b, g))
<1> DEFINE One(h) == <<h.path.steps, h.path.to, h.kind, h.over.no>>
           c == Append(a, g)
           d == Append(b, g)
<1>1. /\ Len(a) \in Nat /\ Len(b) \in Nat /\ DOMAIN a = 1..Len(a) /\ DOMAIN b = 1..Len(b)
      /\ DOMAIN c = 1..Len(a) + 1 /\ DOMAIN d = 1..Len(b) + 1
      /\ c[Len(a) + 1] = g /\ d[Len(b) + 1] = g
      /\ (\A i \in 1..Len(a) : c[i] = a[i]) /\ \A i \in 1..Len(b) : d[i] = b[i]
  OBVIOUS
<1>2. /\ DOMAIN Shown(a) = DOMAIN a /\ DOMAIN Shown(b) = DOMAIN b
      /\ \A i \in DOMAIN a : Shown(a)[i] = One(a[i])
      /\ \A i \in DOMAIN b : Shown(b)[i] = One(b[i])
  BY DEF Shown
<1>3. Len(a) = Len(b)
  <2>1. 1..Len(a) = 1..Len(b)
    BY <1>1, <1>2
  <2> QED BY <1>1, <2>1, SameInterval
<1> HIDE DEF One, c, d
<1>4. \A i \in 1..Len(a) + 1 : One(c[i]) = One(d[i])
  <2> TAKE i \in 1..Len(a) + 1
  <2>1. CASE i = Len(a) + 1
    BY <1>1, <1>3, <2>1
  <2>2. CASE i # Len(a) + 1
    <3>1. i \in 1..Len(a)
      BY <1>1, <2>2
    <3> QED BY <1>1, <1>2, <1>3, <3>1
  <2> QED BY <2>1, <2>2
<1>5. Shown(c) = [i \in 1..Len(a) + 1 |-> One(c[i])] /\ Shown(d) = [i \in 1..Len(a) + 1 |-> One(d[i])]
  BY <1>1, <1>3 DEF Shown, One
<1>6. Shown(c) = Shown(d)
  BY <1>4, <1>5
<1> QED BY <1>6 DEF c, d

\* They are open alike, deep alike and end alike.
LEMMA CourseOpen ==
  ASSUME NEW a, NEW b, SameCourse(a, b), NEW stack, NEW pos, OpenAt(a, stack, pos)
  PROVE  OpenAt(b, stack, pos)
<1> DEFINE n == Len(a)
<1>1. /\ Len(b) = n /\ n \in Nat
      /\ \A i \in 1..n : /\ Calling(a[i]) <=> Calling(b[i])
                         /\ Closing(a[i]) <=> Closing(b[i])
                         /\ Forgets(a[i]) <=> Forgets(b[i])
                         /\ a[i].over = b[i].over
  BY DEF SameCourse, Calling, Closing, Forgets
<1> HIDE DEF n
<1>2. \A k \in 1..n : CallsFrom(a, k) = CallsFrom(b, k) /\ ClosingsFrom(a, k) = ClosingsFrom(b, k)
                      /\ (Remembered(a, k) <=> Remembered(b, k))
  <2> TAKE k \in 1..n
  <2>1. \A x \in k..n : x \in 1..n
    BY <1>1
  <2> QED BY <1>1, <2>1 DEF CallsFrom, ClosingsFrom, Remembered, n
<1>3. \A k \in 1..n : Level(a, k) = Level(b, k)
  BY <1>2 DEF Level
<1>4. pos \in Seq(1..n) /\ Len(pos) = Len(stack) /\ \A m \in 1..Len(stack) : pos[m] \in 1..n
  <2>1. pos \in Seq(1..n) /\ Len(pos) = Len(stack)
    BY DEF OpenAt, n
  <2>2. ASSUME NEW m \in 1..Len(pos) PROVE pos[m] \in 1..n
    BY <2>1, ElementOfSeq
  <2> QED BY <2>1, <2>2
<1> QED BY <1>1, <1>2, <1>3, <1>4 DEF OpenAt, n

LEMMA CourseDeep ==
  ASSUME NEW a, NEW b, SameCourse(a, b)
  PROVE  Deepening(a) = Deepening(b)
<1>1. /\ DOMAIN a = 1..Len(a) /\ DOMAIN b = 1..Len(a) /\ Len(a) \in Nat
      /\ \A i \in 1..Len(a) : a[i].kind = b[i].kind /\ (Closing(a[i]) <=> Closing(b[i]))
  BY DEF SameCourse, Closing
<1>2. ASSUME NEW j \in 1..Len(a) PROVE Partners(a, j) = Partners(b, j)
  <2>1. ASSUME NEW i \in 1..j - 1
        PROVE  /\ {k \in i + 1..j - 1 : a[k].kind = "call"} = {k \in i + 1..j - 1 : b[k].kind = "call"}
               /\ {k \in i + 1..j - 1 : Closing(a[k])} = {k \in i + 1..j - 1 : Closing(b[k])}
               /\ \A k \in i..j - 1 : a[k].kind = b[k].kind /\ (Closing(a[k]) <=> Closing(b[k]))
               /\ a[i].kind = b[i].kind
    <3>1. \A k \in i..j - 1 : k \in 1..Len(a)
      BY <1>1
    <3>2. \A k \in i + 1..j - 1 : k \in 1..Len(a)
      BY <1>1
    <3>3. i \in 1..Len(a)
      BY <1>1
    <3> QED BY <1>1, <3>1, <3>2, <3>3
  <2> QED BY <2>1 DEF Partners, Count
<1> QED BY <1>1, <1>2 DEF Deepening

LEMMA CourseEnd ==
  ASSUME NEW p, NEW E, NEW a \in Seq(E), NEW b \in Seq(E), SameCourse(a, b)
  PROVE  EndOf(p, a) = EndOf(p, b)
<1>1. Len(a) = Len(b) /\ Len(a) \in Nat /\ (a = <<>> <=> Len(a) = 0) /\ (b = <<>> <=> Len(b) = 0)
  BY EmptySeq DEF SameCourse
<1>2. CASE Len(a) = 0
  BY <1>1, <1>2 DEF EndOf
<1>3. CASE Len(a) # 0
  <2>1. Len(a) \in 1..Len(a)
    BY <1>1, <1>3
  <2>2. a[Len(a)].kind = b[Len(a)].kind /\ a[Len(a)].over = b[Len(a)].over
    BY <2>1 DEF SameCourse
  <2>3. Last(a) = a[Len(a)] /\ Last(b) = b[Len(a)]
    BY <1>1 DEF Last
  <2> QED BY <1>1, <1>3, <2>2, <2>3 DEF EndOf, Landing
<1> QED BY <1>2, <1>3

Like(s, r) == [at |-> s.at, hops |-> r, stack |-> s.stack, depth |-> s.depth, sure |-> FALSE]

\* A state stands for every route that shows what its own shows.
LEMMA StandsFor ==
  ASSUME NEW p \in Programs, NEW s, RouteState(p, s), NEW r \in Seq(HopsOf(p)), IsRoute(p, r),
         Shown(r) = Shown(s.hops)
  PROVE  RouteState(p, Like(s, r))
<1> DEFINE t == Like(s, r)
<1>1. t.at = s.at /\ t.hops = r /\ t.stack = s.stack /\ t.depth = s.depth /\ t.sure = FALSE
  BY DEF Like
<1> HIDE DEF t
<1>2. /\ s.hops \in Seq(HopsOf(p)) /\ s.stack \in Seq(p.calls) /\ s.depth \in 0..CallDepth
      /\ s.at = EndOf(p, s.hops) /\ Cardinality(Deepening(s.hops)) = s.depth
      /\ Nested(p, s.at, s.stack)
  BY DEF RouteState
<1>3. PICK pos : OpenAt(s.hops, s.stack, pos)
  BY DEF RouteState
<1>4. SameCourse(s.hops, r)
  BY <1>2, ShownCourse
<1>5. OpenAt(r, s.stack, pos)
  BY <1>3, <1>4, CourseOpen
<1>6. Deepening(r) = Deepening(s.hops)
  BY <1>4, CourseDeep
<1>7. EndOf(p, r) = EndOf(p, s.hops)
  BY <1>2, <1>4, CourseEnd
<1>8. Connected(p, r) /\ Matched(r)
  BY DEF IsRoute
<1>9. RouteState(p, t)
  BY <1>1, <1>2, <1>5, <1>6, <1>7, <1>8 DEF RouteState
<1> QED BY <1>9 DEF t

NextStates(s) ==
  ReturnStates(s) \union BoundaryStates(s, TRUE)
    \union (IF s.depth >= CallDepth THEN {} ELSE BoundaryStates(s, FALSE) \union CallStates(s))

\* A route that goes on from what a state stands for goes on from that state.
LEMMA GoesOn ==
  ASSUME program \in Programs, NEW s, RouteState(program, s), NEW r \in Seq(HopsOf(program)),
         NEW h \in HopsOf(program), IsRoute(program, r), IsRoute(program, Append(r, h)),
         Shown(r) = Shown(s.hops)
  PROVE  \E u \in NextStates(s) : Shown(u.hops) = Shown(Append(r, h))
<1> DEFINE G == Append(r, h)
           n == Len(r)
           P == Partners(G, n + 1)
<1>1. RouteState(program, Like(s, r))
  BY StandsFor
<1>2. /\ Like(s, r).at = s.at /\ Like(s, r).hops = r /\ Like(s, r).stack = s.stack /\ Like(s, r).depth = s.depth
  BY DEF Like
<1>3. /\ s.at = EndOf(program, r) /\ Cardinality(Deepening(r)) = s.depth
      /\ \E pos : OpenAt(r, s.stack, pos)
  BY <1>1, <1>2 DEF RouteState
<1>4. s.hops \in Seq(HopsOf(program)) /\ s.stack \in Seq(program.calls) /\ s.depth \in 0..CallDepth /\ s.depth \in Nat
      /\ CallDepth \in Nat
  BY FlowRoutesAssumption DEF RouteState
<1>5. PICK pos : OpenAt(r, s.stack, pos)
  BY <1>3
<1>6. /\ s.stack = <<>> => P = {}
      /\ s.stack # <<>> => P # {} /\ G[Partner(G, n + 1)].over = Last(s.stack)
  <2>1. TopCloses(r, h, s.stack)
    BY <1>4, <1>5, ClosesTheTop
  <2> QED BY <2>1 DEF TopCloses
<1>7. /\ Connected(program, G) /\ Matched(G) /\ Cardinality(Deepening(G)) <= CallDepth
  BY DEF IsRoute
<1>8. Cardinality(Deepening(G)) = s.depth + OneIf(~(Closing(h) /\ P # {}))
  BY <1>3, DeepeningAppend
<1>9. n \in Nat /\ DOMAIN G = 1..n + 1 /\ G[n + 1] = h /\ n + 1 \in 1..n + 1 /\ (\A i \in 1..n : G[i] = r[i])
      /\ (r = <<>> <=> n = 0)
  OBVIOUS
<1> HIDE DEF G, P, n
<1>10. h.path \in program.paths /\ h.path.from = s.at
  <2>1. h.path \in program.paths
    BY HopShape
  <2>2. h.path.from = IF n + 1 = 1 THEN program.source ELSE Landing(G[n + 1 - 1])
    BY <1>7, <1>9 DEF Connected
  <2>3. CASE r = <<>>
    <3>1. n + 1 = 1
      BY <1>9, <2>3
    <3> QED BY <1>3, <2>1, <2>2, <2>3, <3>1 DEF EndOf
  <2>4. CASE r # <<>>
    <3>1. n + 1 # 1 /\ n + 1 - 1 = n /\ n \in 1..n
      BY <1>9, <2>4
    <3>2. Last(r) = r[n]
      BY DEF Last, n
    <3> QED BY <1>3, <1>9, <2>1, <2>2, <2>4, <3>1, <3>2 DEF EndOf
  <2> QED BY <2>3, <2>4
<1>11. Closing(h) /\ s.stack # <<>> => Closes(h, Last(s.stack))
  <2> SUFFICES ASSUME Closing(h), s.stack # <<>> PROVE Closes(h, Last(s.stack))
    OBVIOUS
  <2>1. P # {} /\ G[Partner(G, n + 1)].over = Last(s.stack)
    BY <1>6
  <2>2. Closes(G[n + 1], G[Partner(G, n + 1)].over)
    BY <1>7, <1>9, <2>1 DEF Matched, Closes, P
  <2> QED BY <1>9, <2>1, <2>2
<1>12. ~(Closing(h) /\ s.stack # <<>>) => s.depth < CallDepth
  <2> SUFFICES ASSUME ~(Closing(h) /\ s.stack # <<>>) PROVE s.depth < CallDepth
    OBVIOUS
  <2>1. ~(Closing(h) /\ P # {})
    BY <1>6
  <2>2. s.depth + 1 <= CallDepth
    BY <1>7, <1>8, <2>1 DEF OneIf
  <2> QED BY <1>4, <2>2
<1>13. \A u : u.hops = Append(s.hops, [path |-> h.path, kind |-> h.kind, over |-> h.over]) => Shown(u.hops) = Shown(G)
  <2> DEFINE g == [path |-> h.path, kind |-> h.kind, over |-> h.over]
  <2>1. g \in HopsOf(program)
    BY HopShape, HopsAllowed
  <2>2. g.path = h.path /\ g.kind = h.kind /\ g.over = h.over
    OBVIOUS
  <2> HIDE DEF g
  <2>3. Shown(Append(s.hops, g)) = Shown(Append(r, g))
    BY <1>4, <2>1, CourseShown
  <2>4. Shown(Append(r, g)) = Shown(G)
    <3>1. /\ DOMAIN Append(r, g) = 1..n + 1 /\ Append(r, g)[n + 1] = g
          /\ \A i \in 1..n : Append(r, g)[i] = r[i]
      BY <2>1 DEF n
    <3> DEFINE One(e) == <<e.path.steps, e.path.to, e.kind, e.over.no>>
               K == Append(r, g)
    <3>2. One(g) = One(h)
      BY <2>2
    <3>3. Shown(K) = [i \in 1..n + 1 |-> One(K[i])] /\ Shown(G) = [i \in 1..n + 1 |-> One(G[i])]
      BY <1>9, <3>1 DEF Shown
    <3> HIDE DEF K, One
    <3>4. \A i \in 1..n + 1 : One(K[i]) = One(G[i])
      <4> TAKE i \in 1..n + 1
      <4>1. i = n + 1 \/ i \in 1..n
        BY <1>9
      <4> QED BY <1>9, <3>1, <3>2, <4>1 DEF K
    <3>5. Shown(K) = Shown(G)
      BY <3>3, <3>4
    <3> QED BY <3>5 DEF K
  <2> QED BY <2>3, <2>4 DEF g
<1>14. Calling(h) \/ Closing(h) => program.in[h.path.from] = program.in[h.path.to]
  BY <1>10, FlowRoutesAssumption
<1>15. CASE h.kind = "call"
  <2>1. h.over \in program.calls /\ h.path.to = h.over.arg
    BY <1>15, HopShape
  <2>2. s.depth < CallDepth /\ ~(s.depth >= CallDepth)
    BY <1>4, <1>12, <1>15 DEF Closing
  <2> DEFINE u == Hopped(s, h.path, "call", h.over, h.over.param, Append(s.stack, h.over), s.depth + 1, h.over.sure)
  <2>3. h.path \in Local(s.at, h.over.arg)
    BY <1>10, <2>1 DEF Local
  <2>4. u \in CallStates(s)
    <3> DEFINE F(c) == {Hopped(s, x, "call", c, c.param, Append(s.stack, c), s.depth + 1, c.sure) : x \in Local(s.at, c.arg)}
    <3>1. CallStates(s) = UNION {F(c) : c \in program.calls}
      BY DEF CallStates
    <3>2. u \in F(h.over)
      BY <2>3
    <3> HIDE DEF F, u
    <3> QED BY <2>1, <3>1, <3>2
  <2>5. u.hops = Append(s.hops, [path |-> h.path, kind |-> h.kind, over |-> h.over])
    <3>1. u.hops = Append(s.hops, [path |-> h.path, kind |-> "call", over |-> h.over])
      BY DEF Hopped
    <3>2. [path |-> h.path, kind |-> "call", over |-> h.over] = [path |-> h.path, kind |-> h.kind, over |-> h.over]
      BY <1>15
    <3> HIDE DEF u
    <3> QED BY <3>1, <3>2
  <2> HIDE DEF u
  <2>6. Shown(u.hops) = Shown(G)
    BY <1>13, <2>5
  <2>7. u \in NextStates(s)
    BY <2>2, <2>4 DEF NextStates
  <2> QED BY <2>6, <2>7 DEF G
<1>16. CASE h.kind = "return"
  <2>1. /\ h.over \in program.calls /\ h.over.result # NoPoint /\ program.in[h.path.to] = program.in[h.over.param]
        /\ Closing(h)
    BY <1>16, HopShape DEF Closing
  <2>2. PICK q \in program.returns : h.path.to = q.at
    BY <1>16, HopShape
  <2>3. h.over \in ReturnsTo(s)
    <3>1. CASE s.stack # <<>>
      <4>1. h.over = Last(s.stack)
        BY <1>11, <1>16, <2>1, <3>1 DEF Closes
      <4> QED BY <2>1, <3>1, <4>1 DEF ReturnsTo
    <3>2. CASE s.stack = <<>>
      <4>1. s.depth < CallDepth /\ program.in[h.over.param] = program.in[s.at]
        BY <1>10, <1>12, <1>14, <2>1, <3>2
      <4> QED BY <2>1, <3>2, <4>1 DEF ReturnsTo, Of
    <3> QED BY <3>1, <3>2
  <2> DEFINE Surely2(c, e) == e.sure /\ c.slot /\ (c.sure \/ s.stack # <<>>)
             Deeper2 == IF s.stack = <<>> THEN 1 ELSE 0
             u == Hopped(s, h.path, "return", h.over, h.over.result, Popped(s), s.depth + Deeper2, Surely2(h.over, q))
  <2>4. h.path \in Local(s.at, q.at)
    BY <1>10, <2>2 DEF Local
  <2>5. u \in ReturnStates(s)
    <3> DEFINE To(c, e, x) == Hopped(s, x, "return", c, c.result, Popped(s), s.depth + Deeper2, Surely2(c, e))
               F(c, e) == {To(c, e, x) : x \in Local(s.at, e.at)}
    <3>1. ReturnStates(s) = UNION {F(c, e) : c \in ReturnsTo(s), e \in program.returns}
      BY DEF ReturnStates
    <3>2. u \in F(h.over, q)
      BY <2>4
    <3> HIDE DEF F, u
    <3> QED BY <2>3, <3>1, <3>2
  <2>6. u.hops = Append(s.hops, [path |-> h.path, kind |-> h.kind, over |-> h.over])
    <3>1. u.hops = Append(s.hops, [path |-> h.path, kind |-> "return", over |-> h.over])
      BY DEF Hopped
    <3>2. [path |-> h.path, kind |-> "return", over |-> h.over] = [path |-> h.path, kind |-> h.kind, over |-> h.over]
      BY <1>16
    <3> HIDE DEF u
    <3> QED BY <3>1, <3>2
  <2> HIDE DEF u
  <2>7. Shown(u.hops) = Shown(G)
    BY <1>13, <2>6
  <2> QED BY <2>5, <2>7 DEF NextStates, G
<1>17. CASE h.kind = "boundary"
  <2>1. h.over \in program.boundaries /\ h.path.to = h.over.from
    BY <1>17, HopShape
  <2>2. h.path \in Local(s.at, h.over.from)
    BY <1>10, <2>1 DEF Local
  <2> DEFINE Takes2(b, returning) ==
               /\ (b.resume # NoSite) = returning
               /\ returning => IF s.stack = <<>> THEN s.depth < CallDepth ELSE Last(s.stack).site = b.resume
             Deeper2(returning) == IF returning /\ s.stack # <<>> THEN 0 ELSE 1
             To(b, x, returning) == Hopped(s, x, "boundary", b, b.to, IF returning THEN Popped(s) ELSE <<>>,
                                           s.depth + Deeper2(returning), FALSE)
  <2>3. ASSUME NEW returning \in BOOLEAN, Takes2(h.over, returning)
        PROVE  To(h.over, h.path, returning) \in BoundaryStates(s, returning)
    <3> DEFINE F(b) == {To(b, x, returning) : x \in Local(s.at, b.from)}
    <3>1. BoundaryStates(s, returning) = UNION {F(b) : b \in {x \in program.boundaries : Takes2(x, returning)}}
      BY DEF BoundaryStates
    <3>2. To(h.over, h.path, returning) \in F(h.over)
      BY <2>2
    <3>3. h.over \in {x \in program.boundaries : Takes2(x, returning)}
      BY <2>1, <2>3
    <3> HIDE DEF F, To, Takes2
    <3> QED BY <3>1, <3>2, <3>3
  <2>4. ASSUME NEW returning \in BOOLEAN PROVE Shown(To(h.over, h.path, returning).hops) = Shown(G)
    <3> DEFINE u == To(h.over, h.path, returning)
    <3>1. u.hops = Append(s.hops, [path |-> h.path, kind |-> h.kind, over |-> h.over])
      <4>1. u.hops = Append(s.hops, [path |-> h.path, kind |-> "boundary", over |-> h.over])
        BY DEF Hopped
      <4>2. [path |-> h.path, kind |-> "boundary", over |-> h.over] = [path |-> h.path, kind |-> h.kind, over |-> h.over]
        BY <1>17
      <4> HIDE DEF u
      <4> QED BY <4>1, <4>2
    <3> HIDE DEF u
    <3>2. Shown(u.hops) = Shown(G)
      BY <1>13, <3>1
    <3> QED BY <3>2 DEF u
  <2>5. CASE h.over.resume # NoSite
    <3>1. Closing(h)
      BY <1>17, <2>5 DEF Closing
    <3>2. Takes2(h.over, TRUE)
      <4>1. s.stack # <<>> => Last(s.stack).site = h.over.resume
        BY <1>11, <1>17, <3>1 DEF Closes
      <4>2. s.stack = <<>> => s.depth < CallDepth
        BY <1>12
      <4> QED BY <2>5, <4>1, <4>2
    <3> HIDE DEF To, Takes2
    <3> QED BY <2>3, <2>4, <3>2 DEF NextStates, G
  <2>6. CASE h.over.resume = NoSite
    <3>1. s.depth < CallDepth /\ ~(s.depth >= CallDepth)
      BY <1>4, <1>12, <1>17, <2>6 DEF Closing
    <3>2. Takes2(h.over, FALSE)
      BY <2>6
    <3> HIDE DEF To, Takes2
    <3> QED BY <2>3, <2>4, <3>1, <3>2 DEF NextStates, G
  <2> QED BY <2>5, <2>6
<1> QED BY <1>15, <1>16, <1>17, HopShape

-------------------------------------------------------------------------------
(* The routes of a program *)

Steps(p, S) == {r \in {Append(x[1], x[2]) : x \in S \X HopsOf(p)} : IsRoute(p, r)}

\* The routes of every length, as RoutesIn builds them.
LEMMA RoutesByLength ==
  ASSUME NEW p, NEW r \in RoutesIn(p)
  PROVE  \E R : /\ R = [n \in Nat |-> IF n = 0 THEN {<<>>} ELSE Steps(p, R[n - 1])]
                /\ \E n \in Nat : r \in R[n]
<1> DEFINE X == SUBSET Seq(HopsOf(p))
           g == [S \in X |-> Steps(p, S)]
           only == {<<>>}
           Fits(R) == R = [n \in Nat |-> IF n = 0 THEN {<<>>}
                             ELSE {t \in {Append(x[1], x[2]) : x \in R[n - 1] \X HopsOf(p)} : IsRoute(p, t)}]
<1>1. g \in [X -> X]
  <2>1. ASSUME NEW S \in X PROVE Steps(p, S) \in X
    <3>1. ASSUME NEW t \in Steps(p, S) PROVE t \in Seq(HopsOf(p))
      <4>1. PICK x \in S \X HopsOf(p) : t = Append(x[1], x[2])
        BY DEF Steps
      <4>2. x[1] \in Seq(HopsOf(p)) /\ x[2] \in HopsOf(p)
        OBVIOUS
      <4> QED BY <4>1, <4>2, AppendOf
    <3> QED BY <3>1
  <2> QED BY <2>1
<1>2. only \in X
  OBVIOUS
<1> HIDE DEF X, g, only
<1>0. PICK Q : Sequel(X, g, only, Q)
  BY <1>1, <1>2, Iteration
<1>3. Q \in [Nat -> X] /\ Q[0] = only /\ \A n \in Nat : Q[n + 1] = g[Q[n]]
  BY <1>0 DEF Sequel
<1>4. Fits(Q)
  <2>1. ASSUME NEW n \in Nat, n # 0 PROVE Q[n] = Steps(p, Q[n - 1])
    <3>1. n - 1 \in Nat /\ n - 1 + 1 = n
      BY <2>1
    <3>2. Q[n] = g[Q[n - 1]] /\ Q[n - 1] \in X
      BY <1>3, <3>1
    <3> QED BY <3>2 DEF g
  <2>2. Q = [n \in Nat |-> IF n = 0 THEN {<<>>} ELSE Steps(p, Q[n - 1])]
    BY <1>3, <2>1 DEF only
  <2> QED BY <2>2 DEF Steps
<1> DEFINE R == CHOOSE R : Fits(R)
<1>5. Fits(R)
  <2> HIDE DEF Fits
  <2> QED BY <1>4
<1>6. RoutesIn(p) = UNION {R[n] : n \in 0..2 * CallDepth}
  BY DEF RoutesIn
<1>7. R = [n \in Nat |-> IF n = 0 THEN {<<>>} ELSE Steps(p, R[n - 1])]
  <2> HIDE DEF R
  <2> QED BY <1>5 DEF Steps
<1> HIDE DEF R, Fits
<1>8. \E n \in Nat : r \in R[n]
  BY <1>6
<1> QED BY <1>7, <1>8

\* What holds of the empty route and of every route one hop longer holds of all.
LEMMA RoutesGrow ==
  ASSUME NEW p, NEW T, <<>> \in T,
         \A r \in Seq(HopsOf(p)), h \in HopsOf(p) :
            r \in T /\ IsRoute(p, r) /\ IsRoute(p, Append(r, h)) => Append(r, h) \in T,
         NEW r \in RoutesIn(p)
  PROVE  r \in T /\ r \in Seq(HopsOf(p)) /\ IsRoute(p, r)
<1> DEFINE Good(t) == t \in T /\ t \in Seq(HopsOf(p)) /\ IsRoute(p, t)
<1>1. PICK R : /\ R = [n \in Nat |-> IF n = 0 THEN {<<>>} ELSE Steps(p, R[n - 1])]
               /\ \E n \in Nat : r \in R[n]
  BY RoutesByLength
<1>2. R[0] = {<<>>} /\ \A n \in Nat : n # 0 => R[n] = Steps(p, R[n - 1])
  BY <1>1
<1> DEFINE Bad == {n \in Nat : \E t \in R[n] : ~Good(t)}
<1>3. Bad = {}
  <2> SUFFICES ASSUME Bad # {} PROVE FALSE
    OBVIOUS
  <2>1. PICK k \in Bad : \A j \in Bad : k <= j
    <3>1. Bad \subseteq Nat
      OBVIOUS
    <3> HIDE DEF Bad
    <3> QED BY <3>1, SmallestNumber
  <2>2. Good(<<>>)
    <3>1. IsRoute(p, <<>>)
      <4>1. Connected(p, <<>>) /\ Matched(<<>>) /\ Deepening(<<>>) = {}
        BY DEF Connected, Matched, Deepening
      <4>2. Cardinality(Deepening(<<>>)) = 0 /\ CallDepth \in Nat
        BY <4>1, FS_EmptySet, FlowRoutesAssumption
      <4>3. Cardinality(Deepening(<<>>)) <= CallDepth
        BY <4>2
      <4> QED BY <4>1, <4>3 DEF IsRoute
    <3> QED BY <3>1
  <2>3. k # 0
    BY <1>2, <2>2
  <2>4. k \in Nat /\ k - 1 \in Nat /\ k - 1 \notin Bad
    BY <2>1, <2>3
  <2>5. PICK t \in R[k] : ~Good(t)
    OBVIOUS
  <2>6. t \in Steps(p, R[k - 1])
    BY <1>2, <2>3, <2>4, <2>5
  <2>7. PICK x \in R[k - 1] \X HopsOf(p) : t = Append(x[1], x[2])
    BY <2>6 DEF Steps
  <2>8. Good(x[1]) /\ x[2] \in HopsOf(p) /\ IsRoute(p, t)
    BY <2>4, <2>6, <2>7 DEF Steps
  <2>9. t \in T
    BY <2>7, <2>8
  <2>10. t \in Seq(HopsOf(p))
    BY <2>7, <2>8, AppendOf
  <2> QED BY <2>5, <2>8, <2>9, <2>10
<1> QED BY <1>1, <1>3

-------------------------------------------------------------------------------
(* Nothing is forgotten without a mark *)

\* What was visited shows c; a queue holds something that shows c.
Told(V, c) == \E v \in V : v[2] = c
Held(q, c) == \E i \in 1..Len(q) : Shown(q[i].hops) = c
Met(V, q, c) == Told(V, c) \/ Held(q, c)

NothingForgotten(p, V, q) ==
  /\ Met(V, q, Shown(<<>>))
  /\ \A r \in Seq(HopsOf(p)), h \in HopsOf(p) :
        IsRoute(p, r) /\ IsRoute(p, Append(r, h)) /\ Told(V, Shown(r)) => Met(V, q, Shown(Append(r, h)))

ArrivalFound(p, V, F, L) ==
  \A r \in Seq(HopsOf(p)), last \in p.paths :
     /\ IsRoute(p, r) /\ (r = <<>> \/ Told(V, Shown(r)))
     /\ last.from = EndOf(p, r) /\ last.to \in p.sinks
     => last.to \in L \/ \E f \in F : f.last = last /\ Shown(f.hops) = Shown(r)

FlowsTo(F, k) == {f \in F : f.sink = k}
BeyondLimits(F, L, k) == Cardinality(FlowsTo(F, k)) > FlowVariants \/ k \in L
AsReported(F, L, S, f) == [flow |-> f, truncated |-> f.cut \/ BeyondLimits(F, L, f.sink) \/ S]

\* What is delivered was chosen from the flows as the limits ask.
PickedFrom(p, F, L, S, D) ==
  \E C \in SUBSET F :
     /\ \A k \in p.sinks : Cardinality(FlowsTo(F, k)) <= FlowVariants =>
                             Cardinality(C \intersect FlowsTo(F, k)) = Cardinality(FlowsTo(F, k))
     /\ D = {AsReported(F, L, S, f) : f \in C}

MarkInv ==
  /\ RouteInv
  /\ IsFiniteSet(flows)
  /\ sourceLimit \in BOOLEAN
  /\ ~sourceLimit => NothingForgotten(program, visited, states)
  /\ ArrivalFound(program, visited, flows, sinkLimits)
  /\ delivered # {} => states = <<>> /\ PickedFrom(program, flows, sinkLimits, sourceLimit, delivered)

LEMMA QueueTyped ==
  ASSUME NEW p, NEW q, QueueOf(p, q)
  PROVE  Len(q) \in Nat /\ DOMAIN q = 1..Len(q) /\ \E U : q \in Seq(U)
<1>1. PICK U : q \in Seq(U)
  BY DEF QueueOf
<1> QED BY <1>1

LEMMA HeldJoined ==
  ASSUME NEW p, NEW q, NEW r, QueueOf(p, q), QueueOf(p, r), NEW c, Held(q, c) \/ Held(r, c)
  PROVE  Held(q \o r, c)
<1>1. PICK U : q \in Seq(U)
  BY DEF QueueOf
<1>2. PICK V : r \in Seq(V)
  BY DEF QueueOf
<1>3. q \in Seq(U \union V) /\ r \in Seq(U \union V)
  BY <1>1, <1>2
<1> DEFINE m == Len(q)
           n == Len(r)
           t == q \o r
<1>4. /\ m \in Nat /\ n \in Nat /\ Len(t) = m + n
      /\ (\A i \in 1..m : t[i] = q[i]) /\ (\A i \in 1..n : t[m + i] = r[i])
  BY <1>3
<1> HIDE DEF t, m, n
<1>5. CASE Held(q, c)
  <2>1. PICK i \in 1..m : Shown(q[i].hops) = c
    BY <1>5 DEF Held, m
  <2>2. i \in 1..m + n /\ t[i] = q[i]
    BY <1>4, <2>1
  <2>3. Held(t, c)
    BY <1>4, <2>1, <2>2 DEF Held
  <2> QED BY <2>3 DEF t
<1>6. CASE Held(r, c)
  <2>1. PICK i \in 1..n : Shown(r[i].hops) = c
    BY <1>6 DEF Held, n
  <2>2. m + i \in 1..m + n /\ t[m + i] = r[i]
    BY <1>4, <2>1
  <2>3. Held(t, c)
    BY <1>4, <2>1, <2>2 DEF Held
  <2> QED BY <2>3 DEF t
<1> QED BY <1>5, <1>6

LEMMA HeldBehind ==
  ASSUME NEW p, NEW q, QueueOf(p, q), NEW c, Held(q, c)
  PROVE  q # <<>> /\ (Shown(Head(q).hops) = c \/ Held(Tail(q), c))
<1>1. PICK U : q \in Seq(U)
  BY DEF QueueOf
<1>2. PICK i \in 1..Len(q) : Shown(q[i].hops) = c
  BY DEF Held
<1>3. q # <<>> /\ Len(q) \in Nat /\ Head(q) = q[1]
  BY <1>1, <1>2
<1>4. Len(Tail(q)) = Len(q) - 1 /\ \A j \in 1..Len(q) - 1 : Tail(q)[j] = q[j + 1]
  BY <1>1, <1>3
<1> DEFINE t == Tail(q)
           n == Len(q)
<1> HIDE DEF t, n
<1>5. CASE i = 1
  BY <1>2, <1>3, <1>5
<1>6. CASE i # 1
  <2>1. i - 1 \in 1..n - 1 /\ i - 1 + 1 = i
    BY <1>2, <1>3, <1>6 DEF n
  <2>2. t[i - 1] = q[i]
    BY <1>4, <2>1 DEF t, n
  <2>3. Len(t) = n - 1
    BY <1>4 DEF t, n
  <2>4. Held(t, c)
    BY <1>2, <2>1, <2>2, <2>3 DEF Held
  <2> QED BY <1>3, <2>4 DEF t
<1> QED BY <1>5, <1>6

LEMMA HeldListed ==
  ASSUME NEW S, IsFiniteSet(S), NEW u \in S
  PROVE  Held(SetToSeq(S), Shown(u.hops))
BY EveryoneListed DEF Held

\* Every successor of a state is queued when the state is visited.
LEMMA OnwardsHolds ==
  ASSUME program \in Programs, NEW s, RouteState(program, s), NEW u \in NextStates(s)
  PROVE  Held(Onwards(s), Shown(u.hops))
<1> DEFINE c == Shown(u.hops)
           A == SetToSeq(ReturnStates(s))
           B == SetToSeq(BoundaryStates(s, TRUE))
<1>0. ASSUME NEW S, IsFiniteSet(S), \A t \in S : RouteState(program, t) PROVE QueueOf(program, SetToSeq(S))
  <2>1. SetToSeq(S) \in Seq(S)
    BY <1>0, ListOf
  <2> QED BY <1>0, <2>1 DEF QueueOf
<1>1. /\ QueueOf(program, A) /\ QueueOf(program, B) /\ QueueOf(program, A \o B)
      /\ u \in ReturnStates(s) => Held(A, c)
      /\ u \in BoundaryStates(s, TRUE) => Held(B, c)
  <2>1. QueueOf(program, A) /\ (u \in ReturnStates(s) => Held(A, c))
    BY <1>0, ReturnOnwards, HeldListed
  <2>2. QueueOf(program, B) /\ (u \in BoundaryStates(s, TRUE) => Held(B, c))
    BY <1>0, BoundaryOnwards, HeldListed
  <2> QED BY <2>1, <2>2, QueueJoined
<1>2. u \in ReturnStates(s) \union BoundaryStates(s, TRUE) => Held(A \o B, c)
  <2> HIDE DEF c, A, B
  <2> QED BY <1>1, HeldJoined
<1>3. CASE s.depth >= CallDepth
  <2>1. u \in ReturnStates(s) \union BoundaryStates(s, TRUE)
    BY <1>3 DEF NextStates
  <2>2. Onwards(s) = (A \o B) \o <<>>
    BY <1>3 DEF Onwards
  <2>3. QueueOf(program, <<>>)
    BY EmptyQueue
  <2> HIDE DEF c, A, B
  <2>4. Held((A \o B) \o <<>>, c)
    BY <1>1, <1>2, <2>1, <2>3, HeldJoined
  <2>5. Held(Onwards(s), c)
    BY <2>2, <2>4
  <2> QED BY <2>5 DEF c
<1>4. CASE ~(s.depth >= CallDepth)
  <2> DEFINE D == SetToSeq(BoundaryStates(s, FALSE))
             E == SetToSeq(CallStates(s))
  <2>1. s.depth < CallDepth
    BY <1>4, FlowRoutesAssumption DEF RouteState
  <2>2. QueueOf(program, D) /\ (u \in BoundaryStates(s, FALSE) => Held(D, c))
    BY <1>0, <2>1, BoundaryOnwards, HeldListed
  <2>3. QueueOf(program, E) /\ (u \in CallStates(s) => Held(E, c))
    BY <1>0, <2>1, CallOnwards, HeldListed
  <2>4. Onwards(s) = (A \o B) \o (D \o E)
    BY <1>4 DEF Onwards
  <2>5. u \in ReturnStates(s) \union BoundaryStates(s, TRUE) \/ u \in BoundaryStates(s, FALSE) \/ u \in CallStates(s)
    BY <1>4 DEF NextStates
  <2> HIDE DEF c, A, B, D, E
  <2>6. QueueOf(program, D \o E)
    BY <2>2, <2>3, QueueJoined
  <2>7. Held(A \o B, c) \/ Held(D \o E, c)
    <3>1. CASE u \in ReturnStates(s) \union BoundaryStates(s, TRUE)
      BY <1>2, <3>1
    <3>2. CASE u \notin ReturnStates(s) \union BoundaryStates(s, TRUE)
      <4>1. Held(D, c) \/ Held(E, c)
        BY <2>2, <2>3, <2>5, <3>2
      <4>2. Held(D \o E, c)
        BY <2>2, <2>3, <4>1, HeldJoined
      <4> QED BY <4>2
    <3> QED BY <3>1, <3>2
  <2>8. Held((A \o B) \o (D \o E), c)
    BY <1>1, <2>6, <2>7, HeldJoined
  <2>9. Held(Onwards(s), c)
    BY <2>4, <2>8
  <2> QED BY <2>9 DEF c
<1> QED BY <1>3, <1>4

\* The flows that one state contributes.
Contributed(s, K) == UNION {{FlowTo(s, path) : path \in Local(s.at, k)} : k \in K}

LEMMA FewContributed ==
  ASSUME program \in Programs, NEW s, NEW K
  PROVE  /\ IsFiniteSet(Contributed(s, K))
         /\ \A path \in program.paths : path.from = s.at /\ path.to \in K => FlowTo(s, path) \in Contributed(s, K)
<1> DEFINE F(k) == {FlowTo(s, path) : path \in Local(s.at, k)}
<1>1. Contributed(s, K) = UNION {F(k) : k \in K}
  BY DEF Contributed
<1>2. IsFiniteSet(Contributed(s, K))
  <2> DEFINE f == [x \in program.paths |-> FlowTo(s, x)]
  <2>1. ASSUME NEW t \in Contributed(s, K) PROVE \E x \in program.paths : t = f[x]
    <3>1. PICK k \in K : t \in F(k)
      BY <1>1
    <3>2. PICK x \in Local(s.at, k) : t = FlowTo(s, x)
      BY <3>1
    <3>3. x \in program.paths
      BY DEF Local
    <3> QED BY <3>2, <3>3
  <2>2. DOMAIN f = program.paths /\ IsFiniteSet(program.paths)
    BY FlowRoutesAssumption
  <2> HIDE DEF f
  <2> QED BY <2>1, <2>2, FiniteWithin
<1>3. ASSUME NEW path \in program.paths, path.from = s.at, path.to \in K
      PROVE  FlowTo(s, path) \in Contributed(s, K)
  <2>1. path \in Local(s.at, path.to)
    BY <1>3 DEF Local
  <2>2. FlowTo(s, path) \in F(path.to)
    BY <2>1
  <2> HIDE DEF F
  <2> QED BY <1>1, <1>3, <2>2
<1> QED BY <1>2, <1>3

LEMMA FlowToIs ==
  ASSUME NEW s, NEW path
  PROVE  FlowTo(s, path).last = path /\ FlowTo(s, path).hops = s.hops
BY DEF FlowTo

LEMMA MarkInit ==
  ASSUME RouteInit
  PROVE  MarkInv
<1>1. /\ program \in Programs /\ states = <<AtSource(program)>> /\ visited = {}
      /\ flows = Contributed(AtSource(program), SinksAt(AtSource(program)))
      /\ sourceLimit = FALSE /\ sinkLimits = {} /\ delivered = {}
  <2>1. AtSource(program).at = program.source
    BY DEF AtSource
  <2> QED BY <2>1 DEF RouteInit, Contributed
<1>2. RouteInv
  BY RouteInvInit
<1>3. IsFiniteSet(flows)
  BY <1>1, FewContributed
<1>4. NothingForgotten(program, visited, states)
  <2>1. Len(states) = 1 /\ states[1].hops = <<>>
    BY <1>1 DEF AtSource
  <2>2. Held(states, Shown(<<>>))
    BY <2>1 DEF Held
  <2>3. \A c : ~Told(visited, c)
    BY <1>1 DEF Told
  <2> QED BY <2>2, <2>3 DEF NothingForgotten, Met
<1>5. ArrivalFound(program, visited, flows, sinkLimits)
  <2>1. SUFFICES ASSUME NEW r \in Seq(HopsOf(program)), NEW last \in program.paths,
                        r = <<>> \/ Told(visited, Shown(r)), last.from = EndOf(program, r), last.to \in program.sinks
                 PROVE  \E f \in flows : f.last = last /\ Shown(f.hops) = Shown(r)
    BY DEF ArrivalFound
  <2>2. r = <<>>
    BY <1>1, <2>1 DEF Told
  <2>3. last.from = program.source /\ program.in[last.from] = program.in[last.to]
    BY <1>1, <2>1, <2>2, FlowRoutesAssumption DEF EndOf
  <2> DEFINE s == AtSource(program)
  <2>4. s.at = program.source /\ s.hops = <<>>
    BY DEF AtSource
  <2> HIDE DEF s
  <2>5. last.to \in SinksAt(s)
    BY <2>1, <2>3, <2>4 DEF SinksAt, Of
  <2>6. FlowTo(s, last) \in Contributed(s, SinksAt(s))
    BY <1>1, <2>3, <2>4, <2>5, FewContributed
  <2>7. FlowTo(s, last) \in flows
    BY <1>1, <2>6 DEF s
  <2> QED BY <2>2, <2>4, <2>7, FlowToIs
<1> QED BY <1>1, <1>2, <1>3, <1>4, <1>5 DEF MarkInv

\* While nothing is thrown away, everything queued may still be visited.
LEMMA AllFits ==
  ASSUME RouteInv, ~(Len(states) > RoomLeft)
  PROVE  Fitting = states
<1>1. PICK U : states \in Seq(U)
  BY DEF RouteInv, QueueOf
<1>2. Cardinality(visited) \in Nat /\ FlowStates \in Nat /\ RoomLeft = FlowStates - Cardinality(visited)
  BY FS_CardinalityType, FlowRoutesAssumption DEF RouteInv, RoomLeft
<1>3. Len(states) \in Nat /\ ~(RoomLeft < Len(states))
  BY <1>1, <1>2
<1>4. Fitting = SubSeq(states, 1, Len(states))
  BY <1>3 DEF Fitting
<1> QED BY <1>1, <1>4

LEMMA NoneFits ==
  ASSUME RouteInv, states = <<>>
  PROVE  Fitting = <<>>
<1>1. Cardinality(visited) \in Nat /\ FlowStates \in Nat /\ RoomLeft = FlowStates - Cardinality(visited)
      /\ Cardinality(visited) <= FlowStates
  BY FS_CardinalityType, FlowRoutesAssumption DEF RouteInv, RoomLeft
<1>2. ~(RoomLeft < 0) /\ Len(states) = 0
  BY <1>1
<1>3. Fitting = SubSeq(states, 1, 0)
  BY <1>2 DEF Fitting
<1> QED BY <1>2, <1>3

\* What was met stays met when the state at the front is taken.
LEMMA StillMet ==
  ASSUME NEW V, NEW W, NEW q, NEW t, NEW c, QueueOf(program, q), QueueOf(program, t), Met(V, q, c),
         V \subseteq W, Told(W, Shown(Head(q).hops)),
         \A d : Held(Tail(q), d) => Held(t, d)
  PROVE  Met(W, t, c)
<1>1. CASE Told(V, c)
  BY <1>1 DEF Met, Told
<1>2. CASE Held(q, c)
  <2>1. Shown(Head(q).hops) = c \/ Held(Tail(q), c)
    BY <1>2, HeldBehind
  <2> QED BY <2>1 DEF Met
<1> QED BY <1>1, <1>2 DEF Met

LEMMA StillNothingForgotten ==
  ASSUME program \in Programs, NEW V, NEW q, NEW t, QueueOf(program, q), QueueOf(program, t), q # <<>>,
         NothingForgotten(program, V, q),
         NEW W, W = V \union {Key(Head(q))},
         \A d : Held(Tail(q), d) => Held(t, d),
         Key(Head(q)) \in V \/ \A u \in NextStates(Head(q)) : Held(t, Shown(u.hops))
  PROVE  NothingForgotten(program, W, t)
<1> DEFINE s == Head(q)
<1>1. RouteState(program, s)
  BY QueueParts
<1>2. Key(s)[2] = Shown(s.hops)
  BY DEF Key
<1> HIDE DEF s
<1>3. V \subseteq W /\ Told(W, Shown(s.hops))
  BY <1>2 DEF Told, s
<1>4. \A c : Met(V, q, c) => Met(W, t, c)
  BY <1>3, StillMet DEF s
<1>5. ASSUME NEW r \in Seq(HopsOf(program)), NEW h \in HopsOf(program),
             IsRoute(program, r), IsRoute(program, Append(r, h)), Told(W, Shown(r))
      PROVE  Met(W, t, Shown(Append(r, h)))
  <2>1. CASE Told(V, Shown(r))
    <3>1. Met(V, q, Shown(Append(r, h)))
      BY <1>5, <2>1 DEF NothingForgotten
    <3> QED BY <1>4, <3>1
  <2>2. CASE ~Told(V, Shown(r))
    <3>1. PICK v \in W : v[2] = Shown(r)
      BY <1>5 DEF Told
    <3>2. v = Key(s) /\ Key(s) \notin V
      BY <2>2, <3>1 DEF Told, s
    <3>3. Shown(r) = Shown(s.hops)
      BY <1>2, <3>1, <3>2
    <3>4. PICK u \in NextStates(s) : Shown(u.hops) = Shown(Append(r, h))
      BY <1>1, <1>5, <3>3, GoesOn
    <3>5. Held(t, Shown(Append(r, h)))
      <4>1. Held(t, Shown(u.hops))
        BY <3>2, <3>4 DEF s
      <4> QED BY <3>4, <4>1
    <3> QED BY <3>5 DEF Met
  <2> QED BY <2>1, <2>2
<1>6. Met(W, t, Shown(<<>>))
  BY <1>4 DEF NothingForgotten
<1> QED BY <1>5, <1>6 DEF NothingForgotten

LEMMA StillFound ==
  ASSUME program \in Programs, NEW V, NEW F, NEW L, NEW s, RouteState(program, s),
         ArrivalFound(program, V, F, L),
         NEW W, W = V \union {Key(s)}, NEW here, here = IF s.hops = <<>> THEN {} ELSE SinksAt(s),
         NEW M, L \subseteq M, NEW G, F \subseteq G,
         \A k \in here : k \in M \/ Contributed(s, {k}) \subseteq G
  PROVE  ArrivalFound(program, W, G, M)
<1>1. SUFFICES ASSUME NEW r \in Seq(HopsOf(program)), NEW last \in program.paths,
                      IsRoute(program, r), r = <<>> \/ Told(W, Shown(r)),
                      last.from = EndOf(program, r), last.to \in program.sinks
               PROVE  last.to \in M \/ \E f \in G : f.last = last /\ Shown(f.hops) = Shown(r)
  BY DEF ArrivalFound
<1>2. CASE r = <<>> \/ Told(V, Shown(r))
  <2>1. last.to \in L \/ \E f \in F : f.last = last /\ Shown(f.hops) = Shown(r)
    BY <1>1, <1>2 DEF ArrivalFound
  <2> QED BY <2>1
<1>3. CASE ~(r = <<>> \/ Told(V, Shown(r)))
  <2>1. PICK v \in W : v[2] = Shown(r)
    BY <1>1, <1>3 DEF Told
  <2>2. v = Key(s)
    BY <1>3, <2>1 DEF Told
  <2>3. Shown(r) = Shown(s.hops)
    BY <2>1, <2>2 DEF Key
  <2>4. s.hops \in Seq(HopsOf(program)) /\ s.at = EndOf(program, s.hops)
    BY DEF RouteState
  <2>5. SameCourse(s.hops, r)
    BY <2>3, <2>4, ShownCourse
  <2>6. EndOf(program, r) = s.at
    BY <2>4, <2>5, CourseEnd
  <2>7. s.hops # <<>>
    <3>1. Len(s.hops) = Len(r) /\ (s.hops = <<>> <=> Len(s.hops) = 0) /\ (r = <<>> <=> Len(r) = 0)
      BY <2>4, <2>5, EmptySeq DEF SameCourse
    <3> QED BY <1>3, <3>1
  <2>8. last.to \in here
    <3>1. program.in[last.from] = program.in[last.to]
      BY FlowRoutesAssumption
    <3>2. last.to \in SinksAt(s)
      BY <1>1, <2>6, <3>1 DEF SinksAt, Of
    <3> QED BY <2>7, <3>2
  <2>9. FlowTo(s, last) \in Contributed(s, {last.to})
    <3>1. last.to \in {last.to} /\ last.from = s.at
      BY <1>1, <2>6
    <3> QED BY <3>1, FewContributed
  <2>10. last.to \in M \/ FlowTo(s, last) \in G
    BY <2>8, <2>9
  <2> QED BY <2>3, <2>10, FlowToIs
<1> QED BY <1>2, <1>3

LEMMA MarkVisit ==
  ASSUME MarkInv, VisitState
  PROVE  MarkInv'
<1> DEFINE s == Head(Fitting)
           here == IF s.hops = <<>> THEN {} ELSE SinksAt(s)
           Open == {x \in here : ~Enough(x)}
<1>1. /\ RouteInv /\ IsFiniteSet(flows) /\ sourceLimit \in BOOLEAN
      /\ (~sourceLimit => NothingForgotten(program, visited, states))
      /\ ArrivalFound(program, visited, flows, sinkLimits)
      /\ (delivered # {} => states = <<>>)
      /\ program \in Programs
  BY DEF MarkInv, RouteInv
<1>2. /\ Fitting # <<>> /\ visited' = visited \union {Key(s)}
      /\ sourceLimit' = (sourceLimit \/ Len(states) > RoomLeft)
      /\ sinkLimits' = sinkLimits \union {k \in here : Enough(k)}
      /\ flows' = flows \union Contributed(s, Open)
      /\ states' = Tail(Fitting) \o Onwards(s)
      /\ program' = program /\ delivered' = delivered
  BY DEF VisitState, Contributed
<1>3. states # <<>> /\ delivered' = {}
  BY <1>1, <1>2, NoneFits
<1>4. RouteInv'
  BY <1>1, RouteInvStep DEF RouteNext
<1>5. QueueOf(program, Fitting) /\ RouteState(program, s) /\ QueueOf(program, Tail(Fitting))
  BY <1>1, <1>2, FittingQueue, QueueParts
<1> HIDE DEF s, here, Open
<1>6. IsFiniteSet(flows')
  <2>1. IsFiniteSet(Contributed(s, Open))
    BY <1>1, FewContributed
  <2>2. IsFiniteSet(flows \union Contributed(s, Open))
    BY <1>1, <2>1, FS_Union
  <2> QED BY <1>2, <2>2
<1>7. ArrivalFound(program', visited', flows', sinkLimits')
  <2>1. ASSUME NEW k \in here PROVE k \in sinkLimits' \/ Contributed(s, {k}) \subseteq flows'
    <3>1. Enough(k) \/ k \in Open
      BY DEF Open
    <3>2. k \in Open => Contributed(s, {k}) \subseteq Contributed(s, Open)
      BY DEF Contributed
    <3> QED BY <1>2, <3>1, <3>2
  <2>2. here = IF s.hops = <<>> THEN {} ELSE SinksAt(s)
    BY DEF here
  <2>3. sinkLimits \subseteq sinkLimits' /\ flows \subseteq flows'
    BY <1>2
  <2> DEFINE W == visited'
             G == flows'
             M == sinkLimits'
  <2>4. /\ W = visited \union {Key(s)} /\ sinkLimits \subseteq M /\ flows \subseteq G
        /\ \A k \in here : k \in M \/ Contributed(s, {k}) \subseteq G
    BY <1>2, <2>1, <2>3
  <2> HIDE DEF W, G, M
  <2>5. ArrivalFound(program, W, G, M)
    BY <1>1, <1>5, <2>2, <2>4, StillFound
  <2> QED BY <1>2, <2>5 DEF W, G, M
<1>8. ASSUME ~sourceLimit' PROVE NothingForgotten(program', visited', states')
  <2>1. ~sourceLimit /\ ~(Len(states) > RoomLeft)
    BY <1>1, <1>2, <1>8
  <2>2. Fitting = states
    BY <1>1, <2>1, AllFits
  <2>3. NothingForgotten(program, visited, states)
    BY <1>1, <2>1
  <2>4. s = Head(states)
    BY <2>2 DEF s
  <2>5. QueueOf(program, states) /\ QueueOf(program, Tail(states)) /\ QueueOf(program, Onwards(s))
    BY <1>1, <1>5, <2>2, OnwardsQueue
  <2> DEFINE t == Tail(states) \o Onwards(s)
  <2>6. QueueOf(program, t) /\ \A d : Held(Tail(states), d) \/ Held(Onwards(s), d) => Held(t, d)
    BY <2>5, QueueJoined, HeldJoined
  <2>7. \A u \in NextStates(s) : Held(Onwards(s), Shown(u.hops))
    BY <1>1, <1>5, OnwardsHolds
  <2>8. t = states'
    BY <1>2, <2>2
  <2> HIDE DEF t
  <2>9. \A u \in NextStates(Head(states)) : Held(t, Shown(u.hops))
    BY <2>4, <2>6, <2>7
  <2>10. visited' = visited \union {Key(Head(states))}
    BY <1>2, <2>4
  <2>11. NothingForgotten(program, visited', t)
    BY <1>1, <1>3, <2>3, <2>5, <2>6, <2>9, <2>10, StillNothingForgotten
  <2> QED BY <1>2, <2>8, <2>11
<1>9. sourceLimit' \in BOOLEAN
  BY <1>2
<1> QED BY <1>3, <1>4, <1>6, <1>7, <1>8, <1>9 DEF MarkInv

LEMMA MarkSeen ==
  ASSUME MarkInv, SeenBefore
  PROVE  MarkInv'
<1> DEFINE s == Head(Fitting)
<1>1. /\ RouteInv /\ IsFiniteSet(flows) /\ sourceLimit \in BOOLEAN
      /\ (~sourceLimit => NothingForgotten(program, visited, states))
      /\ ArrivalFound(program, visited, flows, sinkLimits)
      /\ (delivered # {} => states = <<>>)
      /\ program \in Programs
  BY DEF MarkInv, RouteInv
<1>2. /\ Fitting # <<>> /\ Key(s) \in visited
      /\ sourceLimit' = (sourceLimit \/ Len(states) > RoomLeft)
      /\ states' = Tail(Fitting)
      /\ program' = program /\ delivered' = delivered /\ visited' = visited
      /\ flows' = flows /\ sinkLimits' = sinkLimits
  BY DEF SeenBefore
<1>3. states # <<>> /\ delivered' = {}
  BY <1>1, <1>2, NoneFits
<1>4. RouteInv'
  BY <1>1, RouteInvStep DEF RouteNext
<1> HIDE DEF s
<1>5. ASSUME ~sourceLimit' PROVE NothingForgotten(program', visited', states')
  <2>1. ~sourceLimit /\ ~(Len(states) > RoomLeft)
    BY <1>1, <1>2, <1>5
  <2>2. Fitting = states
    BY <1>1, <2>1, AllFits
  <2>3. NothingForgotten(program, visited, states)
    BY <1>1, <2>1
  <2>4. Key(Head(states)) \in visited
    BY <1>2, <2>2 DEF s
  <2>5. QueueOf(program, states) /\ QueueOf(program, Tail(states))
    BY <1>1, <1>3, QueueParts DEF RouteInv
  <2> DEFINE t == Tail(states)
  <2>6. \A d : Held(Tail(states), d) => Held(t, d)
    OBVIOUS
  <2>7. t = states' /\ QueueOf(program, t)
    BY <1>2, <2>2, <2>5
  <2> HIDE DEF t
  <2>8. visited = visited \union {Key(Head(states))}
    BY <2>4
  <2>9. NothingForgotten(program, visited, t)
    BY <1>1, <1>3, <2>3, <2>4, <2>5, <2>6, <2>7, <2>8, StillNothingForgotten
  <2> QED BY <1>2, <2>7, <2>9
<1> QED BY <1>1, <1>2, <1>3, <1>4, <1>5 DEF MarkInv

LEMMA MarkRetain ==
  ASSUME MarkInv, Retain
  PROVE  MarkInv'
<1>1. /\ RouteInv /\ IsFiniteSet(flows) /\ sourceLimit \in BOOLEAN
      /\ (~sourceLimit => NothingForgotten(program, visited, states))
      /\ ArrivalFound(program, visited, flows, sinkLimits)
  BY DEF MarkInv
<1>2. /\ states = <<>>
      /\ states' = states /\ program' = program /\ visited' = visited
      /\ flows' = flows /\ sourceLimit' = sourceLimit /\ sinkLimits' = sinkLimits
  BY DEF Retain
<1> DEFINE To1(k) == {f \in flows : f.sink = k}
           Beyond1(k) == Cardinality(To1(k)) > FlowVariants \/ k \in sinkLimits
           Marked1(f) == [flow |-> f, truncated |-> f.cut \/ Beyond1(f.sink) \/ sourceLimit]
<1>3. PICK C \in SUBSET flows :
        /\ \A k \in program.sinks :
              Cardinality(C \intersect To1(k)) =
                IF Cardinality(To1(k)) > FlowVariants THEN FlowVariants ELSE Cardinality(To1(k))
        /\ delivered' = {Marked1(f) : f \in C}
  BY DEF Retain
<1>4. \A k : FlowsTo(flows, k) = To1(k)
  BY DEF FlowsTo
<1>5. \A k : BeyondLimits(flows, sinkLimits, k) <=> Beyond1(k)
  BY DEF BeyondLimits, FlowsTo
<1>6. \A f : AsReported(flows, sinkLimits, sourceLimit, f) = Marked1(f)
  BY DEF AsReported, BeyondLimits, FlowsTo
<1> HIDE DEF Marked1, Beyond1
<1>7. delivered' = {AsReported(flows, sinkLimits, sourceLimit, f) : f \in C}
  BY <1>3, <1>6
<1>8. \A k \in program.sinks : Cardinality(FlowsTo(flows, k)) <= FlowVariants =>
         Cardinality(C \intersect FlowsTo(flows, k)) = Cardinality(FlowsTo(flows, k))
  <2> TAKE k \in program.sinks
  <2>1. IsFiniteSet(FlowsTo(flows, k))
    BY <1>1, FS_Subset DEF FlowsTo
  <2>2. Cardinality(FlowsTo(flows, k)) \in Nat /\ FlowVariants \in Nat
    BY <2>1, FS_CardinalityType, FlowRoutesAssumption
  <2> HIDE DEF To1
  <2> QED BY <1>3, <1>4, <2>2
<1>9. PickedFrom(program, flows, sinkLimits, sourceLimit, delivered')
  BY <1>7, <1>8 DEF PickedFrom
<1>10. RouteInv'
  BY <1>1, RouteInvStep DEF RouteNext
<1> QED BY <1>1, <1>2, <1>9, <1>10 DEF MarkInv

LEMMA MarkStep ==
  ASSUME MarkInv, [RouteNext]_routeVars
  PROVE  MarkInv'
<1>1. CASE Exhausted
  <2>1. /\ RouteInv /\ IsFiniteSet(flows)
        /\ ArrivalFound(program, visited, flows, sinkLimits)
        /\ (delivered # {} => states = <<>>)
    BY DEF MarkInv
  <2>2. /\ states # <<>> /\ sourceLimit' = TRUE
        /\ program' = program /\ visited' = visited
        /\ flows' = flows /\ sinkLimits' = sinkLimits /\ delivered' = delivered
    BY <1>1 DEF Exhausted
  <2>3. RouteInv'
    BY <1>1, <2>1, RouteInvStep DEF RouteNext
  <2> QED BY <2>1, <2>2, <2>3 DEF MarkInv
<1>2. CASE UNCHANGED routeVars
  <2>1. /\ program' = program /\ visited' = visited /\ states' = states /\ flows' = flows
        /\ sinkLimits' = sinkLimits /\ delivered' = delivered /\ sourceLimit' = sourceLimit
    BY <1>2 DEF routeVars
  <2>2. RouteInv'
    BY RouteInvStep DEF MarkInv
  <2> QED BY <2>1, <2>2 DEF MarkInv
<1> QED BY <1>1, <1>2, MarkVisit, MarkSeen, MarkRetain DEF RouteNext

\* While no state was thrown away, every route that goes on from one that was visited
\* was visited or waits; each arrival at a sink is among the flows or its sink is no
\* longer counted; and what is delivered was chosen from them and marked.
THEOREM MarkInvariance == RouteSpec => []MarkInv
<1>1. RouteInit => MarkInv
  BY MarkInit
<1>2. MarkInv /\ [RouteNext]_routeVars => MarkInv'
  BY MarkStep
<1> QED BY <1>1, <1>2, PTL DEF RouteSpec

LEMMA MarkTells ==
  ASSUME MarkInv
  PROVE  MissingIsMarked
<1>1. SUFFICES ASSUME states = <<>>, flows = {} \/ delivered # {},
                      NEW hops \in RoutesIn(program), NEW last \in program.paths,
                      last.from = (IF hops = <<>> THEN program.source ELSE Landing(Last(hops))),
                      last.to \in program.sinks,
                      \A d \in delivered : ~(d.flow.last = last /\ Shown(d.flow.hops) = Shown(hops))
               PROVE  /\ sourceLimit \/ last.to \in sinkLimits
                           \/ Cardinality({f \in flows : f.sink = last.to}) > FlowVariants
                      /\ \A d \in delivered : d.flow.sink = last.to => d.truncated
  BY DEF MissingIsMarked
<1> DEFINE k == last.to
<1>2. /\ RouteInv /\ IsFiniteSet(flows) /\ sourceLimit \in BOOLEAN
      /\ (~sourceLimit => NothingForgotten(program, visited, states))
      /\ ArrivalFound(program, visited, flows, sinkLimits)
      /\ (delivered # {} => PickedFrom(program, flows, sinkLimits, sourceLimit, delivered))
  BY DEF MarkInv
<1>3. last.from = EndOf(program, hops)
  BY <1>1 DEF EndOf
<1>4. ASSUME sourceLimit \/ BeyondLimits(flows, sinkLimits, k)
      PROVE  \A d \in delivered : d.flow.sink = k => d.truncated
  <2> SUFFICES ASSUME NEW d \in delivered, d.flow.sink = k PROVE d.truncated
    OBVIOUS
  <2>1. PICK f \in flows : d = AsReported(flows, sinkLimits, sourceLimit, f)
    BY <1>2 DEF PickedFrom
  <2>2. d.flow = f /\ d.truncated = (f.cut \/ BeyondLimits(flows, sinkLimits, f.sink) \/ sourceLimit)
    BY <2>1 DEF AsReported
  <2> HIDE DEF k
  <2> QED BY <1>4, <2>2
<1>5. ASSUME ~sourceLimit PROVE BeyondLimits(flows, sinkLimits, k)
  <2> DEFINE T == {r \in Seq(HopsOf(program)) : Told(visited, Shown(r))}
             nothing == <<>>
  <2>1. NothingForgotten(program, visited, states) /\ \A c : ~Held(states, c)
    <3>1. Len(states) = 0
      BY <1>1
    <3> QED BY <1>2, <1>5, <3>1 DEF Held
  <2>2. nothing \in T
    BY <2>1 DEF NothingForgotten, Met
  <2>3. \A r \in Seq(HopsOf(program)), h \in HopsOf(program) :
            r \in T /\ IsRoute(program, r) /\ IsRoute(program, Append(r, h)) => Append(r, h) \in T
    BY <2>1, AppendOf DEF NothingForgotten, Met
  <2>4. hops \in T /\ hops \in Seq(HopsOf(program)) /\ IsRoute(program, hops)
    <3>1. <<>> \in T
      BY <2>2
    <3> HIDE DEF T
    <3> QED BY <2>3, <3>1, RoutesGrow
  <2>5. k \in sinkLimits \/ \E f \in flows : f.last = last /\ Shown(f.hops) = Shown(hops)
    BY <1>1, <1>2, <1>3, <2>4 DEF ArrivalFound
  <2>6. CASE k \in sinkLimits
    BY <2>6 DEF BeyondLimits
  <2>7. CASE k \notin sinkLimits
    <3>1. PICK f \in flows : f.last = last /\ Shown(f.hops) = Shown(hops)
      BY <2>5, <2>7
    <3>2. f.sink = k
      BY <1>2, <3>1 DEF RouteInv, RealFlow
    <3>3. PICK C \in SUBSET flows :
            /\ Cardinality(FlowsTo(flows, k)) <= FlowVariants =>
                 Cardinality(C \intersect FlowsTo(flows, k)) = Cardinality(FlowsTo(flows, k))
            /\ delivered = {AsReported(flows, sinkLimits, sourceLimit, x) : x \in C}
      BY <1>1, <1>2, <3>1 DEF PickedFrom
    <3>4. f \notin C
      <4>1. f \in C => AsReported(flows, sinkLimits, sourceLimit, f) \in delivered
        BY <3>3
      <4>2. AsReported(flows, sinkLimits, sourceLimit, f).flow = f
        BY DEF AsReported
      <4> QED BY <1>1, <3>1, <4>1, <4>2
    <3> DEFINE A == FlowsTo(flows, k)
               B == C \intersect A
    <3>5. f \in A /\ f \notin B /\ B \subseteq A /\ A \subseteq flows
      BY <3>1, <3>2, <3>4 DEF FlowsTo
    <3> HIDE DEF A, B
    <3>6. IsFiniteSet(A)
      BY <1>2, <3>5, FS_Subset
    <3>7. Cardinality(A) # Cardinality(B)
      BY <3>5, <3>6, FS_Subset
    <3>8. ~(Cardinality(A) <= FlowVariants)
      BY <3>3, <3>7 DEF A, B
    <3>9. Cardinality(A) \in Nat /\ FlowVariants \in Nat
      BY <3>6, FS_CardinalityType, FlowRoutesAssumption
    <3>10. Cardinality(A) > FlowVariants
      BY <3>8, <3>9
    <3> QED BY <3>10 DEF BeyondLimits, A
  <2> QED BY <2>6, <2>7
<1>6. BeyondLimits(flows, sinkLimits, k) =>
        k \in sinkLimits \/ Cardinality({f \in flows : f.sink = k}) > FlowVariants
  BY DEF BeyondLimits, FlowsTo
<1> HIDE DEF k
<1>7. sourceLimit \/ BeyondLimits(flows, sinkLimits, k)
  BY <1>5
<1> QED BY <1>4, <1>6, <1>7 DEF k

\* What the search for interprocedural flows leaves out it announces, for every
\* program and all limits: when a flow along some route to a sink is not reported,
\* every flow reported for that sink carries the mark, and a limit that was hit is
\* recorded.
THEOREM MissingFlowsAreMarked == RouteSpec => []MissingIsMarked
<1>1. MarkInv => MissingIsMarked
  BY MarkTells
<1> QED BY <1>1, MarkInvariance, PTL

-------------------------------------------------------------------------------
(* The choice of candidates *)

LEMMA InOrderOfPlace ==
  ASSUME NEW S, IsFiniteSet(S), NEW R, StrictOrder(R, S),
         NEW i \in 1..Cardinality(S), NEW j \in 1..Cardinality(S), i < j
  PROVE  <<ByPlace(S, R)[i], ByPlace(S, R)[j]>> \in R
<1> USE DEF StrictOrder
<1> DEFINE Behind(e) == {f \in S : <<f, e>> \in R}
           N == 1..Cardinality(S)
           L == ByPlace(S, R)
<1>1. /\ Cardinality(S) \in Nat
      /\ \A n \in N : \E e \in S : Cardinality(Behind(e)) = n - 1
      /\ \A e, g \in S : Cardinality(Behind(e)) = Cardinality(Behind(g)) => e = g
  BY EveryPlaceIsTaken
<1>2. \A n \in N : L[n] \in S /\ Cardinality(Behind(L[n])) = n - 1
  <2> SUFFICES ASSUME NEW n \in N PROVE L[n] \in S /\ Cardinality(Behind(L[n])) = n - 1
    OBVIOUS
  <2>1. L[n] = CHOOSE e \in S : Cardinality(Behind(e)) = n - 1
    BY DEF ByPlace
  <2> HIDE DEF Behind, N, L
  <2> QED BY <1>1, <2>1
<1> DEFINE e == L[i]
           g == L[j]
<1>3. e \in S /\ g \in S /\ Cardinality(Behind(e)) = i - 1 /\ Cardinality(Behind(g)) = j - 1
  BY <1>2, Zenon
<1>4. SUFFICES ASSUME <<e, g>> \notin R PROVE FALSE
  OBVIOUS
<1> HIDE DEF L
<1>5. e # g
  <2> HIDE DEF Behind, e, g
  <2> QED BY <1>3, <1>1
<1>6. <<g, e>> \in R
  <2> HIDE DEF e, g
  <2> QED BY <1>3, <1>4, <1>5 DEF StrictOrder
<1>7. Behind(g) \subseteq Behind(e)
  <2> HIDE DEF e, g
  <2> QED BY <1>3, <1>6 DEF StrictOrder
<1>8. IsFiniteSet(Behind(e)) /\ Cardinality(Behind(g)) <= Cardinality(Behind(e))
  <2>1. IsFiniteSet(Behind(e))
    BY FS_Subset
  <2> HIDE DEF Behind, e, g
  <2> QED BY <1>7, <2>1, FS_Subset
<1> QED
  <2> HIDE DEF Behind, e, g
  <2> QED BY <1>3, <1>8, <1>1

\* PairRoutes two tuples of three numbers the lesser one comes first.
Lesser(a, b) ==
  \/ a[1] < b[1]
  \/ a[1] = b[1] /\ a[2] < b[2]
  \/ a[1] = b[1] /\ a[2] = b[2] /\ a[3] < b[3]

LEMMA PrecedesOfThree ==
  ASSUME NEW a1 \in Int, NEW a2 \in Int, NEW a3 \in Int, NEW b1 \in Int, NEW b2 \in Int, NEW b3 \in Int
  PROVE  Precedes(<<a1, a2, a3>>, <<b1, b2, b3>>) <=> Lesser(<<a1, a2, a3>>, <<b1, b2, b3>>)
<1> DEFINE a == <<a1, a2, a3>>
           b == <<b1, b2, b3>>
<1>1. DOMAIN a = {1, 2, 3}
  BY DEF a
<1>2. a[1] = a1 /\ a[2] = a2 /\ a[3] = a3 /\ b[1] = b1 /\ b[2] = b2 /\ b[3] = b3
  OBVIOUS
<1>3. Precedes(a, b) <=> \/ a[1] < b[1] /\ \A j \in 1..0 : a[j] = b[j]
                         \/ a[2] < b[2] /\ \A j \in 1..1 : a[j] = b[j]
                         \/ a[3] < b[3] /\ \A j \in 1..2 : a[j] = b[j]
  <2> HIDE DEF a, b
  <2>1. 1 - 1 = 0 /\ 2 - 1 = 1 /\ 3 - 1 = 2
    OBVIOUS
  <2> QED BY <1>1, <2>1 DEF Precedes
<1>4. 1..0 = {} /\ 1..1 = {1} /\ 1..2 = {1, 2}
  OBVIOUS
<1> HIDE DEF a, b
<1> QED BY <1>2, <1>3, <1>4 DEF Lesser, a, b

LEMMA LesserIsStrict ==
  ASSUME NEW a \in Int \X Int \X Int, NEW b \in Int \X Int \X Int, NEW c \in Int \X Int \X Int
  PROVE  /\ ~Lesser(a, a)
         /\ Lesser(a, b) /\ Lesser(b, c) => Lesser(a, c)
         /\ a # b => Lesser(a, b) \/ Lesser(b, a)
BY DEF Lesser

FlowList == Sorted(scan.flows, Precedes)

LEMMA ScanShape ==
  ASSUME scan \in Scans
  PROVE  /\ scan.sources \in Nat /\ scan.sinks \in Nat
         /\ IsFiniteSet(scan.flows) /\ Cardinality(scan.flows) \in Nat
         /\ scan.flows \subseteq (Nat \ {NoFlow}) \X (1..scan.sources) \X (1..scan.sinks)
         /\ \A k \in 1..scan.sinks : scan.ofSink[k] \in Nat
         /\ \A i \in 1..scan.sources, k \in 1..scan.sinks :
              scan.joined[<<scan.inFunction[i], scan.ofSink[k]>>] \in Nat
         /\ MaxCandidates \in Nat \ {0} /\ SourceWindow \in Nat \ {0}
         /\ SinkWindow \in Nat \ {0} /\ MaxQueries \in Nat \ {0}
BY CandidateAssumption, FS_CardinalityType

\* The flows are listed once each, lower ranks first.
LEMMA FlowsAreListed ==
  ASSUME scan \in Scans
  PROVE  /\ NamesEachOnce(FlowList, scan.flows)
         /\ \A i, j \in 1..Cardinality(scan.flows) : i < j => FlowList[i][1] <= FlowList[j][1]
<1> DEFINE S == scan.flows
           R == {p \in S \X S : Lesser(p[1], p[2])}
<1>1. IsFiniteSet(S) /\ S \subseteq Int \X Int \X Int
  BY ScanShape
<1>2. \A e, f \in S : Precedes(e, f) <=> Lesser(e, f)
  <2> HIDE DEF S
  <2> TAKE e, f \in S
  <2>1. PICK a1 \in Int, a2 \in Int, a3 \in Int : e = <<a1, a2, a3>>
    BY <1>1
  <2>2. PICK b1 \in Int, b2 \in Int, b3 \in Int : f = <<b1, b2, b3>>
    BY <1>1
  <2> QED BY <2>1, <2>2, PrecedesOfThree
<1>3. \A e, f \in S : <<e, f>> \in R <=> Lesser(e, f)
  OBVIOUS
<1> HIDE DEF S, R
<1>4. StrictOrder(R, S)
  <2>1. \A e, f, g \in S : /\ ~Lesser(e, e)
                           /\ Lesser(e, f) /\ Lesser(f, g) => Lesser(e, g)
                           /\ e # f => Lesser(e, f) \/ Lesser(f, e)
    BY <1>1, LesserIsStrict
  <2> QED BY <1>3, <2>1 DEF StrictOrder
<1>5. \A e \in S : {f \in S : <<f, e>> \in R} = {f \in S : Precedes(f, e)}
  BY <1>2, <1>3
<1>6. FlowList = ByPlace(S, R)
  <2> DEFINE A(n) == CHOOSE e \in S : Cardinality({f \in S : Precedes(f, e)}) = n - 1
             B(n) == CHOOSE e \in S : Cardinality({f \in S : <<f, e>> \in R}) = n - 1
  <2>1. \A n : A(n) = B(n)
    BY <1>5
  <2>2. FlowList = [n \in 1..Cardinality(S) |-> A(n)]
    BY DEF FlowList, Sorted, S
  <2>3. [n \in 1..Cardinality(S) |-> A(n)] = [n \in 1..Cardinality(S) |-> B(n)]
    <3> HIDE DEF A, B
    <3> QED BY <2>1
  <2> QED BY <2>2, <2>3 DEF ByPlace
<1>7. NamesEachOnce(FlowList, S)
  BY <1>1, <1>4, <1>6, ListedByPlace
<1>8. ASSUME NEW i \in 1..Cardinality(S), NEW j \in 1..Cardinality(S), i < j
      PROVE  FlowList[i][1] <= FlowList[j][1]
  <2>1. <<FlowList[i], FlowList[j]>> \in R
    BY <1>1, <1>4, <1>6, <1>8, InOrderOfPlace
  <2>2. FlowList[i] \in S /\ FlowList[j] \in S
    BY <1>7 DEF NamesEachOnce
  <2> DEFINE a == FlowList[i]
             b == FlowList[j]
  <2>3. a \in Int \X Int \X Int /\ b \in Int \X Int \X Int /\ Lesser(a, b)
    BY <1>1, <1>3, <2>1, <2>2
  <2> HIDE DEF a, b
  <2>4. a[1] <= b[1]
    BY <2>3 DEF Lesser
  <2> QED BY <2>4 DEF a, b
<1> QED BY <1>7, <1>8 DEF S

LEMMA LeadShape ==
  ASSUME scan \in Scans, NEW r
  PROVE  r \in RoutesOfPairs <=>
           \E s \in 1..scan.sources, k \in 1..scan.sinks :
             \E n \in 1..scan.joined[<<scan.inFunction[s], scan.ofSink[k]>>] :
               r = <<NoFlow, s, k, n>> /\ ~HasFlow(s, k)
<1> DEFINE PairRoutes(s, k) == {<<NoFlow, s, k, n>> : n \in 1..scan.joined[<<scan.inFunction[s], scan.ofSink[k]>>]}
           From(s) == UNION {PairRoutes(s, k) : k \in {x \in 1..scan.sinks : ~HasFlow(s, x)}}
<1>1. RoutesOfPairs = UNION {From(s) : s \in 1..scan.sources}
  BY DEF RoutesOfPairs
<1>2. \A s, k : r \in PairRoutes(s, k) <=> \E n \in 1..scan.joined[<<scan.inFunction[s], scan.ofSink[k]>>] : r = <<NoFlow, s, k, n>>
  OBVIOUS
<1>3. \A s : r \in From(s) <=> \E k \in 1..scan.sinks : ~HasFlow(s, k) /\ r \in PairRoutes(s, k)
  <2> HIDE DEF PairRoutes
  <2> QED OBVIOUS
<1>4. r \in RoutesOfPairs <=> \E s \in 1..scan.sources : r \in From(s)
  <2> HIDE DEF From
  <2> QED BY <1>1
<1> HIDE DEF PairRoutes, From
<1> QED BY <1>2, <1>3, <1>4

\* Call routes of one source are listed once each.
LEMMA RoutesAreListed ==
  ASSUME scan \in Scans, NEW s \in 1..scan.sources, NEW S, IsFiniteSet(S),
         \A r \in S : r \in RoutesOfPairs /\ r[2] = s
  PROVE  NamesEachOnce(Sorted(S, BySink), S)
<1> DEFINE Place(r) == <<scan.ofSink[r[3]], r[3], r[4]>>
           R == {p \in S \X S : Lesser(Place(p[1]), Place(p[2]))}
<1>1. \A r \in S : /\ r = <<NoFlow, s, r[3], r[4]>>
                   /\ Place(r) \in Int \X Int \X Int
  <2> SUFFICES ASSUME NEW r \in S PROVE r = <<NoFlow, s, r[3], r[4]>> /\ Place(r) \in Int \X Int \X Int
    OBVIOUS
  <2>1. PICK z \in 1..scan.sources, k \in 1..scan.sinks :
             \E n \in 1..scan.joined[<<scan.inFunction[z], scan.ofSink[k]>>] : r = <<NoFlow, z, k, n>>
    BY LeadShape
  <2>2. scan.joined[<<scan.inFunction[z], scan.ofSink[k]>>] \in Nat /\ scan.ofSink[k] \in Nat
    BY ScanShape
  <2>3. PICK n \in Nat : r = <<NoFlow, z, k, n>>
    BY <2>1, <2>2
  <2> QED BY <2>2, <2>3
<1>2. \A e, f \in S : BySink(e, f) <=> Lesser(Place(e), Place(f))
  <2> TAKE e, f \in S
  <2>1. scan.ofSink[e[3]] \in Int /\ e[3] \in Int /\ e[4] \in Int
    BY <1>1
  <2>2. scan.ofSink[f[3]] \in Int /\ f[3] \in Int /\ f[4] \in Int
    BY <1>1
  <2> QED BY <2>1, <2>2, PrecedesOfThree DEF BySink
<1>3. \A e, f \in S : <<e, f>> \in R <=> Lesser(Place(e), Place(f))
  OBVIOUS
<1>4. \A e, f \in S : Place(e) = Place(f) => e = f
  BY <1>1
<1> HIDE DEF Place, R
<1>5. StrictOrder(R, S)
  <2>1. \A e, f, g \in S : /\ ~Lesser(Place(e), Place(e))
                           /\ Lesser(Place(e), Place(f)) /\ Lesser(Place(f), Place(g)) => Lesser(Place(e), Place(g))
                           /\ e # f => Lesser(Place(e), Place(f)) \/ Lesser(Place(f), Place(e))
    BY <1>1, <1>4, LesserIsStrict
  <2> QED BY <1>3, <2>1 DEF StrictOrder
<1>6. \A e \in S : {f \in S : <<f, e>> \in R} = {f \in S : BySink(f, e)}
  BY <1>2, <1>3
<1>7. Sorted(S, BySink) = ByPlace(S, R)
  <2> DEFINE A(n) == CHOOSE e \in S : Cardinality({f \in S : BySink(f, e)}) = n - 1
             B(n) == CHOOSE e \in S : Cardinality({f \in S : <<f, e>> \in R}) = n - 1
  <2>1. \A n : A(n) = B(n)
    BY <1>6
  <2>2. Sorted(S, BySink) = [n \in 1..Cardinality(S) |-> A(n)]
    BY DEF Sorted
  <2>3. [n \in 1..Cardinality(S) |-> A(n)] = [n \in 1..Cardinality(S) |-> B(n)]
    <3> HIDE DEF A, B
    <3> QED BY <2>1
  <2> QED BY <2>2, <2>3 DEF ByPlace
<1> QED BY <1>5, <1>7, ListedByPlace

\* The invariant.  Call routes are taken when their pair was passed: a window of
\* sinks that is done, or the sources before this one of the present window.
Passed(s, k) == k < place[1] \/ (k < place[1] + SinkWindow /\ s < place[2])

Flowing == Cardinality(scan.flows)
Listed == {inOrder[i] : i \in 1..Len(inOrder)}
AsCandidates == {Append(f, 1) : f \in scan.flows}
Rested == stage = "rest" \/ (stage = "done" /\ ~limitReached)

\* Flows have the first places, in order, call routes what is left.
FlowsFirst ==
  /\ scan \in Scans
  /\ stage \in {"flows", "pairs", "rest", "done"}
  /\ candidates \in Seq(AsCandidates \union RoutesOfPairs)
  /\ inOrder \in Seq(IF stage = "flows" THEN scan.flows ELSE scan.flows \union RoutesOfPairs)
  /\ Len(candidates) <= MaxCandidates
  /\ \A i \in 1..Len(candidates) :
       IF i <= Flowing THEN candidates[i] = Append(FlowList[i], 1) ELSE candidates[i] \in RoutesOfPairs
  /\ stage = "flows" => /\ Len(candidates) + Len(inOrder) = Flowing
                        /\ \A i \in 1..Len(inOrder) : inOrder[i] = FlowList[Len(candidates) + i]
  /\ stage = "pairs" \/ Rested => Flowing <= Len(candidates)

\* What the flags say.
Explained ==
  /\ limitReached \in BOOLEAN /\ exhausted \in BOOLEAN
  /\ limitReached => stage = "done" /\ reason = "candidate_budget" /\ Len(candidates) = MaxCandidates
  /\ stage \in {"flows", "pairs"} => reason = "" /\ ~exhausted
  /\ Rested => reason # "candidate_budget" /\ (reason = "" => exhausted)
  /\ stage = "done" /\ ~limitReached => inOrder = <<>>
  /\ exhausted => Flowing <= Len(candidates)

\* No call route is in two places.
NoneTwice ==
  /\ \A i, j \in 1..Len(candidates) : candidates[i] = candidates[j] => i = j
  /\ stage \in {"pairs", "rest"} =>
       /\ \A i, j \in 1..Len(inOrder) : inOrder[i] = inOrder[j] => i = j
       /\ Listed \intersect Chosen = {}
       /\ Listed \subseteq RoutesOfPairs

\* Where each call route is.
PairsInTurn ==
  /\ place \in (Nat \ {0}) \X (Nat \ {0})
  /\ scan.sources > 0 => place[2] <= scan.sources
  /\ stage = "flows" => place = <<1, 1>>
  /\ stage = "pairs" => \A r \in RoutesOfPairs : /\ r \in Chosen <=> r[4] = 1 /\ Passed(r[2], r[3])
                                                 /\ r \in Listed <=> r[4] > 1 /\ Passed(r[2], r[3])
  /\ exhausted => \A r \in RoutesOfPairs : r[4] = 1 => r \in Chosen
  /\ Rested /\ exhausted => RoutesOfPairs \subseteq Chosen \union Listed

CandidateInv == FlowsFirst /\ Explained /\ NoneTwice /\ PairsInTurn

LEMMA SameScan ==
  ASSUME scan' = scan
  PROVE  /\ FlowList' = FlowList /\ RoutesOfPairs' = RoutesOfPairs
         /\ AsCandidates' = AsCandidates /\ Flowing' = Flowing
<1>1. FlowList' = FlowList
  BY DEF FlowList, Sorted
<1>2. RoutesOfPairs' = RoutesOfPairs
  BY DEF RoutesOfPairs, HasFlow
<1>3. AsCandidates' = AsCandidates
  BY DEF AsCandidates
<1> QED BY <1>1, <1>2, <1>3 DEF Flowing

\* Flows and call routes are told apart by the rank.
LEMMA FlowsAreNoRoutes ==
  ASSUME scan \in Scans
  PROVE  /\ \A f \in scan.flows : /\ Append(f, 1)[1] = f[1] /\ f[1] # NoFlow /\ Append(f, 1)[4] = 1
                                  /\ f[1] \in Int
         /\ \A f, g \in scan.flows : Append(f, 1) = Append(g, 1) => f = g
         /\ \A r \in RoutesOfPairs : r[1] = NoFlow /\ r[4] \in Nat \ {0}
                                     /\ r[2] \in 1..scan.sources /\ r[3] \in 1..scan.sinks
         /\ AsCandidates \intersect RoutesOfPairs = {}
<1> DEFINE T == Nat \union (1..scan.sources) \union (1..scan.sinks)
<1>1. \A f \in scan.flows : /\ f = <<f[1], f[2], f[3]>> /\ f[1] \in Nat /\ f[1] # NoFlow
                            /\ f \in Seq(T) /\ Len(f) = 3
  <2> SUFFICES ASSUME NEW f \in scan.flows
               PROVE  /\ f = <<f[1], f[2], f[3]>> /\ f[1] \in Nat /\ f[1] # NoFlow
                      /\ f \in Seq(T) /\ Len(f) = 3
    OBVIOUS
  <2>1. f \in (Nat \ {NoFlow}) \X (1..scan.sources) \X (1..scan.sinks)
    BY ScanShape
  <2>2. PICK a \in Nat \ {NoFlow}, b \in 1..scan.sources, c \in 1..scan.sinks : f = <<a, b, c>>
    BY <2>1
  <2> QED BY <2>2
<1>2. \A f \in scan.flows : /\ Append(f, 1)[1] = f[1] /\ Append(f, 1)[2] = f[2]
                            /\ Append(f, 1)[3] = f[3] /\ Append(f, 1)[4] = 1
  <2> SUFFICES ASSUME NEW f \in scan.flows
               PROVE  /\ Append(f, 1)[1] = f[1] /\ Append(f, 1)[2] = f[2]
                      /\ Append(f, 1)[3] = f[3] /\ Append(f, 1)[4] = 1
    OBVIOUS
  <2>1. f \in Seq(T) /\ Len(f) = 3 /\ 1 \in T
    BY <1>1
  <2> HIDE DEF T
  <2> DEFINE c == Append(f, 1)
  <2>2. /\ \A i \in 1..Len(f) : c[i] = f[i]
        /\ c[Len(f) + 1] = 1
    BY <2>1, AppendProperties, Zenon
  <2>3. 1 \in 1..3 /\ 2 \in 1..3 /\ 3 \in 1..3 /\ 3 + 1 = 4
    OBVIOUS
  <2> HIDE DEF c
  <2>4. c[1] = f[1] /\ c[2] = f[2] /\ c[3] = f[3] /\ c[4] = 1
    BY <2>1, <2>2, <2>3
  <2> QED BY <2>4 DEF c
<1> HIDE DEF T
<1>3. \A f, g \in scan.flows : Append(f, 1) = Append(g, 1) => f = g
  <2> SUFFICES ASSUME NEW f \in scan.flows, NEW g \in scan.flows, Append(f, 1) = Append(g, 1) PROVE f = g
    OBVIOUS
  <2>1. f[1] = g[1] /\ f[2] = g[2] /\ f[3] = g[3]
    BY <1>2
  <2> QED BY <1>1, <2>1
<1>4. \A r \in RoutesOfPairs : r[1] = NoFlow /\ r[4] \in Nat \ {0}
                               /\ r[2] \in 1..scan.sources /\ r[3] \in 1..scan.sinks
  <2> SUFFICES ASSUME NEW r \in RoutesOfPairs
               PROVE  r[1] = NoFlow /\ r[4] \in Nat \ {0}
                      /\ r[2] \in 1..scan.sources /\ r[3] \in 1..scan.sinks
    OBVIOUS
  <2>1. PICK s \in 1..scan.sources, k \in 1..scan.sinks :
             \E n \in 1..scan.joined[<<scan.inFunction[s], scan.ofSink[k]>>] : r = <<NoFlow, s, k, n>>
    BY LeadShape
  <2>2. scan.joined[<<scan.inFunction[s], scan.ofSink[k]>>] \in Nat
    BY ScanShape
  <2>3. PICK n \in Nat \ {0} : r = <<NoFlow, s, k, n>>
    BY <2>1, <2>2
  <2> QED BY <2>3
<1>5. AsCandidates \intersect RoutesOfPairs = {}
  BY <1>1, <1>2, <1>4 DEF AsCandidates
<1> QED BY <1>1, <1>2, <1>3, <1>4, <1>5

\* What putting one list behind another makes.
IsBehind(c, a, b, T) ==
  /\ c \in Seq(T) /\ Len(c) = Len(a) + Len(b)
  /\ \A i \in 1..Len(a) : c[i] = a[i]
  /\ \A i \in 1..Len(c) : i > Len(a) => c[i] = b[i - Len(a)] /\ i - Len(a) \in 1..Len(b)
  /\ {c[i] : i \in 1..Len(c)} = {a[i] : i \in 1..Len(a)} \union {b[i] : i \in 1..Len(b)}

LEMMA PutBehind ==
  ASSUME NEW T, NEW a \in Seq(T), NEW b \in Seq(T)
  PROVE  IsBehind(a \o b, a, b, T)
<1> DEFINE c == a \o b
<1>1. c \in Seq(T) /\ Len(c) = Len(a) + Len(b) /\ Len(a) \in Nat /\ Len(b) \in Nat
  OBVIOUS
<1>2. \A i \in 1..Len(a) : c[i] = a[i]
  OBVIOUS
<1>3. \A i \in 1..Len(b) : c[Len(a) + i] = b[i]
  BY <1>1
<1>4. \A i \in 1..Len(c) : i > Len(a) => c[i] = b[i - Len(a)] /\ i - Len(a) \in 1..Len(b)
  BY <1>1
<1> HIDE DEF c
<1>5. \A x : (\E i \in 1..Len(c) : x = c[i]) <=> (\E i \in 1..Len(a) : x = a[i]) \/ (\E i \in 1..Len(b) : x = b[i])
  <2> TAKE x
  <2>1. ASSUME NEW i \in 1..Len(c) PROVE (c[i] = a[i] /\ i \in 1..Len(a)) \/ (c[i] = b[i - Len(a)] /\ i - Len(a) \in 1..Len(b))
    BY <1>1, <1>2, <1>4
  <2>2. \A i \in 1..Len(a) : i \in 1..Len(c) /\ c[i] = a[i]
    BY <1>1, <1>2
  <2>3. \A i \in 1..Len(b) : Len(a) + i \in 1..Len(c) /\ c[Len(a) + i] = b[i]
    BY <1>1, <1>3
  <2> QED BY <2>1, <2>2, <2>3
<1>6. {c[i] : i \in 1..Len(c)} = {a[i] : i \in 1..Len(a)} \union {b[i] : i \in 1..Len(b)}
  BY <1>5
<1>7. IsBehind(c, a, b, T)
  BY <1>1, <1>2, <1>4, <1>6 DEF IsBehind
<1> QED BY <1>7 DEF c

LEMMA ListOfAll ==
  ASSUME NEW S, NEW L, NamesEachOnce(L, S)
  PROVE  /\ L \in Seq(S) /\ Len(L) = Cardinality(S) /\ Len(L) \in Nat
         /\ {L[i] : i \in 1..Len(L)} = S
         /\ \A i, j \in 1..Len(L) : L[i] = L[j] => i = j
<1>1. L \in Seq(S) /\ Len(L) = Cardinality(S) /\ Len(L) \in Nat
  BY DEF NamesEachOnce
<1> QED BY <1>1 DEF NamesEachOnce

LEMMA CandidateStart == CandidateInit => CandidateInv
<1> SUFFICES ASSUME CandidateInit PROVE CandidateInv
  OBVIOUS
<1>0. /\ scan \in Scans /\ stage = "flows" /\ place = <<1, 1>> /\ reason = ""
      /\ exhausted = FALSE /\ limitReached = FALSE /\ candidates = <<>>
      /\ inOrder = Sorted(scan.flows, Precedes)
  BY DEF CandidateInit
<1>1. scan \in Scans /\ inOrder = FlowList /\ NamesEachOnce(FlowList, scan.flows)
  BY <1>0, FlowsAreListed DEF FlowList
<1>2. inOrder \in Seq(scan.flows) /\ Len(inOrder) = Flowing /\ Flowing \in Nat
  BY <1>1, ListOfAll DEF Flowing
<1>3. MaxCandidates \in Nat
  BY <1>1, ScanShape
<1>4. Len(candidates) = 0 /\ 1..Len(candidates) = {} /\ Chosen = {}
  <2>1. Len(candidates) = 0 /\ DOMAIN candidates = 1..0
    BY <1>0, EmptySeq, LenProperties
  <2> QED BY <2>1 DEF Chosen
<1>5. FlowsFirst
  <2>1. candidates \in Seq(AsCandidates \union RoutesOfPairs)
    BY <1>0, EmptySeq
  <2>2. Len(candidates) + Len(inOrder) = Flowing /\ \A i \in 1..Len(inOrder) : Len(candidates) + i = i
    BY <1>2, <1>4
  <2>3. Len(candidates) <= MaxCandidates
    BY <1>3, <1>4
  <2> QED BY <1>0, <1>1, <1>2, <1>4, <2>1, <2>2, <2>3 DEF FlowsFirst, Rested
<1>6. Explained
  BY <1>0 DEF Explained, Rested
<1>7. NoneTwice
  BY <1>0, <1>4 DEF NoneTwice
<1>8. PairsInTurn
  <2>1. scan.sources \in Nat /\ place = <<1, 1>> /\ ~exhausted
    BY <1>0, ScanShape
  <2>2. place \in (Nat \ {0}) \X (Nat \ {0}) /\ place[2] = 1
    BY <2>1
  <2>3. scan.sources > 0 => place[2] <= scan.sources
    BY <2>1, <2>2
  <2> QED BY <1>0, <2>1, <2>2, <2>3 DEF PairsInTurn, Rested
<1> QED BY <1>5, <1>6, <1>7, <1>8 DEF CandidateInv

LEMMA ChosenBy ==
  ASSUME NEW T, candidates \in Seq(T)
  PROVE  Chosen = {candidates[i] : i \in 1..Len(candidates)}
<1>1. DOMAIN candidates = 1..Len(candidates)
  BY LenProperties
<1> QED BY <1>1 DEF Chosen

\* One item more at the end of a list without repetition.
LEMMA OneMoreListed ==
  ASSUME NEW T, NEW s \in Seq(T), NEW x \in T
  PROVE  /\ Append(s, x) \in Seq(T) /\ Len(Append(s, x)) = Len(s) + 1 /\ Len(s) \in Nat
         /\ \A i \in 1..Len(s) + 1 : Append(s, x)[i] = IF i <= Len(s) THEN s[i] ELSE x
         /\ {Append(s, x)[i] : i \in 1..Len(Append(s, x))} = {s[i] : i \in 1..Len(s)} \union {x}
         /\ (\A i, j \in 1..Len(s) : s[i] = s[j] => i = j) /\ (\A i \in 1..Len(s) : s[i] # x)
            => \A i, j \in 1..Len(s) + 1 : Append(s, x)[i] = Append(s, x)[j] => i = j
<1> DEFINE c == Append(s, x)
<1>1. c \in Seq(T) /\ Len(c) = Len(s) + 1 /\ Len(s) \in Nat
      /\ (\A i \in 1..Len(s) : c[i] = s[i]) /\ c[Len(s) + 1] = x
  BY AppendProperties, LenProperties
<1> HIDE DEF c
<1>2. \A i \in 1..Len(s) + 1 : c[i] = IF i <= Len(s) THEN s[i] ELSE x
  BY <1>1
<1>3. {c[i] : i \in 1..Len(c)} = {s[i] : i \in 1..Len(s)} \union {x}
  <2>1. 1..Len(c) = (1..Len(s)) \union {Len(s) + 1}
    BY <1>1
  <2> QED BY <1>1, <2>1
<1>4. ASSUME \A i, j \in 1..Len(s) : s[i] = s[j] => i = j, \A i \in 1..Len(s) : s[i] # x,
             NEW i \in 1..Len(s) + 1, NEW j \in 1..Len(s) + 1, c[i] = c[j]
      PROVE  i = j
  BY <1>1, <1>2, <1>4
<1> QED BY <1>1, <1>2, <1>3, <1>4 DEF c

LEMMA LimitStep ==
  ASSUME CandidateInv, stage \in {"flows", "rest"}, AtLimit, EndAtLimit
  PROVE  CandidateInv'
<1>1. /\ stage' = "done" /\ limitReached' = TRUE /\ reason' = "candidate_budget"
      /\ UNCHANGED <<scan, inOrder, place, asked, queries, exhausted, candidates>>
  BY DEF EndAtLimit
<1>2. scan \in Scans /\ MaxCandidates \in Nat
  BY ScanShape DEF CandidateInv, FlowsFirst
<1>3. /\ FlowList' = FlowList /\ RoutesOfPairs' = RoutesOfPairs
      /\ AsCandidates' = AsCandidates /\ Flowing' = Flowing
  BY <1>1, SameScan
<1>4. Chosen' = Chosen /\ Listed' = Listed
  BY <1>1 DEF Chosen, Listed
<1>5. Len(candidates) = MaxCandidates
  <2>1. Len(candidates) \in Nat
    BY LenProperties DEF CandidateInv, FlowsFirst
  <2> QED BY <1>2, <2>1 DEF AtLimit, CandidateInv, FlowsFirst
<1>6. FlowsFirst'
  <2>1. inOrder \in Seq(scan.flows \union RoutesOfPairs)
    <3>1. inOrder \in Seq(scan.flows) \/ inOrder \in Seq(scan.flows \union RoutesOfPairs)
      BY DEF CandidateInv, FlowsFirst
    <3>2. inOrder \in Seq(scan.flows) => inOrder \in Seq(scan.flows \union RoutesOfPairs)
      BY SeqMonotonic
    <3> QED BY <3>1, <3>2
  <2> QED BY <1>1, <1>3, <2>1 DEF FlowsFirst, CandidateInv, Rested
<1>7. Explained'
  BY <1>1, <1>3, <1>5 DEF Explained, CandidateInv, Rested
<1>8. NoneTwice'
  BY <1>1, <1>3, <1>4 DEF NoneTwice, CandidateInv
<1>9. PairsInTurn'
  BY <1>1, <1>3, <1>4 DEF PairsInTurn, CandidateInv, Rested
<1> QED BY <1>6, <1>7, <1>8, <1>9 DEF CandidateInv

LEMMA FlowStep ==
  ASSUME CandidateInv, TakeFlow, ~AtLimit
  PROVE  CandidateInv'
<1> DEFINE n == Len(candidates)
           h == Head(inOrder)
           c == Append(h, 1)
<1>1. /\ stage = "flows" /\ inOrder # <<>>
      /\ candidates' = Append(candidates, c)
      /\ inOrder' = Tail(inOrder)
      /\ UNCHANGED <<scan, stage, place, asked, queries, reason, exhausted, limitReached>>
  BY DEF TakeFlow
<1>2. /\ FlowList' = FlowList /\ RoutesOfPairs' = RoutesOfPairs
      /\ AsCandidates' = AsCandidates /\ Flowing' = Flowing
  BY <1>1, SameScan
<1>3. /\ scan \in Scans /\ MaxCandidates \in Nat /\ Flowing \in Nat
      /\ candidates \in Seq(AsCandidates \union RoutesOfPairs) /\ inOrder \in Seq(scan.flows)
      /\ n + Len(inOrder) = Flowing
      /\ \A i \in 1..Len(inOrder) : inOrder[i] = FlowList[n + i]
      /\ \A i \in 1..n : IF i <= Flowing THEN candidates[i] = Append(FlowList[i], 1) ELSE candidates[i] \in RoutesOfPairs
  <2>1. scan \in Scans
    BY DEF CandidateInv, FlowsFirst
  <2> QED BY <1>1, <2>1, ScanShape DEF CandidateInv, FlowsFirst, Flowing
<1>4. /\ n \in Nat /\ Len(inOrder) \in Nat \ {0}
      /\ h \in scan.flows /\ h = inOrder[1]
      /\ Tail(inOrder) \in Seq(scan.flows) /\ Len(Tail(inOrder)) = Len(inOrder) - 1
      /\ \A i \in 1..Len(Tail(inOrder)) : Tail(inOrder)[i] = inOrder[i + 1]
  <2>1. n \in Nat
    BY <1>3, LenProperties
  <2>2. Len(inOrder) \in Nat \ {0}
    BY <1>1, <1>3, EmptySeq
  <2>3. h = inOrder[1]
    BY <1>1, <1>3
  <2> QED BY <1>1, <1>3, <2>1, <2>2, <2>3, HeadTailProperties
<1>5. h = FlowList[n + 1] /\ n + 1 \in 1..Flowing
  BY <1>3, <1>4
<1>6. /\ \A i \in 1..Flowing : FlowList[i] \in scan.flows
      /\ \A i, j \in 1..Flowing : FlowList[i] = FlowList[j] => i = j
  BY <1>3, FlowsAreListed DEF NamesEachOnce, Flowing
<1>7. c \in AsCandidates
  BY <1>4 DEF AsCandidates
<1> HIDE DEF h
<1>8. \A i \in 1..n : candidates[i] # c
  <2> SUFFICES ASSUME NEW i \in 1..n, candidates[i] = c PROVE FALSE
    OBVIOUS
  <2>1. i \in 1..Flowing /\ candidates[i] = Append(FlowList[i], 1)
    BY <1>3, <1>4, <1>5
  <2>2. FlowList[i] = FlowList[n + 1]
    BY <1>3, <1>4, <1>5, <1>6, <2>1, FlowsAreNoRoutes
  <2> QED BY <1>4, <1>5, <1>6, <2>1, <2>2
<1> HIDE DEF c
<1>9. /\ candidates' \in Seq(AsCandidates \union RoutesOfPairs) /\ Len(candidates') = n + 1
      /\ \A i \in 1..n + 1 : candidates'[i] = IF i <= n THEN candidates[i] ELSE c
      /\ \A i, j \in 1..n + 1 : candidates'[i] = candidates'[j] => i = j
  <2>1. c \in AsCandidates \union RoutesOfPairs
    BY <1>7
  <2>2. \A i, j \in 1..n : candidates[i] = candidates[j] => i = j
    BY DEF CandidateInv, NoneTwice
  <2> QED BY <1>1, <1>3, <1>8, <2>1, <2>2, OneMoreListed
<1>10. FlowsFirst'
  <2>1. n + 1 <= MaxCandidates
    BY <1>3, <1>4 DEF AtLimit
  <2>2. \A i \in 1..n + 1 : IF i <= Flowing THEN candidates'[i] = Append(FlowList[i], 1) ELSE candidates'[i] \in RoutesOfPairs
    <3> TAKE i \in 1..n + 1
    <3>1. CASE i = n + 1
      BY <1>4, <1>5, <1>9, <3>1 DEF c
    <3>2. CASE i # n + 1
      <4>1. i \in 1..n /\ i <= n
        BY <1>3, <3>2
      <4>2. candidates'[i] = candidates[i]
        BY <1>9, <4>1
      <4>3. IF i <= Flowing THEN candidates[i] = Append(FlowList[i], 1) ELSE candidates[i] \in RoutesOfPairs
        BY <1>3, <4>1
      <4> QED BY <4>2, <4>3
    <3> QED BY <3>1, <3>2
  <2>3. n + 1 + Len(inOrder') = Flowing /\ \A i \in 1..Len(inOrder') : inOrder'[i] = FlowList[n + 1 + i]
    <3>1. n + 1 + Len(Tail(inOrder)) = Flowing
      <4> DEFINE m == Len(inOrder)
                 k == Len(Tail(inOrder))
      <4>1. n \in Nat /\ m \in Nat /\ k = m - 1 /\ n + m = Flowing /\ Flowing \in Nat
        BY <1>3, <1>4
      <4> HIDE DEF n, m, k
      <4>2. n + 1 + k = Flowing
        BY <4>1
      <4> QED BY <4>2 DEF k
    <3>2. ASSUME NEW i \in 1..Len(Tail(inOrder)) PROVE Tail(inOrder)[i] = FlowList[n + 1 + i]
      <4>1. i + 1 \in 1..Len(inOrder) /\ n + (i + 1) = n + 1 + i
        BY <1>4
      <4> QED BY <1>3, <1>4, <4>1
    <3> QED BY <1>1, <3>1, <3>2
  <2> QED BY <1>1, <1>2, <1>3, <1>4, <1>9, <2>1, <2>2, <2>3 DEF FlowsFirst, Rested
<1>11. Explained'
  BY <1>1, <1>2 DEF Explained, CandidateInv, Rested
<1>12. NoneTwice'
  BY <1>1, <1>9 DEF NoneTwice
<1>13. PairsInTurn'
  BY <1>1, <1>2 DEF PairsInTurn, CandidateInv, Explained, Rested
<1> QED BY <1>10, <1>11, <1>12, <1>13 DEF CandidateInv

LEMMA StartStep ==
  ASSUME CandidateInv, StartPairs
  PROVE  CandidateInv'
<1>1. /\ stage = "flows" /\ inOrder = <<>> /\ stage' = "pairs"
      /\ UNCHANGED <<scan, inOrder, place, asked, queries, reason, exhausted, candidates, limitReached>>
  BY DEF StartPairs
<1>2. /\ FlowList' = FlowList /\ RoutesOfPairs' = RoutesOfPairs
      /\ AsCandidates' = AsCandidates /\ Flowing' = Flowing
  BY <1>1, SameScan
<1>3. Chosen' = Chosen /\ Listed' = Listed
  BY <1>1 DEF Chosen, Listed
<1>4. /\ scan \in Scans /\ Len(inOrder) = 0 /\ Len(candidates) = Flowing /\ Flowing \in Nat
      /\ candidates \in Seq(AsCandidates \union RoutesOfPairs)
  <2>1. scan \in Scans /\ Len(inOrder) = 0 /\ candidates \in Seq(AsCandidates \union RoutesOfPairs)
    BY <1>1, EmptySeq DEF CandidateInv, FlowsFirst
  <2>2. Len(candidates) \in Nat /\ Flowing \in Nat
    BY <2>1, LenProperties, ScanShape DEF Flowing
  <2> QED BY <1>1, <2>1, <2>2 DEF CandidateInv, FlowsFirst
<1>5. Listed = {}
  <2>1. 1..Len(inOrder) = {}
    BY <1>4
  <2> QED BY <2>1 DEF Listed
<1>6. Chosen \intersect RoutesOfPairs = {}
  <2>1. Chosen = {candidates[i] : i \in 1..Len(candidates)}
    BY <1>4, ChosenBy
  <2>2. \A i \in 1..Len(candidates) : candidates[i] = Append(FlowList[i], 1)
    BY <1>4 DEF CandidateInv, FlowsFirst
  <2>3. \A i \in 1..Flowing : FlowList[i] \in scan.flows
    BY <1>4, FlowsAreListed DEF NamesEachOnce, Flowing
  <2>4. Chosen \subseteq AsCandidates
    BY <1>4, <2>1, <2>2, <2>3 DEF AsCandidates
  <2> QED BY <1>4, <2>4, FlowsAreNoRoutes
<1>7. FlowsFirst'
  <2>1. inOrder \in Seq(scan.flows \union RoutesOfPairs)
    BY <1>1, EmptySeq
  <2> QED BY <1>1, <1>2, <1>4, <2>1 DEF FlowsFirst, CandidateInv, Rested
<1>8. Explained'
  BY <1>1, <1>2 DEF Explained, CandidateInv, Rested
<1>9. NoneTwice'
  <2>1. 1..Len(inOrder) = {}
    BY <1>4
  <2> QED BY <1>1, <1>3, <1>5, <2>1 DEF NoneTwice, CandidateInv
<1>10. PairsInTurn'
  <2>1. place[1] = 1 /\ place[2] = 1
    BY <1>1 DEF CandidateInv, PairsInTurn
  <2>2. \A r \in RoutesOfPairs : ~Passed(r[2], r[3])
    <3>1. \A r \in RoutesOfPairs : r[2] \in Nat \ {0} /\ r[3] \in Nat \ {0}
      BY <1>4, FlowsAreNoRoutes
    <3> QED BY <2>1, <3>1 DEF Passed
  <2>3. \A r \in RoutesOfPairs : ~Passed(r[2], r[3])'
    BY <1>1, <2>2 DEF Passed
  <2> QED BY <1>1, <1>2, <1>3, <1>5, <1>6, <2>3 DEF PairsInTurn, CandidateInv, Explained, Rested
<1> QED BY <1>7, <1>8, <1>9, <1>10 DEF CandidateInv

LEMMA BehindAll ==
  \A a, b \in Nat : ~(a <= b) => \A c \in 1..b : c < a
OBVIOUS

LEMMA EndStep ==
  ASSUME CandidateInv, stage = "pairs", NEW why, NEW complete \in BOOLEAN, EndPairs(why, complete),
         why # "candidate_budget", why = "" => complete, complete => ~InWindows
  PROVE  CandidateInv'
<1>1. /\ stage' = "rest" /\ reason' = why /\ exhausted' = complete
      /\ UNCHANGED <<scan, inOrder, place, asked, queries, candidates, limitReached>>
  BY DEF EndPairs
<1>2. /\ FlowList' = FlowList /\ RoutesOfPairs' = RoutesOfPairs
      /\ AsCandidates' = AsCandidates /\ Flowing' = Flowing
  BY <1>1, SameScan
<1>3. Chosen' = Chosen /\ Listed' = Listed
  BY <1>1 DEF Chosen, Listed
<1>4. FlowsFirst'
  BY <1>1, <1>2 DEF FlowsFirst, CandidateInv, Rested
<1>5. Explained'
  BY <1>1, <1>2 DEF Explained, CandidateInv, FlowsFirst, Rested
<1>6. NoneTwice'
  BY <1>1, <1>2, <1>3 DEF NoneTwice, CandidateInv
<1>7. PairsInTurn'
  <2>1. ASSUME complete, NEW r \in RoutesOfPairs PROVE Passed(r[2], r[3])
    <3>1. scan \in Scans /\ place[1] \in Nat
      BY DEF CandidateInv, FlowsFirst, PairsInTurn
    <3>2. /\ r[2] \in 1..scan.sources /\ r[3] \in 1..scan.sinks
          /\ scan.sources \in Nat /\ scan.sinks \in Nat
      BY <3>1, FlowsAreNoRoutes, ScanShape
    <3>3. ~(place[1] <= scan.sinks)
      BY <2>1, <3>2 DEF InWindows
    <3>5. r[3] < place[1]
      BY <3>1, <3>2, <3>3, BehindAll, Zenon
    <3> QED BY <3>5 DEF Passed
  <2>2. ASSUME complete, NEW r \in RoutesOfPairs PROVE r \in Chosen <=> r[4] = 1
    BY <2>1, <2>2 DEF CandidateInv, PairsInTurn
  <2>3. ASSUME complete, NEW r \in RoutesOfPairs PROVE r \in Chosen \union Listed
    <3>1. scan \in Scans
      BY DEF CandidateInv, FlowsFirst
    <3>2. r[4] \in Nat \ {0}
      BY <3>1, FlowsAreNoRoutes
    <3> QED BY <2>1, <2>2, <2>3, <3>2 DEF CandidateInv, PairsInTurn
  <2> QED BY <1>1, <1>2, <1>3, <2>2, <2>3 DEF PairsInTurn, CandidateInv, Rested
<1> QED BY <1>4, <1>5, <1>6, <1>7 DEF CandidateInv

LEMMA OtherStep ==
  ASSUME CandidateInv, TakeOther, ~AtLimit
  PROVE  CandidateInv'
<1> DEFINE n == Len(candidates)
           h == Head(inOrder)
           T == scan.flows \union RoutesOfPairs
<1>1. /\ stage = "rest" /\ inOrder # <<>>
      /\ candidates' = Append(candidates, h)
      /\ inOrder' = Tail(inOrder)
      /\ UNCHANGED <<scan, stage, place, asked, queries, reason, exhausted, limitReached>>
  BY DEF TakeOther
<1>2. /\ FlowList' = FlowList /\ RoutesOfPairs' = RoutesOfPairs
      /\ AsCandidates' = AsCandidates /\ Flowing' = Flowing
  BY <1>1, SameScan
<1>3. /\ scan \in Scans /\ MaxCandidates \in Nat /\ Flowing \in Nat /\ Flowing <= n
      /\ candidates \in Seq(AsCandidates \union RoutesOfPairs) /\ inOrder \in Seq(T)
      /\ \A i \in 1..n : IF i <= Flowing THEN candidates[i] = Append(FlowList[i], 1) ELSE candidates[i] \in RoutesOfPairs
  <2>1. scan \in Scans
    BY DEF CandidateInv, FlowsFirst
  <2> QED BY <1>1, <2>1, ScanShape DEF CandidateInv, FlowsFirst, Flowing, Rested
<1> HIDE DEF T
<1>4. /\ n \in Nat /\ Len(inOrder) \in Nat \ {0} /\ h = inOrder[1]
      /\ Tail(inOrder) \in Seq(T) /\ Len(Tail(inOrder)) = Len(inOrder) - 1
      /\ \A i \in 1..Len(Tail(inOrder)) : Tail(inOrder)[i] = inOrder[i + 1]
  <2>1. n \in Nat
    BY <1>3, LenProperties
  <2>2. Len(inOrder) \in Nat \ {0}
    BY <1>1, <1>3, EmptySeq
  <2>3. h = inOrder[1]
    BY <1>1, <1>3
  <2> QED BY <1>1, <1>3, <2>1, <2>2, <2>3, HeadTailProperties
<1>5. /\ \A i, j \in 1..Len(inOrder) : inOrder[i] = inOrder[j] => i = j
      /\ Listed \intersect Chosen = {} /\ Listed \subseteq RoutesOfPairs
  BY <1>1 DEF CandidateInv, NoneTwice
<1> HIDE DEF h
<1>6. h \in Listed /\ h \in RoutesOfPairs
  BY <1>4, <1>5 DEF Listed
<1>7. Chosen = {candidates[i] : i \in 1..n}
  BY <1>3, ChosenBy
<1>8. /\ candidates' \in Seq(AsCandidates \union RoutesOfPairs) /\ Len(candidates') = n + 1
      /\ \A i \in 1..n + 1 : candidates'[i] = IF i <= n THEN candidates[i] ELSE h
      /\ {candidates'[i] : i \in 1..Len(candidates')} = {candidates[i] : i \in 1..n} \union {h}
      /\ \A i, j \in 1..n + 1 : candidates'[i] = candidates'[j] => i = j
  <2>1. h \in AsCandidates \union RoutesOfPairs
    BY <1>6
  <2>2. \A i, j \in 1..n : candidates[i] = candidates[j] => i = j
    BY DEF CandidateInv, NoneTwice
  <2>3. \A i \in 1..n : candidates[i] # h
    BY <1>5, <1>6, <1>7
  <2> QED BY <1>1, <1>3, <2>1, <2>2, <2>3, OneMoreListed
<1>9. Chosen' = Chosen \union {h}
  <2>1. DOMAIN candidates' = 1..Len(candidates')
    BY <1>8, LenProperties
  <2>2. Chosen' = {candidates'[i] : i \in 1..Len(candidates')}
    BY <2>1 DEF Chosen
  <2> QED BY <1>7, <1>8, <2>2
<1>10. Listed' = Listed \ {h}
  <2>1. Listed' = {Tail(inOrder)[i] : i \in 1..Len(Tail(inOrder))}
    BY <1>1 DEF Listed
  <2>2. \A x : x \in Listed' <=> \E i \in 2..Len(inOrder) : x = inOrder[i]
    <3> TAKE x
    <3>1. \A i \in 1..Len(Tail(inOrder)) : i + 1 \in 2..Len(inOrder) /\ Tail(inOrder)[i] = inOrder[i + 1]
      BY <1>4
    <3>2. \A i \in 2..Len(inOrder) : i - 1 \in 1..Len(Tail(inOrder)) /\ Tail(inOrder)[i - 1] = inOrder[i]
      BY <1>4
    <3>3. x \in Listed' => \E i \in 2..Len(inOrder) : x = inOrder[i]
      BY <2>1, <3>1
    <3>4. (\E i \in 2..Len(inOrder) : x = inOrder[i]) => x \in Listed'
      BY <2>1, <3>2
    <3> QED BY <3>3, <3>4
  <2>3. \A x : x \in Listed <=> x = inOrder[1] \/ \E i \in 2..Len(inOrder) : x = inOrder[i]
    <3>1. 1..Len(inOrder) = {1} \union (2..Len(inOrder))
      BY <1>4
    <3> QED BY <3>1 DEF Listed
  <2>4. \A i \in 2..Len(inOrder) : inOrder[i] # inOrder[1]
    BY <1>4, <1>5
  <2> QED BY <1>4, <2>2, <2>3, <2>4
<1>11. FlowsFirst'
  <2>1. n + 1 <= MaxCandidates
    BY <1>3, <1>4 DEF AtLimit
  <2>2. \A i \in 1..n + 1 : IF i <= Flowing THEN candidates'[i] = Append(FlowList[i], 1) ELSE candidates'[i] \in RoutesOfPairs
    BY <1>3, <1>4, <1>6, <1>8
  <2>3. inOrder' \in Seq(scan'.flows \union RoutesOfPairs')
    BY <1>1, <1>2, <1>4 DEF T
  <2> QED BY <1>1, <1>2, <1>3, <1>4, <1>8, <2>1, <2>2, <2>3 DEF FlowsFirst, Rested
<1>12. Explained'
  <2>1. Flowing <= n + 1
    <3>1. n \in Nat /\ Flowing \in Nat /\ Flowing <= n
      BY <1>3, <1>4
    <3> HIDE DEF n
    <3> QED BY <3>1
  <2>2. ~Rested' \/ Rested
    BY <1>1 DEF Rested
  <2>3. limitReached \in BOOLEAN /\ exhausted \in BOOLEAN
    BY DEF CandidateInv, Explained
  <2>4. ~limitReached
    BY <1>1 DEF CandidateInv, Explained
  <2>5. reason # "candidate_budget" /\ (reason = "" => exhausted)
    BY <1>1 DEF CandidateInv, Explained, Rested
  <2> QED BY <1>1, <1>2, <1>8, <2>1, <2>3, <2>4, <2>5 DEF Explained, Rested
<1>13. NoneTwice'
  <2>1. ASSUME NEW i \in 1..Len(inOrder'), NEW j \in 1..Len(inOrder'), inOrder'[i] = inOrder'[j] PROVE i = j
    <3>1. i + 1 \in 1..Len(inOrder) /\ j + 1 \in 1..Len(inOrder) /\ inOrder[i + 1] = inOrder[j + 1]
      BY <1>1, <1>4, <2>1
    <3>2. i + 1 = j + 1
      BY <1>5, <3>1
    <3> QED BY <1>1, <1>4, <3>2
  <2>2. Listed' \intersect Chosen' = {} /\ Listed' \subseteq RoutesOfPairs'
    BY <1>2, <1>5, <1>9, <1>10
  <2> QED BY <1>8, <2>1, <2>2 DEF NoneTwice
<1>14. PairsInTurn'
  BY <1>1, <1>2, <1>6, <1>9, <1>10 DEF PairsInTurn, CandidateInv, Rested
<1> QED BY <1>11, <1>12, <1>13, <1>14 DEF CandidateInv

LEMMA CloseStep ==
  ASSUME CandidateInv, Close
  PROVE  CandidateInv'
<1>1. /\ stage = "rest" /\ inOrder = <<>> /\ stage' = "done"
      /\ UNCHANGED <<scan, inOrder, place, asked, queries, reason, exhausted, candidates, limitReached>>
  BY DEF Close
<1>2. /\ FlowList' = FlowList /\ RoutesOfPairs' = RoutesOfPairs
      /\ AsCandidates' = AsCandidates /\ Flowing' = Flowing
  BY <1>1, SameScan
<1>3. Chosen' = Chosen /\ Listed' = Listed
  BY <1>1 DEF Chosen, Listed
<1>4. FlowsFirst'
  BY <1>1, <1>2 DEF FlowsFirst, CandidateInv, Rested
<1>5. Explained'
  BY <1>1, <1>2 DEF Explained, CandidateInv, Rested
<1>6. NoneTwice'
  BY <1>1, <1>2, <1>3 DEF NoneTwice, CandidateInv
<1>7. PairsInTurn'
  BY <1>1, <1>2, <1>3 DEF PairsInTurn, CandidateInv, Rested
<1> QED BY <1>4, <1>5, <1>6, <1>7 DEF CandidateInv

LEMMA ImageIsFinite ==
  ASSUME NEW f, IsFiniteSet(DOMAIN f), f = [x \in DOMAIN f |-> f[x]]
  PROVE  IsFiniteSet({f[x] : x \in DOMAIN f})
<1> DEFINE S == DOMAIN f
           T == {f[x] : x \in S}
<1>1. f \in Surjection(S, T)
  BY DEF Surjection
<1> QED BY <1>1, FS_Surjection

FirstOfPairs == {<<NoFlow, place[2], k, 1>> : k \in SinksJoined}
OthersOfPairs == UNION {{<<NoFlow, place[2], k, n>> : n \in 2..RoutesTo(k)} : k \in SinksJoined}
AtPlace(r) == r[2] = place[2] /\ r[3] \in Window(place[1], SinkWindow, scan.sinks)

LEMMA NoneBelowOne ==
  /\ \A m \in Nat : m > 0 => 1 \in 1..m
  /\ \A m \in Nat : \A n \in 1..m : m > 0 /\ (n > 1 => n \in 2..m)
OBVIOUS

LEMMA IntervalIsFinite ==
  \A a, b \in Nat : IsFiniteSet(a..b)
BY FS_Interval

\* What is found at a place: the routes of its pairs, first ones and others.
LEMMA FoundAtPlace ==
  ASSUME scan \in Scans, place[1] \in Nat \ {0}, place[2] \in 1..scan.sources
  PROVE  /\ \A r : r \in FirstOfPairs <=> r \in RoutesOfPairs /\ AtPlace(r) /\ r[4] = 1
         /\ \A r : r \in OthersOfPairs <=> r \in RoutesOfPairs /\ AtPlace(r) /\ r[4] > 1
         /\ IsFiniteSet(FirstOfPairs) /\ IsFiniteSet(OthersOfPairs)
<1> DEFINE s == place[2]
           W == Window(place[1], SinkWindow, scan.sinks)
<1>1. scan.sources \in Nat /\ scan.sinks \in Nat /\ W \subseteq 1..scan.sinks
  BY ScanShape DEF Window
<1>2. \A k \in W : RoutesTo(k) = scan.joined[<<scan.inFunction[s], scan.ofSink[k]>>] /\ RoutesTo(k) \in Nat
  BY <1>1, ScanShape DEF RoutesTo, Function
<1>3. \A k : k \in SinksJoined <=> k \in W /\ RoutesTo(k) > 0 /\ ~HasFlow(s, k)
  BY DEF SinksJoined
<1> HIDE DEF W
<1>4. \A r : r \in RoutesOfPairs /\ AtPlace(r) <=>
               \E k \in W : \E n \in 1..RoutesTo(k) : r = <<NoFlow, s, k, n>> /\ ~HasFlow(s, k)
  <2> TAKE r
  <2>1. ASSUME r \in RoutesOfPairs, AtPlace(r)
        PROVE  \E k \in W : \E n \in 1..RoutesTo(k) : r = <<NoFlow, s, k, n>> /\ ~HasFlow(s, k)
    <3>1. PICK z \in 1..scan.sources, k \in 1..scan.sinks :
             \E n \in 1..scan.joined[<<scan.inFunction[z], scan.ofSink[k]>>] :
               r = <<NoFlow, z, k, n>> /\ ~HasFlow(z, k)
      BY <2>1, LeadShape
    <3>2. PICK n \in 1..scan.joined[<<scan.inFunction[z], scan.ofSink[k]>>] : r = <<NoFlow, z, k, n>> /\ ~HasFlow(z, k)
      BY <3>1
    <3>3. z = s /\ k \in W
      BY <2>1, <3>2 DEF AtPlace, W
    <3>4. n \in 1..RoutesTo(k)
      BY <1>2, <3>2, <3>3
    <3> QED BY <3>2, <3>3, <3>4
  <2>2. ASSUME NEW k \in W, NEW n \in 1..RoutesTo(k), r = <<NoFlow, s, k, n>>, ~HasFlow(s, k)
        PROVE  r \in RoutesOfPairs /\ AtPlace(r)
    <3>1. n \in 1..scan.joined[<<scan.inFunction[s], scan.ofSink[k]>>] /\ k \in 1..scan.sinks
      BY <1>1, <1>2
    <3>2. r \in RoutesOfPairs
      BY <2>2, <3>1, LeadShape
    <3>3. r[2] = s /\ r[3] = k
      BY <2>2
    <3> QED BY <3>2, <3>3 DEF AtPlace, W
  <2> QED BY <2>1, <2>2
<1>5. \A r : r \in FirstOfPairs <=> r \in RoutesOfPairs /\ AtPlace(r) /\ r[4] = 1
  <2> TAKE r
  <2>1. ASSUME r \in FirstOfPairs PROVE r \in RoutesOfPairs /\ AtPlace(r) /\ r[4] = 1
    <3>1. PICK k \in SinksJoined : r = <<NoFlow, s, k, 1>>
      BY <2>1 DEF FirstOfPairs
    <3>0. k \in W /\ RoutesTo(k) > 0 /\ ~HasFlow(s, k)
      BY <1>3
    <3>2. k \in W /\ 1 \in 1..RoutesTo(k) /\ ~HasFlow(s, k)
      BY <1>2, <3>0, NoneBelowOne
    <3> QED BY <1>4, <3>1, <3>2
  <2>2. ASSUME r \in RoutesOfPairs, AtPlace(r), r[4] = 1 PROVE r \in FirstOfPairs
    <3>1. PICK k \in W : \E n \in 1..RoutesTo(k) : r = <<NoFlow, s, k, n>> /\ ~HasFlow(s, k)
      BY <1>4, <2>2
    <3>2. PICK n \in 1..RoutesTo(k) : r = <<NoFlow, s, k, n>> /\ ~HasFlow(s, k)
      BY <3>1
    <3>0. RoutesTo(k) \in Nat
      BY <1>2
    <3>1a. r[4] = n
      BY <3>2
    <3>3. n = 1 /\ RoutesTo(k) > 0
      BY <2>2, <3>0, <3>1a, NoneBelowOne
    <3>4. k \in SinksJoined
      BY <1>3, <3>2, <3>3
    <3> QED BY <3>2, <3>3, <3>4 DEF FirstOfPairs
  <2> QED BY <2>1, <2>2
<1>6. \A r : r \in OthersOfPairs <=> r \in RoutesOfPairs /\ AtPlace(r) /\ r[4] > 1
  <2> TAKE r
  <2>1. ASSUME r \in OthersOfPairs PROVE r \in RoutesOfPairs /\ AtPlace(r) /\ r[4] > 1
    <3>1. PICK k \in SinksJoined : \E n \in 2..RoutesTo(k) : r = <<NoFlow, s, k, n>>
      BY <2>1 DEF OthersOfPairs
    <3>2. PICK n \in 2..RoutesTo(k) : r = <<NoFlow, s, k, n>>
      BY <3>1
    <3>3. k \in W /\ n \in 1..RoutesTo(k) /\ n > 1 /\ ~HasFlow(s, k)
      BY <1>2, <1>3
    <3>4. r[4] = n
      BY <3>2
    <3> QED BY <1>4, <3>2, <3>3, <3>4
  <2>2. ASSUME r \in RoutesOfPairs, AtPlace(r), r[4] > 1 PROVE r \in OthersOfPairs
    <3>1. PICK k \in W : \E n \in 1..RoutesTo(k) : r = <<NoFlow, s, k, n>> /\ ~HasFlow(s, k)
      BY <1>4, <2>2
    <3>2. PICK n \in 1..RoutesTo(k) : r = <<NoFlow, s, k, n>> /\ ~HasFlow(s, k)
      BY <3>1
    <3>0. RoutesTo(k) \in Nat
      BY <1>2
    <3>1a. r[4] = n
      BY <3>2
    <3>3. n \in 2..RoutesTo(k) /\ RoutesTo(k) > 0
      BY <2>2, <3>0, <3>1a, NoneBelowOne
    <3>4. k \in SinksJoined
      BY <1>3, <3>2, <3>3
    <3> QED BY <3>2, <3>3, <3>4 DEF OthersOfPairs
  <2> QED BY <2>1, <2>2
<1>7. IsFiniteSet(SinksJoined)
  <2>1. IsFiniteSet(1..scan.sinks) /\ SinksJoined \subseteq 1..scan.sinks
    <3>1. IsFiniteSet(1..scan.sinks)
      BY <1>1, IntervalIsFinite
    <3> QED BY <1>1, <1>3, <3>1
  <2> QED BY <2>1, FS_Subset
<1>8. IsFiniteSet(FirstOfPairs)
  <2> DEFINE f == [k \in SinksJoined |-> <<NoFlow, place[2], k, 1>>]
  <2>1. DOMAIN f = SinksJoined /\ f = [x \in DOMAIN f |-> f[x]]
    OBVIOUS
  <2>2. FirstOfPairs = {f[x] : x \in DOMAIN f}
    BY DEF FirstOfPairs
  <2> HIDE DEF f
  <2> QED BY <1>7, <2>1, <2>2, ImageIsFinite
<1>9. IsFiniteSet(OthersOfPairs)
  <2> DEFINE PairRoutes(k) == {<<NoFlow, place[2], k, n>> : n \in 2..RoutesTo(k)}
             All == {PairRoutes(k) : k \in SinksJoined}
  <2>1. \A k \in SinksJoined : IsFiniteSet(PairRoutes(k))
    <3> SUFFICES ASSUME NEW k \in SinksJoined PROVE IsFiniteSet(PairRoutes(k))
      OBVIOUS
    <3> DEFINE f == [n \in 2..RoutesTo(k) |-> <<NoFlow, place[2], k, n>>]
    <3>1. IsFiniteSet(2..RoutesTo(k))
      <4>1. RoutesTo(k) \in Nat
        BY <1>2, <1>3
      <4> QED BY <4>1, IntervalIsFinite
    <3>2. DOMAIN f = 2..RoutesTo(k) /\ f = [x \in DOMAIN f |-> f[x]]
      OBVIOUS
    <3>3. PairRoutes(k) = {f[x] : x \in DOMAIN f}
      OBVIOUS
    <3> HIDE DEF f
    <3>4. IsFiniteSet({f[x] : x \in DOMAIN f})
      BY <3>1, <3>2, ImageIsFinite
    <3> QED BY <3>3, <3>4
  <2>2. OthersOfPairs = UNION All
    BY DEF OthersOfPairs
  <2> HIDE DEF PairRoutes
  <2>3. IsFiniteSet(All) /\ \A T \in All : IsFiniteSet(T)
    <3> DEFINE f == [k \in SinksJoined |-> PairRoutes(k)]
    <3>1. DOMAIN f = SinksJoined /\ f = [x \in DOMAIN f |-> f[x]]
      OBVIOUS
    <3>2. All = {f[x] : x \in DOMAIN f}
      OBVIOUS
    <3> HIDE DEF f
    <3>3. IsFiniteSet(All)
      BY <1>7, <3>1, <3>2, ImageIsFinite
    <3> QED BY <2>1, <3>3
  <2> HIDE DEF All
  <2> QED BY <2>2, <2>3, FS_UNION
<1> QED BY <1>5, <1>6, <1>8, <1>9

\* The place behind: its window is passed for this source, nothing else.
LEMMA NextPassed ==
  ASSUME NEW p \in Nat \ {0}, NEW w \in Nat \ {0}, NEW s \in Nat \ {0}, NEW m \in Nat, s <= m,
         NEW a \in 1..m, NEW k \in Nat
  PROVE  /\ s < m => ((k < p \/ (k < p + w /\ a < s + 1)) <=>
                      ((k < p \/ (k < p + w /\ a < s)) \/ (a = s /\ k >= p /\ k < p + w)))
         /\ s = m => ((k < p + w \/ (k < p + w + w /\ a < 1)) <=>
                      ((k < p \/ (k < p + w /\ a < s)) \/ (a = s /\ k >= p /\ k < p + w)))
OBVIOUS

LEMMA PassedThen ==
  ASSUME scan \in Scans, place[1] \in Nat \ {0}, place[2] \in 1..scan.sources, place' = NextPlace, scan' = scan
  PROVE  /\ place' \in (Nat \ {0}) \X (Nat \ {0}) /\ place'[2] <= scan.sources
         /\ \A r \in RoutesOfPairs : Passed(r[2], r[3])' <=> Passed(r[2], r[3]) \/ AtPlace(r)
<1>1. /\ scan.sources \in Nat /\ scan.sinks \in Nat /\ SinkWindow \in Nat \ {0}
      /\ \A r \in RoutesOfPairs : r[2] \in 1..scan.sources /\ r[3] \in 1..scan.sinks
  BY ScanShape, FlowsAreNoRoutes
<1>2. \A r \in RoutesOfPairs : AtPlace(r) <=> r[2] = place[2] /\ r[3] >= place[1] /\ r[3] < place[1] + SinkWindow
  BY <1>1 DEF AtPlace, Window
<1>3. CASE place[2] < scan.sources
  <2>1. place'[1] = place[1] /\ place'[2] = place[2] + 1 /\ place' = <<place[1], place[2] + 1>>
    BY <1>3 DEF NextPlace
  <2>2. place' \in (Nat \ {0}) \X (Nat \ {0}) /\ place'[2] <= scan.sources
    BY <1>1, <1>3, <2>1
  <2>3. ASSUME NEW r \in RoutesOfPairs PROVE Passed(r[2], r[3])' <=> Passed(r[2], r[3]) \/ AtPlace(r)
    <3>1. Passed(r[2], r[3])' <=> (r[3] < place[1] \/ (r[3] < place[1] + SinkWindow /\ r[2] < place[2] + 1))
      BY <2>1 DEF Passed
    <3> QED BY <1>1, <1>2, <1>3, <3>1, NextPassed DEF Passed
  <2> QED BY <2>2, <2>3
<1>4. CASE ~(place[2] < scan.sources)
  <2>0. place[2] = scan.sources
    BY <1>1, <1>4
  <2>1. place'[1] = place[1] + SinkWindow /\ place'[2] = 1 /\ place' = <<place[1] + SinkWindow, 1>>
    BY <1>4 DEF NextPlace
  <2>2. place' \in (Nat \ {0}) \X (Nat \ {0}) /\ place'[2] <= scan.sources
    BY <1>1, <2>0, <2>1
  <2>3. ASSUME NEW r \in RoutesOfPairs PROVE Passed(r[2], r[3])' <=> Passed(r[2], r[3]) \/ AtPlace(r)
    <3>1. Passed(r[2], r[3])' <=> (r[3] < place[1] + SinkWindow \/ (r[3] < place[1] + SinkWindow + SinkWindow /\ r[2] < 1))
      BY <2>1 DEF Passed
    <3> QED BY <1>1, <1>2, <2>0, <3>1, NextPassed DEF Passed
  <2> QED BY <2>2, <2>3
<1> QED BY <1>3, <1>4

IsBeginning(p, s, n, T) ==
  /\ p \in Seq(T) /\ Len(p) = n /\ \A i \in 1..n : p[i] = s[i]
  /\ \A i, j \in 1..n : p[i] = p[j] => i = j

\* Two lists without repetition that share nothing make one.
LEMMA NoneTwiceBehind ==
  ASSUME NEW T, NEW a \in Seq(T), NEW b \in Seq(T),
         \A i, j \in 1..Len(a) : a[i] = a[j] => i = j,
         \A i, j \in 1..Len(b) : b[i] = b[j] => i = j,
         \A i \in 1..Len(a), j \in 1..Len(b) : a[i] # b[j]
  PROVE  \A i, j \in 1..Len(a \o b) : (a \o b)[i] = (a \o b)[j] => i = j
<1> DEFINE c == a \o b
           m == Len(a)
           n == Len(b)
<1>0. m \in Nat /\ n \in Nat
  BY LenProperties
<1>1. /\ Len(c) = m + n /\ m \in Nat /\ n \in Nat
      /\ \A i \in 1..m : c[i] = a[i]
      /\ \A i \in 1..Len(c) : i > m => c[i] = b[i - m] /\ i - m \in 1..n
  BY <1>0, PutBehind DEF IsBehind
<1> HIDE DEF c, m, n
<1>2. \A i \in 1..m + n : i \in 1..m \/ (i > m /\ i - m \in 1..n)
  BY <1>1
<1>3. SUFFICES ASSUME NEW i \in 1..m + n, NEW j \in 1..m + n, c[i] = c[j] PROVE i = j
  BY <1>1 DEF c
<1>4. CASE i \in 1..m /\ j \in 1..m
  BY <1>1, <1>3, <1>4 DEF m
<1>5. CASE i > m /\ j > m
  <2>1. b[i - m] = b[j - m] /\ i - m \in 1..n /\ j - m \in 1..n
    BY <1>1, <1>3, <1>5
  <2>2. i - m = j - m
    BY <2>1 DEF n
  <2> QED BY <1>1, <2>2
<1>6. CASE i \in 1..m /\ j > m
  <2>1. a[i] = b[j - m] /\ j - m \in 1..n
    BY <1>1, <1>3, <1>6
  <2> QED BY <1>6, <2>1 DEF m, n
<1>7. CASE i > m /\ j \in 1..m
  <2>1. a[j] = b[i - m] /\ i - m \in 1..n
    BY <1>1, <1>3, <1>7
  <2> QED BY <1>7, <2>1 DEF m, n
<1> QED BY <1>2, <1>4, <1>5, <1>6, <1>7

\* The beginning of a list without repetition.
LEMMA BeginningOf ==
  ASSUME NEW T, NEW s \in Seq(T), NEW n, n \in 0..Len(s), \A i, j \in 1..Len(s) : s[i] = s[j] => i = j
  PROVE  IsBeginning(SubSeq(s, 1, n), s, n, T)
<1>1. Len(s) \in Nat /\ n \in Nat /\ n <= Len(s)
  BY LenProperties
<1>2. \A i \in 1..n : i \in 1..Len(s) /\ s[i] \in T
  BY <1>1
<1>3. SubSeq(s, 1, n) = [i \in 1..n |-> s[i]]
  BY <1>1
<1>4. [i \in 1..n |-> s[i]] \in Seq(T) /\ Len([i \in 1..n |-> s[i]]) = n
  BY <1>1, <1>2
<1> QED BY <1>2, <1>3, <1>4 DEF IsBeginning

SpareRoom == MaxCandidates - Len(candidates)
ListOfFirst == Sorted(FirstOfPairs, BySink)
ListOfOthers == Sorted(OthersOfPairs, BySink)
TakenFirst == SubSeq(ListOfFirst, 1, IF SpareRoom < Len(ListOfFirst) THEN SpareRoom ELSE Len(ListOfFirst))

LEMMA PairsParts ==
  ASSUME TakePairs
  PROVE  /\ InWindows /\ inOrder' = inOrder \o ListOfOthers /\ candidates' = candidates \o TakenFirst
         /\ IF Len(ListOfFirst) > SpareRoom
            THEN stage' = "done" /\ limitReached' = TRUE /\ reason' = "candidate_budget" /\ UNCHANGED <<place, asked>>
            ELSE place' = NextPlace /\ UNCHANGED <<stage, limitReached, reason>>
         /\ UNCHANGED <<scan, exhausted>>
<1>1. FirstOfPairs = {<<NoFlow, place[2], k, 1>> : k \in SinksJoined}
  BY DEF FirstOfPairs
<1>2. OthersOfPairs = UNION {{<<NoFlow, place[2], k, n>> : n \in 2..RoutesTo(k)} : k \in SinksJoined}
  BY DEF OthersOfPairs
<1> DEFINE A == Sorted({<<NoFlow, place[2], k, 1>> : k \in SinksJoined}, BySink)
           B == Sorted(UNION {{<<NoFlow, place[2], k, n>> : n \in 2..RoutesTo(k)} : k \in SinksJoined}, BySink)
<1>3. A = ListOfFirst
  BY <1>1 DEF ListOfFirst
<1>4. B = ListOfOthers
  BY <1>2 DEF ListOfOthers
<1>5. /\ InWindows /\ inOrder' = inOrder \o B
      /\ candidates' = candidates \o SubSeq(A, 1, IF SpareRoom < Len(A) THEN SpareRoom ELSE Len(A))
      /\ IF Len(A) > SpareRoom
         THEN stage' = "done" /\ limitReached' = TRUE /\ reason' = "candidate_budget" /\ UNCHANGED <<place, asked>>
         ELSE place' = NextPlace /\ UNCHANGED <<stage, limitReached, reason>>
      /\ UNCHANGED <<scan, exhausted>>
  BY DEF TakePairs, SpareRoom
<1> HIDE DEF A, B
<1> QED BY <1>3, <1>4, <1>5 DEF TakenFirst

LEMMA PairsStep ==
  ASSUME CandidateInv, TakePairs
  PROVE  CandidateInv'
<1> DEFINE n == Len(candidates)
           m == Len(ListOfFirst)
           t == IF SpareRoom < m THEN SpareRoom ELSE m
           R == AsCandidates \union RoutesOfPairs
<1>1. /\ InWindows /\ inOrder' = inOrder \o ListOfOthers /\ candidates' = candidates \o TakenFirst
      /\ IF m > SpareRoom
         THEN stage' = "done" /\ limitReached' = TRUE /\ reason' = "candidate_budget" /\ UNCHANGED <<place, asked>>
         ELSE place' = NextPlace /\ UNCHANGED <<stage, limitReached, reason>>
      /\ UNCHANGED <<scan, exhausted>>
  BY PairsParts
<1>2. /\ FlowList' = FlowList /\ RoutesOfPairs' = RoutesOfPairs
      /\ AsCandidates' = AsCandidates /\ Flowing' = Flowing
  BY <1>1, SameScan
<1>3. /\ stage = "pairs" /\ scan \in Scans /\ place[1] \in Nat \ {0} /\ place[2] \in 1..scan.sources
      /\ MaxCandidates \in Nat /\ Flowing \in Nat
  <2>1. stage = "pairs" /\ scan.sources > 0 /\ scan \in Scans
    BY <1>1 DEF InWindows, CandidateInv, FlowsFirst
  <2>2. place \in (Nat \ {0}) \X (Nat \ {0}) /\ place[2] <= scan.sources
    BY <2>1 DEF CandidateInv, PairsInTurn
  <2> QED BY <2>1, <2>2, ScanShape DEF Flowing
<1>4. /\ candidates \in Seq(R) /\ n \in Nat /\ n <= MaxCandidates /\ Flowing <= n
      /\ \A i \in 1..n : IF i <= Flowing THEN candidates[i] = Append(FlowList[i], 1) ELSE candidates[i] \in RoutesOfPairs
  <2>1. candidates \in Seq(R)
    BY DEF CandidateInv, FlowsFirst
  <2> QED BY <1>3, <2>1, LenProperties DEF CandidateInv, FlowsFirst
<1>5. /\ \A r : r \in FirstOfPairs <=> r \in RoutesOfPairs /\ AtPlace(r) /\ r[4] = 1
      /\ \A r : r \in OthersOfPairs <=> r \in RoutesOfPairs /\ AtPlace(r) /\ r[4] > 1
      /\ IsFiniteSet(FirstOfPairs) /\ IsFiniteSet(OthersOfPairs)
  BY <1>3, FoundAtPlace
<1>6. /\ ListOfFirst \in Seq(FirstOfPairs) /\ m \in Nat /\ {ListOfFirst[i] : i \in 1..m} = FirstOfPairs
      /\ \A i, j \in 1..m : ListOfFirst[i] = ListOfFirst[j] => i = j
  <2>1. \A r \in FirstOfPairs : r \in RoutesOfPairs /\ r[2] = place[2]
    BY <1>5 DEF AtPlace
  <2>2. NamesEachOnce(ListOfFirst, FirstOfPairs)
    BY <1>3, <1>5, <2>1, RoutesAreListed DEF ListOfFirst
  <2> QED BY <2>2, ListOfAll
<1>7. /\ ListOfOthers \in Seq(OthersOfPairs) /\ {ListOfOthers[i] : i \in 1..Len(ListOfOthers)} = OthersOfPairs
      /\ \A i, j \in 1..Len(ListOfOthers) : ListOfOthers[i] = ListOfOthers[j] => i = j
  <2>1. \A r \in OthersOfPairs : r \in RoutesOfPairs /\ r[2] = place[2]
    BY <1>5 DEF AtPlace
  <2>2. NamesEachOnce(ListOfOthers, OthersOfPairs)
    BY <1>3, <1>5, <2>1, RoutesAreListed DEF ListOfOthers
  <2> QED BY <2>2, ListOfAll
<1>8. \A r \in RoutesOfPairs : /\ r \in Chosen <=> r[4] = 1 /\ Passed(r[2], r[3])
                               /\ r \in Listed <=> r[4] > 1 /\ Passed(r[2], r[3])
  BY <1>3 DEF CandidateInv, PairsInTurn
<1>9. \A r \in RoutesOfPairs : AtPlace(r) => ~Passed(r[2], r[3])
  <2> SUFFICES ASSUME NEW r \in RoutesOfPairs, AtPlace(r), Passed(r[2], r[3]) PROVE FALSE
    OBVIOUS
  <2>1. r[2] = place[2] /\ r[3] \in place[1]..scan.sinks
    BY DEF AtPlace, Window
  <2>2. scan.sinks \in Nat /\ scan.sources \in Nat
    BY <1>3, ScanShape
  <2> QED BY <1>3, <2>1, <2>2 DEF Passed
<1>10. /\ FirstOfPairs \intersect Chosen = {} /\ FirstOfPairs \intersect Listed = {}
       /\ OthersOfPairs \intersect Chosen = {} /\ OthersOfPairs \intersect Listed = {}
       /\ FirstOfPairs \intersect OthersOfPairs = {}
       /\ FirstOfPairs \subseteq RoutesOfPairs /\ OthersOfPairs \subseteq RoutesOfPairs
  BY <1>5, <1>8, <1>9
<1>11. Chosen = {candidates[i] : i \in 1..n}
  BY <1>4, ChosenBy
<1>12. t \in 0..m /\ n + t <= MaxCandidates /\ t \in Nat /\ (m > SpareRoom => n + t = MaxCandidates) /\ (~(m > SpareRoom) => t = m)
  BY <1>3, <1>4, <1>6 DEF SpareRoom
<1>13. /\ TakenFirst \in Seq(FirstOfPairs) /\ Len(TakenFirst) = t /\ \A i \in 1..t : TakenFirst[i] = ListOfFirst[i]
       /\ \A i, j \in 1..t : TakenFirst[i] = TakenFirst[j] => i = j
  <2> HIDE DEF t
  <2>1. TakenFirst = SubSeq(ListOfFirst, 1, t)
    BY DEF TakenFirst, t
  <2>2. t \in 0..Len(ListOfFirst)
    BY <1>12
  <2>3. IsBeginning(TakenFirst, ListOfFirst, t, FirstOfPairs)
    BY <1>6, <2>1, <2>2, BeginningOf
  <2> QED BY <2>3 DEF IsBeginning
<1> HIDE DEF t, R, n, m
<1>14. /\ candidates' \in Seq(R) /\ Len(candidates') = n + t
       /\ \A i \in 1..n : candidates'[i] = candidates[i]
       /\ \A i \in 1..n + t : i > n => candidates'[i] \in FirstOfPairs
       /\ {candidates'[i] : i \in 1..Len(candidates')} = Chosen \union {TakenFirst[i] : i \in 1..t}
       /\ \A i, j \in 1..Len(candidates') : candidates'[i] = candidates'[j] => i = j
  <2>1. TakenFirst \in Seq(R)
    BY <1>10, <1>13, SeqMonotonic DEF R
  <2>2. /\ candidates' \in Seq(R) /\ Len(candidates') = n + t
        /\ \A i \in 1..n : candidates'[i] = candidates[i]
        /\ \A i \in 1..n + t : i > n => candidates'[i] = TakenFirst[i - n] /\ i - n \in 1..t
        /\ {candidates'[i] : i \in 1..Len(candidates')} = {candidates[i] : i \in 1..n} \union {TakenFirst[i] : i \in 1..t}
    <3> DEFINE c == candidates \o TakenFirst
    <3>1. IsBehind(c, candidates, TakenFirst, R)
      BY <1>4, <2>1, PutBehind
    <3>2. candidates' = c /\ Len(TakenFirst) = t
      BY <1>1, <1>13
    <3> HIDE DEF c
    <3> QED BY <3>1, <3>2 DEF IsBehind, n
  <2>3. \A i \in 1..t : TakenFirst[i] \in FirstOfPairs
    BY <1>13
  <2>4. \A i, j \in 1..n : candidates[i] = candidates[j] => i = j
    BY DEF CandidateInv, NoneTwice, n
  <2>5. \A i \in 1..n, j \in 1..t : candidates[i] # TakenFirst[j]
    BY <1>10, <1>11, <2>3
  <2>6. \A i, j \in 1..Len(candidates') : candidates'[i] = candidates'[j] => i = j
    BY <1>1, <1>4, <1>13, <2>1, <2>4, <2>5, NoneTwiceBehind DEF n
  <2> QED BY <1>11, <2>2, <2>3, <2>6
<1>15. Chosen' = Chosen \union {TakenFirst[i] : i \in 1..t}
  <2>1. Chosen' = {candidates'[i] : i \in 1..Len(candidates')}
    <3>1. DOMAIN candidates' = 1..Len(candidates')
      BY <1>14, LenProperties
    <3> QED BY <3>1 DEF Chosen
  <2> QED BY <1>14, <2>1
<1>16. /\ inOrder' \in Seq(scan.flows \union RoutesOfPairs) /\ Listed' = Listed \union OthersOfPairs
       /\ \A i, j \in 1..Len(inOrder') : inOrder'[i] = inOrder'[j] => i = j
  <2> DEFINE Q == scan.flows \union RoutesOfPairs
  <2>1. inOrder \in Seq(Q)
    BY <1>3 DEF CandidateInv, FlowsFirst
  <2>2. ListOfOthers \in Seq(Q)
    BY <1>7, <1>10, SeqMonotonic
  <2> HIDE DEF Q
  <2>3. /\ inOrder' \in Seq(Q)
        /\ {inOrder'[i] : i \in 1..Len(inOrder')} = Listed \union {ListOfOthers[i] : i \in 1..Len(ListOfOthers)}
    <3> DEFINE c == inOrder \o ListOfOthers
    <3>1. IsBehind(c, inOrder, ListOfOthers, Q)
      BY <2>1, <2>2, PutBehind
    <3>2. inOrder' = c
      BY <1>1
    <3> HIDE DEF c
    <3> QED BY <3>1, <3>2 DEF IsBehind, Listed
  <2>4. Listed' = {inOrder'[i] : i \in 1..Len(inOrder')}
    BY DEF Listed
  <2>5. \A i, j \in 1..Len(inOrder) : inOrder[i] = inOrder[j] => i = j
    BY <1>3 DEF CandidateInv, NoneTwice
  <2>6. \A i \in 1..Len(inOrder), j \in 1..Len(ListOfOthers) : inOrder[i] # ListOfOthers[j]
    BY <1>7, <1>10 DEF Listed
  <2>7. \A i, j \in 1..Len(inOrder') : inOrder'[i] = inOrder'[j] => i = j
    <3> DEFINE c == inOrder \o ListOfOthers
    <3>1. \A i, j \in 1..Len(c) : c[i] = c[j] => i = j
      BY <1>7, <2>1, <2>2, <2>5, <2>6, NoneTwiceBehind
    <3>2. inOrder' = c
      BY <1>1
    <3> HIDE DEF c
    <3> QED BY <3>1, <3>2
  <2> QED BY <1>7, <2>3, <2>4, <2>7 DEF Q
<1>17. FlowsFirst'
  <2>1. \A i \in 1..n + t : IF i <= Flowing THEN candidates'[i] = Append(FlowList[i], 1) ELSE candidates'[i] \in RoutesOfPairs
    <3> TAKE i \in 1..n + t
    <3>1. CASE i > n
      <4>1. ~(i <= Flowing)
        BY <1>3, <1>4, <1>12, <3>1
      <4> QED BY <1>10, <1>14, <3>1, <4>1
    <3>2. CASE ~(i > n)
      <4>1. i \in 1..n
        BY <1>4, <1>12, <3>2
      <4> QED BY <1>4, <1>14, <4>1
    <3> QED BY <3>1, <3>2
  <2>2. stage' \in {"pairs", "done"} /\ ~(stage' = "done" /\ ~limitReached')
    BY <1>1, <1>3
  <2>3. Flowing <= n + t
    BY <1>3, <1>4, <1>12
  <2> QED BY <1>1, <1>2, <1>3, <1>12, <1>14, <1>16, <2>1, <2>2, <2>3 DEF FlowsFirst, R
<1>18. Explained'
  <2>1. limitReached \in BOOLEAN /\ exhausted = FALSE /\ reason = "" /\ limitReached = FALSE
    BY <1>3 DEF CandidateInv, Explained
  <2>2. m > SpareRoom => Len(candidates') = MaxCandidates
    BY <1>12, <1>14
  <2> QED BY <1>1, <1>3, <2>1, <2>2 DEF Explained, Rested
<1>19. NoneTwice'
  <2>1. \A i \in 1..t : TakenFirst[i] \in FirstOfPairs
    BY <1>13
  <2>2. Listed' \intersect Chosen' = {}
    <3>1. Listed \intersect Chosen = {}
      BY <1>3 DEF CandidateInv, NoneTwice
    <3> QED BY <1>10, <1>15, <1>16, <2>1, <3>1
  <2>3. Listed' \subseteq RoutesOfPairs'
    BY <1>2, <1>3, <1>10, <1>16 DEF CandidateInv, NoneTwice
  <2> QED BY <1>14, <1>16, <2>2, <2>3 DEF NoneTwice
<1>20. CASE m > SpareRoom
  <2>1. stage' = "done" /\ limitReached' = TRUE /\ place' = place /\ exhausted' = FALSE /\ scan' = scan
    BY <1>1, <1>3, <1>20 DEF CandidateInv, Explained
  <2>2. PairsInTurn'
    BY <1>2, <2>1 DEF PairsInTurn, CandidateInv, Rested
  <2> QED BY <1>17, <1>18, <1>19, <2>2 DEF CandidateInv
<1>21. CASE ~(m > SpareRoom)
  <2>1. {TakenFirst[i] : i \in 1..t} = FirstOfPairs
    <3>1. t = m
      BY <1>12, <1>21
    <3> QED BY <1>6, <1>13, <3>1
  <2>2. stage' = "pairs" /\ place' = NextPlace /\ exhausted' = FALSE /\ scan' = scan
    BY <1>1, <1>3, <1>21 DEF CandidateInv, Explained
  <2>3. /\ place' \in (Nat \ {0}) \X (Nat \ {0}) /\ place'[2] <= scan.sources
        /\ \A r \in RoutesOfPairs : Passed(r[2], r[3])' <=> Passed(r[2], r[3]) \/ AtPlace(r)
    BY <1>3, <2>2, PassedThen
  <2>4. ASSUME NEW r \in RoutesOfPairs
        PROVE  /\ r \in Chosen' <=> r[4] = 1 /\ Passed(r[2], r[3])'
               /\ r \in Listed' <=> r[4] > 1 /\ Passed(r[2], r[3])'
    BY <1>5, <1>8, <1>15, <1>16, <2>1, <2>3
  <2>5. PairsInTurn'
    BY <1>2, <2>2, <2>3, <2>4 DEF PairsInTurn, Rested
  <2> QED BY <1>17, <1>18, <1>19, <2>5 DEF CandidateInv
<1> QED BY <1>20, <1>21


LEMMA CandidateStep ==
  ASSUME CandidateInv, [CandidateNext]_candidateVars
  PROVE  CandidateInv'
<1>1. CASE TakeFlow
  <2>1. stage = "flows" /\ (AtLimit => EndAtLimit)
    BY <1>1 DEF TakeFlow
  <2> QED BY <1>1, <2>1, LimitStep, FlowStep
<1>2. CASE StartPairs
  BY <1>2, StartStep
<1>3. CASE OutOfTime
  <2>1. stage = "pairs" /\ EndPairs("time_budget", FALSE)
    BY <1>3 DEF OutOfTime, InWindows
  <2> QED BY <2>1, EndStep
<1>4. CASE OutOfQueries
  <2>1. stage = "pairs" /\ EndPairs("query_budget", FALSE)
    BY <1>4 DEF OutOfQueries, InWindows
  <2> QED BY <2>1, EndStep
<1>5. CASE Finished
  <2>1. stage = "pairs" /\ ~InWindows /\ EndPairs("", TRUE)
    BY <1>5 DEF Finished
  <2> QED BY <2>1, EndStep
<1>6. CASE TakePairs
  BY <1>6, PairsStep
<1>7. CASE TakeOther
  <2>1. stage = "rest" /\ (AtLimit => EndAtLimit)
    BY <1>7 DEF TakeOther
  <2> QED BY <1>7, <2>1, LimitStep, OtherStep
<1>8. CASE Close
  BY <1>8, CloseStep
<1>9. CASE UNCHANGED candidateVars
  <2>1. UNCHANGED <<scan, stage, inOrder, place, asked, queries, reason, exhausted, candidates, limitReached>>
    BY <1>9 DEF candidateVars
  <2>2. /\ FlowList' = FlowList /\ RoutesOfPairs' = RoutesOfPairs
        /\ AsCandidates' = AsCandidates /\ Flowing' = Flowing
    BY <2>1, SameScan
  <2>3. Chosen' = Chosen /\ Listed' = Listed /\ (Rested' <=> Rested)
    BY <2>1 DEF Chosen, Listed, Rested
  <2>4. \A s, k : Passed(s, k)' <=> Passed(s, k)
    BY <2>1 DEF Passed
  <2>5. FlowsFirst'
    BY <2>1, <2>2, <2>3 DEF FlowsFirst, CandidateInv
  <2>6. Explained'
    BY <2>1, <2>2, <2>3 DEF Explained, CandidateInv
  <2>7. NoneTwice'
    BY <2>1, <2>2, <2>3 DEF NoneTwice, CandidateInv
  <2>8. PairsInTurn'
    BY <2>1, <2>2, <2>3, <2>4 DEF PairsInTurn, CandidateInv
  <2> QED BY <2>5, <2>6, <2>7, <2>8 DEF CandidateInv
<1> QED BY <1>1, <1>2, <1>3, <1>4, <1>5, <1>6, <1>7, <1>8, <1>9 DEF CandidateNext

\* In every state of the choice the flows have the first places, every call route is
\* where its pair's turn puts it, and the flags say what happened (CandidateInv).
THEOREM CandidateInvariance == CandidateSpec => []CandidateInv
<1>1. CandidateInit => CandidateInv
  BY CandidateStart
<1>2. CandidateInv /\ [CandidateNext]_candidateVars => CandidateInv'
  BY CandidateStep
<1> QED BY <1>1, <1>2, PTL DEF CandidateSpec

\* Whatever is chosen is a flow or a call route; flows are chosen in their order.
LEMMA WhatIsChosen ==
  ASSUME CandidateInv
  PROVE  /\ scan \in Scans /\ Len(candidates) \in Nat /\ Flowing \in Nat
         /\ Chosen = {candidates[i] : i \in 1..Len(candidates)}
         /\ Chosen \subseteq AsCandidates \union RoutesOfPairs
         /\ \A f \in scan.flows : FlowChosen(f) <=> \E i \in 1..Flowing : i <= Len(candidates) /\ FlowList[i] = f
         /\ \A c \in Chosen : c \in RoutesOfPairs => Flowing < Len(candidates)
<1>1. /\ scan \in Scans /\ candidates \in Seq(AsCandidates \union RoutesOfPairs)
      /\ \A i \in 1..Len(candidates) :
           IF i <= Flowing THEN candidates[i] = Append(FlowList[i], 1) ELSE candidates[i] \in RoutesOfPairs
  BY DEF CandidateInv, FlowsFirst
<1>2. Len(candidates) \in Nat /\ Flowing \in Nat
  BY <1>1, LenProperties, ScanShape DEF Flowing
<1>3. Chosen = {candidates[i] : i \in 1..Len(candidates)}
  BY <1>1, ChosenBy
<1>4. Chosen \subseteq AsCandidates \union RoutesOfPairs
  BY <1>1, <1>3, ElementOfSeq
<1>5. \A i \in 1..Flowing : FlowList[i] \in scan.flows
  BY <1>1, FlowsAreListed DEF NamesEachOnce, Flowing
<1>6. ASSUME NEW f \in scan.flows
      PROVE  FlowChosen(f) <=> \E i \in 1..Flowing : i <= Len(candidates) /\ FlowList[i] = f
  <2>1. ASSUME FlowChosen(f) PROVE \E i \in 1..Flowing : i <= Len(candidates) /\ FlowList[i] = f
    <3>1. PICK i \in 1..Len(candidates) : candidates[i] = Append(f, 1)
      BY <1>3, <2>1 DEF FlowChosen
    <3>2. candidates[i] \notin RoutesOfPairs
      BY <1>1, <3>1, FlowsAreNoRoutes DEF AsCandidates
    <3>3. i <= Flowing /\ Append(FlowList[i], 1) = Append(f, 1)
      BY <1>1, <3>1, <3>2
    <3>4. i \in 1..Flowing
      BY <1>2, <3>3
    <3>5. FlowList[i] = f
      BY <1>1, <1>5, <3>3, <3>4, FlowsAreNoRoutes
    <3>6. i <= Len(candidates)
      BY <1>2
    <3> QED BY <3>4, <3>5, <3>6
  <2>2. ASSUME NEW i \in 1..Flowing, i <= Len(candidates), FlowList[i] = f PROVE FlowChosen(f)
    <3>1. i \in 1..Len(candidates) /\ i <= Flowing
      BY <1>2, <2>2
    <3>2. candidates[i] = Append(f, 1)
      BY <1>1, <2>2, <3>1
    <3> QED BY <1>3, <3>1, <3>2 DEF FlowChosen
  <2> QED BY <2>1, <2>2
<1>7. ASSUME NEW c \in Chosen, c \in RoutesOfPairs PROVE Flowing < Len(candidates)
  <2>1. PICK i \in 1..Len(candidates) : candidates[i] = c
    BY <1>3
  <2>2. ~(i <= Flowing)
    <3> SUFFICES ASSUME i <= Flowing PROVE FALSE
      OBVIOUS
    <3>1. i \in 1..Flowing
      BY <1>2
    <3>2. c = Append(FlowList[i], 1) /\ FlowList[i] \in scan.flows
      BY <1>1, <1>5, <2>1, <3>1
    <3>3. c \in AsCandidates
      BY <3>2 DEF AsCandidates
    <3> QED BY <1>1, <1>7, <3>3, FlowsAreNoRoutes
  <2> QED BY <1>2, <2>2
<1> QED BY <1>1, <1>2, <1>3, <1>4, <1>6, <1>7

LEMMA AllFlowsChosen ==
  ASSUME CandidateInv, Flowing <= Len(candidates)
  PROVE  \A f \in scan.flows : FlowChosen(f)
<1>1. /\ scan \in Scans /\ Len(candidates) \in Nat /\ Flowing \in Nat
      /\ \A f \in scan.flows : FlowChosen(f) <=> \E i \in 1..Flowing : i <= Len(candidates) /\ FlowList[i] = f
  BY WhatIsChosen
<1>2. \A f \in scan.flows : \E i \in 1..Flowing : FlowList[i] = f
  BY <1>1, FlowsAreListed DEF NamesEachOnce, Flowing
<1>3. \A i \in 1..Flowing : i <= Len(candidates)
  BY <1>1
<1> QED BY <1>1, <1>2, <1>3

LEMMA StrongerFirstHolds == CandidateInv => StrongerFirst
<1> SUFFICES ASSUME CandidateInv PROVE StrongerFirst
  OBVIOUS
<1>1. /\ scan \in Scans /\ Len(candidates) \in Nat /\ Flowing \in Nat
      /\ Chosen = {candidates[i] : i \in 1..Len(candidates)}
      /\ Chosen \subseteq AsCandidates \union RoutesOfPairs
      /\ \A f \in scan.flows : FlowChosen(f) <=> \E i \in 1..Flowing : i <= Len(candidates) /\ FlowList[i] = f
      /\ \A c \in Chosen : c \in RoutesOfPairs => Flowing < Len(candidates)
  BY WhatIsChosen
<1>2. Len(candidates) <= MaxCandidates
  BY DEF CandidateInv, FlowsFirst
<1>3. Cardinality(Chosen) = Len(candidates)
  <2>1. candidates \in Seq(AsCandidates \union RoutesOfPairs)
    BY DEF CandidateInv, FlowsFirst
  <2>2. \A i, j \in 1..Len(candidates) : candidates[i] = candidates[j] => i = j
    BY DEF CandidateInv, NoneTwice
  <2> QED BY <1>1, <2>1, <2>2, AsManyAsListed
<1>4. (\E c \in Chosen : c[1] = NoFlow) => \A f \in scan.flows : FlowChosen(f)
  <2> SUFFICES ASSUME NEW c \in Chosen, c[1] = NoFlow PROVE \A f \in scan.flows : FlowChosen(f)
    OBVIOUS
  <2>1. c \in RoutesOfPairs
    BY <1>1, FlowsAreNoRoutes DEF AsCandidates
  <2>2. Flowing <= Len(candidates)
    BY <1>1, <2>1
  <2> QED BY <2>2, AllFlowsChosen
<1>5. ASSUME NEW f \in scan.flows, NEW g \in scan.flows, FlowChosen(f), g[1] < f[1]
      PROVE  FlowChosen(g)
  <2>1. PICK i \in 1..Flowing : i <= Len(candidates) /\ FlowList[i] = f
    BY <1>1, <1>5
  <2>2. PICK j \in 1..Flowing : FlowList[j] = g
    BY <1>1, FlowsAreListed DEF NamesEachOnce, Flowing
  <2>3. f[1] \in Int /\ g[1] \in Int
    BY <1>1, FlowsAreNoRoutes
  <2>4. ~(i < j)
    <3>1. i < j => FlowList[i][1] <= FlowList[j][1]
      BY <1>1, FlowsAreListed DEF Flowing
    <3> QED BY <1>5, <2>1, <2>2, <2>3, <3>1
  <2>5. j <= Len(candidates)
    BY <1>1, <2>1, <2>4
  <2> QED BY <1>1, <2>2, <2>5
<1>6. (\E c \in Chosen : c[4] > 1) /\ exhausted => \A r \in RoutesOfPairs : r[4] = 1 => r \in Chosen
  BY DEF CandidateInv, PairsInTurn
<1> QED BY <1>1, <1>2, <1>3, <1>4, <1>5, <1>6 DEF StrongerFirst, AsCandidates

LEMMA ReasonIsTrueHolds == CandidateInv => ReasonIsTrue
<1> SUFFICES ASSUME CandidateInv, stage = "done" PROVE
        /\ reason = "" => Chosen = AsCandidates \union RoutesOfPairs
        /\ ~limitReached => \A f \in scan.flows : FlowChosen(f)
        /\ limitReached <=> reason = "candidate_budget"
        /\ limitReached => Len(candidates) = MaxCandidates
        /\ exhausted => \A r \in RoutesOfPairs : r[4] = 1 => r \in Chosen
  BY DEF ReasonIsTrue, AsCandidates
<1>1. /\ limitReached \in BOOLEAN
      /\ limitReached => reason = "candidate_budget" /\ Len(candidates) = MaxCandidates
      /\ ~limitReached => /\ reason # "candidate_budget" /\ (reason = "" => exhausted)
                          /\ inOrder = <<>> /\ Flowing <= Len(candidates)
  BY DEF CandidateInv, Explained, FlowsFirst, Rested
<1>2. ~limitReached => \A f \in scan.flows : FlowChosen(f)
  BY <1>1, AllFlowsChosen
<1>3. exhausted => \A r \in RoutesOfPairs : r[4] = 1 => r \in Chosen
  BY DEF CandidateInv, PairsInTurn
<1>4. ASSUME reason = "" PROVE Chosen = AsCandidates \union RoutesOfPairs
  <2>1. ~limitReached /\ exhausted /\ inOrder = <<>>
    BY <1>1, <1>4
  <2>2. Listed = {}
    <3>1. 1..Len(inOrder) = {}
      BY <2>1, EmptySeq
    <3> QED BY <3>1 DEF Listed
  <2>3. RoutesOfPairs \subseteq Chosen
    BY <2>1, <2>2 DEF CandidateInv, PairsInTurn, Rested
  <2>4. AsCandidates \subseteq Chosen
    BY <1>2, <2>1 DEF AsCandidates, FlowChosen
  <2>5. Chosen \subseteq AsCandidates \union RoutesOfPairs
    BY WhatIsChosen
  <2> QED BY <2>3, <2>4, <2>5
<1> QED BY <1>1, <1>2, <1>3, <1>4

\* The order and the reasons of a choice hold in every state of it.
THEOREM CandidatesInOrder == CandidateSpec => [](StrongerFirst /\ ReasonIsTrue)
<1>1. CandidateInv => StrongerFirst /\ ReasonIsTrue
  BY StrongerFirstHolds, ReasonIsTrueHolds
<1> QED BY <1>1, CandidateInvariance, PTL

-------------------------------------------------------------------------------
(* The analyses together *)

\* The analysis that is made has its invariant; the others are not made.
GraphInv ==
  /\ analysis = "flow" => FlowInv
  /\ analysis = "calls" => SearchInv
  /\ analysis = "values" => ValueInv
  /\ analysis = "routes" => MarkInv
  /\ analysis = "candidates" => CandidateInv

LEMMA GraphStart ==
  ASSUME GraphInit
  PROVE  GraphInv
<1>1. analysis = "flow" => FlowInv
  BY FlowInitInv DEF GraphInit
<1>2. analysis = "calls" => SearchInv
  BY SearchStart DEF GraphInit
<1>3. analysis = "values" => ValueInv
  BY ValueStart DEF GraphInit
<1>4. analysis = "routes" => MarkInv
  <2>1. analysis = "routes" => RouteInit
    BY DEF GraphInit
  <2> QED BY <2>1, MarkInit
<1>5. analysis = "candidates" => CandidateInv
  BY CandidateStart DEF GraphInit
<1> QED BY <1>1, <1>2, <1>3, <1>4, <1>5 DEF GraphInv

\* A step is one of the analysis that is made, and the others stand still.
LEMMA OneAnalysisMoves ==
  ASSUME [GraphNext]_graphVars
  PROVE  /\ analysis' = analysis
         /\ analysis = "flow" => [FlowNext]_flowVars
         /\ analysis = "calls" => [Explore]_pathVars
         /\ analysis = "values" => [ValueNext]_valueVars
         /\ analysis = "routes" => [RouteNext]_routeVars
         /\ analysis = "candidates" => [CandidateNext]_candidateVars
<1>1. CASE Flow
  BY <1>1 DEF Flow, searchVars
<1>2. CASE Search
  <2>1. CASE analysis = "calls" /\ Paths
    BY <1>2, <2>1 DEF Search, Paths
  <2>2. CASE analysis = "values" /\ Values
    BY <1>2, <2>2 DEF Search, Values
  <2>3. CASE analysis = "routes" /\ Routes
    BY <1>2, <2>3 DEF Search, Routes
  <2>4. CASE analysis = "candidates" /\ Candidates
    BY <1>2, <2>4 DEF Search, Candidates
  <2> QED BY <1>2, <2>1, <2>2, <2>3, <2>4 DEF Search
<1>3. CASE UNCHANGED graphVars
  BY <1>3 DEF graphVars, searchVars
<1> QED BY <1>1, <1>2, <1>3 DEF GraphNext

LEMMA GraphStep ==
  ASSUME GraphInv, [GraphNext]_graphVars
  PROVE  GraphInv'
<1>1. analysis' = "flow" => FlowInv'
  BY OneAnalysisMoves, FlowStepInv DEF GraphInv
<1>2. analysis' = "calls" => SearchInv'
  BY OneAnalysisMoves, SearchStep DEF GraphInv
<1>3. analysis' = "values" => ValueInv'
  BY OneAnalysisMoves, ValueStep DEF GraphInv
<1>4. analysis' = "routes" => MarkInv'
  <2>1. analysis' = "routes" => MarkInv /\ [RouteNext]_routeVars
    BY OneAnalysisMoves DEF GraphInv
  <2> QED BY <2>1, MarkStep
<1>5. analysis' = "candidates" => CandidateInv'
  <2>1. analysis' = "candidates" => CandidateInv /\ [CandidateNext]_candidateVars
    BY OneAnalysisMoves DEF GraphInv
  <2> QED BY <2>1, CandidateStep
<1> QED BY <1>1, <1>2, <1>3, <1>4, <1>5 DEF GraphInv

\* Whichever analysis is made, on whatever input, its invariant holds throughout.
THEOREM GraphInvariance == GraphSpec => []GraphInv
<1>1. GraphInit => GraphInv
  BY GraphStart
<1>2. GraphInv /\ [GraphNext]_graphVars => GraphInv'
  BY GraphStep
<1> QED BY <1>1, <1>2, PTL DEF GraphSpec

\* What the passes of GraphAnalyzer write at an operation, the definitions that
\* arrive and the branches it depends on, is what the paths of the function say, for
\* every function and every order of the queue.
THEOREM AnnotationsExact == GraphSpec => []AnnotationsAreExact
<1>1. FlowInv => ExactlyByPaths
  BY ArriveByPaths
<1>2. FlowInv => DependsOnTheBranch
  BY BranchesDecide DEF FlowInv, FlowTypeOK
<1>3. GraphInv => AnnotationsAreExact
  BY <1>1, <1>2 DEF GraphInv, AnnotationsAreExact
<1> QED BY <1>3, GraphInvariance, PTL

\* No search says more than it knows: an unmarked call path, an absent target, the
\* routes of a value, flows through functions and the reason given for the choice of
\* candidates, for all inputs and all limits.
THEOREM SearchesHonest == GraphSpec => []SearchIsHonest
<1>1. SearchInv => CallsSearchedHonestly
  BY SearchIsTyped, SearchIsComplete, SearchLeavesFar, SearchFindsShortest DEF CallsSearchedHonestly
<1>2. MarkInv => MissingIsMarked
  BY MarkTells
<1>3. GraphInv => SearchIsHonest
  BY <1>1, <1>2, RoutesAllThere, StrongerFirstHolds, ReasonIsTrueHolds DEF GraphInv, SearchIsHonest
<1> QED BY <1>3, GraphInvariance, PTL

\* No search reports what is not there, whichever limit it hit: each route of a value
\* is one, and a flow through functions returns only to where it was called from.
THEOREM PathsReal == GraphSpec => []PathsAreReal
<1>1. MarkInv => FlowsAreReal
  BY RouteInvFlows DEF MarkInv
<1>2. GraphInv => PathsAreReal
  BY <1>1, RoutesReal DEF GraphInv, PathsAreReal
<1> QED BY <1>2, GraphInvariance, PTL
===============================================================================
