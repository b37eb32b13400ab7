------------------------ MODULE ExperimentAuditProofs ------------------------
(***************************************************************************)
(* Proofs about ExperimentAudit, for every finite set of comparisons and   *)
(* every size of the quotas.                                               *)
(*                                                                         *)
(* The quota is about a sum over all sessions.  The first part proves what *)
(* is needed of such sums: the fold that defines them satisfies its        *)
(* recursion, and sums grow with their values.  Induction over a finite    *)
(* set is by a smallest counterexample.  The second part shows that IInv   *)
(* is inductive.                                                           *)
(***************************************************************************)
EXTENDS ExperimentAudit, FiniteSetTheorems, TLAPS

-----------------------------------------------------------------------------
(* Sums over finite sets *)

\* Among sets of subsets of a finite set there is a smallest one.
LEMMA SmallestSubset ==
  ASSUME NEW S, IsFiniteSet(S), NEW F, F \subseteq SUBSET S, F # {}
  PROVE  \E A \in F : \A B \in F : B \subseteq A => B = A
<1>1. IsWellFoundedOn(StrictSubsetOrdering(S), SUBSET S)
  BY FS_StrictSubsetOrderingWellFounded, FS_FiniteSubsetsOfFinite
<1>2. \E A \in F : \A B \in F : ~ (<<B, A>> \in StrictSubsetOrdering(S))
  BY <1>1, WFMin
<1>3. \A A, B \in SUBSET S : B \subseteq A /\ B # A => <<B, A>> \in StrictSubsetOrdering(S)
  BY DEF StrictSubsetOrdering
<1> QED BY <1>2, <1>3

\* Among natural numbers there is a smallest one.
LEMMA SmallestNumber ==
  ASSUME NEW T, T \subseteq Nat, T # {}
  PROVE  \E m \in T : \A k \in T : m <= k
<1>1. PICK n \in T : n \in Nat
  OBVIOUS
<1> DEFINE S == 1 .. n
           F == {1 .. k : k \in {j \in T : j <= n}}
<1>2. IsFiniteSet(S) /\ F \subseteq SUBSET S /\ F # {}
  <2>1. IsFiniteSet(1 .. n)
    BY <1>1, FS_Interval
  <2>2. F \subseteq SUBSET (1 .. n)
    BY <1>1
  <2>3. F # {}
    BY <1>1
  <2> QED BY <2>1, <2>2, <2>3
<1>3. \E A \in F : \A B \in F : B \subseteq A => B = A
  <2> HIDE DEF S, F
  <2> QED BY <1>2, SmallestSubset
<1>4. PICK A \in F : \A B \in F : B \subseteq A => B = A
  BY <1>3
<1>5. PICK m \in T : m <= n /\ A = 1 .. m
  BY <1>4
<1>6. ASSUME NEW k \in T, k < m PROVE FALSE
  <2>1. 1 .. k \in F
    BY <1>1, <1>5, <1>6
  <2>2. 1 .. k \subseteq A /\ m \in A /\ m \notin 1 .. k
    BY <1>5, <1>6
  <2> QED BY <2>1, <2>2, <1>4
<1> QED BY <1>5, <1>6

\* The element a fold takes next, and the equation of its partial results.
Pick(s) == CHOOSE x \in s : TRUE
PartialSums(f, S, h) ==
  \A s \in S : h[s] = IF s = {} THEN 0 ELSE f[Pick(s)] + h[s \ {Pick(s)}]

\* Induction along the order in which a fold takes the elements.
LEMMA PickInduction ==
  ASSUME NEW S, IsFiniteSet(S), NEW G, {} \in G,
         \A s \in SUBSET S : s # {} /\ s \ {Pick(s)} \in G => s \in G
  PROVE  S \in G
<1> DEFINE F == {s \in SUBSET S : s \notin G}
<1> SUFFICES ASSUME F # {} PROVE FALSE
  OBVIOUS
<1>1. PICK s \in F : \A t \in F : t \subseteq s => t = s
  <2>1. F \subseteq SUBSET S
    OBVIOUS
  <2> HIDE DEF F
  <2> QED BY <2>1, SmallestSubset
<1>2. s # {}
  BY <1>1
<1>3. Pick(s) \in s
  BY <1>2 DEF Pick
<1>4. s \ {Pick(s)} \in G
  BY <1>1, <1>3
<1> QED BY <1>1, <1>2, <1>4

AtMost(S, n) == {s \in SUBSET S : Cardinality(s) <= n}

\* The equation has a solution on the subsets of every size.
LEMMA PartialSumsExist ==
  ASSUME NEW S, IsFiniteSet(S), NEW f \in [S -> Nat], NEW n \in Nat
  PROVE  \E h \in [AtMost(S, n) -> Nat] : PartialSums(f, AtMost(S, n), h)
<1> DEFINE Solved(k) == \E h \in [AtMost(S, k) -> Nat] : PartialSums(f, AtMost(S, k), h)
           Bad == {k \in Nat : ~ Solved(k)}
<1> SUFFICES ASSUME n \in Bad PROVE FALSE
  OBVIOUS
<1>1. PICK m \in Bad : \A k \in Bad : m <= k
  <2>1. Bad \subseteq Nat /\ Bad # {}
    OBVIOUS
  <2> HIDE DEF Bad
  <2> QED BY <2>1, SmallestNumber, Zenon
<1>2. \A s \in SUBSET S : IsFiniteSet(s) /\ Cardinality(s) \in Nat
  BY FS_Subset, FS_CardinalityType
<1>3. CASE m = 0
  <2> DEFINE h == [s \in AtMost(S, 0) |-> 0]
  <2>1. \A s \in AtMost(S, 0) : s = {}
    BY <1>2, FS_EmptySet DEF AtMost
  <2>2. h \in [AtMost(S, 0) -> Nat] /\ PartialSums(f, AtMost(S, 0), h)
    BY <2>1 DEF PartialSums
  <2> QED BY <1>3, <2>2
<1>4. CASE m # 0
  <2>1. m - 1 \in Nat /\ m - 1 \notin Bad
    BY <1>4, <1>1
  <2>2. PICK g \in [AtMost(S, m - 1) -> Nat] : PartialSums(f, AtMost(S, m - 1), g)
    BY <2>1
  <2> DEFINE h == [s \in AtMost(S, m) |->
                     IF s = {} THEN 0 ELSE f[Pick(s)] + g[s \ {Pick(s)}]]
  <2>3. ASSUME NEW s \in AtMost(S, m), s # {}
        PROVE  /\ Pick(s) \in S
               /\ s \ {Pick(s)} \in AtMost(S, m - 1)
               /\ s \ {Pick(s)} \in AtMost(S, m)
    <3>1. s \in SUBSET S /\ Cardinality(s) <= m /\ Pick(s) \in s
      BY <2>3 DEF AtMost, Pick
    <3>2. Cardinality(s \ {Pick(s)}) = Cardinality(s) - 1
      BY <3>1, <1>2, FS_RemoveElement
    <3> QED BY <3>1, <3>2, <1>2 DEF AtMost
  <2>4. \A s \in AtMost(S, m - 1) : s \in AtMost(S, m) /\ h[s] = g[s]
    <3>1. \A s \in AtMost(S, m - 1) : s \in AtMost(S, m)
      BY <1>2, <1>1 DEF AtMost
    <3> QED BY <2>2, <3>1 DEF PartialSums
  <2>5. h \in [AtMost(S, m) -> Nat]
    BY <2>3, <2>2
  <2>6. \A s \in AtMost(S, m) : s # {} => g[s \ {Pick(s)}] = h[s \ {Pick(s)}]
    <3> HIDE DEF h
    <3> QED BY <2>3, <2>4
  <2>7. PartialSums(f, AtMost(S, m), h)
    BY <2>6 DEF PartialSums
  <2> QED BY <2>5, <2>7
<1> QED BY <1>3, <1>4

\* The sum is the last one of partial sums that satisfy the equation.
LEMMA TotalIsPartialSum ==
  ASSUME NEW S, IsFiniteSet(S), NEW f \in [S -> Nat]
  PROVE  \E h \in [SUBSET S -> Nat] : PartialSums(f, SUBSET S, h) /\ Total(f) = h[S]
<1> DEFINE Eq(h) == h = [s \in SUBSET S |-> IF s = {} THEN 0
                                            ELSE f[Pick(s)] + h[s \ {Pick(s)}]]
<1>1. PICK g \in [SUBSET S -> Nat] : PartialSums(f, SUBSET S, g)
  <2> DEFINE n == Cardinality(S)
  <2>1. n \in Nat /\ AtMost(S, n) = SUBSET S
    BY FS_Subset, FS_CardinalityType DEF AtMost
  <2> HIDE DEF n
  <2>2. \E h \in [AtMost(S, n) -> Nat] : PartialSums(f, AtMost(S, n), h)
    BY <2>1, PartialSumsExist
  <2> QED BY <2>1, <2>2
<1>2. Eq(g)
  BY <1>1 DEF PartialSums
<1> DEFINE h == CHOOSE h : Eq(h)
<1>3. Eq(h)
  <2> HIDE DEF Eq
  <2> QED BY <1>2
<1>4. Total(f) = h[S]
  BY DEF Total, FoldFunction, FoldFunctionOnSet, MapThenFoldSet, Pick
<1>5. \A s \in SUBSET S : h[s] \in Nat
  <2> HIDE DEF h
  <2> SUFFICES ASSUME NEW T \in SUBSET S PROVE h[T] \in Nat
    OBVIOUS
  <2> DEFINE G == {s \in SUBSET S : h[s] \in Nat}
  <2>1. {} \in G
    BY <1>3
  <2>2. ASSUME NEW s \in SUBSET T, s # {}, s \ {Pick(s)} \in G PROVE s \in G
    <3>1. Pick(s) \in S /\ s \in SUBSET S
      BY <2>2 DEF Pick
    <3>2. h[s] = f[Pick(s)] + h[s \ {Pick(s)}]
      BY <2>2, <3>1, <1>3
    <3> QED BY <2>2, <3>1, <3>2
  <2>3. IsFiniteSet(T)
    BY FS_Subset
  <2> HIDE DEF G
  <2>4. T \in G
    BY <2>1, <2>2, <2>3, PickInduction
  <2> QED BY <2>4 DEF G
<1>6. h \in [SUBSET S -> Nat] /\ PartialSums(f, SUBSET S, h)
  <2> HIDE DEF h
  <2> QED BY <1>3, <1>5 DEF PartialSums
<1> QED BY <1>4, <1>6

LEMMA TotalIsNat ==
  ASSUME NEW S, IsFiniteSet(S), NEW f \in [S -> Nat]
  PROVE  Total(f) \in Nat
<1>1. PICK h \in [SUBSET S -> Nat] : Total(f) = h[S]
  BY TotalIsPartialSum
<1> QED BY <1>1

\* Values that are zero sum up to zero.
LEMMA TotalOfZeros ==
  ASSUME NEW S, IsFiniteSet(S), NEW f \in [S -> Nat], \A x \in S : f[x] = 0
  PROVE  Total(f) = 0
<1>1. PICK a \in [SUBSET S -> Nat] : PartialSums(f, SUBSET S, a) /\ Total(f) = a[S]
  BY TotalIsPartialSum
<1> DEFINE G == {s \in SUBSET S : a[s] = 0}
<1>2. {} \in G
  BY <1>1 DEF PartialSums
<1>3. ASSUME NEW s \in SUBSET S, s # {}, s \ {Pick(s)} \in G PROVE s \in G
  <2>1. Pick(s) \in S
    BY <1>3 DEF Pick
  <2> QED BY <2>1, <1>1, <1>3 DEF PartialSums
<1>4. S \in G
  <2> HIDE DEF G
  <2> QED BY <1>2, <1>3, PickInduction
<1> QED BY <1>1, <1>4

\* Smaller values have a smaller sum.
LEMMA TotalGrows ==
  ASSUME NEW S, IsFiniteSet(S), NEW f \in [S -> Nat], NEW g \in [S -> Nat],
         \A x \in S : f[x] <= g[x]
  PROVE  Total(f) <= Total(g)
<1>1. PICK a \in [SUBSET S -> Nat] : PartialSums(f, SUBSET S, a) /\ Total(f) = a[S]
  BY TotalIsPartialSum
<1>2. PICK b \in [SUBSET S -> Nat] : PartialSums(g, SUBSET S, b) /\ Total(g) = b[S]
  BY TotalIsPartialSum
<1> DEFINE G == {s \in SUBSET S : a[s] <= b[s]}
<1>3. {} \in G
  <2>1. a[{}] = 0 /\ b[{}] = 0
    BY <1>1, <1>2 DEF PartialSums
  <2> QED BY <2>1
<1>4. ASSUME NEW s \in SUBSET S, s # {}, s \ {Pick(s)} \in G PROVE s \in G
  <2>1. Pick(s) \in S
    BY <1>4 DEF Pick
  <2>2. a[s] = f[Pick(s)] + a[s \ {Pick(s)}] /\ b[s] = g[Pick(s)] + b[s \ {Pick(s)}]
    BY <1>1, <1>2, <1>4 DEF PartialSums
  <2> QED BY <2>1, <2>2, <1>4
<1>5. S \in G
  <2> HIDE DEF G
  <2> QED BY <1>3, <1>4, PickInduction
<1> QED BY <1>1, <1>2, <1>5

\* Raising one value raises the sum by as much.
LEMMA TotalRaised ==
  ASSUME NEW S, IsFiniteSet(S), NEW f \in [S -> Nat], NEW g \in [S -> Nat],
         NEW r \in S, NEW k \in Nat, g[r] = f[r] + k,
         \A x \in S \ {r} : g[x] = f[x]
  PROVE  Total(g) = Total(f) + k
<1>1. PICK a \in [SUBSET S -> Nat] : PartialSums(f, SUBSET S, a) /\ Total(f) = a[S]
  BY TotalIsPartialSum
<1>2. PICK b \in [SUBSET S -> Nat] : PartialSums(g, SUBSET S, b) /\ Total(g) = b[S]
  BY TotalIsPartialSum
<1> DEFINE G == {s \in SUBSET S : b[s] = a[s] + (IF r \in s THEN k ELSE 0)}
<1>3. {} \in G
  <2>1. a[{}] = 0 /\ b[{}] = 0
    BY <1>1, <1>2 DEF PartialSums
  <2> QED BY <2>1
<1>4. ASSUME NEW s \in SUBSET S, s # {}, s \ {Pick(s)} \in G PROVE s \in G
  <2>1. Pick(s) \in s /\ Pick(s) \in S
    BY <1>4 DEF Pick
  <2>2. a[s] = f[Pick(s)] + a[s \ {Pick(s)}] /\ b[s] = g[Pick(s)] + b[s \ {Pick(s)}]
    BY <1>1, <1>2, <1>4 DEF PartialSums
  <2>3. f[Pick(s)] \in Nat /\ a[s \ {Pick(s)}] \in Nat
    BY <2>1
  <2>4. CASE Pick(s) = r
    BY <2>1, <2>2, <2>3, <2>4, <1>4
  <2>5. CASE Pick(s) # r
    BY <2>1, <2>2, <2>3, <2>5, <1>4
  <2> QED BY <2>4, <2>5
<1>5. S \in G
  <2> HIDE DEF G
  <2> QED BY <1>3, <1>4, PickInduction
<1> QED BY <1>1, <1>2, <1>5

-----------------------------------------------------------------------------
(* Reservations *)

Reserved(s) == [r \in Runs |-> s[r].reserved]

\* A pair is finite and, of different elements, has two of them.
LEMMA PairIsFinite ==
  ASSUME NEW x, NEW y, x # y
  PROVE  IsFiniteSet({x, y}) /\ Cardinality({x, y}) = 2
<1> DEFINE S == {x}
<1>1. IsFiniteSet(S) /\ Cardinality(S) = 1
  BY FS_Singleton, Zenon
<1>2. y \notin S /\ S \cup {y} = {x, y}
  OBVIOUS
<1> HIDE DEF S
<1>3. IsFiniteSet(S \cup {y}) /\ Cardinality(S \cup {y}) = 2
  BY <1>1, <1>2, FS_AddElement
<1> QED BY <1>2, <1>3

LEMMA RunsAreFinite == IsFiniteSet(Runs)
<1>1. IsFiniteSet(Places)
  <2>1. 1 # 2
    OBVIOUS
  <2> QED BY <2>1, PairIsFinite, Zenon DEF Places
<1> QED BY <1>1, FS_Product, ExperimentAssumption DEF Runs

LEMMA TwoRuns ==
  ASSUME NEW c \in Comparisons
  PROVE  RunsOf(c) = {<<c, 1>>, <<c, 2>>} /\ Cardinality(RunsOf(c)) = 2
<1>1. RunsOf(c) = {<<c, 1>>, <<c, 2>>}
  BY DEF RunsOf, Places
<1>2. <<c, 1>> # <<c, 2>>
  OBVIOUS
<1>3. Cardinality({<<c, 1>>, <<c, 2>>}) = 2
  BY <1>2, PairIsFinite, Zenon
<1> QED BY <1>1, <1>3

\* A step that raises no reservation keeps the quota.
LEMMA QuotaKept ==
  ASSUME TypeOK, TypeOK', QuotaHeld,
         \A r \in Runs : session'[r].reserved <= session[r].reserved
  PROVE  QuotaHeld'
<1>1. Reserved(session) \in [Runs -> Nat] /\ Reserved(session') \in [Runs -> Nat]
  BY ExperimentAssumption DEF TypeOK, Reserved, Session
<1>2. \A r \in Runs : Reserved(session')[r] <= Reserved(session)[r]
  BY DEF Reserved
<1>3. Total(Reserved(session')) <= Total(Reserved(session))
  BY <1>1, <1>2, RunsAreFinite, TotalGrows
<1>4. Total(Reserved(session)) \in Nat /\ Total(Reserved(session')) \in Nat
  BY <1>1, RunsAreFinite, TotalIsNat
<1>5. Used = Total(Reserved(session)) /\ Used' = Total(Reserved(session'))
  BY DEF Used, Reserved
<1> QED BY <1>3, <1>4, <1>5, ExperimentAssumption DEF QuotaHeld

\* Two runs that had nothing reserved are given their bytes if there is room.
LEMMA QuotaOfPair ==
  ASSUME TypeOK, TypeOK', NEW c \in Comparisons, RoomFor(Cardinality(RunsOf(c))),
         \A r \in RunsOf(c) : session[r].reserved = 0 /\ session'[r].reserved = RunBytes,
         \A r \in Runs \ RunsOf(c) : session'[r] = session[r]
  PROVE  QuotaHeld'
<1> DEFINE p == <<c, 1>>
           q == <<c, 2>>
           f == Reserved(session)
           h == Reserved(session')
           g == [f EXCEPT ![p] = RunBytes]
<1>1. p \in Runs /\ q \in Runs /\ p # q /\ RunBytes \in Nat
  BY ExperimentAssumption DEF Runs, Places
<1>2. f \in [Runs -> Nat] /\ h \in [Runs -> Nat]
  BY ExperimentAssumption DEF TypeOK, Reserved, Session
<1>3. g \in [Runs -> Nat] /\ g[p] = f[p] + RunBytes /\ \A r \in Runs \ {p} : g[r] = f[r]
  BY <1>1, <1>2, TwoRuns DEF Reserved
<1>4. h[q] = g[q] + RunBytes /\ \A r \in Runs \ {q} : h[r] = g[r]
  BY <1>1, <1>2, <1>3, TwoRuns DEF Reserved
<1> HIDE DEF p, q, f, g, h
<1>5. Total(g) = Total(f) + RunBytes
  BY <1>1, <1>2, <1>3, RunsAreFinite, TotalRaised
<1>6. Total(h) = Total(g) + RunBytes
  BY <1>1, <1>2, <1>3, <1>4, RunsAreFinite, TotalRaised
<1>7. Used = Total(f) /\ Used' = Total(h)
  BY DEF Used, Reserved, f, h
<1>8. Total(f) \in Nat
  BY <1>2, RunsAreFinite, TotalIsNat
<1>9. Used + 2 * RunBytes <= TotalBytes
  BY TwoRuns DEF RoomFor
<1> QED BY <1>1, <1>5, <1>6, <1>7, <1>8, <1>9, ExperimentAssumption DEF QuotaHeld

-----------------------------------------------------------------------------
(* Single sessions *)

\* A session is the record of its fields.
LEMMA SessionFields ==
  ASSUME NEW s \in Session
  PROVE  /\ s.status \in {"none", "reserved", "recording", "sealed", "expired"}
         /\ s.reserved \in Nat /\ s.payload \in Nat /\ s.records \in Nat
         /\ s.reserved <= RunBytes /\ s.payload <= RunBytes /\ s.records <= RunBytes
         /\ s.protected \in BOOLEAN
         /\ s = [status |-> s.status, reserved |-> s.reserved, payload |-> s.payload,
                 records |-> s.records, protected |-> s.protected]
<1>1. /\ s.status \in {"none", "reserved", "recording", "sealed", "expired"}
      /\ s.protected \in BOOLEAN
      /\ s = [status |-> s.status, reserved |-> s.reserved, payload |-> s.payload,
              records |-> s.records, protected |-> s.protected]
  BY DEF Session
<1>2. s.reserved \in 0..RunBytes /\ s.payload \in 0..RunBytes /\ s.records \in 0..RunBytes
  BY DEF Session
<1> QED BY <1>1, <1>2, ExperimentAssumption

\* A session that is created, and what the four writes make of one.
LEMMA NewSessions == NoSession \in Session /\ NewSession \in Session
BY ExperimentAssumption DEF Session, NoSession, NewSession

LEMMA AppendedSession ==
  ASSUME NEW s \in Session, s.payload = s.records, s.payload + 1 <= s.reserved
  PROVE  /\ Appended(s) \in Session
         /\ Appended(s).status = "recording" /\ Appended(s).records = s.records + 1
         /\ Appended(s).payload = s.payload + 1 /\ Appended(s).reserved = s.reserved
         /\ Appended(s).protected = s.protected
<1> DEFINE t == [s EXCEPT !.records = @ + 1]
           u == [t EXCEPT !.payload = @ + 1]
<1>1. Appended(s) = [status |-> "recording", reserved |-> s.reserved, payload |-> s.payload + 1,
                     records |-> s.records + 1, protected |-> s.protected]
  <2>1. t = [status |-> s.status, reserved |-> s.reserved, payload |-> s.payload,
             records |-> s.records + 1, protected |-> s.protected]
    BY DEF Session
  <2>2. Appended(s) = [u EXCEPT !.status = "recording"]
    BY DEF Appended
  <2> HIDE DEF t
  <2>3. u = [status |-> s.status, reserved |-> s.reserved, payload |-> s.payload + 1,
             records |-> s.records + 1, protected |-> s.protected]
    BY <2>1
  <2> HIDE DEF u
  <2> QED BY <2>2, <2>3
<1>2. s.payload + 1 \in 0..RunBytes /\ s.reserved \in 0..RunBytes
  BY SessionFields, ExperimentAssumption
<1> QED BY <1>1, <1>2, SessionFields DEF Session

LEMMA FinishedSession ==
  ASSUME NEW s \in Session, s.payload = s.records, s.payload <= s.reserved
  PROVE  /\ Finished(s) \in Session
         /\ Finished(s).status = IF s.status = "expired" THEN "expired" ELSE "sealed"
         /\ Finished(s).records = s.records /\ Finished(s).payload = s.payload
         /\ s.payload <= Finished(s).reserved /\ Finished(s).reserved <= s.reserved
         /\ Finished(s).protected = s.protected
<1>1. CASE s.status = "expired"
  BY <1>1, SessionFields DEF Finished
<1>2. CASE s.status # "expired"
  <2>1. Finished(s) = [status |-> "sealed", reserved |-> s.payload, payload |-> s.payload,
                       records |-> s.records, protected |-> s.protected]
    BY <1>2 DEF Finished, Session
  <2>2. s.payload \in 0..RunBytes
    BY SessionFields, ExperimentAssumption
  <2> QED BY <1>2, <2>1, <2>2, SessionFields DEF Session
<1> QED BY <1>1, <1>2

LEMMA EmptiedSession ==
  ASSUME NEW s \in Session
  PROVE  /\ Emptied(s) \in Session
         /\ Emptied(s).status = "expired" /\ Emptied(s).records = 0
         /\ Emptied(s).payload = 0 /\ Emptied(s).reserved = 0
         /\ Emptied(s).protected = s.protected
<1> DEFINE t == [s EXCEPT !.status = "expired"]
           u == [t EXCEPT !.records = 0]
<1>1. Emptied(s) = [status |-> "expired", reserved |-> 0, payload |-> 0,
                    records |-> 0, protected |-> s.protected]
  <2>1. t = [status |-> "expired", reserved |-> s.reserved, payload |-> s.payload,
             records |-> s.records, protected |-> s.protected]
    BY DEF Session
  <2>2. Emptied(s) = [u EXCEPT !.payload = 0, !.reserved = 0]
    BY DEF Emptied
  <2> HIDE DEF t
  <2>3. u = [status |-> "expired", reserved |-> s.reserved, payload |-> s.payload,
             records |-> 0, protected |-> s.protected]
    BY <2>1
  <2> HIDE DEF u
  <2> QED BY <2>2, <2>3
<1> QED BY <1>1, SessionFields, ExperimentAssumption DEF Session

LEMMA ProtectedSession ==
  ASSUME NEW s \in Session
  PROVE  /\ [s EXCEPT !.protected = TRUE] \in Session
         /\ [s EXCEPT !.protected = TRUE].protected
         /\ [s EXCEPT !.protected = TRUE].status = s.status
         /\ [s EXCEPT !.protected = TRUE].records = s.records
         /\ [s EXCEPT !.protected = TRUE].payload = s.payload
         /\ [s EXCEPT !.protected = TRUE].reserved = s.reserved
BY DEF Session

\* A write keeps the counters, gives nothing back to the reservation it does
\* not have, and neither reopens a session nor protects an open one.
MayBecome(s, t) ==
  \/ t = s
  \/ /\ s.status # "none" /\ t.status # "none" /\ t \in Session
     /\ t.payload = t.records /\ t.payload <= t.reserved /\ t.reserved <= s.reserved
     /\ s.status \in {"sealed", "expired"} => t.status \in {"sealed", "expired"}
     /\ t.protected => t.status \in {"sealed", "expired"}

-----------------------------------------------------------------------------
(* The inductive invariant *)

LEMMA InitIInv == Init => IInv
<1> SUFFICES ASSUME Init PROVE IInv
  OBVIOUS
<1>1. TypeOK
  BY NewSessions, ExperimentAssumption DEF Init, TypeOK, Terminal
<1>2. Accounted /\ ProtectedIsSealed /\ SessionFollowsRun /\ RequestsAreEvents
  BY DEF Init, Accounted, ProtectedIsSealed, SessionFollowsRun, RequestsAreEvents,
         NoSession, Closed, Runs
<1>3. QuotaHeld
  <2>1. Reserved(session) \in [Runs -> Nat] /\ \A r \in Runs : Reserved(session)[r] = 0
    BY DEF Init, Reserved, NoSession
  <2>2. Used = Total(Reserved(session))
    BY DEF Used, Reserved
  <2>3. Used = 0
    BY <2>1, <2>2, RunsAreFinite, TotalOfZeros
  <2> QED BY <2>3, ExperimentAssumption DEF QuotaHeld
<1> QED BY <1>1, <1>2, <1>3 DEF IInv, AuditInv

\* Two reserved sessions and two queued runs.
LEMMA CreateStep ==
  ASSUME IInv, NEW c \in Comparisons, CreatePair(c)
  PROVE  IInv'
<1> USE DEF IInv, AuditInv
<1>1. \A r \in RunsOf(c) : r \in Runs /\ r[1] = c /\ session[r] = NoSession
  BY DEF CreatePair, RunsOf, Runs, SessionFollowsRun
<1>2. TypeOK'
  BY <1>1, NewSessions DEF TypeOK, CreatePair
<1>3. Accounted' /\ ProtectedIsSealed' /\ RequestsAreEvents'
  BY ExperimentAssumption
     DEF CreatePair, NewSession, Accounted, ProtectedIsSealed, RequestsAreEvents
<1>4. SessionFollowsRun'
  <2>1. c \notin reviewing
    <3>1. <<c, 1>> \in RunsOf(c)
      BY TwoRuns
    <3>2. <<c, 1>> \in Runs /\ session[<<c, 1>>].status = "none"
      BY <1>1, <3>1 DEF NoSession
    <3> QED BY <3>2 DEF SessionFollowsRun, Closed
  <2>2. \A r \in RunsOf(c) : worker[r] = "none"
    BY <1>1 DEF CreatePair, SessionFollowsRun
  <2> QED BY <1>1, <2>1, <2>2, TwoRuns DEF CreatePair, NewSession, SessionFollowsRun, Closed
<1>5. QuotaHeld'
  <2>1. \A r \in RunsOf(c) : session[r].reserved = 0 /\ session'[r].reserved = RunBytes
    BY <1>1 DEF CreatePair, NoSession, NewSession
  <2>2. RoomFor(Cardinality(RunsOf(c))) /\ \A r \in Runs \ RunsOf(c) : session'[r] = session[r]
    BY DEF CreatePair
  <2> QED BY <1>2, <2>1, <2>2, QuotaOfPair
<1> QED BY <1>2, <1>3, <1>4, <1>5

\* Steps of runs and users that leave the sessions alone.
LEMMA QuietStep ==
  ASSUME IInv, TypeOK', UNCHANGED session, SessionFollowsRun', RequestsAreEvents'
  PROVE  IInv'
<1>1. Accounted' /\ ProtectedIsSealed'
  BY DEF IInv, AuditInv, Accounted, ProtectedIsSealed
<1>2. QuotaHeld'
  BY DEF IInv, AuditInv, QuotaHeld, Used
<1> QED BY <1>1, <1>2 DEF IInv, AuditInv

\* Bounds of the faults.
LEMMA FaultTyped ==
  ASSUME TypeOK, Fault
  PROVE  faults' \in 0..MaxFaults
BY ExperimentAssumption DEF TypeOK, Fault

\* Steps of a run and of its worker that write no session.
LEMMA RunSteps ==
  ASSUME IInv, NEW r \in Runs,
         \/ Claim(r) \/ ReadCancel(r) \/ CancelQueued(r) \/ AppendRefused(r) \/ AnswerReady(r)
         \/ Complete(r) \/ Announce(r) \/ SetFailed(r) \/ Fail(r) \/ Crash(r) \/ Recover(r)
  PROVE  IInv'
<1> USE DEF Claim, ReadCancel, CancelQueued, AppendRefused, AnswerReady, Complete, Announce,
            SetFailed, Fail, Crash, Recover, Live, Terminal
<1>0. TypeOK
  BY DEF IInv, AuditInv
<1>1. TypeOK'
  <2>1. /\ faults' \in 0..MaxFaults
        /\ UNCHANGED <<session, aged, reviewing, reviewed, exposed, diagnosis, requests>>
    BY <1>0, FaultTyped DEF TypeOK
  <2>2. /\ run' \in [Runs -> {"absent", "queued", "running"} \union Terminal]
        /\ worker' \in [Runs -> {"none", "work", "seal", "complete", "announce",
                                 "fail", "sealFailed", "gone"}]
        /\ answered' \subseteq Runs
    BY <1>0 DEF TypeOK
  <2> QED BY <1>0, <2>1, <2>2 DEF TypeOK
<1>2. SessionFollowsRun' /\ UNCHANGED session
  BY DEF IInv, AuditInv, TypeOK, SessionFollowsRun, Closed
<1>3. RequestsAreEvents'
  BY DEF IInv, RequestsAreEvents
<1> QED BY <1>1, <1>2, <1>3, QuietStep

LEMMA UserSteps ==
  ASSUME IInv, NEW c \in Comparisons, Age(c) \/ BeginReview(c) \/ ReadAudit(c)
  PROVE  IInv'
<1> USE DEF Age, BeginReview, ReadAudit
<1>1. TypeOK'
  BY DEF IInv, AuditInv, TypeOK
<1>2. SessionFollowsRun' /\ UNCHANGED session
  <2>1. BeginReview(c) => \A r \in Runs : r[1] = c => run[r] = "completed"
    BY DEF ValidForReview, RunsOf, Runs
  <2> QED BY <2>1 DEF IInv, SessionFollowsRun, Closed
<1>3. RequestsAreEvents'
  BY DEF IInv, RequestsAreEvents
<1> QED BY <1>1, <1>2, <1>3, QuietStep

LEMMA DiagnosisSteps ==
  ASSUME IInv, NEW r \in Runs,
         StartDiagnosis(r) \/ FinishDiagnosis(r) \/ LoseDiagnosis(r)
  PROVE  IInv'
<1> USE DEF StartDiagnosis, FinishDiagnosis, LoseDiagnosis, Claimable
<1>0. TypeOK
  BY DEF IInv, AuditInv
<1>1. TypeOK'
  <2>1. /\ faults' \in 0..MaxFaults
        /\ UNCHANGED <<run, worker, session, answered, aged, reviewing, reviewed, exposed>>
    BY <1>0, FaultTyped DEF TypeOK
  <2>2. /\ diagnosis' \in [Runs -> {"none", "running", "finished", "interrupted"}]
        /\ requests' \in [Runs -> Nat]
    BY <1>0 DEF TypeOK
  <2> QED BY <1>0, <2>1, <2>2 DEF TypeOK
<1>2. SessionFollowsRun' /\ UNCHANGED session
  BY DEF IInv, SessionFollowsRun, Closed
<1>3. RequestsAreEvents'
  BY DEF IInv, AuditInv, TypeOK, RequestsAreEvents
<1> QED BY <1>1, <1>2, <1>3, QuietStep

\* Writes of this kind, to any number of sessions, keep the invariant.
LEMMA SessionsWritten ==
  ASSUME IInv, session' = [r \in Runs |-> session'[r]],
         \A r \in Runs : MayBecome(session[r], session'[r]),
         UNCHANGED <<run, answered, aged, exposed, diagnosis, cancelling, requests, faults>>,
         reviewing' \subseteq reviewing, reviewed' \subseteq Comparisons,
         worker' \in [Runs -> {"none", "work", "seal", "complete", "announce",
                               "fail", "sealFailed", "gone"}],
         \A r \in Runs : /\ worker[r] = "none" => worker'[r] = "none"
                         /\ worker'[r] = "complete" => worker[r] = "complete" \/ Closed(r)'
  PROVE  IInv'
<1> USE DEF IInv, AuditInv
<1>1. \A r \in Runs : session[r] \in Session /\ session[r].reserved \in Nat
  BY SessionFields DEF TypeOK
<1>2. \A r \in Runs : session'[r] \in Session /\ session'[r].reserved <= session[r].reserved
  BY <1>1 DEF MayBecome
<1>3. TypeOK'
  BY <1>2 DEF TypeOK
<1>4. Accounted' /\ ProtectedIsSealed' /\ RequestsAreEvents'
  BY DEF MayBecome, Accounted, ProtectedIsSealed, RequestsAreEvents
<1>5. SessionFollowsRun'
  BY DEF MayBecome, SessionFollowsRun, Closed, NoSession
<1>6. QuotaHeld'
  BY <1>2, <1>3, QuotaKept
<1> QED BY <1>3, <1>4, <1>5, <1>6

\* Records, sealing, retention and protection change sessions.
LEMMA SessionSteps ==
  ASSUME IInv,
         \/ \E r \in Runs : Append(r) \/ Seal(r)
         \/ Cleanup
         \/ \E c \in Comparisons : SaveReview(c)
  PROVE  IInv'
<1>0. /\ session \in [Runs -> Session]
      /\ worker \in [Runs -> {"none", "work", "seal", "complete", "announce",
                              "fail", "sealFailed", "gone"}]
      /\ reviewing \subseteq Comparisons /\ reviewed \subseteq Comparisons
      /\ \A r \in Runs : /\ session[r].payload = session[r].records
                         /\ session[r].payload <= session[r].reserved
                         /\ session[r].protected => Closed(r)
                         /\ session[r].status = "none" => worker[r] = "none"
  <2>1. TypeOK /\ Accounted /\ ProtectedIsSealed /\ SessionFollowsRun
    BY DEF IInv, AuditInv
  <2>2. \A r \in Runs : session[r].protected => Closed(r)
    BY <2>1 DEF ProtectedIsSealed, Closed
  <2>3. \A r \in Runs : session[r].status = "none" => worker[r] = "none"
    BY <2>1 DEF SessionFollowsRun
  <2> QED BY <2>1, <2>2, <2>3 DEF TypeOK, Accounted
<1>1. ASSUME NEW r \in Runs, Append(r) PROVE IInv'
  <2>1. MayBecome(session[r], Appended(session[r]))
    BY <1>0, <1>1, AppendedSession, ExperimentAssumption
       DEF Append, Writable, MayBecome, Closed, Session
  <2>2. session' = [session EXCEPT ![r] = Appended(session[r])]
    BY <1>1 DEF Append
  <2>3. \A q \in Runs : MayBecome(session[q], session'[q])
    BY <1>0, <2>1, <2>2 DEF MayBecome
  <2> QED BY <1>0, <1>1, <2>2, <2>3, SessionsWritten DEF Append
<1>2. ASSUME NEW r \in Runs, Seal(r) PROVE IInv'
  <2>1. session[r].status # "none"
    BY <1>0, <1>2 DEF Seal
  <2>2. MayBecome(session[r], Finished(session[r])) /\ Finished(session[r]).status \in {"sealed", "expired"}
    BY <1>0, <1>2, <2>1, FinishedSession DEF MayBecome
  <2>3. session' = [session EXCEPT ![r] = Finished(session[r])]
    BY <1>2 DEF Seal
  <2>4. Closed(r)' /\ \A q \in Runs : MayBecome(session[q], session'[q])
    BY <1>0, <2>2, <2>3 DEF MayBecome, Closed
  <2> QED BY <1>0, <1>2, <2>3, <2>4, SessionsWritten DEF Seal
<1>3. CASE Cleanup
  <2>1. \A r \in Runs : session[r].status # "none" => MayBecome(session[r], Emptied(session[r]))
    BY <1>0, EmptiedSession, ExperimentAssumption DEF MayBecome, Session
  <2>2. \A r \in Runs : MayBecome(session[r], session'[r])
    BY <1>0, <1>3, <2>1 DEF Cleanup, Expired, MayBecome
  <2> QED BY <1>0, <1>3, <2>2, SessionsWritten DEF Cleanup
<1>4. ASSUME NEW c \in Comparisons, SaveReview(c) PROVE IInv'
  <2>1. \A r \in RunsOf(c) : r \in Runs /\ Closed(r)
    BY <1>4 DEF SaveReview, RunsOf, Runs, SessionFollowsRun, IInv
  <2>2. \A r \in RunsOf(c) : MayBecome(session[r], [session[r] EXCEPT !.protected = TRUE])
    BY <1>0, <2>1, ProtectedSession, ExperimentAssumption DEF MayBecome, Closed, Session
  <2>3. \A r \in Runs : MayBecome(session[r], session'[r])
    BY <1>0, <1>4, <2>2 DEF SaveReview, MayBecome
  <2> QED BY <1>0, <1>4, <2>3, SessionsWritten DEF SaveReview
<1> QED BY <1>1, <1>2, <1>3, <1>4

LEMMA StepIInv == IInv /\ [Next]_vars => IInv'
<1> SUFFICES ASSUME IInv, [Next]_vars PROVE IInv'
  OBVIOUS
<1>1. CASE UNCHANGED vars
  BY <1>1 DEF vars, IInv, AuditInv, TypeOK, Accounted, QuotaHeld, Used,
             ProtectedIsSealed, SessionFollowsRun, RequestsAreEvents, Closed
<1>2. CASE Next
  <2>1. ASSUME NEW c \in Comparisons,
               CreatePair(c) \/ Age(c) \/ BeginReview(c) \/ SaveReview(c) \/ ReadAudit(c)
        PROVE  IInv'
    BY <2>1, CreateStep, UserSteps, SessionSteps
  <2>2. ASSUME NEW r \in Runs,
               \/ Claim(r) \/ ReadCancel(r) \/ CancelQueued(r) \/ WorkerStep(r) \/ Fail(r) \/ Crash(r) \/ Recover(r)
               \/ StartDiagnosis(r) \/ FinishDiagnosis(r) \/ LoseDiagnosis(r)
        PROVE  IInv'
    BY <2>2, RunSteps, DiagnosisSteps, SessionSteps DEF WorkerStep
  <2>3. CASE Cleanup
    BY <2>3, SessionSteps
  <2> QED BY <1>2, <2>1, <2>2, <2>3 DEF Next
<1> QED BY <1>1, <1>2

-----------------------------------------------------------------------------
(* Theorems *)

(***************************************************************************)
(* What a run has come to, its session, the reviews and the diagnoses fit  *)
(* together in every reachable state.                                      *)
(***************************************************************************)
THEOREM AuditInvariance == Spec => []IInv
<1> QED BY InitIInv, StepIInv, PTL DEF Spec

(***************************************************************************)
(* Counters match records, the reservations of any number of sessions stay *)
(* within the total, and a session that a review protects is closed        *)
(* (create_pair, append, finish, cleanup_expired, review).                 *)
(***************************************************************************)
THEOREM QuotaAndCountersHold == Spec => []AuditInv
<1>1. IInv => AuditInv
  BY DEF IInv
<1> QED BY <1>1, AuditInvariance, PTL

(***************************************************************************)
(* A run is explained by one model request at most, in every order of      *)
(* clicks, processes and crashes (report_diagnostics.py, _prepare).        *)
(***************************************************************************)
THEOREM OneExplanation == Spec => []ExplainedOnce
<1>1. IInv => ExplainedOnce
  BY DEF IInv, RequestsAreEvents, ExplainedOnce
<1> QED BY <1>1, AuditInvariance, PTL

\* The steps that write to sessions, and what they leave of the records.
LEMMA RecordsOfStep ==
  ASSUME IInv, [Next]_vars, NEW r \in Runs
  PROVE  /\ session[r].protected => session'[r].records >= session[r].records
         /\ session[r].status = "sealed" => session'[r].records <= session[r].records
         /\ session[r].status = "expired" => session'[r].status = "expired"
<1> DEFINE Goal == /\ session[r].protected => session'[r].records >= session[r].records
                   /\ session[r].status = "sealed" => session'[r].records <= session[r].records
                   /\ session[r].status = "expired" => session'[r].status = "expired"
<1>0. /\ session \in [Runs -> Session] /\ session[r].records \in Nat
      /\ \A q \in Runs : /\ session[q].payload = session[q].records
                         /\ session[q].payload <= session[q].reserved
                         /\ session[q].protected => Closed(q)
  <2>1. TypeOK /\ Accounted /\ ProtectedIsSealed
    BY DEF IInv, AuditInv
  <2>2. \A q \in Runs : session[q].protected => Closed(q)
    BY <2>1 DEF ProtectedIsSealed, Closed
  <2>3. session[r].records \in Nat
    BY <2>1, SessionFields DEF TypeOK
  <2> QED BY <2>1, <2>2, <2>3 DEF TypeOK, Accounted
<1>1. CASE UNCHANGED session
  BY <1>0, <1>1
<1>2. ASSUME NEW c \in Comparisons, CreatePair(c) PROVE Goal
  <2>1. r \in RunsOf(c) => session[r] = NoSession
    BY <1>2 DEF CreatePair, IInv, SessionFollowsRun
  <2> QED BY <1>0, <1>2, <2>1 DEF CreatePair, NoSession
<1>3. ASSUME NEW q \in Runs, Append(q) PROVE Goal
  <2>1. /\ session[q].status \notin {"sealed", "expired"}
        /\ Appended(session[q]).records = session[q].records + 1
    BY <1>0, <1>3, AppendedSession DEF Append, Writable
  <2> QED BY <1>0, <1>3, <2>1 DEF Append
<1>4. ASSUME NEW q \in Runs, Seal(q) PROVE Goal
  <2>1. /\ Finished(session[q]).records = session[q].records
        /\ session[q].status = "expired" => Finished(session[q]).status = "expired"
    BY <1>0, FinishedSession
  <2> QED BY <1>0, <1>4, <2>1 DEF Seal
<1>5. CASE Cleanup
  <2>1. Emptied(session[r]).status = "expired" /\ Emptied(session[r]).records = 0
    BY <1>0, EmptiedSession
  <2> QED BY <1>0, <1>5, <2>1 DEF Cleanup, Expired
<1>6. ASSUME NEW c \in Comparisons, SaveReview(c) PROVE Goal
  <2>1. /\ [session[r] EXCEPT !.protected = TRUE].records = session[r].records
        /\ [session[r] EXCEPT !.protected = TRUE].status = session[r].status
    BY <1>0, ProtectedSession
  <2> QED BY <1>0, <1>6, <2>1 DEF SaveReview
<1>7. \/ UNCHANGED session \/ Cleanup
      \/ \E c \in Comparisons : CreatePair(c) \/ SaveReview(c)
      \/ \E q \in Runs : Append(q) \/ Seal(q)
  BY DEF Next, vars, Age, BeginReview, ReadAudit, Claim, ReadCancel, CancelQueued, WorkerStep,
         AppendRefused, AnswerReady, Complete, Announce, SetFailed, Fail, Crash, Recover,
         StartDiagnosis, FinishDiagnosis, LoseDiagnosis
<1> QED BY <1>1, <1>2, <1>3, <1>4, <1>5, <1>6, <1>7

(***************************************************************************)
(* Retention never removes a record behind a saved review                  *)
(* (cleanup_expired, protect).                                             *)
(***************************************************************************)
THEOREM ReviewedRecordsStay == Spec => ReviewPinsAudit
<1>1. IInv /\ [Next]_vars =>
        [\A r \in Runs : session[r].protected => session'[r].records >= session[r].records]_vars
  BY RecordsOfStep
<1> QED BY <1>1, AuditInvariance, PTL DEF Spec, ReviewPinsAudit

(***************************************************************************)
(* A sealed session takes no more records and an expired one stays so, for *)
(* a coroutine that outlives its lease as well (append, finish).           *)
(***************************************************************************)
THEOREM SealedStaysSealed == Spec => SealedForever
<1>1. IInv /\ [Next]_vars =>
        [\A r \in Runs :
           /\ session[r].status = "sealed" => session'[r].records <= session[r].records
           /\ session[r].status = "expired" => session'[r].status = "expired"]_vars
  BY RecordsOfStep
<1> QED BY <1>1, AuditInvariance, PTL DEF Spec, SealedForever
==============================================================================
