----------------------------- MODULE TypeHierarchy -----------------------------
(***************************************************************************)
(* Which declaration a member of a type is (semantic_index/hierarchy.py):  *)
(* the linear order of the classes of Python, the nearest embedded type of *)
(* Go, the paths to base subobjects of C++, and what is left of the        *)
(* ancestors elsewhere.  An answer that is not certain is no answer.       *)
(*                                                                         *)
(* A hierarchy T is [lang, bases, kind, virtual, unknown]: bases gives the *)
(* sequence of the bases of a type, virtual the pairs inherited virtually, *)
(* unknown the types with a base that was not found, kind "class" or       *)
(* "interface".  The limits on depth and on paths are not reached here.    *)
(***************************************************************************)
EXTENDS Integers, Sequences, FiniteSets, SequencesExt

CONSTANT NoOrder      \* there is no order (None)

Types(T) == DOMAIN T.bases

\* A type and all types its bases lead to, in the order of a search by breadth.
RECURSIVE Breadth(_, _, _)
Breadth(T, pending, seen) ==
    IF pending = <<>> THEN seen
    ELSE IF Contains(seen, Head(pending)) THEN Breadth(T, Tail(pending), seen)
    ELSE Breadth(T, Tail(pending) \o T.bases[Head(pending)], Append(seen, Head(pending)))

AncestorsOf(T, c) == Breadth(T, <<c>>, <<>>)

-------------------------------------------------------------------------------
\* The merge of C3: the first head that is in the tail of no sequence goes next.
RECURSIVE MergeOrders(_, _)
MergeOrders(sequences, result) ==
    LET rest == SelectSeq(sequences, LAMBDA s : s # <<>>)
        Free(i) == \A j \in DOMAIN rest : ~Contains(Tail(rest[j]), Head(rest[i]))
        i == SelectInSeq([k \in DOMAIN rest |-> Free(k)], LAMBDA free : free)
        Without(s, h) == IF Head(s) = h THEN Tail(s) ELSE s
    IN  IF rest = <<>> THEN result
        ELSE IF i = 0 THEN NoOrder
        ELSE MergeOrders([k \in DOMAIN rest |-> Without(rest[k], Head(rest[i]))], Append(result, Head(rest[i])))

\* A cycle or an unknown base leaves a type without an order, and with it every
\* type below.
RECURSIVE Linear(_, _, _)
Linear(T, c, visiting) ==
    LET orders == [i \in DOMAIN T.bases[c] |-> Linear(T, T.bases[c][i], Append(visiting, c))]
    IN  IF Contains(visiting, c) THEN NoOrder
        ELSE IF c \in T.unknown \/ NoOrder \in Range(orders) THEN NoOrder
        ELSE MergeOrders(Append(orders, T.bases[c]), <<c>>)

OrderOf(T, c) == IF T.lang = "python" THEN Linear(T, c, <<>>) ELSE AncestorsOf(T, c)
WithOrders(T) == T @@ [order |-> [c \in Types(T) |-> OrderOf(T, c)]]

-------------------------------------------------------------------------------
\* The types at the smallest depth of embedding that declare the member; a type
\* embedded twice there counts twice.
RECURSIVE Shallowest(_, _, _, _)
Shallowest(T, level, seen, declaring) ==
    LET hits == SelectSeq(level, LAMBDA c : c \in declaring)
        below == FlattenSeq([i \in DOMAIN level |->
                     SelectSeq(T.bases[level[i]], LAMBDA b : T.kind[b] # "interface" /\ b \notin seen \union Range(level))])
    IN  IF hits # <<>> \/ below = <<>> THEN hits
        ELSE Shallowest(T, below, seen \union Range(level), declaring)

\* The base subobjects that hold the declaration met first on each path: a virtual
\* base is one whatever leads to it, any other is one for every path.
RECURSIVE Subobjects(_, _, _, _, _)
Subobjects(T, c, path, visiting, declaring) ==
    LET Into(i) == LET b == T.bases[c][i]
                   IN  Subobjects(T, b, IF <<c, b>> \in T.virtual THEN <<b>> ELSE path \o <<i, b>>,
                                  visiting \union {c}, declaring)
    IN  IF c \in visiting THEN {NoOrder}
        ELSE IF c \in declaring THEN {<<c, path>>}
        ELSE IF c \in T.unknown THEN {NoOrder}
        ELSE UNION {Into(i) : i \in DOMAIN T.bases[c]}

\* The nearest declarations: none of them is an ancestor of another one.
Nearest(T, candidates) ==
    SelectSeq(candidates, LAMBDA c : ~\E d \in Range(candidates) \ {c} : Contains(AncestorsOf(T, d), c))

FirstAmong(order, declaring) ==
    LET hits == SelectSeq(order, LAMBDA d : d \in declaring) IN IF hits = <<>> THEN <<>> ELSE <<Head(hits)>>

OwnersByObjects(objects) ==
    IF NoOrder \in objects THEN <<>>
    ELSE LET in == SetToSeq(objects) IN [i \in DOMAIN in |-> in[i][1]]

\* Classes before interfaces, where the language tells them apart.
ClassesFirst(T, above) ==
    LET classes == SelectSeq(above, LAMBDA d : T.kind[d] # "interface")
    IN  IF T.lang = "java" /\ classes # <<>> THEN classes ELSE above

\* The owners of the member; it is resolved when there is exactly one.
MemberOwners(T, c, declaring) ==
    CASE c \in declaring -> <<c>>
      [] c \notin declaring /\ c \in T.unknown -> <<>>
      [] OTHER ->
         CASE T.lang = "python" -> IF T.order[c] = NoOrder THEN <<>> ELSE FirstAmong(T.order[c], declaring)
           [] T.lang = "go" -> Shallowest(T, <<c>>, {}, declaring)
           [] T.lang = "cpp" -> OwnersByObjects(Subobjects(T, c, <<>>, {}, declaring))
           [] OTHER -> Nearest(T, ClassesFirst(T, SelectSeq(Tail(AncestorsOf(T, c)), LAMBDA d : d \in declaring)))
===============================================================================
