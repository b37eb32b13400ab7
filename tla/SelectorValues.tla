---------------------------- MODULE SelectorValues ----------------------------
(***************************************************************************)
(* The values an index can have where a collection is accessed by it       *)
(* (program_graph/passes/selectors.py): a worklist over the control flow   *)
(* keeps for every name a small set of constants or nothing, and accesses  *)
(* are rewritten to the elements these constants name.                     *)
(*                                                                         *)
(* Abstraction: an expression is [kind, value, name, choices]; only the    *)
(* field of its kind means something.  A name stands for the identity of a *)
(* variable.  An access is the sequence of the expressions in it; the rest *)
(* of the path is left out.                                                *)
(***************************************************************************)
EXTENDS Integers, Sequences, FiniteSets, SequencesExt, FiniteSetsExt, TLC

CONSTANTS
    Bodies,         \* [edges, writes, weak, accesses]; an edge is <<from, to, early>>
    EntryOp,          \* the entry
    Variables,
    AnyConstant,    \* not known (None)
    MaxValues, MaxUpdates, MaxEntries

ASSUME SelectorAssumption == MaxValues \in 1..8 /\ {MaxUpdates, MaxEntries} \subseteq Nat \ {0}

VARIABLES
    code,
    before, after,  \* what is known before and behind the operations visited
    todo,
    updates,
    exceeded        \* the limit on the work was hit

selectorVars == <<code, before, after, todo, updates, exceeded>>

-------------------------------------------------------------------------------
\* One unknown alternative, or too many values, and nothing is known.
JoinOf(alternatives) ==
    IF alternatives = {} \/ AnyConstant \in alternatives \/ Cardinality(UNION alternatives) > MaxValues
    THEN AnyConstant ELSE UNION alternatives

Known(env, name) == IF name \in DOMAIN env THEN env[name] ELSE AnyConstant

RECURSIVE Evaluate(_, _)
Evaluate(e, env) ==
    CASE e.kind = "literal" -> {e.value}
      [] e.kind = "name" -> Known(env, e.name)
      [] e.kind = "choice" -> JoinOf({Evaluate(c, env) : c \in e.choices})
      [] OTHER -> AnyConstant

Entered == DOMAIN before

\* What flows into an operation from the visited ones: from before the operation
\* along an edge that leaves it early.
IncomingTo(n) ==
    LET envs == {IF e[3] THEN before[e[1]] ELSE after[e[1]] : e \in {x \in code.edges : x[2] = n /\ x[1] \in Entered}}
    IN  [name \in UNION {DOMAIN env : env \in envs} |-> JoinOf({Known(env, name) : env \in envs})]

\* What it leaves: a write that may not happen keeps the old values as well.
OutgoingOf(n, env) ==
    LET writes == code.writes[n]
        Value(name) == LET new == Evaluate(writes[name], env)
                       IN  IF n \in code.weak THEN JoinOf({Known(env, name), new}) ELSE new
    IN  [name \in DOMAIN env \union DOMAIN writes |-> IF name \in DOMAIN writes THEN Value(name) ELSE env[name]]

NamesIn(env) == Cardinality(DOMAIN env)

\* How much is stored once n is visited.
EntriesWith(n, was, is) ==
    MapThenSumSet(LAMBDA m : NamesIn(before[m]) + NamesIn(after[m]), Entered \ {n}) + NamesIn(was) + NamesIn(is)

NextOps(n) == SetToSortSeq({e[2] : e \in {x \in code.edges : x[1] = n}}, <)

-------------------------------------------------------------------------------
\* A function without accesses by index is not looked at.
SelectorInit ==
    /\ code \in Bodies
    /\ before = <<>> /\ after = <<>>
    /\ todo = IF \E n \in DOMAIN code.accesses : code.accesses[n] # <<>> THEN <<EntryOp>> ELSE <<>>
    /\ updates = 0 /\ exceeded = FALSE

Unchanged(n, was, is) == n \in Entered /\ before[n] = was /\ after[n] = is

Settle ==
    LET n == Head(todo)
    IN  /\ todo # <<>>
        /\ Unchanged(n, IncomingTo(n), OutgoingOf(n, IncomingTo(n)))
        /\ todo' = Tail(todo)
        /\ UNCHANGED <<code, before, after, updates, exceeded>>

Update ==
    LET n == Head(todo)
        was == IncomingTo(n)
        is == OutgoingOf(n, was)
        New(m) == \A i \in 2..Len(todo) : todo[i] # m
    IN  /\ todo # <<>> /\ ~Unchanged(n, was, is)
        /\ before' = (n :> was) @@ before
        /\ after' = (n :> is) @@ after
        /\ updates' = updates + 1
        /\ IF updates + 1 > MaxUpdates \/ EntriesWith(n, was, is) > MaxEntries
           THEN exceeded' = TRUE /\ todo' = <<>>
           ELSE todo' = Tail(todo) \o SelectSeq(NextOps(n), New) /\ UNCHANGED exceeded
        /\ UNCHANGED code

SelectorNext == Settle \/ Update

SelectorSpec == SelectorInit /\ [][SelectorNext]_selectorVars

SelectorDone == todo = <<>>

\* What an index of an access can be.
KeysOf(n, e) ==
    IF exceeded THEN AnyConstant ELSE Evaluate(e, IF n \in Entered THEN before[n] ELSE <<>>)

\* The elements an access is rewritten to, each a sequence of constants; when
\* there are too many every index counts as unknown.
ElementsOf(n) ==
    LET path == code.accesses[n]
        Keys(i) == LET keys == KeysOf(n, path[i]) IN IF keys \in {AnyConstant, {}} THEN {AnyConstant} ELSE keys
        all == {x \in [DOMAIN path -> UNION {Keys(i) : i \in DOMAIN path}] : \A i \in DOMAIN path : x[i] \in Keys(i)}
    IN  IF Cardinality(all) > MaxValues THEN {[i \in DOMAIN path |-> AnyConstant]} ELSE all

\* A write to one of several elements, or to one that is not known, keeps the old
\* value of each.
WeakWrite(n) == Cardinality(ElementsOf(n)) > 1 \/ \E x \in ElementsOf(n) : AnyConstant \in Range(x)

-------------------------------------------------------------------------------
(***************************************************************************)
(* Properties.                                                             *)
(***************************************************************************)
\* The stores a run of the function can have before each operation, where a
\* value that comes from elsewhere is AnyConstant.
RECURSIVE Outcomes(_, _)
Outcomes(e, store) ==
    CASE e.kind = "literal" -> {e.value}
      [] e.kind = "name" -> {store[e.name]}
      [] e.kind = "choice" -> UNION {Outcomes(c, store) : c \in e.choices}
      [] OTHER -> {AnyConstant}

Behind(n, store) ==
    LET written == DOMAIN code.writes[n]
    IN  {s \in [Variables -> UNION {Outcomes(code.writes[n][v], store) : v \in written} \union Range(store)] :
            \A v \in Variables :
                IF v \notin written THEN s[v] = store[v]
                ELSE s[v] \in Outcomes(code.writes[n][v], store) \union IF n \in code.weak THEN {store[v]} ELSE {}}

RECURSIVE Runs(_)
Runs(seen) ==
    LET more == UNION {{<<e[2], s>> : s \in IF e[3] THEN {x[2]} ELSE Behind(e[1], x[2])} :
                        <<x, e>> \in {y \in seen \X code.edges : y[2][1] = y[1][1]}}
    IN  IF more \subseteq seen THEN seen ELSE Runs(seen \union more)

AllRuns == Runs({<<EntryOp, [v \in Variables |-> AnyConstant]>>})

\* The analysis that kept its limit on work knows exactly the constants the runs
\* of the function bring to an operation, and nothing where one of them is not
\* known or there are too many.
KeysByRuns ==
    SelectorDone /\ ~exceeded /\ before # <<>> =>
        \A n \in {r[1] : r \in AllRuns} : \A v \in Variables :
            LET values == {r[2][v] : r \in {x \in AllRuns : x[1] = n}}
            IN  Known(before[n], v) = IF AnyConstant \in values \/ Cardinality(values) > MaxValues
                                      THEN AnyConstant ELSE values

\* An element is overwritten for good only when every run writes to that one.
StrongWriteIsSure ==
    SelectorDone =>
        \A r \in AllRuns : code.accesses[r[1]] # <<>> /\ ~WeakWrite(r[1]) =>
            \E x \in ElementsOf(r[1]) : \A i \in DOMAIN x : Outcomes(code.accesses[r[1]][i], r[2]) = {x[i]}
===============================================================================
