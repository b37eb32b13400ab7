---------------------------- MODULE ValueBinding ----------------------------
(***************************************************************************)
(* What a destructuring assignment, a parameter pattern or a return binds  *)
(* (services/value_binding): an expression becomes a value with the        *)
(* members syntax shows (syntax_analysis/javascript_bindings.py), and a    *)
(* pattern is projected onto it, every name with the variables it is made  *)
(* from.  Whatever could not be resolved leaves a diagnostic.              *)
(*                                                                         *)
(* Expressions: path, literal, undefined, object and array (with members   *)
(* that are written, computed or spread), call, operation and function.    *)
(* A path is a sequence of a variable and selectors; the selectors are     *)
(* Place(i) and Field(k).  Diagnostics are one flag, doubts; origins go with    *)
(* the variables and are left out; the order of members is any fixed one.  *)
(***************************************************************************)
EXTENDS Integers, Sequences, FiniteSets, SequencesExt, TLC

CONSTANTS
    Bindings,           \* [mode, values, pattern]: mode assign, single, multiple or unknown
    BoundVariables,     \* the variables the expressions read
    SomeKeys,           \* the keys their values may have
    MaxPatternDepth, MaxProjections

VARIABLES binding, resolution

bindingVars == <<binding, resolution>>

Place(i) == <<"at", i>>
Field(k) == <<"key", k>>
UnknownSelector == <<"any">>         \* a selector that is not known

NoMembers == <<>>
Opaque(variables, uncertain) ==
    [kind |-> "opaque", variables |-> variables, members |-> NoMembers, uncertain |-> uncertain, unplaced |-> FALSE]
FixedValue == [Opaque({}, FALSE) EXCEPT !.kind = "literal"]
MissingValue == [Opaque({}, FALSE) EXCEPT !.kind = "missing"]
InMembers(members) == UNION {members[k].variables : k \in DOMAIN members}

-------------------------------------------------------------------------------
(***************************************************************************)
(* javascript_value: members in the order they are written.                *)
(***************************************************************************)
\* A spread, or a key that is not known, may have written any member before it.
Blurred(so) == [k \in DOMAIN so.members |-> Opaque(so.extras \union InMembers(so.members), TRUE)]

\* A member whose place is not known leaves the layout uncertain.
WithBlurred(so) == [so EXCEPT !.members = Blurred(so)]
AddUnknown(so, variables) == WithBlurred([so EXCEPT !.extras = @ \union variables, !.uncertain = TRUE])

RECURSIVE ValueOf(_)
AddMember(so, m) ==
    IF m.how = "written" THEN [so EXCEPT !.members = (m.key :> ValueOf(m.value)) @@ @]
    ELSE AddUnknown(so, ValueOf(m.value).variables)

LaidOut(kind, so, variables) ==
    IF kind = "array" /\ so.uncertain THEN [Opaque(variables, TRUE) EXCEPT !.unplaced = TRUE]
    ELSE [Opaque(variables, so.uncertain) EXCEPT !.kind = kind, !.members = so.members]

Layout(kind, so) == LaidOut(kind, so, so.extras \union InMembers(so.members))

\* A call's result is made from its arguments and receiver, if at all.
Combined(kind, parts) ==
    Opaque(UNION {p.variables : p \in parts}, kind = "call" \/ \E p \in parts : p.uncertain)

ValueOf(e) ==
    CASE e.kind = "path" -> Opaque({e.path}, FALSE)
      [] e.kind = "literal" -> FixedValue
      [] e.kind = "undefined" -> MissingValue
      [] e.kind = "function" -> Opaque({}, TRUE)
      [] e.kind \in {"object", "array"} ->
            Layout(e.kind, FoldLeft(AddMember, [members |-> NoMembers, extras |-> {}, uncertain |-> FALSE], e.members))
      [] e.kind \in {"call", "operation"} -> Combined(e.kind, {ValueOf(e.parts[i]) : i \in DOMAIN e.parts})

\* javascript_pattern: an item of an array has its place, the rest of an object none.
SelectorOf(p, i) ==
    CASE p.kind = "array" -> Place(i - 1)
      [] p.kind = "object" /\ p.items[i].pattern.kind = "rest" -> UnknownSelector
      [] OTHER -> p.items[i].key

Placed(p) == [i \in DOMAIN p.items |-> [selector |-> SelectorOf(p, i), pattern |-> p.items[i].pattern]]
MembersOf(p) == SelectSeq(Placed(p), LAMBDA m : m.pattern.kind # "hole")

-------------------------------------------------------------------------------
(***************************************************************************)
(* StructuredBindingResolver.resolve.  out: the projections so far.        *)
(***************************************************************************)
Doubted(out, when) == [out EXCEPT !.doubts = @ \/ when]
Lost(out) == [out EXCEPT !.lost = TRUE]
Structured(value) == value.kind \in {"object", "array"}
OverBudget(out, depth) == depth > MaxPatternDepth \/ Len(out.found) >= MaxProjections

\* emit: a name, and what is known of its members; no name stores nothing.
RECURSIVE Emit(_, _, _, _)
Emit(out, name, value, depth) ==
    LET projection == [output |-> name, inputs |-> value.variables, sure |-> ~value.uncertain]
        seen == [Doubted(out, value.unplaced \/ (value.uncertain /\ Structured(value))) EXCEPT !.found = Append(@, projection)]
    IN  IF name = <<>> THEN out
        ELSE IF OverBudget(out, depth) THEN Lost(out)
        ELSE FoldLeft(LAMBDA o, k : Emit(o, Append(name, k), value.members[k], depth + 1), seen,
                      SetToSeq(DOMAIN value.members))

\* A default takes the place of a value that is missing, and may of one not known.
Defaulted(value, fallback) ==
    CASE value.kind = "missing" -> fallback
      [] value.kind = "opaque" -> Opaque(value.variables \union fallback.variables, TRUE)
      [] OTHER -> value

\* The members behind a place, or not yet taken.
RestOf(value, m, taken) ==
    LET remaining == {k \in DOMAIN value.members \ taken :
                    m.selector # UnknownSelector /\ k[1] = "at" => k[2] >= m.selector[2]}
        shift(k) == IF m.selector # UnknownSelector /\ k[1] = "at" THEN Place(k[2] - m.selector[2]) ELSE k
        members == [s \in {shift(k) : k \in remaining} |-> value.members[CHOOSE k \in remaining : shift(k) = s]]
    IN  [Opaque(InMembers(members), FALSE) EXCEPT !.kind = value.kind, !.members = members]

MemberAt(value, selector) ==
    CASE Structured(value) /\ selector \in DOMAIN value.members -> value.members[selector]
      [] Structured(value) /\ value.uncertain -> Opaque(value.variables, TRUE)
      [] value.kind = "opaque" -> Opaque({Append(v, selector) : v \in value.variables}, TRUE)
      [] OTHER -> MissingValue

RECURSIVE Project(_, _, _, _)
\* One member of a pattern; so: the projections, what was taken, and whether a
\* selector was not known.
ProjectMember(so, m, value, depth) ==
    CASE m.pattern.kind = "rest" /\ Structured(value) /\ ~so.dynamic /\ ~value.uncertain ->
            [so EXCEPT !.out = Project(@, m.pattern, RestOf(value, m, so.taken), depth + 1)]
      [] m.pattern.kind = "rest" ->
            [so EXCEPT !.out = Project(Doubted(@, TRUE), m.pattern, Opaque(value.variables, TRUE), depth + 1)]
      [] m.selector = UnknownSelector -> [so EXCEPT !.out = Lost(@), !.dynamic = TRUE]
      [] OTHER ->
            [so EXCEPT !.taken = @ \union {m.selector},
                       !.out = Project(@, m.pattern, MemberAt(value, m.selector), depth + 1)]

ProjectMembers(out, pattern, value, depth) ==
    LET start == [out |-> Doubted(out, value.uncertain /\ Structured(value)), taken |-> {}, dynamic |-> FALSE]
    IN  FoldLeft(LAMBDA so, m : ProjectMember(so, m, value, depth), start, MembersOf(pattern)).out

Project(out, pattern, value, depth) ==
    LET seen == Doubted(out, value.unplaced)
    IN  CASE OverBudget(out, depth) -> Lost(out)
          [] pattern.kind = "name" -> Emit(seen, pattern.name, value, depth)
          [] pattern.kind = "unknown" -> Lost(seen)
          [] pattern.kind = "rest" -> Project(seen, pattern.inner, value, depth + 1)
          [] pattern.kind = "default" ->
                Project(Doubted(seen, value.kind = "opaque"), pattern.inner,
                        Defaulted(value, ValueOf(pattern.fallback)), depth + 1)
          [] pattern.kind \in {"object", "array"} -> ProjectMembers(seen, pattern, value, depth)

NothingYet == [found |-> <<>>, doubts |-> FALSE, lost |-> FALSE]
Refused == Lost(NothingYet)
ResolvePattern(pattern, value) == Project(NothingYet, pattern, value, 0)

-------------------------------------------------------------------------------
(***************************************************************************)
(* resolve_return: a sequence that is unpacked must have as many members   *)
(* as there are receivers, at every level.                                 *)
(***************************************************************************)
RECURSIVE Fits(_, _)
Fits(pattern, value) ==
    LET members == MembersOf(pattern)
        rest == \E i \in DOMAIN members : members[i].pattern.kind = "rest"
        selectors == {members[i].selector : i \in DOMAIN members}
    IN  pattern.kind = "array" /\ value.kind = "array" /\ ~value.uncertain =>
            /\ ~rest => selectors = DOMAIN value.members
            /\ rest => Cardinality(DOMAIN value.members) >= Len(members) - 1
            /\ \A i \in DOMAIN members :
                 members[i].pattern.kind # "rest" /\ members[i].selector \in DOMAIN value.members
                 => Fits(members[i].pattern, value.members[members[i].selector])

Components(parts) ==
    [Opaque({}, FALSE) EXCEPT !.kind = "array", !.members = [k \in {Place(i - 1) : i \in DOMAIN parts} |-> parts[k[2] + 1]]]

ResolveReturn(b, value) ==
    IF \/ b.mode = "unknown" \/ b.values = <<>>
       \/ b.mode = "single" /\ Len(b.values) # 1
       \/ b.mode = "multiple" /\ b.pattern.kind # "array"
       \/ ~Fits(b.pattern, value)
    THEN Refused ELSE ResolvePattern(b.pattern, value)

BindingInit == binding \in Bindings /\ resolution = NoMembers

ResolveBinding ==
    /\ resolution = NoMembers
    /\ \E parts \in {[i \in DOMAIN binding.values |-> ValueOf(binding.values[i])]} :
          resolution' = IF binding.mode = "assign" THEN ResolvePattern(binding.pattern, parts[1])
                        ELSE ResolveReturn(binding, IF binding.mode = "multiple" THEN Components(parts)
                                                    ELSE IF parts = <<>> THEN MissingValue ELSE parts[1])
    /\ UNCHANGED binding

BindingNext == ResolveBinding
BindingSpec == BindingInit /\ [][BindingNext]_bindingVars

-------------------------------------------------------------------------------
(***************************************************************************)
(* What a run of the program binds.  A value at run time is undefined, an  *)
(* atom with the variables it was made from, or a record of values.        *)
(***************************************************************************)
Undefined == [is |-> "undefined", from |-> {}, fields |-> NoMembers]
Made(from) == [is |-> "atom", from |-> from, fields |-> NoMembers]
Compound(is, fields) == [is |-> is, from |-> {}, fields |-> fields]

RECURSIVE MadeFrom(_)
MadeFrom(v) == v.from \union UNION {MadeFrom(v.fields[k]) : k \in DOMAIN v.fields}

\* What a variable may hold.
ShapesOf(v) ==
    {Undefined, Made({<<v>>})}
    \union {Compound("object", [k \in ks |-> Made({<<v, k>>})]) : ks \in SUBSET {Field(k) : k \in SomeKeys}}
    \union {Compound("array", [k \in {Place(i) : i \in 0..n - 1} |-> Made({<<v, k>>})]) : n \in 1..2}
RunStores == {s \in [BoundVariables -> UNION {ShapesOf(v) : v \in BoundVariables}] :
              \A v \in BoundVariables : s[v] \in ShapesOf(v)}

FieldOfValue(v, k) == IF k \in DOMAIN v.fields THEN v.fields[k] ELSE Undefined
ValueAt(store, path) == FoldLeft(FieldOfValue, store[Head(path)], Tail(path))

Each(S, T, Op(_, _)) == {Op(a, b) : a \in S, b \in T}

\* The values an expression may have: a key that is computed is any key.
RECURSIVE ResultsOf(_, _)
AppendAll(array, more) ==
    LET n == Cardinality(DOMAIN array)
    IN  array @@ [k \in {Place(n + i) : i \in 0..Cardinality(DOMAIN more) - 1} |-> more[Place(k[2] - n)]]

Extended(is, fields, m, v) ==
    CASE is = "array" /\ m.how = "spread" -> IF v.is = "array" THEN {AppendAll(fields, v.fields)} ELSE {}
      [] is = "array" -> {(m.key :> v) @@ fields}
      [] m.how = "written" -> {(m.key :> v) @@ fields}
      [] m.how = "computed" -> {(Field(k) :> v) @@ fields : k \in SomeKeys}
      [] m.how = "spread" -> {v.fields @@ fields}

\* A call need not use what it is given.
MadeOf(kind, values) == {MadeFrom(v) : v \in values} \union (IF kind = "call" THEN {{}} ELSE {})

ResultsOf(store, e) ==
    CASE e.kind = "path" -> {ValueAt(store, e.path)}
      [] e.kind \in {"literal", "function"} -> {Made({})}
      [] e.kind = "undefined" -> {Undefined}
      [] e.kind \in {"call", "operation"} ->
            {Made(from) : from \in FoldLeft(LAMBDA S, p : Each(S, MadeOf(e.kind, ResultsOf(store, p)), \union), {{}}, e.parts)}
      [] OTHER ->
            {Compound(e.kind, f) :
                f \in FoldLeft(LAMBDA S, m : UNION {Extended(e.kind, f, m, v) : f \in S, v \in ResultsOf(store, m.value)},
                               {NoMembers}, e.members)}

\* What a pattern binds: sets of pairs, none when it throws.
RECURSIVE Binds(_, _, _, _)
Shifted(v, n) ==
    Compound("array", [k \in {Place(i) : i \in 0..Cardinality(DOMAIN v.fields) - n - 1} |-> v.fields[Place(k[2] + n)]])
OtherThan(v, ks) == Compound("object", [k \in DOMAIN v.fields \ ks |-> v.fields[k]])

KeysTaken(p, n, used) == UNION {IF p.items[i].key = UnknownSelector THEN used ELSE {p.items[i].key} : i \in 1..n}

MatchItems(store, p, v, exact, used) ==
    FoldLeft(LAMBDA S, i :
                LET q == p.items[i].pattern
                    part == CASE q.kind = "rest" /\ p.kind = "array" -> Shifted(v, i - 1)
                              [] q.kind = "rest" -> OtherThan(v, KeysTaken(p, i - 1, used))
                              [] p.kind = "array" -> FieldOfValue(v, Place(i - 1))
                              [] p.items[i].key = UnknownSelector -> FieldOfValue(v, CHOOSE k \in used : TRUE)
                              [] OTHER -> FieldOfValue(v, p.items[i].key)
                IN  IF q.kind = "hole" THEN S ELSE Each(S, Binds(store, q, part, exact /\ q.kind # "rest"), \union),
             {{}}, [i \in DOMAIN p.items |-> i])

Countable(p, v) ==
    LET n == Len(p.items)
    IN  IF n > 0 /\ p.items[n].pattern.kind = "rest" THEN Cardinality(DOMAIN v.fields) >= n - 1
        ELSE Cardinality(DOMAIN v.fields) = n

Binds(store, p, v, exact) ==
    CASE p.kind = "name" -> {{<<p.name, v>>}}
      [] p.kind = "unknown" -> {{}}
      [] p.kind = "rest" -> Binds(store, p.inner, v, exact)
      [] p.kind = "default" ->
            UNION {Binds(store, p.inner, w, exact) : w \in IF v.is = "undefined" THEN ResultsOf(store, p.fallback) ELSE {v}}
      [] p.kind = "object" ->
            IF v.is = "undefined" THEN {}
            ELSE UNION {MatchItems(store, p, v, exact, {Field(k)}) : k \in SomeKeys}
      [] p.kind = "array" ->
            IF v.is # "array" \/ (exact /\ ~Countable(p, v)) THEN {} ELSE MatchItems(store, p, v, exact, {})

RunTime(store, b) ==
    IF b.mode = "multiple"
    THEN {Compound("array", [k \in {Place(i - 1) : i \in DOMAIN b.values} |-> f[k[2] + 1]]) :
             f \in {g \in [DOMAIN b.values -> UNION {ResultsOf(store, b.values[i]) : i \in DOMAIN b.values}] :
                       \A i \in DOMAIN b.values : g[i] \in ResultsOf(store, b.values[i])}}
    ELSE ResultsOf(store, b.values[1])

\* The bindings of the runs that start with these values of the variables.
BoundIn(s, b) == UNION {Binds(s, b.pattern, v, b.mode # "assign") : v \in RunTime(s, b)}

\* The atoms under a name, each with its place and what it was made from.
RECURSIVE LeavesAt(_, _)
LeavesAt(path, v) ==
    (IF v.is = "atom" THEN {<<path, v.from>>} ELSE {})
    \union UNION {LeavesAt(Append(path, k), v.fields[k]) : k \in DOMAIN v.fields}
LeavesOf(bound) == UNION {LeavesAt(b[1], b[2]) : b \in bound}

Projections == {resolution.found[i] : i \in DOMAIN resolution.found}

\* Nothing is taken apart twice.
FlatIn(p) == p.kind \in {"name", "hole"} \/ (p.kind \in {"default", "rest"} /\ p.inner.kind = "name")
Flat(p) == FlatIn(p) \/ (p.kind \in {"object"} /\ \A i \in DOMAIN p.items : FlatIn(p.items[i].pattern))

\* A binding without a diagnostic tells of every name all the variables some run
\* makes it from (value_binding/resolver.py: an empty input is a fixed value); when
\* no value is taken apart twice, a diagnostic that only says that something is
\* possible does not cost an input (javascript_bindings.py: may inputs are kept).
BoundByInputs ==
    resolution # NoMembers /\ ~resolution.lost /\ (resolution.doubts => Flat(binding.pattern)) =>
        \A s \in RunStores : \A bound \in BoundIn(s, binding) : \A leaf \in LeavesOf(bound) : \A p \in leaf[2] :
            \E x \in Projections : IsPrefix(x.output, leaf[1]) /\ \E i \in x.inputs : IsPrefix(i, p)

\* An aggregate is called certain although one of its members may be a call's result.
HasParts(x) == \E y \in Projections : IsStrictPrefix(x.output, y.output)

\* An input that is called certain is one: every run in which the variable has a
\* value makes the name from it (javascript_bindings.py: a spread may overwrite what
\* was known); and a return is unpacked only if a run can do it
\* (value_binding/returns.py).
SureInputsAreReal ==
    resolution # NoMembers =>
        /\ binding.mode # "assign" /\ binding.pattern.kind = "array" /\ Projections # {} => \E s \in RunStores : BoundIn(s, binding) # {}
        /\ \A x \in Projections : x.sure /\ ~HasParts(x) =>
            \A i \in x.inputs, s \in RunStores : MadeFrom(ValueAt(s, i)) # {} =>
                \A bound \in BoundIn(s, binding) : \E leaf \in LeavesOf(bound) :
                    IsPrefix(x.output, leaf[1]) /\ \E p \in leaf[2] : IsPrefix(i, p)
===============================================================================
