-------------------------- MODULE OperationLowering --------------------------
(***************************************************************************)
(* What the language frontends write down of one operation of a function   *)
(* (program_graph/frontends): the names it defines and uses, and which     *)
(* name flows into which, as far as its syntax tells; and, for a return,   *)
(* what the receiver of the call gets.  The value flow inside a node       *)
(* (passes/value_flow.py) is read from that.                               *)
(*                                                                         *)
(* An operation binds targets to values (patterns and expressions of       *)
(* ValueBinding): declarators, an assignment, a compound assignment, a     *)
(* walrus.  A parallel assignment has an array on both sides.  Locations,  *)
(* call identities, transfer kinds and reference sources are left out, and *)
(* so are dynamic subscripts.                                              *)
(***************************************************************************)
EXTENDS ValueBinding

CONSTANT Operations     \* [lang, how, binds, returned]

VARIABLES operation, lowered

operationVars == <<operation, lowered>>

None(e) == e.kind = "none"              \* a declaration without a value
Blank == <<>>                           \* the name _ of Go stores nothing

-------------------------------------------------------------------------------
(***************************************************************************)
(* What the syntax mentions.                                               *)
(***************************************************************************)
\* The values read by an expression: the name of what is called is not one.
RECURSIVE Identifiers(_)
Identifiers(e) ==
    CASE e.kind = "path" -> {e.path}
      [] e.kind \in {"object", "array"} -> UNION {Identifiers(e.members[i].value) : i \in DOMAIN e.members}
      [] e.kind \in {"call", "operation"} -> UNION {Identifiers(e.parts[i]) : i \in DOMAIN e.parts}
      [] OTHER -> {}

\* The names in a target, with what its defaults read.
RECURSIVE TargetNames(_)
TargetNames(p) ==
    CASE p.kind = "name" -> {p.name} \ {Blank}
      [] p.kind = "rest" -> TargetNames(p.inner)
      [] p.kind = "default" -> TargetNames(p.inner) \union Identifiers(p.fallback)
      [] p.kind \in {"object", "array"} -> UNION {TargetNames(p.items[i].pattern) : i \in DOMAIN p.items}
      [] OTHER -> {}

RECURSIVE HasCall(_)
HasCall(e) ==
    \/ e.kind = "call"
    \/ \E i \in DOMAIN e.parts : HasCall(e.parts[i])
    \/ \E i \in DOMAIN e.members : HasCall(e.members[i].value)

Bind(target, value, compound) == [target |-> target, value |-> value, compound |-> compound]
AllOf(binds, Part(_)) == UNION {Part(binds[i]) : i \in DOMAIN binds}

\* Definitions and uses of an assignment anywhere in the operation.
Mentioned(binds) ==
    [definitions |-> AllOf(binds, LAMBDA b : TargetNames(b.target)),
     uses |-> AllOf(binds, LAMBDA b : Identifiers(b.value) \union (IF b.compound THEN TargetNames(b.target) ELSE {})),
     doubts |-> FALSE, lost |-> FALSE]
AssignmentData(op) == Mentioned(op.binds)

\* A walrus has its name in another field, where only the transfers look.
PythonAssignmentData(op) ==
    IF op.how = "walrus"
    THEN [Mentioned(<<>>) EXCEPT !.uses = AllOf(op.binds, LAMBDA b : Identifiers(b.value) \union TargetNames(b.target))]
    ELSE AssignmentData(op)

\* Go, C and Rust declarations mention the same; Java's names are no uses of it.
DeclarationData(op) == Mentioned(op.binds)
JavaDeclarationData(op) ==
    [DeclarationData(op) EXCEPT !.uses = @ \ AllOf(op.binds, LAMBDA b : TargetNames(b.target))]

\* The projections of ValueBinding, in JavaScript of every declarator.
Projected(bind) == ResolvePattern(bind.target, IF None(bind.value) THEN MissingValue ELSE ValueOf(bind.value))
FoundIn(r) == {r.found[i] : i \in DOMAIN r.found}
DataOf(rs) ==
    [definitions |-> UNION {{x.output : x \in FoundIn(r)} : r \in rs},
     uses |-> UNION {UNION {x.inputs : x \in FoundIn(r)} : r \in rs},
     doubts |-> \E r \in rs : r.doubts, lost |-> \E r \in rs : r.lost]
JavaScriptDeclarationData(op) == DataOf({Projected(op.binds[i]) : i \in DOMAIN op.binds})
JavaScriptAssignmentData(op) ==
    IF \E i \in DOMAIN op.binds : op.binds[i].compound THEN AssignmentData(op)
    ELSE DataOf({Projected(op.binds[i]) : i \in DOMAIN op.binds})

-------------------------------------------------------------------------------
(***************************************************************************)
(* What flows into what.                                                   *)
(***************************************************************************)
Transfer(to, from, sure) == [to |-> to, from |-> from, sure |-> sure, observed |-> TRUE]

AllToAll(targets, inputs, sure) == {Transfer(to, inputs, sure) : to \in IF inputs = {} THEN {} ELSE targets}

\* Every name of the target gets all that is read, for sure when it is alone and
\* no call is between.
BindingTransfers(bind) ==
    AllToAll(TargetNames(bind.target), Identifiers(bind.value) \union (IF bind.compound THEN TargetNames(bind.target) ELSE {}),
             ~HasCall(bind.value) /\ Cardinality(TargetNames(bind.target)) <= 1)

\* Sequences of one length are bound item by item.
SequenceItems(x) == IF x.kind = "array" THEN Len(IF "items" \in DOMAIN x THEN x.items ELSE x.members) ELSE 1
PairedBindings(bind) ==
    IF bind.target.kind = "array" /\ bind.value.kind = "array" /\ SequenceItems(bind.target) = SequenceItems(bind.value)
    THEN {Bind(bind.target.items[i].pattern, bind.value.members[i].value, bind.compound) : i \in DOMAIN bind.target.items}
    ELSE {bind}

\* The specification of a Go variable binds each of its names to all of the value
\* when there are more names than values.
GoDeclarationBindings(bind) ==
    IF bind.target.kind = "array" /\ SequenceItems(bind.target) # SequenceItems(bind.value)
    THEN {Bind(bind.target.items[i].pattern, bind.value, FALSE) : i \in DOMAIN bind.target.items}
    ELSE PairedBindings(bind)

\* C and C++ know no parallel assignment.
CDeclarationBindings(bind) == {bind}

OperationBindings(op, bind) ==
    CASE None(bind.value) -> {}
      [] op.lang = "go" /\ op.how = "declare" -> GoDeclarationBindings(bind)
      [] op.lang = "c" -> CDeclarationBindings(bind)
      [] OTHER -> PairedBindings(bind)

\* A fixed value leaves a transfer without inputs, so that nothing else flows there.
JavaScriptTransfers(bind) ==
    IF bind.compound THEN BindingTransfers(bind)
    ELSE {Transfer(x.output, x.inputs, ~HasCall(bind.value) /\ x.sure) : x \in FoundIn(Projected(bind))}

\* Java: declarators and assignments are read separately, with the same meaning.
JavaLocalTransfers(bind) == BindingTransfers(bind)
JavaAssignmentTransfers(bind) == BindingTransfers(bind)

\* _receiver_pattern: a rest that is not the last item is not understood.
RECURSIVE ReceiverPattern(_)
Unread(p) == [p EXCEPT !.kind = "unknown"]
ReceiverPattern(p) ==
    CASE p.kind = "array" ->
            IF \E i \in 1..Len(p.items) - 1 : p.items[i].pattern.kind = "rest" THEN Unread(p)
            ELSE [p EXCEPT !.items = [i \in DOMAIN p.items |-> [p.items[i] EXCEPT !.pattern = ReceiverPattern(@)]]]
      [] p.kind = "rest" -> [p EXCEPT !.inner = ReceiverPattern(@)]
      [] p.kind = "name" -> p
      [] OTHER -> Unread(p)

\* A sequence that has a name is taken apart by positions; two sequences of one
\* length are paired when every item binds one name.
TakenApart(bind) == bind.target.kind = "array" /\ bind.value.kind = "path"
Unpacked(bind) == ResolvePattern(ReceiverPattern(bind.target), ValueOf(bind.value))
SingleNames(p) == \A i \in DOMAIN p.items : Cardinality(TargetNames(p.items[i].pattern)) = 1
PairedSequenceTransfers(bind) ==
    IF TakenApart(bind) THEN {Transfer(x.output, x.inputs, x.sure) : x \in FoundIn(Unpacked(bind))}
    ELSE IF bind.target.kind = "array" /\ bind.value.kind = "array"
            /\ SequenceItems(bind.target) = SequenceItems(bind.value) /\ SingleNames(bind.target)
    THEN {Transfer(to, Identifiers(b.value), ~HasCall(b.value)) :
             <<to, b>> \in {<<CHOOSE n \in TargetNames(b.target) : TRUE, b>> : b \in PairedBindings(bind)}}
    ELSE {}

PythonTransfers(bind) ==
    IF TargetNames(bind.target) = {} \/ None(bind.value) THEN {}
    ELSE IF PairedSequenceTransfers(bind) # {} THEN PairedSequenceTransfers(bind)
    ELSE AllToAll(TargetNames(bind.target), Identifiers(bind.value) \union (IF bind.compound THEN TargetNames(bind.target) ELSE {}),
                  (bind.compound \/ ~HasCall(bind.value)) /\ Cardinality(TargetNames(bind.target)) <= 1)

TransfersOf(op, bind) ==
    CASE None(bind.value) -> {}
      [] op.lang = "js" -> JavaScriptTransfers(bind)
      [] op.lang = "python" -> PythonTransfers(bind)
      [] op.lang = "java" -> IF op.how = "declare" THEN JavaLocalTransfers(bind) ELSE JavaAssignmentTransfers(bind)
      [] OTHER -> UNION {BindingTransfers(b) : b \in OperationBindings(op, bind)}

\* Without any of these, all that is used flows into all that is defined.
Inferred(data, calls) ==
    {[t EXCEPT !.observed = FALSE] :
        t \in AllToAll(data.definitions, data.uses, ~calls /\ Cardinality(data.definitions) <= 1)}
ValueTransfers(data, precise, calls) == IF precise # {} THEN precise ELSE Inferred(data, calls)

\* _leaf: what a transfer names is defined and used too.
Leaf(data, transfers) ==
    [definitions |-> data.definitions \union {t.to : t \in transfers},
     uses |-> data.uses \union UNION {t.from : t \in transfers},
     transfers |-> transfers, doubts |-> data.doubts, lost |-> data.lost]

DataBy(op) ==
    CASE op.lang = "js" -> IF op.how = "declare" THEN JavaScriptDeclarationData(op) ELSE JavaScriptAssignmentData(op)
      [] op.lang = "java" /\ op.how = "declare" -> JavaDeclarationData(op)
      [] op.lang = "python" -> PythonAssignmentData(op)
      [] OTHER -> IF op.how = "declare" THEN DeclarationData(op) ELSE AssignmentData(op)

UnpackingLimits(op) ==
    {Unpacked(op.binds[i]) : i \in {i \in DOMAIN op.binds : op.lang = "python" /\ TakenApart(op.binds[i])}}
Limited(data, rs) == [data EXCEPT !.doubts = @ \/ \E r \in rs : r.doubts, !.lost = @ \/ \E r \in rs : r.lost]

LoweredFrom(op, data) ==
    Leaf(data, ValueTransfers(data, AllOf(op.binds, LAMBDA b : TransfersOf(op, b)),
                              \E i \in DOMAIN op.binds : HasCall(op.binds[i].value)))

-------------------------------------------------------------------------------
(***************************************************************************)
(* A return and the target of the call that gets it.                       *)
(***************************************************************************)
\* Python returns one value, whose members are known unless one is spread.
RECURSIVE PythonReturnValue(_)
PythonReturnValue(e) ==
    CASE e.kind = "array" ->
            IF \E i \in DOMAIN e.members : e.members[i].how = "spread" THEN [Opaque(Identifiers(e), TRUE) EXCEPT !.unplaced = TRUE]
            ELSE [Opaque(Identifiers(e), FALSE) EXCEPT !.kind = "array",
                    !.members = [k \in {Place(i - 1) : i \in DOMAIN e.members} |-> PythonReturnValue(e.members[k[2] + 1].value)]]
      [] e.kind = "literal" -> FixedValue
      [] OTHER -> Opaque(Identifiers(e), FALSE)

PythonReturned(op) ==
    IF Len(op.returned) # 1 THEN Refused
    ELSE ResolveReturn([mode |-> "single", values |-> op.returned, pattern |-> ReceiverPattern(op.binds[1].target)],
                       PythonReturnValue(op.returned[1]))

\* Go returns its values one by one, and the receiver has a place for each.
GoMode(op) == IF Len(op.returned) > 1 THEN "multiple" ELSE IF op.returned # <<>> THEN "single" ELSE "unknown"
GoReceiver(p) == IF p.kind = "array" /\ Len(p.items) = 1 THEN p.items[1].pattern ELSE p
GoParts(es) == [i \in DOMAIN es |-> Opaque(Identifiers(es[i]), FALSE)]
GoValueOf(mode, parts) ==
    IF mode = "multiple" THEN Components(parts) ELSE IF parts = <<>> THEN MissingValue ELSE parts[1]
GoReturned(op) ==
    ResolveReturn([mode |-> GoMode(op), values |-> op.returned, pattern |-> GoReceiver(op.binds[1].target)],
                  GoValueOf(GoMode(op), GoParts(op.returned)))

Received(r) ==
    Leaf(DataOf({r}), {Transfer(x.output, x.inputs, x.sure) : x \in FoundIn(r)})

-------------------------------------------------------------------------------
Lower(op) ==
    CASE op.how = "return" -> Received(IF op.lang = "go" THEN GoReturned(op) ELSE PythonReturned(op))
      [] OTHER -> LoweredFrom(op, Limited(DataBy(op), UnpackingLimits(op)))

OperationInit == operation \in Operations /\ lowered = NoMembers

LowerOperation ==
    /\ lowered = NoMembers
    /\ lowered' = Lower(operation)
    /\ UNCHANGED operation

OperationNext == LowerOperation
OperationSpec == OperationInit /\ [][OperationNext]_operationVars

\* ValueFlowPass: where a value that is read goes inside the node.
FallbackTransfers(node, v) == IF node.definitions = {} \/ node.transfers # {} THEN {v} ELSE node.definitions
FlowsInto(node, v) ==
    LET fitting == {t \in node.transfers : v \in t.from}
    IN  IF fitting # {} THEN {t.to : t \in fitting} ELSE FallbackTransfers(node, v)

-------------------------------------------------------------------------------
(***************************************************************************)
(* What a run of the operation makes.                                      *)
(***************************************************************************)
\* A call may also return a sequence, as long as its receiver.
ManyOf(e, p) ==
    IF e.kind = "call" /\ p.kind = "array"
    THEN {Compound("array", [k \in {Place(i - 1) : i \in DOMAIN p.items} |-> Made(from)]) : from \in {{}} \union {Identifiers(e)}}
    ELSE {}

\* A compound assignment reads its target too.
Evaluated(op, s, b) ==
    IF b.compound THEN {Made(MadeFrom(v) \union {b.target.name}) : v \in ResultsOf(s, b.value)}
    ELSE ResultsOf(s, b.value) \union (IF op.lang = "js" THEN {} ELSE ManyOf(b.value, b.target))

Named(bound) == {b \in bound : b[1] # Blank}
BoundBy(op, s, b) ==
    IF None(b.value) THEN {{}} ELSE UNION {Binds(s, b.target, v, op.lang # "js") : v \in Evaluated(op, s, b)}
BoundByAll(op, s) == FoldLeft(LAMBDA S, b : Each(S, BoundBy(op, s, b), \union), {{}}, op.binds)

\* The receiver of what is returned: the names of the callee are those of the store,
\* and several values come as a sequence. Go has as many receivers as values.
BoundByReturn(op, s) ==
    IF op.returned = <<>> THEN {}
    ELSE BoundIn(s, [mode |-> IF op.lang = "go" /\ op.binds[1].target.kind = "array" THEN "multiple" ELSE "single", values |-> op.returned,
                     pattern |-> op.binds[1].target])

BoundDuring(op, s) == {Named(bound) : bound \in IF op.how = "return" THEN BoundByReturn(op, s) ELSE BoundByAll(op, s)}

-------------------------------------------------------------------------------
(***************************************************************************)
(* Properties.                                                             *)
(***************************************************************************)
\* A limitation that only says that something is possible costs no name.
Complete(op) ==
    /\ ~lowered.lost
    /\ lowered.doubts => \/ op.lang = "python" /\ op.how = "assign"
                         \/ \A i \in DOMAIN op.binds : Flat(op.binds[i].target)

\* Whatever a run stores under a name at an operation, the node of the operation
\* defines that name, and every variable the value was made from is read there and
\* flows into it: in every language, through parallel assignments, sequences that
\* are taken apart, declarations and what a call returned (frontends/treesitter.py:
\* what cannot be paired is connected conservatively).
AssignedValuesFlow ==
    lowered # NoMembers /\ Complete(operation) =>
        \A s \in RunStores : \A bound \in BoundDuring(operation, s) : \A leaf \in LeavesOf(bound) :
            /\ \E d \in lowered.definitions : IsPrefix(d, leaf[1])
            /\ \A p \in leaf[2] : \E v \in lowered.uses :
                  IsPrefix(v, p) /\ \E d \in FlowsInto(lowered, v) : IsPrefix(d, leaf[1])

\* A call behind a compound assignment of Python is called certain all the same.
CertainCall(t) ==
    operation.lang = "python" /\ \E i \in DOMAIN operation.binds :
        operation.binds[i].compound /\ HasCall(operation.binds[i].value)

\* A transfer that is observed and called certain is one: every run in which the
\* variable has a value stores something made from it.
SureTransfersAreReal ==
    lowered # NoMembers =>
        \A t \in lowered.transfers : \A i \in t.from : \A s \in RunStores :
            /\ t.sure /\ t.observed /\ ~CertainCall(t) /\ i[1] \in BoundVariables /\ MadeFrom(ValueAt(s, i)) # {}
            /\ ~\E other \in lowered.transfers : IsStrictPrefix(t.to, other.to)
            => \A bound \in BoundDuring(operation, s) : \E leaf \in LeavesOf(bound) :
                  IsPrefix(t.to, leaf[1]) /\ \E p \in leaf[2] : IsPrefix(i, p)
===============================================================================
