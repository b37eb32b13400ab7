--------------------------- MODULE SourceCollection ---------------------------
(***************************************************************************)
(* What one pass over the syntax tree of a file writes down for the        *)
(* dependency graph (dependency_analyzer/phases/collection.py, context.py, *)
(* handlers): the definitions, the references with the function and the    *)
(* class they stand in, and the types of variables.  The scopes are a      *)
(* stack of their own, kept in step with the stack of the nodes.           *)
(*                                                                         *)
(* A node is [at, is, name, names, of, type, value, bases, implements,     *)
(* virtual, result, opaque, bound, fails, body]: at is its place, of its   *)
(* owner, receiver or qualifier, opaque says that it has no body, bound    *)
(* that it is the value of a declarator, fails when its handler raises.    *)
(* A type is <<>>, <<T>> or <<T, "*">>; a value is [is, of, name].         *)
(* Imports are inputs of SymbolIndex; names too short to mean anything     *)
(* are left out.                                                           *)
(***************************************************************************)
EXTENDS Naturals, FiniteSets, SequencesExt, TLC

CONSTANT Sources        \* [lang, root]

VARIABLES syntax,       \* the source that is read
          agenda,       \* the nodes to visit and the scopes to leave, the next one first
          context       \* what is known of the file so far

collectionVars == <<syntax, agenda, context>>

Module == <<"file">>

Frame(fqn, kind, name, owner) == [fqn |-> fqn, kind |-> kind, name |-> name, owner |-> owner]

FileContext(lang) ==
    [lang |-> lang, frames |-> <<Frame(Module, "module", "file", "")>>, defs |-> <<>>, order |-> <<>>,
     refs |-> <<>>, types |-> <<>>, pending |-> "", diagnostics |-> {}, skip |-> FALSE]

SkipChildren(c) == [c EXCEPT !.skip = TRUE]

-------------------------------------------------------------------------------
(***************************************************************************)
(* Scopes.                                                                 *)
(***************************************************************************)
Top(c) == Last(c.frames)
ClassLikeFrame(f) == f.kind \in {"class", "impl"}
CallableFrame(f) == f.kind \in {"function", "method"}

PushFrame(c, frame) == [c EXCEPT !.frames = Append(@, frame)]
PopFrame(c) == IF Len(c.frames) > 1 THEN [c EXCEPT !.frames = Front(@)] ELSE c
PopFrames(c, count) == FoldLeft(LAMBDA d, i : PopFrame(d), c, [i \in 1..count |-> i])

InnermostFrames(c, Test(_)) == SelectSeq(c.frames, Test)
EnclosingClass(c) ==
    LET classes == InnermostFrames(c, ClassLikeFrame) IN IF classes = <<>> THEN <<>> ELSE Last(classes).fqn
EnclosingClassName(c) ==
    LET classes == InnermostFrames(c, ClassLikeFrame) IN IF classes = <<>> THEN "" ELSE Last(classes).name
InCallable(c) == InnermostFrames(c, CallableFrame) # <<>>
EnclosingCallable(c) == IF InCallable(c) THEN Last(InnermostFrames(c, CallableFrame)).fqn ELSE Top(c).fqn

\* The name of a type without what is wrapped around it; what a call returns is found
\* out when all files are known.
CallType(value) == <<"call", value.of, value.name>>
Norm(type) == IF type = <<>> \/ type[1] = "call" THEN type ELSE <<type[1]>>

BindFrameVar(c, fqn, name, type) ==
    IF name = "" \/ type = <<>> THEN c ELSE [c EXCEPT !.types = (<<fqn, name>> :> Norm(type)) @@ @]
SetVarType(c, name, type) ==
    BindFrameVar(c, IF InCallable(c) THEN Last(InnermostFrames(c, CallableFrame)).fqn ELSE Module, name, type)

-------------------------------------------------------------------------------
(***************************************************************************)
(* Definitions and references.                                             *)
(***************************************************************************)
Def(kind, name) ==
    [kind |-> kind, name |-> name, parent |-> <<>>, owner |-> "", bases |-> <<>>, implements |-> <<>>,
     type |-> <<>>, declared |-> <<>>, result |-> <<>>, declaration |-> FALSE, virtual |-> <<>>]

FqnOf(c, d) == Append(IF d.parent = <<>> THEN Top(c).fqn ELSE d.parent, d.name)
JoinedNames(a, b) == a \o SelectSeq(b, LAMBDA x : x \notin Range(a))
Filled(old, new) == IF old = <<>> THEN new ELSE old

\* A later occurrence adds what the first one did not know; a body takes the place of
\* a declaration.
MergeOccurrence(old, new) ==
    [old EXCEPT !.bases = JoinedNames(@, new.bases),
                !.implements = JoinedNames(@, new.implements),
                !.type = Filled(@, new.type),
                !.declared = IF new.kind = "field" THEN Filled(@, new.type) ELSE @,
                !.result = Filled(@, Norm(new.result)),
                !.declaration = @ /\ new.declaration,
                !.at = IF old.declaration /\ ~new.declaration THEN new.at ELSE @]
NewDefinition(d) ==
    [d EXCEPT !.type = Norm(d.type), !.result = Norm(d.result), !.declared = IF d.kind = "field" THEN d.type ELSE <<>>]

AddDefAs(c, fqn, d) ==
    IF fqn \in DOMAIN c.defs THEN [c EXCEPT !.defs[fqn] = MergeOccurrence(@, d)]
    ELSE [c EXCEPT !.defs = (fqn :> NewDefinition(d)) @@ @, !.order = Append(@, fqn)]
AddDef(c, n, d) == IF d.name = "" THEN c ELSE AddDefAs(c, FqnOf(c, d), ("at" :> n.at) @@ d)

AddRef(c, n, kind, of, name) ==
    IF name = "" THEN c
    ELSE [c EXCEPT !.refs = Append(@, [at |-> n.at, kind |-> kind, of |-> of, name |-> name,
                                       from |-> EnclosingCallable(c), class |-> EnclosingClass(c)])]

\* A definition that is a scope.
Opened(c, n, d, kind, owner) ==
    IF d.name = "" THEN c
    ELSE PushFrame(AddDef(c, n, d), Frame(FqnOf(c, d), kind, d.name, owner))

\* A method knows its object by the name of the class it stands in.
BoundTo(c, names, class) ==
    IF class = "" THEN c
    ELSE FoldLeft(LAMBDA d, name : BindFrameVar(d, Top(d).fqn, name, <<class>>), c, names)

\* One after the other for every name a node declares.
ForEachName(c, n, Declare(_, _)) ==
    FoldLeft(LAMBDA d, i : Declare(d, i), c, [i \in DOMAIN n.names |-> i])

-------------------------------------------------------------------------------
(***************************************************************************)
(* Python.                                                                 *)
(***************************************************************************)
PythonInferType(value) == IF value.is = "call" THEN CallType(value) ELSE <<>>

PythonClass(c, n) == Opened(c, n, [Def("class", n.name) EXCEPT !.bases = n.bases], "class", "")

\* A function directly in a class is a method; n.of is its first parameter.
PythonFunction(c, n) ==
    LET inClass == Top(c).kind = "class"
        kind == IF inClass THEN "method" ELSE "function"
        opened == Opened(c, n, [Def(kind, n.name) EXCEPT !.result = n.result], kind, IF inClass THEN Top(c).name ELSE "")
    IN  IF inClass /\ n.of \in {"self", "cls"} THEN BoundTo(opened, <<n.of>>, Top(c).name) ELSE opened

PythonParam(c, n) == SetVarType(c, n.name, n.type)

PythonAssignment(c, n) ==
    LET type == Filled(PythonInferType(n.value), n.type)
    IN  CASE n.of \in {"self", "cls"} ->
               IF EnclosingClass(c) = <<>> THEN c
               ELSE AddDef(c, n, [Def("field", n.name) EXCEPT !.type = type, !.parent = EnclosingClass(c)])
          [] n.of # "" -> c
          [] Top(c).kind = "module" -> AddDef(c, n, [Def("constant", n.name) EXCEPT !.type = type])
          [] Top(c).kind = "class" -> AddDef(c, n, [Def("field", n.name) EXCEPT !.type = type])
          [] OTHER -> SetVarType(c, n.name, type)

PythonCall(c, n) == AddRef(c, n, "call", n.of, n.name)

PythonNode(c, n) ==
    CASE n.is = "class" -> PythonClass(c, n)
      [] n.is = "function" -> PythonFunction(c, n)
      [] n.is = "param" -> PythonParam(c, n)
      [] n.is = "variable" -> PythonAssignment(c, n)
      [] n.is = "call" -> PythonCall(c, n)
      [] OTHER -> c

-------------------------------------------------------------------------------
(***************************************************************************)
(* Java.                                                                   *)
(***************************************************************************)
JavaInferType(value) ==
    CASE value.is = "new" -> <<value.name>>
      [] value.is = "call" -> CallType(value)
      [] OTHER -> <<>>

JavaKind(is) == IF is \in {"interface", "enum"} THEN is ELSE "class"
JavaClass(c, n) ==
    Opened(c, n, [Def(JavaKind(n.is), n.name) EXCEPT !.bases = n.bases, !.implements = n.implements], "class", "")

JavaField(c, n) ==
    LET Declare(d, i) == IF Top(c).kind = "class"
                         THEN AddDef(d, n, [Def("field", n.names[i]) EXCEPT !.type = n.type])
                         ELSE SetVarType(d, n.names[i], n.type)
    IN  ForEachName(c, n, Declare)

JavaEnumConstant(c, n) == AddDef(c, n, Def("constant", n.name))

JavaMethod(c, n) ==
    BoundTo(Opened(c, n, [Def(n.is, n.name) EXCEPT !.result = n.result], "method", EnclosingClassName(c)),
            <<"this">>, EnclosingClassName(c))

JavaInitializer(c, n) == AddRef(c, n, "call", "", n.name)

\* A lambda is a function without a name of its own.
JavaLambda(c, n) == PushFrame(c, Frame(Top(c).fqn, "function", "", ""))

JavaLocalVar(c, n) ==
    LET Declare(d, i) == SetVarType(d, n.names[i], IF n.type \in {<<>>, <<"var">>} THEN JavaInferType(n.value) ELSE n.type)
    IN  ForEachName(c, n, Declare)

JavaParam(c, n) == SetVarType(c, n.name, n.type)
JavaCall(c, n) == AddRef(c, n, "call", n.of, n.name)
JavaNew(c, n) == AddRef(c, n, "new", n.of, n.name)

JavaNode(c, n) ==
    CASE n.is \in {"class", "interface", "enum", "record"} -> JavaClass(c, n)
      [] n.is = "field" -> JavaField(c, n)
      [] n.is = "enumerator" -> JavaEnumConstant(c, n)
      [] n.is \in {"method", "constructor"} -> JavaMethod(c, n)
      [] n.is = "initializer" -> JavaInitializer(c, n)
      [] n.is = "lambda" -> JavaLambda(c, n)
      [] n.is = "variable" -> JavaLocalVar(c, n)
      [] n.is = "param" -> JavaParam(c, n)
      [] n.is = "call" -> JavaCall(c, n)
      [] n.is = "new" -> JavaNew(c, n)
      [] OTHER -> c

-------------------------------------------------------------------------------
(***************************************************************************)
(* JavaScript and TypeScript.                                              *)
(***************************************************************************)
JsInferType(value) ==
    CASE value.is = "new" -> <<value.name>>
      [] value.is = "call" -> CallType(value)
      [] OTHER -> <<>>

\* A class expression takes the name of its declarator, which the node carries then.
JsClass(c, n) ==
    Opened(c, n, [Def("class", n.name) EXCEPT !.bases = n.bases, !.implements = n.implements], "class", "")
JsInterface(c, n) == Opened(c, n, [Def("interface", n.name) EXCEPT !.bases = n.bases], "class", "")
JsTypeAlias(c, n) == SkipChildren(AddDef(c, n, Def("type", n.name)))
JsEnum(c, n) == IF n.name = "" THEN SkipChildren(c) ELSE Opened(c, n, Def("enum", n.name), "class", "")

JsMethod(c, n) ==
    LET kind == IF n.name = "constructor" THEN "constructor" ELSE "method"
    IN  IF n.name = "" THEN c
        ELSE BoundTo(Opened(c, n, [Def(kind, n.name) EXCEPT !.result = n.result], "method", EnclosingClassName(c)),
                     <<"this">>, EnclosingClassName(c))

JsField(c, n) ==
    IF Top(c).kind # "class" THEN c
    ELSE AddDef(c, n, [Def("field", n.name) EXCEPT !.type = Filled(n.type, JsInferType(n.value))])

JsFunction(c, n) == Opened(c, n, [Def("function", n.name) EXCEPT !.result = n.result], "function", "")

\* The function a variable stands for was defined with the variable; any other one
\* without a name is known by its place.
JsAnonFunction(c, n) ==
    IF n.bound THEN PushFrame(c, Frame(Top(c).fqn, "function", "", ""))
    ELSE Opened(c, n, [Def("function", IF n.name = "" THEN n.at ELSE n.name) EXCEPT !.result = n.result], "function", "")

JsParam(c, n) == SetVarType(c, n.name, n.type)

JsDeclarator(c, n) ==
    LET type == Filled(n.type, JsInferType(n.value))
        kind == IF Top(c).kind = "class" THEN "method" ELSE "function"
    IN  CASE n.value.is = "function" -> Opened(c, n, [Def(kind, n.name) EXCEPT !.result = n.result], kind, "")
          [] n.value.is = "require" -> SkipChildren(c)
          [] InCallable(c) -> SetVarType(c, n.name, type)
          [] Top(c).kind = "class" -> AddDef(c, n, [Def("field", n.name) EXCEPT !.type = type])
          [] OTHER -> AddDef(c, n, [Def("constant", n.name) EXCEPT !.type = type])

JsCall(c, n) == AddRef(c, n, "call", n.of, n.name)
JsNew(c, n) == AddRef(c, n, "new", n.of, n.name)

JsNode(c, n) ==
    CASE n.is = "class" -> JsClass(c, n)
      [] n.is = "interface" -> JsInterface(c, n)
      [] n.is = "alias" -> JsTypeAlias(c, n)
      [] n.is = "enum" -> JsEnum(c, n)
      [] n.is = "method" -> JsMethod(c, n)
      [] n.is = "field" -> JsField(c, n)
      [] n.is = "function" -> JsFunction(c, n)
      [] n.is = "lambda" -> JsAnonFunction(c, n)
      [] n.is = "param" -> JsParam(c, n)
      [] n.is = "variable" -> JsDeclarator(c, n)
      [] n.is = "call" -> JsCall(c, n)
      [] n.is = "new" -> JsNew(c, n)
      [] OTHER -> c

-------------------------------------------------------------------------------
(***************************************************************************)
(* Go.                                                                     *)
(***************************************************************************)
GoInferType(value) ==
    CASE value.is = "new" -> <<value.name>>
      [] value.is = "call" -> CallType(value)
      [] OTHER -> <<>>

\* Any other type is an alias, its underlying type its base.
GoTypeSpec(c, n) ==
    IF n.is = "alias" THEN SkipChildren(AddDef(c, n, [Def("type", n.name) EXCEPT !.bases = Norm(n.type)]))
    ELSE Opened(c, n, Def(n.is, n.name), "class", "")

\* A field without a name is embedded: its type is a base.
GoField(c, n) ==
    LET Declare(d, i) == AddDef(d, n, [Def("field", n.names[i]) EXCEPT !.type = n.type])
    IN  CASE Top(c).kind # "class" -> c
          [] n.names = <<>> -> SkipChildren([c EXCEPT !.defs[Top(c).fqn].bases = JoinedNames(@, Norm(n.type))])
          [] OTHER -> SkipChildren(ForEachName(c, n, Declare))

GoMethodElem(c, n) == SkipChildren(AddDef(c, n, [Def("method", n.name) EXCEPT !.declaration = TRUE]))

\* A method is put under the type of its receiver, wherever that is defined.
GoMethod(c, n) ==
    LET type == Norm(n.type)
        parent == IF type = <<>> THEN Module ELSE Append(Module, type[1])
        owner == IF type = <<>> THEN "" ELSE type[1]
    IN  BoundTo(Opened(c, n, [Def("method", n.name) EXCEPT !.owner = owner, !.parent = parent, !.result = n.result], "method", owner),
                IF n.of = "" THEN <<>> ELSE <<n.of>>, owner)

GoFunction(c, n) == Opened(c, n, [Def("function", n.name) EXCEPT !.result = n.result], "function", "")
GoFuncLiteral(c, n) == Opened(c, n, Def("function", n.at), "function", "")

GoVarSpec(c, n) ==
    LET type == IF n.type # <<>> THEN n.type ELSE IF n.values = <<>> THEN <<>> ELSE GoInferType(n.values[1])
        Declare(d, i) == IF InCallable(c) THEN SetVarType(d, n.names[i], type)
                         ELSE AddDef(d, n, [Def(n.is, n.names[i]) EXCEPT !.type = type])
    IN  ForEachName(c, n, Declare)

\* Names and values by position; with fewer values the first stands for all others.
GoValueAt(values, i) == IF i \in DOMAIN values THEN values[i] ELSE values[1]
GoShortVar(c, n) ==
    LET Declare(d, i) == SetVarType(d, n.names[i], GoInferType(GoValueAt(n.values, i)))
    IN  ForEachName(c, n, Declare)

GoParam(c, n) ==
    LET Declare(d, i) == SetVarType(d, n.names[i], n.type) IN ForEachName(c, n, Declare)

GoCall(c, n) == AddRef(c, n, "call", n.of, n.name)
GoComposite(c, n) == AddRef(c, n, "new", n.of, n.name)

GoNode(c, n) ==
    CASE n.is \in {"struct", "interface", "alias"} -> GoTypeSpec(c, n)
      [] n.is = "field" -> GoField(c, n)
      [] n.is = "prototype" -> GoMethodElem(c, n)
      [] n.is = "method" -> GoMethod(c, n)
      [] n.is = "function" -> GoFunction(c, n)
      [] n.is = "lambda" -> GoFuncLiteral(c, n)
      [] n.is \in {"variable", "constant"} -> GoVarSpec(c, n)
      [] n.is = "short" -> GoShortVar(c, n)
      [] n.is = "param" -> GoParam(c, n)
      [] n.is = "call" -> GoCall(c, n)
      [] n.is = "new" -> GoComposite(c, n)
      [] OTHER -> c

-------------------------------------------------------------------------------
(***************************************************************************)
(* C and C++.                                                              *)
(***************************************************************************)
CMacro(c, n) == SkipChildren(AddDef(c, n, Def(n.is, n.name)))

\* The name a typedef gives is kept for the record inside it, or it is an alias.
CTypedef(c, n) ==
    IF n.body # <<>> THEN [c EXCEPT !.pending = n.name]
    ELSE SkipChildren(AddDef(c, n, [Def("type", n.name) EXCEPT !.bases = Norm(n.type)]))

CRecordBody(c, n, alias) ==
    LET name == IF n.name = "" THEN alias ELSE n.name
        d == [Def(n.is, name) EXCEPT !.bases = n.bases]
        made == [AddDef(c, n, d) EXCEPT !.defs[FqnOf(c, d)].virtual = @ \o n.virtual]
        named == IF alias \in {"", name} THEN made ELSE AddDef(made, n, [Def("type", alias) EXCEPT !.bases = <<name>>])
    IN  IF name = "" THEN c ELSE PushFrame(named, Frame(FqnOf(c, d), "class", name, ""))
CRecord(c, n) ==
    IF n.opaque THEN SkipChildren(AddRef([c EXCEPT !.pending = ""], n, "typeref", "", n.name))
    ELSE CRecordBody([c EXCEPT !.pending = ""], n, c.pending)

CEnumerator(c, n) == SkipChildren(AddDef(c, n, Def("constant", n.name)))

\* A member; a function is declared here and defined elsewhere.
CField(c, n) ==
    LET Declare(d, i) == AddDef(d, n, [Def("field", n.names[i]) EXCEPT !.type = n.type])
    IN  CASE Top(c).kind # "class" \/ n.names = <<>> -> c
          [] OTHER -> SkipChildren(ForEachName(c, n, Declare))
CMemberDeclaration(c, n) ==
    IF Top(c).kind # "class" THEN c
    ELSE SkipChildren(AddDef(c, n, [Def("method", n.name) EXCEPT !.declaration = TRUE, !.owner = n.of, !.type = n.result]))

\* A declaration that is none of a function; what has no type of its own takes that of
\* its value.
CInferType(value) ==
    CASE value.is = "new" -> <<value.name>>
      [] value.is = "call" -> CallType(value)
      [] OTHER -> <<>>
CVariable(c, n) ==
    LET scope == Top(c).kind
        Known(d, i) == CASE scope = "class" -> AddDef(d, n, [Def("field", n.names[i]) EXCEPT !.type = n.type])
                         [] scope \in {"function", "method"} -> SetVarType(d, n.names[i], Filled(n.type, CInferType(n.value)))
                         [] OTHER -> AddDef(d, n, [Def("variable", n.names[i]) EXCEPT !.type = n.type])
        Declare(d, i) == IF scope \in {"function", "method"} /\ n.type # <<>>
                         THEN AddRef(Known(d, i), n, "typeref", "", n.type[1]) ELSE Known(d, i)
    IN  ForEachName(c, n, Declare)
CPrototype(c, n) ==
    IF Top(c).kind = "class"
    THEN AddDef(c, n, [Def("method", n.name) EXCEPT !.declaration = TRUE, !.owner = n.of, !.result = n.result])
    ELSE AddDef(c, n, [Def("function", n.name) EXCEPT !.declaration = TRUE, !.owner = n.of, !.result = n.result,
                                                      !.parent = IF n.of = "" THEN <<>> ELSE Append(Module, n.of)])

\* A function defined outside its class is put under the class, wherever that is.
CFunction(c, n) ==
    LET inClass == Top(c).kind = "class"
        kind == IF inClass \/ n.of # "" THEN "method" ELSE "function"
        parent == IF inClass \/ n.of = "" THEN <<>> ELSE Append(Module, n.of)
        class == IF inClass THEN Top(c).name ELSE n.of
    IN  BoundTo(Opened(c, n, [Def(kind, n.name) EXCEPT !.owner = n.of, !.parent = parent, !.result = n.result], kind, class),
                <<"this">>, class)

CParam(c, n) == SkipChildren(SetVarType(c, n.name, n.type))
CCall(c, n) == AddRef(c, n, "call", n.of, n.name)

CppNamespace(c, n) == Opened(c, n, Def("namespace", IF n.name = "" THEN "anonymous" ELSE n.name), "namespace", "")
CppNew(c, n) == AddRef(c, n, "new", n.of, n.name)

CNode(c, n) ==
    CASE n.is = "macro" -> CMacro(c, n)
      [] n.is = "typedef" -> CTypedef(c, n)
      [] n.is \in {"struct", "union", "enum", "class"} -> CRecord(c, n)
      [] n.is = "enumerator" -> CEnumerator(c, n)
      [] n.is = "field" -> CField(c, n)
      [] n.is = "member" -> CMemberDeclaration(c, n)
      [] n.is = "variable" -> CVariable(c, n)
      [] n.is = "prototype" -> CPrototype(c, n)
      [] n.is = "function" -> CFunction(c, n)
      [] n.is = "param" -> CParam(c, n)
      [] n.is = "call" -> CCall(c, n)
      [] c.lang = "cpp" /\ n.is = "namespace" -> CppNamespace(c, n)
      [] c.lang = "cpp" /\ n.is = "new" -> CppNew(c, n)
      [] OTHER -> c

-------------------------------------------------------------------------------
(***************************************************************************)
(* Rust.                                                                   *)
(***************************************************************************)
Constructors == {"new", "default", "from", "with_capacity", "build"}
RustInferType(value) ==
    CASE value.is = "new" -> <<value.name>>
      [] value.is = "call" /\ value.of # "" /\ value.name \in Constructors -> <<value.of>>
      [] value.is = "call" -> CallType(value)
      [] OTHER -> <<>>

\* A module in a file of its own is an import.
RustMod(c, n) == IF n.opaque THEN SkipChildren(c) ELSE Opened(c, n, Def("namespace", n.name), "namespace", "")

RustRecord(c, n) == Opened(c, n, [Def(n.is, n.name) EXCEPT !.bases = IF n.is = "trait" THEN n.bases ELSE <<>>], "class", "")
RustTypeAlias(c, n) == SkipChildren(AddDef(c, n, [Def("type", n.name) EXCEPT !.bases = Norm(n.type)]))

\* The methods of an impl block are put under its type, wherever that is; n.of is the trait.
RustImpl(c, n) ==
    LET fqn == Append(Module, n.name)
        opened == BoundTo(PushFrame(c, Frame(fqn, "impl", n.name, n.name)), <<"self", "Self">>, n.name)
    IN  IF n.name = "" THEN c
        ELSE IF n.of = "" THEN opened
        ELSE [opened EXCEPT !.refs = Append(@, [at |-> n.at, kind |-> "implements", of |-> "", name |-> n.of,
                                                from |-> fqn, class |-> fqn])]

\* The owner is that of the scope around, that of a method for a function inside it too.
RustFunction(c, n) ==
    LET owner == IF Top(c).owner # "" THEN Top(c).owner ELSE IF Top(c).kind = "class" THEN Top(c).name ELSE ""
        kind == IF ClassLikeFrame(Top(c)) THEN "method" ELSE "function"
        d == [Def(kind, n.name) EXCEPT !.owner = owner, !.declaration = n.is = "prototype", !.result = n.result]
    IN  BoundTo(Opened(c, n, d, kind, owner), <<"self", "Self">>, owner)

RustField(c, n) ==
    IF Top(c).kind # "class" THEN c
    ELSE SkipChildren(AddDef(c, n, [Def("field", n.name) EXCEPT !.type = n.type]))
RustVariant(c, n) == SkipChildren(AddDef(c, n, Def("constant", n.name)))
RustConst(c, n) ==
    IF InCallable(c) THEN SetVarType(c, n.name, n.type)
    ELSE AddDef(c, n, [Def("constant", n.name) EXCEPT !.type = n.type])
RustLet(c, n) == SetVarType(c, n.name, Filled(n.type, RustInferType(n.value)))
RustParam(c, n) == SetVarType(c, n.name, n.type)
RustCall(c, n) == AddRef(c, n, "call", n.of, n.name)
RustMacro(c, n) == AddRef(c, n, "call", "", n.name)
RustStructExpr(c, n) == AddRef(c, n, "new", n.of, n.name)

RustNode(c, n) ==
    CASE n.is = "namespace" -> RustMod(c, n)
      [] n.is \in {"struct", "enum", "union", "trait"} -> RustRecord(c, n)
      [] n.is = "alias" -> RustTypeAlias(c, n)
      [] n.is = "impl" -> RustImpl(c, n)
      [] n.is \in {"function", "prototype"} -> RustFunction(c, n)
      [] n.is = "field" -> RustField(c, n)
      [] n.is = "enumerator" -> RustVariant(c, n)
      [] n.is = "constant" -> RustConst(c, n)
      [] n.is = "variable" -> RustLet(c, n)
      [] n.is = "param" -> RustParam(c, n)
      [] n.is = "call" -> RustCall(c, n)
      [] n.is = "macro" -> RustMacro(c, n)
      [] n.is = "new" -> RustStructExpr(c, n)
      [] OTHER -> c

-------------------------------------------------------------------------------
(***************************************************************************)
(* The walk.                                                               *)
(***************************************************************************)
NodeHandler(c, n) ==
    CASE c.lang = "python" -> PythonNode(c, n)
      [] c.lang = "java" -> JavaNode(c, n)
      [] c.lang = "javascript" -> JsNode(c, n)
      [] c.lang = "go" -> GoNode(c, n)
      [] c.lang \in {"c", "cpp"} -> CNode(c, n)
      [] c.lang = "rust" -> RustNode(c, n)

\* A handler that raises has done all, or nothing, of its work; what it would have
\* said of the children is lost, and there is a diagnostic.
AfterHandler(c, n) ==
    CASE n.fails = "no" -> NodeHandler(c, n)
      [] n.fails = "early" -> [c EXCEPT !.diagnostics = @ \union {n.at}]
      [] n.fails = "late" -> [NodeHandler(c, n) EXCEPT !.diagnostics = @ \union {n.at}, !.skip = FALSE]

VisitingNode(n) == [node |-> n, exit |-> FALSE]
LeavingScope(n) == [node |-> n, exit |-> TRUE]

CollectionInit ==
    /\ syntax \in Sources
    /\ agenda = <<VisitingNode(syntax.root)>>
    /\ context = FileContext(syntax.lang)

LeaveScope ==
    /\ agenda # <<>> /\ Head(agenda).exit
    /\ context' = PopFrame(context)
    /\ agenda' = Tail(agenda)
    /\ UNCHANGED syntax

\* The scopes a node opened are left after its children, or at once.
PassBy(after, pushed, n) ==
    /\ after.skip
    /\ context' = [PopFrames(after, pushed) EXCEPT !.skip = FALSE]
    /\ agenda' = Tail(agenda)
EnterBody(after, pushed, n) ==
    /\ ~after.skip
    /\ context' = after
    /\ agenda' = [i \in DOMAIN n.body |-> VisitingNode(n.body[i])] \o [i \in 1..pushed |-> LeavingScope(n)] \o Tail(agenda)

VisitNode ==
    /\ agenda # <<>> /\ ~Head(agenda).exit
    /\ \E n \in {Head(agenda).node} : \E after \in {AfterHandler(context, n)} :
           \/ PassBy(after, Len(after.frames) - Len(context.frames), n)
           \/ EnterBody(after, Len(after.frames) - Len(context.frames), n)
    /\ UNCHANGED syntax

CollectionNext == VisitNode \/ LeaveScope

Collected == syntax # <<>> /\ agenda = <<>>

-------------------------------------------------------------------------------
(***************************************************************************)
(* What the text says, read from the nesting of the nodes alone.  A place  *)
(* is where a node stands: the name of what is around it, the innermost    *)
(* function (<<>> for none), the innermost class, and the name a typedef   *)
(* gives to the record inside.                                             *)
(***************************************************************************)
Outermost == [fqn |-> Module, function |-> <<>>, class |-> <<>>, alias |-> ""]

IsType(n) == n.is \in {"class", "interface", "enum", "record", "struct", "union", "trait"} /\ ~n.opaque
IsFunction(lang, n) ==
    \/ n.is \in {"function", "method", "constructor", "lambda"}
    \/ lang = "rust" /\ n.is = "prototype"
    \/ lang = "javascript" /\ n.is = "variable" /\ n.value.is = "function"

\* A lambda of Java, and the function a variable stands for, have no name of their own.
Nameless(lang, n) == n.is = "lambda" /\ (lang = "java" \/ n.bound)
NameAt(n, place) == CASE n.name # "" -> n.name [] n.is = "lambda" -> n.at [] OTHER -> place.alias
OwnerOf(lang, n, place) ==
    CASE lang = "go" /\ n.is = "method" -> Norm(n.type)
      [] lang = "cpp" /\ n.is = "function" /\ place.fqn # place.class /\ n.of # "" -> <<n.of>>
      [] OTHER -> <<>>
FullName(lang, n, place) ==
    IF Nameless(lang, n) THEN place.fqn
    ELSE Append(IF OwnerOf(lang, n, place) = <<>> THEN place.fqn ELSE Module \o OwnerOf(lang, n, place), NameAt(n, place))

Within(lang, n, place) ==
    LET name == FullName(lang, n, place)
    IN  CASE n.fails = "early" -> place
          [] n.is = "impl" -> [place EXCEPT !.fqn = Append(Module, n.name), !.class = Append(Module, n.name)]
          [] n.is = "typedef" -> [place EXCEPT !.alias = n.name]
          [] IsType(n) /\ NameAt(n, place) # "" -> [place EXCEPT !.fqn = name, !.class = name, !.alias = ""]
          [] IsFunction(lang, n) -> [place EXCEPT !.fqn = name, !.function = name]
          [] n.is = "namespace" -> [place EXCEPT !.fqn = name]
          [] OTHER -> place

FunctionOr(place, otherwise) == IF place.function = <<>> THEN otherwise ELSE place.function

\* What stands in a member, a parameter or an alias is not read.
PassedOver(lang, n) ==
    \/ lang \in {"c", "cpp"} /\ (n.is \in {"param", "enumerator", "member", "macro"} \/ (n.is = "field" /\ n.names # <<>>))
    \/ lang = "go" /\ n.is \in {"field", "prototype"}
    \/ lang = "rust" /\ n.is \in {"field", "enumerator"}
    \/ n.is = "alias"

TypeOfValue(lang, value) ==
    CASE lang = "rust" /\ value.is = "call" /\ value.of # "" /\ value.name \in Constructors -> <<value.of>>
      [] value.is = "call" -> CallType(value)
      [] value.is = "new" /\ lang # "python" -> <<value.name>>
      [] OTHER -> <<>>
TypeSaid(lang, n, i) ==
    LET made == TypeOfValue(lang, IF n.values = <<>> THEN n.value ELSE n.values[IF i \in DOMAIN n.values THEN i ELSE 1])
    IN  IF n.type \in {<<>>, <<"var">>} \/ (lang = "python" /\ made # <<>>) THEN made ELSE Norm(n.type)

SaysCall(at, place) == [says |-> "call", at |-> at, from |-> FunctionOr(place, place.fqn), class |-> place.class]
SaysType(scope, name, type) == [says |-> "type", scope |-> scope, name |-> name, type |-> type]
SaysName(lang, n, place) ==
    [says |-> "name", fqn |-> FullName(lang, n, place), at |-> n.at, bases |-> n.bases,
     body |-> n.is # "prototype"]

\* In a method, or under an owner, the names of the object.
ObjectNames(lang, n, place) ==
    CASE lang = "python" /\ n.is = "function" /\ place.fqn = place.class -> {n.of} \intersect {"self", "cls"}
      [] lang \in {"java", "javascript"} /\ n.is \in {"method", "constructor"} /\ place.class # <<>> -> {"this"}
      [] lang = "cpp" /\ n.is = "function" /\ (n.of # "" \/ place.fqn = place.class) -> {"this"}
      [] lang = "go" /\ n.is = "method" /\ n.type # <<>> -> {n.of} \ {""}
      [] lang = "rust" /\ IsFunction(lang, n) /\ place.class # <<>> -> {"self", "Self"}
      [] OTHER -> {}
ClassOfObject(lang, n, place) == IF OwnerOf(lang, n, place) # <<>> THEN OwnerOf(lang, n, place) ELSE <<Last(place.class)>>

DeclaredNames(n) == IF n.names = <<>> THEN <<n.name>> ELSE n.names
IsVariable(lang, n, place) ==
    CASE n.is = "param" \/ (n.is = "short" /\ lang = "go") -> TRUE
      [] n.is \in {"variable", "constant"} ->
             CASE lang = "python" -> n.of = "" /\ place.fqn = place.function
               [] lang \in {"c", "cpp"} -> place.fqn = place.function
               [] lang \in {"java", "rust"} -> lang = "java" \/ n.is = "variable" \/ place.function # <<>>
               [] OTHER -> place.function # <<>> /\ n.value.is # "function"
      [] OTHER -> FALSE

OwnWords(lang, n, place) ==
    CASE n.fails = "early" -> {}
      [] n.is \in {"call", "new", "macro", "initializer"} /\ ~PassedOver(lang, n) -> {SaysCall(n.at, place)}
      [] IsFunction(lang, n) ->
             (IF Nameless(lang, n) THEN {} ELSE {SaysName(lang, n, place)})
             \union {SaysType(FullName(lang, n, place), name, ClassOfObject(lang, n, place)) : name \in ObjectNames(lang, n, place)}
      [] n.is = "prototype" \/ (IsType(n) /\ NameAt(n, place) # "") -> {SaysName(lang, n, place)}
      [] n.is = "impl" -> {SaysType(Append(Module, n.name), name, <<n.name>>) : name \in {"self", "Self"}}
      [] IsVariable(lang, n, place) ->
             {SaysType(FunctionOr(place, Module), DeclaredNames(n)[i], TypeSaid(lang, n, i)) : i \in DOMAIN DeclaredNames(n)}
      [] OTHER -> {}

RECURSIVE Words(_, _, _)
Words(lang, n, place) ==
    OwnWords(lang, n, place)
    \union (IF PassedOver(lang, n) THEN {}
            ELSE UNION {Words(lang, n.body[i], Within(lang, n, place)) : i \in DOMAIN n.body})

-------------------------------------------------------------------------------
(***************************************************************************)
(* Properties.                                                             *)
(***************************************************************************)
\* Every call of the file is noted once, as one of the function and the class it is
\* written in, also when a handler on the way raised.
CallsAreInPlace(words) ==
    LET noted == SelectSeq(context.refs, LAMBDA r : r.kind \in {"call", "new"})
    IN  /\ {SaysCall(r.at, [fqn |-> r.from, function |-> r.from, class |-> r.class]) : r \in Range(noted)}
             = {w \in words : w.says = "call"}
        /\ Cardinality({r.at : r \in Range(noted)}) = Len(noted)

\* A variable has a type in a function if it is declared there with one, and this one
\* if no declaration says another.
TypesAreDeclared(words) ==
    LET said == {w \in words : w.says = "type" /\ w.type # <<>>}
    IN  /\ DOMAIN context.types = {<<w.scope, w.name>> : w \in said}
        /\ \A w \in said : context.types[<<w.scope, w.name>>]
                              \in {v.type : v \in {x \in said : x.scope = w.scope /\ x.name = w.name}}

\* What is said in several places of one name is put together: the bases of all, and a
\* body, where there is one, over the declarations.
NamesArePutTogether(words) ==
    \A w \in {v \in words : v.says = "name"} :
        LET all == {v \in words : v.says = "name" /\ v.fqn = w.fqn}
        IN  /\ w.fqn \in DOMAIN context.defs
            /\ context.defs[w.fqn].declaration = ~\E v \in all : v.body
            /\ UNION {Range(v.bases) : v \in all} \subseteq Range(context.defs[w.fqn].bases)
            /\ context.defs[w.fqn].at \in {v.at : v \in {x \in all : x.body \/ context.defs[w.fqn].declaration}}

\* The file is read as it is written.
ReadAsWritten ==
    Collected =>
        /\ context.frames = FileContext(syntax.lang).frames
        /\ \A words \in {Words(syntax.lang, syntax.root, Outermost)} :
               CallsAreInPlace(words) /\ TypesAreDeclared(words) /\ NamesArePutTogether(words)
===============================================================================
