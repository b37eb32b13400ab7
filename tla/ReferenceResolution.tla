-------------------------- MODULE ReferenceResolution --------------------------
(***************************************************************************)
(* The calls of a project become edges between its symbols                 *)
(* (dependency_analyzer/analyzer.py, phases/graph.py): the files are read  *)
(* by threads and merged as they are done, and then every reference is     *)
(* resolved by the scopes it can see, by an answer of a compiler, or by    *)
(* a guess that says it is one.                                            *)
(*                                                                         *)
(* A reference is [file, from, kind, name, receiver, class, compiler]:     *)
(* receiver is a sequence of names, compiler the targets a compiler gave,  *)
(* with the reason why it gave none.  An outcome is [target, scope,        *)
(* method, sure, reason]: scope "project", "builtin" or the module outside.*)
(***************************************************************************)
EXTENDS SymbolIndex

CONSTANTS Projects, MaxVirtualTargets,
          Builtins, BuiltinObjects, TypeMethods    \* what the handler of the language knows

VARIABLES project,      \* what is in the files
          merged,       \* the files, as they were done
          index,        \* made when all are merged
          linked,       \* how many references were resolved
          links,        \* the edges written for them
          unresolved    \* the ones that were recorded without a target

symbolVars == <<project, merged, index, linked, links, unresolved>>

SelfNames(lang) == CASE lang \in {"java", "cpp", "javascript"} -> {"this"}
                     [] lang = "python" -> {"self", "cls"}
                     [] OTHER -> {}
SuperNames(lang) == IF lang \in {"java", "python", "javascript"} THEN {"super"} ELSE {}
BareHitsClass(lang) == lang \notin {"go", "rust", "c"}

Outcome(target, method, sure) ==
    [target |-> target, scope |-> "project", method |-> method, sure |-> sure, reason |-> "none"]
Certain(target, method) == Outcome(target, method, TRUE)
Outside(target, scope, method, sure) ==
    [target |-> target, scope |-> scope, method |-> method, sure |-> sure, reason |-> "none"]
Missing(reason) ==
    [target |-> NoSymbol, scope |-> "none", method |-> "unresolved", sure |-> FALSE, reason |-> reason]

\* The first outcome with a target: an earlier scope hides a later one.
FirstAnswer(outcomes) == Head(SelectSeq(outcomes, LAMBDA o : o.target # NoSymbol \/ o.reason # "none"))

-------------------------------------------------------------------------------
(***************************************************************************)
(* Guesses.                                                                *)
(***************************************************************************)
IsBuiltin(name, receiver) == IF receiver = <<>> THEN name \in Builtins ELSE receiver[1] \in BuiltinObjects
BuiltinOutcome(name) == Outside(name, "builtin", "builtin_catalog", TRUE)

SameName(ix, r, kinds) == Which(ix, LAMBDA d : d.name = r.name /\ d.kind \in kinds)
SymbolsOf(ix, definitions) == {Canonical(ix, d) : d \in Range(definitions)}

\* Without a receiver: the only one of that name, a name of the language, the nearest.
FallbackSymbol(ix, r, kinds) ==
    LET all == SameName(ix, r, kinds)
        symbols == SymbolsOf(ix, all)
        file == BestMatch(ix.p, [i \in DOMAIN all |-> ix.def[all[i]].file], r.file)
    IN  IF Cardinality(symbols) = 1 THEN Outcome(CHOOSE d \in symbols : TRUE, "unique_name_heuristic", FALSE)
        ELSE IF IsBuiltin(r.name, r.receiver) THEN BuiltinOutcome(r.name)
        ELSE IF symbols # {}
             THEN Outcome(Canonical(ix, SelectSeq(all, LAMBDA d : ix.def[d].file = file)[1]),
                          "nearest_module_heuristic", FALSE)
        ELSE Missing("symbol_not_found")

\* With a receiver of no known type: a method of the language's types, the only member.
FallbackMember(ix, r) ==
    LET symbols == SymbolsOf(ix, SameName(ix, r, {"method", "constructor"}))
    IN  IF r.name \in TypeMethods THEN BuiltinOutcome(r.name)
        ELSE IF Cardinality(symbols) = 1 THEN Outcome(CHOOSE d \in symbols : TRUE, "unique_member_heuristic", FALSE)
        ELSE IF IsBuiltin(r.name, r.receiver) THEN BuiltinOutcome(r.name)
        ELSE Missing(IF symbols = {} THEN "unknown_receiver_type" ELSE "ambiguous_member")

-------------------------------------------------------------------------------
(***************************************************************************)
(* Scopes.                                                                 *)
(***************************************************************************)
RealClass(ix, c) == Canonical(ix, FollowAlias(ix.typeAlias, c, 8))
Plainly(name) == [of |-> NoName, name |-> name]

Member(ix, c, name) == At(ix.member, <<c, name>>)

\* The only function or method of that name.
OnlyCallable(ix, name) ==
    LET all == {Canonical(ix, d) : d \in Range(Which(ix, LAMBDA d : d.name = name /\ d.kind \in Callable))}
    IN  IF Cardinality(all) = 1 THEN CHOOSE d \in all : TRUE ELSE NoSymbol

\* The function a call of this name runs, for the type of what it returns.
CallableOf(ix, from, type) ==
    Canonical(ix,
        IF type.of = NoName
        THEN FirstOf(<<InModule(ix, from, type.name), Bound(ix, from, type.name, "symbol"),
                       PackageScope(ix, from, type.name, FALSE), OnlyCallable(ix, type.name)>>)
        ELSE FirstOf(<<LookupInModule(ix, Bound(ix, from, type.of, "module"), type.name),
                       Member(ix, TypeOf(ix, from, Plainly(type.of)), type.name),
                       IF ix.p.lang = "go" THEN PackageSymbol(ix, from, type.of, type.name) ELSE NoSymbol>>))

Returned(ix, from, callee) == IF callee = NoSymbol THEN NoSymbol ELSE TypeOf(ix, from, ix.def[callee].returns)

\* The type of a variable: the one declared, or of the call it is made by.
TypeOfVariable(ix, r, name) ==
    LET known == {s \in {r.from, r.file} : <<s, name>> \in DOMAIN ix.p.variables}
        type == ix.p.variables[<<IF r.from \in known THEN r.from ELSE r.file, name>>]
    IN  IF known = {} THEN NoSymbol
        ELSE FirstOf(<<TypeOf(ix, r.file, type),
                       IF type.call THEN Returned(ix, r.file, CallableOf(ix, r.file, type)) ELSE NoSymbol>>)

\* The type of a field, declared in the type or in the next one of its order.
TypeOfField(ix, r, c, name) ==
    LET in == SelectSeq(IF c = NoSymbol THEN <<>> ELSE IF ix.types.order[c] = NoOrder THEN <<c>> ELSE ix.types.order[c],
                        LAMBDA d : LET f == At(ix.members, <<d, name>>)
                                   IN  f # NoSymbol /\ ix.def[f].kind = "field" /\ ix.def[f].type.name # NoName)
    IN  IF in = <<>> THEN NoSymbol ELSE TypeOf(ix, r.file, ix.def[ix.members[<<in[1], name>>]].type)

\* The constructor that this(...) or super(...) runs.
Delegated(ix, r, c) ==
    LET parents == SelectSeq(ix.bases[c], LAMBDA b : ix.def[b].kind # "interface")
        owner == IF r.name = "this" THEN c ELSE IF Len(parents) = 1 THEN parents[1] ELSE NoSymbol
        name == IF ix.p.lang = "java" /\ owner # NoSymbol THEN ix.def[owner].name ELSE "constructor"
        target == At(ix.members, <<owner, name>>)
    IN  IF target = NoSymbol THEN Missing("initializer_target_not_unique") ELSE Certain(target, "constructor_delegation")

\* super finds the next declaration behind the class itself.
ByParent(ix, r, c) ==
    LET order == ix.types.order[c]
        next == SelectSeq(IF order = NoOrder THEN <<>> ELSE Tail(order), LAMBDA d : d \in Declaring(ix, r.name))
    IN  IF next = <<>> THEN NoSymbol ELSE Canonical(ix, ix.members[<<next[1], r.name>>])

\* The answer of what is imported under the name; nothing when nothing is.
ByImport(ix, r, name) ==
    LET b == BindingOf(ix, r.file, name)
        member == Member(ix, IF b.kind = "symbol" /\ b.symbol \in DOMAIN ix.bases THEN b.symbol ELSE NoSymbol, r.name)
        symbol == Canonical(ix, b.symbol)
    IN  CASE b.kind = "module" /\ r.receiver # <<>> -> Certain(Canonical(ix, LookupInModule(ix, b.symbol, r.name)), "module_binding")
          [] b.kind = "module" /\ r.receiver = <<>> -> Certain(b.symbol, "module_binding")
          [] b.kind = "symbol" -> Certain(IF r.receiver = <<>> \/ member = NoSymbol THEN symbol ELSE member, "imported_symbol")
          [] OTHER -> Certain(NoSymbol, "none")

Externally(ix, r, name) ==
    LET b == BindingOf(ix, r.file, name)
    IN  IF b.kind \notin {"external", "external_module"} THEN Certain(NoSymbol, "none")
        ELSE Outside(IF b.kind = "external" /\ r.receiver = <<>> THEN b.symbol ELSE r.name, b.module, "external_binding", TRUE)

ByWildcard(ix, r) ==
    LET b == BindingOf(ix, r.file, "*")
    IN  CASE b.kind # "wildcard" -> Certain(NoSymbol, "none")
          [] b.kind = "wildcard" /\ b.symbol # NoSymbol ->
             Outcome(Canonical(ix, LookupInModule(ix, b.symbol, r.name)), "wildcard_import", FALSE)
          [] OTHER -> Outside(r.name, b.module, "wildcard_import", FALSE)

\* The scopes of a receiver in their order: own is the class when the receiver is the
\* object itself, variable and type what a variable and a type of that name stand for.
ByReceiver(ix, r, c, own, variable, type) ==
    LET head == r.receiver[1]
        FieldOf(of) == IF Len(r.receiver) = 1 THEN NoSymbol ELSE TypeOfField(ix, r, of, r.receiver[2])
        static == Member(ix, type, r.name)
    IN  FirstAnswer(<<
            Certain(Member(ix, FieldOf(own), r.name), "receiver_attribute_type"),
            Certain(Member(ix, own, r.name), "class_scope"),
            Certain(IF c # NoSymbol /\ head \in SuperNames(ix.p.lang) THEN ByParent(ix, r, c) ELSE NoSymbol, "inheritance_lookup"),
            Certain(Member(ix, FieldOf(variable), r.name), "receiver_attribute_type"),
            Certain(Member(ix, variable, r.name), "receiver_type"),
            ByImport(ix, r, head),
            Certain(IF ix.p.lang = "go" THEN Canonical(ix, PackageSymbol(ix, r.file, head, r.name)) ELSE NoSymbol, "package_scope"),
            Externally(ix, r, head),
            Certain(IF static # NoSymbol THEN static ELSE type, "receiver_type"),
            IF IsBuiltin(r.name, r.receiver) THEN BuiltinOutcome(r.name) ELSE FallbackMember(ix, r)>>)

WithReceiver(ix, r, c) ==
    ByReceiver(ix, r, c, IF r.receiver[1] \in SelfNames(ix.p.lang) THEN c ELSE NoSymbol,
               TypeOfVariable(ix, r, r.receiver[1]),
               TypeOf(ix, r.file, [of |-> IF Len(r.receiver) > 1 THEN r.receiver[1] ELSE NoName, name |-> Last(r.receiver)]))

WithoutReceiver(ix, r, c) ==
    FirstAnswer(<<
        Certain(IF BareHitsClass(ix.p.lang) THEN Member(ix, c, r.name) ELSE NoSymbol, "class_scope"),
        Certain(Canonical(ix, InModule(ix, r.file, r.name)), "local_scope"),
        ByImport(ix, r, r.name),
        Externally(ix, r, r.name),
        Certain(Canonical(ix, PackageScope(ix, r.file, r.name, FALSE)), "package_scope"),
        IF IsBuiltin(r.name, <<>>) THEN BuiltinOutcome(r.name) ELSE Certain(NoSymbol, "none"),
        ByWildcard(ix, r),
        FallbackSymbol(ix, r, Callable)>>)

\* An object of this type; without one, of what has the name.
Instance(ix, r, type) ==
    IF type # NoSymbol THEN Certain(type, "type_resolution") ELSE FallbackSymbol(ix, r, ClassLike)

ResolveReference(ix, r, c) ==
    CASE /\ r.receiver = <<>> /\ c \in DOMAIN ix.bases
         /\ r.name \in {"super", "this"} /\ ix.p.lang \in {"java", "javascript"} -> Delegated(ix, r, c)
      [] r.kind = "new" ->
         Instance(ix, r, TypeOf(ix, r.file, [of |-> IF r.receiver = <<>> THEN NoName ELSE Last(r.receiver), name |-> r.name]))
      [] r.receiver # <<>> -> WithReceiver(ix, r, c)
      [] OTHER -> WithoutReceiver(ix, r, c)

\* What a compiler says comes first; without it the answer is a guess, and says why.
OutcomesOf(ix, r) ==
    IF r.compiler.targets # {} THEN {Outcome(t, "declaration_binding", FALSE) : t \in r.compiler.targets}
    ELSE {IF r.compiler.reason = "none" THEN o ELSE [o EXCEPT !.sure = FALSE] :
             o \in {ResolveReference(ix, r, IF r.class = NoSymbol THEN NoSymbol ELSE RealClass(ix, r.class))}}

-------------------------------------------------------------------------------
(***************************************************************************)
(* Edges.                                                                  *)
(***************************************************************************)
GraphNodes(ix) == {d \in Range(ix.ids) : Canonical(ix, d) = d} \union FilesOf(ix.p)

Link(from, to, relation) ==
    [from |-> from, to |-> to, relation |-> relation, scope |-> "project", ref |-> 0,
     method |-> "none", sure |-> TRUE, truncated |-> FALSE]

\* What lies in what; a member defined in another file than its type is declared there.
Contained(ix) ==
    LET nodes == Range(ix.ids) \intersect GraphNodes(ix)
        Parent(d) == Canonical(ix, ix.def[d].parent)
        In(d) == IF Parent(d) \in GraphNodes(ix) THEN Parent(d) ELSE ix.def[d].file
    IN  {Link(In(d), d, "contains") : d \in nodes}
        \union {Link(ix.def[d].file, d, "declares") :
                   d \in {e \in nodes : /\ In(e) \in DOMAIN ix.def
                                        /\ ix.def[In(e)].file # ix.def[e].file}}

Inherited(ix) ==
    {Link(c, b, IF ix.def[b].kind = "interface" THEN "implements"
                ELSE IF ix.p.lang = "go" THEN "embeds" ELSE "inherits") :
        <<c, b>> \in {<<d, e>> \in (DOMAIN ix.bases) \X (DOMAIN ix.bases) : e \in Range(ix.bases[d])}}

\* A method overrides the next declaration of its name behind its type.
Overriding(ix) ==
    LET methods == {<<c, n>> \in DOMAIN ix.members : /\ c \in DOMAIN ix.bases /\ ix.bases[c] # <<>>
                                                     /\ ix.def[ix.members[<<c, n>>]].kind \in {"method", "constructor"}}
        Next(c, n) == ByParent(ix, [name |-> n], c)
    IN  {l \in {Link(Canonical(ix, ix.members[m]), Next(m[1], m[2]), "overrides") : m \in methods} :
            l.to \notin {NoSymbol, l.from}}

Structure(ix) == Contained(ix) \union Inherited(ix) \union Overriding(ix)

\* The overriding methods of the direct subclasses, which the call may mean as well.
OverridesBelow(ix, from, target) ==
    LET def == ix.def[target]
        below == {c \in DOMAIN ix.bases : def.parent \in Range(ix.bases[c]) /\ <<c, def.name>> \in DOMAIN ix.members}
    IN  IF target \notin DOMAIN ix.def \/ def.kind \notin {"method", "constructor"} THEN {}
        ELSE {Canonical(ix, ix.members[<<c, def.name>>]) : c \in below} \ {target, from}

\* Any of them are kept when there are too many: the set has no order.
SomeKept(all) == {s \in SUBSET all : Cardinality(s) = Min({Cardinality(all), MaxVirtualTargets})}

LinksOf(ix, n, from, o, kept) ==
    LET r == ix.p.refs[n]
        class == o.scope = "project" /\ o.target \in DOMAIN ix.bases
        super == r.name = "super" /\ r.receiver = <<>> /\ r.kind = "call" /\ ix.p.lang = "javascript" /\ class
        constructor == At(ix.members, <<o.target, "constructor">>)
        target == IF super /\ constructor # NoSymbol THEN constructor ELSE o.target
        relation == IF r.kind = "new" \/ (o.scope = "project" /\ target \in DOMAIN ix.bases) THEN "instantiates" ELSE "calls"
        link == [Link(from, target, relation) EXCEPT !.scope = o.scope, !.ref = n, !.method = o.method, !.sure = o.sure]
        virtual == o.scope = "project" /\ relation = "calls" /\ o.method # "declaration_binding"
        all == IF virtual THEN OverridesBelow(ix, from, target) ELSE {}
    IN  IF o.target = NoSymbol \/ o.target = from THEN {}
        ELSE {link} \union {[link EXCEPT !.to = t, !.method = "virtual_expansion", !.sure = FALSE,
                                         !.truncated = (Cardinality(all) > MaxVirtualTargets)] :
                               t \in all \intersect kept}

\* A reference of code that is no node is one of the file.
FromOf(ix, r) == IF Canonical(ix, r.from) \in GraphNodes(ix) THEN Canonical(ix, r.from) ELSE r.file

-------------------------------------------------------------------------------
SymbolInit ==
    /\ project \in Projects
    /\ merged = <<>> /\ index = <<>> /\ linked = 0 /\ links = {} /\ unresolved = {}

\* A thread is done with a file.
Merge(f) ==
    /\ f \in FilesOf(project) \ Range(merged)
    /\ merged' = Append(merged, f)
    /\ UNCHANGED <<project, index, linked, links, unresolved>>

Build ==
    /\ Len(merged) = Cardinality(FilesOf(project)) /\ index = <<>>
    /\ index' = IndexOf(project, merged)
    /\ links' = Structure(index')
    /\ UNCHANGED <<project, merged, linked, unresolved>>

\* A reference by type alone is an edge or nothing.
LinkType ==
    LET n == linked + 1
        r == project.refs[n]
        target == TypeOf(index, r.file, Plainly(r.name))
    IN  /\ index # <<>> /\ n \in DOMAIN project.refs /\ r.kind = "typeref"
        /\ links' = IF target \in {NoSymbol, FromOf(index, r)} THEN links
                    ELSE links \union {[Link(FromOf(index, r), target, "uses") EXCEPT !.ref = n]}
        /\ linked' = n
        /\ UNCHANGED <<project, merged, index, unresolved>>

LinkOutcomes(n, r, from, outcomes) ==
    /\ \E kept \in SomeKept(UNION {OverridesBelow(index, from, o.target) : o \in {p \in outcomes : p.scope = "project"}}) :
          links' = links \union UNION {LinksOf(index, n, from, o, kept) : o \in outcomes}
    /\ unresolved' = unresolved \union {[ref |-> n, reason |-> o.reason] : o \in {p \in outcomes : p.target = NoSymbol}}

LinkCall ==
    LET n == linked + 1
        r == project.refs[n]
    IN  /\ index # <<>> /\ n \in DOMAIN project.refs /\ r.kind # "typeref"
        /\ LinkOutcomes(n, r, FromOf(index, r), OutcomesOf(index, r))
        /\ linked' = n
        /\ UNCHANGED <<project, merged, index>>

SymbolNext == (\E f \in FilesOf(project) : Merge(f)) \/ Build \/ LinkType \/ LinkCall

-------------------------------------------------------------------------------
(***************************************************************************)
(* Properties.                                                             *)
(***************************************************************************)
Indexed == index # <<>>
JustIndexed == Indexed /\ linked = 0      \* no later step changes the index
Resolved == Indexed /\ linked = Len(project.refs)

\* The ways up from a type, as sequences of types.
WaysUp(T, c) ==
    {w \in SeqOf(Types(T), Cardinality(Types(T))) :
        /\ w # <<>> /\ w[1] = c
        /\ \A i \in 1..Len(w) - 1 : w[i + 1] \in Range(T.bases[w[i]])}
\* Those that end at the first declaration met.
WaysTo(T, c, declaring) ==
    {w \in WaysUp(T, c) : Last(w) \in declaring /\ Range(Front(w)) \intersect declaring = {}}

\* The order of Python by its rules: the class, then an order of all others in which
\* the orders of the bases and the bases themselves keep theirs.
RECURSIVE OrderByRules(_, _)
OrderByRules(T, c) ==
    LET above == Range(Tail(AncestorsOf(T, c)))
        parents == [i \in DOMAIN T.bases[c] |-> OrderByRules(T, T.bases[c][i])]
        Keeps(s, kept) == SelectSeq(s, LAMBDA d : d \in Range(kept)) = kept
        fit == {s \in SetToSeqs(above) : \A k \in Range(Append(parents, T.bases[c])) : Keeps(s, k)}
    IN  IF (\E b \in Range(T.bases[c]) : Contains(AncestorsOf(T, b), c)) \/ c \in T.unknown \/ NoOrder \in Range(parents) THEN NoOrder
        ELSE IF fit = {} THEN NoOrder
        ELSE <<c>> \o (IF Cardinality(fit) > 1 /\ T.order[c] # NoOrder /\ Tail(T.order[c]) \in fit
                       THEN Tail(T.order[c]) ELSE CHOOSE s \in fit : TRUE)

OnlyOne(S) == IF Cardinality(S) = 1 THEN CHOOSE d \in S : TRUE ELSE NoSymbol
Shortest(ways) == {w \in ways : \A v \in ways : Len(w) <= Len(v)}
\* What is left of a way behind its last virtual base.
Object(T, w) ==
    LET last == {i \in 1..Len(w) - 1 : <<w[i], w[i + 1]>> \in T.virtual}
    IN  IF last = {} THEN w ELSE SubSeq(w, Max(last) + 1, Len(w))
\* A way that ends in the dark before it meets a declaration.
Blind(T, c, declaring) ==
    \E w \in WaysUp(T, c) : /\ Last(w) \in T.unknown \/ ~IsInjective(w)
                            /\ Range(w) \intersect declaring = {}
NearestOwners(T, owners) ==
    LET classes == {d \in owners : T.kind[d] # "interface"}
        best == IF T.lang = "java" /\ classes # {} THEN classes ELSE owners
    IN  {d \in best : ~\E e \in best \ {d} : Contains(AncestorsOf(T, e), d)}
\* The first of an order, none without one.
InOrder(order, declaring) ==
    IF order = NoOrder THEN NoSymbol ELSE FirstOf(SelectSeq(order, LAMBDA d : d \in declaring))

\* The owner of a member by the rules of the language, NoSymbol when they leave none.
OwnerByRules(T, c, declaring, ways) ==
    CASE T.lang = "python" -> IF c \in T.unknown THEN NoSymbol ELSE InOrder(OrderByRules(T, c), declaring)
      [] T.lang # "python" /\ c \in declaring -> c
      [] T.lang # "python" /\ c \notin declaring /\ c \in T.unknown -> NoSymbol
      [] OTHER ->
         CASE T.lang = "go" -> IF Cardinality(Shortest(ways)) = 1 THEN Last(CHOOSE w \in Shortest(ways) : TRUE) ELSE NoSymbol
           [] T.lang = "cpp" -> IF Cardinality({Object(T, w) : w \in ways}) = 1 /\ ~Blind(T, c, declaring)
                                THEN OnlyOne({Last(w) : w \in ways}) ELSE NoSymbol
           [] OTHER -> OnlyOne(NearestOwners(T, {Last(w) : w \in ways}))
MemberByRules(ix, owner, n) == IF owner = NoSymbol THEN NoSymbol ELSE Canonical(ix, ix.members[<<owner, n>>])

\* The member of a type is the one the rules of the language say, or none: the order
\* of Python, the shallowest embedding of Go, the one subobject of C++, the class
\* before the interface of Java (semantic_index/hierarchy.py:85).  A Python class
\* without an order has none, not even its own: the order is asked first
\* (dependency_analyzer/phases/types.py:132).
MembersByRules ==
    JustIndexed => \A c \in DOMAIN index.bases, n \in {m[2] : m \in DOMAIN index.members} :
        index.member[<<c, n>>] =
            MemberByRules(index, OwnerByRules(index.types, c, Declaring(index, n),
                                              WaysTo(index.types, c, Declaring(index, n))), n)

\* Two files define the same name and nothing tells which is meant.
Tied(p) ==
    LET all == UNION {Range(p.defs[f]) : f \in FilesOf(p)}
        Free(d) == d.parent = d.file /\ ~d.declaration
        Alike(f, g) == \/ p.lang = "cpp"
                       \/ p.lang = "java" /\ p.package[f] = p.package[g]
                       \/ \E from \in FilesOf(p) : Nearness(p, f, from) = Nearness(p, g, from)
    IN  \/ \E d, e \in all : d.name = e.name /\ d.file # e.file /\ Free(d) /\ Free(e) /\ Alike(d.file, e.file)
        \/ \E d, e \in all : d.id # e.id /\ d.name = e.name /\ d.owner = e.owner /\ d.owner.name # NoName
        \/ \E m \in DOMAIN p.offers : \E f, g \in p.offers[m] : f # g /\ (p.lang = "go" \/ Alike(f, g))

\* All that is written for an order of the files, and nothing left out of it.
AllWritten(ix) ==
    Structure(ix) \union UNION {UNION {LinksOf(ix, n, FromOf(ix, ix.p.refs[n]), o, Range(ix.ids)) :
                                           o \in OutcomesOf(ix, ix.p.refs[n])} :
                                   n \in {m \in DOMAIN ix.p.refs : ix.p.refs[m].kind # "typeref"}}
Calls(edges) == {l \in edges : l.relation # "uses" /\ ~l.truncated}

\* The threads decide the order in which the files are merged
\* (dependency_analyzer/analyzer.py:177), and where the names leave no doubt it makes
\* no difference to the graph.
OrderDoesNotMatter ==
    Resolved /\ ~Tied(project) /\ (\A l \in links : ~l.truncated) =>
        Calls(links) = Calls(AllWritten(IndexOf(project, SetToSeq(FilesOf(project)))))

\* A declaration and its definition are one node: the prototype of a function and
\* its only body, a method in its class and the body elsewhere, and the node is the body
\* (dependency_analyzer/phases/types.py:49); no edge ends at anything but a node.
OneNode ==
    Indexed =>
        /\ \A d, e \in DOMAIN index.def :
              /\ index.def[d].name = index.def[e].name /\ index.def[d].parent = index.def[e].parent
              /\ {index.def[d].kind, index.def[e].kind} \subseteq Callable
              /\ index.def[d].parent \in DOMAIN index.bases
              => Canonical(index, d) = Canonical(index, e)
        /\ \A d \in DOMAIN index.def : d \in DOMAIN index.alias => ~index.def[Canonical(index, d)].declaration
        /\ \A d, e \in DOMAIN index.def :
              /\ index.def[d].declaration /\ index.def[d].kind = "function"
              /\ {e} = {i \in DOMAIN index.def : /\ index.def[i].name = index.def[d].name
                                                /\ ~index.def[i].declaration}
              => Canonical(index, d) = Canonical(index, e)
        /\ \A d \in DOMAIN index.def : Canonical(index, d) \in GraphNodes(index)
        /\ \A l \in links : l.from \in GraphNodes(index) /\ (l.scope = "project" => l.to \in GraphNodes(index))

\* A call that means a method means what the direct subclasses made of it, or says
\* that some of it is left out (dependency_analyzer/phases/graph.py:210); a
\* reference leaves an edge or a record unless it means the code it is in.
CallsCoverOverrides ==
    Indexed =>
        /\ \A l \in {k \in links : k.relation = "calls" /\ k.scope = "project" /\ k.ref # 0
                                    /\ k.method \notin {"virtual_expansion", "declaration_binding"}} :
              \A c \in DOMAIN index.bases :
                  LET def == index.def[l.to]
                      override == Canonical(index, At(index.members, <<c, def.name>>))
                  IN  /\ l.to \in DOMAIN index.def /\ def.kind = "method"
                      /\ def.parent \in Range(index.bases[c])
                      /\ override \notin {NoSymbol, l.from, l.to}
                      => \/ \E k \in links : k.ref = l.ref /\ k.to = override
                         \/ \E k \in links : k.ref = l.ref /\ k.truncated
        /\ \A n \in 1..linked : project.refs[n].kind # "typeref" =>
              \/ \E l \in links : l.ref = n
              \/ \E u \in unresolved : u.ref = n
              \/ \E o \in OutcomesOf(index, project.refs[n]) : o.target = FromOf(index, project.refs[n])
===============================================================================
