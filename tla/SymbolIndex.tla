------------------------------ MODULE SymbolIndex ------------------------------
(***************************************************************************)
(* The symbols of a project (services/dependency_analyzer/phases): the     *)
(* definitions of all files merged in the order in which the files were    *)
(* done, the bindings their imports make, which type a name stands for,    *)
(* the members of the types, and which declarations and definitions are    *)
(* one symbol.                                                             *)
(*                                                                         *)
(* A project p gives the language, the path of every file as a sequence of *)
(* directories and a name, the package it belongs to, what it defines      *)
(* (sequences of [id, name, kind, parent, owner, bases, virtual, type,     *)
(* returns, declaration]) and imports ([alias, module, symbol, kind]), and *)
(* which files a module can mean.  The name of a type is [of, name], of a  *)
(* qualifier or NoName.  An index ix holds the project and what was made   *)
(* of it; a binding is [kind, symbol, module], a function of two arguments *)
(* has pairs in its domain.                                                *)
(***************************************************************************)
EXTENDS TypeHierarchy, FiniteSetsExt

CONSTANTS NoName, NoSymbol

ClassLike == {"class", "interface", "struct"}
Callable == {"function", "method", "constructor"}
FilesOf(p) == DOMAIN p.path
DirectoryOf(p, f) == Front(p.path[f])
At(function, key) == IF key \in DOMAIN function THEN function[key] ELSE NoSymbol

\* The first that is a symbol; the last of a sequence, which is what an assignment
\* for each of them leaves.
FirstOf(symbols) ==
    LET are == SelectSeq(symbols, LAMBDA s : s # NoSymbol) IN IF are = <<>> THEN NoSymbol ELSE Head(are)
LastOf(symbols) == IF symbols = <<>> THEN NoSymbol ELSE Last(symbols)

-------------------------------------------------------------------------------
(***************************************************************************)
(* The definitions.                                                        *)
(***************************************************************************)
\* A definition replaces a declaration of the same name that came first, and nothing
\* else does; its place stays the first one.
MergeOne(ix, d) ==
    IF d.id \notin DOMAIN ix.def THEN [ix EXCEPT !.ids = Append(@, d.id), !.def = @ @@ (d.id :> d)]
    ELSE IF ix.def[d.id].declaration /\ ~d.declaration THEN [ix EXCEPT !.def[d.id] = d]
    ELSE ix

Merged(p, order) ==
    FoldLeft(MergeOne,
             [p |-> p, order |-> order, ids |-> <<>>, def |-> <<>>, members |-> <<>>, alias |-> <<>>,
              typeAlias |-> <<>>, bases |-> <<>>, bindings |-> <<>>, types |-> <<>>, member |-> <<>>],
             FlattenSeq([i \in DOMAIN order |-> p.defs[order[i]]]))

Which(ix, Test(_)) == SelectSeq(ix.ids, LAMBDA d : Test(ix.def[d]))
InModule(ix, f, n) == LastOf(Which(ix, LAMBDA d : d.parent = f /\ d.name = n))
ClassIn(ix, f, n) == LastOf(Which(ix, LAMBDA d : d.file = f /\ d.kind \in ClassLike /\ d.name = n))
Classes(ix, n) == Which(ix, LAMBDA d : d.kind \in ClassLike /\ d.name = n)
InPackage(ix, package, n) == LastOf(Which(ix, LAMBDA d : /\ d.kind \in ClassLike /\ d.name = n
                                                         /\ ix.p.package[d.file] = package))

\* What is defined inside a type is its member.
WithMembers(ix) ==
    [ix EXCEPT !.members = FoldLeft(
        LAMBDA m, d : LET in == ix.def[d].parent
                      IN  IF in \in DOMAIN ix.def /\ ix.def[in].kind \in ClassLike
                          THEN (<<in, ix.def[d].name>> :> d) @@ m ELSE m,
        <<>>, ix.ids)]

-------------------------------------------------------------------------------
(***************************************************************************)
(* Files that a module can mean.                                           *)
(***************************************************************************)
\* Closer: more directories in common from the root, then a shorter path.
Nearness(p, f, from) ==
    <<Len(LongestCommonPrefix({p.path[f], p.path[from]})), -Len(p.path[f])>>
Farther(a, b) == a[1] < b[1] \/ (a[1] = b[1] /\ a[2] < b[2])

\* The first of the nearest ones.
BestMatch(p, files, from) ==
    LET best == SelectSeq(files, LAMBDA f : ~\E g \in Range(files) :
                              Farther(Nearness(p, f, from), Nearness(p, g, from)))
    IN  IF files = <<>> THEN NoSymbol ELSE Head(best)

\* A header: the one beside the file, or the first one anywhere.
IncludeOf(ix, from, module) ==
    LET offered == SelectSeq(ix.order, LAMBDA f : f \in ix.p.offers[module])
        beside == SelectSeq(offered, LAMBDA f : DirectoryOf(ix.p, f) = DirectoryOf(ix.p, from))
    IN  FirstOf(beside \o offered)

ModuleOf(ix, from, import) ==
    LET named == InPackage(ix, import.module, import.symbol)
    IN  CASE ix.p.lang = "go" \/ import.kind = "system" -> NoSymbol
          [] ix.p.lang = "java" -> IF named = NoSymbol THEN NoSymbol ELSE ix.def[named].file
          [] ix.p.lang = "cpp" -> IncludeOf(ix, from, import.module)
          [] OTHER -> BestMatch(ix.p, SelectSeq(ix.order, LAMBDA f : f \in ix.p.offers[import.module]), from)

\* A member of some type of the file, the types in the order they were defined.
MemberInModule(ix, f, n) ==
    LET owners == Which(ix, LAMBDA d : /\ d.file = f /\ d.kind \in ClassLike
                                       /\ <<d.id, n>> \in DOMAIN ix.members)
    IN  IF owners = <<>> THEN NoSymbol ELSE ix.members[<<Head(owners), n>>]

\* The symbol of a file; the default of a module that has one definition is that.
LookupInModule(ix, f, n) ==
    LET only == Which(ix, LAMBDA d : d.parent = f)
    IN  IF f = NoSymbol THEN NoSymbol
        ELSE FirstOf(<<InModule(ix, f, n), ClassIn(ix, f, n),
                       IF ix.p.lang = "javascript" /\ n = "default" /\ Len(only) = 1 THEN only[1] ELSE NoSymbol,
                       MemberInModule(ix, f, n)>>)

\* What an import makes of its alias.
BindOne(ix, from, import) ==
    LET file == ModuleOf(ix, from, import)
        symbol == LookupInModule(ix, file, import.symbol)
        Bind(kind, what) == [ix EXCEPT !.bindings =
                                (<<from, import.alias>> :> [kind |-> kind, symbol |-> what, module |-> import.module]) @@ @]
    IN  CASE import.kind = "wildcard" -> Bind("wildcard", file)
          [] import.kind = "symbol" -> IF symbol # NoSymbol THEN Bind("symbol", symbol)
                                                            ELSE Bind("external", import.symbol)
          [] OTHER -> IF file # NoSymbol THEN Bind("module", file) ELSE Bind("external_module", NoSymbol)

WithBindings(ix) ==
    FoldLeft(LAMBDA x, f : FoldLeft(LAMBDA y, import : BindOne(y, f, import), x, ix.p.imports[f]), ix, ix.order)

BindingOf(ix, from, n) ==
    IF <<from, n>> \in DOMAIN ix.bindings THEN ix.bindings[<<from, n>>]
    ELSE [kind |-> "none", symbol |-> NoSymbol, module |-> NoName]

\* The binding as a symbol of the project, when it is one of this kind.
Bound(ix, from, n, kind) == LET b == BindingOf(ix, from, n) IN IF b.kind = kind THEN b.symbol ELSE NoSymbol

-------------------------------------------------------------------------------
(***************************************************************************)
(* Names that need no import.                                              *)
(***************************************************************************)
\* The directory of a Go package: the first one the path of the import can mean,
\* then the first one of a package named like the alias.
PackageDirectory(ix, from, alias) ==
    LET b == BindingOf(ix, from, alias)
        path == IF b.kind = "none" THEN alias ELSE b.module
        files == SelectSeq(ix.order, LAMBDA f : path \in DOMAIN ix.p.offers /\ f \in ix.p.offers[path])
                 \o SelectSeq(ix.order, LAMBDA f : ix.p.package[f] = alias)
    IN  IF files = <<>> THEN <<>> ELSE DirectoryOf(ix.p, files[1])

\* A name of the files in a directory, the files in their order.
InDirectory(ix, directory, Find(_)) ==
    LET files == SelectSeq(ix.order, LAMBDA f : DirectoryOf(ix.p, f) = directory)
    IN  FirstOf([i \in DOMAIN files |-> Find(files[i])])

PackageSymbol(ix, from, alias, n) ==
    LET directory == PackageDirectory(ix, from, alias)
    IN  IF directory = <<>> THEN NoSymbol
        ELSE InDirectory(ix, directory, LAMBDA f : FirstOf(<<InModule(ix, f, n), ClassIn(ix, f, n)>>))

\* The file beside it with the same name and another extension.
Siblings(p, from) == {f \in FilesOf(p) \ {from} : p.stem[f] = p.stem[from]}

PackageScope(ix, from, n, classesOnly) ==
    LET imports == ix.p.imports[from]
        Find(f) == IF classesOnly THEN ClassIn(ix, f, n) ELSE FirstOf(<<InModule(ix, f, n), ClassIn(ix, f, n)>>)
        Beside(f) == IF classesOnly THEN ClassIn(ix, f, n) ELSE InModule(ix, f, n)
        Plain(f) == LET d == InModule(ix, f, n)
                    IN  IF d # NoSymbol /\ (~classesOnly \/ ix.def[d].kind \in ClassLike) THEN d ELSE NoSymbol
        Wild(i) == imports[i].kind = "wildcard"
        Included(i) == IF imports[i].kind = "system" THEN NoSymbol ELSE IncludeOf(ix, from, imports[i].module)
    IN  CASE ix.p.lang \in {"go", "rust"} -> InDirectory(ix, DirectoryOf(ix.p, from), Plain)
          [] ix.p.lang = "java" ->
             FirstOf(<<InPackage(ix, ix.p.package[from], n)>> \o
                     [i \in DOMAIN imports |-> IF Wild(i) THEN InPackage(ix, imports[i].module, n) ELSE NoSymbol])
          [] ix.p.lang = "cpp" ->
             FirstOf([i \in DOMAIN imports |-> IF Included(i) = NoSymbol THEN NoSymbol ELSE Find(Included(i))]
                     \o [i \in DOMAIN SetToSeq(Siblings(ix.p, from)) |-> Beside(SetToSeq(Siblings(ix.p, from))[i])])
          [] ix.p.lang = "python" -> LookupInModule(ix, Bound(ix, from, "*", "wildcard"), n)
          [] OTHER -> NoSymbol

ClassOrNone(ix, d) == IF d # NoSymbol /\ ix.def[d].kind \in ClassLike THEN d ELSE NoSymbol

\* The first of these classes that lies in the file nearest to this one.
NearestClass(ix, from, classes) ==
    LET best == BestMatch(ix.p, [i \in DOMAIN classes |-> ix.def[classes[i]].file], from)
    IN  FirstOf(SelectSeq(classes, LAMBDA c : ix.def[c].file = best))

\* What the qualifier of a name says.
ByQualifier(ix, from, of, n) ==
    FirstOf(<<ClassOrNone(ix, LookupInModule(ix, Bound(ix, from, of, "module"), n)),
              IF ix.p.lang = "java" THEN InPackage(ix, of, n) ELSE NoSymbol,
              IF ix.p.lang = "go" THEN ClassOrNone(ix, PackageSymbol(ix, from, of, n)) ELSE NoSymbol>>)

\* The type a name stands for: what the qualifier says, the import, the file, the
\* package, and then the one type of that name or the nearest.
TypeOf(ix, from, type) ==
    IF type.name = NoName THEN NoSymbol
    ELSE FirstOf(<<IF type.of = NoName THEN NoSymbol ELSE ByQualifier(ix, from, type.of, type.name),
                   ClassOrNone(ix, Bound(ix, from, type.name, "symbol")), ClassIn(ix, from, type.name),
                   ClassOrNone(ix, PackageScope(ix, from, type.name, TRUE)),
                   NearestClass(ix, from, Classes(ix, type.name))>>)

-------------------------------------------------------------------------------
(***************************************************************************)
(* Types and their members.                                                *)
(***************************************************************************)
BasesOf(ix, d) ==
    LET found == [i \in DOMAIN ix.def[d].bases |-> TypeOf(ix, ix.def[d].file, ix.def[d].bases[i])]
    IN  SelectSeq(found, LAMBDA b : b \notin {NoSymbol, d})

WithBases(ix) == [ix EXCEPT !.bases = [d \in Range(Which(ix, LAMBDA d : d.kind \in ClassLike)) |-> BasesOf(ix, d)]]

\* A member defined outside of its type belongs to the type; if the type has one of
\* that name the two are one, at the place of the definition.
AttachTo(ix, d, owner, there) ==
    LET def == ix.def[d]
        moved == [ix EXCEPT !.def[d].parent = owner,
                            !.typeAlias = IF def.parent # owner THEN (def.parent :> owner) @@ @ ELSE @]
    IN  IF owner \in {NoSymbol, d} THEN ix
        ELSE IF there \in {NoSymbol, d} THEN [moved EXCEPT !.members = (<<owner, def.name>> :> d) @@ @]
        ELSE IF ix.def[there].declaration /\ ~def.declaration
             THEN [moved EXCEPT !.alias = (d :> there) @@ @, !.def[there].declaration = FALSE,
                                !.def[there].file = def.file]
             ELSE [moved EXCEPT !.alias = (d :> there) @@ @]

Attach(ix, d, owner) == AttachTo(ix, d, owner, At(ix.members, <<owner, ix.def[d].name>>))
AttachOne(ix, d) ==
    IF ix.def[d].kind \notin Callable THEN ix
    ELSE Attach(ix, d, TypeOf(ix, ix.def[d].file, ix.def[d].owner))

\* The definition a prototype stands for: the only one of that name, the one in the
\* file of the same name, or the first.
Implementation(ix, d) ==
    LET all == SelectSeq(Which(ix, LAMBDA e : /\ e.name = ix.def[d].name /\ ~e.declaration
                                              /\ e.kind \in {"function", "method"}), LAMBDA e : e # d)
        paired == SelectSeq(all, LAMBDA e : ix.p.stem[ix.def[e].file] = ix.p.stem[ix.def[d].file])
    IN  IF Len(all) = 1 THEN all[1] ELSE FirstOf(paired \o all)

PairOne(ix, d) ==
    LET def == ix.def[d]
    IN  IF ~def.declaration \/ def.kind \notin {"function", "method"} \/ Implementation(ix, d) = NoSymbol THEN ix
        ELSE [ix EXCEPT !.alias = (d :> Implementation(ix, d)) @@ @]

WithOneNode(ix) ==
    LET attached == FoldLeft(AttachOne, ix, ix.ids)
    IN  IF ix.p.lang = "cpp" THEN FoldLeft(PairOne, attached, attached.ids) ELSE attached

\* The node of a symbol, after up to eight aliases.
RECURSIVE FollowAlias(_, _, _)
FollowAlias(alias, d, steps) ==
    IF d \notin DOMAIN alias \/ steps = 0 THEN d ELSE FollowAlias(alias, alias[d], steps - 1)
Canonical(ix, d) == IF d = NoSymbol THEN NoSymbol ELSE FollowAlias(ix.alias, d, 8)

\* The types as TypeHierarchy reads them, each with its order.
HierarchyOf(ix) ==
    LET known(d) == {ix.def[b].name : b \in Range(ix.bases[d])}
    IN  WithOrders([
            lang |-> ix.p.lang,
            bases |-> [d \in DOMAIN ix.bases |-> SelectSeq(ix.bases[d], LAMBDA b : b \in DOMAIN ix.bases)],
            kind |-> [d \in DOMAIN ix.bases |-> ix.def[d].kind],
            virtual |-> {<<d, b>> \in (DOMAIN ix.bases) \X (DOMAIN ix.bases) :
                            \E t \in ix.def[d].virtual : TypeOf(ix, ix.def[d].file, t) = b},
            unknown |-> {d \in DOMAIN ix.bases : /\ Len(ix.def[d].bases) > Len(ix.bases[d])
                                                 /\ \E t \in Range(ix.def[d].bases) : t.name \notin known(d)}])
WithTypes(ix) == [ix EXCEPT !.types = HierarchyOf(ix)]

Declaring(ix, n) == {c \in DOMAIN ix.bases : <<c, n>> \in DOMAIN ix.members}

\* A member is resolved when the rules of the language leave one owner.
OwnersOf(ix, c, n) ==
    MemberOwners(ix.types, c, IF ix.types.order[c] = NoOrder THEN {}
                              ELSE Declaring(ix, n) \intersect Range(ix.types.order[c]))
OnlyMember(ix, owners, n) ==
    IF Len(owners) = 1 THEN Canonical(ix, ix.members[<<owners[1], n>>]) ELSE NoSymbol
LookupMember(ix, c, n) == OnlyMember(ix, OwnersOf(ix, c, n), n)

\* The answers for every type and name: nothing changes them any more.
WithAnswers(ix) ==
    [ix EXCEPT !.member = [m \in (DOMAIN ix.bases) \X {k[2] : k \in DOMAIN ix.members} |->
                               LookupMember(ix, m[1], m[2])]]

IndexOf(p, order) == WithAnswers(WithTypes(WithOneNode(WithBases(WithBindings(WithMembers(Merged(p, order)))))))
===============================================================================
