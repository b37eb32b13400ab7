------------------------- MODULE MCStaticAnalysis -------------------------
EXTENDS StaticAnalysis

\* Graphs of up to four nodes: diamonds, loops, early edges, endless regions.
FlowEdges ==
    {<<1, 2, FALSE>>, <<2, 3, FALSE>>, <<3, 2, FALSE>>, <<2, 3, TRUE>>, <<1, 3, TRUE>>,
     <<3, 4, FALSE>>, <<1, 4, FALSE>>, <<3, 3, FALSE>>}
FlowFunctions ==
    [edges : SUBSET FlowEdges,
     writes : {(1 :> {"a"}) @@ (2 :> b) @@ (3 :> c) @@ (4 :> {}) : b \in {{"a"}, {"a.f"}}, c \in {{"a"}, {}}},
     weak : SUBSET {<<2, "a">>}]
Fields == {<<"a", "a.f">>}

\* Call graphs over nine calls, two of them between the same routines; the last
\* routine may be out of the depth.
Graphs == SUBSET {<<1, 2, 1>>, <<1, 2, 2>>, <<2, 3, 3>>, <<3, 4, 4>>, <<1, 3, 5>>,
                  <<3, 2, 6>>, <<2, 4, 7>>, <<4, 3, 8>>, <<4, 5, 9>>}
Sinks == {{4}, {3, 4}, {1, 3}, {5}}

\* Statements.
NoTest == [var |-> AnyName, value |-> Unknown]
Is(v, value) == [var |-> v, value |-> value]
Write(v, value, sure) == {[var |-> v, value |-> value, sure |-> sure]}
Plain(id, kind) ==
    [id |-> id, kind |-> kind, body |-> <<>>, alternative |-> <<>>, handlers |-> <<>>,
     finalizer |-> <<>>, catchAll |-> FALSE, calls |-> FALSE, writes |-> {}, test |-> NoTest]
Calling(id, kind) == [Plain(id, kind) EXCEPT !.calls = TRUE]
Writing(id, v, value, sure) == [Plain(id, "step") EXCEPT !.writes = Write(v, value, sure)]
First(value) == [Plain("s", "step") EXCEPT !.writes = Write("x", 1, TRUE) \union Write("p", value, TRUE)]
While(body) == [Plain("l", "loop") EXCEPT !.body = body, !.test = Is("p", 1)]

\* The first statement when "p" is a parameter.
Given == Writing("s", "x", 1, TRUE)

Steps(id) == {Calling(id, "step"), Writing(id, "p", 0, TRUE), Writing(id, "p", Unknown, TRUE),
              Writing(id, "x", 0, FALSE), Calling(id, "return")}
             \union {Plain(id, k) : k \in Leaving}
Perhaps(S) == {<<>>} \union {<<s>> : s \in S}

\* A try block with a branch in it, and a branch behind it.
Tries ==
    {[Plain("t", "try") EXCEPT !.body = <<[Plain("i", "if") EXCEPT !.body = <<b>>, !.test = Is("p", 1)]>>,
                               !.handlers = h, !.catchAll = (c /\ h # <<>>), !.finalizer = f] :
        b \in Steps("b"), c \in BOOLEAN,
        h \in {<<>>, <<(<<>>)>>, << <<Plain("h", "continue")>> >>},
        f \in Perhaps({Plain("f", "step"), Plain("f", "break"), Calling("f", "return")})}
Later == [Plain("q", "if") EXCEPT !.body = <<Plain("y", "step")>>, !.test = Is("p", 0)]

\* A loop with a branch and a write.
Branches ==
    {[Plain("i", "if") EXCEPT !.body = b, !.alternative = a, !.test = t] :
        b \in Perhaps(Steps("b")), a \in Perhaps({Writing("a", "p", 1, TRUE), Plain("a", "break")}),
        t \in {NoTest, Is("p", 0), Is("p", 1)}}
Kills == {Plain("k", "step"), Writing("k", "x", 0, TRUE)}
Loops == {<<Given, While(<<i, k>>), Plain("z", "step")>> : i \in Branches, k \in Kills}

Ask(bodies, points, carried, goal) ==
    {[body |-> b, points |-> points, carried |-> carried, goal |-> goal] : b \in bodies}

Asked ==
    LET closed == {<<First(1), t, Later>> : t \in Tries}
        looped == {<<First(1), While(<<t, Later>>), Plain("z", "step")>> : t \in Tries}
    IN  UNION {Ask(closed, <<"y">>, AnyName, NoTest),
               Ask(looped, <<"b", "q">>, AnyName, NoTest),
               Ask(looped, <<"b", "z">>, AnyName, NoTest),
               Ask(Loops, <<"s", "z">>, "x", NoTest),
               Ask(Loops, <<"b", "k">>, AnyName, NoTest),
               Ask(Loops, <<"i">>, AnyName, Is("x", 0)),
               Ask(Loops, <<"z">>, AnyName, Is("x", 0))}

\* Indexes: constants, copies and choices in a loop, with edges that leave early,
\* jump over a write or come back.
Literal(v) == [kind |-> "literal", value |-> v]
Copy(n) == [kind |-> "name", name |-> n]
Choice(a, b) == [kind |-> "choice", choices |-> {a, b}]
Elsewhere == [kind |-> "unknown"]
IndexBodies ==
    {[edges |-> {<<1, 2, FALSE>>, <<2, 3, FALSE>>, <<3, 4, FALSE>>} \union e, weak |-> w,
      writes |-> <<("i" :> Literal(1)) @@ ("j" :> Literal(0)), "i" :> b, "j" :> c, <<>>>>,
      accesses |-> <<(<<>>), <<>>, <<>>, a>>] :
        e \in SUBSET {<<3, 2, FALSE>>, <<2, 3, TRUE>>, <<1, 3, FALSE>>, <<4, 2, FALSE>>},
        b \in {Literal(2), Copy("j"), Choice(Literal(3), Copy("j")), Elsewhere},
        c \in {Copy("i"), Literal(5)},
        w \in {{}, {2}, {3}}, a \in {<<Copy("i")>>, <<Copy("i"), Copy("j")>>, <<>>}}

\* Values: two names over four nodes, with a loop and ways round it.
ValueEdge(n, from, a, to, b, r) == [no |-> n, from |-> <<from, a>>, to |-> <<to, b>>, reads |-> r]
ValueEdges ==
    {ValueEdge(1, 1, "a", 2, "a", "a"), ValueEdge(2, 1, "a", 3, "a", "a"), ValueEdge(3, 2, "a", 3, "a", "a"),
     ValueEdge(4, 2, "a", 3, "b", "a"), ValueEdge(5, 3, "a", 2, "a", "a"), ValueEdge(6, 3, "a", 4, "b", "a"),
     ValueEdge(7, 3, "b", 4, "b", "b"), ValueEdge(8, 1, "b", 4, "b", "b")}
AskedValues ==
    {q \in [edges : {E \in SUBSET ValueEdges : Cardinality(E) \in 3..5}, reached : {1..4}, start : {1},
            names : {{"a"}, {"a", "b"}}, use : {3, 4}, wanted : {{"b"}, {"a"}}, reads_input : BOOLEAN,
            limit : {1, 2}, states : {1, 3, 20}, probe : BOOLEAN] :
        /\ q.probe \/ q.limit = 1
        /\ q.states = 20 \/ (q.reads_input /\ q.use = 4)}
    \union [edges : {{}}, reached : {1..4, {1}}, start : {3}, names : {{"a"}}, use : {3}, wanted : {{"a"}},
            reads_input : {TRUE}, limit : {1}, states : {20}, probe : BOOLEAN]

\* Routes: f holds the source "fs", the argument "fa" and the result "fr" of its
\* call, a sink "fk" and a return "fx"; g has a parameter "gp", a return "gr", a
\* sink "gk" and calls itself with "ga"; h calls f.
PointsIn(f, points) == [p \in points |-> f]
Home == PointsIn("f", {"fp", "fs", "fa", "fr", "fk", "fx"}) @@ PointsIn("g", {"gp", "gr", "gk", "ga"})
        @@ PointsIn("h", {"hr", "hk", "ha"})
Way(n, from, to, steps, sure) == [no |-> n, from |-> from, to |-> to, steps |-> steps, sure |-> sure]
AlwaysWays == {Way(1, "fs", "fa", 1, TRUE), Way(2, "gp", "gr", 0, TRUE), Way(3, "fr", "fk", 0, TRUE)}
SomeWays ==
    {Way(4, "fs", "fa", 1, FALSE), Way(5, "gp", "gk", 0, TRUE), Way(6, "gp", "ga", 0, TRUE),
     Way(7, "fr", "fx", 0, TRUE), Way(8, "hr", "hk", 0, TRUE), Way(9, "hr", "ha", 0, FALSE),
     Way(10, "fp", "fa", 0, TRUE), Way(11, "fs", "fk", 0, TRUE), Way(12, "fs", "fa", 2, TRUE)}
Call(n, site, arg, param, result, sure, slot) ==
    [no |-> n, site |-> site, arg |-> arg, param |-> param, result |-> result, sure |-> sure, slot |-> slot]
CallSites ==
    {Call(1, "s1", "fa", "gp", "fr", TRUE, TRUE), Call(2, "s2", "ga", "gp", "gr", FALSE, TRUE),
     Call(3, "s3", "ha", "fp", "hr", TRUE, FALSE)}
Overload == Call(4, "s1", "fa", "fp", "fr", FALSE, TRUE)
Border(n, from, to, resume) == [no |-> n, from |-> from, to |-> to, resume |-> resume]
RoutePrograms ==
    [in : {Home}, paths : {AlwaysWays \union m : m \in {w \in SUBSET SomeWays : Cardinality(w) \in 3..4}},
     cuts : {{}, {<<"fs", "fa">>}}, calls : {CallSites, CallSites \union {Overload}},
     returns : {{[at |-> "gr", sure |-> TRUE], [at |-> "fx", sure |-> FALSE]}},
     boundaries : {{}, {Border(1, "gk", "hr", "none")}, {Border(2, "gr", "fr", "s1"), Border(3, "gr", "gp", "s2")}},
     source : {"fs"}, sinks : {{"fk", "gk", "hk"}}]

\* Candidates: three sources in two functions, two or three sinks.
JoinedBy(a, b, c) == (<<1, 1>> :> a) @@ (<<1, 2>> :> b) @@ (<<2, 1>> :> 0) @@ (<<2, 2>> :> c)
ScanOf(sources, sinks, f, j) ==
    [sources |-> sources, sinks |-> sinks, inFunction |-> <<1, 1, 2>>, ofSink |-> <<2, 1, 2>>, flows |-> f, joined |-> j]
SomeScans ==
    {ScanOf(n, m, f, JoinedBy(a, b, c)) :
        n \in {2, 3}, m \in {2, 3}, f \in SUBSET {<<1, 1, 1>>, <<1, 2, 1>>},
        a \in {0, 1}, b \in {0, 2}, c \in {1, 2}}
    \union {ScanOf(0, 2, {}, JoinedBy(1, 2, 1))}
    \union {ScanOf(3, 2, f, JoinedBy(a, 1, c)) :
        f \in {{<<1, 1, 1>>, <<2, 1, 1>>, <<3, 1, 1>>}, {<<1, 1, 1>>, <<1, 2, 2>>, <<2, 1, 1>>, <<3, 1, 1>>, <<2, 2, 2>>}},
        a \in {0, 1}, c \in {1, 2}}

\* Symbols: the parts of a definition, a reference and an import.
Untyped == [of |-> NoName, name |-> NoName, call |-> FALSE]
Typed(n) == [of |-> NoName, name |-> n, call |-> FALSE]
Qualified(q, n) == [of |-> q, name |-> n, call |-> FALSE]
Defined(id, n, kind, parent, file) ==
    [id |-> id, name |-> n, kind |-> kind, parent |-> parent, file |-> file, owner |-> Untyped, bases |-> <<>>,
     virtual |-> {}, type |-> Untyped, returns |-> Untyped, declaration |-> FALSE]
TypeWith(c, file, kind, bases, virtual) ==
    [Defined(c, c, kind, file, file) EXCEPT !.bases = [i \in DOMAIN bases |-> Typed(bases[i])],
                                            !.virtual = {Typed(b) : b \in virtual}]
NoCompiler == [targets |-> {}, reason |-> "none"]
Mention(file, from, class, receiver, n) ==
    [file |-> file, from |-> from, kind |-> "call", name |-> n, receiver |-> receiver, class |-> class, compiler |-> NoCompiler]

\* Type hierarchies of up to four types in one file.
HierarchyProject(lang, bases, kinds, virtual, members) ==
    [lang |-> lang, path |-> ("m" :> <<"m">>), stem |-> ("m" :> "m"), package |-> ("m" :> "k"),
     defs |-> ("m" :> <<TypeWith("A", "m", kinds["A"], bases["A"], virtual), TypeWith("B", "m", kinds["B"], bases["B"], virtual),
                        TypeWith("C", "m", kinds["C"], bases["C"], virtual), TypeWith("D", "m", kinds["D"], bases["D"], virtual),
                        Defined("A.g", "g", "method", "A", "m")>> \o
                        SetToSeq({Defined(c \o ".m", "m", "method", c, "m") : c \in members})),
     imports |-> ("m" :> <<>>), offers |-> <<>>,
     refs |-> <<Mention("m", "A.g", "A", <<"this">>, "m"), Mention("m", "A.g", "A", <<"self">>, "m"),
                Mention("m", "A.g", "A", <<"super">>, "m"), Mention("m", "A.g", "A", <<"B">>, "m")>>,
     variables |-> <<>>]
AllClasses == [c \in {"A", "B", "C", "D"} |-> "class"]
BasesChoice ==
    [A : {<<"B", "C">>, <<"C", "B">>, <<"B", "C", "D">>, <<"B">>}, B : {<<>>, <<"D">>, <<"C">>},
     C : {<<>>, <<"D">>, <<"D", "B">>, <<"Z", "D">>}, D : {<<>>, <<"A">>}]
AsFunction(r) == ("A" :> r.A) @@ ("B" :> r.B) @@ ("C" :> r.C) @@ ("D" :> r.D)
KindsOf(lang) ==
    IF lang = "java" THEN {[AllClasses EXCEPT !["C"] = c, !["D"] = d] : c, d \in {"class", "interface"}}
    ELSE {AllClasses}
VirtualOf(lang) == IF lang = "cpp" THEN {{}, {"D"}} ELSE {{}}
\* In Java a class has one class above it, named first, and an interface has none.
Allowed(lang, bases, kinds) ==
    /\ lang \in {"java", "go"} => bases["D"] = <<>> /\ bases["C"] # <<"D", "B">>
    /\ lang = "java" => \A c \in DOMAIN bases : \A i \in DOMAIN bases[c] :
        bases[c][i] \in DOMAIN kinds /\ kinds[bases[c][i]] = "class" => i = 1 /\ kinds[c] = "class"
Hierarchies ==
    UNION {UNION {{HierarchyProject(lang, AsFunction(b), k, v, m) :
                      b \in {c \in BasesChoice : Allowed(lang, AsFunction(c), k)},
                      v \in VirtualOf(lang), m \in SUBSET {"B", "C", "D"} \ {{}}} : k \in KindsOf(lang)} :
           lang \in {"python", "java", "cpp", "go"}}

\* Three files, two of them of the same name in other directories.
Import(alias, module, symbol, kind) == [alias |-> alias, module |-> module, symbol |-> symbol, kind |-> kind]
FunctionIn(id, n, f) == Defined(id, n, "function", f, f)
MethodIn(id, n, c, f) == Defined(id, n, "method", c, f)
New(file, from, n) == [Mention(file, from, NoSymbol, <<>>, n) EXCEPT !.kind = "new"]
ByCompiler(r, to, why) == [r EXCEPT !.compiler = [targets |-> to, reason |-> why]]
Three == {"a", "b", "c"}
AtPaths(a, b, c) == ("a" :> a) @@ ("b" :> b) @@ ("c" :> c)

Scoped(lang, imports, own, variable, far) ==
    [lang |-> lang, stem |-> [f \in Three |-> f], package |-> AtPaths("p", "p", "q"),
     path |-> AtPaths(<<"p", "a">>, <<"p", "b">>, IF far THEN <<"q", "b">> ELSE <<"p", "c">>),
     offers |-> ("b" :> {"b", "c"}) @@ ("q" :> {"c"}) @@ ("os" :> {}),
     imports |-> AtPaths(imports, <<>>, <<>>),
     defs |-> AtPaths(
        <<TypeWith("A", "a", "class", <<"K">>, {}), MethodIn("A.g", "g", "A", "a"),
          [Defined("A.x", "x", "field", "A", "a") EXCEPT !.type = Typed("K")], FunctionIn("a.h", "h", "a")>>
        \o (IF own THEN <<FunctionIn("a.f", "f", "a")>> ELSE <<>>),
        <<[TypeWith("b.K", "b", "class", <<>>, {}) EXCEPT !.name = "K"], MethodIn("b.K.m", "m", "b.K", "b"),
          [FunctionIn("b.f", "f", "b") EXCEPT !.returns = Typed("K")]>>,
        <<[TypeWith("c.K", "c", "class", <<>>, {}) EXCEPT !.name = "K"], MethodIn("c.K.m", "m", "c.K", "c"), FunctionIn("c.f", "f", "c")>>),
     refs |-> <<New("a", "A.g", "K"), Mention("a", "A.g", "A", <<"this", "x">>, "m"), Mention("a", "A.g", "A", <<"self">>, "m"),
                Mention("a", "a.h", NoSymbol, <<"v">>, "m"), Mention("a", "a.h", NoSymbol, <<"b">>, "f"),
                Mention("a", "a.h", NoSymbol, <<>>, "f"), Mention("a", "a.h", NoSymbol, <<>>, "print"),
                Mention("a", "a.h", NoSymbol, <<"w">>, "append"), Mention("a", "a.h", NoSymbol, <<"K">>, "m"),
                Mention("b", "b.K.m", "b.K", <<>>, "m"),
                ByCompiler(Mention("a", "a.h", NoSymbol, <<>>, "f"), IF far THEN {"b.f"} ELSE {}, "unbound"),
                [Mention("a", "a.h", NoSymbol, <<>>, "K") EXCEPT !.kind = "typeref"]>>,
     variables |-> (<<"a.h", "v">> :> variable)]
ImportChoices ==
    {<<>>, <<Import("K", "b", "K", "symbol")>>, <<Import("b", "b", "none", "module")>>, <<Import("*", "b", "none", "wildcard")>>,
     <<Import("f", "os", "f", "symbol")>>, <<Import("*", "os", "none", "wildcard"), Import("f", "b", "f", "symbol")>>,
     <<Import("K", "q", "K", "symbol"), Import("b", "os", "none", "module")>>}
VariableChoices == {Typed("K"), [Typed("f") EXCEPT !.call = TRUE], [Qualified("b", "f") EXCEPT !.call = TRUE], Untyped}
OwnOrFar == {<<FALSE, FALSE>>, <<TRUE, FALSE>>, <<FALSE, TRUE>>}
ScopedProjects ==
    {Scoped(lang, i, of[1], v, of[2]) : lang \in {"python", "java", "javascript"}, i \in ImportChoices,
        of \in OwnOrFar, v \in VariableChoices}
    \union {Scoped("go", <<Import(alias, path, "none", "module")>>, of[1], v, of[2]) :
        alias \in {"b", "k"}, path \in {"b", "q", "os"}, of \in OwnOrFar, v \in {Typed("K"), Untyped}}

\* A class and a prototype in a header, the bodies elsewhere.
Outside2(d, owner) == [d EXCEPT !.owner = Typed(owner)]
Headers(lang, twice, included, inline, stems, over) ==
    [lang |-> lang, stem |-> stems, package |-> [f \in Three |-> "p"],
     path |-> AtPaths(<<"p", "h">>, <<"p", "b">>, <<"q", "c">>), offers |-> ("h" :> {"a"}),
     imports |-> AtPaths(<<>>, IF included THEN <<Import("h", "h", "none", "module")>> ELSE <<>>,
                               <<Import("h", "h", "none", IF included THEN "module" ELSE "system")>>),
     defs |-> AtPaths(
        <<TypeWith("T", "a", "class", <<>>, {}), [MethodIn("T.m", "m", "T", "a") EXCEPT !.declaration = (lang = "cpp" /\ ~inline)],
          [FunctionIn("a.f", "f", "a") EXCEPT !.declaration = (lang = "cpp")],
          TypeWith("S", "a", "class", <<"T">>, {}), MethodIn("S.m", "m", "S", "a"),
          TypeWith("R", "a", "class", <<"T">>, {})>> \o (IF over THEN <<MethodIn("R.m", "m", "R", "a")>> ELSE <<>>),
        <<[Defined("b.T.m", "m", "method", "b.T", "b") EXCEPT !.owner = Typed("T")], FunctionIn("b.f", "f", "b")>>,
        <<FunctionIn("c.g", "g", "c")>> \o (IF twice THEN <<FunctionIn("c.f", "f", "c")>> ELSE <<>>)),
     refs |-> <<Mention("b", "b.T.m", "b.T", <<"this">>, "m"), Mention("c", "c.g", NoSymbol, <<>>, "f"),
                Mention("c", "c.g", NoSymbol, <<"v">>, "m"), Mention("b", "b.f", NoSymbol, <<"T">>, "m"),
                Mention("c", "c.g", NoSymbol, <<"w">>, "m")>>,
     variables |-> (<<"c.g", "v">> :> Typed("T"))]
HeaderProjects ==
    {Headers(lang, twice, included, inline, stems, over) :
        lang \in {"cpp", "go", "rust"}, twice, included, inline, over \in BOOLEAN,
        stems \in {AtPaths("a", "b", "c"), AtPaths("b", "b", "c"), AtPaths("c", "b", "c")}}
SomeProjects == Hierarchies \union ScopedProjects \union HeaderProjects

\* SomeExpressions and patterns.
ExprOf(kind) == [kind |-> kind, path |-> <<>>, members |-> <<>>, parts |-> <<>>]
ReadVar(v) == [ExprOf("path") EXCEPT !.path = <<v>>]
ReadField(v, k) == [ExprOf("path") EXCEPT !.path = <<v, Field(k)>>]
PutAt(k, e) == [how |-> "written", key |-> k, value |-> e]
PutSomewhere(how, e) == [how |-> how, key |-> UnknownSelector, value |-> e]
ObjectOf(ms) == [ExprOf("object") EXCEPT !.members = ms]
ArrayOf(ms) == [ExprOf("array") EXCEPT !.members = ms]
MadeBy(kind, es) == [ExprOf(kind) EXCEPT !.parts = es]

PatternOf(kind) == [kind |-> kind, name |-> <<>>, inner |-> <<>>, fallback |-> ExprOf("literal"), items |-> <<>>]
IntoName(n) == [PatternOf("name") EXCEPT !.name = <<n>>]
IntoRest(p) == [PatternOf("rest") EXCEPT !.inner = p]
Else(p, e) == [PatternOf("default") EXCEPT !.inner = p, !.fallback = e]
AtKey(k, p) == [key |-> k, pattern |-> p]
ObjectPattern(ms) == [PatternOf("object") EXCEPT !.items = ms]
ArrayPattern(ps) == [PatternOf("array") EXCEPT !.items = [i \in DOMAIN ps |-> AtKey(UnknownSelector, ps[i])]]

SimpleValues == {ReadVar("x"), ReadField("y", "a"), ExprOf("literal"), ExprOf("undefined"), MadeBy("call", <<ReadVar("x")>>)}
SomeMembers == {PutAt(Field("a"), e) : e \in SimpleValues} \union {PutAt(Field("b"), ReadVar("y")), PutSomewhere("spread", ReadVar("y")), PutSomewhere("computed", ReadVar("y"))}
SomeItems(i) == {PutAt(Place(i), ReadVar("x")), PutAt(Place(i), MadeBy("operation", <<ReadVar("x"), ReadField("y", "a")>>)), PutSomewhere("spread", ReadVar("y"))}
SomeExpressions ==
    SimpleValues \union {ObjectOf(<<m, n>>) : m, n \in SomeMembers}
    \union {ArrayOf(<<m, n>>) : m \in SomeItems(0), n \in SomeItems(1)}
    \union {ObjectOf(<<PutAt(Field("a"), ObjectOf(<<PutAt(Field("b"), ReadVar("x"))>>)), m>>) : m \in SomeMembers}
LeafPatterns == {IntoName("p"), Else(IntoName("p"), ReadVar("y")), ObjectPattern(<<AtKey(Field("b"), IntoName("p"))>>)}
SomePatterns ==
    LeafPatterns
    \union {ObjectPattern(<<AtKey(k, p), AtKey(l, q)>>) : k \in {Field("a"), UnknownSelector}, l \in {Field("b")},
                                                    p \in LeafPatterns, q \in {IntoName("q"), IntoRest(IntoName("q"))}}
    \union {ArrayPattern(<<p, q>>) : p \in LeafPatterns \union {PatternOf("hole"), PatternOf("unknown")}, q \in {IntoName("q"), IntoRest(IntoName("q")), IntoRest(ArrayPattern(<<IntoName("q")>>))}}
    \union {ArrayPattern(<<IntoName("p")>>)}
SomeBindings ==
    {[mode |-> "assign", values |-> <<e>>, pattern |-> p] : e \in SomeExpressions, p \in SomePatterns}
    \union {[mode |-> m, values |-> vs, pattern |-> p] :
        m \in {"single", "multiple", "unknown"},
        vs \in {<<>>, <<ReadVar("x")>>, <<ArrayOf(<<PutAt(Place(0), ReadVar("x")), PutAt(Place(1), ReadVar("y"))>>)>>, <<ReadVar("x"), ObjectOf(<<PutAt(Field("b"), ReadVar("y"))>>)>>}, p \in SomePatterns}

\* Operations of the languages.
Pair(a, b) == ArrayOf(<<PutAt(Place(0), a), PutAt(Place(1), b)>>)
Op(lang, how, binds) == [lang |-> lang, how |-> how, binds |-> binds, returned |-> <<>>]
Returning(lang, es, p) == [lang |-> lang, how |-> "return", binds |-> <<Bind(p, ExprOf("none"), FALSE)>>, returned |-> es]
SomeLanguages == {"js", "python", "java", "go", "c", "rust"}
Terms == {ReadVar("x"), ReadField("y", "a"), ExprOf("literal"), MadeBy("call", <<ReadVar("x"), ReadField("y", "a")>>),
          MadeBy("operation", <<ReadVar("x"), MadeBy("call", <<ReadVar("y")>>)>>)}
IntoField == [PatternOf("name") EXCEPT !.name = <<"p", Field("a")>>]
Alike ==
    UNION {{Op(l, how, <<Bind(IntoName("p"), e, FALSE)>>), Op(l, "assign", <<Bind(IntoField, e, FALSE)>>), Op(l, "assign", <<Bind(IntoName("p"), e, TRUE)>>),
     Op(l, "declare", <<Bind(IntoName("p"), e, FALSE), Bind(IntoName("q"), ReadVar("y"), FALSE)>>),
     Op(l, "declare", <<Bind(IntoName("p"), ExprOf("none"), FALSE), Bind(IntoName("q"), e, FALSE)>>)} :
        l \in SomeLanguages, how \in {"declare", "assign"}, e \in Terms}
Parallels ==
    UNION {{Op("go", "short", <<Bind(ArrayPattern(<<IntoName("p"), t>>), v, FALSE)>>),
     Op("go", "declare", <<Bind(ArrayPattern(<<IntoName("p"), t>>), v, FALSE)>>),
     Op("go", "assign", <<Bind(ArrayPattern(<<IntoField, t>>), v, FALSE)>>)} :
        t \in {IntoName("q"), PatternOf("name")},
        v \in {Pair(a, b) : a \in Terms, b \in {ReadVar("x"), ReadVar("y"), ExprOf("literal")}} \union {ReadVar("y"), MadeBy("call", <<ReadVar("x")>>)}}
    \union {Op(l, "declare", <<Bind(ArrayPattern(<<p, IntoName("q")>>), v, FALSE)>>) :
        l \in {"python", "rust"}, p \in {IntoName("p"), ArrayPattern(<<IntoName("p"), IntoName("r")>>)},
        v \in {Pair(a, b) : a \in Terms \union {Pair(ReadVar("y"), ReadVar("x"))}, b \in {ReadVar("y"), ExprOf("literal")}} \union {ReadVar("y"), MadeBy("call", <<ReadVar("x")>>)}}
    \union {Op("python", "assign", <<Bind(p, v, FALSE)>>) :
        p \in {ArrayPattern(<<IntoName("p"), IntoRest(IntoName("q"))>>)},
        v \in {Pair(a, b) : a \in Terms, b \in {ReadVar("y")}} \union {ReadVar("y"), ArrayOf(<<PutAt(Place(0), ReadVar("x")), PutAt(Place(1), ReadVar("y")), PutAt(Place(2), ReadField("y", "a"))>>), MadeBy("call", <<ReadVar("x")>>)}}
    \union {Op("python", "walrus", <<Bind(IntoName("p"), e, FALSE)>>) : e \in Terms \ {ExprOf("literal")}}
JsPatterns ==
    {Op("js", how, <<Bind(p, e, FALSE)>>) : how \in {"declare", "assign"},
        p \in {ArrayPattern(<<IntoName("p"), IntoName("q")>>),
               ObjectPattern(<<AtKey(Field("a"), Else(IntoName("p"), ReadVar("x"))), AtKey(UnknownSelector, IntoRest(IntoName("q")))>>),
               ObjectPattern(<<AtKey(Field("b"), IntoName("p"))>>)},
        e \in {ReadVar("y"), Pair(ReadVar("x"), ReadField("y", "a")), Pair(ReadVar("x"), MadeBy("operation", <<ReadVar("y")>>)),
               ObjectOf(<<PutAt(Field("a"), ReadVar("y")), PutAt(Field("b"), MadeBy("operation", <<ReadVar("x")>>))>>),
               ObjectOf(<<PutAt(Field("b"), ReadVar("x")), PutSomewhere("spread", ReadVar("y"))>>)}}
Returns ==
    {Returning("go", es, p) :
        es \in {<<>>, <<ReadVar("x")>>, <<ReadField("y", "a"), ReadVar("x")>>, <<MadeBy("operation", <<ReadVar("x")>>), ExprOf("literal")>>},
        p \in {IntoName("p"), IntoField, ArrayPattern(<<IntoName("p"), IntoName("q")>>), ArrayPattern(<<PatternOf("name"), IntoName("q")>>), ArrayPattern(<<IntoName("p")>>)}}
    \union {Returning("python", <<e>>, p) :
        e \in {ReadVar("x"), Pair(ReadVar("x"), ReadField("y", "a")), Pair(Pair(ReadVar("x"), ReadVar("y")), ExprOf("literal")), ArrayOf(<<PutAt(Place(0), ReadVar("x")), PutSomewhere("spread", ReadVar("y"))>>), ArrayOf(<<PutSomewhere("spread", ReadVar("y")), PutAt(Place(1), ReadVar("x"))>>), ReadVar("y")},
        p \in {IntoName("p"), ArrayPattern(<<IntoName("p"), IntoName("q")>>), ArrayPattern(<<IntoName("p"), IntoRest(IntoName("q"))>>),
               ArrayPattern(<<ArrayPattern(<<IntoName("p"), IntoField>>), IntoName("q")>>)}}
SomeOperations == Alike \union Parallels \union JsPatterns \union Returns

\* Functions by their statements.
Source1(id, is) == [id |-> id, is |-> is, body |-> <<>>, else |-> <<>>, clauses |-> <<>>, handlers |-> <<>>, final |-> <<>>, calls |-> FALSE]
CallsAs(s) == [s EXCEPT !.calls = TRUE]
WithBody(id, is, body) == [Source1(id, is) EXCEPT !.body = body]
Clause(id, body) == [id |-> id, body |-> body, calls |-> TRUE]
HandlerFor(id, names, all, body) == [id |-> id, names |-> names, all |-> all, body |-> body]
LeavesFor(id, kinds) == {CallsAs(Source1(id, "op"))} \union {Source1(id, k) : k \in kinds}
BranchesFor(kinds) ==
    {[WithBody("i", "if", <<a>>) EXCEPT !.else = e] : a \in LeavesFor("a", kinds), e \in {<<>>, <<Source1("e", "op")>>}}
Elifs(kinds) == {[WithBody("i", "if", <<Source1("a", "op")>>) EXCEPT !.clauses = <<Clause("c", <<b>>), Clause("d", <<>>)>>, !.else = e] :
                   b \in LeavesFor("b", kinds), e \in {<<>>, <<Source1("e", "op")>>}}
SourceLoops(kinds, loops) ==
    {<<WithBody("l", l, <<c>>), Source1("z", "op")>> : l \in loops, c \in BranchesFor(kinds \union {"break", "continue"})}
SourceTries(lang, kinds) ==
    {<<[WithBody("t", "try", <<b, Source1("o", "op")>>) EXCEPT !.handlers = h, !.final = f], Source1("z", "op")>> :
        b \in LeavesFor("b", kinds) \union {WithBody("w", w, <<CallsAs(Source1("v", "op"))>>) : w \in HeadersOf(lang)} \union BranchesFor({"return"}),
        h \in {<<>>, <<HandlerFor("h", TRUE, FALSE, <<Source1("g", "op")>>)>>, <<HandlerFor("h", TRUE, FALSE, <<>>), HandlerFor("j", FALSE, TRUE, <<CallsAs(Source1("k", "op"))>>)>>},
        f \in {<<>>, <<CallsAs(Source1("f", "op"))>>}}
LoopedTries(loops) ==
    {<<WithBody("l", l, <<[WithBody("t", "try", <<b>>) EXCEPT !.handlers = <<HandlerFor("h", FALSE, TRUE, <<Source1("g", k)>>)>>, !.final = <<Source1("f", "op")>>]>>), Source1("z", "op")>> :
        l \in loops, b \in LeavesFor("b", {"break", "continue"}), k \in {"op", "break", "return"}}
For(lang, S) == {[lang |-> lang, statements |-> ss] : ss \in S}
SomeFunctions ==
    UNION {For(lang, SourceLoops({"return"}, {"while", "for", "each", "do", "forever"})
                     \union {<<WithBody("k", k, <<c>>), Source1("z", "op")>> : k \in {"block", "switch", "labeled"}, c \in BranchesFor({"return"})}) : lang \in Languages}
    \union UNION {For(lang, SourceTries(lang, {"return", "throw"}) \union LoopedTries({"while", "each"})) : lang \in {"java", "js", "python"}}
    \union For("python", {<<[WithBody("t", "try", <<c>>) EXCEPT !.handlers = <<HandlerFor("h", FALSE, FALSE, <<>>)>>], Source1("z", "op")>> : c \in Elifs({"return"})} \union {<<c, Source1("z", "op")>> : c \in Elifs({"return"})}
                         \union {<<[WithBody("l", l, <<c>>) EXCEPT !.else = <<Source1("y", "op")>>], Source1("z", "op")>> : l \in {"while", "each"}, c \in Elifs({"break", "continue"})})

\* Files by their syntax.
NoValue == [is |-> "none", of |-> "", name |-> ""]
ValueIn(is, of, name) == [is |-> is, of |-> of, name |-> name]
SyntaxNode(at, is, name) ==
    [at |-> at, is |-> is, name |-> name, names |-> <<>>, of |-> "", type |-> <<>>, value |-> NoValue, values |-> <<>>,
     bases |-> <<>>, implements |-> <<>>, virtual |-> <<>>, result |-> <<>>, opaque |-> FALSE, bound |-> FALSE, fails |-> "no", body |-> <<>>]
WithChildren(n, body) == [n EXCEPT !.body = body]
CallAt(at, of) == [SyntaxNode(at, "call", "go") EXCEPT !.of = of]
FileOf(lang, body) == [lang |-> lang, root |-> WithChildren(SyntaxNode("0", "block", ""), body)]
ScopeOf(at, is, name, of, body) == [WithChildren(SyntaxNode(at, is, name), body) EXCEPT !.of = of]
OfType(at, is, name, type) == [SyntaxNode(at, is, name) EXCEPT !.names = <<name>>, !.type = type]
Valued(n, v) == [n EXCEPT !.value = v, !.values = <<v>>]
BasedOn(n, bases) == [n EXCEPT !.bases = bases]
OnceFailing(n) == {[n EXCEPT !.fails = f] : f \in {"no", "early", "late"}}
Bodiless(n) == [n EXCEPT !.opaque = TRUE]

MadeValues == {NoValue, ValueIn("new", "", "A"), ValueIn("call", "", "make"), ValueIn("call", "A", "new")}
Locals(at, is) == {Valued(OfType(at, is, "v", t), v) : t \in {<<>>, <<"B">>}, v \in MadeValues}

PythonInner ==
    {<<d, CallAt("c1", "v")>> : d \in {[l EXCEPT !.names = <<>>] : l \in Locals("d", "variable")}}
    \union {<<OfType("p", "param", "v", <<"A">>), ScopeOf("g", "function", "g", "self", <<[OfType("d", "variable", "v", <<"B">>) EXCEPT !.names = <<>>], CallAt("c1", "v")>>), CallAt("c2", "v")>>,
            <<ScopeOf("K", "class", "K", "", <<CallAt("c1", ""), ScopeOf("km", "function", "m", "self", <<CallAt("c2", "self")>>)>>), CallAt("c3", "")>>,
            <<[OfType("d", "variable", "x", <<"A">>) EXCEPT !.of = "self", !.names = <<>>], CallAt("c1", "self")>>}
PythonFiles ==
    {FileOf("python", <<BasedOn(ScopeOf("A", "class", "A", "", <<f>> \o <<CallAt("c4", "")>>), <<"B">>), CallAt("c5", "")>>) :
        f \in UNION {OnceFailing(ScopeOf("m", "function", "m", of, i)) : of \in {"self", "x"}, i \in PythonInner}}
    \union {FileOf("python", <<g, ScopeOf("m2", "function", "m", "", <<CallAt("c6", "")>>)>>) : g \in {ScopeOf("m", "function", "m", "self", i) : i \in PythonInner}}
    \union {FileOf("python", <<BasedOn(SyntaxNode("A", "class", "A"), <<"B">>), BasedOn(SyntaxNode("A2", "class", "A"), <<"C", "B">>)>>)}

JavaInner ==
    {<<d, CallAt("c1", "v")>> : d \in Locals("d", "variable") \union {Valued(OfType("d", "variable", "v", <<"var">>), v) : v \in MadeValues}}
    \union {<<WithChildren(SyntaxNode("l", "lambda", ""), <<OfType("p", "param", "v", <<"A">>), CallAt("c1", "v")>>), CallAt("c2", "v")>>,
            <<ScopeOf("K", "class", "K", "", <<ScopeOf("km", "method", "m", "", <<CallAt("c2", "this")>>)>>), CallAt("c3", "")>>,
            <<SyntaxNode("s", "initializer", "super"), SyntaxNode("w", "new", "A")>>}
JavaFiles ==
    {FileOf("java", <<[BasedOn(ScopeOf("A", k, "A", "", <<WithChildren(OfType("f", "field", "f", <<"B", "*">>), <<WithChildren(SyntaxNode("fl", "lambda", ""), <<CallAt("c4", "")>>)>>), SyntaxNode("e", "enumerator", "E")>> \o <<f>>), <<"B">>) EXCEPT !.implements = <<"I">>]>>) :
        k \in {"class", "enum", "interface"}, f \in UNION {OnceFailing(ScopeOf("m", is, "m", "", i)) : is \in {"method", "constructor"}, i \in JavaInner}}
    \union {FileOf("java", <<ScopeOf("A", "class", "A", "", <<ScopeOf("m", "method", "m", "", <<OfType("p", "param", "v", <<"A">>), CallAt("c1", "v")>>), ScopeOf("m2", "method", "m", "", <<OfType("p2", "param", "v", t), CallAt("c2", "v")>>)>>)>>) : t \in {<<"A">>, <<"B">>}}

JsInner ==
    {<<d, CallAt("c1", "v")>> : d \in Locals("d", "variable")}
    \union {<<[SyntaxNode("l", "lambda", name) EXCEPT !.body = <<OfType("p", "param", "v", <<"A">>), CallAt("c1", "v")>>], CallAt("c2", "v")>> : name \in {"", "g"}}
    \union {<<[Valued(SyntaxNode("b", "variable", "h"), ValueIn("function", "", "")) EXCEPT !.body = <<[SyntaxNode("l", "lambda", "") EXCEPT !.bound = TRUE, !.body = <<Valued(OfType("d", "variable", "v", <<>>), ValueIn("new", "", "A")), CallAt("c1", "v")>>]>>], CallAt("c2", "h")>>,
            <<WithChildren(SyntaxNode("al", "alias", "T"), <<CallAt("c1", "")>>), WithChildren(SyntaxNode("en", "enum", "E"), <<CallAt("c2", "")>>)>>,
            <<ScopeOf("K", "class", "K", "", <<ScopeOf("km", "method", "constructor", "", <<CallAt("c2", "this")>>)>>), CallAt("c3", "")>>}
JsFiles ==
    {FileOf("javascript", <<BasedOn(ScopeOf("A", k, "A", "", <<Valued(SyntaxNode("f", "field", "f"), ValueIn("new", "", "B")), f, CallAt("c4", "")>>), <<"B">>), CallAt("c5", "")>>) :
        k \in {"class", "interface"}, f \in UNION {OnceFailing(ScopeOf("m", "method", "m", "", i)) : i \in JsInner}}
    \union {FileOf("javascript", <<ScopeOf("m", "function", "m", "", i), CallAt("c6", "")>> \o i2) : i \in JsInner, i2 \in {<<>>}}
    \union {FileOf("javascript", i) : i \in JsInner}

GoInner ==
    {<<d, CallAt("c1", "v")>> : d \in Locals("d", "variable")}
    \union {<<[SyntaxNode("d", "short", "") EXCEPT !.names = <<"v", "w">>, !.values = vs], CallAt("c1", "w")>> :
               vs \in {<<v>> : v \in MadeValues} \union {<<v, ValueIn("new", "", "B")>> : v \in MadeValues}}
    \union {<<[SyntaxNode("l", "lambda", "") EXCEPT !.body = <<OfType("p", "param", "v", <<"A">>), CallAt("c1", "v")>>], CallAt("c2", "v")>>}
GoFiles ==
    {FileOf("go", <<ScopeOf("A", k, "A", "", <<m>>), f, CallAt("c5", "")>>) :
        k \in {"struct", "interface"},
        m \in {[SyntaxNode("e", "field", "") EXCEPT !.type = <<"B", "*">>], OfType("e", "field", "f", <<"B">>), SyntaxNode("e", "prototype", "m")},
        f \in {ScopeOf("m", "function", "m", "", i) : i \in GoInner}
              \union UNION {OnceFailing([ScopeOf("m", "method", "m", of, i) EXCEPT !.type = <<"A", "*">>]) : of \in {"", "a"}, i \in GoInner}}
    \union {FileOf("go", <<[SyntaxNode("T", "alias", "T") EXCEPT !.type = <<"A">>], OfType("d", k, "v", <<"A">>), CallAt("c1", "v")>>) : k \in {"variable", "constant"}}

CInner ==
    {<<d, CallAt("c1", "v")>> : d \in Locals("d", "variable")}
    \union {<<WithChildren(OfType("p", "param", "v", <<"A", "*">>), <<CallAt("c9", "")>>), Bodiless(SyntaxNode("o", "struct", "A")), CallAt("c1", "v")>>}
CRecords(at) ==
    {BasedOn(ScopeOf(at, "struct", name, "", m), bs) : name \in {"", "A"}, bs \in {<<>>, <<"B">>},
        m \in {<<>>, <<OfType("f", "field", "f", <<"B", "*">>), SyntaxNode("g", "member", "m")>>}}
CFiles ==
    {FileOf(lang, <<t, ScopeOf("m", "function", "m", "", i), SyntaxNode("n", "prototype", "m")>>) : lang \in {"c", "cpp"}, i \in CInner,
        t \in {WithChildren(SyntaxNode("t", "typedef", "T"), <<r>>) : r \in CRecords("r") \union {Bodiless(SyntaxNode("r", "struct", "A"))}}
              \union {[SyntaxNode("t", "typedef", "T") EXCEPT !.type = <<"A">>]}}
    \union {FileOf("c", <<WithChildren(SyntaxNode("t", "typedef", "T"), <<r>>), BasedOn(ScopeOf("q", "struct", name, "", <<CallAt("c1", "")>>), <<"C">>)>>) :
        r \in CRecords("r") \union {Bodiless(SyntaxNode("r", "struct", "A"))}, name \in {"", "A", "B"}}
    \union {FileOf("cpp", <<ScopeOf("N", "namespace", name, "", <<[BasedOn(ScopeOf("A", "class", "A", "", <<SyntaxNode("g", k, "m"), h>>), <<"B">>) EXCEPT !.virtual = <<"B">>], ScopeOf("u", "function", "m", of, i)>>), CallAt("c6", "")>>) :
        name \in {"N"}, k \in {"member", "prototype"}, of \in {"", "A"}, i \in CInner,
        h \in OnceFailing(ScopeOf("h", "function", "h", "", <<CallAt("c3", "this"), SyntaxNode("w", "new", "B")>>))}
    \union {FileOf("cpp", <<SyntaxNode("g", "prototype", "m"), ScopeOf("m", "function", "m", "", <<CallAt("c1", "")>>), SyntaxNode("x", "macro", "X")>>)}

RustInner ==
    {<<[l EXCEPT !.names = <<>>], CallAt("c1", "v")>> : l \in Locals("d", "variable")}
    \union {<<OfType("p", "param", "v", <<"A", "*">>), ScopeOf("g", "function", "g", "", <<CallAt("c1", "v"), SyntaxNode("x", "macro", "print")>>), CallAt("c2", "self")>>,
            <<OfType("k", "constant", "K", <<"A">>), [SyntaxNode("w", "new", "A") EXCEPT !.of = "a"]>>}
RustFiles ==
    {FileOf("rust", <<WithChildren(SyntaxNode("A", k, "A"), <<OfType("f", "field", "f", <<"B">>)>>), ScopeOf("i", "impl", "A", of, <<f, CallAt("c4", "")>>), CallAt("c5", "")>>) :
        k \in {"struct", "union"}, of \in {"", "T"}, f \in UNION {OnceFailing(ScopeOf("m", "function", "m", "", i)) : i \in RustInner}}
    \union {FileOf("rust", <<ScopeOf("N", "namespace", "N", "", <<BasedOn(ScopeOf("t", "trait", "T", "", <<SyntaxNode("s", "prototype", "m"), f>>), <<"B">>)>>),
                             Bodiless(SyntaxNode("o", "namespace", "O")), WithChildren(SyntaxNode("e", "enum", "E"), <<SyntaxNode("ev", "enumerator", "V")>>)>>) :
        f \in {ScopeOf("m", "function", "m", "", i) : i \in RustInner}}

SomeSources == PythonFiles \union JavaFiles \union JsFiles \union GoFiles \union CFiles \union RustFiles
===============================================================================
