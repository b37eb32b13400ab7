----------------------------- MODULE ControlFlow -----------------------------
(***************************************************************************)
(* The control-flow graph of a structured function (program_graph/passes/  *)
(* cfg.py): fragments composed statement by statement, and one copy of a   *)
(* finally block shared by everything that runs into it, where an edge in  *)
(* pushes the reason as a token and an edge out pops it.                   *)
(*                                                                         *)
(* A statement is a record: id, kind ("step", "if", "loop", "try" or a way *)
(* of leaving), body, alternative, finalizer (sequences), handlers, and    *)
(* catchAll, calls, writes, test.  A node is a non-empty tuple: <<id>>, or *)
(* longer for the node that resumes what a finally block put off.          *)
(*                                                                         *)
(* Lists of exits are sets: the order of edges is not modelled.  Edges are *)
(* not deduplicated here; OneEdgePerKey says the code never drops one.     *)
(***************************************************************************)
EXTENDS Integers, Sequences, FiniteSets, SequencesExt

Leaving == {"break", "continue", "return", "throw"}

NoNode == <<>>
EntryNode == <<"entry">>
ExitNode == <<"exit">>
NoToken == <<>>

Edge(from, to, branch) ==
    [from |-> from, to |-> to, branch |-> branch, push |-> NoToken, pop |-> {}, before |-> FALSE]

\* What was thrown at a node leaves before its writes, unless it is a throw.
Thrown(from, to, kinds) == [Edge(from, to, "exception") EXCEPT !.before = kinds[from] # "throw"]

\* _Fragment, with the nodes (their kinds and statements) and edges made so far.
NoLeaves == [k \in Leaving |-> {}]
EmptyFragment ==
    [entry |-> NoNode, normal |-> {}, leaves |-> NoLeaves, edges |-> {},
     kinds |-> <<>>, statements |-> <<>>]

Joined(f, g) == [n \in DOMAIN f \union DOMAIN g |-> IF n \in DOMAIN f THEN f[n] ELSE g[n]]

\* What fragments made together: their ways of leaving, edges and nodes.
Both(a, b) ==
    [leaves |-> [k \in Leaving |-> a.leaves[k] \union b.leaves[k]],
     edges |-> a.edges \union b.edges,
     kinds |-> Joined(a.kinds, b.kinds), statements |-> Joined(a.statements, b.statements)]

Fragment(entry, normal, parts, leaves, edges) ==
    [entry |-> entry, normal |-> normal, leaves |-> leaves, edges |-> parts.edges \union edges,
     kinds |-> parts.kinds, statements |-> parts.statements]

\* The exits of a node whose branch runs a fragment, and the edge into it.
Through(node, branch, frag) ==
    IF frag.entry = NoNode THEN {<<node, branch>>} ELSE frag.normal
Enter(node, branch, frag) ==
    IF frag.entry = NoNode THEN {} ELSE {Edge(node, frag.entry, branch)}
Connect(exits, target) == {Edge(e[1], target, e[2]) : e \in exits}

\* The fragment of one node; in a try block a call may throw.
Single(s, kind, guarded) ==
    LET node == <<s.id>>
        normal == IF kind \in Leaving THEN {} ELSE {<<node, "normal">>}
        thrown == IF kind = "throw" \/ (guarded /\ s.calls) THEN {node} ELSE {}
    IN  [EmptyFragment EXCEPT
            !.entry = node, !.normal = normal,
            !.leaves = [k \in Leaving |-> IF k = "throw" THEN thrown
                                          ELSE IF k = kind THEN {node} ELSE {}],
            !.kinds = node :> kind, !.statements = node :> s]

\* _sequence: nodes behind a statement that never ends normally stay, unreached.
Followed(a, rest, both) ==
    IF a.normal = {} THEN Fragment(a.entry, {}, both, a.leaves, {})
    ELSE Fragment(a.entry, rest.normal, both, both.leaves, Connect(a.normal, rest.entry))
Then(a, rest) == IF rest.entry = NoNode THEN a ELSE Followed(a, rest, Both(a, rest))

-------------------------------------------------------------------------------
\* _finally: every pending exit of the fragment enters the finalizer with its
\* own token and resumes at its own node behind it; leaving the finalizer
\* drops whatever token brought it there.
Resume(s, kind, node) == node \o <<s.id, kind>>

Pending(frag) ==
    {[kind |-> "normal", node |-> e[1], branch |-> e[2]] : e \in frag.normal}
    \union UNION {{[kind |-> k, node |-> n, branch |-> IF k = "throw" THEN "exception" ELSE "normal"] :
                      n \in frag.leaves[k]} : k \in Leaving}

\* slip: one token for all that runs into the block.
TokenOfBlock(s, p) == <<s.id>>

TokenOf(s, p) == <<s.id, p.kind, p.node>>

Suspend(s, p, frag, final) ==
    [Edge(p.node, final.entry, p.branch) EXCEPT
        !.push = TokenOf(s, p), !.before = p.kind = "throw" /\ frag.kinds[p.node] # "throw"]

Continuations(s, p, final) ==
    {[Edge(e[1], Resume(s, p.kind, p.node), e[2]) EXCEPT !.pop = {TokenOf(s, p)}] : e \in final.normal}

Override(s, k, n, final, tokens) ==
    [Edge(n, Resume(s, k, n), IF k = "throw" THEN "exception" ELSE "normal") EXCEPT
        !.pop = tokens, !.before = k = "throw" /\ final.kinds[n] # "throw"]

FinallyOf(s, frag, final, parts) ==
    LET pending == Pending(frag)
        tokens == {TokenOf(s, p) : p \in pending}
        overrides == UNION {{<<k, n>> : n \in final.leaves[k]} : k \in Leaving}
        resumed == {<<p.kind, Resume(s, p.kind, p.node)>> : p \in pending}
                   \union {<<o[1], Resume(s, o[1], o[2])>> : o \in overrides}
        kindOf(n) == (CHOOSE r \in resumed : r[2] = n)[1]
        nodes == {r[2] : r \in resumed}
    IN  [entry |-> frag.entry,
         normal |-> {<<r[2], "normal">> : r \in {r \in resumed : r[1] = "normal"}},
         leaves |-> [k \in Leaving |-> {r[2] : r \in {r \in resumed : r[1] = k}}],
         edges |-> parts.edges \union {Suspend(s, p, frag, final) : p \in pending}
                   \union UNION {Continuations(s, p, final) : p \in pending}
                   \union {Override(s, o[1], o[2], final, tokens) : o \in overrides},
         kinds |-> Joined([n \in nodes |-> kindOf(n)], parts.kinds),
         statements |-> parts.statements]
Finally(s, frag, final) == IF final.entry = NoNode THEN frag ELSE FinallyOf(s, frag, final, Both(frag, final))

-------------------------------------------------------------------------------
\* What the parts of a compound statement leave besides its normal exits.
Parted(s, parts, guarded) ==
    LET head == Single(s, IF s.kind = "try" THEN "try" ELSE "condition",
                       guarded /\ s.kind # "try")
    IN  Both(head, parts)

If(s, guarded, then, else) ==
    LET parts == Parted(s, Both(then, else), guarded)
        node == <<s.id>>
    IN  Fragment(node, Through(node, "true", then) \union Through(node, "false", else), parts,
                 parts.leaves, Enter(node, "true", then) \union Enter(node, "false", else))

\* Jumps of the body stay in the loop; those of the else block leave it.
Loop(s, guarded, body, else) ==
    LET parts == Parted(s, Both(body, else), guarded)
        node == <<s.id>>
        again == IF body.entry = NoNode THEN {Edge(node, node, "true")}
                 ELSE {Edge(e[1], node, IF e[2] \in {"true", "false"} THEN e[2] ELSE "back") : e \in body.normal}
                      \union {Edge(n, node, "continue") : n \in body.leaves["continue"]}
    IN  Fragment(node,
                 Through(node, "false", else) \union {<<n, "break">> : n \in body.leaves["break"]},
                 parts,
                 [parts.leaves EXCEPT !["break"] = else.leaves["break"],
                                      !["continue"] = else.leaves["continue"]],
                 Enter(node, "true", body) \union Enter(node, "false", else) \union again)

\* An empty handler gets a node of its own.
HandlerOf(s, i, frag) ==
    LET node == <<s.id, "handler", i>>
    IN  IF frag.entry # NoNode THEN frag
        ELSE [EmptyFragment EXCEPT !.entry = node, !.normal = {<<node, "normal">>},
                                   !.kinds = node :> "step"]

\* A throw of the body may reach every handler, and goes on unless one of them
\* catches all; throws of the handlers and of the else block go on.
Tried(s, body, handlers, else, caught, parts) ==
    LET node == <<s.id>>
        ends == IF body.entry = NoNode THEN {<<node, "normal">>} ELSE body.normal
        ok == IF else.entry = NoNode THEN ends ELSE else.normal
        throws == (IF s.catchAll THEN {} ELSE body.leaves["throw"])
                  \union caught.leaves["throw"] \union else.leaves["throw"]
    IN  Fragment(node,
                 ok \union UNION {handlers[i].normal : i \in DOMAIN handlers}, parts,
                 [parts.leaves EXCEPT !["throw"] = throws],
                 Enter(node, "normal", body)
                 \union (IF else.entry = NoNode THEN {} ELSE Connect(ends, else.entry))
                 \union {Thrown(n, handlers[i].entry, body.kinds) :
                            n \in body.leaves["throw"], i \in DOMAIN handlers})

Caught(handlers) == FoldSeq(Both, EmptyFragment, handlers)
Try(s, guarded, body, handlers, else, final) ==
    Finally(s, Tried(s, body, handlers, else, Caught(handlers),
                     Parted(s, Both(body, Both(Caught(handlers), else)), guarded)), final)

RECURSIVE Statement(_, _)
RECURSIVE Sequence(_, _)
Sequence(statements, guarded) ==
    IF statements = <<>> THEN EmptyFragment
    ELSE Then(Statement(Head(statements), guarded), Sequence(Tail(statements), guarded))

Statement(s, guarded) ==
    CASE s.kind = "if" ->
            If(s, guarded, Sequence(s.body, guarded), Sequence(s.alternative, guarded))
      [] s.kind = "loop" ->
            Loop(s, guarded, Sequence(s.body, guarded), Sequence(s.alternative, guarded))
      [] s.kind = "try" ->
            Try(s, guarded, Sequence(s.body, TRUE),
                [i \in DOMAIN s.handlers |-> HandlerOf(s, i, Sequence(s.handlers[i], TRUE))],
                Sequence(s.alternative, TRUE), Sequence(s.finalizer, TRUE))
      [] OTHER -> Single(s, s.kind, guarded)

\* build: the edges and statements of a function.
GraphOf(body) ==
    LET leave(k) == {Edge(n, ExitNode, k) : n \in body.leaves[k]}
    IN  [edges |->
            body.edges
            \union (IF body.entry = NoNode THEN {Edge(EntryNode, ExitNode, "normal")}
                    ELSE {Edge(EntryNode, body.entry, "normal")} \union Connect(body.normal, ExitNode))
            \union UNION {leave(k) : k \in Leaving \ {"throw"}}
            \union {Thrown(n, ExitNode, body.kinds) : n \in body.leaves["throw"]},
         statements |-> body.statements]
Graph(statements) == GraphOf(Sequence(statements, FALSE))

===============================================================================
