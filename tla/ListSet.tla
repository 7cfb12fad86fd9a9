------------------------------- MODULE ListSet -------------------------------
(***************************************************************************)
(* What the list-based sets have in common: nodes in the order of their    *)
(* keys between two sentinels, and links with a mark, which says that the  *)
(* node of the link has been removed.                                      *)
(***************************************************************************)
EXTENDS LockFree

CONSTANT Filled     \* bound: the keys that have been added at the start, in order

Link(a) == [to |-> a, mark |-> FALSE]
Marked(l) == [l EXCEPT !.mark = TRUE]
PoisonLink == [to |-> Poison, mark |-> TRUE]
NewNode(k, a) == [key |-> k, next |-> Link(a)]

\* The sentinels are the first two nodes.
HeadNode == 1
TailNode == 2

Links(a) == {node[a].next.to}
Locals == [prev |-> Null, curr |-> Null, next |-> Link(Null), new |-> Null,
           then |-> "found"]
Held(t) == IF At(t, "idle") THEN {}
           ELSE {loc[t].prev, loc[t].curr, loc[t].next.to, loc[t].new}
Live == Reach({root.head, root.tail} \cup UNION {Held(t) : t \in Threads}, Links)

\* The constructor, and addAll() of Filled.
Init ==
    LET n == Len(Filled)
    IN  /\ Start({Filled[i] : i \in 1 .. n})
        /\ mem = [a \in Addr |-> IF a <= n + 2 THEN "used" ELSE "none"]
        /\ node = [a \in Addr |->
                     CASE a = HeadNode -> NewNode(Null, IF n = 0 THEN TailNode ELSE 3)
                       [] a \in 3 .. n+2 -> NewNode(Filled[a-2], IF a = n+2 THEN TailNode ELSE a+1)
                       [] OTHER -> NewNode(Null, Null)]
        /\ root = [head |-> HeadNode, tail |-> TailNode]

CallOf(t, op, l) == Call(t, op, l, Locals) /\ UNCHANGED <<heap, mm>>
Set(t, x, v) == loc' = [loc EXCEPT ![t][x] = v]
Quiet == UNCHANGED <<heap, mm, monitor>>

\* A CAS of the link of node a: what it does, and where t goes.
CasNext(t, from, a, old, new, success, failure) ==
    /\ Step(t, from, IF node[a].next = old THEN success ELSE failure)
    /\ node' = IF node[a].next = old THEN [node EXCEPT ![a].next = new] ELSE node
    /\ UNCHANGED <<root, mm>>

\* The node that t has found has the key of its call.
Has(t, a) == a # root.tail /\ node[a].key = call[t].arg

\* The keys of the nodes that are not marked.
Contents ==
    LET C[a \in Addr] ==
          IF a = root.tail THEN {}
          ELSE C[node[a].next.to]
               \cup IF a = root.head \/ node[a].next.mark THEN {} ELSE {node[a].key}
    IN  C[root.head]
=============================================================================
