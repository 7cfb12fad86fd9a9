---------------------------- MODULE TreiberStack ----------------------------
(***************************************************************************)
(* stacks/TreiberStack.hpp and stacks/TreiberStackOrcGC.hpp: a list of     *)
(* nodes, head first, that ends in a sentinel.                             *)
(***************************************************************************)
EXTENDS LockFree

Links(a) == {node[a].next}
Locals == [head |-> Null, next |-> Null, new |-> Null]
Held(t) == IF At(t, "idle") THEN {} ELSE {loc[t].head, loc[t].next, loc[t].new}
Live == Reach({root.head} \cup UNION {Held(t) : t \in Threads}, Links)

\* The constructor.  The member sentinel of the OrcGC variant is never
\* initialized: it has what was in memory, nullptr or some other value.
Unspecified == -4
Init ==
    /\ Start(<<>>)
    /\ mem = [a \in Addr |-> IF a = 1 THEN "used" ELSE "none"]
    /\ node = [a \in Addr |-> [item |-> Null, next |-> Null]]
    /\ \E s \in IF orc THEN {Null, Unspecified} ELSE {1} :
         root = [head |-> 1, sentinel |-> s]

\* push() up to its first load of head.
Push(t) ==
    \E a \in Free(Live) :
        /\ Call(t, "push", "push_cas", [head |-> root.head, next |-> Null, new |-> a])
        /\ Allocate({a})
        /\ node' = [node EXCEPT ![a] = [item |-> call'[t].arg, next |-> root.head]]
        /\ UNCHANGED root

PushCas(t) ==
    /\ At(t, "push_cas") /\ root.head = loc[t].head
    /\ root' = [root EXCEPT !.head = loc[t].new]
    /\ Return(t, True)
    /\ UNCHANGED <<node, mm>>

\* The CAS fails and has loaded head; the OrcGC variant then loads it again,
\* which is joined to it.
PushRetry(t) ==
    /\ At(t, "push_cas") /\ root.head # loc[t].head
    /\ loc' = [loc EXCEPT ![t].head = root.head]
    /\ node' = [node EXCEPT ![loc[t].new].next = root.head]
    /\ UNCHANGED <<root, mm, pc, monitor>>

Pop(t) == Call(t, "pop", "pop_head", Locals) /\ UNCHANGED <<heap, mm>>

PopHead(t) ==
    Load(t, "pop_head", root.head, "head", 0,
         IF root.head = root.sentinel THEN "pop_empty" ELSE "pop_next")

PopEmpty(t) ==
    At(t, "pop_empty") /\ Return(t, Null) /\ Release(t, {}) /\ UNCHANGED heap

\* The node is in the stack when it is read, or the CAS will fail.
PopNext(t) ==
    /\ At(t, "pop_next") /\ Goto(t, "pop_cas")
    /\ loc' = [loc EXCEPT ![t].next = node[loc[t].head].next]
    /\ UNCHANGED <<heap, mm, monitor>>

\* Mutant: the result of the CAS is not looked at.
PopCasUnchecked(t) ==
    /\ Step(t, "pop_cas", "pop_item")
    /\ CasRoot("head", loc[t].head, loc[t].next)
    /\ UNCHANGED <<node, mm>>

PopCas(t) ==
    /\ At(t, "pop_cas")
    /\ IF root.head = loc[t].head
       THEN root' = [root EXCEPT !.head = loc[t].next] /\ Goto(t, "pop_item")
       ELSE UNCHANGED root /\ Goto(t, "pop_head")
    /\ UNCHANGED <<node, mm, loc, monitor>>

\* The node is poisoned, or retired.
PopItem(t) ==
    /\ At(t, "pop_item")
    /\ Return(t, node[loc[t].head].item)
    /\ IF orc THEN node' = [node EXCEPT ![loc[t].head].next = Poison] ELSE UNCHANGED node
    /\ Release(t, {loc[t].head})
    /\ UNCHANGED root

\* What follows the first steps of push() and pop().
PushSteps(t) == PushCas(t) \/ PushRetry(t)
PopSteps(t) == PopHead(t) \/ PopEmpty(t) \/ PopNext(t) \/ PopCas(t) \/ PopItem(t)
Internal(t) == PushSteps(t) \/ PopSteps(t)

Next == \E t \in Threads : (Push(t) \/ Pop(t) \/ Internal(t)) /\ UNCHANGED fixed

\* The nodes that the next step of t reads or writes.
Access(t) == IF pc[t] \in {"pop_next", "pop_item"} THEN {loc[t].head} ELSE {}

\* The node below which there is no item: the sentinel.  That of the OrcGC
\* variant is known only by having none itself.
Bottom(a) == a = root.sentinel \/ (orc /\ node[a].item = Null)

\* The items in the stack, from the head down.
Contents ==
    LET C == Chain(root.head)
    IN  [i \in 1 .. Cardinality({j \in DOMAIN C : \A k \in 1 .. j : ~Bottom(C[k])})
           |-> node[C[i]].item]
=============================================================================
