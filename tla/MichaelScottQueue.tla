-------------------------- MODULE MichaelScottQueue -------------------------
(***************************************************************************)
(* queues/MichaelScottQueue.hpp and queues/MichaelScottQueueOrcGC.hpp: a   *)
(* list that begins with a sentinel, to which head points; tail points to  *)
(* its last node or to the one before.  The names that TreiberStack has    *)
(* too begin with Q, so that LockFreeProofs can extend both modules.       *)
(***************************************************************************)
EXTENDS LockFree

QLinks(a) == {node[a].next}
QLocals == [node |-> Null, tail |-> Null, next |-> Null, new |-> Null]
QHeld(t) == IF At(t, "idle") THEN {}
           ELSE {loc[t].node, loc[t].tail, loc[t].next, loc[t].new}
QLive == Reach({root.head, root.tail} \cup UNION {QHeld(t) : t \in Threads}, QLinks)

QInit ==
    /\ Start(<<>>)
    /\ mem = [a \in Addr |-> IF a = 1 THEN "used" ELSE "none"]
    /\ node = [a \in Addr |-> [item |-> Null, next |-> Null]]
    /\ root = [head |-> 1, tail |-> 1]

\* A CAS of the link of node a.
CasNext(a, old, new) ==
    node' = IF node[a].next = old THEN [node EXCEPT ![a].next = new] ELSE node

Enqueue(t) ==
    \E a \in Free(QLive) :
        /\ Call(t, "enqueue", "enq_tail", [QLocals EXCEPT !.new = a])
        /\ Allocate({a})
        /\ node' = [node EXCEPT ![a] = [item |-> call'[t].arg, next |-> Null]]
        /\ UNCHANGED root

EnqTail(t) == Load(t, "enq_tail", root.tail, "tail", 0, "enq_next")

EnqNext(t) ==
    LET next == node[loc[t].tail].next
    IN  /\ At(t, "enq_next")
        /\ Goto(t, IF next = Null THEN "enq_link" ELSE "enq_help")
        /\ loc' = [loc EXCEPT ![t].next = next]
        /\ UNCHANGED <<heap, mm, monitor>>

EnqLink(t) ==
    /\ At(t, "enq_link")
    /\ CasNext(loc[t].tail, Null, loc[t].new)
    /\ Goto(t, IF node[loc[t].tail].next = Null THEN "enq_swing" ELSE "enq_tail")
    /\ UNCHANGED <<root, mm, loc, monitor>>

EnqSwing(t) ==
    /\ At(t, "enq_swing")
    /\ CasRoot("tail", loc[t].tail, loc[t].new)
    /\ Release(t, {})
    /\ Return(t, True)
    /\ UNCHANGED node

\* Mutant: an enqueuer does not help another one.
EnqHelpNot(t) == Step(t, "enq_help", "enq_tail") /\ UNCHANGED <<heap, mm>>

\* Another enqueue() has linked its node and not yet moved tail.
EnqHelp(t) ==
    /\ Step(t, "enq_help", "enq_tail")
    /\ CasRoot("tail", loc[t].tail, loc[t].next)
    /\ UNCHANGED <<node, mm>>

Dequeue(t) == Call(t, "dequeue", "deq_head", QLocals) /\ UNCHANGED <<heap, mm>>

DeqHead(t) == Load(t, "deq_head", root.head, "node", 0, "deq_tail")

DeqTail(t) ==
    /\ Step(t, "deq_tail", IF root.tail = loc[t].node THEN "deq_empty" ELSE "deq_next")
    /\ UNCHANGED <<heap, mm>>

DeqEmpty(t) ==
    At(t, "deq_empty") /\ Release(t, {}) /\ Return(t, Null) /\ UNCHANGED heap

\* Mutant: the item is not protected.
DeqNextBare(t) ==
    /\ At(t, "deq_next") /\ Goto(t, "deq_cas")
    /\ loc' = [loc EXCEPT ![t].next = node[loc[t].node].next]
    /\ UNCHANGED <<heap, mm, monitor>>

DeqNext(t) == Load(t, "deq_next", node[loc[t].node].next, "next", 1, "deq_cas")

DeqCas(t) ==
    /\ Step(t, "deq_cas", IF root.head = loc[t].node THEN "deq_item" ELSE "deq_head")
    /\ CasRoot("head", loc[t].node, loc[t].next)
    /\ UNCHANGED <<node, mm>>

\* The old sentinel is retired, or poisoned.
DeqItem(t) ==
    /\ At(t, "deq_item")
    /\ Return(t, node[loc[t].next].item)
    /\ IF orc THEN node' = [node EXCEPT ![loc[t].node].next = Poison] ELSE UNCHANGED node
    /\ Release(t, {loc[t].node})
    /\ UNCHANGED root

\* What follows the first steps of enqueue() and dequeue().
EnqueueSteps(t) == EnqTail(t) \/ EnqNext(t) \/ EnqLink(t) \/ EnqSwing(t) \/ EnqHelp(t)
DequeueSteps(t) ==
    DeqHead(t) \/ DeqTail(t) \/ DeqEmpty(t) \/ DeqNext(t) \/ DeqCas(t) \/ DeqItem(t)
QInternal(t) == EnqueueSteps(t) \/ DequeueSteps(t)

QNext == \E t \in Threads : (Enqueue(t) \/ Dequeue(t) \/ QInternal(t)) /\ UNCHANGED fixed

QAccess(t) ==
    CASE pc[t] \in {"enq_next", "enq_link"} -> {loc[t].tail}
      [] pc[t] = "deq_next" -> {loc[t].node}
      [] pc[t] = "deq_item" -> {loc[t].next, loc[t].node}
      [] OTHER -> {}

\* The items in the queue; the first node is the sentinel.
QContents ==
    LET C == Chain(root.head) IN [i \in 1 .. Len(C)-1 |-> node[C[i+1]].item]
=============================================================================
