-------------------------- MODULE KoganPetrankQueue -------------------------
(***************************************************************************)
(* queues/KoganPetrankQueueOrcGC.hpp: a thread announces its operation,    *)
(* with a phase, in state, and helps every announced one whose phase is    *)
(* not above its own.  All N threads are registered: getMaxThreads() = N.  *)
(*                                                                         *)
(* A descriptor is its value here.  A thread whose CAS compares one holds  *)
(* an orc_ptr of it, so that neither its address nor that of its node is   *)
(* used again; and state[i] never goes back to an earlier value.           *)
(***************************************************************************)
EXTENDS LockFree

None == -1    \* IDX_NONE
NewNode(v, t) == [value |-> v, enqTid |-> t, deqTid |-> None, next |-> Null]
OpDesc(ph, p, e, a) == [phase |-> ph, pending |-> p, enqueue |-> e, node |-> a]
OPDESC_END == OpDesc(-1, FALSE, TRUE, Null)

Links(a) == {node[a].next}
Locals == [phase |-> -1, i |-> 0, desc |-> OPDESC_END, first |-> Null, last |-> Null,
           next |-> Null, to |-> "idle"]
Held(t) == IF At(t, "idle") THEN {}
           ELSE {loc[t].desc.node, loc[t].first, loc[t].last, loc[t].next}
Live == Reach({root.head, root.tail} \cup {root.state[t].node : t \in Threads}
                \cup UNION {Held(t) : t \in Threads}, Links)

Init ==
    /\ orc = TRUE
    /\ Start(<<>>)
    /\ mem = [a \in Addr |-> IF a = 1 THEN "used" ELSE "none"]
    /\ node = [a \in Addr |-> NewNode(Null, -1)]
    /\ root = [head |-> 1, tail |-> 1, state |-> [t \in Threads |-> OPDESC_END]]

\* t goes to l, with x as its local f; the rest does not change.
Set(t, l, f, x) ==
    /\ Goto(t, l) /\ loc' = [loc EXCEPT ![t][f] = x]
    /\ UNCHANGED <<heap, mm, monitor>>
Read(t, from, f, x, to) == At(t, from) /\ Set(t, to, f, x)
Branch(t, from, to) == Step(t, from, to) /\ UNCHANGED <<heap, mm>>
Wanted(d, ph) == d.pending /\ d.phase <= ph
CasState(i, old, new) ==
    root' = IF root.state[i] = old THEN [root EXCEPT !.state[i] = new] ELSE root

-----------------------------------------------------------------------------

Enqueue(t) == Call(t, "enqueue", "max", Locals) /\ UNCHANGED <<heap, mm>>
Dequeue(t) == Call(t, "dequeue", "max", Locals) /\ UNCHANGED <<heap, mm>>

\* maxPhase().
Max(t) ==
    LET ph == root.state[loc[t].i].phase
    IN  /\ At(t, "max") /\ Goto(t, IF loc[t].i + 1 < N THEN "max" ELSE "announce")
        /\ loc' = [loc EXCEPT ![t].i = (@ + 1) % N,
                              ![t].phase = IF ph > @ THEN ph ELSE @]
        /\ UNCHANGED <<heap, mm, monitor>>

Announce(t) ==
    /\ At(t, "announce") /\ Goto(t, "help")
    /\ loc' = [loc EXCEPT ![t].phase = @ + 1]
    /\ IF call[t].op = "enqueue"
       THEN \E a \in Free(Live) :
              /\ Allocate({a})
              /\ node' = [node EXCEPT ![a] = NewNode(call[t].arg, t)]
              /\ root' = [root EXCEPT !.state[t] = OpDesc(loc[t].phase + 1, TRUE, TRUE, a)]
       ELSE /\ root' = [root EXCEPT !.state[t] = OpDesc(loc[t].phase + 1, TRUE, FALSE, Null)]
            /\ UNCHANGED <<node, mm>>
    /\ UNCHANGED monitor

\* What help() does after round i of its loop.
Helped(t) ==
    /\ Goto(t, IF loc[t].i + 1 < N THEN "help"
               ELSE IF call[t].op = "enqueue" THEN "fin_enq_last" ELSE "fin_deq_first")
    /\ loc' = [loc EXCEPT ![t].i = @ + 1, ![t].to = "result"]
    /\ UNCHANGED <<heap, mm, monitor>>

Help(t) ==
    LET d == root.state[loc[t].i]
    IN  /\ At(t, "help")
        /\ IF Wanted(d, loc[t].phase)
           THEN Set(t, IF d.enqueue THEN "enq" ELSE "deq", "desc", d)
           ELSE Helped(t)

\* isStillPending(): where t goes if so, and the next round of help() if not.
StillPending(t, from, to) ==
    /\ At(t, from)
    /\ IF Wanted(root.state[loc[t].i], loc[t].phase)
       THEN Branch(t, from, to) ELSE Helped(t)

-----------------------------------------------------------------------------

(* help_enq(). *)

Enq(t) == StillPending(t, "enq", "enq_last")
EnqLast(t) == Read(t, "enq_last", "last", root.tail, "enq_next")
EnqNext(t) == Read(t, "enq_next", "next", node[loc[t].last].next, "enq_same")
EnqSame(t) ==
    /\ At(t, "enq_same")
    /\ IF root.tail # loc[t].last THEN Branch(t, "enq_same", "enq")
       ELSE IF loc[t].next = Null THEN Branch(t, "enq_same", "enq_again")
       ELSE Set(t, "fin_enq_last", "to", "enq")
EnqAgain(t) ==
    Branch(t, "enq_again",
           IF Wanted(root.state[loc[t].i], loc[t].phase) THEN "enq_desc" ELSE "enq")
EnqDesc(t) == Read(t, "enq_desc", "desc", root.state[loc[t].i], "enq_link")
EnqLink(t) ==
    /\ At(t, "enq_link")
    /\ IF node[loc[t].last].next = Null
       THEN /\ node' = [node EXCEPT ![loc[t].last].next = loc[t].desc.node]
            /\ Goto(t, "fin_enq_last") /\ loc' = [loc EXCEPT ![t].to = "helped"]
       ELSE Goto(t, "enq") /\ UNCHANGED <<node, loc>>
    /\ UNCHANGED <<root, mm, monitor>>

(* help_finish_enq(); then t goes to loc[t].to. *)

FinEnqLast(t) == Read(t, "fin_enq_last", "last", root.tail, "fin_enq_next")
FinEnqNext(t) ==
    LET next == node[loc[t].last].next
    IN  Read(t, "fin_enq_next", "next", next,
             IF next = Null THEN loc[t].to ELSE "fin_enq_desc")
FinEnqDesc(t) ==
    Read(t, "fin_enq_desc", "desc", root.state[node[loc[t].next].enqTid], "fin_enq_same")
FinEnqSame(t) ==
    Branch(t, "fin_enq_same",
           IF root.tail = loc[t].last /\ loc[t].desc.node = loc[t].next
           THEN "fin_enq_state" ELSE loc[t].to)
FinEnqState(t) ==
    /\ Step(t, "fin_enq_state", "fin_enq_tail")
    /\ CasState(node[loc[t].next].enqTid, loc[t].desc,
                OpDesc(loc[t].desc.phase, FALSE, TRUE, loc[t].next))
    /\ UNCHANGED <<node, mm>>
FinEnqTail(t) ==
    /\ Step(t, "fin_enq_tail", loc[t].to)
    /\ CasRoot("tail", loc[t].last, loc[t].next)
    /\ UNCHANGED <<node, mm>>
EnqHelped(t) == At(t, "helped") /\ Helped(t)

-----------------------------------------------------------------------------

(* help_deq(). *)

Deq(t) == StillPending(t, "deq", "deq_first")
DeqFirst(t) == Read(t, "deq_first", "first", root.head, "deq_last")
DeqLast(t) == Read(t, "deq_last", "last", root.tail, "deq_next")
DeqNext(t) == Read(t, "deq_next", "next", node[loc[t].first].next, "deq_same")
DeqSame(t) ==
    /\ At(t, "deq_same")
    /\ IF root.head # loc[t].first THEN Branch(t, "deq_same", "deq")
       ELSE IF loc[t].first # loc[t].last THEN Branch(t, "deq_same", "deq_desc")
       ELSE IF loc[t].next = Null THEN Branch(t, "deq_same", "deq_empty")
       ELSE Set(t, "fin_enq_last", "to", "deq")

\* An empty queue.
DeqEmpty(t) == Read(t, "deq_empty", "desc", root.state[loc[t].i], "deq_tail")
DeqTail(t) == Branch(t, "deq_tail", IF root.tail = loc[t].last THEN "deq_again" ELSE "deq")
DeqAgain(t) ==
    Branch(t, "deq_again",
           IF Wanted(root.state[loc[t].i], loc[t].phase) THEN "deq_null" ELSE "deq")
DeqNull(t) ==
    /\ Step(t, "deq_null", "deq")
    /\ CasState(loc[t].i, loc[t].desc, OpDesc(loc[t].desc.phase, FALSE, FALSE, Null))
    /\ UNCHANGED <<node, mm>>

\* The operation must have the first node before it takes that node.
DeqDesc(t) == Read(t, "deq_desc", "desc", root.state[loc[t].i], "deq_still")
DeqStill(t) == StillPending(t, "deq_still", "deq_head")
DeqHead(t) ==
    Branch(t, "deq_head",
           IF root.head = loc[t].first /\ loc[t].desc.node # loc[t].first
           THEN "deq_node" ELSE "deq_tid")
DeqNode(t) ==
    /\ Step(t, "deq_node", IF root.state[loc[t].i] = loc[t].desc THEN "deq_tid" ELSE "deq")
    /\ CasState(loc[t].i, loc[t].desc,
                OpDesc(loc[t].desc.phase, TRUE, FALSE, loc[t].first))
    /\ UNCHANGED <<node, mm>>
DeqTid(t) ==
    /\ At(t, "deq_tid") /\ Goto(t, "fin_deq_first")
    /\ loc' = [loc EXCEPT ![t].to = "deq"]
    /\ node' = IF node[loc[t].first].deqTid = None
               THEN [node EXCEPT ![loc[t].first].deqTid = loc[t].i] ELSE node
    /\ UNCHANGED <<root, mm, monitor>>

(* help_finish_deq(); then t goes to loc[t].to. *)

FinDeqFirst(t) == Read(t, "fin_deq_first", "first", root.head, "fin_deq_next")
FinDeqNext(t) == Read(t, "fin_deq_next", "next", node[loc[t].first].next, "fin_deq_tid")
FinDeqTid(t) ==
    Branch(t, "fin_deq_tid",
           IF node[loc[t].first].deqTid = None THEN loc[t].to ELSE "fin_deq_desc")
FinDeqDesc(t) ==
    Read(t, "fin_deq_desc", "desc", root.state[node[loc[t].first].deqTid], "fin_deq_same")
FinDeqSame(t) ==
    Branch(t, "fin_deq_same",
           IF root.head = loc[t].first /\ loc[t].next # Null THEN "fin_deq_state" ELSE loc[t].to)
FinDeqState(t) ==
    /\ Step(t, "fin_deq_state", "fin_deq_head")
    /\ CasState(node[loc[t].first].deqTid, loc[t].desc,
                OpDesc(loc[t].desc.phase, FALSE, FALSE, loc[t].desc.node))
    /\ UNCHANGED <<node, mm>>
FinDeqHead(t) ==
    /\ Step(t, "fin_deq_head", loc[t].to)
    /\ CasRoot("head", loc[t].first, loc[t].next)
    /\ UNCHANGED <<node, mm>>

-----------------------------------------------------------------------------

\* The end of enqueue() and dequeue().
Result(t) ==
    /\ At(t, "result")
    /\ IF call[t].op = "enqueue" THEN Return(t, True) /\ UNCHANGED <<heap, mm>>
       ELSE Set(t, "res_node", "desc", root.state[t])
ResNode(t) ==
    LET a == loc[t].desc.node
    IN  /\ At(t, "res_node")
        /\ IF a = Null THEN Return(t, Null) /\ UNCHANGED <<heap, mm>>
           ELSE Set(t, "res_value", "next", node[a].next)
ResValue(t) ==
    At(t, "res_value") /\ Return(t, node[loc[t].next].value) /\ UNCHANGED <<heap, mm>>

Internal(t) ==
    \/ Max(t) \/ Announce(t) \/ Help(t) \/ EnqHelped(t)
    \/ Enq(t) \/ EnqLast(t) \/ EnqNext(t) \/ EnqSame(t) \/ EnqAgain(t) \/ EnqDesc(t) \/ EnqLink(t)
    \/ FinEnqLast(t) \/ FinEnqNext(t) \/ FinEnqDesc(t) \/ FinEnqSame(t) \/ FinEnqState(t)
    \/ FinEnqTail(t)
    \/ Deq(t) \/ DeqFirst(t) \/ DeqLast(t) \/ DeqNext(t) \/ DeqSame(t)
    \/ DeqEmpty(t) \/ DeqTail(t) \/ DeqAgain(t) \/ DeqNull(t)
    \/ DeqDesc(t) \/ DeqStill(t) \/ DeqHead(t) \/ DeqNode(t) \/ DeqTid(t)
    \/ FinDeqFirst(t) \/ FinDeqNext(t) \/ FinDeqTid(t) \/ FinDeqDesc(t) \/ FinDeqSame(t)
    \/ FinDeqState(t) \/ FinDeqHead(t)
    \/ Result(t) \/ ResNode(t) \/ ResValue(t)

Next == \E t \in Threads : (Enqueue(t) \/ Dequeue(t) \/ Internal(t)) /\ UNCHANGED fixed

\* OrcGC keeps what an orc_ptr has; a link may be null.
Access(t) ==
    CASE pc[t] \in {"enq_next", "enq_link", "fin_enq_next"} -> {loc[t].last}
      [] pc[t] \in {"fin_enq_desc", "fin_enq_state", "res_value"} -> {loc[t].next}
      [] pc[t] \in {"deq_next", "deq_tid", "fin_deq_next", "fin_deq_tid", "fin_deq_state"} ->
           {loc[t].first}
      [] OTHER -> {}

Contents ==
    LET C == Chain(root.head) IN [i \in 1 .. Len(C)-1 |-> node[C[i+1]].value]
=============================================================================
