----------------------------- MODULE TurnQueue ------------------------------
(***************************************************************************)
(* queues/TurnQueue.hpp and queues/TurnQueueOrcGC.hpp.  A thread posts its *)
(* request, an enqueue in enqueuers and a dequeue by making its deqself    *)
(* equal to its deqhelp, and every thread serves the request whose turn it *)
(* is.  All N threads are registered: getMaxThreads() = N.                 *)
(***************************************************************************)
EXTENDS LockFree

None == -1    \* IDX_NONE
kTail == 0
kHead == 0
kNext == 1
kDeq  == 2

NewNode(v, t) == [item |-> v, enqTid |-> t, deqTid |-> None, next |-> Null]
Locals == [i |-> 0, j |-> 0, tail |-> Null, head |-> Null, next |-> Null, help |-> Null,
           my |-> Null, pr |-> Null, self |-> Null, tid |-> None, in |-> "loop"]

\* deqself is no orc_atomic, and prReq no orc_ptr.
Links(a) == {node[a].next}
Held(t) == IF At(t, "idle") THEN {}
           ELSE {loc[t].tail, loc[t].head, loc[t].next, loc[t].help, loc[t].my}
Live == Reach({root.head, root.tail} \cup {root.enqueuers[t] : t \in Threads}
                \cup {root.deqhelp[t] : t \in Threads} \cup UNION {Held(t) : t \in Threads},
              Links)

\* Node 1 is the sentinel; deqhelp, and in the manual variant deqself, have
\* nodes that were never in the queue.
Dummies == IF orc THEN 1 .. N+1 ELSE 1 .. 2*N+1
Init ==
    /\ Start(<<>>)
    /\ mem = [a \in Addr |-> IF a \in Dummies THEN "used" ELSE "none"]
    /\ node = [a \in Addr |-> NewNode(Null, 0)]
    /\ root = [head |-> 1, tail |-> 1, enqueuers |-> [t \in Threads |-> Null],
               deqself |-> [t \in Threads |-> IF orc THEN Null ELSE N+2+t],
               deqhelp |-> [t \in Threads |-> 2+t]]

Set(t, x, v) == loc' = [loc EXCEPT ![t][x] = v]
Quiet == UNCHANGED <<heap, mm, monitor>>

\* The next round of a loop over maxThreads, or what follows it.
NextRound(t, again, after) ==
    /\ Set(t, "i", loc[t].i + 1)
    /\ Goto(t, IF loc[t].i + 1 < N THEN again ELSE after)

-----------------------------------------------------------------------------

Enqueue(t) ==
    \E a \in Free(Live) :
        /\ Call(t, "enqueue", "enq_check", Locals)
        /\ Allocate({a})
        /\ node' = [node EXCEPT ![a] = NewNode(call'[t].arg, t)]
        /\ root' = [root EXCEPT !.enqueuers[t] = a]

EnqCheck(t) ==
    /\ Step(t, "enq_check", IF root.enqueuers[t] = Null THEN "enq_helped" ELSE "enq_tail")
    /\ UNCHANGED <<heap, mm>>

EnqHelped(t) ==
    At(t, "enq_helped") /\ Release(t, {}) /\ Return(t, True) /\ UNCHANGED heap

EnqTail(t) ==
    Load(t, "enq_tail", root.tail, "tail", kTail, IF orc THEN "enq_clear" ELSE "enq_same")

EnqSame(t) ==
    /\ At(t, "enq_same")
    /\ IF root.tail = loc[t].tail THEN Goto(t, "enq_clear") /\ UNCHANGED loc
                                  ELSE NextRound(t, "enq_check", "enq_end")
    /\ Quiet

\* Step 4 of the enqueue whose node is the tail: the test and the CAS.
EnqClear(t) ==
    LET e == node[loc[t].tail].enqTid
    IN  /\ At(t, "enq_clear") /\ Goto(t, "enq_search") /\ Set(t, "j", 1)
        /\ root' = IF root.enqueuers[e] = loc[t].tail
                   THEN [root EXCEPT !.enqueuers[e] = Null] ELSE root
        /\ UNCHANGED <<node, mm, monitor>>

\* Step 2: the next request, and the CAS that links it.
EnqSearch(t) ==
    LET a == root.enqueuers[(loc[t].j + node[loc[t].tail].enqTid) % N]
    IN  /\ At(t, "enq_search")
        /\ IF a # Null THEN Goto(t, "enq_link") /\ Set(t, "help", a)
           ELSE /\ Set(t, "j", loc[t].j + 1)
                /\ Goto(t, IF loc[t].j < N THEN "enq_search" ELSE "enq_next")
        /\ Quiet

EnqLink(t) ==
    /\ Step(t, "enq_link", "enq_next")
    /\ node' = IF node[loc[t].tail].next = Null
               THEN [node EXCEPT ![loc[t].tail].next = loc[t].help] ELSE node
    /\ UNCHANGED <<root, mm>>

\* Step 3.
EnqNext(t) ==
    LET next == node[loc[t].tail].next
    IN  /\ At(t, "enq_next")
        /\ IF next # Null THEN Goto(t, "enq_swing") /\ Set(t, "next", next)
                          ELSE NextRound(t, "enq_check", "enq_end")
        /\ Quiet

EnqSwing(t) ==
    /\ At(t, "enq_swing") /\ NextRound(t, "enq_check", "enq_end")
    /\ root' = IF root.tail = loc[t].tail THEN [root EXCEPT !.tail = loc[t].next] ELSE root
    /\ UNCHANGED <<node, mm, monitor>>

EnqEnd(t) ==
    /\ At(t, "enq_end")
    /\ root' = [root EXCEPT !.enqueuers[t] = Null]
    /\ Release(t, {}) /\ Return(t, True)
    /\ UNCHANGED node

-----------------------------------------------------------------------------

Dequeue(t) ==
    /\ Call(t, "dequeue", "deq_open",
            [Locals EXCEPT !.pr = root.deqself[t], !.my = root.deqhelp[t]])
    /\ UNCHANGED <<heap, mm>>

DeqOpen(t) ==
    /\ Step(t, "deq_open", "deq_check")
    /\ root' = [root EXCEPT !.deqself[t] = loc[t].my]
    /\ UNCHANGED <<node, mm>>

DeqCheck(t) ==
    /\ Step(t, "deq_check", IF root.deqhelp[t] = loc[t].my THEN "deq_head" ELSE "deq_take")
    /\ UNCHANGED <<heap, mm>>

DeqHead(t) ==
    Load(t, "deq_head", root.head, "head", kHead, IF orc THEN "deq_tail" ELSE "deq_same")

\* A test that head has not moved, and where the thread goes when it has not.
SameHead(t, at, to) ==
    /\ At(t, at)
    /\ IF root.head = loc[t].head THEN Goto(t, to) /\ UNCHANGED loc
                                  ELSE NextRound(t, "deq_check", "deq_take")
    /\ Quiet
DeqSame(t) == SameHead(t, "deq_same", "deq_tail")

DeqTail(t) ==
    /\ Step(t, "deq_tail", IF root.tail = loc[t].head THEN "deq_rollback" ELSE "deq_next")
    /\ UNCHANGED <<heap, mm>>

DeqNext(t) == Load(t, "deq_next", node[loc[t].head].next, "next", kNext, "deq_again")

DeqAgain(t) ==
    /\ At(t, "deq_again")
    /\ IF root.head = loc[t].head
       THEN /\ Goto(t, "self")
            /\ loc' = [loc EXCEPT ![t].j = node[loc[t].head].deqTid + 1, ![t].in = "loop"]
       ELSE NextRound(t, "deq_check", "deq_take")
    /\ Quiet

DeqRollback(t) ==
    /\ Step(t, "deq_rollback", "give_head")
    /\ root' = [root EXCEPT !.deqself[t] = loc[t].pr]
    /\ UNCHANGED <<node, mm>>

-----------------------------------------------------------------------------

(* giveUp(). *)

GiveHead(t) ==
    /\ At(t, "give_head") /\ Goto(t, "give_check") /\ Set(t, "head", root.head)
    /\ Quiet

GiveCheck(t) ==
    /\ Step(t, "give_check", IF root.deqhelp[t] = loc[t].my THEN "give_tail" ELSE "deq_last")
    /\ UNCHANGED <<heap, mm>>

GiveTail(t) ==
    /\ Step(t, "give_tail", IF root.tail = loc[t].head THEN "deq_last"
                            ELSE IF orc THEN "give_next" ELSE "give_protect")
    /\ UNCHANGED <<heap, mm>>

GiveProtect(t) ==
    Step(t, "give_protect", "give_same") /\ Protect(t, kHead, loc[t].head) /\ UNCHANGED heap

GiveSame(t) ==
    /\ Step(t, "give_same", IF root.head = loc[t].head THEN "give_next" ELSE "deq_last")
    /\ UNCHANGED <<heap, mm>>

GiveNext(t) == Load(t, "give_next", node[loc[t].head].next, "next", kNext, "give_again")

GiveAgain(t) ==
    /\ At(t, "give_again")
    /\ IF root.head = loc[t].head
       THEN /\ Goto(t, "self")
            /\ loc' = [loc EXCEPT ![t].j = node[loc[t].head].deqTid + 1, ![t].in = "give"]
       ELSE Goto(t, "deq_last") /\ UNCHANGED loc
    /\ Quiet

\* Nobody else wants the node.
GiveCas(t) ==
    /\ At(t, "give_cas") /\ Goto(t, "turn") /\ UNCHANGED <<loc, monitor>>
    /\ node' = IF node[loc[t].next].deqTid = None
               THEN [node EXCEPT ![loc[t].next].deqTid = t] ELSE node
    /\ UNCHANGED <<root, mm>>

\* Mutant: a helper's answer after the roll-back is not seen.
DeqLastUnchecked(t) == Step(t, "deq_last", "deq_empty") /\ UNCHANGED <<heap, mm>>

DeqLast(t) ==
    /\ Step(t, "deq_last", IF root.deqhelp[t] = loc[t].my THEN "deq_empty" ELSE "deq_self")
    /\ UNCHANGED <<heap, mm>>

DeqSelf(t) ==
    /\ Step(t, "deq_self", "deq_take")
    /\ root' = [root EXCEPT !.deqself[t] = loc[t].my]
    /\ UNCHANGED <<node, mm>>

DeqEmpty(t) ==
    At(t, "deq_empty") /\ Release(t, {}) /\ Return(t, Null) /\ UNCHANGED heap

-----------------------------------------------------------------------------

(* searchNext(): the two loads of a request, the CAS for an open one, and *)
(* the load of the thread that the node is assigned to.                   *)

Search(t) == loc[t].j % N
Searched(t) == loc[t].j = node[loc[t].head].deqTid + N

Self(t) ==
    /\ At(t, "self") /\ Goto(t, "help") /\ Set(t, "self", root.deqself[Search(t)])
    /\ Quiet

Help(t) ==
    /\ At(t, "help")
    /\ IF root.deqhelp[Search(t)] = loc[t].self THEN Goto(t, "assign") /\ UNCHANGED loc
       ELSE IF Searched(t) THEN Goto(t, "turn") /\ UNCHANGED loc
       ELSE Goto(t, "self") /\ Set(t, "j", loc[t].j + 1)
    /\ Quiet

Assign(t) ==
    /\ Step(t, "assign", "turn")
    /\ node' = IF node[loc[t].next].deqTid = None
               THEN [node EXCEPT ![loc[t].next].deqTid = Search(t)] ELSE node
    /\ UNCHANGED <<root, mm>>

Turn(t) ==
    LET d == node[loc[t].next].deqTid
    IN  /\ At(t, "turn")
        /\ IF d # None THEN Goto(t, "give") /\ Set(t, "tid", d)
           ELSE IF loc[t].in = "give" THEN Goto(t, "give_cas") /\ UNCHANGED loc
           ELSE NextRound(t, "deq_check", "deq_take")
        /\ Quiet

(* casDeqAndHead(). *)

Give(t) ==
    LET d == loc[t].tid
    IN  /\ At(t, "give")
        /\ IF d = t
           THEN /\ Step(t, "give", "head")
                /\ root' = [root EXCEPT !.deqhelp[t] = loc[t].next]
                /\ UNCHANGED <<node, mm>>
           ELSE Load(t, "give", root.deqhelp[d], "help", kDeq,
                     IF root.deqhelp[d] = loc[t].next THEN "head" ELSE "same")

Same(t) ==
    /\ Step(t, "same", IF root.head = loc[t].head THEN "give_other" ELSE "head")
    /\ UNCHANGED <<heap, mm>>

GiveOther(t) ==
    LET d == loc[t].tid
    IN  /\ Step(t, "give_other", "head")
        /\ root' = IF root.deqhelp[d] = loc[t].help
                   THEN [root EXCEPT !.deqhelp[d] = loc[t].next] ELSE root
        /\ UNCHANGED <<node, mm>>

CasHead(t, new) ==
    root' = IF root.head = loc[t].head THEN [root EXCEPT !.head = new] ELSE root

Head_(t) ==
    /\ At(t, "head") /\ CasHead(t, loc[t].next)
    /\ IF loc[t].in = "give" THEN Goto(t, "deq_last") /\ UNCHANGED loc
                             ELSE NextRound(t, "deq_check", "deq_take")
    /\ UNCHANGED <<node, mm, monitor>>

-----------------------------------------------------------------------------

\* The end of dequeue(): the thread has its node.
DeqTake(t) ==
    /\ At(t, "deq_take") /\ Goto(t, "take_head") /\ Set(t, "self", root.deqhelp[t])
    /\ Quiet
TakeHead(t) == Load(t, "take_head", root.head, "head", kHead, "take_next")
TakeNext(t) ==
    /\ Step(t, "take_next",
            IF node[loc[t].head].next = loc[t].self THEN "take_cas" ELSE "deq_end")
    /\ UNCHANGED <<heap, mm>>
TakeCas(t) ==
    Step(t, "take_cas", "deq_end") /\ CasHead(t, loc[t].self) /\ UNCHANGED <<node, mm>>
DeqEnd(t) ==
    /\ At(t, "deq_end") /\ Release(t, {loc[t].pr}) /\ Return(t, node[loc[t].self].item)
    /\ UNCHANGED heap

\* What follows the first steps of enqueue() and dequeue().
EnqueueSteps(t) ==
    \/ EnqCheck(t) \/ EnqHelped(t) \/ EnqTail(t) \/ EnqSame(t) \/ EnqClear(t)
    \/ EnqSearch(t) \/ EnqLink(t) \/ EnqNext(t) \/ EnqSwing(t) \/ EnqEnd(t)
DequeueSteps(t) ==
    \/ DeqOpen(t) \/ DeqCheck(t) \/ DeqHead(t) \/ DeqSame(t) \/ DeqTail(t)
    \/ DeqNext(t) \/ DeqAgain(t) \/ DeqRollback(t) \/ DeqLast(t) \/ DeqSelf(t) \/ DeqEmpty(t)
    \/ DeqTake(t) \/ TakeHead(t) \/ TakeNext(t) \/ TakeCas(t) \/ DeqEnd(t)
GiveUp(t) ==
    \/ GiveHead(t) \/ GiveCheck(t) \/ GiveTail(t) \/ GiveProtect(t) \/ GiveSame(t)
    \/ GiveNext(t) \/ GiveAgain(t) \/ GiveCas(t)
SearchNext(t) == Self(t) \/ Help(t) \/ Assign(t) \/ Turn(t)
CasDeqAndHead(t) == Give(t) \/ Same(t) \/ GiveOther(t) \/ Head_(t)
Internal(t) ==
    EnqueueSteps(t) \/ DequeueSteps(t) \/ GiveUp(t) \/ SearchNext(t) \/ CasDeqAndHead(t)

Next == \E t \in Threads : (Enqueue(t) \/ Dequeue(t) \/ Internal(t)) /\ UNCHANGED fixed

Access(t) ==
    CASE pc[t] \in {"enq_clear", "enq_search", "enq_link", "enq_next"} -> {loc[t].tail}
      [] pc[t] \in {"deq_next", "deq_again", "give_next", "give_again", "take_next"} -> {loc[t].head}
      [] pc[t] \in {"assign", "turn", "give_cas"} -> {loc[t].next}
      [] pc[t] = "deq_end" -> {loc[t].self}
      [] OTHER -> {}

Contents ==
    LET C == Chain(root.head) IN [i \in 1 .. Len(C)-1 |-> node[C[i+1]].item]
=============================================================================
