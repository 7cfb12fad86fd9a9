------------------------------ MODULE LCRQueue ------------------------------
(***************************************************************************)
(* queues/LCRQueue.hpp and queues/LCRQueueOrcGC.hpp: a list of rings of    *)
(* cells.  fetch_add gives tickets; ticket k is for cell k of the ring,    *)
(* modulo its size.  A ring that is full, or in which an enqueuer starves, *)
(* is closed (bit 63 of its tail), and another one is appended.            *)
(***************************************************************************)
EXTENDS LockFree

CONSTANTS Ring,      \* RING_SIZE
          Tries,     \* a ring is closed in any case at this attempt (10)
          Spins,     \* how often a dequeuer waits for its item (200000)
          Reload     \* every how many rounds it loads tail (1024)

\* The bit 63 of an index is a field of its own: closed, unsafe.
Cell(v, i, u) == [val |-> v, idx |-> i, unsafe |-> u]
Mark(i, c) == [idx |-> i, closed |-> c]
NewRing == [head |-> 0, tail |-> Mark(0, FALSE), next |-> Null,
            array |-> [i \in 0 .. Ring-1 |-> Cell(Null, i, FALSE)]]
\* A ring with its first item.
SoloRing(v) == [NewRing EXCEPT !.tail.idx = 1, !.array[0].val = v]

Links(a) == {node[a].next}
Locals == [ring |-> Null, next |-> Null, new |-> Null, k |-> 0, try |-> 0, r |-> 0,
           tt |-> Mark(0, FALSE), h |-> 0, cell |-> Cell(Null, 0, FALSE)]
Held(t) == IF At(t, "idle") THEN {} ELSE {loc[t].ring, loc[t].next, loc[t].new}
Live == Reach({root.head, root.tail} \cup UNION {Held(t) : t \in Threads}, Links)

Init ==
    /\ Start(<<>>)
    /\ mem = [a \in Addr |-> IF a = 1 THEN "used" ELSE "none"]
    /\ node = [a \in Addr |-> NewRing]
    /\ root = [head |-> 1, tail |-> 1]

\* The ring of t, its tail, and the cell of the ticket of t.
rq(t) == node[loc[t].ring]
cell(t) == rq(t).array[loc[t].k % Ring]
SetRing(t, r) == node' = [node EXCEPT ![loc[t].ring] = r]
Set(t, x, v) == loc' = [loc EXCEPT ![t][x] = v]
Quiet == UNCHANGED <<heap, mm, monitor>>

\* CAS2 of the cell of t from what t has read to c.
CAS2(t, from, c, success, failure) ==
    /\ At(t, from)
    /\ IF cell(t) = loc[t].cell
       THEN SetRing(t, [rq(t) EXCEPT !.array[loc[t].k % Ring] = c]) /\ success
       ELSE Goto(t, failure) /\ UNCHANGED <<node, mm, loc, monitor>>
    /\ UNCHANGED root
GoOn(t, to) == Goto(t, to) /\ UNCHANGED <<mm, loc, monitor>>

-----------------------------------------------------------------------------

Enqueue(t) == Call(t, "enqueue", "enq_tail", Locals) /\ UNCHANGED <<heap, mm>>

EnqTail(t) == Load(t, "enq_tail", root.tail, "ring", 0, "enq_next")

EnqNext(t) ==
    LET next == rq(t).next
    IN  /\ At(t, "enq_next") /\ Set(t, "next", next)
        /\ Goto(t, IF next = Null THEN "enq_ticket" ELSE "enq_help")
        /\ Quiet

EnqHelp(t) ==
    /\ Step(t, "enq_help", "enq_tail")
    /\ CasRoot("tail", loc[t].ring, loc[t].next)
    /\ UNCHANGED <<node, mm>>

EnqTicket(t) ==
    /\ At(t, "enq_ticket") /\ Set(t, "k", rq(t).tail.idx)
    /\ Goto(t, IF rq(t).tail.closed THEN "enq_new" ELSE "enq_idx")
    /\ SetRing(t, [rq(t) EXCEPT !.tail.idx = @ + 1])
    /\ UNCHANGED <<root, mm, monitor>>

EnqNew(t) ==
    \E a \in Free(Live) :
        /\ At(t, "enq_new") /\ Goto(t, "enq_link") /\ Set(t, "new", a)
        /\ Allocate({a})
        /\ node' = [node EXCEPT ![a] = SoloRing(call[t].arg)]
        /\ UNCHANGED <<root, monitor>>

\* If another ring was faster, the new one is deleted.
EnqLink(t) ==
    /\ At(t, "enq_link")
    /\ IF rq(t).next = Null
       THEN /\ SetRing(t, [rq(t) EXCEPT !.next = loc[t].new])
            /\ GoOn(t, "enq_swing")
       ELSE /\ Goto(t, "enq_tail") /\ Set(t, "new", Null)
            /\ IF orc THEN UNCHANGED mm ELSE Protections(hp, {loc[t].new})
            /\ UNCHANGED <<node, monitor>>
    /\ UNCHANGED root

EnqSwing(t) ==
    /\ At(t, "enq_swing")
    /\ CasRoot("tail", loc[t].ring, loc[t].new)
    /\ Release(t, {}) /\ Return(t, True)
    /\ UNCHANGED node

\* idx, and then val, of the cell are read.
EnqIdx(t) ==
    /\ At(t, "enq_idx") /\ Goto(t, "enq_val")
    /\ Set(t, "cell", [cell(t) EXCEPT !.val = Null])
    /\ Quiet

EnqVal(t) ==
    /\ Step(t, "enq_val",
            IF cell(t).val # Null \/ loc[t].cell.idx > loc[t].k THEN "enq_full"
            ELSE IF loc[t].cell.unsafe THEN "enq_head" ELSE "enq_cas")
    /\ UNCHANGED <<heap, mm>>

EnqHead(t) ==
    /\ Step(t, "enq_head", IF rq(t).head < loc[t].k THEN "enq_cas" ELSE "enq_full")
    /\ UNCHANGED <<heap, mm>>

EnqCas(t) ==
    CAS2(t, "enq_cas", Cell(call[t].arg, loc[t].k, FALSE),
         Release(t, {}) /\ Return(t, True), "enq_full")

EnqFull(t) ==
    /\ Step(t, "enq_full", IF loc[t].k - rq(t).head >= Ring THEN "enq_close" ELSE "enq_tail")
    /\ UNCHANGED <<heap, mm>>

\* close_crq(): a CAS at first, and at last unconditionally.
EnqClose(t) ==
    /\ At(t, "enq_close") /\ Goto(t, "enq_tail") /\ Set(t, "try", loc[t].try + 1)
    /\ IF loc[t].try + 1 >= Tries \/ rq(t).tail = Mark(loc[t].k + 1, FALSE)
       THEN SetRing(t, [rq(t) EXCEPT !.tail.closed = TRUE]) ELSE UNCHANGED node
    /\ UNCHANGED <<root, mm, monitor>>

-----------------------------------------------------------------------------

Dequeue(t) == Call(t, "dequeue", "deq_head", Locals) /\ UNCHANGED <<heap, mm>>

DeqHead(t) == Load(t, "deq_head", root.head, "ring", 0, "deq_ticket")

DeqTicket(t) ==
    /\ At(t, "deq_ticket") /\ Goto(t, "deq_idx")
    /\ loc' = [loc EXCEPT ![t].k = rq(t).head, ![t].r = 0, ![t].tt = Mark(0, FALSE)]
    /\ SetRing(t, [rq(t) EXCEPT !.head = @ + 1])
    /\ UNCHANGED <<root, mm, monitor>>

DeqIdx(t) ==
    /\ At(t, "deq_idx") /\ Goto(t, "deq_val")
    /\ Set(t, "cell", [cell(t) EXCEPT !.val = Null])
    /\ Quiet

DeqVal(t) ==
    LET v == cell(t).val
        i == loc[t].cell.idx
    IN  /\ At(t, "deq_val") /\ Set(t, "cell", [loc[t].cell EXCEPT !.val = v])
        /\ Goto(t, CASE i > loc[t].k -> "deq_tail"
                     [] i <= loc[t].k /\ v = Null -> "deq_wait"
                     [] i = loc[t].k /\ v # Null -> "deq_take"
                     [] i < loc[t].k /\ v # Null -> "deq_unsafe")
        /\ Quiet

\* The item: the cell is made ready for the ticket one round later.
Passed(t) == [loc[t].cell EXCEPT !.val = Null, !.idx = loc[t].k + Ring]
DeqTake(t) ==
    CAS2(t, "deq_take", Passed(t),
         Release(t, {}) /\ Return(t, loc[t].cell.val), "deq_idx")

\* An item of an earlier round.
DeqUnsafe(t) ==
    CAS2(t, "deq_unsafe", [loc[t].cell EXCEPT !.unsafe = TRUE], GoOn(t, "deq_tail"), "deq_idx")

\* No item yet: whether to wait for it.
DeqWait(t) ==
    LET r == loc[t].r
        tt == IF r % Reload = 0 THEN rq(t).tail ELSE loc[t].tt
    IN  /\ At(t, "deq_wait")
        /\ IF loc[t].cell.unsafe \/ tt.idx < loc[t].k + 1 \/ r > Spins \/ tt.closed
           THEN Goto(t, "deq_skip") /\ Set(t, "tt", tt)
           ELSE Goto(t, "deq_idx") /\ loc' = [loc EXCEPT ![t].tt = tt, ![t].r = r + 1]
        /\ Quiet

\* Mutant: an empty cell is left as it is.
DeqSkipNot(t) == Step(t, "deq_skip", "deq_tail") /\ UNCHANGED <<heap, mm>>

DeqSkip(t) ==
    CAS2(t, "deq_skip", Passed(t),
         GoOn(t, IF /\ ~loc[t].cell.unsafe /\ loc[t].r > Spins
                    /\ loc[t].tt.closed \/ loc[t].tt.idx > Ring
                 THEN "deq_close" ELSE "deq_tail"),
         "deq_idx")

DeqClose(t) ==
    /\ Step(t, "deq_close", "deq_tail")
    /\ SetRing(t, [rq(t) EXCEPT !.tail.closed = TRUE])
    /\ UNCHANGED <<root, mm>>

\* Whether the ring has nothing for a later ticket.
Drained(t, from, yes, no) ==
    /\ Step(t, from, IF rq(t).tail.idx <= loc[t].k + 1 THEN yes ELSE no)
    /\ UNCHANGED <<heap, mm>>
DeqTail(t) == Drained(t, "deq_tail", "fix_tail", "deq_head")

\* fixState(): tail must not stay behind head.
FixTail(t) ==
    At(t, "fix_tail") /\ Goto(t, "fix_head") /\ Set(t, "tt", rq(t).tail) /\ Quiet
FixHead(t) ==
    At(t, "fix_head") /\ Goto(t, "fix_same") /\ Set(t, "h", rq(t).head) /\ Quiet
FixSame(t) ==
    /\ Step(t, "fix_same",
            IF rq(t).tail # loc[t].tt THEN "fix_tail"
            ELSE IF loc[t].h > loc[t].tt.idx /\ ~loc[t].tt.closed THEN "fix_cas" ELSE "deq_next")
    /\ UNCHANGED <<heap, mm>>
FixCas(t) ==
    /\ At(t, "fix_cas")
    /\ IF rq(t).tail = loc[t].tt
       THEN SetRing(t, [rq(t) EXCEPT !.tail.idx = loc[t].h]) /\ Goto(t, "deq_next")
       ELSE UNCHANGED node /\ Goto(t, "fix_tail")
    /\ UNCHANGED <<root, mm, loc, monitor>>

DeqNext(t) ==
    LET next == rq(t).next
    IN  /\ At(t, "deq_next") /\ Set(t, "next", next)
        /\ Goto(t, IF next = Null THEN "deq_empty" ELSE "deq_last")
        /\ Quiet

DeqEmpty(t) ==
    At(t, "deq_empty") /\ Release(t, {}) /\ Return(t, Null) /\ UNCHANGED heap

DeqLast(t) == Drained(t, "deq_last", "deq_cas", "deq_head")

DeqCas(t) ==
    /\ Step(t, "deq_cas", IF root.head = loc[t].ring THEN "deq_retire" ELSE "deq_head")
    /\ CasRoot("head", loc[t].ring, loc[t].next)
    /\ UNCHANGED <<node, mm>>

\* The ring is retired, or poisoned, whether or not tail has left it.
DeqRetire(t) ==
    /\ Step(t, "deq_retire", "deq_head")
    /\ IF orc THEN SetRing(t, [rq(t) EXCEPT !.next = Poison]) /\ UNCHANGED mm
              ELSE Protections(hp, {loc[t].ring}) /\ UNCHANGED node
    /\ UNCHANGED root

\* What follows the first steps of enqueue() and dequeue().
EnqueueSteps(t) ==
    \/ EnqTail(t) \/ EnqNext(t) \/ EnqHelp(t) \/ EnqTicket(t) \/ EnqNew(t) \/ EnqLink(t)
    \/ EnqSwing(t) \/ EnqIdx(t) \/ EnqVal(t) \/ EnqHead(t) \/ EnqCas(t) \/ EnqFull(t)
    \/ EnqClose(t)
DequeueSteps(t) ==
    \/ DeqHead(t) \/ DeqTicket(t) \/ DeqIdx(t) \/ DeqVal(t) \/ DeqTake(t) \/ DeqUnsafe(t)
    \/ DeqWait(t) \/ DeqSkip(t) \/ DeqClose(t) \/ DeqTail(t)
    \/ DeqNext(t) \/ DeqEmpty(t) \/ DeqLast(t) \/ DeqCas(t) \/ DeqRetire(t)
FixState(t) == FixTail(t) \/ FixHead(t) \/ FixSame(t) \/ FixCas(t)
Internal(t) == EnqueueSteps(t) \/ DequeueSteps(t) \/ FixState(t)

Next == \E t \in Threads : (Enqueue(t) \/ Dequeue(t) \/ Internal(t)) /\ UNCHANGED fixed

Access(t) ==
    IF pc[t] \in {"idle", "enq_tail", "enq_help", "enq_new", "enq_swing", "deq_head",
                  "deq_empty", "deq_cas"}
    THEN {} ELSE {loc[t].ring}

\* The items in the rings from head on.
Contents ==
    LET Items(a) == SelectSeq([k \in 1 .. node[a].tail.idx |->
                                 IF k > node[a].head /\ node[a].array[(k-1) % Ring].idx = k-1
                                 THEN node[a].array[(k-1) % Ring].val ELSE Null],
                              LAMBDA v : v # Null)
        C[a \in Addr \cup {Null}] == IF a = Null THEN <<>> ELSE Items(a) \o C[node[a].next]
    IN  C[root.head]
=============================================================================
