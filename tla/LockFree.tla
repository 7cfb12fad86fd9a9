------------------------------ MODULE LockFree ------------------------------
(***************************************************************************)
(* What the lock-free data structures have in common: threads that call    *)
(* their operations, memory whose addresses are used again, and what they  *)
(* promise their callers.                                                  *)
(*                                                                         *)
(* Most structures come in two variants.  One uses a manual reclaimer, and *)
(* rests on what the module Reclaimer promises: a retired node is deleted  *)
(* once no hp holds it that has held it ever since it was retired.  The    *)
(* other uses OrcGC (orc = TRUE): a node is deleted when no orc_atomic     *)
(* leads to it and no orc_ptr holds it.  protect() of the first and load() *)
(* of the second are one step here, the last read of their loop; the       *)
(* modules of the reclaimers and OrcGC have the loop.                      *)
(*                                                                         *)
(* Linearizability is checked as it is defined: configs has every way in   *)
(* which the calls so far can have taken effect one after the other, each  *)
(* between its first and its last step.  A return value that none of them  *)
(* explains leaves configs empty.                                          *)
(***************************************************************************)
EXTENDS Memory

CONSTANT Program    \* bound: call k of thread t is in Program[structure][t][k]

\* The operations of the stack and the queues, and of the sets.  Items and
\* keys are numbers.
Operations == {"push", "pop", "enqueue", "dequeue",
               "add", "remove", "contains", "put", "replace"}
ASSUME ProgramAssumption ==
    \A s \in DOMAIN Program : \A t \in Threads :
        Program[s][t] \in Seq(SUBSET [op : Operations, arg : Nat])

VARIABLES
    structure,  \* the data structure of this behaviour, chosen at the start
    orc,        \* its variant: OrcGC or a manual reclaimer
    root,       \* its shared variables
    node,       \* the node at each address
    pc,         \* the next step of a thread
    loc,        \* its locals
    call,       \* the call it executes
    calls,      \* how many calls it has started
    configs     \* the ways in which the calls can have taken effect

heap == <<root, node>>
monitor == <<call, calls, configs>>
fixed == <<structure, orc>>
vars == <<fixed, heap, mm, pc, loc, monitor>>

Poison == -1       \* the address of g_poisoned
Ptr == Addr \cup {Null, Poison}

\* Return values are numbers too.
True == 1
False == 0
Bool(b) == IF b THEN True ELSE False

-----------------------------------------------------------------------------

(* Memory. *)

\* protect() or protectPtr() into hp i; an orc_ptr needs none.
Protect(t, i, a) ==
    IF orc THEN UNCHANGED mm ELSE Publish(t, i, a)

\* protectPtrRelease() of what each hp in I holds into the next one in I,
\* a higher one, the last first.
CopiesUp(t, I) ==
    LET From(s) == IF \E k \in 2 .. Len(I) : s = <<t, I[k]>>
                   THEN <<t, I[(CHOOSE k \in 2 .. Len(I) : s = <<t, I[k]>>) - 1]>> ELSE s
    IN  /\ hp' = [s \in Slot |-> hp[From(s)]]
        /\ since' = [a \in Addr |-> {s \in Slot : From(s) \in since[a]}]
        /\ UNCHANGED mem

\* clear(), and then retire() of the nodes in R.
Release(t, R) ==
    IF orc THEN UNCHANGED mm
    ELSE Protections([s \in Slot |-> IF s[1] = t THEN Null ELSE hp[s]], R)

\* The nodes that can be reached from S over the links L(a).
Reach(S, L(_)) ==
    LET R[T \in SUBSET Addr] ==
          LET U == T \cup ((UNION {L(a) : a \in T}) \cap Addr)
          IN  IF U = T THEN T ELSE R[U]
    IN  R[S \cap Addr]

\* The nodes that follow each other from a on, in this order.
Chain(a) ==
    LET Nth[i \in 1 .. Addrs] ==
          IF i = 1 THEN a
          ELSE LET b == Nth[i-1] IN IF b \in Addr THEN node[b].next ELSE Null
    IN  [i \in 1 .. Cardinality({j \in 1 .. Addrs : Nth[j] \in Addr}) |-> Nth[i]]

\* What the reclaimer may have deleted.  live: what links and orc_ptrs
\* lead to.
Deleted(live) ==
    IF orc THEN Addr \ live
    ELSE {a \in Addr : \/ mem[a] = "none"
                     \/ (mem[a] # "used" /\ since[a] = {})}

\* The addresses that new may return; of those never used, the first.
Free(live) ==
    {a \in Deleted(live) :
        mem[a] = "none" => \A b \in 1 .. a-1 : mem[b] # "none"}

-----------------------------------------------------------------------------

(* Calls and what they may return. *)

Pending == -2
NoCall == -3

\* The sequential specifications: the state and the result after call c.
Answer(s, r) == [abs |-> s, res |-> r]
Apply(s, c) ==
    CASE c.op = "enqueue"  -> Answer(Append(s, c.arg), True)
      [] c.op = "push"     -> Answer(<<c.arg>> \o s, True)
      [] c.op \in {"dequeue", "pop"} ->
            IF s = <<>> THEN Answer(s, Null) ELSE Answer(Tail(s), Head(s))
      [] c.op = "add"      -> Answer(s \cup {c.arg}, Bool(c.arg \notin s))
      [] c.op = "remove"   -> Answer(s \ {c.arg}, Bool(c.arg \in s))
      [] c.op = "put"      -> Answer(s \cup {c.arg}, Bool(c.arg \in s))
      [] c.op \in {"contains", "replace"} -> Answer(s, Bool(c.arg \in s))

\* The call of thread u takes effect in configuration c.
Effect(c, u) ==
    LET a == Apply(c.abs, call[u])
    IN  [abs |-> a.abs, res |-> [c.res EXCEPT ![u] = a.res]]

\* One more of the pending calls takes effect, or none.
Round(C) ==
    C \cup UNION {{Effect(c, u) : u \in {v \in Threads : c.res[v] = Pending}} : c \in C}

\* Any of the pending calls take effect, in any order: after k rounds, at
\* most k of them.
Reached[k \in 0 .. N] == IF k = 0 THEN configs ELSE Round(Reached[k-1])
Effects == Reached[N]

\* Thread t calls operation o and goes to l with locals x.
Call(t, o, l, x) ==
    /\ pc[t] = "idle" /\ calls[t] < Len(Program[structure][t])
    /\ pc' = [pc EXCEPT ![t] = l]
    /\ loc' = [loc EXCEPT ![t] = x]
    /\ \E c \in Program[structure][t][calls[t] + 1] :
         c.op = o /\ call' = [call EXCEPT ![t] = c]
    /\ calls' = [calls EXCEPT ![t] = @ + 1]
    /\ configs' = {[c EXCEPT !.res[t] = Pending] : c \in configs}

NoLocals == <<>>
NotCalled == [op |-> "none", arg |-> Null]

\* The last step of a call: it returns r.
Return(t, r) ==
    /\ pc' = [pc EXCEPT ![t] = "idle"]
    /\ loc' = [loc EXCEPT ![t] = NoLocals]
    /\ call' = [call EXCEPT ![t] = NotCalled]
    /\ configs' = {[c EXCEPT !.res[t] = NoCall] : c \in {d \in Effects : d.res[t] = r}}
    /\ UNCHANGED calls

At(t, l) == pc[t] = l
Goto(t, l) == pc' = [pc EXCEPT ![t] = l]

\* A step from one place to another that changes no locals.
Step(t, from, to) == At(t, from) /\ Goto(t, to) /\ UNCHANGED <<loc, monitor>>

\* A CAS of variable x of root.
CasRoot(x, old, new) == root' = IF root[x] = old THEN [root EXCEPT ![x] = new] ELSE root

\* A load of v into local x, protected by hp i.
Load(t, from, v, x, i, to) ==
    /\ At(t, from) /\ Goto(t, to)
    /\ loc' = [loc EXCEPT ![t][x] = v]
    /\ Protect(t, i, v)
    /\ UNCHANGED <<heap, monitor>>

\* The structure s is empty and no call has been made.
Start(s) ==
    /\ hp = [p \in Slot |-> Null]
    /\ since = [a \in Addr |-> {}]
    /\ pc = [t \in Threads |-> "idle"]
    /\ loc = [t \in Threads |-> NoLocals]
    /\ call = [t \in Threads |-> NotCalled]
    /\ calls = [t \in Threads |-> 0]
    /\ configs = {[abs |-> s, res |-> [t \in Threads |-> NoCall]]}

\* All calls have been made.
Done == \A t \in Threads : pc[t] = "idle" /\ calls[t] = Len(Program[structure][t])

\* When all calls have ended, s is what they have left in the structure.
IsLeft(s) == Done => s \in {c.abs : c \in configs}

-----------------------------------------------------------------------------

\* What every call returns is explained by some order of the calls, each
\* between its start and its end.
Linearizable == configs # {}

\* No node is retired twice.
RetiredOnce == \A a \in Addr : mem[a] # "twice"
=============================================================================
