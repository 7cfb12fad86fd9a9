---------------------------- MODULE LockFreeProofs ----------------------------
(***************************************************************************)
(* TreiberStack.hpp, and MichaelScottQueue.hpp with its OrcGC variant, are *)
(* linearizable, retire a node once, never touch a node that has been      *)
(* deleted, and have lost no item when all calls have returned.            *)
(*                                                                         *)
(* First, lemmas about LockFree: Reached[k] is what at most k of the       *)
(* pending calls can have done, a configuration reached before a step is   *)
(* reached after it, and ChainIs says what Chain finds.                    *)
(*                                                                         *)
(* Then the stack and its invariant, StackInv: the nodes from the sentinel *)
(* up are f[1], ..., f[n]; the others are in the hands of one thread each, *)
(* or retired; the hp of a thread that is about to follow a link has held  *)
(* the node ever since it was in the stack; and what the stack holds is    *)
(* one of the ways in which the calls can have taken effect.               *)
(*                                                                         *)
(* Last the queue and its invariant, QueueInv; the names that the stack    *)
(* has too begin with Q.  The nodes from head on are f[1], ..., f[m], and  *)
(* tail is at f[k], the last or the one before.  If it is the one before,  *)
(* then exactly one thread has linked f[m] and not moved tail yet; any     *)
(* thread may move it.  The call takes effect in the step that moves tail: *)
(* for the thread that linked the node, whoever takes the step.  dequeue() *)
(* takes effect in its CAS, or when it finds tail at the sentinel.  What   *)
(* an hp does in one variant an orc_ptr does in the other (Holds): the     *)
(* node is not used again.                                                 *)
(***************************************************************************)
EXTENDS TreiberStack, MichaelScottQueue, FiniteSetTheorems, SequenceTheorems,
        WellFoundedInduction, TLAPS

\* The order of the numbers.
Less == {ss \in Nat \X Nat : ss[1] < ss[2]}

\* Every set of numbers has a least one: what is proved by induction below
\* is proved from the least number for which it is false.
LEMMA LeastNumber ==
    ASSUME NEW T \in SUBSET Nat, T # {}
    PROVE  \E m \in T : \A k \in T : m =< k
<1>1. IsWellFoundedOn(Less, Nat)
  BY NatLessThanWellFounded DEF OpToRel, Less
<1>2. PICK m \in T : \A k \in T : ~ (<<k, m>> \in Less)
  BY <1>1, WFMin
<1>3. \A k \in T : ~(k < m)
  BY <1>2 DEF Less
<1> QED  BY <1>2, <1>3

\* A set of numbers up to n that has 0 and with each number the next has
\* all.
LEMMA Induction ==
    ASSUME NEW n \in Nat, NEW P, 0 \in P, \A k \in 0 .. n-1 : k \in P => k + 1 \in P
    PROVE  \A k \in 0 .. n : k \in P
<1> DEFINE T == {k \in 0 .. n : k \notin P}
<1>1. SUFFICES ASSUME T # {}  PROVE FALSE
  OBVIOUS
<1>2. PICK m \in T : \A k \in T : m =< k
  <2>1. T \in SUBSET Nat
    OBVIOUS
  <2> HIDE DEF T
  <2> QED  BY <1>1, <2>1, LeastNumber
<1>3. m # 0 /\ m-1 \in 0 .. n-1 /\ m-1 \notin T
  BY <1>2
<1> QED  BY <1>2, <1>3

-----------------------------------------------------------------------------

(* What the calls can have done. *)

\* The rounds are well defined.
LEMMA Rounds ==
    \A k \in 0 .. N : Reached[k] = IF k = 0 THEN configs ELSE Round(Reached[k-1])
<1> DEFINE Def(f, n) == f = [k \in 0 .. n |-> IF k = 0 THEN configs ELSE Round(f[k-1])]
           P == {n \in 0 .. N : \E f : Def(f, n)}
<1>0. N \in Nat
  BY MemoryAssumption
<1>1. 0 \in P
  <2>1. Def([k \in 0 .. 0 |-> configs], 0)
    OBVIOUS
  <2> HIDE DEF Def
  <2>2. \E f : Def(f, 0)
    BY <2>1
  <2> QED  BY <1>0, <2>2
<1>2. ASSUME NEW n \in 0 .. N-1, n \in P  PROVE n + 1 \in P
  <2>1. PICK f : Def(f, n)
    BY <1>2
  <2> DEFINE g == [k \in 0 .. n+1 |-> IF k = n+1 THEN Round(f[n]) ELSE f[k]]
  <2>2. \A k \in 0 .. n : g[k] = f[k]
    BY <1>0
  <2>3. ASSUME NEW k \in 0 .. n+1
        PROVE  g[k] = IF k = 0 THEN configs ELSE Round(g[k-1])
    <3>1. CASE k = n+1
      <4>1. k # 0 /\ k - 1 = n /\ g[k-1] = f[n] /\ g[k] = Round(f[n])
        BY <1>0, <2>2, <3>1
      <4> HIDE DEF g
      <4> QED  BY <4>1
    <3>2. CASE k # n+1
      <4>1. k \in 0 .. n /\ g[k] = f[k] /\ (k # 0 => k-1 \in 0 .. n /\ g[k-1] = f[k-1])
        BY <1>0, <2>2, <3>2
      <4>2. f[k] = IF k = 0 THEN configs ELSE Round(f[k-1])
        BY <2>1, <4>1
      <4> HIDE DEF g
      <4> QED  BY <4>1, <4>2
    <3> QED  BY <3>1, <3>2
  <2>4. g = [k \in 0 .. n+1 |-> IF k = 0 THEN configs ELSE Round(g[k-1])]
    <3>1. g = [k \in 0 .. n+1 |-> g[k]]
      OBVIOUS
    <3> HIDE DEF g
    <3> QED  BY <2>3, <3>1
  <2>5. Def(g, n+1)
    BY <2>4
  <2> HIDE DEF Def
  <2> QED  BY <1>0, <2>5
<1>3. N \in P
  <2> HIDE DEF P
  <2> QED  BY <1>0, <1>1, <1>2, Induction
<1>4. \E f : Def(f, N)
  BY <1>3
<1>5. Def(Reached, N)
  BY <1>4, Zenon DEF Reached
<1>6. ASSUME NEW f, Def(f, N), NEW k \in 0 .. N
      PROVE  f[k] = IF k = 0 THEN configs ELSE Round(f[k-1])
  BY <1>6
<1> HIDE DEF Def
<1> QED  BY <1>5, <1>6

\* What a round adds.
RoundFacts ==
    /\ Reached[0] = configs
    /\ \A k \in 0 .. N-1 : \A d :
          d \in Reached[k+1] <=>
            \/ d \in Reached[k]
            \/ \E c \in Reached[k], u \in Threads : c.res[u] = Pending /\ d = Effect(c, u)

\* The rounds, as facts to cite.
LEMMA RoundByRound == RoundFacts
<1>0. N \in Nat
  BY MemoryAssumption
<1>1. Reached[0] = configs
  BY <1>0, Rounds
<1>2. ASSUME NEW k \in 0 .. N-1  PROVE Reached[k+1] = Round(Reached[k])
  <2>1. k+1 \in 0 .. N /\ k+1 # 0 /\ k+1-1 = k
    BY <1>0
  <2>2. Reached[k+1] = IF k+1 = 0 THEN configs ELSE Round(Reached[k+1-1])
    BY <2>1, Rounds
  <2> QED  BY <2>1, <2>2
<1>3. ASSUME NEW C, NEW d
      PROVE  d \in Round(C) <=> \/ d \in C
                               \/ \E c \in C, u \in Threads : c.res[u] = Pending /\ d = Effect(c, u)
  BY DEF Round
<1> QED  BY <1>1, <1>2, <1>3 DEF RoundFacts

\* What no call has done is reached, and what is reached are effects.
LEMMA RoundsBefore ==
    ASSUME NEW k \in 0 .. N
    PROVE  configs \subseteq Reached[k] /\ Reached[k] \subseteq Effects
<1>0. N \in Nat
  BY MemoryAssumption
<1>1. RoundFacts
  BY RoundByRound
<1>2. ASSUME NEW i \in 0 .. N  PROVE \A j \in 0 .. N-i : Reached[i] \subseteq Reached[i+j]
  <2> DEFINE P == {j \in 0 .. N-i : Reached[i] \subseteq Reached[i+j]}
  <2>1. 0 \in P
    BY <1>0
  <2>2. ASSUME NEW j \in 0 .. N-i-1, j \in P  PROVE j + 1 \in P
    <3>1. i+j \in 0 .. N-1 /\ i+(j+1) = (i+j)+1 /\ j+1 \in 0 .. N-i
      BY <1>0
    <3>2. Reached[i+j] \subseteq Reached[(i+j)+1]
      BY <1>1, <3>1 DEF RoundFacts
    <3> QED  BY <2>2, <3>1, <3>2
  <2>3. N-i \in Nat
    BY <1>0
  <2>4. \A j \in 0 .. N-i : j \in P
    <3> HIDE DEF P
    <3> QED  BY <2>1, <2>2, <2>3, Induction
  <2> QED  BY <2>4
<1>3. Reached[0] \subseteq Reached[0+k] /\ Reached[k] \subseteq Reached[k+(N-k)]
  <2>1. 0 \in 0 .. N /\ k \in 0 .. N-0 /\ N-k \in 0 .. N-k
    BY <1>0
  <2> QED  BY <1>2, <2>1
<1>4. 0+k = k /\ k+(N-k) = N
  BY <1>0
<1> QED  BY <1>1, <1>3, <1>4 DEF RoundFacts, Effects

\* A call that has not taken effect takes effect.
LEMMA TakesEffect ==
    ASSUME NEW k \in 0 .. N-1, NEW c \in Reached[k], NEW u \in Threads, c.res[u] = Pending
    PROVE  Effect(c, u) \in Reached[k+1]
  BY RoundByRound DEF RoundFacts

\* A step that is no call and no return.
LEMMA NoEffect ==
    ASSUME UNCHANGED <<configs, call>>
    PROVE  UNCHANGED Reached
  BY DEF Reached, Round, Effect, Apply

-----------------------------------------------------------------------------

Config == [abs : Seq(Nat), res : [Threads -> Int]]

\* c says nothing about the threads that execute no call.
Calm(c) == c \in Config /\ \A t \in Threads : pc[t] = "idle" => c.res[t] = NoCall

\* The calls that threads may be in: here, those of the stack and the queues.
CallType == [op : Operations \cup {"none"}, arg : Nat]
Ordered == {"push", "pop", "enqueue", "dequeue"}

MonitorInv ==
    /\ call \in [Threads -> CallType]
    /\ \A t \in Threads : pc[t] # "idle" => call[t].op \in Ordered
    /\ \A c \in configs : Calm(c)

\* A record with one result changed, written out.
LEMMA MarkedIs ==
    ASSUME NEW c \in Config, NEW t \in Threads, NEW r \in Int
    PROVE  [c EXCEPT !.res[t] = r] = [abs |-> c.abs, res |-> [c.res EXCEPT ![t] = r]]
<1>1. c = [abs |-> c.abs, res |-> c.res]
  BY DEF Config
<1>2. ASSUME NEW A, NEW R
      PROVE  [[abs |-> A, res |-> R] EXCEPT !.res[t] = r] = [abs |-> A, res |-> [R EXCEPT ![t] = r]]
  OBVIOUS
<1>3. [[abs |-> c.abs, res |-> c.res] EXCEPT !.res[t] = r]
        = [abs |-> c.abs, res |-> [c.res EXCEPT ![t] = r]]
  BY <1>2
<1> QED  BY <1>1, <1>3

\* It is a configuration.
LEMMA Marked ==
    ASSUME NEW c \in Config, NEW t \in Threads, NEW r \in Int
    PROVE  LET d == [c EXCEPT !.res[t] = r]
           IN  d \in Config /\ d.abs = c.abs /\ d.res = [c.res EXCEPT ![t] = r]
<1>1. [c EXCEPT !.res[t] = r] = [abs |-> c.abs, res |-> [c.res EXCEPT ![t] = r]]
  BY MarkedIs
<1> QED  BY <1>1 DEF Config

\* A call that takes effect leaves idle threads without a result.
LEMMA EffectCalm ==
    ASSUME MonitorInv, NEW c, Calm(c), NEW u \in Threads, c.res[u] = Pending
    PROVE  Calm(Effect(c, u)) /\ pc[u] # "idle"
<1>1. pc[u] # "idle"
  BY DEF Calm, NoCall, Pending
<1>2. c.abs \in Seq(Nat) /\ c.res \in [Threads -> Int] /\ call[u].arg \in Nat
  BY DEF Calm, Config, MonitorInv, CallType
<1>3. Apply(c.abs, call[u]).abs \in Seq(Nat) /\ Apply(c.abs, call[u]).res \in Int
  <2>1. CASE call[u].op = "push"
    <3>1. \A a \in Nat, q \in Seq(Nat) : <<a>> \o q \in Seq(Nat)
      OBVIOUS
    <3>2. Apply(c.abs, call[u]) = Answer(<<call[u].arg>> \o c.abs, True)
      BY <2>1 DEF Apply
    <3> QED  BY <1>2, <3>1, <3>2 DEF Answer, True
  <2>2. CASE call[u].op = "enqueue"
    <3>1. \A a \in Nat, q \in Seq(Nat) : Append(q, a) \in Seq(Nat)
      OBVIOUS
    <3>2. Apply(c.abs, call[u]) = Answer(Append(c.abs, call[u].arg), True)
      BY <2>2 DEF Apply
    <3> QED  BY <1>2, <3>1, <3>2 DEF Answer, True
  <2>3. CASE call[u].op \in {"pop", "dequeue"}
    <3>1. Apply(c.abs, call[u]) =
            IF c.abs = << >> THEN Answer(c.abs, Null) ELSE Answer(Tail(c.abs), Head(c.abs))
      BY <2>3 DEF Apply
    <3> QED  BY <1>2, <3>1 DEF Answer, Null
  <2> QED  BY <1>1, <2>1, <2>2, <2>3 DEF MonitorInv, Ordered
<1>4. Effect(c, u) = [abs |-> Apply(c.abs, call[u]).abs,
                      res |-> [c.res EXCEPT ![u] = Apply(c.abs, call[u]).res]]
  BY DEF Effect
<1> HIDE DEF Apply
<1> QED  BY <1>1, <1>2, <1>3, <1>4 DEF Calm, Config

\* So does any number of them.
LEMMA ReachedCalm ==
    ASSUME MonitorInv, NEW k \in 0 .. N, NEW c \in Reached[k]
    PROVE  Calm(c)
<1> DEFINE P == {j \in 0 .. N : \A d \in Reached[j] : Calm(d)}
<1>0. N \in Nat
  BY MemoryAssumption
<1>1. RoundFacts
  BY RoundByRound
<1>2. 0 \in P
  BY <1>0, <1>1 DEF RoundFacts, MonitorInv
<1>3. ASSUME NEW j \in 0 .. N-1, j \in P  PROVE j + 1 \in P
  <2>1. \A d \in Reached[j+1] : Calm(d)
    BY <1>1, <1>3, EffectCalm DEF RoundFacts
  <2> QED  BY <1>0, <2>1
<1>4. \A j \in 0 .. N : j \in P
  <2> HIDE DEF P
  <2> QED  BY <1>0, <1>2, <1>3, Induction
<1> QED  BY <1>4

\* What was possible before a call of t is possible after its first step.
LEMMA CallReaches ==
    ASSUME MonitorInv, NEW t \in Threads, pc[t] = "idle",
           configs' = {[c EXCEPT !.res[t] = Pending] : c \in configs},
           \A u \in Threads : u # t => call'[u] = call[u],
           NEW k \in 0 .. N, NEW c \in Reached[k]
    PROVE  [c EXCEPT !.res[t] = Pending] \in Reached'[k]
<1> DEFINE More(d) == [d EXCEPT !.res[t] = Pending]
           P == {j \in 0 .. N : \A d \in Reached[j] : More(d) \in Reached'[j]}
<1>0. N \in Nat
  BY MemoryAssumption
<1>1. RoundFacts /\ RoundFacts'
  BY RoundByRound, PTL
<1>2. 0 \in P
  BY <1>0, <1>1 DEF RoundFacts
<1>3. ASSUME NEW j \in 0 .. N-1, j \in P  PROVE j + 1 \in P
  <2>1. ASSUME NEW d \in Reached[j+1]  PROVE More(d) \in Reached'[j+1]
    <3>1. CASE d \in Reached[j]
      BY <1>1, <1>3, <3>1 DEF RoundFacts
    <3>2. ASSUME NEW e \in Reached[j], NEW u \in Threads, e.res[u] = Pending, d = Effect(e, u)
          PROVE  More(d) \in Reached'[j+1]
      <4>1. Calm(e) /\ u # t
        BY <1>0, <3>2, ReachedCalm, EffectCalm
      <4>2. More(e) \in Reached'[j] /\ More(e).res[u] = Pending
        BY <1>3, <3>2, <4>1 DEF Calm, Config
      <4>3. Effect(More(e), u)' = More(d)
        <5>1. call'[u] = call[u] /\ More(e).abs = e.abs
              /\ More(e).res = [e.res EXCEPT ![t] = Pending]
          BY <4>1 DEF Calm, Config
        <5> DEFINE a == Apply(e.abs, call[u])
        <5>2. Effect(More(e), u)' = [abs |-> a.abs, res |-> [More(e).res EXCEPT ![u] = a.res]]
          BY <5>1 DEF Effect
        <5>3. d = [abs |-> a.abs, res |-> [e.res EXCEPT ![u] = a.res]]
          BY <3>2 DEF Effect
        <5> HIDE DEF a
        <5>4. More(d) = [abs |-> a.abs, res |-> [[e.res EXCEPT ![u] = a.res] EXCEPT ![t] = Pending]]
          BY <5>3
        <5>5. e.res \in [Threads -> Int]
          BY <4>1 DEF Calm, Config
        <5>6. [[e.res EXCEPT ![t] = Pending] EXCEPT ![u] = a.res]
                = [[e.res EXCEPT ![u] = a.res] EXCEPT ![t] = Pending]
          BY <4>1, <5>5
        <5> QED  BY <5>1, <5>2, <5>4, <5>6
      <4>4. \A f \in Reached'[j] : f.res[u] = Pending => Effect(f, u)' \in Reached'[j+1]
        BY <1>1 DEF RoundFacts
      <4> HIDE DEF More
      <4> QED  BY <4>2, <4>3, <4>4
    <3> QED  BY <1>1, <3>1, <3>2 DEF RoundFacts
  <2> QED  BY <1>0, <2>1
<1>4. \A j \in 0 .. N : j \in P
  <2> HIDE DEF P
  <2> QED  BY <1>0, <1>2, <1>3, Induction
<1> QED  BY <1>4

-----------------------------------------------------------------------------

\* What was possible before the calls that go on is possible now.
LEMMA AlwaysIn == \A i \in 0 .. N : configs \subseteq Reached[i]
  BY RoundsBefore

\* What is possible before t returns r is possible after it, without the
\* call of t.
LEMMA ReturnReaches ==
    ASSUME NEW t \in Threads, NEW r, Return(t, r), NEW k \in 0 .. N, NEW c \in Reached[k],
           c.res[t] = r, NEW j \in 0 .. N
    PROVE  [c EXCEPT !.res[t] = NoCall] \in Reached'[j] /\ Linearizable'
<1>1. c \in Effects
  BY RoundsBefore
<1>2. [c EXCEPT !.res[t] = NoCall] \in configs'
  BY <1>1 DEF Return
<1>3. (\A i \in 0 .. N : configs \subseteq Reached[i])'
  BY AlwaysIn, PTL
<1> QED  BY <1>2, <1>3 DEF Linearizable

\* A return keeps the types of the monitor.
LEMMA ReturnKeepsMonitor ==
    ASSUME MonitorInv, NEW t \in Threads, NEW r, Return(t, r), NEW P, pc \in [Threads -> P]
    PROVE  MonitorInv'
<1>1. call' \in [Threads -> CallType]
  <2>1. NotCalled \in CallType
    BY DEF NotCalled, Null, CallType
  <2> QED  BY <2>1 DEF MonitorInv, Return
<1>2. \A u \in Threads : pc'[u] # "idle" => pc[u] # "idle" /\ call'[u] = call[u]
  BY DEF MonitorInv, Return
<1>3. ASSUME NEW c \in configs'  PROVE Calm(c)'
  <2>1. PICK d \in Effects : c = [d EXCEPT !.res[t] = NoCall]
    BY DEF Return
  <2>2. Calm(d)
    BY <2>1, ReachedCalm, MemoryAssumption DEF Effects
  <2>3. c.abs = d.abs /\ c.res = [d.res EXCEPT ![t] = NoCall] /\ c \in Config
    BY <2>1, <2>2, Marked DEF Calm, NoCall
  <2>4. \A u \in Threads \ {t} : pc'[u] = "idle" => pc[u] = "idle"
    BY DEF Return
  <2> QED  BY <2>2, <2>3, <2>4 DEF Calm, Config, NoCall
<1> QED  BY <1>1, <1>2, <1>3 DEF MonitorInv

\* So does a call.
LEMMA CallKeepsMonitor ==
    ASSUME MonitorInv, NEW t \in Threads, NEW o \in Ordered, NEW l, l # "idle", NEW x,
           Call(t, o, l, x), calls \in [Threads -> Nat], structure \in DOMAIN Program,
           NEW P, pc \in [Threads -> P]
    PROVE  /\ MonitorInv'
           /\ call'[t].op = o /\ \A u \in Threads \ {t} : call'[u] = call[u]
<1>1. PICK c \in Program[structure][t][calls[t] + 1] : c.op = o /\ call' = [call EXCEPT ![t] = c]
  BY DEF Call
<1>2. c \in CallType
  <2> DEFINE p == Program[structure][t]
  <2>1. p \in Seq(SUBSET [op : Operations, arg : Nat])
    BY ProgramAssumption
  <2>2. calls[t] + 1 \in 1 .. Len(p)
    BY <2>1 DEF Call
  <2> HIDE DEF p
  <2>3. p[calls[t] + 1] \in SUBSET [op : Operations, arg : Nat]
    BY <2>1, <2>2
  <2> QED  BY <1>1, <2>3 DEF p, CallType
<1>3. call' \in [Threads -> CallType] /\ call'[t] = c
      /\ \A u \in Threads \ {t} : call'[u] = call[u]
  BY <1>1, <1>2 DEF MonitorInv
<1>4. \A u \in Threads \ {t} : pc'[u] = pc[u]
  BY DEF Call
<1>5. ASSUME NEW d \in configs'  PROVE Calm(d)'
  <2>1. PICK e \in configs : d = [e EXCEPT !.res[t] = Pending]
    BY DEF Call
  <2>2. Calm(e)
    BY DEF MonitorInv
  <2>3. d.abs = e.abs /\ d.res = [e.res EXCEPT ![t] = Pending] /\ d \in Config
    BY <2>1, <2>2, Marked DEF Calm, Pending
  <2>4. pc'[t] # "idle"
    BY DEF Call
  <2> QED  BY <1>4, <2>2, <2>3, <2>4 DEF Calm, Config
<1> QED  BY <1>1, <1>3, <1>4, <1>5 DEF MonitorInv

-----------------------------------------------------------------------------

\* A function on 1 .. m is a sequence.
LEMMA SeqOf ==
    ASSUME NEW m \in Nat, NEW e \in [1 .. m -> Nat]
    PROVE  e \in Seq(Nat) /\ Len(e) = m /\ (e = << >> <=> m = 0)
<1>1. e \in Seq(Nat)
  BY SeqDef
<1>2. DOMAIN e = 1 .. Len(e) /\ Len(e) \in Nat
  BY <1>1
<1>3. Len(e) = m
  BY <1>1, <1>2, LenProperties
<1> QED  BY <1>1, <1>3, EmptySeq

\* push() and pop() of sequences that are given by their elements.
LEMMA PushedSeq ==
    ASSUME NEW m \in Nat, NEW e \in [1 .. m -> Nat], NEW a \in Nat, NEW h \in [1 .. m+1 -> Nat],
           h[1] = a, \A i \in 1 .. m : h[i+1] = e[i]
    PROVE  <<a>> \o e = h
<1>1. e \in Seq(Nat) /\ Len(e) = m /\ h \in Seq(Nat) /\ Len(h) = m + 1
  BY SeqOf
<1>2. <<a>> \in Seq(Nat) /\ Len(<<a>>) = 1
  OBVIOUS
<1>3. ASSUME NEW i \in 1 .. m+1  PROVE h[i] = (<<a>> \o e)[i]
  <2>1. CASE i = 1
    BY <1>1, <1>2, <2>1
  <2>2. CASE i # 1
    <3>1. i - 1 \in 1 .. m /\ (i-1)+1 = i
      BY <2>2
    <3> QED  BY <1>1, <1>2, <2>2, <3>1
  <2> QED  BY <2>1, <2>2
<1>4. Len(<<a>> \o e) = m+1 /\ <<a>> \o e \in Seq(Nat)
  BY <1>1, <1>2
<1> QED  BY <1>1, <1>3, <1>4, SeqEqual

\* The sequence without its first item.
LEMMA PoppedSeq ==
    ASSUME NEW m \in Nat \ {0}, NEW e \in [1 .. m -> Nat], NEW h \in [1 .. m-1 -> Nat],
           \A i \in 1 .. m-1 : h[i] = e[i+1]
    PROVE  e # << >> /\ Tail(e) = h /\ Head(e) = e[1]
<1>1. e \in Seq(Nat) /\ Len(e) = m /\ h \in Seq(Nat) /\ Len(h) = m - 1 /\ e # << >>
  <2>1. m \in Nat /\ m - 1 \in Nat
    OBVIOUS
  <2> QED  BY <2>1, SeqOf
<1>2. Len(Tail(e)) = m - 1 /\ Tail(e) \in Seq(Nat) /\ \A i \in 1 .. m-1 : Tail(e)[i] = e[i+1]
  BY <1>1
<1> QED  BY <1>1, <1>2, SeqEqual

\* A thread changes its own place, locals and call.
OthersStay(t) == \A u \in Threads \ {t} :
    pc'[u] = pc[u] /\ loc'[u] = loc[u] /\ call'[u] = call[u]

\* A step in the middle of a call changes nothing that is reached.
LEMMA QuietKeepsMonitor ==
    ASSUME MonitorInv, Linearizable, NEW t \in Threads, pc[t] # "idle",
           NEW P, pc \in [Threads -> P],
           NEW l, l # "idle", pc' = [pc EXCEPT ![t] = l], UNCHANGED monitor
    PROVE  MonitorInv' /\ Linearizable' /\ Reached' = Reached
<1>1. Reached' = Reached
  BY NoEffect DEF monitor
<1>2. \A u \in Threads : pc'[u] = "idle" <=> pc[u] = "idle"
  OBVIOUS
<1>3. \A c : Calm(c)' <=> Calm(c)
  BY <1>2 DEF Calm
<1> QED  BY <1>1, <1>2, <1>3 DEF MonitorInv, monitor, Linearizable

\* Calls are counted.
LEMMA Counted ==
    ASSUME NEW S \in SUBSET Threads
    PROVE  /\ Cardinality(S) \in 0 .. N
           /\ \A u \in Threads \ S : /\ Cardinality(S) \in 0 .. N-1
                                    /\ Cardinality(S \cup {u}) = Cardinality(S) + 1
<1>0. N \in Nat \ {0}
  BY MemoryAssumption
<1>1. IsFiniteSet(Threads) /\ Cardinality(Threads) = N
  BY <1>0, FS_Interval DEF Threads
<1>2. IsFiniteSet(S) /\ Cardinality(S) \in Nat /\ Cardinality(S) =< N
      /\ (S # Threads => Cardinality(S) # N)
  BY <1>1, FS_Subset, FS_CardinalityType
<1>3. \A u \in Threads \ S : Cardinality(S \cup {u}) = Cardinality(S) + 1
  BY <1>2, FS_AddElement
<1> QED  BY <1>0, <1>2, <1>3

\* Nodes that lead from one to the next, and none from the last, are the
\* chain from the first on.
LEMMA ChainIs ==
    ASSUME NEW m \in Nat \ {0}, NEW f \in [1 .. m -> Addr],
           \A i \in 1 .. m-1 : node[f[i]].next = f[i+1],
           node[f[m]].next = Null,
           \A i, j \in 1 .. m : f[i] = f[j] => i = j
    PROVE  Chain(f[1]) = f
<1> DEFINE Def(F) == F = [i \in 1 .. Addrs |->
              IF i = 1 THEN f[1]
              ELSE LET b == F[i-1] IN IF b \in Addr THEN node[b].next ELSE Null]
           C == CHOOSE F : Def(F)
           E == [i \in 1 .. Addrs |-> IF i <= m THEN f[i] ELSE Null]
<1>0. /\ Addrs \in Nat /\ Null \notin Addr /\ m \in 1 .. m
      /\ \A i \in 1 .. m-1 : node[f[i]].next = f[i+1] /\ f[i] \in Addr
      /\ node[f[m]].next = Null
      /\ \A i, j \in 1 .. m : f[i] = f[j] => i = j
  BY MemoryAssumption DEF Addr, Null
<1>1. m <= Addrs
  <2>1. IsFiniteSet(Addr) /\ Cardinality(Addr) = Addrs
    <3>1. 1 \in Int /\ Addrs \in Int /\ Addrs # 0 /\ Addrs-1+1 = Addrs /\ 1 <= Addrs
      BY MemoryAssumption
    <3>2. IsFiniteSet(1 .. Addrs) /\ Cardinality(1 .. Addrs) = IF 1 > Addrs THEN 0 ELSE Addrs-1+1
      BY <3>1, FS_Interval
    <3> QED  BY <3>1, <3>2 DEF Addr
  <2>2. Cardinality(1 .. m) = m
    BY FS_Interval
  <2>3. f \in Injection(1 .. m, Addr)
    BY <1>0 DEF Injection, IsInjective
  <2> QED  BY <2>1, <2>2, <2>3, FS_Injection
<1>2. Def(E)
  <2>1. ASSUME NEW i \in 1 .. Addrs
        PROVE  E[i] = IF i = 1 THEN f[1]
                      ELSE LET b == E[i-1] IN IF b \in Addr THEN node[b].next ELSE Null
    <3>1. CASE i = 1
      BY <1>0, <3>1
    <3>2. CASE i # 1
      <4>1. i-1 \in 1 .. Addrs /\ E[i] = (IF i <= m THEN f[i] ELSE Null)
            /\ E[i-1] = IF i-1 <= m THEN f[i-1] ELSE Null
        <5>1. i-1 \in 1 .. Addrs
          BY <1>0, <3>2
        <5> QED  BY <5>1
      <4>2. CASE i <= m
        <5>1. i-1 \in 1 .. m-1 /\ (i-1)+1 = i
          BY <3>2, <4>2
        <5> QED  BY <1>0, <3>2, <4>1, <4>2, <5>1
      <4>3. CASE i = m+1
        BY <1>0, <3>2, <4>1, <4>3
      <4>4. CASE i > m+1
        BY <1>0, <3>2, <4>1, <4>4
      <4> QED  BY <4>2, <4>3, <4>4
    <3> QED  BY <3>1, <3>2
  <2>2. E = [i \in 1 .. Addrs |-> E[i]]
    OBVIOUS
  <2> HIDE DEF E
  <2> QED  BY <2>1, <2>2
<1>3. Def(C)
  <2> HIDE DEF Def, E
  <2> QED  BY <1>2
<1>4. C = E
  <2> HIDE DEF C
  <2> DEFINE P == {n \in 0 .. Addrs-1 : C[n+1] = E[n+1]}
  <2>0. /\ \A i \in 1 .. Addrs : C[i] = IF i = 1 THEN f[1]
              ELSE LET b == C[i-1] IN IF b \in Addr THEN node[b].next ELSE Null
        /\ \A i \in 1 .. Addrs : E[i] = IF i = 1 THEN f[1]
              ELSE LET b == E[i-1] IN IF b \in Addr THEN node[b].next ELSE Null
        /\ C = [i \in 1 .. Addrs |-> C[i]]
        /\ E = [i \in 1 .. Addrs |-> E[i]]
    <3> HIDE DEF E
    <3> QED  BY <1>2, <1>3
  <2>a. Addrs \in Nat /\ Addrs-1 \in Nat
    BY MemoryAssumption
  <2> HIDE DEF E
  <2>1. 0 \in P
    <3>1. 0 \in 0 .. Addrs-1 /\ 0+1 = 1 /\ 1 \in 1 .. Addrs
      BY <2>a
    <3>2. C[1] = E[1]
      BY <2>0, <3>1
    <3> QED  BY <3>1, <3>2
  <2>2. ASSUME NEW n \in 0 .. (Addrs-1)-1, n \in P  PROVE n+1 \in P
    <3>1. (n+1)+1 \in 1 .. Addrs /\ (n+1)+1 # 1 /\ ((n+1)+1)-1 = n+1 /\ n+1 \in 0 .. Addrs-1
      BY <2>a
    <3>2. C[n+1] = E[n+1]
      BY <2>2
    <3>3. C[(n+1)+1] = E[(n+1)+1]
      BY <2>0, <3>1, <3>2
    <3> QED  BY <3>1, <3>3
  <2>3. \A n \in 0 .. Addrs-1 : n \in P
    <3> HIDE DEF P
    <3> QED  BY <2>a, <2>1, <2>2, Induction
  <2>4. ASSUME NEW i \in 1 .. Addrs  PROVE C[i] = E[i]
    <3>1. i-1 \in P /\ (i-1)+1 = i
      <4>1. i-1 \in 0 .. Addrs-1 /\ (i-1)+1 = i
        BY <2>a
      <4> HIDE DEF P
      <4> QED  BY <2>3, <4>1
    <3> QED  BY <3>1
  <2>5. [i \in 1 .. Addrs |-> C[i]] = [i \in 1 .. Addrs |-> E[i]]
    BY <2>4
  <2> QED  BY <2>0, <2>5
<1>5. Cardinality({j \in 1 .. Addrs : C[j] \in Addr}) = m
  <2>1. \A j \in 1 .. Addrs : E[j] \in Addr <=> j \in 1 .. m
    BY <1>0, <1>1
  <2> HIDE DEF C, E
  <2>2. {j \in 1 .. Addrs : C[j] \in Addr} = 1 .. m
    <3>1. \A j \in 1 .. m : j \in 1 .. Addrs
      BY <1>0, <1>1
    <3> QED  BY <1>4, <2>1, <3>1
  <2>3. Cardinality(1 .. m) = m
    BY FS_Interval
  <2> QED  BY <2>2, <2>3
<1>6. Chain(f[1]) = [i \in 1 .. Cardinality({j \in 1 .. Addrs : C[j] \in Addr}) |-> C[i]]
  BY Zenon DEF Chain
<1>7. [i \in 1 .. m |-> C[i]] = f
  <2>1. \A i \in 1 .. m : E[i] = f[i]
    BY <1>0, <1>1
  <2> HIDE DEF C, E
  <2>2. \A i \in 1 .. m : C[i] = f[i]
    BY <1>4, <2>1
  <2> QED  BY <2>2
<1> HIDE DEF C
<1> QED  BY <1>5, <1>6, <1>7

-----------------------------------------------------------------------------

(* The stack: the invariant. *)

\* The behaviours of TreiberStack.hpp.
ManualSpec == Init /\ ~orc /\ structure \in DOMAIN Program /\ [][Next]_vars

Local == [head : Nat, next : Nat, new : Nat]

Place == {"idle", "push_cas", "pop_head", "pop_empty", "pop_next", "pop_cas", "pop_item"}

TypeInv ==
    /\ ~orc /\ structure \in DOMAIN Program
    /\ root \in [head : Addr, sentinel : {1}]
    /\ node \in [Addr -> [item : Nat, next : Nat]]
    /\ hp \in [Slot -> Nat]
    /\ mem \in [Addr -> {"none", "used", "retired"}]
    /\ since \in [Addr -> SUBSET Slot]
    /\ pc \in [Threads -> Place]
    /\ loc \in [Threads -> Local \cup {NoLocals}]
    /\ calls \in [Threads -> Nat]

\* A thread that executes a call is in the code of its operation.
Inside(t) ==
    /\ pc[t] # "idle" => loc[t] \in Local
    /\ pc[t] = "push_cas" => call[t].op = "push"
    /\ pc[t] \notin {"idle", "push_cas"} => call[t].op = "pop"

\* The node that only t may change: the one it pushes or has popped.
Mine(t) ==
    CASE pc[t] = "push_cas" -> {loc[t].new}
      [] pc[t] = "pop_item" -> {loc[t].head}
      [] OTHER -> {}

\* The node that is to be pushed has been filled in.
Filled(t) == pc[t] = "push_cas" =>
    node[loc[t].new] = [item |-> call[t].arg, next |-> loc[t].head]

\* The node that t has protected was in the stack then.  It is not pushed
\* once more, and what it leads to does not change.
Seen(t) == pc[t] \in {"pop_next", "pop_cas"} =>
    LET h == loc[t].head
    IN  /\ h \in Addr \ {1} /\ hp[<<t, 0>>] = h
        /\ \/ mem[h] = "used" /\ \A u \in Threads : pc[u] = "push_cas" => loc[u].new # h
           \/ mem[h] = "retired" /\ <<t, 0>> \in since[h]
        /\ pc[t] = "pop_cas" => loc[t].next = node[h].next

\* The nodes of the stack from the sentinel up: f[1], ..., f[n].
Stacked(n, f) ==
    /\ f[1] = 1 /\ root.head = f[n]
    /\ \A i \in 1 .. n : mem[f[i]] = "used"
    /\ node[f[1]].next = Null
    /\ \A i \in 1 .. n-1 : node[f[i+1]].next = f[i]
    /\ \A i, j \in 1 .. n : f[i] = f[j] => i = j

\* The others are in the hands of one thread each.
Apart(n, f) == \A t \in Threads : \A a \in Mine(t) :
    /\ a \in Addr \ {1} /\ mem[a] = "used"
    /\ \A i \in 1 .. n : f[i] # a
    /\ \A u \in Threads \ {t} : a \notin Mine(u)

\* What the calls have done so far, if each takes effect with its CAS, or
\* when it finds the stack empty.
Items(n, f) == [i \in 1 .. n-1 |-> node[f[n+1-i]].item]
Result(t) ==
    CASE pc[t] = "idle"      -> NoCall
      [] pc[t] = "pop_empty" -> Null
      [] pc[t] = "pop_item"  -> node[loc[t].head].item
      [] OTHER               -> Pending
Results == [t \in Threads |-> Result(t)]
Now(n, f) == [abs |-> Items(n, f), res |-> Results]

\* The calls that have taken effect and not returned.
Ahead == {t \in Threads : pc[t] \in {"pop_empty", "pop_item"}}

Good(n, f) ==
    /\ Stacked(n, f) /\ Apart(n, f)
    /\ Now(n, f) \in Reached[Cardinality(Ahead)]

StackInv ==
    /\ TypeInv /\ MonitorInv /\ Linearizable
    /\ \A t \in Threads : Inside(t) /\ Filled(t) /\ Seen(t)
    /\ \E n \in Nat \ {0} : \E f \in [1 .. n -> Addr] : Good(n, f)

-----------------------------------------------------------------------------

(* The stack: its steps. *)

\* A thread changes its own place, locals and call.
LEMMA OnlyOwn ==
    ASSUME TypeInv, MonitorInv, NEW t \in Threads, Push(t) \/ Pop(t) \/ Internal(t)
    PROVE  OthersStay(t)
<1>1. CASE Push(t) \/ Pop(t)
  BY <1>1 DEF Push, Pop, Call, OthersStay, TypeInv, MonitorInv
<1>2. CASE PushCas(t) \/ PopEmpty(t) \/ PopItem(t)
  BY <1>2 DEF PushCas, PopEmpty, PopItem, Return, OthersStay, TypeInv, MonitorInv
<1>3. CASE PushRetry(t) \/ PopHead(t) \/ PopNext(t) \/ PopCas(t)
  BY <1>3 DEF PushRetry, PopHead, Load, PopNext, PopCas, Goto, monitor, OthersStay,
     TypeInv, MonitorInv
<1> QED  BY <1>1, <1>2, <1>3 DEF Internal, PushSteps, PopSteps

\* The calls that have taken effect are counted.
LEMMA AheadCount ==
    ASSUME pc \in [Threads -> Place], NEW t \in Threads, NEW l \in Place,
           pc' = [pc EXCEPT ![t] = l]
    PROVE  LET k == Cardinality(Ahead)
           IN  /\ k \in 0 .. N /\ Cardinality(Ahead)' \in 0 .. N
               /\ t \notin Ahead => k \in 0 .. N-1
               /\ t \notin Ahead =>
                     Cardinality(Ahead)' = IF l \in {"pop_empty", "pop_item"} THEN k+1 ELSE k
<1>0. N \in Nat \ {0}
  BY MemoryAssumption
<1>1. IsFiniteSet(Threads) /\ Cardinality(Threads) = N
  BY <1>0, FS_Interval DEF Threads
<1>2. ASSUME NEW S \in SUBSET Threads
      PROVE  /\ IsFiniteSet(S) /\ Cardinality(S) \in 0 .. N
             /\ S # Threads => Cardinality(S) \in 0 .. N-1
  <2>1. IsFiniteSet(S) /\ Cardinality(S) \in Nat /\ Cardinality(S) =< N
        /\ (S # Threads => Cardinality(S) # N)
    BY <1>1, FS_Subset, FS_CardinalityType
  <2> QED  BY <1>0, <2>1
<1>3. Ahead \in SUBSET Threads /\ Ahead' \in SUBSET Threads
  BY DEF Ahead
<1>4. t \notin Ahead => Ahead' = IF l \in {"pop_empty", "pop_item"} THEN Ahead \cup {t} ELSE Ahead
  BY DEF Ahead
<1>5. t \notin Ahead => Cardinality(Ahead \cup {t}) = Cardinality(Ahead) + 1
  BY <1>2, <1>3, FS_AddElement
<1>6. Cardinality(Ahead)' = Cardinality(Ahead')
  OBVIOUS
<1>7. Cardinality(Ahead') \in 0 .. N /\ Cardinality(Ahead) \in 0 .. N
      /\ (t \notin Ahead => Cardinality(Ahead) \in 0 .. N-1)
  BY <1>2, <1>3
<1> HIDE DEF Ahead
<1> QED  BY <1>4, <1>5, <1>6, <1>7

\* What the others have got.
LEMMA ResultsAfter ==
    ASSUME NEW t \in Threads, OthersStay(t),
           \A u \in Threads \ {t} : pc[u] = "pop_item" =>
               node'[loc[u].head].item = node[loc[u].head].item
    PROVE  Results' = [Results EXCEPT ![t] = Result(t)']
<1>1. \A u \in Threads \ {t} : Result(u)' = Result(u)
  BY DEF Result, OthersStay
<1> QED  BY <1>1 DEF Results

\* What another thread has protected stays protected.
LEMMA SeenAfter ==
    ASSUME NEW u \in Threads, Seen(u), pc'[u] = pc[u], loc'[u] = loc[u],
           pc[u] \in {"pop_next", "pop_cas"} =>
             LET h == loc[u].head
             IN  /\ hp'[<<u, 0>>] = hp[<<u, 0>>] /\ node'[h].next = node[h].next
                 /\ mem[h] = "used" =>
                      \/ /\ mem'[h] = "used"
                         /\ \A v \in Threads : pc'[v] = "push_cas" =>
                               loc'[v].new # h \/ (pc[v] = "push_cas" /\ loc'[v].new = loc[v].new)
                      \/ mem'[h] = "retired" /\ <<u, 0>> \in since'[h]
                 /\ mem[h] = "retired" /\ <<u, 0>> \in since[h] =>
                      mem'[h] = "retired" /\ <<u, 0>> \in since'[h]
    PROVE  Seen(u)'
<1> SUFFICES ASSUME pc[u] \in {"pop_next", "pop_cas"}  PROVE Seen(u)'
  BY DEF Seen
<1> DEFINE h == loc[u].head
<1>1. h \in Addr \ {1} /\ hp[<<u, 0>>] = h /\ (pc[u] = "pop_cas" => loc[u].next = node[h].next)
      /\ \/ mem[h] = "used" /\ \A v \in Threads : pc[v] = "push_cas" => loc[v].new # h
         \/ mem[h] = "retired" /\ <<u, 0>> \in since[h]
  BY DEF Seen
<1>2. loc'[u].head = h /\ loc'[u].next = loc[u].next
  OBVIOUS
<1>3. \/ mem'[h] = "used" /\ \A v \in Threads : pc'[v] = "push_cas" => loc'[v].new # h
      \/ mem'[h] = "retired" /\ <<u, 0>> \in since'[h]
  <2>1. CASE mem[h] = "used" /\ \A v \in Threads : pc[v] = "push_cas" => loc[v].new # h
    BY <2>1
  <2>2. CASE mem[h] = "retired" /\ <<u, 0>> \in since[h]
    BY <2>2
  <2> QED  BY <1>1, <2>1, <2>2
<1>4. hp'[<<u, 0>>] = h /\ node'[h].next = node[h].next
  BY <1>1
<1> HIDE DEF h
<1> QED  BY <1>1, <1>2, <1>3, <1>4 DEF Seen

\* The nodes of the others stay theirs.
LEMMA MineAfter ==
    ASSUME NEW t \in Threads, OthersStay(t), NEW u \in Threads \ {t}
    PROVE  Mine(u)' = Mine(u)
  BY DEF Mine, OthersStay

\* The items of the stack are a sequence of numbers.
LEMMA ItemsType ==
    ASSUME TypeInv, NEW n \in Nat \ {0}, NEW f \in [1 .. n -> Addr]
    PROVE  /\ Items(n, f) \in [1 .. n-1 -> Nat] /\ Items(n, f) \in Seq(Nat)
           /\ Len(Items(n, f)) = n - 1 /\ (Items(n, f) = << >> <=> n = 1)
<1>1. \A i \in 1 .. n-1 : f[n+1-i] \in Addr
  OBVIOUS
<1>2. Items(n, f) \in [1 .. n-1 -> Nat]
  BY <1>1 DEF Items, TypeInv
<1>3. n - 1 \in Nat /\ (n = 1 <=> n - 1 = 0)
  OBVIOUS
<1> HIDE DEF Items
<1> QED  BY <1>2, <1>3, SeqOf

\* t has protected a node of the stack.
LEMMA HpIndex == \A t \in Threads : <<t, 0>> \in Slot
  BY MemoryAssumption DEF Slot, Index

-----------------------------------------------------------------------------

\* push() puts its node where nobody has one, and nobody has protected it.
LEMMA PushStep ==
    ASSUME StackInv, NEW t \in Threads, Push(t), UNCHANGED fixed
    PROVE  StackInv'
<1> USE DEF StackInv
<1>1. PICK a \in Free(Live) :
          /\ Call(t, "push", "push_cas", [head |-> root.head, next |-> Null, new |-> a])
          /\ Allocate({a})
          /\ node' = [node EXCEPT ![a] = [item |-> call'[t].arg, next |-> root.head]]
          /\ UNCHANGED root
  BY DEF Push
<1> DEFINE x == [head |-> root.head, next |-> Null, new |-> a]
<1>2. a \in Addr /\ mem[a] # "used" /\ (mem[a] = "retired" => since[a] = {})
  BY DEF Free, Deleted, TypeInv
<1>3. x \in Local /\ x.new = a /\ x.head = root.head
  <2>1. root.head \in Nat /\ a \in Nat /\ Null \in Nat
    BY <1>2 DEF TypeInv, Addr, Null
  <2> QED  BY <2>1 DEF Local
<1>4. /\ pc[t] = "idle" /\ pc' = [pc EXCEPT ![t] = "push_cas"] /\ loc' = [loc EXCEPT ![t] = x]
      /\ calls' = [calls EXCEPT ![t] = @ + 1]
      /\ configs' = {[c EXCEPT !.res[t] = Pending] : c \in configs}
  BY <1>1 DEF Call
<1>5. /\ MonitorInv' /\ call'[t].op = "push" /\ \A u \in Threads \ {t} : call'[u] = call[u]
  BY <1>1, CallKeepsMonitor DEF TypeInv, Ordered
<1>6. OthersStay(t)
  BY OnlyOwn
<1>7. /\ hp' = hp
      /\ \A b \in Addr : mem'[b] = IF b = a THEN "used" ELSE mem[b]
      /\ \A b \in Addr : since'[b] = IF b = a THEN {} ELSE since[b]
      /\ mem' \in [Addr -> {"none", "used", "retired"}] /\ since' \in [Addr -> SUBSET Slot]
  BY <1>1, <1>2 DEF Allocate, TypeInv
<1>8. call'[t].arg \in Nat
  BY <1>5 DEF MonitorInv, CallType
<1>9. node' = [node EXCEPT ![a] = [item |-> call'[t].arg, next |-> root.head]]
  BY <1>1
<1>10. /\ node'[a] = [item |-> call'[t].arg, next |-> root.head]
       /\ \A b \in Addr \ {a} : node'[b] = node[b]
       /\ node' \in [Addr -> [item : Nat, next : Nat]]
  BY <1>2, <1>8, <1>9 DEF TypeInv, Addr
<1>11. TypeInv'
  BY <1>1, <1>3, <1>4, <1>7, <1>10 DEF TypeInv, fixed, Place
<1>12. Linearizable'
  BY <1>4 DEF Linearizable
<1>13. pc'[t] = "push_cas" /\ loc'[t] = x /\ loc'[t].new = a /\ loc'[t].head = root.head
  BY <1>3, <1>4 DEF TypeInv
<1> HIDE DEF x
<1>14. \A u \in Threads : Inside(u)'
  BY <1>3, <1>5, <1>6, <1>13 DEF Inside, OthersStay
<1>15. Mine(t)' = {a} /\ Mine(t) = {} /\ \A u \in Threads \ {t} : Mine(u)' = Mine(u)
  <2>1. Mine(t)' = {a} /\ Mine(t) = {}
    BY <1>4, <1>13 DEF Mine
  <2> QED  BY <1>6, <2>1, MineAfter
<1>16. PICK n \in Nat \ {0} : \E f \in [1 .. n -> Addr] : Good(n, f)
  OBVIOUS
<1>17. PICK f \in [1 .. n -> Addr] : Good(n, f)
  BY <1>16
<1>18. \A i \in 1 .. n : f[i] \in Addr \ {a}
  BY <1>2, <1>17 DEF Good, Stacked
<1>19. \A u \in Threads \ {t} : a \notin Mine(u)
  BY <1>2, <1>17 DEF Good, Apart
<1>20. ASSUME NEW u \in Threads  PROVE Filled(u)'
  <2>1. CASE u = t
    BY <1>10, <1>13, <2>1 DEF Filled
  <2>2. CASE u # t /\ pc[u] = "push_cas"
    <3>1. loc[u].new \in Addr \ {a}
      BY <1>17, <1>19, <2>2 DEF Good, Apart, Mine
    <3>2. node[loc[u].new] = [item |-> call[u].arg, next |-> loc[u].head]
      BY <2>2 DEF Filled
    <3>3. node'[loc[u].new] = node[loc[u].new] /\ loc'[u] = loc[u] /\ call'[u] = call[u]
      BY <1>6, <1>10, <2>2, <3>1 DEF OthersStay
    <3> QED  BY <3>2, <3>3 DEF Filled
  <2> QED  BY <1>6, <2>1, <2>2 DEF Filled, OthersStay
<1>21. ASSUME NEW u \in Threads  PROVE Seen(u)'
  <2>1. CASE u = t
    BY <1>13, <2>1 DEF Seen
  <2>2. CASE u # t /\ pc[u] \in {"pop_next", "pop_cas"}
    <3>1. pc'[u] = pc[u] /\ loc'[u] = loc[u]
      BY <1>6, <2>2 DEF OthersStay
    <3>2. loc[u].head # a
      BY <1>2, <2>2 DEF Seen
    <3>3. ASSUME NEW v \in Threads, pc'[v] = "push_cas"
          PROVE  loc'[v].new = a \/ (pc[v] = "push_cas" /\ loc'[v].new = loc[v].new)
      BY <1>6, <1>13, <3>3 DEF OthersStay
    <3>4. loc[u].head \in Addr \ {1} /\ hp'[<<u, 0>>] = loc[u].head
      BY <1>7, <2>2 DEF Seen
    <3>5. \/ /\ mem'[loc[u].head] = "used"
             /\ \A v \in Threads : pc'[v] = "push_cas" => loc'[v].new # loc[u].head
          \/ mem'[loc[u].head] = "retired" /\ <<u, 0>> \in since'[loc[u].head]
      <4>1. CASE mem[loc[u].head] = "used"
        BY <1>7, <2>2, <3>2, <3>3, <3>4, <4>1 DEF Seen
      <4>2. CASE mem[loc[u].head] # "used"
        BY <1>7, <2>2, <3>2, <3>4, <4>2 DEF Seen
      <4> QED  BY <4>1, <4>2
    <3>6. pc[u] = "pop_cas" => loc[u].next = node'[loc[u].head].next
      BY <1>10, <2>2, <3>2, <3>4 DEF Seen
    <3> QED  BY <3>1, <3>4, <3>5, <3>6 DEF Seen
  <2> QED  BY <1>6, <2>1, <2>2 DEF Seen, OthersStay
<1>22. Stacked(n, f)'
  <2>1. \A i \in 1 .. n : mem'[f[i]] = mem[f[i]] /\ node'[f[i]] = node[f[i]]
    BY <1>7, <1>10, <1>18
  <2>2. \A i \in 1 .. n-1 : i + 1 \in 1 .. n
    OBVIOUS
  <2>3. 1 \in 1 .. n
    OBVIOUS
  <2> QED  BY <1>1, <1>17, <2>1, <2>2, <2>3 DEF Good, Stacked
<1>23. Apart(n, f)'
  <2>1. 1 # a
    BY <1>17, <1>18 DEF Good, Stacked
  <2>2. ASSUME NEW u \in Threads, NEW b \in Mine(u)'
        PROVE  /\ b \in Addr \ {1} /\ mem'[b] = "used" /\ \A i \in 1 .. n : f[i] # b
               /\ \A v \in Threads \ {u} : b \notin Mine(v)'
    <3>1. CASE u = t
      BY <1>2, <1>7, <1>15, <1>18, <1>19, <2>1, <2>2, <3>1
    <3>2. CASE u # t
      <4>1. b \in Mine(u) /\ b # a
        BY <1>15, <1>19, <2>2, <3>2
      <4> QED  BY <1>7, <1>15, <1>17, <3>2, <4>1 DEF Good, Apart
    <3> QED  BY <3>1, <3>2
  <2> QED  BY <2>2 DEF Apart
<1>24. Now(n, f)' = [Now(n, f) EXCEPT !.res[t] = Pending]
  <2>1. Items(n, f)' = Items(n, f)
    <3>1. \A i \in 1 .. n-1 : f[n+1-i] \in Addr \ {a}
      BY <1>18
    <3> QED  BY <1>10, <3>1 DEF Items
  <2>2. \A u \in Threads \ {t} : pc[u] = "pop_item" => node'[loc[u].head] = node[loc[u].head]
    <3>1. \A u \in Threads \ {t} : pc[u] = "pop_item" => loc[u].head \in Addr \ {a}
      BY <1>17, <1>19 DEF Good, Apart, Mine
    <3> QED  BY <1>10, <3>1
  <2>3. Results' = [Results EXCEPT ![t] = Pending]
    <3>1. Result(t)' = Pending
      BY <1>13 DEF Result
    <3> QED  BY <1>6, <2>2, <3>1, ResultsAfter
  <2> QED  BY <2>1, <2>3 DEF Now
<1>25. Now(n, f)' \in Reached'[Cardinality(Ahead)']
  <2>1. t \notin Ahead
    BY <1>4 DEF Ahead
  <2>2. Cardinality(Ahead)' = Cardinality(Ahead) /\ Cardinality(Ahead) \in 0 .. N
    BY <1>4, <2>1, AheadCount DEF TypeInv, Place
  <2>3. Now(n, f) \in Reached[Cardinality(Ahead)]
    BY <1>17 DEF Good
  <2>4. [Now(n, f) EXCEPT !.res[t] = Pending] \in Reached'[Cardinality(Ahead)]
    BY <1>4, <1>5, <2>2, <2>3, CallReaches
  <2> QED  BY <1>24, <2>2, <2>4
<1>26. Good(n, f)'
  BY <1>22, <1>23, <1>25 DEF Good
<1> QED  BY <1>5, <1>11, <1>12, <1>14, <1>20, <1>21, <1>26

\* The CAS of push() puts its node on top.
LEMMA PushCasStep ==
    ASSUME StackInv, NEW t \in Threads, PushCas(t), UNCHANGED fixed
    PROVE  StackInv'
<1> USE DEF StackInv
<1> DEFINE a == loc[t].new
<1>1. /\ pc[t] = "push_cas" /\ root.head = loc[t].head
      /\ root' = [root EXCEPT !.head = a] /\ Return(t, True)
      /\ node' = node /\ hp' = hp /\ mem' = mem /\ since' = since
  BY DEF PushCas, At, mm
<1>2. OthersStay(t)
  BY OnlyOwn DEF Internal, PushSteps
<1>3. MonitorInv'
  BY <1>1, ReturnKeepsMonitor DEF TypeInv
<1>4. pc' = [pc EXCEPT ![t] = "idle"] /\ loc' = [loc EXCEPT ![t] = NoLocals] /\ calls' = calls
      /\ pc'[t] = "idle"
  BY <1>1 DEF Return, TypeInv
<1>5. Mine(t) = {a} /\ Mine(t)' = {} /\ \A u \in Threads \ {t} : Mine(u)' = Mine(u)
  <2>1. Mine(t) = {a} /\ Mine(t)' = {}
    BY <1>1, <1>4 DEF Mine
  <2> QED  BY <1>2, <2>1, MineAfter
<1>6. PICK n \in Nat \ {0} : \E f \in [1 .. n -> Addr] : Good(n, f)
  OBVIOUS
<1>7. PICK f \in [1 .. n -> Addr] : Good(n, f)
  BY <1>6
<1>8. /\ a \in Addr \ {1} /\ mem[a] = "used" /\ \A i \in 1 .. n : f[i] # a
      /\ \A u \in Threads \ {t} : a \notin Mine(u)
  BY <1>5, <1>7 DEF Good, Apart
<1>9. call[t].op = "push" /\ call[t].arg \in Nat
  BY <1>1 DEF Inside, MonitorInv, CallType
<1>10. node[a] = [item |-> call[t].arg, next |-> root.head]
  BY <1>1 DEF Filled
<1> HIDE DEF a
<1>11. TypeInv'
  BY <1>1, <1>4, <1>8 DEF TypeInv, fixed, Place
<1>12. \A u \in Threads : Inside(u)' /\ Filled(u)' /\ Seen(u)'
  <2>1. Inside(t)' /\ Filled(t)' /\ Seen(t)'
    BY <1>4 DEF Inside, Filled, Seen
  <2>2. ASSUME NEW u \in Threads \ {t}  PROVE Inside(u)' /\ Filled(u)'
    BY <1>1, <1>2, <2>2 DEF Inside, Filled, OthersStay
  <2>3. ASSUME NEW u \in Threads \ {t}  PROVE Seen(u)'
    <3>1. pc'[u] = pc[u] /\ loc'[u] = loc[u]
      BY <1>2 DEF OthersStay
    <3>2. \A v \in Threads : pc'[v] = "push_cas" => pc[v] = "push_cas" /\ loc'[v] = loc[v]
      BY <1>2, <1>4 DEF OthersStay
    <3> QED  BY <1>1, <2>3, <3>1, <3>2, SeenAfter
  <2> QED  BY <2>1, <2>2, <2>3
<1>13. PICK g : g = [i \in 1 .. n+1 |-> IF i = n+1 THEN a ELSE f[i]]
  OBVIOUS
<1>14. /\ n + 1 \in Nat \ {0} /\ g \in [1 .. n+1 -> Addr] /\ g[n+1] = a
       /\ \A i \in 1 .. n : i \in 1 .. n+1 /\ g[i] = f[i] /\ i # n+1
       /\ \A i \in 1 .. n+1 : i = n+1 \/ i \in 1 .. n
  BY <1>8, <1>13
<1>15. root'.head = a
  BY <1>1 DEF TypeInv
<1>16. Stacked(n+1, g)'
  <2>1. \A i \in 1 .. n+1-1 : i \in 1 .. n /\ (i = n \/ (i \in 1 .. n-1 /\ i + 1 \in 1 .. n))
    OBVIOUS
  <2>2. ASSUME NEW i \in 1 .. n+1-1  PROVE node[g[i+1]].next = g[i]
    <3>1. CASE i = n
      BY <1>7, <1>10, <1>14, <2>1, <3>1 DEF Good, Stacked
    <3>2. CASE i # n
      BY <1>7, <1>14, <2>1, <3>2 DEF Good, Stacked
    <3> QED  BY <3>1, <3>2
  <2>3. g[1] = 1 /\ node[g[1]].next = Null
    <3>1. 1 \in 1 .. n
      OBVIOUS
    <3> QED  BY <1>7, <1>14, <3>1 DEF Good, Stacked
  <2>4. \A i \in 1 .. n+1 : mem[g[i]] = "used"
    BY <1>7, <1>8, <1>14 DEF Good, Stacked
  <2>5. \A i, j \in 1 .. n+1 : g[i] = g[j] => i = j
    BY <1>7, <1>8, <1>14 DEF Good, Stacked
  <2> QED  BY <1>1, <1>14, <1>15, <2>2, <2>3, <2>4, <2>5 DEF Stacked
<1>17. Apart(n+1, g)'
  <2>1. ASSUME NEW u \in Threads, NEW b \in Mine(u)'
        PROVE  /\ b \in Addr \ {1} /\ mem'[b] = "used" /\ \A i \in 1 .. n+1 : g[i] # b
               /\ \A v \in Threads \ {u} : b \notin Mine(v)'
    <3>1. u # t /\ b \in Mine(u)
      BY <1>5, <2>1
    <3> QED  BY <1>1, <1>5, <1>7, <1>8, <1>14, <3>1 DEF Good, Apart
  <2> QED  BY <2>1 DEF Apart
<1>18. Results' = [Results EXCEPT ![t] = NoCall]
  <2>1. Result(t)' = NoCall
    BY <1>4 DEF Result
  <2> QED  BY <1>1, <1>2, <2>1, ResultsAfter
<1>19. <<call[t].arg>> \o Items(n, f) = Items(n+1, g)'
  <2>1. Items(n, f) \in [1 .. n-1 -> Nat] /\ n - 1 \in Nat /\ (n-1)+1 = n
    BY ItemsType
  <2>2. Items(n+1, g)' = [i \in 1 .. n |-> node[g[n+2-i]].item]
    <3>1. (n+1)-1 = n /\ (n+1)+1 = n+2
      OBVIOUS
    <3> QED  BY <1>1, <3>1 DEF Items
  <2>3. Items(n+1, g)'[1] = call[t].arg
    <3>1. n+2-1 = n+1 /\ 1 \in 1 .. n
      OBVIOUS
    <3> QED  BY <1>10, <1>14, <2>2, <3>1
  <2>4. ASSUME NEW i \in 1 .. n-1  PROVE Items(n+1, g)'[i+1] = Items(n, f)[i]
    <3>1. n+2-(i+1) = n+1-i /\ n+1-i \in 1 .. n /\ i+1 \in 1 .. n
      OBVIOUS
    <3>2. Items(n+1, g)'[i+1] = node[g[n+2-(i+1)]].item
      BY <2>2, <3>1
    <3>3. g[n+2-(i+1)] = f[n+1-i]
      BY <1>14, <3>1
    <3> QED  BY <3>2, <3>3 DEF Items
  <2>5. Items(n+1, g)' \in [1 .. n -> Nat]
    <3>1. \A i \in 1 .. n : n+2-i \in 1 .. n+1
      OBVIOUS
    <3> QED  BY <1>14, <2>2, <3>1 DEF TypeInv
  <2>6. ASSUME NEW e, e = Items(n, f), NEW h, h = Items(n+1, g)', NEW b, b = call[t].arg
        PROVE  <<b>> \o e = h
    <3>1. b \in Nat /\ e \in [1 .. n-1 -> Nat] /\ h \in [1 .. (n-1)+1 -> Nat]
      BY <1>9, <2>1, <2>5, <2>6
    <3>2. h[1] = b /\ \A i \in 1 .. n-1 : h[i+1] = e[i]
      BY <2>3, <2>4, <2>6
    <3> QED  BY <2>1, <3>1, <3>2, PushedSeq
  <2> QED  BY <2>6
<1>20. Now(n, f).res[t] = Pending
  BY <1>1 DEF Now, Results, Result
<1>21. Effect(Now(n, f), t) = [abs |-> Items(n+1, g)', res |-> [Results EXCEPT ![t] = True]]
  <2>1. Apply(Items(n, f), call[t]) = Answer(<<call[t].arg>> \o Items(n, f), True)
    BY <1>9 DEF Apply
  <2>2. Now(n, f).abs = Items(n, f) /\ Now(n, f).res = Results
    BY DEF Now
  <2>3. Apply(Now(n, f).abs, call[t]) = Answer(Items(n+1, g)', True)
    BY <1>19, <2>1, <2>2
  <2>4. Effect(Now(n, f), t) =
          LET r == Apply(Now(n, f).abs, call[t])
          IN  [abs |-> r.abs, res |-> [Now(n, f).res EXCEPT ![t] = r.res]]
    BY DEF Effect
  <2> QED  BY <2>2, <2>3, <2>4 DEF Answer
<1>22. Now(n+1, g)' = [Effect(Now(n, f), t) EXCEPT !.res[t] = NoCall]
  <2> DEFINE e == [abs |-> Items(n+1, g)', res |-> [Results EXCEPT ![t] = True]]
  <2>1. [e EXCEPT !.res[t] = NoCall]
          = [abs |-> Items(n+1, g)', res |-> [[Results EXCEPT ![t] = True] EXCEPT ![t] = NoCall]]
    <3>1. Cardinality(Ahead) \in 0 .. N
      BY <1>4, AheadCount DEF TypeInv, Place
    <3>2. Calm(Effect(Now(n, f), t))
      BY <1>7, <1>20, <3>1, ReachedCalm, EffectCalm DEF Good
    <3>3. e \in Config
      BY <1>21, <3>2 DEF Calm
    <3>4. e.abs = Items(n+1, g)' /\ e.res = [Results EXCEPT ![t] = True] /\ NoCall \in Int
      BY DEF NoCall
    <3> HIDE DEF e
    <3>5. [e EXCEPT !.res[t] = NoCall] = [abs |-> e.abs, res |-> [e.res EXCEPT ![t] = NoCall]]
      <4>1. ASSUME NEW d \in Config
            PROVE  [d EXCEPT !.res[t] = NoCall] = [abs |-> d.abs, res |-> [d.res EXCEPT ![t] = NoCall]]
        BY <3>4, MarkedIs
      <4> QED  BY <3>3, <4>1
    <3> QED  BY <3>4, <3>5
  <2>2. [[Results EXCEPT ![t] = True] EXCEPT ![t] = NoCall] = [Results EXCEPT ![t] = NoCall]
    BY DEF Results
  <2>3. Now(n+1, g)' = [abs |-> Items(n+1, g)', res |-> Results']
    BY DEF Now
  <2> QED  BY <1>18, <1>21, <2>1, <2>2, <2>3
<1>23. Now(n+1, g)' \in Reached'[Cardinality(Ahead)'] /\ Linearizable'
  <2>1. t \notin Ahead
    BY <1>1 DEF Ahead
  <2>2. Cardinality(Ahead)' = Cardinality(Ahead) /\ Cardinality(Ahead) \in 0 .. N-1
    BY <1>4, <2>1, AheadCount DEF TypeInv, Place
  <2>3. Cardinality(Ahead) \in 0 .. N /\ Cardinality(Ahead) + 1 \in 0 .. N
    BY <2>2, MemoryAssumption
  <2>4. Effect(Now(n, f), t) \in Reached[Cardinality(Ahead) + 1]
    BY <1>7, <1>20, <2>2, TakesEffect DEF Good
  <2>5. Effect(Now(n, f), t).res[t] = True
    BY <1>21 DEF Results
  <2> QED  BY <1>1, <1>22, <2>2, <2>3, <2>4, <2>5, ReturnReaches
<1>24. Good(n+1, g)'
  BY <1>16, <1>17, <1>23 DEF Good
<1> QED  BY <1>3, <1>11, <1>12, <1>14, <1>23, <1>24

\* A step of a call that neither takes effect nor returns, and that writes
\* to no node but its own.
LEMMA QuietGood ==
    ASSUME StackInv, NEW t \in Threads, OthersStay(t), NEW l \in Place \ {"pop_empty", "pop_item"},
           t \notin Ahead, pc' = [pc EXCEPT ![t] = l], root' = root, Reached' = Reached,
           \A b \in Addr : mem'[b] = mem[b],
           \A b \in Addr \ Mine(t) : node'[b] = node[b],
           Mine(t)' = Mine(t), Result(t)' = Result(t),
           NEW n \in Nat \ {0}, NEW f \in [1 .. n -> Addr], Good(n, f)
    PROVE  Good(n, f)'
<1>1. \A i \in 1 .. n : f[i] \in Addr \ Mine(t)
  BY DEF Good, Apart
<1>2. \A u \in Threads : Mine(u)' = Mine(u)
  BY MineAfter
<1>3. Stacked(n, f)'
  <2>1. \A i \in 1 .. n : mem'[f[i]] = mem[f[i]] /\ node'[f[i]] = node[f[i]]
    BY <1>1
  <2>2. \A i \in 1 .. n-1 : i + 1 \in 1 .. n
    OBVIOUS
  <2>3. Stacked(n, f)
    BY DEF Good
  <2>4. \A i \in 1 .. n-1 : node'[f[i+1]].next = f[i]
    BY <2>1, <2>2, <2>3 DEF Stacked
  <2>5. (\A i \in 1 .. n : mem'[f[i]] = "used") /\ node'[f[1]].next = Null
    <3>1. 1 \in 1 .. n
      OBVIOUS
    <3> QED  BY <2>1, <2>3, <3>1 DEF Stacked
  <2> QED  BY <2>3, <2>4, <2>5 DEF Stacked
<1>4. Apart(n, f)'
  <2>1. ASSUME NEW u \in Threads, NEW b \in Mine(u)'
        PROVE  /\ b \in Addr \ {1} /\ mem'[b] = "used" /\ \A i \in 1 .. n : f[i] # b
               /\ \A v \in Threads \ {u} : b \notin Mine(v)'
    BY <1>2, <2>1 DEF Good, Apart
  <2> QED  BY <2>1 DEF Apart
<1>5. Items(n, f)' = Items(n, f)
  <2>1. \A i \in 1 .. n-1 : f[n+1-i] \in Addr \ Mine(t)
    BY <1>1
  <2> QED  BY <2>1 DEF Items
<1>6. Results' = Results
  <2>1. \A u \in Threads \ {t} : pc[u] = "pop_item" => node'[loc[u].head] = node[loc[u].head]
    <3>1. \A u \in Threads \ {t} : pc[u] = "pop_item" => loc[u].head \in Addr \ Mine(t)
      BY DEF Good, Apart, Mine
    <3> QED  BY <3>1
  <2>2. Results' = [Results EXCEPT ![t] = Result(t)]
    BY <2>1, ResultsAfter
  <2> QED  BY <2>2 DEF Results
<1>7. Cardinality(Ahead)' = Cardinality(Ahead)
  BY AheadCount DEF StackInv, TypeInv
<1>8. Now(n, f)' = Now(n, f)
  BY <1>5, <1>6 DEF Now
<1> QED  BY <1>3, <1>4, <1>7, <1>8 DEF Good

\* The CAS of push() has failed: the node leads to what head was then.
LEMMA PushRetryStep ==
    ASSUME StackInv, NEW t \in Threads, PushRetry(t), UNCHANGED fixed
    PROVE  StackInv'
<1> USE DEF StackInv
<1> DEFINE a == loc[t].new
<1>1. /\ pc[t] = "push_cas" /\ loc' = [loc EXCEPT ![t].head = root.head]
      /\ node' = [node EXCEPT ![a].next = root.head]
      /\ root' = root /\ hp' = hp /\ mem' = mem /\ since' = since /\ pc' = pc /\ UNCHANGED monitor
  BY DEF PushRetry, At, mm
<1>2. OthersStay(t)
  BY OnlyOwn DEF Internal, PushSteps
<1>3. loc[t] \in Local /\ root.head \in Nat
  BY <1>1 DEF Inside, TypeInv, Addr
<1>4. /\ loc' \in [Threads -> Local \cup {NoLocals}] /\ loc'[t] \in Local
      /\ loc'[t].head = root.head /\ loc'[t].new = a
  <2>1. loc' = [loc EXCEPT ![t] = [loc[t] EXCEPT !.head = root.head]]
    BY <1>1
  <2>2. [loc[t] EXCEPT !.head = root.head] \in Local
        /\ [loc[t] EXCEPT !.head = root.head].new = loc[t].new
        /\ [loc[t] EXCEPT !.head = root.head].head = root.head
    BY <1>3 DEF Local
  <2> QED  BY <2>1, <2>2 DEF TypeInv
<1>5. PICK n \in Nat \ {0} : \E f \in [1 .. n -> Addr] : Good(n, f)
  OBVIOUS
<1>6. PICK f \in [1 .. n -> Addr] : Good(n, f)
  BY <1>5
<1>7. Mine(t) = {a} /\ Mine(t)' = {a} /\ a \in Addr /\ \A u \in Threads \ {t} : a \notin Mine(u)
  <2>1. Mine(t) = {a} /\ Mine(t)' = {a}
    BY <1>1, <1>4 DEF Mine
  <2> QED  BY <1>6, <2>1 DEF Good, Apart
<1> HIDE DEF a
<1>8. /\ node' \in [Addr -> [item : Nat, next : Nat]]
      /\ node'[a] = [item |-> node[a].item, next |-> root.head]
      /\ \A b \in Addr \ {a} : node'[b] = node[b]
  <2>1. node' = [node EXCEPT ![a] = [node[a] EXCEPT !.next = root.head]]
    BY <1>1
  <2>2. node[a] \in [item : Nat, next : Nat]
    BY <1>7 DEF TypeInv
  <2>3. [node[a] EXCEPT !.next = root.head] = [item |-> node[a].item, next |-> root.head]
    BY <2>2
  <2>4. [item |-> node[a].item, next |-> root.head] \in [item : Nat, next : Nat]
    BY <1>3, <2>2
  <2> QED  BY <1>7, <2>1, <2>3, <2>4 DEF TypeInv
<1>9. pc' = [pc EXCEPT ![t] = "push_cas"]
  BY <1>1 DEF TypeInv
<1>10. MonitorInv' /\ Linearizable' /\ Reached' = Reached
  BY <1>1, <1>9, QuietKeepsMonitor DEF TypeInv
<1>11. TypeInv'
  BY <1>1, <1>4, <1>8 DEF TypeInv, fixed, monitor
<1>12. call' = call
  BY <1>1 DEF monitor
<1>13. ASSUME NEW u \in Threads  PROVE Inside(u)'
  BY <1>1, <1>2, <1>4, <1>12 DEF Inside, OthersStay
<1>14. ASSUME NEW u \in Threads  PROVE Filled(u)'
  <2>1. CASE u = t
    <3>1. node[a].item = call[t].arg
      <4>1. node[loc[t].new] = [item |-> call[t].arg, next |-> loc[t].head]
        BY <1>1 DEF Filled
      <4> QED  BY <4>1 DEF a
    <3> QED  BY <1>4, <1>8, <1>12, <2>1, <3>1 DEF Filled
  <2>2. CASE u # t /\ pc[u] = "push_cas"
    <3>1. loc[u].new \in Addr \ {a}
      BY <1>6, <1>7, <2>2 DEF Good, Apart, Mine
    <3>2. node[loc[u].new] = [item |-> call[u].arg, next |-> loc[u].head]
      BY <2>2 DEF Filled
    <3>3. node'[loc[u].new] = node[loc[u].new] /\ loc'[u] = loc[u]
      BY <1>2, <1>8, <2>2, <3>1 DEF OthersStay
    <3> QED  BY <1>12, <3>2, <3>3 DEF Filled
  <2> QED  BY <1>1, <2>1, <2>2 DEF Filled
<1>15. ASSUME NEW u \in Threads  PROVE Seen(u)'
  <2>1. CASE u = t
    BY <1>1, <2>1 DEF Seen
  <2>2. CASE u # t
    <3>1. pc'[u] = pc[u] /\ loc'[u] = loc[u] /\ Seen(u)
      BY <1>2, <2>2 DEF OthersStay
    <3>2. \A v \in Threads : pc'[v] = "push_cas" => pc[v] = "push_cas" /\ loc'[v].new = loc[v].new
      BY <1>1, <1>2, <1>4 DEF OthersStay, a
    <3>3. pc[u] \in {"pop_next", "pop_cas"} => node'[loc[u].head].next = node[loc[u].head].next
      <4>1. ASSUME pc[u] \in {"pop_next", "pop_cas"}  PROVE loc[u].head \in Addr \ {a}
        <5>1. loc[u].head \in Addr
              /\ (mem[loc[u].head] = "used" \/ mem[loc[u].head] = "retired")
              /\ (mem[loc[u].head] = "used" => loc[t].new # loc[u].head)
          BY <1>1, <3>1, <4>1 DEF Seen
        <5>2. mem[a] = "used"
          BY <1>6, <1>7 DEF Good, Apart
        <5> QED  BY <5>1, <5>2 DEF a
      <4> QED  BY <1>8, <4>1
    <3> QED  BY <1>1, <3>1, <3>2, <3>3, SeenAfter
  <2> QED  BY <2>1, <2>2
<1>16. Good(n, f)'
  <2>1. t \notin Ahead /\ Result(t)' = Result(t)
    BY <1>1 DEF Ahead, Result
  <2> QED  BY <1>1, <1>2, <1>6, <1>7, <1>8, <1>9, <1>10, <2>1, QuietGood DEF Place
<1> QED  BY <1>10, <1>11, <1>13, <1>14, <1>15, <1>16

\* The call of pop().
LEMMA PopStep ==
    ASSUME StackInv, NEW t \in Threads, Pop(t), UNCHANGED fixed
    PROVE  StackInv'
<1> USE DEF StackInv
<1>1. /\ Call(t, "pop", "pop_head", Locals)
      /\ root' = root /\ node' = node /\ hp' = hp /\ mem' = mem /\ since' = since
  BY DEF Pop, heap, mm
<1>2. /\ pc[t] = "idle" /\ pc' = [pc EXCEPT ![t] = "pop_head"]
      /\ loc' = [loc EXCEPT ![t] = Locals] /\ calls' = [calls EXCEPT ![t] = @ + 1]
      /\ configs' = {[c EXCEPT !.res[t] = Pending] : c \in configs}
  BY <1>1 DEF Call
<1>3. Locals \in Local
  BY DEF Locals, Local, Null
<1>4. MonitorInv' /\ call'[t].op = "pop" /\ \A u \in Threads \ {t} : call'[u] = call[u]
  BY <1>1, CallKeepsMonitor DEF TypeInv, Ordered
<1>5. OthersStay(t)
  BY OnlyOwn
<1>6. pc'[t] = "pop_head" /\ loc'[t] = Locals
  BY <1>2 DEF TypeInv
<1>7. TypeInv'
  BY <1>1, <1>2, <1>3 DEF TypeInv, fixed, Place
<1>8. Linearizable'
  BY <1>2 DEF Linearizable
<1>9. ASSUME NEW u \in Threads  PROVE Inside(u)' /\ Filled(u)' /\ Seen(u)'
  <2>1. CASE u = t
    BY <1>3, <1>4, <1>6, <2>1 DEF Inside, Filled, Seen
  <2>2. CASE u # t
    <3>1. pc'[u] = pc[u] /\ loc'[u] = loc[u] /\ call'[u] = call[u]
      BY <1>5, <2>2 DEF OthersStay
    <3>2. \A v \in Threads : pc'[v] = "push_cas" => pc[v] = "push_cas" /\ loc'[v] = loc[v]
      BY <1>5, <1>6 DEF OthersStay
    <3>3. Seen(u)'
      BY <1>1, <3>1, <3>2, SeenAfter
    <3> QED  BY <1>1, <3>1, <3>3 DEF Inside, Filled
  <2> QED  BY <2>1, <2>2
<1>10. PICK n \in Nat \ {0} : \E f \in [1 .. n -> Addr] : Good(n, f)
  OBVIOUS
<1>11. PICK f \in [1 .. n -> Addr] : Good(n, f)
  BY <1>10
<1>12. \A u \in Threads : Mine(u)' = Mine(u)
  <2>1. Mine(t)' = Mine(t)
    BY <1>2, <1>6 DEF Mine
  <2> QED  BY <1>5, <2>1, MineAfter
<1>13. Stacked(n, f)' /\ Apart(n, f)'
  BY <1>1, <1>11, <1>12 DEF Good, Stacked, Apart
<1>14. Now(n, f)' = [Now(n, f) EXCEPT !.res[t] = Pending]
  <2>1. Items(n, f)' = Items(n, f)
    BY <1>1 DEF Items
  <2>2. Results' = [Results EXCEPT ![t] = Pending]
    <3>1. Result(t)' = Pending
      BY <1>6 DEF Result
    <3> QED  BY <1>1, <1>5, <3>1, ResultsAfter
  <2> QED  BY <2>1, <2>2 DEF Now
<1>15. Now(n, f)' \in Reached'[Cardinality(Ahead)']
  <2>1. t \notin Ahead
    BY <1>2 DEF Ahead
  <2>2. Cardinality(Ahead)' = Cardinality(Ahead) /\ Cardinality(Ahead) \in 0 .. N
    BY <1>2, <2>1, AheadCount DEF TypeInv, Place
  <2>3. Now(n, f) \in Reached[Cardinality(Ahead)]
    BY <1>11 DEF Good
  <2>4. [Now(n, f) EXCEPT !.res[t] = Pending] \in Reached'[Cardinality(Ahead)]
    BY <1>2, <1>4, <2>2, <2>3, CallReaches
  <2> QED  BY <1>14, <2>2, <2>4
<1>16. Good(n, f)'
  BY <1>13, <1>15 DEF Good
<1> QED  BY <1>4, <1>7, <1>8, <1>9, <1>16

\* What the others rely on survives a step of t that changes no node, of the
\* hps only its own, and of the memory only what it retires.
LEMMA OthersRely ==
    ASSUME StackInv, NEW t \in Threads, OthersStay(t), pc'[t] # "push_cas", node' = node,
           \A u \in Threads \ {t} :
               /\ hp'[<<u, 0>>] = hp[<<u, 0>>]
               /\ \A b \in Addr : <<u, 0>> \in since[b] /\ hp[<<u, 0>>] = b => <<u, 0>> \in since'[b],
           \A b \in Addr :
               \/ mem'[b] = mem[b]
               \/ /\ mem'[b] = "retired"
                  /\ \A u \in Threads \ {t} : hp[<<u, 0>>] = b => <<u, 0>> \in since'[b],
           NEW u \in Threads \ {t}
    PROVE  Inside(u)' /\ Filled(u)' /\ Seen(u)'
<1>1. pc'[u] = pc[u] /\ loc'[u] = loc[u] /\ call'[u] = call[u]
  BY DEF OthersStay
<1>2. \A v \in Threads : pc'[v] = "push_cas" => pc[v] = "push_cas" /\ loc'[v] = loc[v]
  BY DEF OthersStay
<1>3. pc[u] \in {"pop_next", "pop_cas"} => loc[u].head \in Addr /\ hp[<<u, 0>>] = loc[u].head
  BY DEF StackInv, Seen
<1>4. Seen(u)'
  BY <1>1, <1>2, <1>3, SeenAfter DEF StackInv
<1> QED  BY <1>1, <1>4 DEF StackInv, Inside, Filled

\* The load of the link in pop().
LEMMA PopNextStep ==
    ASSUME StackInv, NEW t \in Threads, PopNext(t), UNCHANGED fixed
    PROVE  StackInv'
<1> USE DEF StackInv
<1> DEFINE h == loc[t].head
<1>1. /\ pc[t] = "pop_next" /\ pc' = [pc EXCEPT ![t] = "pop_cas"]
      /\ loc' = [loc EXCEPT ![t].next = node[h].next] /\ UNCHANGED monitor
      /\ root' = root /\ node' = node /\ hp' = hp /\ mem' = mem /\ since' = since
  BY DEF PopNext, At, Goto, heap, mm
<1>2. OthersStay(t)
  BY OnlyOwn DEF Internal, PopSteps
<1>3. h \in Addr /\ node[h].next \in Nat /\ loc[t] \in Local
  BY <1>1 DEF Seen, Inside, TypeInv
<1>4. /\ loc' \in [Threads -> Local \cup {NoLocals}] /\ loc'[t] \in Local
      /\ loc'[t].head = h /\ loc'[t].next = node[h].next
  <2>1. loc' = [loc EXCEPT ![t] = [loc[t] EXCEPT !.next = node[h].next]]
    BY <1>1
  <2>2. [loc[t] EXCEPT !.next = node[h].next] \in Local
        /\ [loc[t] EXCEPT !.next = node[h].next].next = node[h].next
        /\ [loc[t] EXCEPT !.next = node[h].next].head = loc[t].head
    BY <1>3 DEF Local
  <2> QED  BY <2>1, <2>2 DEF TypeInv
<1> HIDE DEF h
<1>5. MonitorInv' /\ Linearizable' /\ Reached' = Reached
  BY <1>1, QuietKeepsMonitor DEF TypeInv
<1>6. TypeInv' /\ pc'[t] = "pop_cas"
  BY <1>1, <1>4 DEF TypeInv, fixed, monitor, Place
<1>7. Inside(t)' /\ Filled(t)'
  BY <1>1, <1>4, <1>6 DEF Inside, Filled, monitor
<1>8. Seen(t)'
  <2>1. /\ h \in Addr \ {1} /\ hp[<<t, 0>>] = h
        /\ \/ mem[h] = "used" /\ \A v \in Threads : pc[v] = "push_cas" => loc[v].new # h
           \/ mem[h] = "retired" /\ <<t, 0>> \in since[h]
    BY <1>1 DEF Seen, h
  <2>2. \A v \in Threads : pc'[v] = "push_cas" => pc[v] = "push_cas" /\ loc'[v] = loc[v]
    BY <1>2, <1>6 DEF OthersStay
  <2> QED  BY <1>1, <1>4, <2>1, <2>2 DEF Seen
<1>9. \A u \in Threads \ {t} : Inside(u)' /\ Filled(u)' /\ Seen(u)'
  BY <1>1, <1>2, <1>6, OthersRely
<1>10. \A n \in Nat \ {0} : \A f \in [1 .. n -> Addr] : Good(n, f) => Good(n, f)'
  <2>1. t \notin Ahead /\ Result(t)' = Result(t) /\ Mine(t)' = Mine(t)
    BY <1>1, <1>6 DEF Ahead, Result, Mine
  <2> QED  BY <1>1, <1>2, <1>5, <2>1, QuietGood DEF Place
<1> QED  BY <1>5, <1>6, <1>7, <1>8, <1>9, <1>10

\* protect(): another thread's hps stay, and so do nodes and memory.
LEMMA Protecting ==
    ASSUME StackInv, NEW t \in Threads, NEW v \in Nat, Protect(t, 0, v)
    PROVE  /\ hp' \in [Slot -> Nat] /\ hp'[<<t, 0>>] = v
           /\ mem' \in [Addr -> {"none", "used", "retired"}] /\ since' \in [Addr -> SUBSET Slot]
           /\ \A b \in Addr : mem'[b] = mem[b]
           /\ \A u \in Threads \ {t} :
                 /\ hp'[<<u, 0>>] = hp[<<u, 0>>]
                 /\ \A b \in Addr : <<u, 0>> \in since[b] /\ hp[<<u, 0>>] = b => <<u, 0>> \in since'[b]
<1> DEFINE h == [hp EXCEPT ![<<t, 0>>] = v]
<1>1. Protections(h, {})
  BY DEF Protect, Publish, StackInv, TypeInv
<1>2. h \in [Slot -> Nat] /\ h[<<t, 0>>] = v /\ \A s \in Slot : s # <<t, 0>> => h[s] = hp[s]
  BY HpIndex DEF StackInv, TypeInv
<1>3. mem \in [Addr -> {"none", "used", "retired"}]
  BY DEF StackInv, TypeInv
<1> HIDE DEF h
<1>4. hp' = h /\ mem' = [a \in Addr |-> mem[a]]
      /\ since' = [a \in Addr |-> {s \in Slot : h[s] = a /\ s \in since[a]}]
  BY <1>1 DEF Protections
<1>5. since' \in [Addr -> SUBSET Slot]
  BY <1>4
<1>6. \A u \in Threads \ {t} : <<u, 0>> \in Slot /\ <<u, 0>> # <<t, 0>>
  BY HpIndex
<1> QED  BY <1>2, <1>3, <1>4, <1>5, <1>6

\* The effect of a pop() of the stack as it is.
LEMMA PopEffect ==
    ASSUME StackInv, NEW t \in Threads, pc[t] \in {"pop_head", "pop_cas"},
           NEW n \in Nat \ {0}, NEW f \in [1 .. n -> Addr], Good(n, f)
    PROVE  /\ Now(n, f).res[t] = Pending
           /\ n = 1 => Effect(Now(n, f), t) = [abs |-> Items(n, f), res |-> [Results EXCEPT ![t] = Null]]
           /\ n # 1 => \A g \in [1 .. n-1 -> Addr] : (\A i \in 1 .. n-1 : g[i] = f[i]) =>
                 Effect(Now(n, f), t) = [abs |-> Items(n-1, g), res |-> [Results EXCEPT ![t] = node[f[n]].item]]
<1>1. call[t].op = "pop"
  BY DEF StackInv, Inside
<1>2. Now(n, f).abs = Items(n, f) /\ Now(n, f).res = Results /\ Results[t] = Pending
  BY DEF Now, Results, Result
<1>3. Effect(Now(n, f), t) =
          LET r == Apply(Now(n, f).abs, call[t])
          IN  [abs |-> r.abs, res |-> [Now(n, f).res EXCEPT ![t] = r.res]]
  BY DEF Effect
<1>4. Apply(Now(n, f).abs, call[t]) =
          IF Items(n, f) = << >> THEN Answer(Items(n, f), Null)
          ELSE Answer(Tail(Items(n, f)), Head(Items(n, f)))
  BY <1>1, <1>2 DEF Apply
<1>5. Items(n, f) \in [1 .. n-1 -> Nat] /\ (Items(n, f) = << >> <=> n = 1)
  BY ItemsType DEF StackInv
<1>6. ASSUME n = 1
      PROVE  Effect(Now(n, f), t) = [abs |-> Items(n, f), res |-> [Results EXCEPT ![t] = Null]]
  BY <1>2, <1>3, <1>4, <1>5, <1>6 DEF Answer
<1>7. ASSUME n # 1, NEW g \in [1 .. n-1 -> Addr], \A i \in 1 .. n-1 : g[i] = f[i]
      PROVE  Effect(Now(n, f), t) = [abs |-> Items(n-1, g), res |-> [Results EXCEPT ![t] = node[f[n]].item]]
  <2>1. n - 1 \in Nat \ {0} /\ 1 \in 1 .. n-1 /\ n+1-1 = n
    BY <1>7
  <2>2. Items(n-1, g) \in [1 .. (n-1)-1 -> Nat]
    BY <2>1, ItemsType DEF StackInv
  <2>3. ASSUME NEW i \in 1 .. (n-1)-1  PROVE Items(n-1, g)[i] = Items(n, f)[i+1]
    <3>1. (n-1)+1-i \in 1 .. n-1 /\ n+1-(i+1) = (n-1)+1-i /\ i+1 \in 1 .. n-1
      BY <2>1
    <3>2. Items(n-1, g)[i] = node[g[(n-1)+1-i]].item
      BY DEF Items
    <3>3. Items(n, f)[i+1] = node[f[n+1-(i+1)]].item
      BY <3>1 DEF Items
    <3>4. g[(n-1)+1-i] = f[n+1-(i+1)]
      BY <1>7, <3>1
    <3> QED  BY <3>2, <3>3, <3>4
  <2>4. Items(n, f)[1] = node[f[n]].item
    <3>1. Items(n, f)[1] = node[f[n+1-1]].item
      BY <2>1 DEF Items
    <3> QED  BY <2>1, <3>1
  <2>5. Tail(Items(n, f)) = Items(n-1, g) /\ Head(Items(n, f)) = node[f[n]].item
    <3>1. ASSUME NEW e, e = Items(n, f), NEW q, q = Items(n-1, g)
          PROVE  Tail(e) = q /\ Head(e) = e[1]
      <4>1. e \in [1 .. n-1 -> Nat] /\ q \in [1 .. (n-1)-1 -> Nat]
        BY <1>5, <2>2, <3>1
      <4>2. \A i \in 1 .. (n-1)-1 : q[i] = e[i+1]
        BY <2>3, <3>1
      <4> QED  BY <2>1, <4>1, <4>2, PoppedSeq
    <3> QED  BY <2>4, <3>1
  <2>6. Apply(Now(n, f).abs, call[t]) = Answer(Items(n-1, g), node[f[n]].item)
    BY <1>4, <1>5, <1>7, <2>5
  <2> QED  BY <1>2, <1>3, <2>6 DEF Answer
<1> QED  BY <1>2, <1>6, <1>7

\* protect() of head: either the stack is empty now, and pop() returns
\* nullptr, or the node on top of it is protected.
LEMMA PopHeadStep ==
    ASSUME StackInv, NEW t \in Threads, PopHead(t), UNCHANGED fixed
    PROVE  StackInv'
<1> USE DEF StackInv
<1> DEFINE l == IF root.head = root.sentinel THEN "pop_empty" ELSE "pop_next"
<1>1. /\ pc[t] = "pop_head" /\ pc' = [pc EXCEPT ![t] = l]
      /\ loc' = [loc EXCEPT ![t]["head"] = root.head] /\ Protect(t, 0, root.head)
      /\ root' = root /\ node' = node /\ UNCHANGED monitor
  BY DEF PopHead, Load, At, Goto, heap
<1>2. OthersStay(t)
  BY OnlyOwn DEF Internal, PopSteps
<1>3. root.head \in Nat /\ root.sentinel = 1 /\ loc[t] \in Local
  BY <1>1 DEF Inside, TypeInv, Addr
<1>4. /\ loc' \in [Threads -> Local \cup {NoLocals}] /\ loc'[t] \in Local /\ loc'[t].head = root.head
  <2>1. loc' = [loc EXCEPT ![t] = [loc[t] EXCEPT !["head"] = root.head]]
    BY <1>1
  <2>2. [loc[t] EXCEPT !["head"] = root.head] \in Local
        /\ [loc[t] EXCEPT !["head"] = root.head].head = root.head
    BY <1>3 DEF Local
  <2> QED  BY <2>1, <2>2 DEF TypeInv
<1>5. l \in Place \ {"idle", "push_cas"} /\ pc'[t] = l
  BY <1>1 DEF Place, TypeInv
<1>6. /\ hp' \in [Slot -> Nat] /\ hp'[<<t, 0>>] = root.head
      /\ mem' \in [Addr -> {"none", "used", "retired"}] /\ since' \in [Addr -> SUBSET Slot]
      /\ \A b \in Addr : mem'[b] = mem[b]
      /\ \A u \in Threads \ {t} :
            /\ hp'[<<u, 0>>] = hp[<<u, 0>>]
            /\ \A b \in Addr : <<u, 0>> \in since[b] /\ hp[<<u, 0>>] = b => <<u, 0>> \in since'[b]
  BY <1>1, <1>3, Protecting
<1>7. MonitorInv' /\ Linearizable' /\ Reached' = Reached
  BY <1>1, <1>5, QuietKeepsMonitor DEF TypeInv, Place
<1>8. TypeInv'
  BY <1>1, <1>4, <1>5, <1>6 DEF TypeInv, fixed, monitor
<1>9. \A u \in Threads \ {t} : Inside(u)' /\ Filled(u)' /\ Seen(u)'
  BY <1>1, <1>2, <1>5, <1>6, OthersRely
<1>10. Inside(t)' /\ Filled(t)'
  BY <1>1, <1>4, <1>5 DEF Inside, Filled, monitor
<1>11. PICK n \in Nat \ {0} : \E f \in [1 .. n -> Addr] : Good(n, f)
  OBVIOUS
<1>12. PICK f \in [1 .. n -> Addr] : Good(n, f)
  BY <1>11
<1>13. root.head = f[n] /\ n \in 1 .. n /\ 1 \in 1 .. n /\ (root.head = 1 => n = 1) /\ (n = 1 => root.head = 1)
  BY <1>12 DEF Good, Stacked
<1>14. Seen(t)'
  <2>1. ASSUME pc'[t] = "pop_next"  PROVE Seen(t)'
    <3>1. root.head \in Addr \ {1} /\ mem[root.head] = "used"
      BY <1>3, <1>5, <1>12, <1>13, <2>1 DEF Good, Stacked
    <3>2. \A v \in Threads : pc[v] = "push_cas" => loc[v].new # root.head
      BY <1>12, <1>13 DEF Good, Apart, Mine
    <3>3. \A v \in Threads : pc'[v] = "push_cas" => pc[v] = "push_cas" /\ loc'[v] = loc[v]
      BY <1>2, <1>5 DEF OthersStay
    <3>4. loc'[t].head = root.head /\ hp'[<<t, 0>>] = root.head /\ mem'[root.head] = "used"
      BY <1>4, <1>6, <3>1
    <3>5. \A v \in Threads : pc'[v] = "push_cas" => loc'[v].new # root.head
      BY <3>2, <3>3
    <3> HIDE DEF StackInv, l
    <3> QED  BY <2>1, <3>1, <3>4, <3>5 DEF Seen
  <2> QED  BY <1>5, <2>1 DEF Seen
<1>15. Mine(t) = {} /\ Mine(t)' = {} /\ t \notin Ahead
  BY <1>1, <1>5 DEF Mine, Ahead
<1>16. Good(n, f)'
  <2>1. CASE root.head = root.sentinel
    <3>1. pc'[t] = "pop_empty" /\ l = "pop_empty" /\ n = 1
      BY <1>3, <1>5, <1>13, <2>1
    <3>2. Stacked(n, f)'
      BY <1>1, <1>6, <1>12 DEF Good, Stacked
    <3>3. \A u \in Threads : Mine(u)' = Mine(u)
      BY <1>2, <1>15, MineAfter
    <3>4. Apart(n, f)'
      BY <1>6, <1>12, <3>3 DEF Good, Apart
    <3>5. Now(n, f)' = Effect(Now(n, f), t)
      <4>1. Items(n, f)' = Items(n, f)
        BY <1>1 DEF Items
      <4>2. Results' = [Results EXCEPT ![t] = Null]
        <5>1. Result(t)' = Null
          BY <3>1 DEF Result
        <5> QED  BY <1>1, <1>2, <5>1, ResultsAfter
      <4>3. Effect(Now(n, f), t) = [abs |-> Items(n, f), res |-> [Results EXCEPT ![t] = Null]]
        <5> HIDE DEF StackInv, l
        <5> QED  BY <1>1, <1>12, <3>1, PopEffect
      <4> QED  BY <4>1, <4>2, <4>3 DEF Now
    <3>6. Cardinality(Ahead)' = Cardinality(Ahead) + 1 /\ Cardinality(Ahead) \in 0 .. N-1
      BY <1>1, <1>5, <1>15, <3>1, AheadCount DEF TypeInv
    <3>7. Effect(Now(n, f), t) \in Reached[Cardinality(Ahead) + 1]
      <4>1. Now(n, f).res[t] = Pending
        BY <1>1, <1>12, PopEffect
      <4> QED  BY <1>12, <3>6, <4>1, TakesEffect DEF Good
    <3> QED  BY <1>7, <3>2, <3>4, <3>5, <3>6, <3>7 DEF Good
  <2>2. CASE root.head # root.sentinel
    <3>1. pc'[t] = "pop_next" /\ l = "pop_next" /\ Result(t)' = Result(t)
      BY <1>1, <1>5, <2>2 DEF Result
    <3> QED  BY <1>1, <1>2, <1>5, <1>6, <1>7, <1>12, <1>15, <3>1, QuietGood
  <2> QED  BY <2>1, <2>2
<1> QED  BY <1>7, <1>8, <1>9, <1>10, <1>14, <1>16

\* clear(), and retire() of the nodes in R, which nobody else retires: who
\* has protected one of them has done so ever since.
LEMMA Releasing ==
    ASSUME StackInv, NEW t \in Threads, NEW R \in SUBSET Addr, Release(t, R),
           \A a \in R : mem[a] = "used"
    PROVE  /\ hp' \in [Slot -> Nat]
           /\ mem' \in [Addr -> {"none", "used", "retired"}] /\ since' \in [Addr -> SUBSET Slot]
           /\ \A b \in Addr : mem'[b] = IF b \in R THEN "retired" ELSE mem[b]
           /\ \A u \in Threads \ {t} :
                 /\ hp'[<<u, 0>>] = hp[<<u, 0>>]
                 /\ \A b \in Addr :
                       (<<u, 0>> \in since[b] \/ b \in R) /\ hp[<<u, 0>>] = b => <<u, 0>> \in since'[b]
<1> DEFINE h == [s \in Slot |-> IF s[1] = t THEN Null ELSE hp[s]]
<1>1. Protections(h, R)
  BY DEF Release, StackInv, TypeInv
<1>2. h \in [Slot -> Nat] /\ \A u \in Threads \ {t} : <<u, 0>> \in Slot /\ h[<<u, 0>>] = hp[<<u, 0>>]
  BY HpIndex DEF StackInv, TypeInv, Null
<1>3. mem \in [Addr -> {"none", "used", "retired"}]
  BY DEF StackInv, TypeInv
<1> HIDE DEF h
<1>4. /\ hp' = h
      /\ mem' = [a \in Addr |-> IF a \notin R THEN mem[a]
                                ELSE IF mem[a] = "used" THEN "retired" ELSE "twice"]
      /\ since' = [a \in Addr |-> {s \in Slot : h[s] = a /\ (a \in R \/ s \in since[a])}]
  BY <1>1 DEF Protections
<1>5. since' \in [Addr -> SUBSET Slot]
  BY <1>4
<1>6. \A b \in Addr : mem'[b] = IF b \in R THEN "retired" ELSE mem[b]
  BY <1>4
<1>7. mem' \in [Addr -> {"none", "used", "retired"}]
  BY <1>3, <1>4
<1> QED  BY <1>2, <1>4, <1>5, <1>6, <1>7

\* What is left when a pop() returns what it has got.
LEMMA PopReturns ==
    ASSUME StackInv, NEW t \in Threads, OthersStay(t), NEW r, Return(t, r),
           pc[t] \in {"pop_empty", "pop_item"}, r = Result(t), node' = node, root' = root,
           \A b \in Addr : mem'[b] = IF b \in Mine(t) THEN "retired" ELSE mem[b],
           NEW n \in Nat \ {0}, NEW f \in [1 .. n -> Addr], Good(n, f)
    PROVE  Good(n, f)' /\ Linearizable'
<1>1. pc' = [pc EXCEPT ![t] = "idle"] /\ pc'[t] = "idle"
  BY DEF Return, StackInv, TypeInv
<1>2. Mine(t)' = {} /\ \A u \in Threads \ {t} : Mine(u)' = Mine(u)
  <2>1. Mine(t)' = {}
    BY <1>1 DEF Mine
  <2> QED  BY <2>1, MineAfter
<1>3. Stacked(n, f)'
  <2>1. \A i \in 1 .. n : mem'[f[i]] = "used"
    BY DEF Good, Stacked, Apart
  <2> QED  BY <2>1 DEF Good, Stacked
<1>4. Apart(n, f)'
  <2>1. ASSUME NEW u \in Threads, NEW b \in Mine(u)'
        PROVE  /\ b \in Addr \ {1} /\ mem'[b] = "used" /\ \A i \in 1 .. n : f[i] # b
               /\ \A v \in Threads \ {u} : b \notin Mine(v)'
    <3>1. u # t /\ b \in Mine(u)
      BY <1>2, <2>1
    <3> QED  BY <1>2, <3>1 DEF Good, Apart
  <2> QED  BY <2>1 DEF Apart
<1>5. Cardinality(Ahead) \in 0 .. N /\ Cardinality(Ahead)' \in 0 .. N
  BY <1>1, AheadCount DEF StackInv, TypeInv, Place
<1>6. Now(n, f) \in Reached[Cardinality(Ahead)] /\ Now(n, f).res[t] = r
  BY DEF Good, Now, Results
<1>7. Now(n, f)' = [Now(n, f) EXCEPT !.res[t] = NoCall]
  <2>1. Items(n, f)' = Items(n, f)
    BY DEF Items
  <2>2. Results' = [Results EXCEPT ![t] = NoCall]
    <3>1. Result(t)' = NoCall
      BY <1>1 DEF Result
    <3> QED  BY <3>1, ResultsAfter
  <2> QED  BY <2>1, <2>2 DEF Now
<1>8. Now(n, f)' \in Reached'[Cardinality(Ahead)'] /\ Linearizable'
  BY <1>5, <1>6, <1>7, ReturnReaches
<1> QED  BY <1>3, <1>4, <1>8 DEF Good

\* The return of a pop() retires the node that it has taken from the stack.
LEMMA PopReturnStep ==
    ASSUME StackInv, NEW t \in Threads, PopEmpty(t) \/ PopItem(t), UNCHANGED fixed
    PROVE  StackInv'
<1> USE DEF StackInv
<1> DEFINE r == Result(t)
<1>1. pc[t] \in {"pop_empty", "pop_item"} /\ Return(t, r) /\ Release(t, Mine(t))
      /\ node' = node /\ root' = root
  <2>1. CASE PopEmpty(t)
    BY <2>1 DEF PopEmpty, At, Result, Mine, heap
  <2>2. CASE PopItem(t)
    BY <2>2 DEF PopItem, At, Result, Mine, TypeInv
  <2> QED  BY <2>1, <2>2
<1> HIDE DEF r
<1>2. OthersStay(t)
  BY OnlyOwn DEF Internal, PopSteps
<1>3. pc' = [pc EXCEPT ![t] = "idle"] /\ loc' = [loc EXCEPT ![t] = NoLocals] /\ calls' = calls
      /\ pc'[t] = "idle"
  BY <1>1 DEF Return, TypeInv
<1>4. MonitorInv'
  BY <1>1, ReturnKeepsMonitor DEF TypeInv
<1>5. PICK n \in Nat \ {0} : \E f \in [1 .. n -> Addr] : Good(n, f)
  OBVIOUS
<1>6. PICK f \in [1 .. n -> Addr] : Good(n, f)
  BY <1>5
<1>7. Mine(t) \in SUBSET Addr /\ \A a \in Mine(t) : mem[a] = "used"
  BY <1>6 DEF Good, Apart
<1>8. /\ hp' \in [Slot -> Nat]
      /\ mem' \in [Addr -> {"none", "used", "retired"}] /\ since' \in [Addr -> SUBSET Slot]
      /\ \A b \in Addr : mem'[b] = IF b \in Mine(t) THEN "retired" ELSE mem[b]
      /\ \A u \in Threads \ {t} :
            /\ hp'[<<u, 0>>] = hp[<<u, 0>>]
            /\ \A b \in Addr :
                  (<<u, 0>> \in since[b] \/ b \in Mine(t)) /\ hp[<<u, 0>>] = b => <<u, 0>> \in since'[b]
  BY <1>1, <1>7, Releasing
<1>9. TypeInv'
  BY <1>1, <1>3, <1>8 DEF TypeInv, fixed, Place
<1>10. Inside(t)' /\ Filled(t)' /\ Seen(t)'
  BY <1>3 DEF Inside, Filled, Seen
<1>11. \A u \in Threads \ {t} : Inside(u)' /\ Filled(u)' /\ Seen(u)'
  BY <1>1, <1>2, <1>3, <1>8, OthersRely
<1>12. Good(n, f)' /\ Linearizable'
  <2> HIDE DEF StackInv
  <2> QED  BY <1>1, <1>2, <1>6, <1>8, PopReturns DEF r
<1> QED  BY <1>4, <1>9, <1>10, <1>11, <1>12

\* The CAS of pop() takes the top of the stack, or changes nothing.
LEMMA PopCasStep ==
    ASSUME StackInv, NEW t \in Threads, PopCas(t), UNCHANGED fixed
    PROVE  StackInv'
<1> USE DEF StackInv
<1> DEFINE h == loc[t].head
           l == IF root.head = h THEN "pop_item" ELSE "pop_head"
<1>1. /\ pc[t] = "pop_cas" /\ pc' = [pc EXCEPT ![t] = l]
      /\ root' = IF root.head = h THEN [root EXCEPT !.head = loc[t].next] ELSE root
      /\ loc' = loc /\ node' = node /\ hp' = hp /\ mem' = mem /\ since' = since /\ UNCHANGED monitor
  BY DEF PopCas, At, Goto, mm
<1>2. OthersStay(t)
  BY OnlyOwn DEF Internal, PopSteps
<1>3. l \in Place \ {"idle", "push_cas"} /\ pc'[t] = l
  BY <1>1 DEF Place, TypeInv
<1>4. h \in Addr \ {1} /\ loc[t].next = node[h].next
  BY <1>1 DEF Seen
<1>5. MonitorInv' /\ Linearizable' /\ Reached' = Reached
  BY <1>1, <1>3, QuietKeepsMonitor DEF TypeInv, Place
<1>6. \A u \in Threads \ {t} : Inside(u)' /\ Filled(u)' /\ Seen(u)'
  BY <1>1, <1>2, <1>3, OthersRely
<1>7. Inside(t)' /\ Filled(t)' /\ Seen(t)'
  BY <1>1, <1>3 DEF Inside, Filled, Seen, monitor
<1>8. PICK n \in Nat \ {0} : \E f \in [1 .. n -> Addr] : Good(n, f)
  OBVIOUS
<1>9. PICK f \in [1 .. n -> Addr] : Good(n, f)
  BY <1>8
<1>10. Mine(t) = {} /\ t \notin Ahead
  BY <1>1 DEF Mine, Ahead
<1>11. CASE root.head # h
  <2>1. l = "pop_head" /\ root' = root
    BY <1>1, <1>11
  <2> HIDE DEF l
  <2>2. TypeInv'
    BY <1>1, <1>3, <2>1 DEF TypeInv, fixed, monitor
  <2>3. Good(n, f)'
    <3>1. Result(t)' = Result(t) /\ Mine(t)' = {}
      BY <1>1, <1>3, <2>1 DEF Result, Mine
    <3> HIDE DEF StackInv
    <3>2. l \in Place \ {"pop_empty", "pop_item"}
      BY <1>3, <2>1
    <3> QED  BY <1>1, <1>2, <1>5, <1>9, <1>10, <2>1, <3>1, <3>2, QuietGood
  <2> QED  BY <1>5, <1>6, <1>7, <2>2, <2>3
<1>12. CASE root.head = h
  <2>1. l = "pop_item" /\ root' = [root EXCEPT !.head = node[h].next] /\ pc'[t] = "pop_item"
    BY <1>1, <1>3, <1>4, <1>12
  <2> HIDE DEF l
  <2>2. /\ h = f[n] /\ n # 1 /\ n - 1 \in Nat \ {0} /\ n \in 1 .. n
        /\ \A i \in 1 .. n-1 : i \in 1 .. n /\ i # n /\ i + 1 \in 1 .. n
    <3>1. h = f[n] /\ f[1] = 1 /\ h # 1
      BY <1>4, <1>9, <1>12 DEF Good, Stacked
    <3>2. n # 1
      BY <3>1
    <3> QED  BY <3>1, <3>2
  <2>3. node[h].next = f[n-1] /\ f[n-1] \in Addr
    <3>1. n - 1 \in 1 .. n-1 /\ (n-1)+1 = n
      BY <2>2
    <3>2. node[f[(n-1)+1]].next = f[n-1]
      BY <1>9, <3>1 DEF Good, Stacked
    <3> QED  BY <2>2, <3>1, <3>2
  <2>4. root'.head = f[n-1] /\ root' \in [head : Addr, sentinel : {1}]
    BY <2>1, <2>3 DEF TypeInv
  <2>5. TypeInv'
    BY <1>1, <1>3, <2>4 DEF TypeInv, fixed, monitor
  <2>6. PICK g : g = [i \in 1 .. n-1 |-> f[i]]
    OBVIOUS
  <2>7. g \in [1 .. n-1 -> Addr] /\ \A i \in 1 .. n-1 : g[i] = f[i]
    BY <2>2, <2>6
  <2>8. Stacked(n-1, g)'
    <3>1. \A i \in 1 .. (n-1)-1 : i \in 1 .. n-1 /\ i + 1 \in 1 .. n-1
      BY <2>2
    <3>2. 1 \in 1 .. n-1 /\ n-1 \in 1 .. n-1
      BY <2>2
    <3>3. g[1] = 1 /\ root'.head = g[n-1] /\ node[g[1]].next = Null
      BY <1>9, <2>4, <2>7, <3>2 DEF Good, Stacked
    <3>4. \A i \in 1 .. (n-1)-1 : node[g[i+1]].next = g[i]
      BY <1>9, <2>7, <3>1 DEF Good, Stacked
    <3>5. \A i \in 1 .. n-1 : mem[g[i]] = "used"
      BY <1>9, <2>2, <2>7 DEF Good, Stacked
    <3>6. \A i, j \in 1 .. n-1 : g[i] = g[j] => i = j
      BY <1>9, <2>2, <2>7 DEF Good, Stacked
    <3> QED  BY <1>1, <3>3, <3>4, <3>5, <3>6 DEF Stacked
  <2>9. Mine(t)' = {h} /\ \A u \in Threads \ {t} : Mine(u)' = Mine(u)
    <3>1. Mine(t)' = {h}
      BY <1>1, <2>1 DEF Mine
    <3> QED  BY <1>2, <3>1, MineAfter
  <2>10. Apart(n-1, g)'
    <3>1. mem[h] = "used" /\ \A i \in 1 .. n-1 : g[i] # h
      BY <1>9, <2>2, <2>7 DEF Good, Stacked
    <3>2. \A u \in Threads : h \notin Mine(u)
      BY <1>9, <2>2 DEF Good, Apart
    <3>3. ASSUME NEW u \in Threads, NEW b \in Mine(u)'
          PROVE  /\ b \in Addr \ {1} /\ mem'[b] = "used" /\ \A i \in 1 .. n-1 : g[i] # b
                 /\ \A v \in Threads \ {u} : b \notin Mine(v)'
      <4>1. CASE u = t
        BY <1>1, <1>4, <2>9, <3>1, <3>2, <3>3, <4>1
      <4>2. CASE u # t
        <5>1. b \in Mine(u) /\ b # h
          BY <2>9, <3>2, <3>3, <4>2
        <5>2. \A i \in 1 .. n-1 : g[i] # b
          BY <1>9, <2>2, <2>7, <5>1 DEF Good, Apart
        <5>3. b \in Addr \ {1} /\ mem'[b] = "used" /\ \A v \in Threads \ {u} : b \notin Mine(v)
          BY <1>1, <1>9, <5>1 DEF Good, Apart
        <5> QED  BY <2>9, <5>1, <5>2, <5>3
      <4> QED  BY <4>1, <4>2
    <3> QED  BY <3>3 DEF Apart
  <2>11. Now(n-1, g)' = Effect(Now(n, f), t) /\ Now(n, f).res[t] = Pending
    <3>1. Items(n-1, g)' = Items(n-1, g)
      BY <1>1 DEF Items
    <3>2. Results' = [Results EXCEPT ![t] = node[f[n]].item]
      <4>1. Result(t)' = node[f[n]].item
        BY <1>1, <2>1, <2>2 DEF Result
      <4> QED  BY <1>1, <1>2, <4>1, ResultsAfter
    <3>3. Effect(Now(n, f), t) = [abs |-> Items(n-1, g), res |-> [Results EXCEPT ![t] = node[f[n]].item]]
          /\ Now(n, f).res[t] = Pending
      <4> HIDE DEF StackInv
      <4> QED  BY <1>1, <1>9, <2>2, <2>7, PopEffect
    <3> QED  BY <3>1, <3>2, <3>3 DEF Now
  <2>12. Cardinality(Ahead)' = Cardinality(Ahead) + 1 /\ Cardinality(Ahead) \in 0 .. N-1
    BY <1>1, <1>3, <1>10, <2>1, AheadCount DEF TypeInv
  <2>13. Effect(Now(n, f), t) \in Reached[Cardinality(Ahead) + 1]
    BY <1>9, <2>11, <2>12, TakesEffect DEF Good
  <2>14. Good(n-1, g)'
    BY <1>5, <2>8, <2>10, <2>11, <2>12, <2>13 DEF Good
  <2> QED  BY <1>5, <1>6, <1>7, <2>2, <2>5, <2>7, <2>14
<1> QED  BY <1>11, <1>12

-----------------------------------------------------------------------------

\* The invariant holds at the start.
LEMMA StackStart == Init /\ ~orc /\ structure \in DOMAIN Program => StackInv
<1> SUFFICES ASSUME Init, ~orc, structure \in DOMAIN Program  PROVE StackInv
  OBVIOUS
<1>0. N \in Nat \ {0} /\ 1 \in Addr
  BY MemoryAssumption DEF Addr
<1>1. /\ hp = [p \in Slot |-> Null] /\ since = [a \in Addr |-> {}]
      /\ pc = [t \in Threads |-> "idle"] /\ loc = [t \in Threads |-> NoLocals]
      /\ call = [t \in Threads |-> NotCalled] /\ calls = [t \in Threads |-> 0]
      /\ configs = {[abs |-> << >>, res |-> [t \in Threads |-> NoCall]]}
  BY DEF Init, Start
<1>2. /\ mem = [a \in Addr |-> IF a = 1 THEN "used" ELSE "none"]
      /\ node = [a \in Addr |-> [item |-> Null, next |-> Null]]
      /\ root = [head |-> 1, sentinel |-> 1]
  BY DEF Init
<1>3. TypeInv
  BY <1>0, <1>1, <1>2 DEF TypeInv, Null, Place
<1>4. MonitorInv
  <2>1. NotCalled \in CallType
    BY DEF NotCalled, CallType, Null
  <2>2. [abs |-> << >>, res |-> [t \in Threads |-> NoCall]] \in Config
    BY DEF Config, NoCall
  <2> QED  BY <1>1, <2>1, <2>2 DEF MonitorInv, Calm
<1>5. Linearizable
  BY <1>1 DEF Linearizable
<1>6. \A t \in Threads : Inside(t) /\ Filled(t) /\ Seen(t) /\ Mine(t) = {} /\ Result(t) = NoCall
  BY <1>1 DEF Inside, Filled, Seen, Mine, Result
<1>7. PICK f : f = [i \in 1 .. 1 |-> 1]
  OBVIOUS
<1>8. 1 \in Nat \ {0} /\ f \in [1 .. 1 -> Addr]
  BY <1>0, <1>7
<1>9. Stacked(1, f) /\ Apart(1, f)
  BY <1>0, <1>2, <1>6, <1>7 DEF Stacked, Apart
<1>10. Now(1, f) \in Reached[Cardinality(Ahead)]
  <2>1. Items(1, f) = << >>
    BY <1>3, <1>8, ItemsType
  <2>2. Results = [t \in Threads |-> NoCall]
    BY <1>6 DEF Results
  <2>3. Ahead = {}
    BY <1>1 DEF Ahead
  <2>4. Cardinality(Ahead) = 0
    BY <2>3, FS_EmptySet
  <2>5. Now(1, f) \in configs
    BY <1>1, <2>1, <2>2 DEF Now
  <2> QED  BY <2>4, <2>5, RoundByRound DEF RoundFacts
<1> QED  BY <1>3, <1>4, <1>5, <1>6, <1>8, <1>9, <1>10 DEF StackInv, Good

\* Every step keeps it.
LEMMA StackNext == StackInv /\ [Next]_vars => StackInv'
<1> SUFFICES ASSUME StackInv, [Next]_vars  PROVE StackInv'
  OBVIOUS
<1>1. ASSUME NEW t \in Threads, Push(t) \/ Pop(t) \/ Internal(t), UNCHANGED fixed  PROVE StackInv'
  BY <1>1, PushStep, PopStep, PushCasStep, PushRetryStep, PopHeadStep, PopReturnStep,
     PopNextStep, PopCasStep DEF Internal, PushSteps, PopSteps
<1>2. CASE UNCHANGED vars
  <2>1. UNCHANGED <<structure, orc, root, node, hp, mem, since, pc, loc, call, calls, configs>>
    BY <1>2 DEF vars, fixed, heap, mm, monitor
  <2>2. Reached' = Reached
    BY <2>1, NoEffect
  <2>3. \A n, f : Good(n, f)' <=> Good(n, f)
    BY <2>1, <2>2 DEF Good, Stacked, Apart, Mine, Now, Items, Results, Result, Ahead
  <2>4. TypeInv' /\ MonitorInv' /\ Linearizable'
    BY <2>1 DEF StackInv, TypeInv, MonitorInv, Calm, Linearizable
  <2>5. ASSUME NEW t \in Threads  PROVE Inside(t)' /\ Filled(t)' /\ Seen(t)'
    <3>1. Inside(t) /\ Filled(t) /\ Seen(t)
      BY DEF StackInv
    <3>2. Inside(t)' /\ Filled(t)'
      BY <2>1, <3>1 DEF Inside, Filled
    <3>3. Seen(t)'
      BY <2>1, <3>1, SeenAfter
    <3> QED  BY <3>2, <3>3
  <2> QED  BY <2>3, <2>4, <2>5 DEF StackInv
<1> QED  BY <1>1, <1>2 DEF Next

\* The invariant holds of every behaviour of push() and pop().
THEOREM StackInvariant == ManualSpec => []StackInv
<1> QED  BY StackStart, StackNext, PTL DEF ManualSpec

\* The stack of TreiberStack.hpp is linearizable: what push() and pop()
\* return is explained by some order of the calls, each between its start
\* and its end.
THEOREM StackIsLinearizable == ManualSpec => []Linearizable
<1>1. StackInv => Linearizable
  BY DEF StackInv
<1> QED  BY <1>1, StackInvariant, PTL

\* pop() retires a node once.
THEOREM PoppedOnce == ManualSpec => []RetiredOnce
<1>1. StackInv => RetiredOnce
  BY DEF StackInv, TypeInv, RetiredOnce
<1> QED  BY <1>1, StackInvariant, PTL

\* When all calls of push() and pop() have returned, the stack has the items
\* that they have left there, in their order: no item is lost or doubled.
THEOREM StackLosesNothing == ManualSpec => []IsLeft(Contents)
<1>1. ASSUME StackInv, Done  PROVE Contents \in {c.abs : c \in configs}
  <2>1. PICK n \in Nat \ {0} : \E f \in [1 .. n -> Addr] : Good(n, f)
    BY <1>1 DEF StackInv
  <2>2. PICK f \in [1 .. n -> Addr] : Good(n, f)
    BY <2>1
  <2>3. TypeInv /\ Stacked(n, f) /\ Now(n, f) \in Reached[Cardinality(Ahead)]
    BY <1>1, <2>2 DEF Good, StackInv
  <2>4. Now(n, f) \in configs
    <3>1. Ahead = {}
      BY <1>1 DEF Done, Ahead
    <3>2. Cardinality(Ahead) = 0
      BY <3>1, FS_EmptySet
    <3> QED  BY <2>3, <3>2, RoundByRound DEF RoundFacts
  <2>5. PICK g : g = [i \in 1 .. n |-> f[n+1-i]]
    OBVIOUS
  <2>6. \A i \in 1 .. n : n+1-i \in 1 .. n /\ g[i] = f[n+1-i]
    BY <2>5
  <2>7. g \in [1 .. n -> Addr]
    BY <2>5, <2>6
  <2>8. g[1] = root.head /\ g[n] = 1 /\ node[g[n]].next = Null
    <3>1. 1 \in 1 .. n /\ n \in 1 .. n /\ n+1-1 = n /\ n+1-n = 1
      OBVIOUS
    <3> QED  BY <2>3, <2>6, <3>1 DEF Stacked
  <2>9. \A i \in 1 .. n-1 : node[g[i]].next = g[i+1]
    <3>1. ASSUME NEW i \in 1 .. n-1  PROVE node[g[i]].next = g[i+1]
      <4>1. n-i \in 1 .. n-1 /\ i \in 1 .. n /\ i+1 \in 1 .. n /\ (n-i)+1 = n+1-i
            /\ n+1-(i+1) = n-i
        OBVIOUS
      <4>2. g[i] = f[(n-i)+1] /\ g[i+1] = f[n-i]
        BY <2>6, <4>1
      <4> QED  BY <2>3, <4>1, <4>2 DEF Stacked
    <3> QED  BY <3>1
  <2>10. \A i, j \in 1 .. n : g[i] = g[j] => i = j
    <3>1. ASSUME NEW i \in 1 .. n, NEW j \in 1 .. n, g[i] = g[j]  PROVE i = j
      <4>1. n+1-i = n+1-j
        BY <2>3, <2>6, <3>1 DEF Stacked
      <4> QED  BY <4>1
    <3> QED  BY <3>1
  <2>11. Chain(root.head) = g
    BY <2>7, <2>8, <2>9, <2>10, ChainIs
  <2>12. \A i \in 1 .. n : Bottom(g[i]) <=> i = n
    <3>1. ~orc /\ root.sentinel = 1 /\ n \in 1 .. n
      BY <2>3 DEF TypeInv
    <3> QED  BY <2>8, <2>10, <3>1 DEF Bottom
  <2>13. {j \in DOMAIN g : \A k \in 1 .. j : ~Bottom(g[k])} = 1 .. n-1
    <3>1. DOMAIN g = 1 .. n
      BY <2>5
    <3>2. ASSUME NEW j \in 1 .. n  PROVE (\A k \in 1 .. j : ~Bottom(g[k])) <=> j \in 1 .. n-1
      <4>1. n \in 1 .. j <=> j = n
        OBVIOUS
      <4>2. \A k \in 1 .. j : k \in 1 .. n
        OBVIOUS
      <4> QED  BY <2>12, <4>1, <4>2
    <3>3. \A j \in 1 .. n-1 : j \in 1 .. n
      OBVIOUS
    <3> QED  BY <3>1, <3>2, <3>3
  <2>14. Cardinality(1 .. n-1) = n-1
    BY FS_Interval
  <2>15. Contents = [i \in 1 .. n-1 |-> node[g[i]].item]
    BY <2>11, <2>13, <2>14 DEF Contents
  <2>16. Contents = Items(n, f)
    <3>1. \A i \in 1 .. n-1 : i \in 1 .. n
      OBVIOUS
    <3> QED  BY <2>6, <2>15, <3>1 DEF Items
  <2>17. Now(n, f).abs = Items(n, f)
    BY DEF Now
  <2> QED  BY <2>4, <2>16, <2>17
<1>2. StackInv => IsLeft(Contents)
  BY <1>1 DEF IsLeft
<1> QED  BY <1>2, StackInvariant, PTL

\* The node whose next or item pop() reads has not been deleted.
AccessIsSafe == \A t \in Threads : Access(t) \subseteq Addr \ Deleted(Live)

\* pop() follows the link, and reads the item, of no node that the reclaimer
\* may have deleted: the hp has held it ever since it was in the stack.
THEOREM PopReadsNoDeleted == ManualSpec => []AccessIsSafe
<1>1. ASSUME StackInv  PROVE AccessIsSafe
  <2>1. ASSUME NEW t \in Threads, pc[t] = "pop_next"  PROVE loc[t].head \in Addr \ Deleted(Live)
    BY <1>1, <2>1 DEF StackInv, Seen, TypeInv, Deleted
  <2>2. ASSUME NEW t \in Threads, pc[t] = "pop_item"  PROVE loc[t].head \in Addr \ Deleted(Live)
    <3>1. PICK n \in Nat \ {0} : \E f \in [1 .. n -> Addr] : Good(n, f)
      BY <1>1 DEF StackInv
    <3> QED  BY <1>1, <2>2, <3>1 DEF StackInv, TypeInv, Good, Apart, Mine, Deleted
  <2> QED  BY <2>1, <2>2 DEF AccessIsSafe, Access
<1> QED  BY <1>1, StackInvariant, PTL

-----------------------------------------------------------------------------

(* The queue: the invariant. *)

\* The behaviours of MichaelScottQueue.hpp, which has two hps, and those of
\* MichaelScottQueueOrcGC.hpp, which needs none.
QChosen == orc \in BOOLEAN /\ (orc \/ HPs >= 2) /\ structure \in DOMAIN Program
QueueSpec == QInit /\ QChosen /\ [][QNext]_vars

QLocal == [node : Int, tail : Int, next : Int, new : Int]
Entering == {"enq_tail", "enq_next", "enq_link", "enq_help"}
Enqueuing == Entering \cup {"enq_swing"}
Dequeuing == {"deq_head", "deq_tail", "deq_empty", "deq_next", "deq_cas", "deq_item"}
QPlace == {"idle"} \cup Enqueuing \cup Dequeuing

QTypeInv ==
    /\ QChosen
    /\ root \in [head : Addr, tail : Addr]
    /\ node \in [Addr -> [item : Nat, next : Int]]
    /\ hp \in [Slot -> Int]
    /\ mem \in [Addr -> {"none", "used", "retired"}]
    /\ since \in [Addr -> SUBSET Slot]
    /\ pc \in [Threads -> QPlace]
    /\ loc \in [Threads -> QLocal \cup {NoLocals}]
    /\ calls \in [Threads -> Nat]

\* A thread that executes a call is in the code of its operation.
QInside(t) ==
    /\ pc[t] # "idle" => loc[t] \in QLocal
    /\ pc[t] \in Enqueuing => call[t].op = "enqueue"
    /\ pc[t] \in Dequeuing => call[t].op = "dequeue"

\* The node that t has made and not linked yet.
Unlinked(t) == IF pc[t] \in Entering THEN {loc[t].new} ELSE {}

\* The node that only t may change: that one, or the one it has to retire.
QMine(t) == IF pc[t] = "deq_item" THEN {loc[t].node} ELSE Unlinked(t)

QFilled(t) == pc[t] \in Entering =>
    node[loc[t].new] = [item |-> call[t].arg, next |-> Null]

\* t holds a: with its hp i, or with an orc_ptr.
Holds(t, i, a) == IF orc THEN a \in QHeld(t) ELSE hp[<<t, i>>] = a

\* t has kept a node from being used again since it was in the queue.
Kept(t, i, a) ==
    /\ a \in Addr /\ Holds(t, i, a)
    /\ \/ mem[a] = "used" /\ \A u \in Threads : a \notin Unlinked(u)
       \/ ~orc /\ mem[a] = "retired" /\ <<t, i>> \in since[a]

\* The nodes of the queue from head on: f[1], ..., f[m]; tail is at f[k].
Queued(k, m, f) ==
    /\ m \in {k, k+1} /\ f[1] = root.head /\ f[k] = root.tail
    /\ \A i \in 1 .. m : mem[f[i]] = "used"
    /\ \A i \in 1 .. m-1 : node[f[i]].next = f[i+1]
    /\ node[f[m]].next = Null
    /\ \A i, j \in 1 .. m : f[i] = f[j] => i = j

\* What t has protected: what it knows about it, and where it is if it is
\* in the queue.  A node that has left the queue may be poisoned.
QSeen(t, k, m, f) ==
    LET x == loc[t]
    IN  /\ pc[t] \in {"enq_next", "enq_link", "enq_help", "enq_swing"} => Kept(t, 0, x.tail)
        /\ pc[t] \in {"enq_next", "enq_link"} =>
              (\E j \in 1 .. k : f[j] = x.tail) \/ node[x.tail].next # Null
        /\ pc[t] = "enq_help" =>
              /\ x.next # Null /\ node[x.tail].next # Null
              /\ x.tail = root.tail => x.next = node[x.tail].next
        /\ pc[t] = "enq_swing" =>
              /\ x.new # Null /\ node[x.tail].next # Null
              /\ x.tail = root.tail => x.new = node[x.tail].next /\ node[x.new].item = call[t].arg
        /\ pc[t] \in {"deq_tail", "deq_next", "deq_cas"} =>
              Kept(t, 0, x.node) /\ (x.node = f[1] \/ \A i \in 1 .. m : f[i] # x.node)
        /\ pc[t] \in {"deq_next", "deq_cas"} /\ x.node = f[1] => k > 1
        /\ pc[t] = "deq_cas" /\ x.node = f[1] =>
              x.next = node[x.node].next /\ Kept(t, 1, x.next)
        /\ pc[t] = "deq_item" => Kept(t, 1, x.next)

\* Every node that no queue has and no thread protects is in one hand.
QApart(m, f) == \A t \in Threads : \A a \in QMine(t) :
    /\ a \in Addr /\ mem[a] = "used"
    /\ \A i \in 1 .. m : f[i] # a
    /\ \A u \in Threads \ {t} : a \notin QMine(u)

\* The thread that has linked a node and has to move tail to it.
Linker(t) == pc[t] = "enq_swing" /\ loc[t].tail = root.tail
Linking(k, m) ==
    /\ m = k+1 => \E t \in Threads : Linker(t)
    /\ \A t, u \in Threads : Linker(t) /\ Linker(u) => t = u

\* What the calls have done so far, if enqueue() takes effect when tail
\* moves to its node, whoever moves it, and dequeue() with its CAS, or when
\* it finds tail at the sentinel.
QItems(k, f) == [i \in 1 .. k-1 |-> node[f[i+1]].item]
QResult(t) ==
    CASE pc[t] = "idle"      -> NoCall
      [] pc[t] = "deq_empty" -> Null
      [] pc[t] = "deq_item"  -> node[loc[t].next].item
      [] pc[t] = "enq_swing" -> IF Linker(t) THEN Pending ELSE True
      [] OTHER               -> Pending
QResults == [t \in Threads |-> QResult(t)]
QNow(k, f) == [abs |-> QItems(k, f), res |-> QResults]

\* The calls that have taken effect and not returned.
QAhead == {t \in Threads : \/ pc[t] \in {"deq_empty", "deq_item"}
                           \/ pc[t] = "enq_swing" /\ ~Linker(t)}

QGood(k, m, f) ==
    /\ Queued(k, m, f) /\ QApart(m, f) /\ Linking(k, m)
    /\ \A t \in Threads : QSeen(t, k, m, f)
    /\ QNow(k, f) \in Reached[Cardinality(QAhead)]

QueueInv ==
    /\ QTypeInv /\ MonitorInv /\ Linearizable
    /\ \A t \in Threads : QInside(t) /\ QFilled(t)
    /\ \E k, m \in Nat \ {0} : \E f \in [1 .. m -> Addr] : QGood(k, m, f)

-----------------------------------------------------------------------------

(* The queue: its steps. *)

(* What survives a step of another thread. *)

\* An hp that t has.
LEMMA HpsOf ==
    ASSUME HPs \in Nat, HPs >= 2, NEW t \in Threads
    PROVE  <<t, 0>> \in Slot /\ <<t, 1>> \in Slot
  BY DEF Slot, Index

\* Who holds what, after a step of another thread.
LEMMA HoldsAfter ==
    ASSUME NEW t \in Threads, OthersStay(t), UNCHANGED fixed, NEW u \in Threads \ {t}, NEW i, NEW a,
           Holds(u, i, a), hp'[<<u, i>>] = hp[<<u, i>>]
    PROVE  Holds(u, i, a)'
<1>1. pc'[u] = pc[u] /\ loc'[u] = loc[u] /\ orc' = orc
  BY DEF OthersStay, fixed
<1> QED  BY <1>1 DEF Holds, QHeld, At

\* A protection goes on if it still holds its node, which is at most retired.
LEMMA KeptAfter ==
    ASSUME NEW u \in Threads, NEW i, NEW a, Kept(u, i, a), UNCHANGED fixed, Holds(u, i, a)',
           mem[a] = "used" =>
              \/ mem'[a] = "used" /\ \A v \in Threads : a \in Unlinked(v)' => a \in Unlinked(v)
              \/ ~orc /\ mem'[a] = "retired" /\ <<u, i>> \in since'[a],
           ~orc /\ mem[a] = "retired" /\ <<u, i>> \in since[a] =>
              mem'[a] = "retired" /\ <<u, i>> \in since'[a]
    PROVE  Kept(u, i, a)'
<1>0. orc' = orc /\ a \in Addr
  BY DEF fixed, Kept
<1> HIDE DEF Holds
<1>1. CASE mem[a] = "used"
  BY <1>0, <1>1 DEF Kept
<1>2. CASE mem[a] # "used"
  BY <1>0, <1>2 DEF Kept
<1> QED  BY <1>1, <1>2

\* A step that frees no node, allocates none, and touches no hp of the
\* others leaves their protections alone.
Harmless(t) ==
    /\ orc => mem' = mem
    /\ \A u \in Threads \ {t}, i \in {0, 1} :
          /\ hp'[<<u, i>>] = hp[<<u, i>>]
          /\ \A a \in Addr : <<u, i>> \in since[a] /\ hp[<<u, i>>] = a => <<u, i>> \in since'[a]
    /\ \A a \in Addr :
          \/ mem'[a] = mem[a]
          \/ /\ mem[a] = "used" /\ mem'[a] = "retired"
             /\ \A u \in Threads \ {t}, i \in {0, 1} : hp[<<u, i>>] = a => <<u, i>> \in since'[a]

\* The protections of the others survive a harmless step.
LEMMA HarmlessKeeps ==
    ASSUME NEW t \in Threads, Harmless(t), OthersStay(t), UNCHANGED fixed,
           \A v \in Threads : Unlinked(v)' \subseteq Unlinked(v),
           NEW u \in Threads \ {t}, NEW i \in {0, 1}, NEW a, Kept(u, i, a)
    PROVE  Kept(u, i, a)'
<1>1. a \in Addr /\ Holds(u, i, a) /\ (orc \/ hp[<<u, i>>] = a)
  BY DEF Kept, Holds
<1>2. hp'[<<u, i>>] = hp[<<u, i>>]
  BY DEF Harmless
<1>3. Holds(u, i, a)'
  BY <1>1, <1>2, HoldsAfter
<1>4. CASE orc
  BY <1>1, <1>3, <1>4, KeptAfter DEF Harmless
<1>5. CASE ~orc
  <2>1. /\ <<u, i>> \in since[a] => <<u, i>> \in since'[a]
        /\ \/ mem'[a] = mem[a]
           \/ mem[a] = "used" /\ mem'[a] = "retired" /\ <<u, i>> \in since'[a]
    BY <1>1, <1>5 DEF Harmless
  <2> QED  BY <1>3, <1>5, <2>1, KeptAfter
<1> QED  BY <1>4, <1>5

\* Where nothing happens to the memory.
LEMMA SameMemory == ASSUME NEW t \in Threads, UNCHANGED mm  PROVE Harmless(t)
  BY DEF Harmless, mm

\* protect() into hp i.
LEMMA QProtecting ==
    ASSUME QTypeInv, NEW t \in Threads, NEW i \in {0, 1}, NEW v \in Int, Protect(t, i, v)
    PROVE  /\ hp' \in [Slot -> Int] /\ (orc \/ hp'[<<t, i>>] = v)
           /\ \A s \in Slot : s # <<t, i>> => hp'[s] = hp[s]
           /\ mem' = mem /\ since' \in [Addr -> SUBSET Slot]
           /\ \A s \in Slot : \A a \in Addr : s # <<t, i>> /\ s \in since[a] /\ hp[s] = a => s \in since'[a]
           /\ Harmless(t)
<1> DEFINE h == [hp EXCEPT ![<<t, i>>] = v]
<1>a. CASE orc
  <2>1. UNCHANGED mm
    BY <1>a DEF Protect
  <2>2. Harmless(t)
    BY <2>1, SameMemory
  <2> QED  BY <1>a, <2>1, <2>2 DEF mm, QTypeInv
<1>b. CASE ~orc
  <2>0. \A u \in Threads : <<u, 0>> \in Slot /\ <<u, 1>> \in Slot
    BY <1>b, HpsOf, MemoryAssumption DEF QTypeInv, QChosen
  <2>1. Protections(h, {})
    BY <1>b DEF Protect, Publish
  <2>2. h \in [Slot -> Int] /\ h[<<t, i>>] = v /\ \A s \in Slot : s # <<t, i>> => h[s] = hp[s]
    BY <2>0 DEF QTypeInv
  <2>3. mem \in [Addr -> {"none", "used", "retired"}]
    BY DEF QTypeInv
  <2> HIDE DEF h
  <2>4. hp' = h /\ mem' = [a \in Addr |-> mem[a]]
        /\ since' = [a \in Addr |-> {s \in Slot : h[s] = a /\ s \in since[a]}]
    BY <2>1 DEF Protections
  <2>5. since' \in [Addr -> SUBSET Slot]
    BY <2>4
  <2>6. mem' = mem
    BY <2>3, <2>4
  <2>7. \A s \in Slot : \A a \in Addr : s # <<t, i>> /\ s \in since[a] /\ hp[s] = a => s \in since'[a]
    BY <2>2, <2>4
  <2>8. \A u \in Threads \ {t}, j \in {0, 1} : <<u, j>> \in Slot /\ <<u, j>> # <<t, i>>
    BY <2>0
  <2>9. Harmless(t)
    BY <2>2, <2>4, <2>6, <2>7, <2>8 DEF Harmless
  <2> QED  BY <2>2, <2>4, <2>5, <2>6, <2>7, <2>9
<1> QED  BY <1>a, <1>b

\* clear(), and retire() of the nodes in R.
LEMMA QReleasing ==
    ASSUME QTypeInv, NEW t \in Threads, NEW R \in SUBSET Addr, \A a \in R : mem[a] = "used",
           Release(t, R)
    PROVE  /\ hp' \in [Slot -> Int] /\ mem' \in [Addr -> {"none", "used", "retired"}]
           /\ since' \in [Addr -> SUBSET Slot]
           /\ \A a \in Addr : a \notin R => mem'[a] = mem[a]
           /\ Harmless(t)
<1> DEFINE h == [s \in Slot |-> IF s[1] = t THEN Null ELSE hp[s]]
<1>a. CASE orc
  <2>1. UNCHANGED mm
    BY <1>a DEF Release
  <2>2. Harmless(t)
    BY <2>1, SameMemory
  <2> QED  BY <2>1, <2>2 DEF mm, QTypeInv
<1>b. CASE ~orc
  <2>0. \A u \in Threads : <<u, 0>> \in Slot /\ <<u, 1>> \in Slot
    BY <1>b, HpsOf, MemoryAssumption DEF QTypeInv, QChosen
  <2>1. Protections(h, R)
    BY <1>b DEF Release
  <2>2. h \in [Slot -> Int]
    BY DEF QTypeInv, Null
  <2>3. \A u \in Threads \ {t}, j \in {0, 1} : h[<<u, j>>] = hp[<<u, j>>]
    BY <2>0
  <2>4. mem \in [Addr -> {"none", "used", "retired"}]
    BY DEF QTypeInv
  <2> HIDE DEF h
  <2>5. hp' = h
        /\ mem' = [a \in Addr |-> IF a \notin R THEN mem[a]
                                 ELSE IF mem[a] = "used" THEN "retired" ELSE "twice"]
        /\ since' = [a \in Addr |-> {s \in Slot : h[s] = a /\ (a \in R \/ s \in since[a])}]
    BY <2>1 DEF Protections
  <2>6. since' \in [Addr -> SUBSET Slot]
    BY <2>5
  <2>7. \A a \in Addr : mem'[a] = IF a \in R THEN "retired" ELSE mem[a]
    BY <2>5
  <2>8. mem' \in [Addr -> {"none", "used", "retired"}]
    BY <2>4, <2>5
  <2>9. \A u \in Threads \ {t}, j \in {0, 1} : \A a \in Addr :
            hp[<<u, j>>] = a /\ (a \in R \/ <<u, j>> \in since[a]) => <<u, j>> \in since'[a]
    BY <2>0, <2>3, <2>5
  <2>10. Harmless(t)
    BY <1>b, <2>3, <2>5, <2>7, <2>9 DEF Harmless
  <2> QED  BY <2>2, <2>5, <2>6, <2>7, <2>8, <2>10
<1> QED  BY <1>a, <1>b

-----------------------------------------------------------------------------

\* Who has linked a node and not moved tail has linked the last one.
LEMMA LinkedLast ==
    ASSUME QTypeInv, NEW k \in Nat \ {0}, NEW m \in Nat \ {0}, NEW f \in [1 .. m -> Addr],
           Queued(k, m, f), NEW t \in Threads, QSeen(t, k, m, f), Linker(t)
    PROVE  /\ m = k+1 /\ f[k] = loc[t].tail /\ f[m] = loc[t].new
           /\ node[f[k]].next = f[m] /\ node[f[m]].item = call[t].arg
<1>1. loc[t].tail = f[k] /\ node[f[k]].next = loc[t].new /\ loc[t].new # Null
      /\ node[loc[t].new].item = call[t].arg
  BY DEF Linker, Queued, QSeen
<1>2. m # k
  BY <1>1 DEF Queued
<1>3. m = k + 1 /\ k \in 1 .. m-1
  BY <1>2 DEF Queued
<1>4. node[f[k]].next = f[k+1]
  BY <1>3 DEF Queued
<1> QED  BY <1>1, <1>3, <1>4

\* Tail is not moved back to a node that has a successor.
MovesOn(u) == \A a : Kept(u, 0, a) /\ node[a].next # Null /\ a = root'.tail => a = root.tail

\* The nodes that u protects and that are at head or not in the queue f have
\* not come into the queue g, and if they are still at head, then the other
\* items are still there.
StaysOut(u, k, m, f, l, n, g) == \A a : Kept(u, 0, a) /\ (a = f[1] \/ \A i \in 1 .. m : f[i] # a) =>
    \/ a = f[1] /\ a = g[1] /\ (k > 1 => l > 1)
    \/ \A i \in 1 .. n : g[i] # a

\* The nodes up to tail remain there, or have a successor.
StaysIn(k, f, l, g) == \A j \in 1 .. k :
    (\E i \in 1 .. l : g[i] = f[j]) \/ node'[f[j]].next # Null

\* Items stay, and links except that of the last node, and those of the
\* nodes that have left the queue.
Grows(u, m, f) == \A a, i : Kept(u, i, a) =>
    /\ node'[a].item = node[a].item
    /\ \/ node'[a].next = node[a].next
       \/ a = f[m] /\ node[a].next = Null
       \/ node'[a].next # Null /\ \A j \in 1 .. m : f[j] # a

\* What u has seen is still so after a step of another thread.
LEMMA QSeenAfter ==
    ASSUME QTypeInv, NEW k \in Nat \ {0}, NEW m \in Nat \ {0}, NEW f \in [1 .. m -> Addr],
           Queued(k, m, f), NEW u \in Threads, QSeen(u, k, m, f),
           NEW l, NEW n \in Nat \ {0}, NEW g,
           pc'[u] = pc[u], loc'[u] = loc[u], call'[u] = call[u],
           \A i \in {0, 1} : \A a : Kept(u, i, a) => Kept(u, i, a)',
           MovesOn(u), StaysOut(u, k, m, f, l, n, g), StaysIn(k, f, l, g), Grows(u, m, f),
           node'[f[m]].item = node[f[m]].item
    PROVE  QSeen(u, l, n, g)'
<1> DEFINE x == loc[u]
<1>1. ASSUME pc[u] \in {"enq_next", "enq_link", "enq_help", "enq_swing"}
      PROVE  Kept(u, 0, x.tail) /\ Kept(u, 0, x.tail)' /\ x.tail \in Addr
  BY <1>1 DEF QSeen, Kept
<1>2. ASSUME pc[u] \in {"enq_next", "enq_link"}
      PROVE  (\E j \in 1 .. l : g[j] = x.tail) \/ node'[x.tail].next # Null
  <2>1. CASE \E j \in 1 .. k : f[j] = x.tail
    BY <2>1 DEF StaysIn
  <2>2. CASE node[x.tail].next # Null
    BY <1>1, <1>2, <2>2 DEF Grows
  <2> QED  BY <1>2, <2>1, <2>2 DEF QSeen
<1>a. k \in 1 .. m /\ f[k] = root.tail
  BY DEF Queued
<1>b. ASSUME pc[u] \in {"enq_help", "enq_swing"}, node[x.tail].next # Null
      PROVE  /\ node'[x.tail].next # Null
             /\ x.tail = root'.tail => x.tail = root.tail /\ node'[x.tail].next = node[x.tail].next
  <2>1. Kept(u, 0, x.tail)
    BY <1>1, <1>b
  <2>2. \/ node'[x.tail].next = node[x.tail].next
        \/ node'[x.tail].next # Null /\ \A j \in 1 .. m : f[j] # x.tail
    BY <1>b, <2>1 DEF Grows
  <2>3. x.tail = root'.tail => x.tail = root.tail
    BY <1>b, <2>1 DEF MovesOn
  <2> QED  BY <1>a, <1>b, <2>2, <2>3
<1>3. ASSUME pc[u] = "enq_help"
      PROVE  /\ x.next # Null /\ node'[x.tail].next # Null
             /\ x.tail = root'.tail => x.next = node'[x.tail].next
  <2>1. /\ x.next # Null /\ node[x.tail].next # Null
        /\ x.tail = root.tail => x.next = node[x.tail].next
    BY <1>3 DEF QSeen
  <2> QED  BY <1>b, <1>3, <2>1
<1>4. ASSUME pc[u] = "enq_swing"
      PROVE  /\ x.new # Null /\ node'[x.tail].next # Null
             /\ x.tail = root'.tail => x.new = node'[x.tail].next /\ node'[x.new].item = call[u].arg
  <2>1. /\ x.new # Null /\ node[x.tail].next # Null
        /\ x.tail = root.tail => x.new = node[x.tail].next
    BY <1>4 DEF QSeen
  <2>3. ASSUME x.tail = root'.tail  PROVE x.new = node'[x.tail].next /\ node'[x.new].item = call[u].arg
    <3>1. Linker(u)
      BY <1>b, <1>4, <2>1, <2>3 DEF Linker
    <3>2. f[m] = x.new /\ node[f[m]].item = call[u].arg
      BY <3>1, LinkedLast
    <3> QED  BY <1>b, <1>4, <2>1, <2>3, <3>2
  <2> QED  BY <1>b, <1>4, <2>1, <2>3
<1>5. ASSUME pc[u] \in {"deq_tail", "deq_next", "deq_cas"}
      PROVE  /\ Kept(u, 0, x.node) /\ Kept(u, 0, x.node)'
             /\ x.node = f[1] \/ \A i \in 1 .. m : f[i] # x.node
             /\ \/ x.node = f[1] /\ x.node = g[1] /\ (k > 1 => l > 1)
                \/ \A i \in 1 .. n : g[i] # x.node
  <2>1. Kept(u, 0, x.node) /\ (x.node = f[1] \/ \A i \in 1 .. m : f[i] # x.node)
    BY <1>5 DEF QSeen
  <2> QED  BY <2>1 DEF StaysOut
<1>6. ASSUME pc[u] = "deq_cas", x.node = g[1]
      PROVE  x.next = node'[x.node].next /\ Kept(u, 1, x.next)'
  <2>0. 1 \in 1 .. n /\ 1 \in 1 .. m /\ m \in 1 .. m
    OBVIOUS
  <2>1. x.node = f[1] /\ Kept(u, 0, x.node)
    BY <1>5, <1>6, <2>0
  <2>2. x.next = node[x.node].next /\ Kept(u, 1, x.next) /\ k > 1
    BY <1>6, <2>1 DEF QSeen
  <2>3. x.node # f[m]
    <3>1. m # 1
      BY <2>2 DEF Queued
    <3> QED  BY <2>0, <2>1, <3>1 DEF Queued
  <2>4. node'[x.node].next = node[x.node].next
    BY <2>0, <2>1, <2>3 DEF Grows
  <2> QED  BY <2>2, <2>4
<1>7. ASSUME pc[u] = "deq_item"  PROVE Kept(u, 1, x.next)'
  BY <1>7 DEF QSeen
<1>8. ASSUME pc[u] \in {"deq_next", "deq_cas"}, x.node = f[1]  PROVE k > 1
  BY <1>8 DEF QSeen
<1>9. loc'[u] = x
  OBVIOUS
<1> HIDE DEF x
<1> QED  BY <1>1, <1>2, <1>3, <1>4, <1>5, <1>6, <1>7, <1>8, <1>9 DEF QSeen

-----------------------------------------------------------------------------

\* The others are where they were, with the same call and node.
LEMMA QOthersAfter ==
    ASSUME NEW t \in Threads, OthersStay(t), NEW u \in Threads \ {t}, QInside(u), QFilled(u),
           \A a \in Unlinked(u) : node'[a] = node[a]
    PROVE  QInside(u)' /\ QFilled(u)'
<1>1. pc'[u] = pc[u] /\ loc'[u] = loc[u] /\ call'[u] = call[u]
  BY DEF OthersStay
<1>2. QInside(u)'
  BY <1>1 DEF QInside
<1>3. QFilled(u)'
  BY <1>1 DEF QFilled, Unlinked
<1> QED  BY <1>2, <1>3

\* The nodes of the others stay theirs.
LEMMA QMineAfter ==
    ASSUME NEW t \in Threads, OthersStay(t), NEW u \in Threads \ {t}
    PROVE  QMine(u)' = QMine(u) /\ Unlinked(u)' = Unlinked(u)
  BY DEF QMine, Unlinked, OthersStay

\* Nodes in hand stay apart from each other and from the queue.
LEMMA QApartAfter ==
    ASSUME NEW t \in Threads, OthersStay(t), NEW m \in Nat \ {0}, NEW f, QApart(m, f),
           NEW n \in Nat \ {0}, NEW g,
           \A u \in Threads \ {t} : \A a \in QMine(u) : mem'[a] = mem[a] /\ \A i \in 1 .. n : g[i] # a,
           \A a \in QMine(t)' : /\ a \in Addr /\ mem'[a] = "used" /\ \A i \in 1 .. n : g[i] # a
                                /\ \A u \in Threads \ {t} : a \notin QMine(u)
    PROVE  QApart(n, g)'
<1>1. \A u \in Threads \ {t} : QMine(u)' = QMine(u)
  BY QMineAfter
<1>2. ASSUME NEW u \in Threads, NEW a \in QMine(u)'
      PROVE  /\ a \in Addr /\ mem'[a] = "used" /\ \A i \in 1 .. n : g[i] # a
             /\ \A v \in Threads \ {u} : a \notin QMine(v)'
  <2>1. CASE u = t
    BY <1>1, <1>2, <2>1
  <2>2. CASE u # t
    <3>1. a \in QMine(u) /\ a \in Addr /\ mem[a] = "used" /\ \A v \in Threads \ {u} : a \notin QMine(v)
      BY <1>1, <1>2, <2>2 DEF QApart
    <3>2. mem'[a] = "used" /\ \A i \in 1 .. n : g[i] # a
      BY <2>2, <3>1
    <3>3. a \notin QMine(t)'
      BY <2>2, <3>1
    <3> QED  BY <1>1, <3>1, <3>2, <3>3
  <2> QED  BY <2>1, <2>2
<1> QED  BY <1>2 DEF QApart

\* What the others have got, if tail stays.
LEMMA QResultsAfter ==
    ASSUME NEW t \in Threads, OthersStay(t), root'.tail = root.tail,
           \A u \in Threads \ {t} : pc[u] = "deq_item" =>
               node'[loc[u].next].item = node[loc[u].next].item
    PROVE  /\ QResults' = [QResults EXCEPT ![t] = QResult(t)']
           /\ \A u \in Threads \ {t} : /\ Linker(u)' <=> Linker(u)
                                       /\ u \in QAhead' <=> u \in QAhead
<1>1. ASSUME NEW u \in Threads \ {t}  PROVE Linker(u)' <=> Linker(u)
  BY DEF Linker, OthersStay
<1>2. ASSUME NEW u \in Threads \ {t}  PROVE QResult(u)' = QResult(u)
  <2>1. pc'[u] = pc[u] /\ loc'[u] = loc[u] /\ (Linker(u)' <=> Linker(u))
    BY <1>1 DEF OthersStay
  <2> QED  BY <2>1 DEF QResult
<1>3. ASSUME NEW u \in Threads \ {t}  PROVE u \in QAhead' <=> u \in QAhead
  BY <1>1 DEF QAhead, OthersStay
<1> QED  BY <1>1, <1>2, <1>3 DEF QResults

\* Some chain is good.
LEMMA SomeChain ==
    ASSUME QueueInv
    PROVE  \E k, m \in Nat \ {0} : \E f \in [1 .. m -> Addr] :
              /\ QGood(k, m, f) /\ k \in 1 .. m /\ m \in {k, k+1}
              /\ QNow(k, f).abs = QItems(k, f) /\ QNow(k, f).res = QResults
              /\ QNow(k, f) \in Reached[Cardinality(QAhead)]
<1>1. PICK k \in Nat \ {0}, m \in Nat \ {0} : \E f \in [1 .. m -> Addr] : QGood(k, m, f)
  BY DEF QueueInv
<1>2. PICK f \in [1 .. m -> Addr] : QGood(k, m, f)
  BY <1>1
<1>3. m \in {k, k+1}
  BY <1>2 DEF QGood, Queued
<1>4. k \in 1 .. m
  BY <1>3
<1>5. QNow(k, f).abs = QItems(k, f) /\ QNow(k, f).res = QResults
  BY DEF QNow
<1> QED  BY <1>2, <1>3, <1>4, <1>5 DEF QGood

\* A step that leaves the queue alone, and retires or poisons nodes that
\* only t has.
LEMMA SameChain ==
    ASSUME QueueInv, NEW t \in Threads, OthersStay(t), Harmless(t), UNCHANGED fixed, root' = root,
           \A a \in Addr : a \notin QMine(t) => mem'[a] = mem[a] /\ node'[a] = node[a],
           \A a \in QMine(t) :
               /\ node'[a].item = node[a].item
               /\ node'[a].next = node[a].next \/ node'[a].next # Null,
           QMine(t)' = {} \/ (QMine(t)' = QMine(t) /\ mem' = mem),
           Unlinked(t)' \subseteq Unlinked(t), ~Linker(t), ~Linker(t)',
           NEW k \in Nat \ {0}, NEW m \in Nat \ {0}, NEW f \in [1 .. m -> Addr], QGood(k, m, f),
           QSeen(t, k, m, f)'
    PROVE  /\ Queued(k, m, f)' /\ QApart(m, f)' /\ Linking(k, m)'
           /\ \A u \in Threads : QSeen(u, k, m, f)'
           /\ QItems(k, f)' = QItems(k, f) /\ QResults' = [QResults EXCEPT ![t] = QResult(t)']
           /\ \A u \in Threads \ {t} : u \in QAhead' <=> u \in QAhead
           /\ \A u \in Threads \ {t} : QInside(u)' /\ QFilled(u)'
<1>0. QTypeInv /\ (\A u \in Threads : QInside(u) /\ QFilled(u))
      /\ Queued(k, m, f) /\ QApart(m, f) /\ Linking(k, m) /\ (\A u \in Threads : QSeen(u, k, m, f))
  BY DEF QueueInv, QGood
<1>a. \A u \in Threads : \A a \in QMine(u) :
         /\ a \in Addr /\ mem[a] = "used" /\ \A i \in 1 .. m : f[i] # a
         /\ \A v \in Threads \ {u} : a \notin QMine(v)
  BY <1>0 DEF QApart
<1>b. \A i \in 1 .. m : f[i] \in Addr /\ f[i] \notin QMine(t)
  BY <1>a
<1>c. \A a \in Addr : node'[a].item = node[a].item
  OBVIOUS
<1>1. ASSUME NEW u \in Threads \ {t}  PROVE QInside(u)' /\ QFilled(u)'
  <2>1. \A a \in Unlinked(u) : node'[a] = node[a]
    <3>1. Unlinked(u) \subseteq QMine(u)
      BY DEF QMine, Unlinked, Entering
    <3> QED  BY <1>a, <3>1
  <2> QED  BY <1>0, <2>1, QOthersAfter
<1>2. \A u \in Threads : Unlinked(u)' \subseteq Unlinked(u)
  BY QMineAfter
<1>3. ASSUME NEW u \in Threads \ {t}  PROVE QSeen(u, k, m, f)'
  <2>1. \A i \in {0, 1} : \A a : Kept(u, i, a) => Kept(u, i, a)'
    BY <1>2, HarmlessKeeps
  <2>a. Grows(u, m, f)
    <3>1. ASSUME NEW a \in Addr
          PROVE  \/ node'[a].next = node[a].next
                 \/ node'[a].next # Null /\ \A j \in 1 .. m : f[j] # a
      BY <1>a, <3>1
    <3> QED  BY <1>c, <3>1 DEF Grows, Kept
  <2>2. MovesOn(u) /\ StaysOut(u, k, m, f, k, m, f) /\ StaysIn(k, f, k, f) /\ Grows(u, m, f)
    BY <2>a DEF MovesOn, StaysOut, StaysIn
  <2>b. node'[f[m]].item = node[f[m]].item
    BY <1>b, <1>c
  <2>3. pc'[u] = pc[u] /\ loc'[u] = loc[u] /\ call'[u] = call[u]
    BY DEF OthersStay
  <2>4. QSeen(u, k, m, f)
    BY <1>0
  <2> QED  BY <1>0, <2>1, <2>2, <2>b, <2>3, <2>4, QSeenAfter
<1>5. Queued(k, m, f)'
  <2>1. \A i \in 1 .. m : mem'[f[i]] = mem[f[i]] /\ node'[f[i]] = node[f[i]]
    BY <1>b
  <2>2. m \in 1 .. m /\ \A i \in 1 .. m-1 : i \in 1 .. m
    OBVIOUS
  <2> QED  BY <1>0, <2>1, <2>2 DEF Queued
<1>6. QApart(m, f)'
  <2>1. \A u \in Threads \ {t} : \A a \in QMine(u) : mem'[a] = mem[a] /\ \A i \in 1 .. m : f[i] # a
    BY <1>a
  <2>2. \A a \in QMine(t)' : /\ a \in Addr /\ mem'[a] = "used" /\ \A i \in 1 .. m : f[i] # a
                             /\ \A u \in Threads \ {t} : a \notin QMine(u)
    BY <1>a
  <2> QED  BY <1>0, <2>1, <2>2, QApartAfter
<1>7. /\ QResults' = [QResults EXCEPT ![t] = QResult(t)']
      /\ \A u \in Threads \ {t} : (Linker(u)' <=> Linker(u)) /\ (u \in QAhead' <=> u \in QAhead)
  <2>1. ASSUME NEW u \in Threads \ {t}, pc[u] = "deq_item"  PROVE loc[u].next \in Addr
    BY <1>0, <2>1 DEF QSeen, Kept
  <2> QED  BY <1>c, <2>1, QResultsAfter
<1>8. Linking(k, m)'
  <2>1. \A u \in Threads : Linker(u)' <=> Linker(u)
    BY <1>7
  <2> QED  BY <1>0, <2>1 DEF Linking
<1>9. QItems(k, f)' = QItems(k, f)
  <2>1. \A i \in 1 .. k-1 : i+1 \in 1 .. m
    BY <1>0 DEF Queued
  <2>2. \A i \in 1 .. k-1 : node'[f[i+1]].item = node[f[i+1]].item
    BY <1>b, <1>c, <2>1
  <2> QED  BY <2>2 DEF QItems
<1> QED  BY <1>1, <1>3, <1>5, <1>6, <1>7, <1>8, <1>9

\* The calls that have taken effect, after a step of t.
LEMMA QAheadAfter ==
    ASSUME NEW t \in Threads, \A u \in Threads \ {t} : u \in QAhead' <=> u \in QAhead
    PROVE  /\ (t \in QAhead' <=> t \in QAhead) => QAhead' = QAhead
           /\ t \in QAhead' => QAhead' = QAhead \cup {t}
           /\ t \notin QAhead' => QAhead' = QAhead \ {t}
           /\ Cardinality(QAhead) \in 0 .. N /\ Cardinality(QAhead)' \in 0 .. N
           /\ QAhead \subseteq Threads
<1>1. QAhead \in SUBSET Threads /\ QAhead' \in SUBSET Threads
  BY DEF QAhead
<1>2. Cardinality(QAhead) \in 0 .. N /\ Cardinality(QAhead') \in 0 .. N
  BY <1>1, Counted
<1>3. Cardinality(QAhead)' = Cardinality(QAhead')
  OBVIOUS
<1> HIDE DEF QAhead
<1>4. PICK A : A = QAhead'
  OBVIOUS
<1>5. A \subseteq Threads /\ QAhead \subseteq Threads /\ \A u \in Threads \ {t} : u \in A <=> u \in QAhead
  BY <1>1, <1>4
<1>6. /\ (t \in A <=> t \in QAhead) => A = QAhead
      /\ t \in A => A = QAhead \cup {t}
      /\ t \notin A => A = QAhead \ {t}
  BY <1>5
<1> QED  BY <1>1, <1>2, <1>3, <1>4, <1>6

\* The places at which a call has neither taken effect nor linked its node.
Before == QPlace \ {"idle", "enq_swing", "deq_empty", "deq_item"}

\* A step that reads.
LEMMA QuietStep ==
    ASSUME QueueInv, NEW t \in Threads, OthersStay(t), Harmless(t), UNCHANGED fixed,
           pc[t] \in Before, NEW p \in Before, pc' = [pc EXCEPT ![t] = p],
           root' = root, node' = node, mem' = mem, Unlinked(t)' = Unlinked(t), UNCHANGED monitor,
           NEW k \in Nat \ {0}, NEW m \in Nat \ {0}, NEW f \in [1 .. m -> Addr], QGood(k, m, f),
           QSeen(t, k, m, f)'
    PROVE  /\ QGood(k, m, f)' /\ MonitorInv' /\ Linearizable'
           /\ \A u \in Threads \ {t} : QInside(u)' /\ QFilled(u)'
<1>0. MonitorInv /\ Linearizable /\ pc \in [Threads -> QPlace]
      /\ pc'[t] = p /\ p \notin {"idle", "enq_swing", "deq_empty", "deq_item"}
      /\ pc[t] \notin {"idle", "enq_swing", "deq_empty", "deq_item"}
      /\ QNow(k, f) \in Reached[Cardinality(QAhead)]
  BY DEF QueueInv, QTypeInv, Before, QGood
<1>1. MonitorInv' /\ Linearizable' /\ Reached' = Reached
  BY <1>0, QuietKeepsMonitor
<1>2. QResult(t)' = Pending /\ QResult(t) = Pending /\ ~Linker(t) /\ ~Linker(t)'
      /\ t \notin QAhead /\ t \notin QAhead'
  BY <1>0 DEF QResult, Linker, QAhead
<1>3. QMine(t)' = QMine(t)
  BY <1>0 DEF QMine
<1>4. /\ Queued(k, m, f)' /\ QApart(m, f)' /\ Linking(k, m)'
      /\ \A u \in Threads : QSeen(u, k, m, f)'
      /\ QItems(k, f)' = QItems(k, f) /\ QResults' = [QResults EXCEPT ![t] = QResult(t)']
      /\ \A u \in Threads \ {t} : u \in QAhead' <=> u \in QAhead
      /\ \A u \in Threads \ {t} : QInside(u)' /\ QFilled(u)'
  BY <1>2, <1>3, SameChain
<1>5. QAhead' = QAhead
  BY <1>2, <1>4, QAheadAfter
<1>6. QNow(k, f)' = QNow(k, f)
  <2>1. QResults' = QResults
    BY <1>2, <1>4 DEF QResults
  <2> QED  BY <1>4, <2>1 DEF QNow
<1>7. QNow(k, f)' \in Reached'[Cardinality(QAhead)']
  BY <1>0, <1>1, <1>5, <1>6
<1> QED  BY <1>1, <1>4, <1>7 DEF QGood

\* A thread changes its own place, locals and call.
LEMMA QOnlyOwn ==
    ASSUME QTypeInv, MonitorInv, NEW t \in Threads, Enqueue(t) \/ Dequeue(t) \/ QInternal(t)
    PROVE  OthersStay(t)
<1> USE DEF OthersStay, QTypeInv, MonitorInv
<1>1. CASE Enqueue(t) \/ Dequeue(t)
  BY <1>1 DEF Enqueue, Dequeue, Call
<1>2. CASE EnqSwing(t) \/ DeqEmpty(t) \/ DeqItem(t)
  BY <1>2 DEF EnqSwing, DeqEmpty, DeqItem, Return
<1>3. CASE EnqTail(t) \/ DeqHead(t) \/ DeqNext(t)
  BY <1>3 DEF EnqTail, DeqHead, DeqNext, Load, Goto, monitor
<1>4. CASE EnqNext(t) \/ EnqLink(t)
  BY <1>4 DEF EnqNext, EnqLink, Goto, monitor
<1>5. CASE EnqHelp(t) \/ DeqTail(t) \/ DeqCas(t)
  BY <1>5 DEF EnqHelp, DeqTail, DeqCas, Step, Goto, monitor
<1> QED  BY <1>1, <1>2, <1>3, <1>4, <1>5 DEF QInternal, EnqueueSteps, DequeueSteps

\* A local gets v.
LEMMA LocAfter ==
    ASSUME QTypeInv, NEW t \in Threads, loc[t] \in QLocal, NEW v \in Int
    PROVE  /\ loc' = [loc EXCEPT ![t].tail = v] =>
                /\ loc' \in [Threads -> QLocal \cup {NoLocals}]
                /\ loc'[t] \in QLocal /\ loc'[t].node = loc[t].node /\ loc'[t].tail = v
                /\ loc'[t].next = loc[t].next /\ loc'[t].new = loc[t].new
           /\ loc' = [loc EXCEPT ![t].node = v] =>
                /\ loc' \in [Threads -> QLocal \cup {NoLocals}]
                /\ loc'[t] \in QLocal /\ loc'[t].node = v /\ loc'[t].tail = loc[t].tail
                /\ loc'[t].next = loc[t].next /\ loc'[t].new = loc[t].new
           /\ loc' = [loc EXCEPT ![t].next = v] =>
                /\ loc' \in [Threads -> QLocal \cup {NoLocals}]
                /\ loc'[t] \in QLocal /\ loc'[t].node = loc[t].node /\ loc'[t].tail = loc[t].tail
                /\ loc'[t].next = v /\ loc'[t].new = loc[t].new
<1> DEFINE x == loc[t]
           L(a, b, c, d) == [node |-> a, tail |-> b, next |-> c, new |-> d]
<1>1. x = L(x.node, x.tail, x.next, x.new)
      /\ x.node \in Int /\ x.tail \in Int /\ x.next \in Int /\ x.new \in Int
  BY DEF QLocal
<1>2. \A a, b, c, d \in Int : L(a, b, c, d) \in QLocal
  BY DEF QLocal
<1>3. ASSUME NEW y \in QLocal, loc' = [loc EXCEPT ![t] = y]
      PROVE  loc' \in [Threads -> QLocal \cup {NoLocals}] /\ loc'[t] = y
  BY <1>3 DEF QTypeInv
<1>4. ASSUME NEW a, NEW b, NEW c, NEW d
      PROVE  /\ [L(a, b, c, d) EXCEPT !.tail = v] = L(a, v, c, d)
             /\ [L(a, b, c, d) EXCEPT !.node = v] = L(v, b, c, d)
             /\ [L(a, b, c, d) EXCEPT !.next = v] = L(a, b, v, d)
  OBVIOUS
<1>5. /\ [x EXCEPT !.tail = v] = L(x.node, v, x.next, x.new)
      /\ [x EXCEPT !.node = v] = L(v, x.tail, x.next, x.new)
      /\ [x EXCEPT !.next = v] = L(x.node, x.tail, v, x.new)
  <2> HIDE DEF L, x
  <2> QED  BY <1>1, <1>4
<1>6. /\ [loc EXCEPT ![t].tail = v] = [loc EXCEPT ![t] = [x EXCEPT !.tail = v]]
      /\ [loc EXCEPT ![t].node = v] = [loc EXCEPT ![t] = [x EXCEPT !.node = v]]
      /\ [loc EXCEPT ![t].next = v] = [loc EXCEPT ![t] = [x EXCEPT !.next = v]]
  OBVIOUS
<1>7. L(x.node, v, x.next, x.new) \in QLocal /\ L(v, x.tail, x.next, x.new) \in QLocal
      /\ L(x.node, x.tail, v, x.new) \in QLocal
  BY <1>1, <1>2
<1>8. ASSUME loc' = [loc EXCEPT ![t].tail = v]
      PROVE  loc' \in [Threads -> QLocal \cup {NoLocals}] /\ loc'[t] = L(x.node, v, x.next, x.new)
  <2> HIDE DEF L, x
  <2> QED  BY <1>3, <1>5, <1>6, <1>7, <1>8
<1>9. ASSUME loc' = [loc EXCEPT ![t].node = v]
      PROVE  loc' \in [Threads -> QLocal \cup {NoLocals}] /\ loc'[t] = L(v, x.tail, x.next, x.new)
  <2> HIDE DEF L, x
  <2> QED  BY <1>3, <1>5, <1>6, <1>7, <1>9
<1>10. ASSUME loc' = [loc EXCEPT ![t].next = v]
      PROVE  loc' \in [Threads -> QLocal \cup {NoLocals}] /\ loc'[t] = L(x.node, x.tail, v, x.new)
  <2> HIDE DEF L, x
  <2> QED  BY <1>3, <1>5, <1>6, <1>7, <1>10
<1> QED  BY <1>7, <1>8, <1>9, <1>10

\* The invariant after a step that reads.
LEMMA QuietDone ==
    ASSUME QueueInv, NEW t \in Threads, OthersStay(t), Harmless(t), UNCHANGED fixed,
           pc[t] \in Before, NEW p \in Before, pc' = [pc EXCEPT ![t] = p],
           root' = root, node' = node, mem' = mem, UNCHANGED monitor,
           hp' \in [Slot -> Int], since' \in [Addr -> SUBSET Slot],
           loc' \in [Threads -> QLocal \cup {NoLocals}], loc'[t] \in QLocal,
           pc[t] \in Entering <=> p \in Entering, loc'[t].new = loc[t].new,
           \A k, m \in Nat \ {0} : \A f \in [1 .. m -> Addr] : QGood(k, m, f) => QSeen(t, k, m, f)'
    PROVE  QueueInv'
<1>0. QTypeInv /\ QInside(t) /\ QFilled(t) /\ pc'[t] = p /\ call' = call
  BY DEF QueueInv, QTypeInv, monitor
<1>1. QTypeInv'
  BY <1>0 DEF QTypeInv, QChosen, fixed, monitor, Before
<1>2. QInside(t)' /\ QFilled(t)'
  <2>1. pc[t] \in Dequeuing <=> p \in Dequeuing
    BY DEF Before, Entering, QPlace, Dequeuing, Enqueuing
  <2>2. pc[t] \in Enqueuing <=> p \in Enqueuing
    BY DEF Before, Enqueuing
  <2>3. QInside(t)'
    BY <1>0, <2>1, <2>2 DEF QInside, Before
  <2>4. QFilled(t)'
    BY <1>0 DEF QFilled
  <2> QED  BY <2>3, <2>4
<1>3. Unlinked(t)' = Unlinked(t)
  BY <1>0 DEF Unlinked
<1>4. PICK k \in Nat \ {0}, m \in Nat \ {0} : \E f \in [1 .. m -> Addr] : QGood(k, m, f)
  BY DEF QueueInv
<1>5. PICK f \in [1 .. m -> Addr] : QGood(k, m, f)
  BY <1>4
<1>6. QSeen(t, k, m, f)'
  BY <1>5
<1>7. /\ QGood(k, m, f)' /\ MonitorInv' /\ Linearizable'
      /\ \A u \in Threads \ {t} : QInside(u)' /\ QFilled(u)'
  BY <1>3, <1>5, <1>6, QuietStep
<1> QED  BY <1>1, <1>2, <1>7 DEF QueueInv

-----------------------------------------------------------------------------

(* The steps that read, or whose CAS fails. *)

\* A node of the queue that t protects is kept.
LEMMA ChainKept ==
    ASSUME NEW k \in Nat \ {0}, NEW m \in Nat \ {0}, NEW f \in [1 .. m -> Addr],
           QGood(k, m, f), NEW t \in Threads, NEW i, NEW j \in 1 .. m,
           Holds(t, i, f[j])', mem' = mem, \A u \in Threads : Unlinked(u)' = Unlinked(u)
    PROVE  Kept(t, i, f[j])'
<1>1. mem'[f[j]] = "used" /\ f[j] \in Addr
  BY DEF QGood, Queued
<1>2. ASSUME NEW u \in Threads  PROVE f[j] \notin Unlinked(u)'
  <2>1. f[j] \notin QMine(u)
    BY DEF QGood, QApart
  <2> QED  BY <2>1 DEF QMine, Unlinked, Entering
<1> QED  BY <1>1, <1>2 DEF Kept

\* A protection survives a step that leaves the memory alone.
LEMMA KeptStill ==
    ASSUME NEW t, NEW i, NEW a, Kept(t, i, a), UNCHANGED mm, UNCHANGED fixed,
           pc'[t] # "idle", a \in QHeld(t) => a \in {loc'[t].node, loc'[t].tail, loc'[t].next, loc'[t].new},
           \A u \in Threads : Unlinked(u)' \subseteq Unlinked(u)
    PROVE  Kept(t, i, a)'
<1>1. Holds(t, i, a)'
  BY DEF Kept, Holds, QHeld, At, mm, fixed
<1> QED  BY <1>1 DEF Kept, mm, fixed

\* The load of tail in enqueue().
LEMMA EnqTailStep ==
    ASSUME QueueInv, NEW t \in Threads, EnqTail(t), UNCHANGED fixed
    PROVE  QueueInv'
<1>0. QTypeInv /\ MonitorInv /\ QInside(t)
  BY DEF QueueInv
<1>1. /\ pc[t] = "enq_tail" /\ pc' = [pc EXCEPT ![t] = "enq_next"]
      /\ loc' = [loc EXCEPT ![t].tail = root.tail] /\ Protect(t, 0, root.tail)
      /\ root' = root /\ node' = node /\ UNCHANGED monitor
  BY DEF EnqTail, Load, At, Goto, heap
<1>2. OthersStay(t)
  BY <1>0, QOnlyOwn DEF QInternal, EnqueueSteps
<1>3. loc[t] \in QLocal /\ root.tail \in Int
  BY <1>0, <1>1 DEF QInside, QTypeInv, Addr
<1>4. /\ loc' \in [Threads -> QLocal \cup {NoLocals}] /\ loc'[t] \in QLocal
      /\ loc'[t].tail = root.tail /\ loc'[t].new = loc[t].new
  BY <1>0, <1>1, <1>3, LocAfter
<1>5. /\ hp' \in [Slot -> Int] /\ since' \in [Addr -> SUBSET Slot] /\ mem' = mem
      /\ (orc \/ hp'[<<t, 0>>] = root.tail) /\ Harmless(t)
  BY <1>0, <1>1, <1>3, QProtecting
<1>6. pc'[t] = "enq_next" /\ \A u \in Threads : Unlinked(u)' = Unlinked(u)
  <2>1. pc'[t] = "enq_next"
    BY <1>0, <1>1 DEF QTypeInv
  <2>2. Unlinked(t)' = Unlinked(t)
    BY <1>1, <1>4, <2>1 DEF Unlinked, Entering
  <2> QED  BY <1>2, <2>1, <2>2, QMineAfter
<1>7. ASSUME NEW k \in Nat \ {0}, NEW m \in Nat \ {0}, NEW f \in [1 .. m -> Addr], QGood(k, m, f)
      PROVE  QSeen(t, k, m, f)'
  <2>1. k \in 1 .. m /\ k \in 1 .. k /\ f[k] = root.tail
    BY <1>7 DEF QGood, Queued
  <2>a. Holds(t, 0, f[k])'
    BY <1>4, <1>5, <1>6, <2>1 DEF Holds, QHeld, At, fixed
  <2>2. Kept(t, 0, f[k])'
    BY <1>5, <1>6, <1>7, <2>1, <2>a, ChainKept
  <2> QED  BY <1>4, <1>6, <2>1, <2>2 DEF QSeen
<1> QED  BY <1>1, <1>2, <1>4, <1>5, <1>7, QuietDone DEF Before, QPlace, Entering, Enqueuing

\* The load of the link of its node.
LEMMA EnqNextStep ==
    ASSUME QueueInv, NEW t \in Threads, EnqNext(t), UNCHANGED fixed
    PROVE  QueueInv'
<1>a. PICK a : a = loc[t].tail
  OBVIOUS
<1>b. PICK p : p = IF node[a].next = Null THEN "enq_link" ELSE "enq_help"
  OBVIOUS
<1>0. QTypeInv /\ MonitorInv /\ QInside(t)
  BY DEF QueueInv
<1>1. /\ pc[t] = "enq_next" /\ pc' = [pc EXCEPT ![t] = p]
      /\ loc' = [loc EXCEPT ![t].next = node[a].next] /\ UNCHANGED mm
      /\ root' = root /\ node' = node /\ UNCHANGED monitor
  BY <1>a, <1>b DEF EnqNext, At, Goto, heap
<1>2. OthersStay(t)
  BY <1>0, QOnlyOwn DEF QInternal, EnqueueSteps
<1>3. PICK k \in Nat \ {0}, m \in Nat \ {0} : \E f \in [1 .. m -> Addr] : QGood(k, m, f)
  BY DEF QueueInv
<1>4. loc[t] \in QLocal /\ a \in Addr /\ node[a].next \in Int
  <2>1. Kept(t, 0, a)
    BY <1>a, <1>1, <1>3 DEF QGood, QSeen
  <2> QED  BY <1>0, <1>1, <2>1 DEF QInside, QTypeInv, Kept
<1>5. /\ loc' \in [Threads -> QLocal \cup {NoLocals}] /\ loc'[t] \in QLocal
      /\ loc'[t].tail = a /\ loc'[t].next = node[a].next /\ loc'[t].new = loc[t].new
  BY <1>a, <1>0, <1>1, <1>4, LocAfter
<1>6. Harmless(t) /\ hp' = hp /\ mem' = mem /\ since' = since
  BY <1>1, SameMemory DEF mm
<1>7. pc'[t] = p /\ p \in {"enq_link", "enq_help"}
  BY <1>b, <1>0, <1>1 DEF QTypeInv
<1>8. \A u \in Threads : Unlinked(u)' = Unlinked(u)
  <2>1. Unlinked(t)' = Unlinked(t)
    BY <1>1, <1>5, <1>7 DEF Unlinked, Entering
  <2> QED  BY <1>2, <2>1, QMineAfter
<1>9. ASSUME NEW l \in Nat \ {0}, NEW n \in Nat \ {0}, NEW g \in [1 .. n -> Addr], QGood(l, n, g)
      PROVE  QSeen(t, l, n, g)'
  <2>1. Kept(t, 0, a) /\ ((\E j \in 1 .. l : g[j] = a) \/ node[a].next # Null)
    BY <1>a, <1>1, <1>9 DEF QGood, QSeen
  <2>2. Kept(t, 0, a)'
    BY <1>1, <1>5, <1>7, <1>8, <2>1, KeptStill
  <2>3. p = "enq_help" => node[a].next # Null
    BY <1>b
  <2>4. pc'[t] \notin {"enq_next", "enq_swing", "deq_tail", "deq_next", "deq_cas", "deq_item"}
    BY <1>7
  <2> QED  BY <1>1, <1>5, <1>7, <2>1, <2>2, <2>3, <2>4 DEF QSeen
<1>10. pc[t] \in Before /\ p \in Before /\ pc[t] \in Entering /\ p \in Entering
  BY <1>1, <1>7 DEF Before, QPlace, Entering, Enqueuing
<1>11. hp' \in [Slot -> Int] /\ since' \in [Addr -> SUBSET Slot]
  BY <1>0, <1>6 DEF QTypeInv
<1> QED  BY <1>1, <1>2, <1>5, <1>6, <1>9, <1>10, <1>11, QuietDone

\* The CAS of the link fails: another node has been linked.
LEMMA EnqLinkFails ==
    ASSUME QueueInv, NEW t \in Threads, EnqLink(t), UNCHANGED fixed, node[loc[t].tail].next # Null
    PROVE  QueueInv'
<1>0. QTypeInv /\ MonitorInv /\ QInside(t)
  BY DEF QueueInv
<1>1. /\ pc[t] = "enq_link" /\ pc' = [pc EXCEPT ![t] = "enq_tail"]
      /\ loc' = loc /\ UNCHANGED mm /\ root' = root /\ node' = node /\ UNCHANGED monitor
  BY DEF EnqLink, CasNext, At, Goto
<1>2. OthersStay(t)
  BY <1>0, QOnlyOwn DEF QInternal, EnqueueSteps
<1>3. loc[t] \in QLocal /\ pc'[t] = "enq_tail"
  BY <1>0, <1>1 DEF QInside, QTypeInv
<1>4. Harmless(t) /\ hp' = hp /\ mem' = mem /\ since' = since
  BY <1>1, SameMemory DEF mm
<1>5. \A k, m \in Nat \ {0} : \A f \in [1 .. m -> Addr] : QGood(k, m, f) => QSeen(t, k, m, f)'
  BY <1>3 DEF QSeen
<1>6. pc[t] \in Before /\ "enq_tail" \in Before /\ pc[t] \in Entering /\ "enq_tail" \in Entering
  BY <1>1 DEF Before, QPlace, Entering, Enqueuing
<1> QED  BY <1>0, <1>1, <1>2, <1>3, <1>4, <1>5, <1>6, QuietDone DEF QTypeInv

\* Another thread has moved tail.
LEMMA EnqHelpFails ==
    ASSUME QueueInv, NEW t \in Threads, EnqHelp(t), UNCHANGED fixed, root.tail # loc[t].tail
    PROVE  QueueInv'
<1>0. QTypeInv /\ MonitorInv /\ QInside(t)
  BY DEF QueueInv
<1>1. /\ pc[t] = "enq_help" /\ pc' = [pc EXCEPT ![t] = "enq_tail"]
      /\ loc' = loc /\ UNCHANGED mm /\ root' = root /\ node' = node /\ UNCHANGED monitor
  BY DEF EnqHelp, CasRoot, Step, At, Goto
<1>2. OthersStay(t)
  BY <1>0, QOnlyOwn DEF QInternal, EnqueueSteps
<1>3. loc[t] \in QLocal /\ pc'[t] = "enq_tail"
  BY <1>0, <1>1 DEF QInside, QTypeInv
<1>4. Harmless(t) /\ hp' = hp /\ mem' = mem /\ since' = since
  BY <1>1, SameMemory DEF mm
<1>5. \A k, m \in Nat \ {0} : \A f \in [1 .. m -> Addr] : QGood(k, m, f) => QSeen(t, k, m, f)'
  BY <1>3 DEF QSeen
<1>6. pc[t] \in Before /\ "enq_tail" \in Before /\ pc[t] \in Entering /\ "enq_tail" \in Entering
  BY <1>1 DEF Before, QPlace, Entering, Enqueuing
<1> QED  BY <1>0, <1>1, <1>2, <1>3, <1>4, <1>5, <1>6, QuietDone DEF QTypeInv

\* The load of head in dequeue().
LEMMA DeqHeadStep ==
    ASSUME QueueInv, NEW t \in Threads, DeqHead(t), UNCHANGED fixed
    PROVE  QueueInv'
<1>0. QTypeInv /\ MonitorInv /\ QInside(t)
  BY DEF QueueInv
<1>1. /\ pc[t] = "deq_head" /\ pc' = [pc EXCEPT ![t] = "deq_tail"]
      /\ loc' = [loc EXCEPT ![t].node = root.head] /\ Protect(t, 0, root.head)
      /\ root' = root /\ node' = node /\ UNCHANGED monitor
  BY DEF DeqHead, Load, At, Goto, heap
<1>2. OthersStay(t)
  BY <1>0, QOnlyOwn DEF QInternal, DequeueSteps
<1>3. loc[t] \in QLocal /\ root.head \in Int
  BY <1>0, <1>1 DEF QInside, QTypeInv, Addr
<1>4. /\ loc' \in [Threads -> QLocal \cup {NoLocals}] /\ loc'[t] \in QLocal
      /\ loc'[t].node = root.head /\ loc'[t].new = loc[t].new
  BY <1>0, <1>1, <1>3, LocAfter
<1>5. /\ hp' \in [Slot -> Int] /\ since' \in [Addr -> SUBSET Slot] /\ mem' = mem
      /\ (orc \/ hp'[<<t, 0>>] = root.head) /\ Harmless(t)
  BY <1>0, <1>1, <1>3, QProtecting
<1>6. pc'[t] = "deq_tail" /\ \A u \in Threads : Unlinked(u)' = Unlinked(u)
  <2>1. pc'[t] = "deq_tail"
    BY <1>0, <1>1 DEF QTypeInv
  <2>2. Unlinked(t)' = Unlinked(t)
    BY <1>1, <1>4, <2>1 DEF Unlinked, Entering
  <2> QED  BY <1>2, <2>1, <2>2, QMineAfter
<1>7. ASSUME NEW k \in Nat \ {0}, NEW m \in Nat \ {0}, NEW f \in [1 .. m -> Addr], QGood(k, m, f)
      PROVE  QSeen(t, k, m, f)'
  <2>1. 1 \in 1 .. m /\ f[1] = root.head
    BY <1>7 DEF QGood, Queued
  <2>a. Holds(t, 0, f[1])'
    BY <1>4, <1>5, <1>6, <2>1 DEF Holds, QHeld, At, fixed
  <2>2. Kept(t, 0, f[1])'
    BY <1>5, <1>6, <1>7, <2>1, <2>a, ChainKept
  <2> QED  BY <1>4, <1>6, <2>1, <2>2 DEF QSeen
<1>8. pc[t] \in Before /\ "deq_tail" \in Before /\ pc[t] \notin Entering /\ "deq_tail" \notin Entering
  BY <1>1 DEF Before, QPlace, Entering, Dequeuing
<1> QED  BY <1>1, <1>2, <1>4, <1>5, <1>7, <1>8, QuietDone

\* The queue is not empty, or the sentinel is another one by now.
LEMMA DeqTailGoesOn ==
    ASSUME QueueInv, NEW t \in Threads, DeqTail(t), UNCHANGED fixed, root.tail # loc[t].node
    PROVE  QueueInv'
<1>0. QTypeInv /\ MonitorInv /\ QInside(t)
  BY DEF QueueInv
<1>1. /\ pc[t] = "deq_tail" /\ pc' = [pc EXCEPT ![t] = "deq_next"]
      /\ loc' = loc /\ UNCHANGED mm /\ root' = root /\ node' = node /\ UNCHANGED monitor
  BY DEF DeqTail, Step, At, Goto, heap
<1>2. OthersStay(t)
  BY <1>0, QOnlyOwn DEF QInternal, DequeueSteps
<1>3. loc[t] \in QLocal /\ pc'[t] = "deq_next"
  BY <1>0, <1>1 DEF QInside, QTypeInv
<1>4. Harmless(t) /\ hp' = hp /\ mem' = mem /\ since' = since
  BY <1>1, SameMemory DEF mm
<1>5. \A u \in Threads : Unlinked(u)' = Unlinked(u)
  <2>1. Unlinked(t)' = Unlinked(t)
    BY <1>1, <1>3 DEF Unlinked, Entering
  <2> QED  BY <1>2, <2>1, QMineAfter
<1>6. ASSUME NEW k \in Nat \ {0}, NEW m \in Nat \ {0}, NEW f \in [1 .. m -> Addr], QGood(k, m, f)
      PROVE  QSeen(t, k, m, f)'
  <2>1. Kept(t, 0, loc[t].node)
        /\ (loc[t].node = f[1] \/ \A i \in 1 .. m : f[i] # loc[t].node)
    BY <1>1, <1>6 DEF QGood, QSeen
  <2>2. Kept(t, 0, loc[t].node)'
    BY <1>1, <1>3, <1>5, <2>1, KeptStill DEF QHeld
  <2>3. loc[t].node = f[1] => k > 1
    BY <1>6 DEF QGood, Queued
  <2> QED  BY <1>1, <1>3, <2>1, <2>2, <2>3 DEF QSeen
<1>7. pc[t] \in Before /\ "deq_next" \in Before /\ pc[t] \notin Entering /\ "deq_next" \notin Entering
  BY <1>1 DEF Before, QPlace, Entering, Dequeuing
<1> QED  BY <1>0, <1>1, <1>2, <1>3, <1>4, <1>6, <1>7, QuietDone DEF QTypeInv

\* The load of the link of the sentinel.
LEMMA DeqNextStep ==
    ASSUME QueueInv, NEW t \in Threads, DeqNext(t), UNCHANGED fixed
    PROVE  QueueInv'
<1>a. PICK a : a = loc[t].node
  OBVIOUS
<1>b. PICK b : b = node[a].next
  OBVIOUS
<1>0. QTypeInv /\ MonitorInv /\ QInside(t)
  BY DEF QueueInv
<1>1. /\ pc[t] = "deq_next" /\ pc' = [pc EXCEPT ![t] = "deq_cas"]
      /\ loc' = [loc EXCEPT ![t].next = node[a].next] /\ Protect(t, 1, node[a].next)
      /\ root' = root /\ node' = node /\ UNCHANGED monitor
  BY <1>a DEF DeqNext, Load, At, Goto, heap
<1>2. OthersStay(t)
  BY <1>0, QOnlyOwn DEF QInternal, DequeueSteps
<1>3. PICK k \in Nat \ {0}, m \in Nat \ {0} : \E f \in [1 .. m -> Addr] : QGood(k, m, f)
  BY DEF QueueInv
<1>4. loc[t] \in QLocal /\ a \in Addr /\ node[a].next \in Int
  <2>1. Kept(t, 0, a)
    BY <1>a, <1>1, <1>3 DEF QGood, QSeen
  <2> QED  BY <1>0, <1>1, <2>1 DEF QInside, QTypeInv, Kept
<1>5. /\ loc' \in [Threads -> QLocal \cup {NoLocals}] /\ loc'[t] \in QLocal
      /\ loc'[t].node = a /\ loc'[t].next = node[a].next /\ loc'[t].new = loc[t].new
  BY <1>a, <1>0, <1>1, <1>4, LocAfter
<1>6. /\ hp' \in [Slot -> Int] /\ since' \in [Addr -> SUBSET Slot] /\ mem' = mem
      /\ (orc \/ hp'[<<t, 1>>] = node[a].next) /\ Harmless(t)
      /\ \A s \in Slot : s # <<t, 1>> => hp'[s] = hp[s]
      /\ \A s \in Slot : \A c \in Addr : s # <<t, 1>> /\ s \in since[c] /\ hp[s] = c => s \in since'[c]
  BY <1>0, <1>1, <1>4, QProtecting
<1>7. pc'[t] = "deq_cas" /\ \A u \in Threads : Unlinked(u)' = Unlinked(u)
  <2>1. pc'[t] = "deq_cas"
    BY <1>0, <1>1 DEF QTypeInv
  <2>2. Unlinked(t)' = Unlinked(t)
    BY <1>1, <1>5, <2>1 DEF Unlinked, Entering
  <2> QED  BY <1>2, <2>1, <2>2, QMineAfter
<1>8. ASSUME NEW l \in Nat \ {0}, NEW n \in Nat \ {0}, NEW g \in [1 .. n -> Addr], QGood(l, n, g)
      PROVE  QSeen(t, l, n, g)'
  <2>1. /\ Kept(t, 0, a) /\ (a = g[1] \/ \A i \in 1 .. n : g[i] # a)
        /\ a = g[1] => l > 1
    BY <1>a, <1>1, <1>8 DEF QGood, QSeen
  <2>2. Kept(t, 0, a)'
    <3>1. ASSUME ~orc
          PROVE  hp'[<<t, 0>>] = hp[<<t, 0>>] /\ (<<t, 0>> \in since[a] => <<t, 0>> \in since'[a])
      <4>1. HPs >= 2 /\ HPs \in Nat
        BY <1>0, <3>1, MemoryAssumption DEF QTypeInv, QChosen
      <4>2. <<t, 0>> \in Slot
        BY <4>1, HpsOf
      <4>3. hp[<<t, 0>>] = a
        BY <2>1, <3>1 DEF Kept, Holds
      <4>4. <<t, 0>> # <<t, 1>>
        OBVIOUS
      <4> QED  BY <1>4, <1>6, <4>2, <4>3, <4>4
    <3>2. Holds(t, 0, a)'
      BY <1>5, <1>7, <2>1, <3>1 DEF Kept, Holds, QHeld, At, fixed
    <3> QED  BY <1>6, <1>7, <2>1, <3>1, <3>2, KeptAfter
  <2>3. ASSUME a = g[1]  PROVE Kept(t, 1, b)'
    <3>1. 2 \in 1 .. n /\ 1 \in 1 .. n-1
      BY <1>8, <2>1, <2>3 DEF QGood, Queued
    <3>2. b = g[2]
      BY <1>b, <1>8, <2>3, <3>1 DEF QGood, Queued
    <3>3. Holds(t, 1, g[2])'
      BY <1>b, <1>5, <1>6, <1>7, <3>2 DEF Holds, QHeld, At, fixed
    <3>4. Kept(t, 1, g[2])'
      BY <1>6, <1>7, <1>8, <3>1, <3>3, ChainKept
    <3> QED  BY <3>2, <3>4
  <2>4. pc'[t] \notin {"enq_next", "enq_link", "enq_help", "enq_swing", "deq_tail", "deq_next", "deq_item"}
        /\ loc'[t].next = b /\ node'[a].next = b
    BY <1>b, <1>1, <1>5, <1>7
  <2> QED  BY <1>5, <1>7, <2>1, <2>2, <2>3, <2>4 DEF QSeen
<1>9. pc[t] \in Before /\ "deq_cas" \in Before /\ pc[t] \notin Entering /\ "deq_cas" \notin Entering
  BY <1>1 DEF Before, QPlace, Entering, Dequeuing
<1> QED  BY <1>1, <1>2, <1>5, <1>6, <1>8, <1>9, QuietDone

\* The CAS of dequeue() fails: the sentinel is another one by now.
LEMMA DeqCasFails ==
    ASSUME QueueInv, NEW t \in Threads, DeqCas(t), UNCHANGED fixed, root.head # loc[t].node
    PROVE  QueueInv'
<1>0. QTypeInv /\ MonitorInv /\ QInside(t)
  BY DEF QueueInv
<1>1. /\ pc[t] = "deq_cas" /\ pc' = [pc EXCEPT ![t] = "deq_head"]
      /\ loc' = loc /\ UNCHANGED mm /\ root' = root /\ node' = node /\ UNCHANGED monitor
  BY DEF DeqCas, CasRoot, Step, At, Goto
<1>2. OthersStay(t)
  BY <1>0, QOnlyOwn DEF QInternal, DequeueSteps
<1>3. loc[t] \in QLocal /\ pc'[t] = "deq_head"
  BY <1>0, <1>1 DEF QInside, QTypeInv
<1>4. Harmless(t) /\ hp' = hp /\ mem' = mem /\ since' = since
  BY <1>1, SameMemory DEF mm
<1>5. \A k, m \in Nat \ {0} : \A f \in [1 .. m -> Addr] : QGood(k, m, f) => QSeen(t, k, m, f)'
  BY <1>3 DEF QSeen
<1>6. pc[t] \in Before /\ "deq_head" \in Before /\ pc[t] \notin Entering /\ "deq_head" \notin Entering
  BY <1>1 DEF Before, QPlace, Entering, Dequeuing
<1> QED  BY <1>0, <1>1, <1>2, <1>3, <1>4, <1>5, <1>6, QuietDone DEF QTypeInv

-----------------------------------------------------------------------------

(* Calls and returns. *)

\* The items of the queue are a sequence of numbers.
LEMMA QItemsType ==
    ASSUME QTypeInv, NEW k \in Nat \ {0}, NEW m \in Nat \ {0}, k \in 1 .. m,
           NEW f \in [1 .. m -> Addr]
    PROVE  /\ QItems(k, f) \in [1 .. k-1 -> Nat] /\ QItems(k, f) \in Seq(Nat)
           /\ QItems(k, f) = << >> <=> k = 1
<1>1. \A i \in 1 .. k-1 : f[i+1] \in Addr
  OBVIOUS
<1>2. QItems(k, f) \in [1 .. k-1 -> Nat]
  BY <1>1 DEF QItems, QTypeInv
<1>3. k - 1 \in Nat /\ (k = 1 <=> k - 1 = 0)
  OBVIOUS
<1> HIDE DEF QItems
<1> QED  BY <1>2, <1>3, SeqOf

\* The effect of a dequeue() of the queue as it is.
LEMMA DequeueEffect ==
    ASSUME QueueInv, NEW t \in Threads, pc[t] \in {"deq_tail", "deq_cas"},
           NEW k \in Nat \ {0}, NEW m \in Nat \ {0}, NEW f \in [1 .. m -> Addr], QGood(k, m, f)
    PROVE  /\ QNow(k, f).res[t] = Pending /\ t \notin QAhead
           /\ k = 1 => Effect(QNow(k, f), t) = [abs |-> QItems(k, f), res |-> [QResults EXCEPT ![t] = Null]]
           /\ k # 1 => \A n \in Nat \ {0} : \A g \in [1 .. n -> Addr] :
                 k-1 \in 1 .. n /\ (\A i \in 1 .. k-1 : g[i] = f[i+1]) =>
                 Effect(QNow(k, f), t)
                   = [abs |-> QItems(k-1, g), res |-> [QResults EXCEPT ![t] = node[f[2]].item]]
<1>0. QTypeInv /\ k \in 1 .. m /\ call[t].op = "dequeue"
  <2>1. QInside(t) /\ QTypeInv
    BY DEF QueueInv
  <2> QED  BY <2>1 DEF QGood, Queued, QInside, Dequeuing
<1>1. QNow(k, f).abs = QItems(k, f) /\ QNow(k, f).res = QResults /\ QResults[t] = Pending
  BY DEF QNow, QResults, QResult
<1>2. t \notin QAhead
  BY DEF QAhead
<1>3. Effect(QNow(k, f), t) =
          LET r == Apply(QNow(k, f).abs, call[t])
          IN  [abs |-> r.abs, res |-> [QNow(k, f).res EXCEPT ![t] = r.res]]
  BY DEF Effect
<1>4. Apply(QNow(k, f).abs, call[t]) =
          IF QItems(k, f) = << >> THEN Answer(QItems(k, f), Null)
          ELSE Answer(Tail(QItems(k, f)), Head(QItems(k, f)))
  BY <1>0, <1>1 DEF Apply
<1>5. QItems(k, f) \in [1 .. k-1 -> Nat] /\ (QItems(k, f) = << >> <=> k = 1)
  BY <1>0, QItemsType
<1>6. ASSUME k = 1
      PROVE  Effect(QNow(k, f), t) = [abs |-> QItems(k, f), res |-> [QResults EXCEPT ![t] = Null]]
  BY <1>1, <1>3, <1>4, <1>5, <1>6 DEF Answer
<1>7. ASSUME k # 1, NEW n \in Nat \ {0}, NEW g \in [1 .. n -> Addr],
             k-1 \in 1 .. n, \A i \in 1 .. k-1 : g[i] = f[i+1]
      PROVE  Effect(QNow(k, f), t)
               = [abs |-> QItems(k-1, g), res |-> [QResults EXCEPT ![t] = node[f[2]].item]]
  <2>1. k - 1 \in Nat \ {0} /\ 1 \in 1 .. k-1
    BY <1>7
  <2>2. QItems(k-1, g) \in [1 .. (k-1)-1 -> Nat]
    BY <1>0, <1>7, <2>1, QItemsType
  <2>3. ASSUME NEW i \in 1 .. (k-1)-1  PROVE QItems(k-1, g)[i] = QItems(k, f)[i+1]
    <3>1. i+1 \in 1 .. k-1 /\ i \in 1 .. (k-1)-1
      BY <2>1
    <3>2. g[i+1] = f[(i+1)+1]
      BY <1>7, <3>1
    <3>3. QItems(k-1, g)[i] = node[g[i+1]].item /\ QItems(k, f)[i+1] = node[f[(i+1)+1]].item
      BY <3>1 DEF QItems
    <3> QED  BY <3>2, <3>3
  <2>4. QItems(k, f)[1] = node[f[2]].item
    <3>1. 1+1 = 2
      OBVIOUS
    <3> QED  BY <2>1, <3>1 DEF QItems
  <2>5. PICK e : e = QItems(k, f)
    OBVIOUS
  <2>6. PICK h : h = QItems(k-1, g)
    OBVIOUS
  <2>7. e \in [1 .. k-1 -> Nat] /\ h \in [1 .. (k-1)-1 -> Nat] /\ \A i \in 1 .. (k-1)-1 : h[i] = e[i+1]
    BY <1>5, <2>2, <2>3, <2>5, <2>6
  <2>8. Tail(e) = h /\ Head(e) = e[1]
    BY <2>1, <2>7, PoppedSeq
  <2>9. Apply(QNow(k, f).abs, call[t]) = Answer(QItems(k-1, g), node[f[2]].item)
    BY <1>4, <1>5, <1>7, <2>4, <2>5, <2>6, <2>8
  <2> QED  BY <1>1, <1>3, <2>9 DEF Answer
<1> QED  BY <1>1, <1>2, <1>6, <1>7

\* A step at which a call of v takes effect.
LEMMA EffectStep ==
    ASSUME NEW t \in Threads, NEW c, c \in Reached[Cardinality(QAhead)], c.res[t] = Pending,
           t \notin QAhead, Reached' = Reached, QAhead' = QAhead \cup {t}
    PROVE  Effect(c, t) \in Reached'[Cardinality(QAhead)']
<1>1. QAhead \in SUBSET Threads
  BY DEF QAhead
<1>2. Cardinality(QAhead \cup {t}) = Cardinality(QAhead) + 1 /\ Cardinality(QAhead) \in 0 .. N-1
  BY <1>1, Counted
<1>3. Cardinality(QAhead)' = Cardinality(QAhead) + 1
  BY <1>2
<1>4. Effect(c, t) \in Reached[Cardinality(QAhead) + 1]
  BY <1>2, TakesEffect
<1> QED  BY <1>3, <1>4

\* dequeue() finds tail at the sentinel: nothing is in the queue.
LEMMA DeqTailEnds ==
    ASSUME QueueInv, NEW t \in Threads, DeqTail(t), UNCHANGED fixed, root.tail = loc[t].node
    PROVE  QueueInv'
<1>0. QTypeInv /\ MonitorInv /\ Linearizable /\ QInside(t) /\ QFilled(t)
  BY DEF QueueInv
<1>1. /\ pc[t] = "deq_tail" /\ pc' = [pc EXCEPT ![t] = "deq_empty"]
      /\ loc' = loc /\ UNCHANGED mm /\ root' = root /\ node' = node /\ UNCHANGED monitor
  BY DEF DeqTail, Step, At, Goto, heap
<1>2. OthersStay(t)
  BY <1>0, QOnlyOwn DEF QInternal, DequeueSteps
<1>3. pc'[t] = "deq_empty" /\ "deq_empty" \in QPlace \ {"idle"} /\ call' = call
  BY <1>0, <1>1 DEF QTypeInv, QPlace, Dequeuing, monitor
<1>4. Harmless(t) /\ hp' = hp /\ mem' = mem /\ since' = since
  BY <1>1, SameMemory DEF mm
<1>5. MonitorInv' /\ Linearizable' /\ Reached' = Reached
  BY <1>0, <1>1, <1>3, QuietKeepsMonitor DEF QTypeInv
<1>6. QTypeInv'
  BY <1>0, <1>1, <1>3, <1>4 DEF QTypeInv, QChosen, fixed, monitor
<1>7. QInside(t)' /\ QFilled(t)'
  BY <1>0, <1>1, <1>3 DEF QInside, QFilled, Dequeuing, Enqueuing, Entering
<1>8. PICK k \in Nat \ {0}, m \in Nat \ {0} : \E f \in [1 .. m -> Addr] : QGood(k, m, f)
  BY DEF QueueInv
<1>9. PICK f \in [1 .. m -> Addr] : QGood(k, m, f)
  BY <1>8
<1>10. QMine(t)' = {} /\ Unlinked(t)' = {} /\ ~Linker(t) /\ ~Linker(t)' /\ t \in QAhead'
       /\ QResult(t)' = Null /\ QSeen(t, k, m, f)'
  BY <1>1, <1>3 DEF QMine, Unlinked, Entering, Linker, QAhead, QResult, QSeen
<1>11. /\ Queued(k, m, f)' /\ QApart(m, f)' /\ Linking(k, m)'
       /\ \A u \in Threads : QSeen(u, k, m, f)'
       /\ QItems(k, f)' = QItems(k, f) /\ QResults' = [QResults EXCEPT ![t] = QResult(t)']
       /\ \A u \in Threads \ {t} : u \in QAhead' <=> u \in QAhead
       /\ \A u \in Threads \ {t} : QInside(u)' /\ QFilled(u)'
  BY <1>1, <1>2, <1>4, <1>9, <1>10, SameChain
<1>12. QAhead' = QAhead \cup {t}
  BY <1>10, <1>11, QAheadAfter
<1>13. k = 1
  <2>1. loc[t].node = f[1] \/ \A i \in 1 .. m : f[i] # loc[t].node
    BY <1>1, <1>9 DEF QGood, QSeen
  <2>2. k \in 1 .. m /\ 1 \in 1 .. m /\ f[k] = loc[t].node
    BY <1>9 DEF QGood, Queued
  <2> QED  BY <1>9, <2>1, <2>2 DEF QGood, Queued
<1>14. /\ QNow(k, f).res[t] = Pending /\ t \notin QAhead
       /\ Effect(QNow(k, f), t) = [abs |-> QItems(k, f), res |-> [QResults EXCEPT ![t] = Null]]
  <2>1. pc[t] \in {"deq_tail", "deq_cas"}
    BY <1>1
  <2>2. /\ QNow(k, f).res[t] = Pending /\ t \notin QAhead
        /\ k = 1 => Effect(QNow(k, f), t) = [abs |-> QItems(k, f), res |-> [QResults EXCEPT ![t] = Null]]
    BY <1>9, <2>1, DequeueEffect
  <2> QED  BY <1>13, <2>2
<1>15. QNow(k, f)' = Effect(QNow(k, f), t)
  BY <1>10, <1>11, <1>14 DEF QNow
<1>16. QNow(k, f)' \in Reached'[Cardinality(QAhead)']
  <2>1. QNow(k, f) \in Reached[Cardinality(QAhead)]
    BY <1>9 DEF QGood
  <2>2. PICK c : c = QNow(k, f)
    OBVIOUS
  <2> QED  BY <1>5, <1>12, <1>14, <1>15, <2>1, <2>2, EffectStep
<1>17. QGood(k, m, f)'
  BY <1>11, <1>16 DEF QGood
<1> QED  BY <1>5, <1>6, <1>7, <1>11, <1>17 DEF QueueInv

\* The call of dequeue().
LEMMA DequeueStep ==
    ASSUME QueueInv, NEW t \in Threads, Dequeue(t), UNCHANGED fixed
    PROVE  QueueInv'
<1>0. QTypeInv /\ MonitorInv /\ Linearizable
  BY DEF QueueInv
<1>1. /\ Call(t, "dequeue", "deq_head", QLocals) /\ UNCHANGED mm
      /\ root' = root /\ node' = node
  BY DEF Dequeue, heap
<1>2. /\ pc[t] = "idle" /\ pc' = [pc EXCEPT ![t] = "deq_head"]
      /\ loc' = [loc EXCEPT ![t] = QLocals] /\ calls' = [calls EXCEPT ![t] = @ + 1]
      /\ configs' = {[c EXCEPT !.res[t] = Pending] : c \in configs}
  BY <1>1 DEF Call
<1>3. QLocals \in QLocal
  BY DEF QLocals, QLocal, Null
<1>4. MonitorInv' /\ call'[t].op = "dequeue" /\ \A u \in Threads \ {t} : call'[u] = call[u]
  BY <1>0, <1>1, CallKeepsMonitor DEF QTypeInv, QChosen, Ordered
<1>5. OthersStay(t)
  BY <1>0, QOnlyOwn
<1>6. pc'[t] = "deq_head" /\ loc'[t] = QLocals
  BY <1>0, <1>2 DEF QTypeInv
<1>7. Harmless(t) /\ hp' = hp /\ mem' = mem /\ since' = since
  BY <1>1, SameMemory DEF mm
<1>8. QTypeInv'
  BY <1>0, <1>1, <1>2, <1>3, <1>7 DEF QTypeInv, QChosen, fixed, QPlace, Dequeuing
<1>9. Linearizable'
  BY <1>0, <1>2 DEF Linearizable
<1>10. QInside(t)' /\ QFilled(t)'
  BY <1>3, <1>4, <1>6 DEF QInside, QFilled, Dequeuing, Enqueuing, Entering
<1>11. PICK k \in Nat \ {0}, m \in Nat \ {0} : \E f \in [1 .. m -> Addr] : QGood(k, m, f)
  BY DEF QueueInv
<1>12. PICK f \in [1 .. m -> Addr] : QGood(k, m, f)
  BY <1>11
<1>13. QMine(t)' = {} /\ Unlinked(t)' = {} /\ ~Linker(t) /\ ~Linker(t)'
       /\ t \notin QAhead /\ t \notin QAhead'
       /\ QResult(t)' = Pending /\ QSeen(t, k, m, f)'
  BY <1>2, <1>6 DEF QMine, Unlinked, Entering, Linker, QAhead, QResult, QSeen
<1>14. /\ Queued(k, m, f)' /\ QApart(m, f)' /\ Linking(k, m)'
       /\ \A u \in Threads : QSeen(u, k, m, f)'
       /\ QItems(k, f)' = QItems(k, f) /\ QResults' = [QResults EXCEPT ![t] = QResult(t)']
       /\ \A u \in Threads \ {t} : u \in QAhead' <=> u \in QAhead
       /\ \A u \in Threads \ {t} : QInside(u)' /\ QFilled(u)'
  BY <1>1, <1>5, <1>7, <1>12, <1>13, SameChain
<1>15. QAhead' = QAhead /\ Cardinality(QAhead) \in 0 .. N
  BY <1>13, <1>14, QAheadAfter
<1>16. QNow(k, f)' = [QNow(k, f) EXCEPT !.res[t] = Pending]
  BY <1>13, <1>14 DEF QNow
<1>17. QNow(k, f)' \in Reached'[Cardinality(QAhead)']
  <2>1. QNow(k, f) \in Reached[Cardinality(QAhead)]
    BY <1>12 DEF QGood
  <2>2. [QNow(k, f) EXCEPT !.res[t] = Pending] \in Reached'[Cardinality(QAhead)]
    BY <1>0, <1>2, <1>4, <1>15, <2>1, CallReaches
  <2> QED  BY <1>15, <1>16, <2>2
<1>18. QGood(k, m, f)'
  BY <1>14, <1>17 DEF QGood
<1> QED  BY <1>4, <1>8, <1>9, <1>10, <1>14, <1>18 DEF QueueInv

\* What is possible after t has returned.
LEMMA Returned ==
    ASSUME MonitorInv, NEW t \in Threads, NEW r, Return(t, r),
           NEW j \in 0 .. N, NEW c \in Reached[j], c.res[t] = r, NEW i \in 0 .. N
    PROVE  [abs |-> c.abs, res |-> [c.res EXCEPT ![t] = NoCall]] \in Reached'[i] /\ Linearizable'
<1>1. c \in Config
  BY ReachedCalm DEF Calm
<1>2. NoCall \in Int
  BY DEF NoCall
<1>3. [c EXCEPT !.res[t] = NoCall] = [abs |-> c.abs, res |-> [c.res EXCEPT ![t] = NoCall]]
  BY <1>1, <1>2, MarkedIs
<1>4. [c EXCEPT !.res[t] = NoCall] \in Reached'[i] /\ Linearizable'
  BY ReturnReaches
<1> QED  BY <1>3, <1>4

\* The last step of a call that has taken effect.
LEMMA ReturnStep ==
    ASSUME QueueInv, NEW t \in Threads, t \in QAhead, Return(t, QResult(t)),
           Release(t, QMine(t)), root' = root, OthersStay(t), UNCHANGED fixed,
           node' \in [Addr -> [item : Nat, next : Int]],
           \A a \in Addr : a \notin QMine(t) => node'[a] = node[a],
           \A a \in QMine(t) :
               /\ node'[a].item = node[a].item
               /\ node'[a].next = node[a].next \/ node'[a].next # Null
    PROVE  QueueInv'
<1>0. QTypeInv /\ MonitorInv /\ Linearizable
  BY DEF QueueInv
<1>1. pc' = [pc EXCEPT ![t] = "idle"] /\ loc' = [loc EXCEPT ![t] = NoLocals] /\ calls' = calls
      /\ pc'[t] = "idle"
  BY <1>0 DEF Return, QTypeInv
<1>2. MonitorInv'
  BY <1>0, ReturnKeepsMonitor DEF QTypeInv
<1>3. PICK k \in Nat \ {0}, m \in Nat \ {0} : \E f \in [1 .. m -> Addr] : QGood(k, m, f)
  BY DEF QueueInv
<1>4. PICK f \in [1 .. m -> Addr] : QGood(k, m, f)
  BY <1>3
<1>5. QMine(t) \in SUBSET Addr /\ \A a \in QMine(t) : mem[a] = "used"
  BY <1>4 DEF QGood, QApart
<1>6. /\ hp' \in [Slot -> Int] /\ mem' \in [Addr -> {"none", "used", "retired"}]
      /\ since' \in [Addr -> SUBSET Slot]
      /\ \A a \in Addr : a \notin QMine(t) => mem'[a] = mem[a]
      /\ Harmless(t)
  BY <1>0, <1>5, QReleasing
<1>7. QTypeInv'
  BY <1>0, <1>1, <1>6 DEF QTypeInv, QChosen, fixed, QPlace
<1>8. QInside(t)' /\ QFilled(t)'
  BY <1>1 DEF QInside, QFilled, Dequeuing, Enqueuing, Entering
<1>9. QMine(t)' = {} /\ Unlinked(t)' = {} /\ ~Linker(t) /\ ~Linker(t)' /\ t \notin QAhead'
      /\ QResult(t)' = NoCall /\ QSeen(t, k, m, f)'
  BY <1>1 DEF QMine, Unlinked, Entering, Linker, QAhead, QResult, QSeen
<1>10. /\ Queued(k, m, f)' /\ QApart(m, f)' /\ Linking(k, m)'
       /\ \A u \in Threads : QSeen(u, k, m, f)'
       /\ QItems(k, f)' = QItems(k, f) /\ QResults' = [QResults EXCEPT ![t] = QResult(t)']
       /\ \A u \in Threads \ {t} : u \in QAhead' <=> u \in QAhead
       /\ \A u \in Threads \ {t} : QInside(u)' /\ QFilled(u)'
  BY <1>4, <1>6, <1>9, SameChain
<1>11. Cardinality(QAhead) \in 0 .. N /\ Cardinality(QAhead)' \in 0 .. N
  BY <1>10, QAheadAfter
<1>12. QNow(k, f).abs = QItems(k, f) /\ QNow(k, f).res = QResults /\ QResults[t] = QResult(t)
       /\ QNow(k, f) \in Reached[Cardinality(QAhead)]
  BY <1>4 DEF QNow, QResults, QGood
<1>13. [abs |-> QItems(k, f), res |-> [QResults EXCEPT ![t] = NoCall]] \in Reached'[Cardinality(QAhead)']
       /\ Linearizable'
  <2>1. PICK c : c = QNow(k, f)
    OBVIOUS
  <2>2. c \in Reached[Cardinality(QAhead)] /\ c.res[t] = QResult(t)
        /\ c.abs = QItems(k, f) /\ c.res = QResults
    BY <1>12, <2>1
  <2>3. PICK r : r = QResult(t)
    OBVIOUS
  <2>4. Return(t, r) /\ c.res[t] = r
    BY <2>2, <2>3
  <2>5. [abs |-> c.abs, res |-> [c.res EXCEPT ![t] = NoCall]] \in Reached'[Cardinality(QAhead)']
        /\ Linearizable'
    BY <1>0, <1>11, <2>2, <2>4, Returned
  <2> QED  BY <2>2, <2>5
<1>14. QNow(k, f)' = [abs |-> QItems(k, f), res |-> [QResults EXCEPT ![t] = NoCall]]
  BY <1>9, <1>10 DEF QNow
<1>15. QGood(k, m, f)'
  BY <1>10, <1>13, <1>14 DEF QGood
<1> QED  BY <1>2, <1>7, <1>8, <1>10, <1>13, <1>15 DEF QueueInv

\* dequeue() returns that the queue is empty.
LEMMA DeqEmptyStep ==
    ASSUME QueueInv, NEW t \in Threads, DeqEmpty(t), UNCHANGED fixed
    PROVE  QueueInv'
<1>1. pc[t] = "deq_empty" /\ Return(t, Null) /\ Release(t, {}) /\ root' = root /\ node' = node
  BY DEF DeqEmpty, At, heap
<1>2. t \in QAhead /\ QResult(t) = Null /\ QMine(t) = {}
  BY <1>1 DEF QAhead, QResult, QMine, Unlinked, Entering
<1>3. OthersStay(t) /\ node' \in [Addr -> [item : Nat, next : Int]]
  BY <1>1, QOnlyOwn DEF QueueInv, QTypeInv, QInternal, DequeueSteps
<1> QED  BY <1>1, <1>2, <1>3, ReturnStep

\* dequeue() retires or poisons the sentinel and returns the item.
LEMMA DeqItemStep ==
    ASSUME QueueInv, NEW t \in Threads, DeqItem(t), UNCHANGED fixed
    PROVE  QueueInv'
<1>0. QTypeInv
  BY DEF QueueInv
<1>a. PICK a : a = loc[t].node
  OBVIOUS
<1>1. /\ pc[t] = "deq_item" /\ Return(t, node[loc[t].next].item) /\ Release(t, {a}) /\ root' = root
      /\ node' = node \/ node' = [node EXCEPT ![a].next = Poison]
  BY <1>a DEF DeqItem, At
<1>2. t \in QAhead /\ QResult(t) = node[loc[t].next].item /\ QMine(t) = {a}
  BY <1>a, <1>1 DEF QAhead, QResult, QMine
<1>3. OthersStay(t)
  BY QOnlyOwn DEF QueueInv, QInternal, DequeueSteps
<1>4. a \in Addr
  <2>1. PICK k \in Nat \ {0}, m \in Nat \ {0} : \E f \in [1 .. m -> Addr] : QGood(k, m, f)
    BY DEF QueueInv
  <2> QED  BY <1>2, <2>1 DEF QGood, QApart
<1>5. /\ node' \in [Addr -> [item : Nat, next : Int]]
      /\ \A b \in Addr : b # a => node'[b] = node[b]
      /\ node'[a].item = node[a].item
      /\ node'[a].next = node[a].next \/ node'[a].next # Null
  <2>1. node \in [Addr -> [item : Nat, next : Int]]
    BY <1>0 DEF QTypeInv
  <2>2. CASE node' = node
    BY <2>1, <2>2
  <2>3. CASE node' = [node EXCEPT ![a].next = Poison]
    BY <1>4, <2>1, <2>3 DEF Poison, Null
  <2> QED  BY <1>1, <2>2, <2>3
<1> QED  BY <1>1, <1>2, <1>3, <1>5, ReturnStep

\* Another thread has moved tail to the node of t.
LEMMA EnqSwingFails ==
    ASSUME QueueInv, NEW t \in Threads, EnqSwing(t), UNCHANGED fixed, root.tail # loc[t].tail
    PROVE  QueueInv'
<1>1. pc[t] = "enq_swing" /\ Return(t, True) /\ Release(t, {}) /\ root' = root /\ node' = node
  BY DEF EnqSwing, CasRoot, At
<1>2. t \in QAhead /\ QResult(t) = True /\ QMine(t) = {}
  BY <1>1 DEF QAhead, Linker, QResult, QMine, Unlinked, Entering
<1>3. OthersStay(t) /\ node' \in [Addr -> [item : Nat, next : Int]]
  BY <1>1, QOnlyOwn DEF QueueInv, QTypeInv, QInternal, EnqueueSteps
<1> QED  BY <1>1, <1>2, <1>3, ReturnStep

-----------------------------------------------------------------------------

(* The CASes that succeed. *)

\* The sequence with one more item at its end.
LEMMA AppendedSeq ==
    ASSUME NEW m \in Nat, NEW e \in [1 .. m -> Nat], NEW a \in Nat, NEW h \in [1 .. m+1 -> Nat],
           h[m+1] = a, \A i \in 1 .. m : h[i] = e[i]
    PROVE  Append(e, a) = h
<1>1. e \in Seq(Nat) /\ Len(e) = m /\ h \in Seq(Nat) /\ Len(h) = m + 1
  BY SeqOf
<1>2. Append(e, a) \in Seq(Nat) /\ Len(Append(e, a)) = m + 1
  BY <1>1
<1>3. ASSUME NEW i \in 1 .. m+1  PROVE Append(e, a)[i] = h[i]
  BY <1>1
<1> QED  BY <1>1, <1>2, <1>3, SeqEqual

\* Tail moves to the node that v has linked: its enqueue() takes effect.
LEMMA TailMoves ==
    ASSUME QueueInv, NEW k \in Nat \ {0}, NEW m \in Nat \ {0}, NEW f \in [1 .. m -> Addr],
           QGood(k, m, f), NEW v \in Threads, Linker(v), node' = node,
           root' = [root EXCEPT !.tail = f[m]], \A i \in 1 .. m : mem'[f[i]] = mem[f[i]]
    PROVE  /\ Queued(m, m, f)' /\ root'.tail = f[m] /\ root'.tail \in Addr /\ root'.head = root.head
           /\ \A u \in Threads : ~(pc[u] = "enq_swing" /\ loc[u].tail = root'.tail)
           /\ \A u \in Threads \ {v} : ~Linker(u)
           /\ QNow(k, f).res[v] = Pending /\ v \notin QAhead
           /\ Effect(QNow(k, f), v) = [abs |-> QItems(m, f)', res |-> [QResults EXCEPT ![v] = True]]
           /\ m = k+1
<1>0. QTypeInv /\ MonitorInv /\ QInside(v) /\ Queued(k, m, f) /\ Linking(k, m)
      /\ \A u \in Threads : QSeen(u, k, m, f)
  BY DEF QueueInv, QGood
<1>1. /\ m = k+1 /\ f[k] = loc[v].tail /\ f[m] = loc[v].new /\ pc[v] = "enq_swing"
      /\ node[f[m]].item = call[v].arg
  BY <1>0, LinkedLast DEF Linker
<1>2. root'.tail = f[m] /\ root'.tail \in Addr /\ root'.head = root.head
  BY <1>0 DEF QTypeInv
<1>3. Queued(m, m, f)'
  <2>1. m \in {m, m+1}
    OBVIOUS
  <2> QED  BY <1>0, <1>2, <2>1 DEF Queued
<1>4. ASSUME NEW u \in Threads, pc[u] = "enq_swing"  PROVE loc[u].tail # root'.tail
  <2>1. node[loc[u].tail].next # Null
    BY <1>0, <1>4 DEF QSeen
  <2> QED  BY <1>0, <1>2, <2>1 DEF Queued
<1>5. \A u \in Threads \ {v} : ~Linker(u)
  BY <1>0 DEF Linking
<1>6. QNow(k, f).res[v] = Pending /\ v \notin QAhead
  BY <1>1 DEF QNow, QResults, QResult, QAhead, Linker
<1>7. call[v].op = "enqueue" /\ call[v].arg \in Nat
  BY <1>0, <1>1 DEF QInside, Enqueuing, MonitorInv, CallType
<1>8. Append(QItems(k, f), call[v].arg) = QItems(m, f)'
  <2>1. QItems(m, f)' = QItems(m, f)
    BY DEF QItems
  <2>2. k \in 1 .. m /\ m \in 1 .. m /\ k-1 \in Nat /\ m-1 = (k-1)+1
    BY <1>1
  <2>3. QItems(k, f) \in [1 .. k-1 -> Nat] /\ QItems(m, f) \in [1 .. m-1 -> Nat]
    BY <1>0, <2>2, QItemsType
  <2>4. QItems(m, f)[(k-1)+1] = call[v].arg /\ \A i \in 1 .. k-1 : QItems(m, f)[i] = QItems(k, f)[i]
    <3>1. (k-1)+1 \in 1 .. m-1 /\ ((k-1)+1)+1 = m /\ \A i \in 1 .. k-1 : i \in 1 .. m-1
      BY <2>2
    <3> QED  BY <1>1, <3>1 DEF QItems
  <2>5. PICK e : e = QItems(k, f)
    OBVIOUS
  <2>6. PICK h : h = QItems(m, f)
    OBVIOUS
  <2>7. e \in [1 .. k-1 -> Nat] /\ h \in [1 .. (k-1)+1 -> Nat]
        /\ h[(k-1)+1] = call[v].arg /\ \A i \in 1 .. k-1 : h[i] = e[i]
    BY <2>2, <2>3, <2>4, <2>5, <2>6
  <2>8. Append(e, call[v].arg) = h
    BY <1>7, <2>2, <2>7, AppendedSeq
  <2> QED  BY <2>1, <2>5, <2>6, <2>8
<1>9. Effect(QNow(k, f), v) = [abs |-> QItems(m, f)', res |-> [QResults EXCEPT ![v] = True]]
  <2>1. Apply(QItems(k, f), call[v]) = Answer(Append(QItems(k, f), call[v].arg), True)
    BY <1>7 DEF Apply
  <2>2. QNow(k, f).abs = QItems(k, f) /\ QNow(k, f).res = QResults
    BY DEF QNow
  <2>3. Apply(QNow(k, f).abs, call[v]) = Answer(QItems(m, f)', True)
    BY <1>8, <2>1, <2>2
  <2>4. Effect(QNow(k, f), v) =
          LET r == Apply(QNow(k, f).abs, call[v])
          IN  [abs |-> r.abs, res |-> [QNow(k, f).res EXCEPT ![v] = r.res]]
    BY DEF Effect
  <2> QED  BY <2>2, <2>3, <2>4 DEF Answer
<1> QED  BY <1>1, <1>2, <1>3, <1>4, <1>5, <1>6, <1>9

\* What the others have after that.
LEMMA TailMoved ==
    ASSUME QueueInv, NEW k \in Nat \ {0}, NEW m \in Nat \ {0}, NEW f \in [1 .. m -> Addr],
           QGood(k, m, f), NEW v \in Threads, Linker(v), node' = node,
           root' = [root EXCEPT !.tail = f[m]], mem' = mem,
           NEW t \in Threads, OthersStay(t), Harmless(t), UNCHANGED fixed, QMine(t)' \subseteq QMine(t),
           Unlinked(t)' \subseteq Unlinked(t), pc'[t] # "enq_swing", QSeen(t, m, m, f)'
    PROVE  /\ Queued(m, m, f)' /\ QApart(m, f)' /\ Linking(m, m)'
           /\ \A u \in Threads : QSeen(u, m, m, f)'
           /\ \A u \in Threads \ {t} : QInside(u)' /\ QFilled(u)'
           /\ \A u \in Threads \ {t} : /\ QResult(u)' = IF u = v THEN True ELSE QResult(u)
                                       /\ u \in QAhead' <=> (u \in QAhead \/ u = v)
<1>0. QTypeInv /\ (\A u \in Threads : QInside(u) /\ QFilled(u)) /\ Queued(k, m, f)
      /\ QApart(m, f) /\ (\A u \in Threads : QSeen(u, k, m, f)) /\ pc[v] = "enq_swing"
  BY DEF QueueInv, QGood, Linker
<1>1. /\ Queued(m, m, f)' /\ root'.tail = f[m] /\ root'.tail \in Addr
      /\ \A u \in Threads : ~(pc[u] = "enq_swing" /\ loc[u].tail = root'.tail)
      /\ \A u \in Threads \ {v} : ~Linker(u)
      /\ m = k+1
  BY TailMoves
<1>2. \A u \in Threads \ {t} : QInside(u)' /\ QFilled(u)'
  BY <1>0, QOthersAfter
<1>3. ASSUME NEW u \in Threads \ {t}  PROVE QSeen(u, m, m, f)'
  <2>1. \A w \in Threads : Unlinked(w)' \subseteq Unlinked(w)
    BY QMineAfter
  <2>2. \A i \in {0, 1} : \A a : Kept(u, i, a) => Kept(u, i, a)'
    BY <2>1, HarmlessKeeps
  <2>3. MovesOn(u)
    BY <1>0, <1>1 DEF MovesOn, Queued
  <2>4. StaysOut(u, k, m, f, m, m, f) /\ StaysIn(k, f, m, f) /\ Grows(u, m, f)
    BY <1>1 DEF StaysOut, StaysIn, Grows
  <2>5. pc'[u] = pc[u] /\ loc'[u] = loc[u] /\ call'[u] = call[u] /\ QSeen(u, k, m, f)
    BY <1>0 DEF OthersStay
  <2> QED  BY <1>0, <2>2, <2>3, <2>4, <2>5, QSeenAfter
<1>4. QApart(m, f)'
  <2>1. \A u \in Threads : \A a \in QMine(u) :
           /\ a \in Addr /\ mem'[a] = mem[a] /\ mem'[a] = "used" /\ \A i \in 1 .. m : f[i] # a
           /\ \A w \in Threads \ {u} : a \notin QMine(w)
    BY <1>0 DEF QApart
  <2>2. \A a \in QMine(t)' : /\ a \in Addr /\ mem'[a] = "used" /\ \A i \in 1 .. m : f[i] # a
                             /\ \A u \in Threads \ {t} : a \notin QMine(u)
    BY <2>1
  <2> QED  BY <1>0, <2>1, <2>2, QApartAfter
<1>5. \A u \in Threads : ~Linker(u)'
  BY <1>1 DEF Linker, OthersStay
<1>6. Linking(m, m)'
  BY <1>5 DEF Linking
<1>7. ASSUME NEW u \in Threads \ {t}
      PROVE  /\ QResult(u)' = IF u = v THEN True ELSE QResult(u)
             /\ u \in QAhead' <=> (u \in QAhead \/ u = v)
  <2>1. pc'[u] = pc[u] /\ loc'[u] = loc[u] /\ ~Linker(u)' /\ (u # v => ~Linker(u))
    BY <1>1, <1>5 DEF OthersStay
  <2>2. CASE u = v
    BY <1>0, <2>1, <2>2 DEF QResult, QAhead
  <2>3. CASE u # v
    BY <2>1, <2>3 DEF QResult, QAhead
  <2> QED  BY <2>2, <2>3
<1> QED  BY <1>1, <1>2, <1>3, <1>4, <1>6, <1>7

\* The thread that has linked its node moves tail to it, and returns.
LEMMA EnqSwingMoves ==
    ASSUME QueueInv, NEW t \in Threads, EnqSwing(t), UNCHANGED fixed, root.tail = loc[t].tail
    PROVE  QueueInv'
<1>0. QTypeInv /\ MonitorInv /\ Linearizable
  BY DEF QueueInv
<1>1. /\ pc[t] = "enq_swing" /\ root' = [root EXCEPT !.tail = loc[t].new]
      /\ Release(t, {}) /\ Return(t, True) /\ node' = node
  BY DEF EnqSwing, CasRoot, At
<1>2. pc' = [pc EXCEPT ![t] = "idle"] /\ loc' = [loc EXCEPT ![t] = NoLocals] /\ calls' = calls
      /\ pc'[t] = "idle"
  BY <1>0, <1>1 DEF Return, QTypeInv
<1>3. MonitorInv'
  BY <1>0, <1>1, ReturnKeepsMonitor DEF QTypeInv
<1>4. OthersStay(t)
  BY <1>0, QOnlyOwn DEF QInternal, EnqueueSteps
<1>5. /\ hp' \in [Slot -> Int] /\ since' \in [Addr -> SUBSET Slot]
      /\ mem' \in [Addr -> {"none", "used", "retired"}]
      /\ \A a \in Addr : mem'[a] = mem[a] /\ Harmless(t)
  <2>1. {} \in SUBSET Addr /\ \A a \in {} : mem[a] = "used"
    OBVIOUS
  <2> QED  BY <1>0, <1>1, <2>1, QReleasing, MemoryAssumption DEF Addr
<1>6. mem' = mem /\ Harmless(t)
  <2>1. 1 \in Addr
    BY MemoryAssumption DEF Addr
  <2> QED  BY <1>0, <1>5, <2>1 DEF QTypeInv
<1>7. PICK k \in Nat \ {0}, m \in Nat \ {0} : \E f \in [1 .. m -> Addr] : QGood(k, m, f)
  BY DEF QueueInv
<1>8. PICK f \in [1 .. m -> Addr] : QGood(k, m, f)
  BY <1>7
<1>9. Linker(t)
  BY <1>1 DEF Linker
<1>10. f[m] = loc[t].new
  BY <1>0, <1>8, <1>9, LinkedLast DEF QGood
<1>11. /\ QMine(t)' = {} /\ Unlinked(t)' = {} /\ pc'[t] # "enq_swing" /\ QSeen(t, m, m, f)'
       /\ QResult(t)' = NoCall /\ t \notin QAhead'
  BY <1>2 DEF QMine, Unlinked, Entering, QSeen, QResult, QAhead
<1>12. /\ Queued(m, m, f)' /\ QApart(m, f)' /\ Linking(m, m)'
       /\ \A u \in Threads : QSeen(u, m, m, f)'
       /\ \A u \in Threads \ {t} : QInside(u)' /\ QFilled(u)'
       /\ \A u \in Threads \ {t} : QResult(u)' = QResult(u) /\ (u \in QAhead' <=> u \in QAhead)
  BY <1>1, <1>4, <1>6, <1>8, <1>9, <1>10, <1>11, TailMoved
<1>13. /\ QNow(k, f).res[t] = Pending /\ t \notin QAhead
       /\ Effect(QNow(k, f), t) = [abs |-> QItems(m, f)', res |-> [QResults EXCEPT ![t] = True]]
       /\ root'.tail \in Addr /\ root'.head = root.head
  BY <1>1, <1>6, <1>8, <1>9, <1>10, TailMoves
<1>14. QTypeInv'
  <2>1. root' \in [head : Addr, tail : Addr]
    <3>1. f[m] \in Addr /\ root \in [head : Addr, tail : Addr]
      BY <1>0 DEF QTypeInv
    <3> QED  BY <1>1, <1>10, <3>1
  <2> QED  BY <1>0, <1>1, <1>2, <1>5, <2>1 DEF QTypeInv, QChosen, fixed, QPlace
<1>15. QInside(t)' /\ QFilled(t)'
  BY <1>2 DEF QInside, QFilled, Dequeuing, Enqueuing, Entering
<1>16. QNow(m, f)' \in Reached'[Cardinality(QAhead)'] /\ Linearizable'
  <2>1. QNow(k, f) \in Reached[Cardinality(QAhead)]
    BY <1>8 DEF QGood
  <2>2. QAhead \in SUBSET Threads
    BY DEF QAhead
  <2>3. Cardinality(QAhead) \in 0 .. N-1 /\ Cardinality(QAhead) + 1 \in 0 .. N
    <3>1. PICK A : A = QAhead
      OBVIOUS
    <3>2. A \in SUBSET Threads /\ t \notin A
      BY <1>13, <2>2, <3>1
    <3>3. Cardinality(A) \in 0 .. N-1
      BY <3>2, Counted
    <3> QED  BY <3>1, <3>3, MemoryAssumption
  <2>4. PICK c : c = Effect(QNow(k, f), t)
    OBVIOUS
  <2>5. c \in Reached[Cardinality(QAhead) + 1]
    BY <1>13, <2>1, <2>3, <2>4, TakesEffect
  <2>6. c.abs = QItems(m, f)' /\ c.res = [QResults EXCEPT ![t] = True] /\ c.res[t] = True
    BY <1>13, <2>4 DEF QResults
  <2>7. Cardinality(QAhead)' \in 0 .. N
    BY <1>12, QAheadAfter
  <2>8. [abs |-> c.abs, res |-> [c.res EXCEPT ![t] = NoCall]] \in Reached'[Cardinality(QAhead)']
        /\ Linearizable'
    BY <1>0, <1>1, <2>3, <2>5, <2>6, <2>7, Returned
  <2>9. QResults' = [[QResults EXCEPT ![t] = True] EXCEPT ![t] = NoCall]
    BY <1>11, <1>12 DEF QResults
  <2>10. QNow(m, f)' = [abs |-> QItems(m, f)', res |-> QResults']
    BY DEF QNow
  <2> QED  BY <2>6, <2>8, <2>9, <2>10
<1>17. QGood(m, m, f)'
  BY <1>12, <1>16 DEF QGood
<1> QED  BY <1>3, <1>12, <1>14, <1>15, <1>16, <1>17 DEF QueueInv

\* Another thread moves tail: the call of the one that has linked takes effect.
LEMMA EnqHelpMoves ==
    ASSUME QueueInv, NEW t \in Threads, EnqHelp(t), UNCHANGED fixed, root.tail = loc[t].tail
    PROVE  QueueInv'
<1>0. QTypeInv /\ MonitorInv /\ Linearizable /\ QInside(t) /\ QFilled(t)
  BY DEF QueueInv
<1>1. /\ pc[t] = "enq_help" /\ pc' = [pc EXCEPT ![t] = "enq_tail"]
      /\ root' = [root EXCEPT !.tail = loc[t].next] /\ loc' = loc
      /\ UNCHANGED mm /\ node' = node /\ UNCHANGED monitor
  BY DEF EnqHelp, CasRoot, Step, At, Goto
<1>2. OthersStay(t)
  BY <1>0, QOnlyOwn DEF QInternal, EnqueueSteps
<1>3. pc'[t] = "enq_tail" /\ "enq_tail" \in QPlace \ {"idle"} /\ call' = call
  BY <1>0, <1>1 DEF QTypeInv, QPlace, Enqueuing, Entering, monitor
<1>4. Harmless(t) /\ hp' = hp /\ mem' = mem /\ since' = since
  BY <1>1, SameMemory DEF mm
<1>5. MonitorInv' /\ Linearizable' /\ Reached' = Reached
  BY <1>0, <1>1, <1>3, QuietKeepsMonitor DEF QTypeInv
<1>6. PICK k \in Nat \ {0}, m \in Nat \ {0} : \E f \in [1 .. m -> Addr] : QGood(k, m, f)
  BY DEF QueueInv
<1>7. PICK f \in [1 .. m -> Addr] : QGood(k, m, f)
  BY <1>6
<1>8. Queued(k, m, f) /\ Linking(k, m) /\ QSeen(t, k, m, f)
      /\ QNow(k, f) \in Reached[Cardinality(QAhead)]
  BY <1>7 DEF QGood
<1>9. m = k+1 /\ f[m] = loc[t].next
  <2>1. node[f[k]].next = loc[t].next /\ loc[t].next # Null
    BY <1>1, <1>8 DEF QSeen, Queued
  <2>2. m = k + 1 /\ k \in 1 .. m-1
    BY <1>8, <2>1 DEF Queued
  <2> QED  BY <1>8, <2>1, <2>2 DEF Queued
<1>10. PICK v \in Threads : Linker(v)
  BY <1>8, <1>9 DEF Linking
<1>11. v # t
  BY <1>1, <1>10 DEF Linker
<1>12. /\ QMine(t)' = QMine(t) /\ Unlinked(t)' = Unlinked(t) /\ pc'[t] # "enq_swing"
       /\ QSeen(t, m, m, f)' /\ QResult(t)' = Pending /\ QResult(t) = Pending
       /\ t \notin QAhead' /\ t \notin QAhead
  BY <1>1, <1>3 DEF QMine, Unlinked, Entering, QSeen, QResult, QAhead
<1>13. /\ Queued(m, m, f)' /\ QApart(m, f)' /\ Linking(m, m)'
       /\ \A u \in Threads : QSeen(u, m, m, f)'
       /\ \A u \in Threads \ {t} : QInside(u)' /\ QFilled(u)'
       /\ \A u \in Threads \ {t} : /\ QResult(u)' = IF u = v THEN True ELSE QResult(u)
                                   /\ u \in QAhead' <=> (u \in QAhead \/ u = v)
  BY <1>1, <1>2, <1>4, <1>7, <1>9, <1>10, <1>12, TailMoved
<1>14. /\ QNow(k, f).res[v] = Pending /\ v \notin QAhead
       /\ Effect(QNow(k, f), v) = [abs |-> QItems(m, f)', res |-> [QResults EXCEPT ![v] = True]]
  BY <1>1, <1>4, <1>7, <1>9, <1>10, TailMoves
<1>15. QTypeInv'
  <2>1. root' \in [head : Addr, tail : Addr]
    <3>1. f[m] \in Addr /\ root \in [head : Addr, tail : Addr]
      BY <1>0 DEF QTypeInv
    <3> QED  BY <1>1, <1>9, <3>1
  <2> QED  BY <1>0, <1>1, <1>3, <1>4, <2>1 DEF QTypeInv, QChosen, fixed, monitor
<1>16. QInside(t)' /\ QFilled(t)'
  BY <1>0, <1>1, <1>3 DEF QInside, QFilled, Dequeuing, Enqueuing, Entering
<1>17. QAhead' = QAhead \cup {v}
  <2>1. PICK A : A = QAhead'
    OBVIOUS
  <2>2. A \subseteq Threads /\ QAhead \subseteq Threads
    BY <2>1 DEF QAhead
  <2>3. \A u \in Threads : u \in A <=> (u \in QAhead \/ u = v)
    BY <1>11, <1>12, <1>13, <2>1
  <2> QED  BY <2>1, <2>2, <2>3
<1>18. QNow(m, f)' = Effect(QNow(k, f), v)
  <2>1. \A u \in Threads : QResult(u)' = IF u = v THEN True ELSE QResult(u)
    BY <1>11, <1>12, <1>13
  <2>2. QResults' = [QResults EXCEPT ![v] = True]
    BY <2>1 DEF QResults
  <2> QED  BY <1>14, <2>2 DEF QNow
<1>19. QNow(m, f)' \in Reached'[Cardinality(QAhead)']
  <2>1. PICK c : c = QNow(k, f)
    OBVIOUS
  <2> QED  BY <1>5, <1>8, <1>14, <1>17, <1>18, <2>1, EffectStep
<1>20. QGood(m, m, f)'
  BY <1>13, <1>19 DEF QGood
<1> QED  BY <1>5, <1>13, <1>15, <1>16, <1>20 DEF QueueInv

\* The CAS of dequeue() makes the second node the sentinel.
LEMMA DeqCasTakes ==
    ASSUME QueueInv, NEW t \in Threads, DeqCas(t), UNCHANGED fixed, root.head = loc[t].node
    PROVE  QueueInv'
<1>0. QTypeInv /\ MonitorInv /\ Linearizable /\ QInside(t)
  BY DEF QueueInv
<1>1. /\ pc[t] = "deq_cas" /\ pc' = [pc EXCEPT ![t] = "deq_item"]
      /\ root' = [root EXCEPT !.head = loc[t].next] /\ loc' = loc
      /\ UNCHANGED mm /\ node' = node /\ UNCHANGED monitor
  BY DEF DeqCas, CasRoot, Step, At, Goto
<1>2. OthersStay(t)
  BY <1>0, QOnlyOwn DEF QInternal, DequeueSteps
<1>3. pc'[t] = "deq_item" /\ "deq_item" \in QPlace \ {"idle"} /\ call' = call
  BY <1>0, <1>1 DEF QTypeInv, QPlace, Dequeuing, monitor
<1>4. Harmless(t) /\ hp' = hp /\ mem' = mem /\ since' = since
  BY <1>1, SameMemory DEF mm
<1>5. MonitorInv' /\ Linearizable' /\ Reached' = Reached
  BY <1>0, <1>1, <1>3, QuietKeepsMonitor DEF QTypeInv
<1>6. PICK k \in Nat \ {0}, m \in Nat \ {0} : \E f \in [1 .. m -> Addr] : QGood(k, m, f)
  BY DEF QueueInv
<1>7. PICK f \in [1 .. m -> Addr] : QGood(k, m, f)
  BY <1>6
<1>8. Queued(k, m, f) /\ Linking(k, m) /\ QApart(m, f) /\ (\A u \in Threads : QSeen(u, k, m, f))
      /\ QNow(k, f) \in Reached[Cardinality(QAhead)]
  BY <1>7 DEF QGood
<1>9. /\ k > 1 /\ m > 1 /\ m \in {k, k+1} /\ f[1] = loc[t].node /\ f[2] = loc[t].next
      /\ Kept(t, 1, f[2]) /\ f[1] \in Addr /\ f[2] \in Addr /\ mem[f[1]] = "used"
      /\ \A i, j \in 1 .. m : f[i] = f[j] => i = j
  <2>1. f[1] = loc[t].node /\ m \in {k, k+1} /\ \A i \in 1 .. m-1 : node[f[i]].next = f[i+1]
    BY <1>1, <1>8 DEF Queued
  <2>2. k > 1
    BY <1>1, <1>8, <2>1 DEF QSeen
  <2>3. 1 \in 1 .. m-1 /\ 1 \in 1 .. m /\ 2 \in 1 .. m
    BY <2>1, <2>2
  <2>4. loc[t].next = node[f[1]].next /\ Kept(t, 1, loc[t].next)
    BY <1>1, <1>8, <2>1 DEF QSeen
  <2> QED  BY <1>8, <2>1, <2>2, <2>3, <2>4 DEF Queued
<1>10. k-1 \in Nat \ {0} /\ m-1 \in Nat \ {0} /\ \A i \in 1 .. m-1 : i \in 1 .. m /\ i+1 \in 1 .. m
  BY <1>9
<1>11. PICK g \in [1 .. m-1 -> Addr] : \A i \in 1 .. m-1 : g[i] = f[i+1]
  <2> DEFINE G == [i \in 1 .. m-1 |-> f[i+1]]
  <2>1. G \in [1 .. m-1 -> Addr]
    BY <1>10
  <2> QED  BY <2>1
<1>12. \A i \in 1 .. m-1 : g[i] # f[1]
  BY <1>9, <1>10, <1>11
<1>13. root'.tail = root.tail /\ root'.head = f[2] /\ root' \in [head : Addr, tail : Addr]
  <2>1. root \in [head : Addr, tail : Addr]
    BY <1>0 DEF QTypeInv
  <2> QED  BY <1>1, <1>9, <2>1
<1>14. Queued(k-1, m-1, g)'
  <2>1. m-1 \in {k-1, (k-1)+1} /\ k-1 \in 1 .. m-1 /\ 1 \in 1 .. m-1
    BY <1>9
  <2>2. g[1] = root'.head /\ g[k-1] = root'.tail
    BY <1>8, <1>11, <1>13, <2>1 DEF Queued
  <2>3. \A i \in 1 .. m-1 : mem'[g[i]] = "used"
    BY <1>4, <1>8, <1>10, <1>11 DEF Queued
  <2>4. \A i \in 1 .. (m-1)-1 : node'[g[i]].next = g[i+1]
    <3>1. ASSUME NEW i \in 1 .. (m-1)-1  PROVE node'[g[i]].next = g[i+1]
      <4>1. i \in 1 .. m-1 /\ i+1 \in 1 .. m-1
        BY <1>10
      <4> QED  BY <1>1, <1>8, <1>11, <4>1 DEF Queued
    <3> QED  BY <3>1
  <2>5. node'[g[m-1]].next = Null
    <3>1. m-1 \in 1 .. m-1 /\ (m-1)+1 = m
      BY <1>10
    <3> QED  BY <1>1, <1>8, <1>11, <3>1 DEF Queued
  <2>6. \A i, j \in 1 .. m-1 : g[i] = g[j] => i = j
    <3>1. ASSUME NEW i \in 1 .. m-1, NEW j \in 1 .. m-1, g[i] = g[j]  PROVE i = j
      <4>1. f[i+1] = f[j+1]
        BY <1>11, <3>1
      <4>2. i+1 = j+1
        BY <1>9, <1>10, <4>1
      <4> QED  BY <4>2
    <3> QED  BY <3>1
  <2> QED  BY <2>1, <2>2, <2>3, <2>4, <2>5, <2>6 DEF Queued
<1>15. /\ QMine(t)' = {f[1]} /\ Unlinked(t)' = {} /\ Unlinked(t) = {}
       /\ \A u \in Threads : Unlinked(u)' \subseteq Unlinked(u)
  <2>1. QMine(t)' = {f[1]} /\ Unlinked(t)' = {} /\ Unlinked(t) = {}
    BY <1>1, <1>3, <1>9 DEF QMine, Unlinked, Entering
  <2> QED  BY <1>2, <2>1, QMineAfter
<1>16. QApart(m-1, g)'
  <2>1. \A u \in Threads \ {t} : \A a \in QMine(u) :
           mem'[a] = mem[a] /\ (\A i \in 1 .. m-1 : g[i] # a) /\ a # f[1]
    BY <1>4, <1>8, <1>10, <1>11, <1>9 DEF QApart
  <2>2. \A a \in QMine(t)' : /\ a \in Addr /\ mem'[a] = "used" /\ \A i \in 1 .. m-1 : g[i] # a
                             /\ \A u \in Threads \ {t} : a \notin QMine(u)
    BY <1>4, <1>9, <1>12, <1>15, <2>1
  <2> QED  BY <1>2, <1>8, <1>10, <2>1, <2>2, QApartAfter
<1>17. ASSUME NEW u \in Threads \ {t}  PROVE QSeen(u, k-1, m-1, g)'
  <2>1. \A i \in {0, 1} : \A a : Kept(u, i, a) => Kept(u, i, a)'
    BY <1>2, <1>4, <1>15, HarmlessKeeps
  <2>2. MovesOn(u)
    BY <1>13 DEF MovesOn
  <2>3. StaysOut(u, k, m, f, k-1, m-1, g)
    <3>1. ASSUME NEW a, a = f[1] \/ \A i \in 1 .. m : f[i] # a  PROVE \A i \in 1 .. m-1 : g[i] # a
      BY <1>10, <1>11, <1>12, <3>1
    <3> QED  BY <3>1 DEF StaysOut
  <2>4. StaysIn(k, f, k-1, g)
    <3>1. ASSUME NEW j \in 1 .. k
          PROVE  (\E i \in 1 .. k-1 : g[i] = f[j]) \/ node'[f[j]].next # Null
      <4>1. CASE j = 1
        <5>1. 1 \in 1 .. m-1 /\ 1+1 = 2 /\ f[2] # Null
          BY <1>9, MemoryAssumption DEF Addr, Null
        <5>2. node[f[1]].next = f[2]
          BY <1>8, <5>1 DEF Queued
        <5> QED  BY <1>1, <4>1, <5>1, <5>2
      <4>2. CASE j # 1
        <5>1. j-1 \in 1 .. k-1 /\ j-1 \in 1 .. m-1 /\ (j-1)+1 = j
          BY <1>9, <4>2
        <5> QED  BY <1>11, <5>1
      <4> QED  BY <4>1, <4>2
    <3> QED  BY <3>1 DEF StaysIn
  <2>5. Grows(u, m, f)
    BY <1>1 DEF Grows
  <2>6. pc'[u] = pc[u] /\ loc'[u] = loc[u] /\ call'[u] = call[u] /\ QSeen(u, k, m, f)
    BY <1>2, <1>8 DEF OthersStay
  <2> QED  BY <1>0, <1>1, <1>8, <1>10, <2>1, <2>2, <2>3, <2>4, <2>5, <2>6, QSeenAfter
<1>18. QSeen(t, k-1, m-1, g)'
  <2>1. Kept(t, 1, f[2])'
    BY <1>1, <1>3, <1>9, <1>15, KeptStill DEF QHeld
  <2> QED  BY <1>1, <1>3, <1>9, <2>1 DEF QSeen
<1>19. ~Linker(t) /\ ~Linker(t)'
  BY <1>1, <1>3 DEF Linker
<1>20. /\ QResults' = [QResults EXCEPT ![t] = QResult(t)']
       /\ \A u \in Threads \ {t} : /\ Linker(u)' <=> Linker(u)
                                   /\ u \in QAhead' <=> u \in QAhead
  BY <1>1, <1>2, <1>13, QResultsAfter
<1>21. Linking(k-1, m-1)'
  <2>1. \A u \in Threads : Linker(u)' <=> Linker(u)
    BY <1>19, <1>20
  <2>2. m-1 = (k-1)+1 => m = k+1
    OBVIOUS
  <2> QED  BY <1>8, <2>1, <2>2 DEF Linking
<1>22. QResult(t)' = node[f[2]].item /\ t \in QAhead'
  BY <1>1, <1>3, <1>9 DEF QResult, QAhead
<1>23. QAhead' = QAhead \cup {t}
  BY <1>20, <1>22, QAheadAfter
<1>24. QNow(k-1, g)' \in Reached'[Cardinality(QAhead)']
  <2>1. PICK c : c = QNow(k, f)
    OBVIOUS
  <2>2. k-1 \in 1 .. m-1 /\ \A i \in 1 .. k-1 : g[i] = f[i+1]
    BY <1>9, <1>11
  <2>3. /\ c.res[t] = Pending /\ t \notin QAhead
        /\ Effect(c, t) = [abs |-> QItems(k-1, g), res |-> [QResults EXCEPT ![t] = node[f[2]].item]]
    <3>1. pc[t] \in {"deq_tail", "deq_cas"} /\ k # 1
      BY <1>1, <1>9
    <3>2. /\ QNow(k, f).res[t] = Pending /\ t \notin QAhead
          /\ \A n \in Nat \ {0} : \A h \in [1 .. n -> Addr] :
                k-1 \in 1 .. n /\ (\A i \in 1 .. k-1 : h[i] = f[i+1]) =>
                Effect(QNow(k, f), t)
                  = [abs |-> QItems(k-1, h), res |-> [QResults EXCEPT ![t] = node[f[2]].item]]
      BY <1>7, <3>1, DequeueEffect
    <3>3. PICK n \in Nat \ {0} : n = m-1
      BY <1>10
    <3>4. g \in [1 .. n -> Addr] /\ k-1 \in 1 .. n
      BY <2>2, <3>3
    <3>5. Effect(QNow(k, f), t)
            = [abs |-> QItems(k-1, g), res |-> [QResults EXCEPT ![t] = node[f[2]].item]]
      BY <2>2, <3>2, <3>4
    <3> QED  BY <2>1, <3>2, <3>5
  <2>4. Effect(c, t) \in Reached'[Cardinality(QAhead)']
    BY <1>5, <1>8, <1>23, <2>1, <2>3, EffectStep
  <2>5. QItems(k-1, g)' = QItems(k-1, g)
    BY <1>1 DEF QItems
  <2> QED  BY <1>20, <1>22, <2>3, <2>4, <2>5 DEF QNow
<1>25. QGood(k-1, m-1, g)'
  <2>1. \A u \in Threads : QSeen(u, k-1, m-1, g)'
    BY <1>17, <1>18
  <2> QED  BY <1>14, <1>16, <1>21, <1>24, <2>1 DEF QGood
<1>26. QTypeInv'
  BY <1>0, <1>1, <1>3, <1>4, <1>13 DEF QTypeInv, QChosen, fixed, monitor
<1>27. QInside(t)' /\ QFilled(t)'
  BY <1>0, <1>1, <1>3 DEF QInside, QFilled, Dequeuing, Enqueuing, Entering
<1>28. \A u \in Threads \ {t} : QInside(u)' /\ QFilled(u)'
  BY <1>1, <1>2, QOthersAfter DEF QueueInv
<1> QED  BY <1>5, <1>10, <1>25, <1>26, <1>27, <1>28 DEF QueueInv

\* The CAS of enqueue() links its node after the last one.
LEMMA EnqLinkLinks ==
    ASSUME QueueInv, NEW t \in Threads, EnqLink(t), UNCHANGED fixed, node[loc[t].tail].next = Null
    PROVE  QueueInv'
<1>0. QTypeInv /\ MonitorInv /\ Linearizable /\ QInside(t) /\ QFilled(t)
  BY DEF QueueInv
<1>1. /\ pc[t] = "enq_link" /\ pc' = [pc EXCEPT ![t] = "enq_swing"] /\ root' = root /\ loc' = loc
      /\ node' = [node EXCEPT ![loc[t].tail].next = loc[t].new] /\ UNCHANGED mm /\ UNCHANGED monitor
  BY DEF EnqLink, CasNext, At, Goto
<1>2. OthersStay(t)
  BY <1>0, QOnlyOwn DEF QInternal, EnqueueSteps
<1>3. pc'[t] = "enq_swing" /\ "enq_swing" \in QPlace \ {"idle"} /\ call' = call /\ loc[t] \in QLocal
  BY <1>0, <1>1 DEF QTypeInv, QPlace, Enqueuing, Entering, monitor, QInside
<1>4. Harmless(t) /\ hp' = hp /\ mem' = mem /\ since' = since
  BY <1>1, SameMemory DEF mm
<1>5. MonitorInv' /\ Linearizable' /\ Reached' = Reached
  BY <1>0, <1>1, <1>3, QuietKeepsMonitor DEF QTypeInv
<1>6. PICK k \in Nat \ {0}, m \in Nat \ {0} : \E f \in [1 .. m -> Addr] : QGood(k, m, f)
  BY DEF QueueInv
<1>7. PICK f \in [1 .. m -> Addr] : QGood(k, m, f)
  BY <1>6
<1>8. Queued(k, m, f) /\ Linking(k, m) /\ QApart(m, f) /\ (\A u \in Threads : QSeen(u, k, m, f))
      /\ QNow(k, f) \in Reached[Cardinality(QAhead)]
  BY <1>7 DEF QGood
<1>9. PICK a : a = loc[t].new
  OBVIOUS
<1>10. m = k /\ f[k] = loc[t].tail /\ f[k] \in Addr /\ Kept(t, 0, f[k]) /\ k \in 1 .. k
       /\ (\A i, j \in 1 .. k : f[i] = f[j] => i = j) /\ node[f[k]].next = Null
  <2>1. PICK j \in 1 .. k : f[j] = loc[t].tail
    BY <1>1, <1>8 DEF QSeen
  <2>2. m \in {k, k+1} /\ j \in 1 .. m
    BY <1>8 DEF Queued
  <2>3. j \notin 1 .. m-1
    <3>1. \A i \in 1 .. m-1 : f[i+1] # Null
      <4>1. \A i \in 1 .. m-1 : i+1 \in 1 .. m
        OBVIOUS
      <4>2. \A i \in 1 .. m-1 : f[i+1] \in Addr
        BY <4>1
      <4> QED  BY <4>2, MemoryAssumption DEF Addr, Null
    <3> QED  BY <1>8, <2>1, <3>1 DEF Queued
  <2>4. m = k /\ j = k
    BY <2>2, <2>3
  <2>5. Kept(t, 0, loc[t].tail)
    BY <1>1, <1>8 DEF QSeen
  <2> QED  BY <1>8, <2>1, <2>2, <2>4, <2>5 DEF Queued
<1>11. /\ a \in Addr /\ mem[a] = "used" /\ (\A i \in 1 .. k : f[i] # a) /\ a # Null
       /\ node[a] = [item |-> call[t].arg, next |-> Null] /\ a \in Unlinked(t)
       /\ \A u \in Threads \ {t} : a \notin QMine(u)
  <2>1. a \in Unlinked(t) /\ a \in QMine(t)
    BY <1>1, <1>9 DEF QMine, Unlinked, Entering
  <2>2. node[a] = [item |-> call[t].arg, next |-> Null]
    BY <1>0, <1>1, <1>9 DEF QFilled, Entering
  <2>3. a \in Addr => a # Null
    BY MemoryAssumption DEF Addr, Null
  <2> QED  BY <1>8, <1>10, <2>1, <2>2, <2>3 DEF QApart
<1>12. PICK g \in [1 .. k+1 -> Addr] : g[k+1] = a /\ \A i \in 1 .. k : g[i] = f[i]
  <2> DEFINE G == [i \in 1 .. k+1 |-> IF i = k+1 THEN a ELSE f[i]]
  <2>1. \A i \in 1 .. k+1 : i # k+1 => i \in 1 .. k
    OBVIOUS
  <2>2. G \in [1 .. k+1 -> Addr]
    BY <1>10, <1>11, <2>1
  <2>3. k+1 \in 1 .. k+1 /\ \A i \in 1 .. k : i \in 1 .. k+1 /\ i # k+1
    OBVIOUS
  <2> QED  BY <2>2, <2>3
<1>13. /\ node' \in [Addr -> [item : Nat, next : Int]] /\ node'[f[k]].next = a
       /\ \A b \in Addr : node'[b].item = node[b].item
       /\ \A b \in Addr \ {f[k]} : node'[b] = node[b]
  <2>1. node \in [Addr -> [item : Nat, next : Int]] /\ a \in Int
    <3>1. Addr \subseteq Int
      BY MemoryAssumption DEF Addr
    <3> QED  BY <1>0, <1>11, <3>1 DEF QTypeInv
  <2>2. node' = [node EXCEPT ![f[k]].next = a]
    BY <1>1, <1>9, <1>10
  <2> QED  BY <1>10, <2>1, <2>2
<1>14. Queued(k, k+1, g)'
  <2>1. g[1] = root'.head /\ g[k] = root'.tail
    BY <1>1, <1>8, <1>12 DEF Queued
  <2>2. \A i \in 1 .. k+1 : mem'[g[i]] = "used"
    BY <1>4, <1>8, <1>10, <1>11, <1>12 DEF Queued
  <2>3. \A i \in 1 .. (k+1)-1 : node'[g[i]].next = g[i+1]
    <3>1. ASSUME NEW i \in 1 .. k, i # k  PROVE node'[g[i]].next = g[i+1]
      <4>1. i \in 1 .. k-1 /\ i+1 \in 1 .. k
        BY <3>1
      <4>2. f[i] # f[k] /\ f[i] \in Addr
        BY <1>10, <3>1
      <4>3. node[f[i]].next = f[i+1]
        BY <1>8, <1>10, <4>1 DEF Queued
      <4>4. node'[f[i]] = node[f[i]]
        BY <1>13, <4>2
      <4> QED  BY <1>12, <4>1, <4>3, <4>4
    <3>2. node'[g[k]].next = g[k+1]
      BY <1>10, <1>12, <1>13
    <3>3. \A i \in 1 .. (k+1)-1 : i \in 1 .. k
      OBVIOUS
    <3> QED  BY <3>1, <3>2, <3>3
  <2>4. node'[g[k+1]].next = Null
    BY <1>10, <1>11, <1>12, <1>13
  <2>5. \A i, j \in 1 .. k+1 : g[i] = g[j] => i = j
    <3>1. \A i \in 1 .. k+1 : i = k+1 \/ i \in 1 .. k
      OBVIOUS
    <3> QED  BY <1>10, <1>11, <1>12, <3>1
  <2> QED  BY <2>1, <2>2, <2>3, <2>4, <2>5 DEF Queued
<1>15. /\ QMine(t)' = {} /\ Unlinked(t)' = {}
       /\ \A u \in Threads : Unlinked(u)' \subseteq Unlinked(u)
  <2>1. QMine(t)' = {} /\ Unlinked(t)' = {}
    BY <1>3 DEF QMine, Unlinked, Entering
  <2> QED  BY <1>2, <2>1, QMineAfter
<1>16. \A i \in 1 .. k+1 : i = k+1 \/ i \in 1 .. k
  OBVIOUS
<1>17. QApart(k+1, g)'
  <2>1. \A u \in Threads \ {t} : \A b \in QMine(u) :
           mem'[b] = mem[b] /\ (\A i \in 1 .. k+1 : g[i] # b)
    BY <1>4, <1>8, <1>10, <1>11, <1>12, <1>16 DEF QApart
  <2>2. k+1 \in Nat \ {0} /\ \A b \in QMine(t)' :
           /\ b \in Addr /\ mem'[b] = "used" /\ \A i \in 1 .. k+1 : g[i] # b
           /\ \A u \in Threads \ {t} : b \notin QMine(u)
    BY <1>15
  <2> QED  BY <1>2, <1>8, <2>1, <2>2, QApartAfter
<1>18. ASSUME NEW u \in Threads, NEW i, NEW b, Kept(u, i, b)  PROVE b # a /\ b \in Addr
  BY <1>11, <1>18 DEF Kept
<1>19. ASSUME NEW u \in Threads \ {t}  PROVE QSeen(u, k, k+1, g)'
  <2>1. \A i \in {0, 1} : \A b : Kept(u, i, b) => Kept(u, i, b)'
    BY <1>2, <1>4, <1>15, HarmlessKeeps
  <2>2. MovesOn(u)
    BY <1>1 DEF MovesOn
  <2>3. StaysOut(u, k, m, f, k, k+1, g)
    <3>1. ASSUME NEW b, Kept(u, 0, b), b = f[1] \/ \A i \in 1 .. m : f[i] # b
          PROVE  \/ b = f[1] /\ b = g[1] /\ (k > 1 => k > 1)
                 \/ \A i \in 1 .. k+1 : g[i] # b
      <4>1. b # a
        BY <1>18, <3>1
      <4>2. 1 \in 1 .. k /\ g[1] = f[1]
        BY <1>12
      <4> QED  BY <1>10, <1>12, <1>16, <3>1, <4>1, <4>2
    <3> QED  BY <3>1 DEF StaysOut
  <2>4. StaysIn(k, f, k, g)
    BY <1>12 DEF StaysIn
  <2>5. Grows(u, m, f)
    BY <1>10, <1>13, <1>18 DEF Grows
  <2>6. pc'[u] = pc[u] /\ loc'[u] = loc[u] /\ call'[u] = call[u] /\ QSeen(u, k, m, f)
        /\ node'[f[m]].item = node[f[m]].item /\ k+1 \in Nat \ {0}
    BY <1>2, <1>8, <1>10, <1>13 DEF OthersStay
  <2> QED  BY <1>0, <1>8, <2>1, <2>2, <2>3, <2>4, <2>5, <2>6, QSeenAfter
<1>20. QSeen(t, k, k+1, g)'
  <2>1. Kept(t, 0, f[k])'
    BY <1>1, <1>3, <1>10, <1>15, KeptStill DEF QHeld
  <2>2. node'[a].item = call'[t].arg
    <3>1. node[a].item = call[t].arg
      BY <1>11
    <3> QED  BY <1>3, <1>11, <1>13, <3>1
  <2> QED  BY <1>1, <1>3, <1>9, <1>10, <1>11, <1>13, <2>1, <2>2 DEF QSeen
<1>21. ~Linker(t) /\ Linker(t)' /\ \A u \in Threads : ~Linker(u)
  <2>1. ~Linker(t) /\ Linker(t)'
    BY <1>1, <1>3, <1>8, <1>10 DEF Linker, Queued
  <2>2. ASSUME NEW u \in Threads, Linker(u)  PROVE FALSE
    <3>1. m = k+1
      BY <1>0, <1>8, <2>2, LinkedLast
    <3> QED  BY <1>10, <3>1
  <2> QED  BY <2>1, <2>2
<1>22. /\ QResults' = [QResults EXCEPT ![t] = QResult(t)']
       /\ \A u \in Threads \ {t} : /\ Linker(u)' <=> Linker(u)
                                   /\ u \in QAhead' <=> u \in QAhead
  <2>1. ASSUME NEW u \in Threads \ {t}, pc[u] = "deq_item"
        PROVE  node'[loc[u].next].item = node[loc[u].next].item
    <3>1. Kept(u, 1, loc[u].next)
      BY <1>8, <2>1 DEF QSeen
    <3> QED  BY <1>13, <1>18, <3>1
  <2> QED  BY <1>1, <1>2, <2>1, QResultsAfter
<1>23. Linking(k, k+1)'
  BY <1>21, <1>22 DEF Linking
<1>24. QResult(t)' = Pending /\ QResult(t) = Pending /\ t \notin QAhead /\ t \notin QAhead'
  BY <1>1, <1>3, <1>21 DEF QResult, QAhead
<1>25. QResults' = QResults
  BY <1>22, <1>24 DEF QResults
<1>26. QAhead' = QAhead
  BY <1>22, <1>24, QAheadAfter
<1>27. QItems(k, g)' = QItems(k, f)
  <2>1. \A i \in 1 .. k-1 : node'[g[i+1]].item = node[f[i+1]].item
    <3>1. \A i \in 1 .. k-1 : i+1 \in 1 .. k
      OBVIOUS
    <3> QED  BY <1>10, <1>12, <1>13, <3>1
  <2> QED  BY <2>1 DEF QItems
<1>28. QNow(k, g)' \in Reached'[Cardinality(QAhead)']
  <2>1. QNow(k, g)' = QNow(k, f)
    BY <1>25, <1>27 DEF QNow
  <2> QED  BY <1>5, <1>8, <1>26, <2>1
<1>29. QGood(k, k+1, g)'
  <2>1. \A u \in Threads : QSeen(u, k, k+1, g)'
    BY <1>19, <1>20
  <2> QED  BY <1>14, <1>17, <1>23, <1>28, <2>1 DEF QGood
<1>30. QTypeInv'
  BY <1>0, <1>1, <1>3, <1>4, <1>13 DEF QTypeInv, QChosen, fixed, monitor
<1>31. QInside(t)' /\ QFilled(t)'
  BY <1>0, <1>1, <1>3 DEF QInside, QFilled, Dequeuing, Enqueuing, Entering
<1>32. ASSUME NEW u \in Threads \ {t}  PROVE QInside(u)' /\ QFilled(u)'
  <2>1. \A b \in Unlinked(u) : node'[b] = node[b]
    <3>1. Unlinked(u) \subseteq QMine(u)
      BY DEF QMine, Unlinked, Entering
    <3> QED  BY <1>8, <1>10, <1>13, <3>1 DEF QApart
  <2> QED  BY <1>2, <2>1, QOthersAfter DEF QueueInv
<1>33. k+1 \in Nat \ {0}
  OBVIOUS
<1> QED  BY <1>5, <1>29, <1>30, <1>31, <1>32, <1>33 DEF QueueInv

\* What the roots and the threads lead to is closed under the links.
LEMMA LiveIsClosed ==
    /\ QLive \in SUBSET Addr
    /\ \A a \in {root.head, root.tail} \cap Addr : a \in QLive
    /\ \A t \in Threads : \A a \in QHeld(t) \cap Addr : a \in QLive
    /\ \A a \in QLive : node[a].next \in Addr => node[a].next \in QLive
<1> DEFINE G(T) == T \cup ((UNION {QLinks(a) : a \in T}) \cap Addr)
           D(R) == R = [T \in SUBSET Addr |-> IF G(T) = T THEN T ELSE R[G(T)]]
           Settles(R, T) == R[T] \in SUBSET Addr /\ T \subseteq R[T] /\ G(R[T]) = R[T]
           L == CHOOSE R : D(R)
           S == {root.head, root.tail} \cup UNION {QHeld(t) : t \in Threads}
<1>1. \A T \in SUBSET Addr : G(T) \in SUBSET Addr /\ T \subseteq G(T)
  OBVIOUS
<1>2. \A T, C \in SUBSET Addr : T \subseteq C /\ G(C) = C => G(T) \subseteq C
  OBVIOUS
<1>3. ASSUME NEW T \in SUBSET Addr, NEW a \in T, G(T) = T  PROVE QLinks(a) \cap Addr \subseteq T
  BY <1>3
<1>4. QLive = L[S \cap Addr]
  BY Zenon DEF QLive, Reach
<1>5. S \cap Addr \in SUBSET Addr
  OBVIOUS
<1> HIDE DEF G
<1>6. \E R : D(R)
  <2> DEFINE Above(T) == {C \in SUBSET Addr : T \subseteq C /\ G(C) = C}
             M == [T \in SUBSET Addr |-> {a \in Addr : \A C \in Above(T) : a \in C}]
  <2>1. ASSUME NEW T \in SUBSET Addr  PROVE M[T] = IF G(T) = T THEN T ELSE M[G(T)]
    <3>1. CASE G(T) = T
      <4>1. T \in Above(T)
        BY <3>1
      <4> QED  BY <3>1, <4>1
    <3>2. CASE G(T) # T
      <4>1. \A C : C \in Above(T) <=> C \in Above(G(T))
        BY <1>1, <1>2
      <4>2. G(T) \in SUBSET Addr
        BY <1>1
      <4>3. Above(T) = Above(G(T))
        BY <4>1
      <4> HIDE DEF Above
      <4>4. M[T] = M[G(T)]
        BY <4>2, <4>3
      <4> QED  BY <3>2, <4>4
    <3> QED  BY <3>1, <3>2
  <2>2. M = [T \in SUBSET Addr |-> M[T]]
    OBVIOUS
  <2> HIDE DEF M
  <2>3. D(M)
    BY <2>1, <2>2
  <2> QED  BY <2>3
<1>7. D(L)
  BY <1>6, Zenon
<1>8. \A T \in SUBSET Addr : L[T] = IF G(T) = T THEN T ELSE L[G(T)]
  BY <1>7
<1> HIDE DEF L
<1>9. Addrs \in Nat /\ IsFiniteSet(Addr) /\ Cardinality(Addr) = Addrs
  BY MemoryAssumption, FS_Interval DEF Addr
<1>10. \A T \in SUBSET Addr : IsFiniteSet(Addr \ T) /\ Cardinality(Addr \ T) \in 0 .. Addrs
  BY <1>9, FS_Subset, FS_CardinalityType
<1>11. ASSUME NEW T \in SUBSET Addr, G(T) # T
       PROVE  Cardinality(Addr \ G(T)) < Cardinality(Addr \ T)
  <2>1. Addr \ G(T) \subseteq Addr \ T /\ Addr \ G(T) # Addr \ T
    BY <1>1, <1>11
  <2>2. IsFiniteSet(Addr \ T) /\ Cardinality(Addr \ T) \in Nat
    BY <1>10
  <2>3. Cardinality(Addr \ G(T)) <= Cardinality(Addr \ T)
        /\ Cardinality(Addr \ G(T)) # Cardinality(Addr \ T)
    BY <2>1, <2>2, FS_Subset
  <2>4. Cardinality(Addr \ G(T)) \in Nat
    BY <1>1, <1>10
  <2> QED  BY <2>2, <2>3, <2>4
<1> DEFINE P == {n \in 0 .. Addrs : \A T \in SUBSET Addr : Cardinality(Addr \ T) <= n => Settles(L, T)}
<1>12. 0 \in P
  <2>1. ASSUME NEW T \in SUBSET Addr, Cardinality(Addr \ T) <= 0  PROVE Settles(L, T)
    <3>0. PICK i : i = Cardinality(Addr \ T)
      OBVIOUS
    <3>1. G(T) = T
      <4>1. i \in Nat /\ i <= 0
        BY <1>10, <2>1, <3>0
      <4>2. PICK j : j = Cardinality(Addr \ G(T))
        OBVIOUS
      <4>3. j \in Nat
        BY <1>1, <1>10, <4>2
      <4>4. G(T) # T => j < i
        BY <1>11, <3>0, <4>2
      <4> QED  BY <4>1, <4>3, <4>4
    <3> QED  BY <1>8, <3>1
  <2> HIDE DEF Settles
  <2> QED  BY <1>9, <2>1
<1>13. ASSUME NEW n \in 0 .. Addrs-1, n \in P  PROVE n + 1 \in P
  <2>1. ASSUME NEW T \in SUBSET Addr, Cardinality(Addr \ T) <= n + 1  PROVE Settles(L, T)
    <3>1. CASE G(T) = T
      BY <1>8, <3>1
    <3>2. CASE G(T) # T
      <4>0. Cardinality(Addr \ G(T)) <= n
        <5>1. PICK i : i = Cardinality(Addr \ T)
          OBVIOUS
        <5>2. PICK j : j = Cardinality(Addr \ G(T))
          OBVIOUS
        <5>3. i \in Nat /\ j \in Nat
          BY <1>1, <1>10, <5>1, <5>2
        <5>a. n \in Nat
          BY <1>9
        <5>4. j < i /\ i <= n + 1
          BY <1>11, <2>1, <3>2, <5>1, <5>2
        <5> QED  BY <5>2, <5>3, <5>4, <5>a
      <4>1. G(T) \in SUBSET Addr /\ T \subseteq G(T) /\ Cardinality(Addr \ G(T)) <= n
        BY <1>1, <4>0
      <4>2. Settles(L, G(T))
        <5> HIDE DEF Settles
        <5> QED  BY <1>13, <4>1
      <4> QED  BY <1>8, <3>2, <4>1, <4>2
    <3> QED  BY <3>1, <3>2
  <2> HIDE DEF Settles
  <2> QED  BY <1>9, <1>13, <2>1
<1>14. Addrs \in P
  <2> HIDE DEF P
  <2> QED  BY <1>9, <1>12, <1>13, Induction
<1>15. Settles(L, S \cap Addr)
  <2>1. Cardinality(Addr \ (S \cap Addr)) <= Addrs
    <3>1. Cardinality(Addr \ (S \cap Addr)) \in 0 .. Addrs
      <4> HIDE DEF S
      <4> QED  BY <1>5, <1>10
    <3> QED  BY <1>9, <3>1
  <2> HIDE DEF Settles
  <2> QED  BY <1>5, <1>14, <2>1
<1>16. QLive \in SUBSET Addr /\ S \cap Addr \subseteq QLive /\ G(QLive) = QLive
  BY <1>4, <1>15
<1>17. \A a \in QLive : QLinks(a) \cap Addr \subseteq QLive
  BY <1>3, <1>16
<1>18. \A a \in QLive : node[a].next \in Addr => node[a].next \in QLive
  BY <1>17 DEF QLinks
<1> QED  BY <1>16, <1>18

\* The nodes of the queue are reached from head.
LEMMA QueueIsLive ==
    ASSUME QTypeInv, NEW k \in Nat \ {0}, NEW m \in Nat \ {0}, NEW f \in [1 .. m -> Addr],
           Queued(k, m, f)
    PROVE  \A i \in 1 .. m : f[i] \in QLive
<1> DEFINE P == {i \in 0 .. m-1 : f[i+1] \in QLive}
<1>1. 0 \in P
  <2>1. f[0+1] = root.head /\ f[0+1] \in Addr
    BY DEF Queued
  <2> QED  BY <2>1, LiveIsClosed
<1>2. ASSUME NEW i \in 0 .. (m-1)-1, i \in P  PROVE i + 1 \in P
  <2>1. i+1 \in 1 .. m-1 /\ (i+1)+1 \in 1 .. m
    OBVIOUS
  <2>2. node[f[i+1]].next = f[(i+1)+1] /\ f[(i+1)+1] \in Addr
    BY <2>1 DEF Queued
  <2> QED  BY <1>2, <2>1, <2>2, LiveIsClosed
<1>3. \A i \in 0 .. m-1 : i \in P
  <2>1. m-1 \in Nat
    OBVIOUS
  <2> HIDE DEF P
  <2> QED  BY <1>1, <1>2, <2>1, Induction
<1>4. ASSUME NEW i \in 1 .. m  PROVE f[i] \in QLive
  <2>1. i-1 \in 0 .. m-1 /\ (i-1)+1 = i
    OBVIOUS
  <2>2. i-1 \in P
    BY <1>3, <2>1
  <2> QED  BY <2>1, <2>2
<1> QED  BY <1>4

\* The node of a call of enqueue() is in nobody's hands.
LEMMA FreshNode ==
    ASSUME QTypeInv, NEW k \in Nat \ {0}, NEW m \in Nat \ {0}, NEW f \in [1 .. m -> Addr],
           Queued(k, m, f), QApart(m, f), NEW a \in Free(QLive)
    PROVE  /\ a \in Addr /\ \A i \in 1 .. m : f[i] # a
           /\ \A u \in Threads : \A b \in QMine(u) : b \in Addr \ {a}
           /\ \A u \in Threads : \A i, b : Kept(u, i, b) => b \in Addr \ {a}
<1>1. CASE orc
  <2>1. a \in Addr /\ a \notin QLive
    BY <1>1 DEF Free, Deleted
  <2>2. ASSUME NEW u \in Threads, NEW b \in QMine(u)  PROVE b \in QHeld(u) /\ b \in Addr
    BY <2>2 DEF QMine, Unlinked, Entering, QHeld, At, QApart
  <2>3. ASSUME NEW u \in Threads, NEW i, NEW b, Kept(u, i, b)  PROVE b \in QHeld(u) /\ b \in Addr
    BY <1>1, <2>3 DEF Kept, Holds
  <2>4. \A u \in Threads : \A b \in Addr : b \in QHeld(u) => b # a
    BY <2>1, LiveIsClosed
  <2>5. \A i \in 1 .. m : f[i] # a
    BY <2>1, QueueIsLive
  <2> QED  BY <2>1, <2>2, <2>3, <2>4, <2>5
<1>2. CASE ~orc
  <2>1. a \in Addr /\ mem[a] # "used" /\ (mem[a] = "retired" => since[a] = {})
    BY <1>2 DEF Free, Deleted, QTypeInv
  <2>2. \A i \in 1 .. m : f[i] # a
    BY <2>1 DEF Queued
  <2>3. \A u \in Threads : \A b \in QMine(u) : b \in Addr \ {a}
    BY <2>1 DEF QApart
  <2>4. \A u \in Threads : \A i, b : Kept(u, i, b) => b \in Addr \ {a}
    BY <2>1 DEF Kept
  <2> QED  BY <2>1, <2>2, <2>3, <2>4
<1> QED  BY <1>1, <1>2

\* The call of enqueue(): its node is new, and nobody protects it.
LEMMA EnqueueStep ==
    ASSUME QueueInv, NEW t \in Threads, Enqueue(t), UNCHANGED fixed
    PROVE  QueueInv'
<1>0. QTypeInv /\ MonitorInv /\ Linearizable
  BY DEF QueueInv
<1>1. PICK a \in Free(QLive) :
          /\ Call(t, "enqueue", "enq_tail", [QLocals EXCEPT !.new = a])
          /\ Allocate({a})
          /\ node' = [node EXCEPT ![a] = [item |-> call'[t].arg, next |-> Null]]
          /\ root' = root
  BY DEF Enqueue
<1> DEFINE x == [QLocals EXCEPT !.new = a]
<1>2. a \in Addr
  BY DEF Free, Deleted
<1>3. x \in QLocal /\ x.new = a
  <2>1. a \in Int
    BY <1>2 DEF Addr
  <2> QED  BY <2>1 DEF QLocals, QLocal, Null
<1>4. /\ pc[t] = "idle" /\ pc' = [pc EXCEPT ![t] = "enq_tail"]
      /\ loc' = [loc EXCEPT ![t] = x] /\ calls' = [calls EXCEPT ![t] = @ + 1]
      /\ configs' = {[c EXCEPT !.res[t] = Pending] : c \in configs}
  BY <1>1 DEF Call
<1>5. MonitorInv' /\ call'[t].op = "enqueue" /\ \A u \in Threads \ {t} : call'[u] = call[u]
  BY <1>0, <1>1, CallKeepsMonitor DEF QTypeInv, QChosen, Ordered
<1>6. OthersStay(t)
  BY <1>0, QOnlyOwn
<1>7. pc'[t] = "enq_tail" /\ loc'[t] = x /\ loc'[t].new = a
  BY <1>0, <1>3, <1>4 DEF QTypeInv
<1>8. /\ hp' = hp
      /\ \A b \in Addr : mem'[b] = IF b = a THEN "used" ELSE mem[b]
      /\ \A b \in Addr : since'[b] = IF b = a THEN {} ELSE since[b]
      /\ mem' \in [Addr -> {"none", "used", "retired"}] /\ since' \in [Addr -> SUBSET Slot]
  BY <1>0, <1>1, <1>2 DEF Allocate, QTypeInv
<1>9. call'[t].arg \in Nat
  BY <1>5 DEF MonitorInv, CallType
<1>10. /\ node'[a] = [item |-> call'[t].arg, next |-> Null]
       /\ \A b \in Addr \ {a} : node'[b] = node[b]
       /\ node' \in [Addr -> [item : Nat, next : Int]]
  BY <1>0, <1>1, <1>2, <1>9 DEF QTypeInv, Null
<1>11. QTypeInv'
  BY <1>0, <1>1, <1>3, <1>4, <1>8, <1>10 DEF QTypeInv, QChosen, fixed, QPlace, Enqueuing, Entering
<1>12. Linearizable'
  BY <1>0, <1>4 DEF Linearizable
<1>13. QInside(t)' /\ QFilled(t)'
  BY <1>3, <1>5, <1>7, <1>10 DEF QInside, QFilled, Dequeuing, Enqueuing, Entering
<1> HIDE DEF x
<1>14. PICK k \in Nat \ {0}, m \in Nat \ {0} : \E f \in [1 .. m -> Addr] : QGood(k, m, f)
  BY DEF QueueInv
<1>15. PICK f \in [1 .. m -> Addr] : QGood(k, m, f)
  BY <1>14
<1>16. Queued(k, m, f) /\ Linking(k, m) /\ QApart(m, f) /\ (\A u \in Threads : QSeen(u, k, m, f))
       /\ QNow(k, f) \in Reached[Cardinality(QAhead)]
  BY <1>15 DEF QGood
<1>17. /\ QMine(t)' = {a} /\ Unlinked(t)' = {a} /\ Unlinked(t) = {} /\ ~Linker(t) /\ ~Linker(t)'
       /\ t \notin QAhead /\ t \notin QAhead' /\ QResult(t)' = Pending /\ QSeen(t, k, m, f)'
  BY <1>4, <1>7 DEF QMine, Unlinked, Entering, Linker, QAhead, QResult, QSeen
<1>a. /\ \A i \in 1 .. m : f[i] \in Addr \ {a}
      /\ \A u \in Threads : \A b \in QMine(u) : b \in Addr \ {a}
      /\ \A u \in Threads : \A i, b : Kept(u, i, b) => b \in Addr \ {a}
  BY <1>0, <1>16, FreshNode
<1>18. \A i \in 1 .. m : f[i] \in Addr \ {a}
  BY <1>a
<1>19. \A u \in Threads : \A b \in QMine(u) : b \in Addr \ {a} /\ mem[b] = "used"
  BY <1>a, <1>16 DEF QApart
<1>20. ASSUME NEW u \in Threads \ {t}, NEW i, NEW b, Kept(u, i, b)
       PROVE  b \in Addr \ {a} /\ Kept(u, i, b)'
  <2>1. b \in Addr \ {a}
    BY <1>a, <1>20
  <2>2. \A v \in Threads : b \in Unlinked(v)' => b \in Unlinked(v)
    BY <1>6, <1>17, <2>1, QMineAfter
  <2>3. mem'[b] = mem[b] /\ since'[b] = since[b]
    BY <1>8, <2>1
  <2>4. Holds(u, i, b)'
    BY <1>6, <1>8, <1>20, HoldsAfter DEF Kept
  <2> QED  BY <1>8, <1>20, <2>1, <2>2, <2>3, <2>4, KeptAfter
<1>21. Queued(k, m, f)'
  <2>1. \A i \in 1 .. m : mem'[f[i]] = mem[f[i]] /\ node'[f[i]] = node[f[i]]
    BY <1>8, <1>10, <1>18
  <2>2. \A i \in 1 .. m-1 : i \in 1 .. m
    OBVIOUS
  <2>3. m \in 1 .. m
    OBVIOUS
  <2> QED  BY <1>1, <1>16, <2>1, <2>2, <2>3 DEF Queued
<1>22. QApart(m, f)'
  <2>1. \A u \in Threads \ {t} : \A b \in QMine(u) : mem'[b] = mem[b] /\ \A i \in 1 .. m : f[i] # b
    BY <1>8, <1>16, <1>19 DEF QApart
  <2>2. \A b \in QMine(t)' : /\ b \in Addr /\ mem'[b] = "used" /\ \A i \in 1 .. m : f[i] # b
                             /\ \A u \in Threads \ {t} : b \notin QMine(u)
    BY <1>2, <1>8, <1>17, <1>18, <1>19
  <2> QED  BY <1>6, <1>16, <2>1, <2>2, QApartAfter
<1>23. ASSUME NEW u \in Threads \ {t}  PROVE QSeen(u, k, m, f)'
  <2>1. \A i \in {0, 1} : \A b : Kept(u, i, b) => Kept(u, i, b)'
    BY <1>20
  <2>2. MovesOn(u)
    BY <1>1 DEF MovesOn
  <2>3. StaysOut(u, k, m, f, k, m, f)
    BY DEF StaysOut
  <2>4. StaysIn(k, f, k, f)
    BY DEF StaysIn
  <2>5. Grows(u, m, f)
    BY <1>10, <1>20 DEF Grows
  <2>6. pc'[u] = pc[u] /\ loc'[u] = loc[u] /\ call'[u] = call[u] /\ QSeen(u, k, m, f)
    BY <1>6, <1>16 DEF OthersStay
  <2>7. node'[f[m]].item = node[f[m]].item
    <3>1. m \in 1 .. m
      OBVIOUS
    <3> QED  BY <1>10, <1>18, <3>1
  <2> QED  BY <1>0, <1>16, <2>1, <2>2, <2>3, <2>4, <2>5, <2>6, <2>7, QSeenAfter
<1>24. /\ QResults' = [QResults EXCEPT ![t] = QResult(t)']
       /\ \A u \in Threads \ {t} : /\ Linker(u)' <=> Linker(u)
                                   /\ u \in QAhead' <=> u \in QAhead
  <2>1. ASSUME NEW u \in Threads \ {t}, pc[u] = "deq_item"
        PROVE  node'[loc[u].next].item = node[loc[u].next].item
    <3>1. Kept(u, 1, loc[u].next)
      BY <1>16, <2>1 DEF QSeen
    <3> QED  BY <1>10, <1>20, <3>1
  <2> QED  BY <1>1, <1>6, <2>1, QResultsAfter
<1>25. Linking(k, m)'
  BY <1>16, <1>17, <1>24 DEF Linking
<1>26. QAhead' = QAhead /\ Cardinality(QAhead) \in 0 .. N
  BY <1>17, <1>24, QAheadAfter
<1>27. QItems(k, f)' = QItems(k, f)
  <2>1. \A i \in 1 .. k-1 : i+1 \in 1 .. m
    BY <1>16 DEF Queued
  <2>2. \A i \in 1 .. k-1 : node'[f[i+1]] = node[f[i+1]]
    BY <1>10, <1>18, <2>1
  <2> QED  BY <2>2 DEF QItems
<1>28. QNow(k, f)' = [QNow(k, f) EXCEPT !.res[t] = Pending]
  BY <1>17, <1>24, <1>27 DEF QNow
<1>29. QNow(k, f)' \in Reached'[Cardinality(QAhead)']
  <2>1. [QNow(k, f) EXCEPT !.res[t] = Pending] \in Reached'[Cardinality(QAhead)]
    BY <1>0, <1>4, <1>5, <1>16, <1>26, CallReaches
  <2> QED  BY <1>26, <1>28, <2>1
<1>30. QGood(k, m, f)'
  <2>1. \A u \in Threads : QSeen(u, k, m, f)'
    BY <1>17, <1>23
  <2> QED  BY <1>21, <1>22, <1>25, <1>29, <2>1 DEF QGood
<1>31. ASSUME NEW u \in Threads \ {t}  PROVE QInside(u)' /\ QFilled(u)'
  <2>1. \A b \in Unlinked(u) : node'[b] = node[b]
    <3>1. Unlinked(u) \subseteq QMine(u)
      BY DEF QMine, Unlinked, Entering
    <3> QED  BY <1>10, <1>19, <3>1
  <2> QED  BY <1>6, <2>1, QOthersAfter DEF QueueInv
<1> QED  BY <1>5, <1>11, <1>12, <1>13, <1>30, <1>31 DEF QueueInv

\* The invariant holds at the start.
LEMMA QueueStart == QInit /\ QChosen => QueueInv
<1> SUFFICES ASSUME QInit, QChosen  PROVE QueueInv
  OBVIOUS
<1>0. N \in Nat \ {0} /\ 1 \in Addr
  BY MemoryAssumption DEF Addr
<1>1. /\ hp = [p \in Slot |-> Null] /\ since = [a \in Addr |-> {}]
      /\ pc = [t \in Threads |-> "idle"] /\ loc = [t \in Threads |-> NoLocals]
      /\ call = [t \in Threads |-> NotCalled] /\ calls = [t \in Threads |-> 0]
      /\ configs = {[abs |-> << >>, res |-> [t \in Threads |-> NoCall]]}
  BY DEF QInit, Start
<1>2. /\ mem = [a \in Addr |-> IF a = 1 THEN "used" ELSE "none"]
      /\ node = [a \in Addr |-> [item |-> Null, next |-> Null]]
      /\ root = [head |-> 1, tail |-> 1]
  BY DEF QInit
<1>3. QTypeInv
  BY <1>0, <1>1, <1>2 DEF QTypeInv, QChosen, Null, QPlace
<1>4. MonitorInv
  <2>1. NotCalled \in CallType
    BY DEF NotCalled, CallType, Null
  <2>2. [abs |-> << >>, res |-> [t \in Threads |-> NoCall]] \in Config
    BY DEF Config, NoCall
  <2> QED  BY <1>1, <2>1, <2>2 DEF MonitorInv, Calm
<1>5. Linearizable
  BY <1>1 DEF Linearizable
<1>6. \A t \in Threads : /\ QInside(t) /\ QFilled(t) /\ QMine(t) = {} /\ ~Linker(t)
                         /\ QResult(t) = NoCall /\ t \notin QAhead
  BY <1>1 DEF QInside, QFilled, QMine, Unlinked, Linker, QResult, QAhead,
     Enqueuing, Entering, Dequeuing
<1>7. PICK f : f = [i \in 1 .. 1 |-> 1]
  OBVIOUS
<1>8. 1 \in Nat \ {0} /\ f \in [1 .. 1 -> Addr]
  BY <1>0, <1>7
<1>9. Queued(1, 1, f) /\ QApart(1, f) /\ Linking(1, 1)
  <2>1. Queued(1, 1, f)
    BY <1>0, <1>2, <1>7 DEF Queued
  <2>2. QApart(1, f)
    BY <1>6 DEF QApart
  <2>3. Linking(1, 1)
    BY <1>6 DEF Linking
  <2> QED  BY <2>1, <2>2, <2>3
<1>10. \A t \in Threads : QSeen(t, 1, 1, f)
  BY <1>1 DEF QSeen
<1>11. QNow(1, f) \in Reached[Cardinality(QAhead)]
  <2>1. QItems(1, f) = << >>
    <3>1. 1 \in 1 .. 1
      OBVIOUS
    <3>2. QItems(1, f) = << >> <=> 1 = 1
      BY <1>3, <1>8, <3>1, QItemsType
    <3> QED  BY <3>2
  <2>2. QResults = [t \in Threads |-> NoCall]
    BY <1>6 DEF QResults
  <2>3. QAhead = {}
    BY <1>6 DEF QAhead
  <2>4. Cardinality(QAhead) = 0
    BY <2>3, FS_EmptySet
  <2>5. QNow(1, f) \in configs
    BY <1>1, <2>1, <2>2 DEF QNow
  <2> QED  BY <2>4, <2>5, RoundByRound DEF RoundFacts
<1> QED  BY <1>3, <1>4, <1>5, <1>6, <1>8, <1>9, <1>10, <1>11 DEF QueueInv, QGood

\* Every step keeps it.
LEMMA QueueNext == QueueInv /\ [QNext]_vars => QueueInv'
<1> SUFFICES ASSUME QueueInv, [QNext]_vars  PROVE QueueInv'
  OBVIOUS
<1>1. ASSUME NEW t \in Threads, UNCHANGED fixed, EnqueueSteps(t)  PROVE QueueInv'
  BY <1>1, EnqTailStep, EnqNextStep, EnqLinkLinks, EnqLinkFails, EnqSwingMoves, EnqSwingFails,
     EnqHelpMoves, EnqHelpFails DEF EnqueueSteps
<1>2. ASSUME NEW t \in Threads, UNCHANGED fixed, DequeueSteps(t)  PROVE QueueInv'
  BY <1>2, DeqHeadStep, DeqTailEnds, DeqTailGoesOn, DeqEmptyStep, DeqNextStep, DeqCasTakes,
     DeqCasFails, DeqItemStep DEF DequeueSteps
<1>3. CASE UNCHANGED vars
  <2>1. UNCHANGED <<structure, orc, root, node, hp, mem, since, pc, loc, call, calls, configs>>
    BY <1>3 DEF vars, fixed, heap, mm, monitor
  <2>2. Reached' = Reached
    BY <2>1, NoEffect
  <2>3. \A k, m, f : Queued(k, m, f)' <=> Queued(k, m, f)
    BY <2>1 DEF Queued
  <2>4. \A t \in Threads : QMine(t)' = QMine(t) /\ Unlinked(t)' = Unlinked(t) /\ (Linker(t)' <=> Linker(t))
    BY <2>1 DEF QMine, Unlinked, Linker
  <2>5. \A k, m, f : (QApart(m, f)' <=> QApart(m, f)) /\ (Linking(k, m)' <=> Linking(k, m))
    BY <2>1, <2>4 DEF QApart, Linking
  <2>6. \A t \in Threads : \A i, a : Kept(t, i, a)' <=> Kept(t, i, a)
    <3>1. \A t, i, a : Holds(t, i, a)' <=> Holds(t, i, a)
      BY <2>1 DEF Holds, QHeld, At
    <3> QED  BY <2>1, <2>4, <3>1 DEF Kept
  <2>7. \A t \in Threads : \A k, m, f : QSeen(t, k, m, f)' <=> QSeen(t, k, m, f)
    BY <2>1, <2>6 DEF QSeen
  <2>8. \A k, f : QNow(k, f)' = QNow(k, f)
    BY <2>1, <2>4 DEF QNow, QItems, QResults, QResult
  <2>9. QAhead' = QAhead
    BY <2>1, <2>4 DEF QAhead
  <2>10. \A k, m, f : QGood(k, m, f) => QGood(k, m, f)'
    BY <2>2, <2>3, <2>5, <2>7, <2>8, <2>9 DEF QGood
  <2>11. QTypeInv' /\ MonitorInv' /\ Linearizable'
    BY <2>1 DEF QueueInv, QTypeInv, QChosen, MonitorInv, Calm, Linearizable
  <2>12. \A t \in Threads : QInside(t)' /\ QFilled(t)'
    BY <2>1 DEF QueueInv, QInside, QFilled
  <2> QED  BY <2>10, <2>11, <2>12 DEF QueueInv
<1>4. ASSUME NEW t \in Threads, Enqueue(t) \/ Dequeue(t) \/ QInternal(t), UNCHANGED fixed
      PROVE  QueueInv'
  BY <1>1, <1>2, <1>4, EnqueueStep, DequeueStep DEF QInternal
<1> QED  BY <1>3, <1>4 DEF QNext

\* The invariant holds of every behaviour of enqueue() and dequeue().
THEOREM QueueInvariant == QueueSpec => []QueueInv
<1> QED  BY QueueStart, QueueNext, PTL DEF QueueSpec

\* The queues of MichaelScottQueue.hpp and MichaelScottQueueOrcGC.hpp are
\* linearizable: what enqueue() and
\* dequeue() return is explained by some order of the calls, each between
\* its start and its end.
THEOREM QueueIsLinearizable == QueueSpec => []Linearizable
<1>1. QueueInv => Linearizable
  BY DEF QueueInv
<1> QED  BY <1>1, QueueInvariant, PTL

\* dequeue() of MichaelScottQueue.hpp retires a sentinel once.
THEOREM DequeuedOnce == QueueSpec => []RetiredOnce
<1>1. QueueInv => RetiredOnce
  BY DEF QueueInv, QTypeInv, RetiredOnce
<1> QED  BY <1>1, QueueInvariant, PTL

\* When all calls of enqueue() and dequeue() have returned, the queue has
\* the items that they have left there, in their order: no item is lost or
\* doubled.
THEOREM QueueLosesNothing == QueueSpec => []IsLeft(QContents)
<1>1. ASSUME QueueInv, Done  PROVE QContents \in {c.abs : c \in configs}
  <2>1. PICK k \in Nat \ {0}, m \in Nat \ {0} : \E f \in [1 .. m -> Addr] : QGood(k, m, f)
    BY <1>1 DEF QueueInv
  <2>2. PICK f \in [1 .. m -> Addr] : QGood(k, m, f)
    BY <2>1
  <2>3. QTypeInv /\ Queued(k, m, f) /\ Linking(k, m) /\ QNow(k, f) \in Reached[Cardinality(QAhead)]
    BY <1>1, <2>2 DEF QGood, QueueInv
  <2>4. \A t \in Threads : ~Linker(t) /\ t \notin QAhead
    BY <1>1 DEF Done, Linker, QAhead
  <2>5. m = k
    BY <2>3, <2>4 DEF Linking, Queued
  <2>6. QNow(k, f) \in configs
    <3>1. QAhead = {}
      BY <2>4 DEF QAhead
    <3>2. Cardinality(QAhead) = 0
      BY <3>1, FS_EmptySet
    <3> QED  BY <2>3, <3>2, RoundByRound DEF RoundFacts
  <2>7. Chain(root.head) = f
    BY <2>3, ChainIs DEF Queued
  <2>8. Len(f) = k
    <3>1. f \in [1 .. m -> Nat]
      BY MemoryAssumption DEF Addr
    <3> QED  BY <2>5, <3>1, SeqOf
  <2>9. QContents = QItems(k, f)
    BY <2>7, <2>8 DEF QContents, QItems
  <2>10. QNow(k, f).abs = QItems(k, f)
    BY DEF QNow
  <2> QED  BY <2>6, <2>9, <2>10
<1>2. QueueInv => IsLeft(QContents)
  BY <1>1 DEF IsLeft
<1> QED  BY <1>2, QueueInvariant, PTL

\* The node that enqueue() links to, and those whose next or item dequeue()
\* reads, have not been deleted.
QAccessIsSafe == \A t \in Threads : QAccess(t) \subseteq Addr \ Deleted(QLive)

\* enqueue() and dequeue() read and change no node that the reclaimer or
\* OrcGC may have deleted: an hp or an orc_ptr has held it ever since it was
\* in the queue.
THEOREM QueueReadsNoDeleted == QueueSpec => []QAccessIsSafe
<1>1. ASSUME QueueInv  PROVE QAccessIsSafe
  <2>1. PICK k \in Nat \ {0}, m \in Nat \ {0} : \E f \in [1 .. m -> Addr] : QGood(k, m, f)
    BY <1>1 DEF QueueInv
  <2>2. PICK f \in [1 .. m -> Addr] : QGood(k, m, f)
    BY <2>1
  <2>3. QApart(m, f) /\ \A t \in Threads : QSeen(t, k, m, f)
    BY <1>1, <2>2 DEF QGood
  <2>4. ASSUME NEW t \in Threads, NEW i, NEW a, Kept(t, i, a)  PROVE a \in Addr \ Deleted(QLive)
    <3>1. CASE orc
      <4>1. a \in Addr /\ a \in QHeld(t)
        BY <2>4, <3>1 DEF Kept, Holds
      <4> QED  BY <3>1, <4>1, LiveIsClosed DEF Deleted
    <3>2. CASE ~orc
      BY <2>4, <3>2 DEF Kept, Deleted
    <3> QED  BY <3>1, <3>2
  <2>5. ASSUME NEW t \in Threads, pc[t] = "deq_item"  PROVE loc[t].node \in Addr \ Deleted(QLive)
    <3>1. loc[t].node \in Addr /\ mem[loc[t].node] = "used" /\ loc[t].node \in QHeld(t)
      BY <2>3, <2>5 DEF QApart, QMine, QHeld, At
    <3>2. CASE orc
      BY <3>1, <3>2, LiveIsClosed DEF Deleted
    <3>3. CASE ~orc
      BY <3>1, <3>3 DEF Deleted
    <3> QED  BY <3>2, <3>3
  <2>6. ASSUME NEW t \in Threads  PROVE QAccess(t) \subseteq Addr \ Deleted(QLive)
    <3>1. \A a \in QAccess(t) : (\E i : Kept(t, i, a)) \/ (pc[t] = "deq_item" /\ a = loc[t].node)
      BY <2>3 DEF QAccess, QSeen
    <3> QED  BY <2>4, <2>5, <3>1
  <2> QED  BY <2>6 DEF QAccessIsSafe
<1> QED  BY <1>1, QueueInvariant, PTL
=============================================================================
