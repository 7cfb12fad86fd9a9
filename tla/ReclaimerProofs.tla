--------------------------- MODULE ReclaimerProofs ---------------------------
(***************************************************************************)
(* What the proofs about the three reclaimers have in common: what the     *)
(* program and the memory do whatever the reclaimer is.                    *)
(*                                                                         *)
(* ProgramInv is inductive for the steps of the program and for the five   *)
(* kinds of step that a reclaimer takes on the memory.  Each of them is a  *)
(* step of the module Reclaimer, and none of them makes an hp hold a       *)
(* retired object that did not, except from below in the same row (Grows): *)
(* what a scan has passed stays passed.                                    *)
(***************************************************************************)
EXTENDS ReclaimerClient, FiniteSetTheorems, TLAPS

MemType ==
    /\ hp \in [Slot -> Addr \cup {Null}]
    /\ mem \in [Addr -> {"none", "used", "retired"}]
    /\ since \in [Addr -> SUBSET Slot]
Local == [index : Index, addr : Links \cup {CHOOSE x \in Links : TRUE},
          ptr : Addr \cup {Null}]
LocType ==
    /\ link \in [Links -> Addr \cup {Null}]
    /\ valid \in SUBSET Slot
    /\ pc = [t \in Threads |-> pc[t]]
    /\ loc \in [Threads -> Local]
    /\ \A t \in Threads : pc[t] \in {"load", "store"} => loc[t].addr \in Links

\* since speaks of what the hps hold.
SinceInv == \A a \in Addr : \A s \in since[a] : hp[s] = a

\* A link leads to an object of its own, which is not retired, until a
\* thread has unlinked it and is about to retire it.
Unlinked(a) == \A x \in Links : link[x] # a
LinkInv ==
    /\ \A x \in Links : link[x] # Null => mem[link[x]] = "used"
    /\ \A x, y \in Links : link[x] = link[y] /\ link[x] # Null => x = y
    /\ \A t \in Threads : pc[t] = "retire" =>
         loc[t].ptr \in Addr /\ mem[loc[t].ptr] = "used" /\ Unlinked(loc[t].ptr)
    /\ \A t, u \in Threads :
         pc[t] = "retire" /\ pc[u] = "retire" /\ loc[t].ptr = loc[u].ptr => t = u

\* What makes NoUseAfterFree inductive: an object that a thread may access
\* has been in its hp since before it was retired.
Safe(s) ==
    /\ hp[s] \in Addr
    /\ \/ mem[hp[s]] = "used"
       \/ mem[hp[s]] = "retired" /\ s \in since[hp[s]]
ValidInv ==
    /\ \A s \in valid : Safe(s)
    /\ \A t \in Threads : pc[t] = "load" /\ loc[t].ptr # Null =>
         hp[<<t, loc[t].index>>] = loc[t].ptr

ProgramInv == MemType /\ LocType /\ SinceInv /\ LinkInv /\ ValidInv

\* No hp before hp <<it, ihp>> has held a ever since it was retired; s is
\* the value of since.
Passed(s, a, it, ihp) ==
    \A p \in Slot : p[1] < it \/ (p[1] = it /\ p[2] < ihp) => p \notin s[a]

Grows ==
    \A a \in Addr : mem[a] = "retired" => \A p \in since'[a] :
        p \in since[a] \/ \E i \in Index : i < p[2] /\ <<p[1], i>> \in since[a]

\* The steps of the program change the memory of no retired object, and
\* only the place of their thread.
ClientLabels == {"idle", "load", "store", "swap"}
Bystander(t) ==
    /\ Grows
    /\ \A a \in Addr : mem'[a] = "retired" <=> mem[a] = "retired"
    /\ pc[t] \in ClientLabels
    /\ \E l \in ClientLabels \cup {"retire"} : pc' = [pc EXCEPT ![t] = l]
    /\ UNCHANGED <<kept, scan>>

-----------------------------------------------------------------------------

(* Steps on the memory.  What the reclaimer R calls them is the same. *)

LEMMA StoreStep ==
    ASSUME MemType, SinceInv, NEW t \in Threads, NEW i \in Index,
           NEW v \in Addr \cup {Null}, Publish(t, i, v)
    PROVE  /\ MemType' /\ SinceInv' /\ Grows /\ mem' = mem
           /\ hp' = [hp EXCEPT ![<<t, i>>] = v]
           /\ \A a \in Addr, s \in Slot :
                s # <<t, i>> => (s \in since'[a] <=> s \in since[a])
           /\ R!Next
<1>1. <<t, i>> \in Slot
  BY DEF Slot
<1>2. hp' = [hp EXCEPT ![<<t, i>>] = v]
  BY DEF Publish, Protections
<1>3. mem' = mem
  BY DEF Publish, Protections, MemType
<1>4. \A a \in Addr : since'[a] = {s \in Slot : hp'[s] = a /\ s \in since[a]}
  BY <1>2 DEF Publish, Protections
<1>5. MemType'
  <2>1. hp' \in [Slot -> Addr \cup {Null}]
    BY <1>1, <1>2 DEF MemType
  <2>2. since' \in [Addr -> SUBSET Slot]
    BY DEF Publish, Protections
  <2> QED
    BY <2>1, <2>2, <1>3 DEF MemType
<1>6. SinceInv'
  BY <1>4 DEF SinceInv
<1>7. Grows
  BY <1>4 DEF Grows
<1>8. \A a \in Addr, s \in Slot : s # <<t, i>> => (s \in since'[a] <=> s \in since[a])
  BY <1>1, <1>2, <1>4 DEF SinceInv, MemType
<1>9. R!Publish(t, i, v)
  BY DEF Publish, Protections, R!Publish, R!Protections, Slot, R!Slot, Addr, R!Addr,
         Threads, R!Threads, Index, R!Index
<1>10. R!Store
  <2>1. <<t, i>> \in R!Slot /\ v \in R!Addr \cup {R!Null}
    BY <1>1 DEF Slot, R!Slot, Addr, R!Addr, Threads, R!Threads, Index, R!Index, Null, R!Null
  <2> QED
    BY <1>9, <2>1, Zenon DEF R!Store
<1> QED
  BY <1>2, <1>3, <1>5, <1>6, <1>7, <1>8, <1>10 DEF R!Next

LEMMA CopyStep ==
    ASSUME MemType, SinceInv, NEW t \in Threads, NEW i \in Index, NEW j \in Index,
           CopyUp(t, i, j)
    PROVE  /\ MemType' /\ SinceInv' /\ Grows /\ mem' = mem
           /\ hp' = [hp EXCEPT ![<<t, j>>] = hp[<<t, i>>]]
           /\ \A a \in Addr, s \in Slot :
                s # <<t, j>> => (s \in since'[a] <=> s \in since[a])
           /\ \A a \in Addr : <<t, i>> \in since[a] => <<t, j>> \in since'[a]
           /\ R!Next
<1>1. <<t, i>> \in Slot /\ <<t, j>> \in Slot /\ i < j
  BY DEF Slot, CopyUp
<1>2. hp' = [hp EXCEPT ![<<t, j>>] = hp[<<t, i>>]] /\ mem' = mem
  BY DEF CopyUp
<1>3. \A a \in Addr : since'[a] = IF <<t, i>> \in since[a] THEN since[a] \cup {<<t, j>>}
                                                          ELSE since[a] \ {<<t, j>>}
  BY DEF CopyUp
<1>4. MemType'
  <2>1. hp' \in [Slot -> Addr \cup {Null}]
    BY <1>1, <1>2 DEF MemType
  <2>2. \A a \in Addr : since'[a] \in SUBSET Slot
    BY <1>1, <1>3 DEF MemType
  <2>3. since' \in [Addr -> SUBSET Slot]
    BY <2>2 DEF CopyUp
  <2> QED
    BY <2>1, <2>3, <1>2 DEF MemType
<1>5. SinceInv'
  <2> SUFFICES ASSUME NEW a \in Addr, NEW s \in since'[a]
               PROVE  hp'[s] = a
    BY DEF SinceInv
  <2>1. CASE s = <<t, j>>
    <3>1. <<t, i>> \in since[a]
      BY <1>3, <2>1
    <3> QED
      BY <1>1, <1>2, <2>1, <3>1 DEF SinceInv, MemType
  <2>2. CASE s # <<t, j>>
    BY <1>1, <1>2, <1>3, <2>2 DEF SinceInv, MemType
  <2> QED
    BY <2>1, <2>2
<1>6. Grows
  <2> SUFFICES ASSUME NEW a \in Addr, NEW p \in since'[a], p \notin since[a]
               PROVE  \E k \in Index : k < p[2] /\ <<p[1], k>> \in since[a]
    BY DEF Grows
  <2>1. p = <<t, j>> /\ <<t, i>> \in since[a]
    BY <1>3
  <2> QED
    BY <1>1, <2>1
<1>7. \A a \in Addr, s \in Slot : s # <<t, j>> => (s \in since'[a] <=> s \in since[a])
  BY <1>3
<1>8. R!CopyUp(t, i, j)
  BY DEF CopyUp, R!CopyUp, Addr, R!Addr
<1>9. R!Copy
  BY <1>8 DEF R!Copy, Threads, R!Threads, Index, R!Index
<1> QED
  BY <1>1, <1>2, <1>3, <1>4, <1>5, <1>6, <1>7, <1>9 DEF R!Next

LEMMA AllocateStep ==
    ASSUME MemType, SinceInv, NEW a \in Addr, mem[a] = "none", Allocate({a})
    PROVE  /\ MemType' /\ SinceInv' /\ Grows /\ hp' = hp
           /\ mem' = [mem EXCEPT ![a] = "used"]
           /\ \A b \in Addr : b # a => since'[b] = since[b]
           /\ R!Next
<1>1. hp' = hp
  BY DEF Allocate
<1>2. mem' = [mem EXCEPT ![a] = "used"]
  BY DEF Allocate, MemType
<1>3. since' = [since EXCEPT ![a] = {}]
  BY DEF Allocate, MemType
<1>4. R!Allocate({a})
  BY DEF Allocate, R!Allocate, Addr, R!Addr
<1>5. R!New
  BY <1>4 DEF R!New, Addr, R!Addr
<1>6. MemType'
  BY <1>1, <1>2, <1>3 DEF MemType
<1>7. SinceInv'
  BY <1>1, <1>3 DEF SinceInv, MemType
<1>8. Grows
  BY <1>3 DEF Grows, MemType
<1> QED
  BY <1>1, <1>2, <1>3, <1>5, <1>6, <1>7, <1>8 DEF R!Next, MemType

LEMMA RetireStep ==
    ASSUME MemType, SinceInv, NEW a \in Addr, mem[a] = "used", Protections(hp, {a})
    PROVE  /\ MemType' /\ SinceInv' /\ Grows /\ hp' = hp
           /\ mem' = [mem EXCEPT ![a] = "retired"]
           /\ \A b \in Addr : b # a => since'[b] = since[b]
           /\ \A s \in Slot : hp[s] = a => s \in since'[a]
           /\ R!Next
<1>1. hp' = hp
  BY DEF Protections
<1>2. mem' = [mem EXCEPT ![a] = "retired"]
  BY DEF Protections, MemType
<1>3. \A b \in Addr : since'[b] = {s \in Slot : hp[s] = b /\ (b = a \/ s \in since[b])}
  BY DEF Protections
<1>4. \A b \in Addr : b # a => since'[b] = since[b]
  BY <1>3 DEF SinceInv, MemType
<1>5. R!Retire
  <2>1. R!Protections(hp, {a})
    BY DEF Protections, R!Protections, Slot, R!Slot, Addr, R!Addr, Threads, R!Threads,
           Index, R!Index
  <2> QED
    BY <2>1 DEF R!Retire, Addr, R!Addr
<1>6. MemType'
  <2>1. since' \in [Addr -> SUBSET Slot]
    BY DEF Protections
  <2> QED
    BY <1>1, <1>2, <2>1 DEF MemType
<1>7. SinceInv'
  BY <1>1, <1>3 DEF SinceInv
<1>8. Grows
  BY <1>4 DEF Grows
<1> QED
  BY <1>1, <1>2, <1>3, <1>4, <1>5, <1>6, <1>7, <1>8 DEF R!Next

LEMMA DeleteStep ==
    ASSUME MemType, SinceInv, NEW a \in Addr, mem[a] = "retired", since[a] = {}, Delete({a})
    PROVE  /\ MemType' /\ SinceInv' /\ Grows /\ hp' = hp /\ since' = since
           /\ mem' = [mem EXCEPT ![a] = "none"]
           /\ R!Next
<1>1. hp' = hp /\ since' = since
  BY DEF Delete
<1>2. mem' = [mem EXCEPT ![a] = "none"]
  BY DEF Delete, MemType
<1>3. R!Delete({a})
  BY DEF Delete, R!Delete, Addr, R!Addr
<1>4. R!Reclaim
  BY <1>3 DEF R!Reclaim, Addr, R!Addr
<1>5. MemType' /\ SinceInv' /\ Grows
  BY <1>1, <1>2 DEF MemType, SinceInv, Grows
<1> QED
  BY <1>1, <1>2, <1>4, <1>5 DEF R!Next

\* What a scan has passed stays passed.
LEMMA PassedStays ==
    ASSUME MemType, Grows, MemType', NEW a \in Addr, mem[a] = "retired",
           NEW it \in Nat, NEW ihp \in Nat, Passed(since, a, it, ihp)
    PROVE  Passed(since', a, it, ihp)
<1> SUFFICES ASSUME NEW p \in Slot, p[1] < it \/ (p[1] = it /\ p[2] < ihp), p \in since'[a]
             PROVE  FALSE
  BY DEF Passed
<1>1. p[1] \in Int /\ p[2] \in Int
  BY DEF Slot, Threads, Index
<1>2. p \notin since[a]
  BY DEF Passed
<1>3. PICK i \in Index : i < p[2] /\ <<p[1], i>> \in since[a]
  BY <1>2 DEF Grows
<1>4. <<p[1], i>> \in Slot /\ i \in Int
  BY <1>3 DEF Slot, Index
<1> QED
  BY <1>1, <1>3, <1>4 DEF Passed

\* An object that an hp has not held all the time has been passed there too.
LEMMA HpPassed ==
    ASSUME NEW a \in Addr, NEW it \in 0 .. N-1, NEW ihp \in Index,
           Passed(since, a, it, ihp), <<it, ihp>> \notin since[a]
    PROVE  Passed(since, a, it, ihp + 1)
<1>1. it \in Nat /\ ihp \in Nat
  BY MemoryAssumption DEF Index
<1>2. \A p \in Slot : p[1] \in Nat /\ p[2] \in Nat /\ p = <<p[1], p[2]>>
  BY MemoryAssumption DEF Slot, Threads, Index
<1> SUFFICES ASSUME NEW p \in Slot, p[1] < it \/ (p[1] = it /\ p[2] < ihp + 1)
             PROVE  p \notin since[a]
  BY DEF Passed
<1>3. CASE p[1] = it /\ p[2] = ihp
  BY <1>2, <1>3
<1>4. CASE p[1] < it \/ (p[1] = it /\ p[2] < ihp)
  BY <1>4 DEF Passed
<1> QED
  BY <1>1, <1>2, <1>3, <1>4

\* The place after <<it, ihp>>: what has been passed when it is reached.
LEMMA NextPassed ==
    ASSUME MemType, NEW a \in Addr, NEW it \in 0 .. N-1, NEW ihp \in Index,
           Passed(since, a, it, ihp + 1)
    PROVE  LET next == Following(it, ihp) IN
           /\ Passed(since, a, next[1], next[2])
           /\ next[1] = N => since[a] = {}
<1>1. it \in Nat /\ ihp \in Nat /\ N \in Nat /\ HPs \in Nat /\ it < N /\ ihp < HPs
  BY MemoryAssumption DEF Index
<1>2. \A p \in Slot : p[1] \in Nat /\ p[1] < N /\ p[2] \in Nat /\ p[2] < HPs
  BY <1>1 DEF Slot, Threads, Index
<1>3. CASE ihp + 1 < HPs
  BY <1>1, <1>3 DEF Following
<1>4. CASE ~(ihp + 1 < HPs)
  <2>1. Following(it, ihp) = <<it + 1, 0>>
    BY <1>4 DEF Following
  <2>2. Passed(since, a, it + 1, 0)
    <3> SUFFICES ASSUME NEW p \in Slot, p[1] < it + 1 \/ (p[1] = it + 1 /\ p[2] < 0)
                 PROVE  p \notin since[a]
      BY DEF Passed
    <3>1. p[1] < it \/ (p[1] = it /\ p[2] < ihp + 1)
      BY <1>1, <1>2, <1>4
    <3> QED
      BY <3>1 DEF Passed
  <2>3. it + 1 = N => since[a] = {}
    BY <1>1, <1>2, <2>2 DEF Passed, MemType
  <2> QED
    BY <2>1, <2>2, <2>3
<1> QED
  BY <1>3, <1>4

LEMMA FollowingPlace ==
    ASSUME NEW it \in 0 .. N-1, NEW ihp \in Index
    PROVE  LET next == Following(it, ihp) IN
           next[1] \in Nat /\ next[2] \in Index /\ next[1] <= N
BY MemoryAssumption DEF Index, Following

LEMMA FollowingPassed ==
    ASSUME MemType, SinceInv, NEW a \in Addr, NEW it \in 0 .. N-1, NEW ihp \in Index,
           Passed(since, a, it, ihp), hp[<<it, ihp>>] # a
    PROVE  LET next == Following(it, ihp) IN
           /\ next[1] \in Nat /\ next[2] \in Index /\ next[1] <= N
           /\ Passed(since, a, next[1], next[2])
           /\ next[1] = N => since[a] = {}
<1>1. <<it, ihp>> \notin since[a]
  BY DEF SinceInv
<1> QED
  BY <1>1, HpPassed, NextPassed, FollowingPlace

-----------------------------------------------------------------------------

(* Steps of the program. *)

\* A thread that is elsewhere in its program changes nothing for LinkInv and
\* ValidInv, as long as mem, link and what valid hps hold stay the same.
LEMMA LinkStays ==
    ASSUME ProgramInv, NEW t \in Threads, UNCHANGED <<mem, link>>,
           \A u \in Threads : pc'[u] = "retire" => pc[u] = "retire" /\ loc'[u].ptr = loc[u].ptr
    PROVE  LinkInv'
BY DEF ProgramInv, LinkInv, Unlinked

LEMMA SetPc ==
    ASSUME LocType, NEW t \in Threads, NEW l, pc' = [pc EXCEPT ![t] = l]
    PROVE  pc'[t] = l /\ \A u \in Threads : u # t => pc'[u] = pc[u]
BY DEF LocType

LEMMA LocalTypes ==
    /\ NoLocals \in Local
    /\ \A i \in Index, x \in Links : Locals(i, x, Null) \in Local
    /\ \A l \in Local :
         /\ l.index \in Index /\ l.ptr \in Addr \cup {Null}
         /\ \A p \in Addr \cup {Null} :
              [l EXCEPT !.ptr = p] \in Local /\ [l EXCEPT !.ptr = p].ptr = p
         /\ \A i \in Index, p \in Addr \cup {Null} :
              [l EXCEPT !.index = i, !.ptr = p] \in Local
    /\ \A i \in Index, x \in Links :
         Locals(i, x, Null).addr = x /\ Locals(i, x, Null).ptr = Null
<1>1. 0 \in Index
  BY MemoryAssumption DEF Index
<1> QED
  BY <1>1 DEF Local, NoLocals, Locals

LEMMA InitProgram ==
    ASSUME InitClient
    PROVE  ProgramInv /\ R!InitMemory
<1>2. MemType /\ SinceInv /\ R!InitMemory
  BY DEF InitClient, InitMemory, R!InitMemory, MemType, SinceInv, Slot, R!Slot, Threads,
         R!Threads, Index, R!Index, Addr, R!Addr, Null, R!Null
<1>4. LocType
  BY LocalTypes DEF InitClient, LocType
<1>5. LinkInv /\ ValidInv
  BY DEF InitClient, LinkInv, ValidInv
<1> QED
  BY <1>2, <1>4, <1>5 DEF ProgramInv

LEMMA ProtectInv ==
    ASSUME ProgramInv, NEW t \in Threads, Protect(t)
    PROVE  ProgramInv' /\ Bystander(t) /\ UNCHANGED mm
<1> USE DEF ProgramInv
<1>1. UNCHANGED mm /\ UNCHANGED <<link, valid, kept, scan>>
  BY DEF Protect, reclaimer
<1>2. PICK i \in Index, x \in Links : loc' = [loc EXCEPT ![t] = Locals(i, x, Null)]
  BY DEF Protect
<1>3. pc[t] = "idle" /\ pc' = [pc EXCEPT ![t] = "load"]
  BY DEF Protect, At, Goto
<1>4. MemType' /\ SinceInv' /\ Grows
  BY <1>1 DEF MemType, SinceInv, Grows, mm
<1>5. LocType'
  <2>1. loc' \in [Threads -> Local] /\ loc'[t].addr \in Links
    BY <1>2, LocalTypes DEF LocType
  <2>2. \A u \in Threads : u # t => pc'[u] = pc[u] /\ loc'[u] = loc[u]
    BY <1>2, <1>3 DEF LocType
  <2> QED
    BY <1>1, <1>3, <2>1, <2>2 DEF LocType
<1>6. \A u \in Threads : u # t => pc'[u] = pc[u] /\ loc'[u] = loc[u]
  BY <1>2, <1>3 DEF LocType
<1>7. pc'[t] = "load" /\ loc'[t].ptr = Null
  BY <1>2, <1>3, LocalTypes DEF LocType
<1>8. LinkInv'
  BY <1>1, <1>6, <1>7, LinkStays DEF mm
<1>9. ValidInv'
  BY <1>1, <1>6, <1>7 DEF ValidInv, Safe, mm
<1>10. Bystander(t)
  BY <1>1, <1>3, <1>4 DEF Bystander, ClientLabels, mm
<1> QED
  BY <1>1, <1>4, <1>5, <1>8, <1>9, <1>10

LEMMA ProtectLoadInv ==
    ASSUME ProgramInv, NEW t \in Threads, ProtectLoad(t)
    PROVE  ProgramInv' /\ Bystander(t) /\ UNCHANGED mm
<1> USE DEF ProgramInv
<1> DEFINE l == loc[t]
           v == link[l.addr]
           s == <<t, l.index>>
<1>1. UNCHANGED mm /\ UNCHANGED <<link, kept, scan>> /\ pc[t] = "load"
  BY DEF ProtectLoad, reclaimer, At
<1>2. v \in Addr \cup {Null} /\ l.ptr \in Addr \cup {Null} /\ l.index \in Index /\ s \in Slot
  BY <1>1, LocalTypes DEF LocType, Slot
<1>3. MemType' /\ SinceInv' /\ Grows
  BY <1>1 DEF MemType, SinceInv, Grows, mm
<1>5. CASE v = l.ptr
  <2>1. pc' = [pc EXCEPT ![t] = "idle"] /\ loc' = [loc EXCEPT ![t] = NoLocals]
        /\ valid' = IF v # Null THEN valid \cup {s} ELSE valid
    BY <1>5 DEF ProtectLoad, Goto
  <2>3. \A u \in Threads : u # t => pc'[u] = pc[u] /\ loc'[u] = loc[u]
    BY <2>1 DEF LocType
  <2>4. pc'[t] = "idle"
    BY <2>1 DEF LocType
  <2>2. LocType'
    <3>1. loc' \in [Threads -> Local] /\ valid' \in SUBSET Slot
      BY <1>2, <2>1, LocalTypes DEF LocType
    <3> QED
      BY <1>1, <2>1, <2>3, <2>4, <3>1 DEF LocType
  <2>5. LinkInv'
    BY <1>1, <2>3, <2>4, LinkStays DEF mm
  <2>6. v # Null => Safe(s)
    <3> SUFFICES ASSUME v # Null PROVE Safe(s)
      OBVIOUS
    <3>1. hp[s] = v
      BY <1>1, <1>5 DEF ValidInv
    <3>2. mem[v] = "used"
      BY <1>1 DEF LinkInv, LocType
    <3> QED
      BY <1>2, <3>1, <3>2 DEF Safe
  <2>7. \A p \in valid' : Safe(p)
    BY <2>1, <2>6 DEF ValidInv
  <2>8. ValidInv'
    BY <1>1, <2>3, <2>4, <2>7 DEF ValidInv, Safe, mm
  <2>9. Bystander(t)
    BY <1>1, <1>3, <2>1 DEF Bystander, ClientLabels, mm
  <2> QED
    BY <1>1, <1>3, <2>2, <2>5, <2>8, <2>9
<1>6. CASE v # l.ptr
  <2>1. pc' = [pc EXCEPT ![t] = "store"] /\ loc' = [loc EXCEPT ![t] = [l EXCEPT !.ptr = v]]
        /\ valid' = valid
    BY <1>6 DEF ProtectLoad, Goto
  <2>3. \A u \in Threads : u # t => pc'[u] = pc[u] /\ loc'[u] = loc[u]
    BY <2>1 DEF LocType
  <2>4. pc'[t] = "store"
    BY <2>1 DEF LocType
  <2>2. LocType'
    <3>1. loc' \in [Threads -> Local]
      BY <1>2, <2>1, LocalTypes DEF LocType
    <3>2. loc'[t].addr = loc[t].addr
      BY <2>1 DEF LocType, Local
    <3> QED
      BY <1>1, <2>1, <2>3, <2>4, <3>1, <3>2 DEF LocType
  <2>5. LinkInv'
    BY <1>1, <2>3, <2>4, LinkStays DEF mm
  <2>6. ValidInv'
    BY <1>1, <2>1, <2>3, <2>4 DEF ValidInv, Safe, mm
  <2>7. Bystander(t)
    BY <1>1, <1>3, <2>1 DEF Bystander, ClientLabels, mm
  <2> QED
    BY <1>1, <1>3, <2>2, <2>5, <2>6, <2>7
<1> QED
  BY <1>5, <1>6

LEMMA StoreKeepsSafe ==
    ASSUME ProgramInv, NEW t \in Threads, NEW i \in Index,
           NEW v \in Addr \cup {Null}, Publish(t, i, v),
           NEW s \in valid, s # <<t, i>>
    PROVE  Safe(s)'
<1>1. /\ mem' = mem /\ hp' = [hp EXCEPT ![<<t, i>>] = v]
      /\ \A a \in Addr, p \in Slot : p # <<t, i>> => (p \in since'[a] <=> p \in since[a])
  BY StoreStep DEF ProgramInv
<1>2. s \in Slot /\ Safe(s)
  BY DEF ProgramInv, LocType, ValidInv
<1>3. hp'[s] = hp[s]
  BY <1>1, <1>2 DEF ProgramInv, MemType
<1> QED
  BY <1>1, <1>2, <1>3 DEF Safe

LEMMA StoreKeepsLoad ==
    ASSUME ProgramInv, NEW t \in Threads, NEW i \in Index,
           NEW v \in Addr \cup {Null}, Publish(t, i, v),
           NEW u \in Threads, u # t, pc[u] = "load", loc[u].ptr # Null
    PROVE  hp'[<<u, loc[u].index>>] = loc[u].ptr
<1>1. hp' = [hp EXCEPT ![<<t, i>>] = v]
  BY StoreStep DEF ProgramInv
<1>2. <<u, loc[u].index>> \in Slot
  BY LocalTypes DEF ProgramInv, LocType, Slot
<1>3. hp[<<u, loc[u].index>>] = loc[u].ptr
  BY DEF ProgramInv, ValidInv
<1> QED
  BY <1>1, <1>2, <1>3 DEF ProgramInv, MemType

LEMMA ProtectStoreInv ==
    ASSUME ProgramInv, NEW t \in Threads, ProtectStore(t)
    PROVE  ProgramInv' /\ Bystander(t) /\ R!Next
<1> DEFINE i == loc[t].index
           v == loc[t].ptr
<1>1. UNCHANGED <<link, loc, kept, scan>> /\ pc[t] = "store"
      /\ pc' = [pc EXCEPT ![t] = "load"] /\ valid' = valid \ {<<t, i>>} /\ Publish(t, i, v)
  BY DEF ProtectStore, reclaimer, At, Goto
<1>2. i \in Index /\ v \in Addr \cup {Null}
  BY LocalTypes DEF ProgramInv, LocType
<1> HIDE DEF i, v
<1>3. MemType' /\ SinceInv' /\ Grows /\ mem' = mem /\ R!Next
      /\ hp' = [hp EXCEPT ![<<t, i>>] = v]
  BY <1>1, <1>2, StoreStep DEF ProgramInv
<1>4. pc'[t] = "load" /\ \A u \in Threads : u # t => pc'[u] = pc[u]
  BY <1>1, SetPc DEF ProgramInv
<1>5. LocType'
  BY <1>1, <1>4 DEF ProgramInv, LocType
<1>6. LinkInv'
  BY <1>1, <1>3, <1>4, LinkStays
<1>7. ValidInv'
  <2>1. ASSUME NEW s \in valid'
        PROVE  Safe(s)'
    BY <1>1, <1>2, StoreKeepsSafe
  <2>2. ASSUME NEW u \in Threads, pc'[u] = "load", loc'[u].ptr # Null
        PROVE  hp'[<<u, loc'[u].index>>] = loc'[u].ptr
    <3>1. CASE u = t
      <4>1. <<t, i>> \in Slot
        BY <1>2 DEF Slot
      <4> QED
        BY <1>1, <1>3, <3>1, <4>1 DEF i, v, ProgramInv, MemType
    <3>2. CASE u # t
      BY <1>1, <1>2, <1>4, <2>2, <3>2, StoreKeepsLoad
    <3> QED
      BY <3>1, <3>2
  <2> QED
    BY <2>1, <2>2 DEF ValidInv
<1>8. Bystander(t)
  BY <1>1, <1>3 DEF Bystander, ClientLabels
<1> QED
  BY <1>3, <1>5, <1>6, <1>7, <1>8 DEF ProgramInv

\* Copying up keeps what is safe, and makes the copy so.
LEMMA CopyKeepsSafe ==
    ASSUME ProgramInv, NEW t \in Threads, NEW i \in Index, NEW j \in Index, CopyUp(t, i, j)
    PROVE  /\ \A s \in valid \ {<<t, j>>} : Safe(s)'
           /\ <<t, i>> \in valid => Safe(<<t, j>>)'
           /\ \A u \in Threads : u # t /\ pc[u] = "load" /\ loc[u].ptr # Null =>
                hp'[<<u, loc[u].index>>] = loc[u].ptr
<1>1. /\ mem' = mem /\ hp' = [hp EXCEPT ![<<t, j>>] = hp[<<t, i>>]]
      /\ \A a \in Addr, p \in Slot : p # <<t, j>> => (p \in since'[a] <=> p \in since[a])
      /\ \A a \in Addr : <<t, i>> \in since[a] => <<t, j>> \in since'[a]
  BY CopyStep DEF ProgramInv
<1>2. <<t, i>> \in Slot /\ <<t, j>> \in Slot
  BY DEF Slot
<1>3. ASSUME NEW s \in valid \ {<<t, j>>}
      PROVE  Safe(s)'
  <2>1. s \in Slot /\ Safe(s)
    BY DEF ProgramInv, LocType, ValidInv
  <2>2. hp'[s] = hp[s]
    BY <1>1, <1>2, <2>1 DEF ProgramInv, MemType
  <2> QED
    BY <1>1, <2>1, <2>2 DEF Safe
<1>4. ASSUME <<t, i>> \in valid
      PROVE  Safe(<<t, j>>)'
  <2>1. Safe(<<t, i>>)
    BY <1>4 DEF ProgramInv, ValidInv
  <2>2. hp'[<<t, j>>] = hp[<<t, i>>]
    BY <1>1, <1>2 DEF ProgramInv, MemType
  <2> QED
    BY <1>1, <2>1, <2>2 DEF Safe
<1>5. ASSUME NEW u \in Threads, u # t, pc[u] = "load", loc[u].ptr # Null
      PROVE  hp'[<<u, loc[u].index>>] = loc[u].ptr
  <2>1. <<u, loc[u].index>> \in Slot
    BY LocalTypes DEF ProgramInv, LocType, Slot
  <2>2. hp[<<u, loc[u].index>>] = loc[u].ptr
    BY <1>5 DEF ProgramInv, ValidInv
  <2> QED
    BY <1>1, <1>2, <1>5, <2>1, <2>2 DEF ProgramInv, MemType
<1> QED
  BY <1>3, <1>4, <1>5

LEMMA ProtectPtrInv ==
    ASSUME ProgramInv, NEW t \in Threads, ProtectPtr(t)
    PROVE  ProgramInv' /\ Bystander(t) /\ R!Next
<1>1. PICK i \in Index, j \in Index :
        <<t, i>> \in valid /\ CopyUp(t, i, j) /\ valid' = valid \cup {<<t, j>>}
  BY DEF ProtectPtr
<1>2. UNCHANGED <<link, loc, pc, kept, scan>> /\ pc[t] = "idle"
  BY DEF ProtectPtr, reclaimer, At
<1>3. MemType' /\ SinceInv' /\ Grows /\ mem' = mem /\ R!Next
      /\ hp' = [hp EXCEPT ![<<t, j>>] = hp[<<t, i>>]]
  BY <1>1, CopyStep DEF ProgramInv
<1>4. LocType'
  <2>1. <<t, j>> \in Slot
    BY DEF Slot
  <2> QED
    BY <1>1, <1>2, <2>1 DEF ProgramInv, LocType
<1>5. LinkInv'
  BY <1>2, <1>3, LinkStays
<1>6. ValidInv'
  <2>1. ASSUME NEW s \in valid'
        PROVE  Safe(s)'
    <3>1. CASE s = <<t, j>>
      BY <1>1, <3>1, CopyKeepsSafe
    <3>2. CASE s # <<t, j>>
      BY <1>1, <3>2, CopyKeepsSafe
    <3> QED
      BY <3>1, <3>2
  <2>2. ASSUME NEW u \in Threads, pc'[u] = "load", loc'[u].ptr # Null
        PROVE  hp'[<<u, loc'[u].index>>] = loc'[u].ptr
    <3>1. u # t
      BY <1>2, <2>2
    <3> QED
      BY <1>1, <1>2, <2>2, <3>1, CopyKeepsSafe
  <2> QED
    BY <2>1, <2>2 DEF ValidInv
<1>7. Bystander(t)
  <2>1. pc' = [pc EXCEPT ![t] = "idle"]
    BY <1>2 DEF ProgramInv, LocType
  <2> QED
    BY <1>2, <1>3, <2>1 DEF Bystander, ClientLabels
<1> QED
  BY <1>3, <1>4, <1>5, <1>6, <1>7 DEF ProgramInv

LEMMA SwapPtrsInv ==
    ASSUME ProgramInv, NEW t \in Threads, SwapPtrs(t)
    PROVE  ProgramInv' /\ Bystander(t) /\ R!Next
<1>1. UNCHANGED <<link, kept, scan>> /\ pc[t] = "idle" /\ pc' = [pc EXCEPT ![t] = "swap"]
  BY DEF SwapPtrs, reclaimer, At, Goto
<1>2. PICK to \in Index, from \in Index :
        /\ to # from
        /\ loc' = [loc EXCEPT ![t] = [@ EXCEPT !.index = to, !.ptr = hp[<<t, from>>]]]
        /\ IF to < from THEN CopyUp(t, to, from) ELSE Publish(t, from, hp[<<t, to>>])
        /\ valid' = IF to < from /\ <<t, to>> \in valid
                    THEN valid \cup {<<t, from>>} ELSE valid \ {<<t, from>>}
  BY DEF SwapPtrs
<1>3. <<t, to>> \in Slot /\ <<t, from>> \in Slot
  BY DEF Slot
<1>4. hp[<<t, to>>] \in Addr \cup {Null} /\ hp[<<t, from>>] \in Addr \cup {Null}
  BY <1>3 DEF ProgramInv, MemType
<1>5. MemType' /\ SinceInv' /\ Grows /\ mem' = mem /\ R!Next
  <2>1. CASE to < from
    BY <1>2, <2>1, CopyStep DEF ProgramInv
  <2>2. CASE ~(to < from)
    BY <1>2, <1>4, <2>2, StoreStep DEF ProgramInv
  <2> QED
    BY <2>1, <2>2
<1>6. pc'[t] = "swap" /\ \A u \in Threads : u # t => pc'[u] = pc[u] /\ loc'[u] = loc[u]
  BY <1>1, <1>2, SetPc DEF ProgramInv, LocType
<1>7. LocType'
  <2>1. loc' \in [Threads -> Local]
    BY <1>2, <1>4, LocalTypes DEF ProgramInv, LocType
  <2>2. valid' \in SUBSET Slot
    BY <1>2, <1>3 DEF ProgramInv, LocType
  <2> QED
    BY <1>1, <1>6, <2>1, <2>2 DEF ProgramInv, LocType
<1>8. LinkInv'
  BY <1>1, <1>5, <1>6, LinkStays
<1>9. ValidInv'
  <2>1. ASSUME NEW s \in valid'
        PROVE  Safe(s)'
    <3>1. CASE to < from
      <4>1. CopyUp(t, to, from)
        BY <1>2, <3>1
      <4>2. CASE s = <<t, from>>
        BY <1>2, <4>1, <4>2, CopyKeepsSafe
      <4>3. CASE s # <<t, from>>
        BY <1>2, <4>1, <4>3, CopyKeepsSafe
      <4> QED
        BY <4>2, <4>3
    <3>2. CASE ~(to < from)
      BY <1>2, <1>4, <3>2, StoreKeepsSafe
    <3> QED
      BY <3>1, <3>2
  <2>2. ASSUME NEW u \in Threads, pc'[u] = "load", loc'[u].ptr # Null
        PROVE  hp'[<<u, loc'[u].index>>] = loc'[u].ptr
    <3>1. u # t /\ pc[u] = "load" /\ loc'[u] = loc[u]
      BY <1>6, <2>2
    <3>2. CASE to < from
      BY <1>2, <2>2, <3>1, <3>2, CopyKeepsSafe
    <3>3. CASE ~(to < from)
      BY <1>2, <1>4, <2>2, <3>1, <3>3, StoreKeepsLoad
    <3> QED
      BY <3>2, <3>3
  <2> QED
    BY <2>1, <2>2 DEF ValidInv
<1>10. Bystander(t)
  BY <1>1, <1>5 DEF Bystander, ClientLabels
<1> QED
  BY <1>5, <1>7, <1>8, <1>9, <1>10 DEF ProgramInv

LEMMA SwapBackInv ==
    ASSUME ProgramInv, NEW t \in Threads, SwapBack(t)
    PROVE  ProgramInv' /\ Bystander(t) /\ R!Next
<1> DEFINE i == loc[t].index
           v == loc[t].ptr
<1>1. UNCHANGED <<link, kept, scan>> /\ pc[t] = "swap" /\ pc' = [pc EXCEPT ![t] = "idle"]
      /\ valid' = valid \ {<<t, i>>} /\ Publish(t, i, v) /\ loc' = [loc EXCEPT ![t] = NoLocals]
  BY DEF SwapBack, reclaimer, At, Goto
<1>2. i \in Index /\ v \in Addr \cup {Null}
  BY LocalTypes DEF ProgramInv, LocType
<1> HIDE DEF i, v
<1>3. MemType' /\ SinceInv' /\ Grows /\ mem' = mem /\ R!Next
  BY <1>1, <1>2, StoreStep DEF ProgramInv
<1>4. pc'[t] = "idle" /\ \A u \in Threads : u # t => pc'[u] = pc[u] /\ loc'[u] = loc[u]
  BY <1>1, SetPc DEF ProgramInv, LocType
<1>5. LocType'
  BY <1>1, <1>4, LocalTypes DEF ProgramInv, LocType
<1>6. LinkInv'
  BY <1>1, <1>3, <1>4, LinkStays
<1>7. ValidInv'
  <2>1. ASSUME NEW s \in valid'
        PROVE  Safe(s)'
    BY <1>1, <1>2, StoreKeepsSafe
  <2>2. ASSUME NEW u \in Threads, pc'[u] = "load", loc'[u].ptr # Null
        PROVE  hp'[<<u, loc'[u].index>>] = loc'[u].ptr
    BY <1>1, <1>2, <1>4, <2>2, StoreKeepsLoad
  <2> QED
    BY <2>1, <2>2 DEF ValidInv
<1>8. Bystander(t)
  BY <1>1, <1>3 DEF Bystander, ClientLabels
<1> QED
  BY <1>3, <1>5, <1>6, <1>7, <1>8 DEF ProgramInv

\* Of ValidInv, what steps that store no hp keep.
LEMMA SafeStays ==
    ASSUME ProgramInv, UNCHANGED <<hp, valid>>,
           \A u \in Threads : pc'[u] = "load" => pc[u] = "load" /\ loc'[u] = loc[u],
           \A s \in valid : Safe(s) => Safe(s)'
    PROVE  ValidInv'
<1>1. \A s \in valid' : Safe(s)'
  BY DEF ProgramInv, ValidInv
<1>2. ASSUME NEW u \in Threads, pc'[u] = "load", loc'[u].ptr # Null
      PROVE  hp'[<<u, loc'[u].index>>] = loc'[u].ptr
  BY <1>2 DEF ProgramInv, ValidInv
<1> QED
  BY <1>1, <1>2 DEF ValidInv

LEMMA ExchangeInv ==
    ASSUME ProgramInv, NEW t \in Threads, Exchange(t)
    PROVE  ProgramInv' /\ Bystander(t) /\ (R!Next \/ UNCHANGED mm)
<1>1. UNCHANGED <<valid, kept, scan>> /\ pc[t] = "idle"
  BY DEF Exchange, reclaimer, At
<1>2. PICK x \in Links, a \in {b \in Addr : mem[b] = "none"} \cup {Null} :
        /\ link' = [link EXCEPT ![x] = a]
        /\ Allocate({a} \ {Null})
        /\ IF link[x] = Null THEN UNCHANGED <<pc, loc>>
           ELSE Goto(t, "retire") /\ loc' = [loc EXCEPT ![t] = [@ EXCEPT !.ptr = link[x]]]
  BY DEF Exchange
<1>3. /\ MemType' /\ SinceInv' /\ Grows /\ hp' = hp /\ (R!Next \/ UNCHANGED mm)
      /\ \A b \in Addr : b # a => mem'[b] = mem[b] /\ since'[b] = since[b]
      /\ a # Null => mem'[a] = "used" /\ mem[a] = "none"
  <2>1. CASE a = Null
    <3>1. Allocate({})
      BY <1>2, <2>1
    <3>2. UNCHANGED mm
      BY <3>1 DEF Allocate, mm, ProgramInv, MemType
    <3> QED
      BY <2>1, <3>2 DEF mm, ProgramInv, MemType, SinceInv, Grows
  <2>2. CASE a # Null
    <3>1. a \in Addr /\ mem[a] = "none" /\ Allocate({a})
      BY <1>2, <2>2
    <3> QED
      BY <2>2, <3>1, AllocateStep DEF ProgramInv, MemType
  <2> QED
    BY <2>1, <2>2
<1>4. link[x] \in Addr \cup {Null}
  BY DEF ProgramInv, LocType
<1>5. \A u \in Threads : u # t => pc'[u] = pc[u] /\ loc'[u] = loc[u]
  BY <1>2 DEF Goto, ProgramInv, LocType
<1>6. \/ link[x] = Null /\ pc'[t] = "idle" /\ pc' = [pc EXCEPT ![t] = "idle"] /\ loc' = loc
      \/ link[x] # Null /\ pc'[t] = "retire" /\ pc' = [pc EXCEPT ![t] = "retire"]
         /\ loc'[t].ptr = link[x]
  <2>1. CASE link[x] = Null
    BY <1>1, <1>2, <2>1 DEF ProgramInv, LocType
  <2>2. CASE link[x] # Null
    <3>1. loc[t] \in Local /\ loc' = [loc EXCEPT ![t] = [loc[t] EXCEPT !.ptr = link[x]]]
      BY <1>2, <2>2 DEF ProgramInv, LocType
    <3>2. loc'[t] = [loc[t] EXCEPT !.ptr = link[x]]
      BY <3>1 DEF ProgramInv, LocType
    <3>3. [loc[t] EXCEPT !.ptr = link[x]].ptr = link[x]
      BY <1>4, <3>1, LocalTypes
    <3>4. pc' = [pc EXCEPT ![t] = "retire"]
      BY <1>2, <2>2 DEF Goto
    <3> QED
      BY <2>2, <3>2, <3>3, <3>4 DEF ProgramInv, LocType
  <2> QED
    BY <2>1, <2>2
<1>7. LocType'
  <2>1. loc' \in [Threads -> Local]
    <3>1. loc[t] \in Local
      BY DEF ProgramInv, LocType
    <3>2. [loc[t] EXCEPT !.ptr = link[x]] \in Local
      BY <1>4, <3>1, LocalTypes
    <3> QED
      BY <1>2, <3>2 DEF ProgramInv, LocType
  <2>2. link' \in [Links -> Addr \cup {Null}]
    BY <1>2 DEF ProgramInv, LocType
  <2> QED
    BY <1>1, <1>5, <1>6, <2>1, <2>2 DEF ProgramInv, LocType
<1>8. LinkInv'
  <2>1. /\ \A y \in Links : y # x => link'[y] = link[y]
        /\ link'[x] = a
        /\ \A y \in Links : link[y] \in Addr \cup {Null}
    BY <1>2 DEF ProgramInv, LocType
  <2>2. \A y \in Links : a # Null => link[y] # a
    BY <1>3, <2>1 DEF ProgramInv, LinkInv, Null, Addr
  <2>3. \A y \in Links : link'[y] # Null => mem'[link'[y]] = "used"
    BY <1>3, <2>1, <2>2 DEF ProgramInv, LinkInv
  <2>4. \A y, z \in Links : link'[y] = link'[z] /\ link'[y] # Null => y = z
    BY <2>1, <2>2 DEF ProgramInv, LinkInv
  <2>5. ASSUME NEW u \in Threads, pc'[u] = "retire"
        PROVE  loc'[u].ptr \in Addr /\ mem'[loc'[u].ptr] = "used"
               /\ \A y \in Links : link'[y] # loc'[u].ptr
    <3>1. CASE u = t
      <4>1. link[x] # Null /\ loc'[u].ptr = link[x]
        BY <1>6, <2>5, <3>1
      <4>2. link[x] \in Addr /\ link[x] # a /\ mem[link[x]] = "used"
        BY <1>4, <2>2, <4>1 DEF ProgramInv, LinkInv
      <4>3. \A y \in Links : link'[y] # link[x]
        BY <2>1, <4>1, <4>2 DEF ProgramInv, LinkInv
      <4> QED
        BY <1>3, <4>1, <4>2, <4>3
    <3>2. CASE u # t
      <4>1. loc'[u].ptr = loc[u].ptr /\ pc[u] = "retire"
        BY <1>5, <2>5, <3>2
      <4>2. loc[u].ptr \in Addr /\ mem[loc[u].ptr] = "used" /\ Unlinked(loc[u].ptr)
        BY <4>1 DEF ProgramInv, LinkInv
      <4>3. loc[u].ptr # a
        BY <1>3, <4>2 DEF Null, Addr
      <4> QED
        BY <1>3, <2>1, <4>1, <4>2, <4>3 DEF Unlinked
    <3> QED
      BY <3>1, <3>2
  <2>6. ASSUME NEW u \in Threads, NEW w \in Threads, pc'[u] = "retire", pc'[w] = "retire",
               loc'[u].ptr = loc'[w].ptr
        PROVE  u = w
    <3>1. \A y \in Threads : pc'[y] = "retire" =>
            IF y = t THEN loc'[y].ptr = link[x]
            ELSE pc[y] = "retire" /\ loc'[y].ptr = loc[y].ptr /\ loc[y].ptr # link[x]
      BY <1>5, <1>6 DEF ProgramInv, LinkInv, Unlinked
    <3>2. \A y, z \in Threads : pc[y] = "retire" /\ pc[z] = "retire"
                              /\ loc[y].ptr = loc[z].ptr => y = z
      BY DEF ProgramInv, LinkInv
    <3> QED
      BY <2>6, <3>1, <3>2
  <2> QED
    BY <2>3, <2>4, <2>5, <2>6 DEF LinkInv, Unlinked
<1>9. ValidInv'
  <2>1. ASSUME NEW s \in valid, Safe(s)
        PROVE  Safe(s)'
    <3>1. hp[s] # a
      BY <1>3, <2>1 DEF Safe, Null, Addr
    <3> QED
      BY <1>3, <2>1, <3>1 DEF Safe
  <2>2. \A u \in Threads : pc'[u] = "load" => pc[u] = "load" /\ loc'[u] = loc[u]
    BY <1>5, <1>6
  <2> QED
    BY <1>1, <1>3, <2>1, <2>2, SafeStays
<1>10. Bystander(t)
  <2>1. \A b \in Addr : mem'[b] = "retired" <=> mem[b] = "retired"
    BY <1>3 DEF Null, Addr
  <2>2. \E l \in ClientLabels \cup {"retire"} : pc' = [pc EXCEPT ![t] = l]
    BY <1>6 DEF ClientLabels
  <2> QED
    BY <1>1, <1>3, <2>1, <2>2 DEF Bystander, ClientLabels
<1> QED
  BY <1>3, <1>7, <1>8, <1>9, <1>10 DEF ProgramInv

\* A step of the program, whatever the reclaimer.
LEMMA ClientInv ==
    ASSUME ProgramInv, NEW t \in Threads, Client(t)
    PROVE  ProgramInv' /\ Bystander(t) /\ (R!Next \/ UNCHANGED mm)
BY ProtectInv, ProtectLoadInv, ProtectStoreInv, ProtectPtrInv, SwapPtrsInv, SwapBackInv,
   ExchangeInv DEF Client

-----------------------------------------------------------------------------

(* Steps of a reclaimer: thread t goes to a place outside the program. *)

Elsewhere(t) ==
    /\ pc' = [pc EXCEPT ![t] = pc'[t]]
    /\ pc'[t] \notin {"load", "store", "retire"}

LEMMA ClearInv ==
    ASSUME ProgramInv, NEW t \in Threads, NEW i \in Index, ClearHp(t, i), Elsewhere(t)
    PROVE  ProgramInv' /\ Grows /\ mem' = mem /\ R!Next
<1>1. UNCHANGED <<link, loc>> /\ valid' = valid \ {<<t, i>>} /\ Publish(t, i, Null)
      /\ Null \in Addr \cup {Null}
  BY DEF ClearHp
<1>2. MemType' /\ SinceInv' /\ Grows /\ mem' = mem /\ R!Next
  BY <1>1, StoreStep DEF ProgramInv
<1>3. \A u \in Threads : u # t => pc'[u] = pc[u]
  BY DEF Elsewhere, ProgramInv, LocType
<1>4. LocType'
  BY <1>1, <1>3 DEF Elsewhere, ProgramInv, LocType
<1>5. LinkInv'
  BY <1>1, <1>2, <1>3, LinkStays DEF Elsewhere
<1>6. ValidInv'
  <2>1. ASSUME NEW s \in valid'
        PROVE  Safe(s)'
    BY <1>1, StoreKeepsSafe
  <2>2. ASSUME NEW u \in Threads, pc'[u] = "load", loc'[u].ptr # Null
        PROVE  hp'[<<u, loc'[u].index>>] = loc'[u].ptr
    <3>1. u # t
      BY <2>2 DEF Elsewhere
    <3> QED
      BY <1>1, <1>3, <2>2, <3>1, StoreKeepsLoad
  <2> QED
    BY <2>1, <2>2 DEF ValidInv
<1> QED
  BY <1>2, <1>4, <1>5, <1>6 DEF ProgramInv

LEMMA RetireInv ==
    ASSUME ProgramInv, NEW t \in Threads, pc[t] = "retire", Elsewhere(t),
           Protections(hp, {loc[t].ptr}), loc' = [loc EXCEPT ![t] = NoLocals],
           UNCHANGED <<link, valid>>
    PROVE  /\ ProgramInv' /\ Grows /\ R!Next
           /\ loc[t].ptr \in Addr /\ mem[loc[t].ptr] = "used"
           /\ mem' = [mem EXCEPT ![loc[t].ptr] = "retired"]
<1> DEFINE a == loc[t].ptr
<1>1. a \in Addr /\ mem[a] = "used" /\ Unlinked(a)
  BY DEF ProgramInv, LinkInv
<1>2. /\ MemType' /\ SinceInv' /\ Grows /\ hp' = hp /\ R!Next
      /\ mem' = [mem EXCEPT ![a] = "retired"]
      /\ \A b \in Addr : b # a => since'[b] = since[b]
      /\ \A s \in Slot : hp[s] = a => s \in since'[a]
  BY <1>1, RetireStep DEF ProgramInv
<1>3. \A u \in Threads : u # t => pc'[u] = pc[u] /\ loc'[u] = loc[u]
  BY DEF Elsewhere, ProgramInv, LocType
<1>4. \A u \in Threads : pc'[u] \in {"load", "store", "retire"} => u # t /\ pc[u] = pc'[u]
  BY <1>3 DEF Elsewhere
<1>5. LocType'
  BY <1>3, LocalTypes DEF Elsewhere, ProgramInv, LocType
<1>6. LinkInv'
  <2>1. \A x \in Links : link[x] # Null => link[x] # a /\ mem'[link[x]] = "used"
    BY <1>1, <1>2 DEF ProgramInv, LinkInv, LocType, MemType, Unlinked
  <2>2. ASSUME NEW u \in Threads, pc'[u] = "retire"
        PROVE  loc'[u].ptr \in Addr /\ mem'[loc'[u].ptr] = "used"
               /\ \A y \in Links : link[y] # loc'[u].ptr
    <3>1. u # t /\ pc[u] = "retire" /\ loc'[u] = loc[u]
      BY <1>3, <1>4, <2>2
    <3>2. loc[u].ptr \in Addr /\ mem[loc[u].ptr] = "used" /\ Unlinked(loc[u].ptr) /\ loc[u].ptr # a
      BY <3>1 DEF ProgramInv, LinkInv
    <3> QED
      BY <1>2, <3>1, <3>2 DEF ProgramInv, MemType, Unlinked
  <2>3. \A u, w \in Threads :
          pc'[u] = "retire" /\ pc'[w] = "retire" /\ loc'[u].ptr = loc'[w].ptr => u = w
    BY <1>3, <1>4 DEF ProgramInv, LinkInv
  <2> QED
    BY <2>1, <2>2, <2>3 DEF ProgramInv, LinkInv, Unlinked
<1>7. ValidInv'
  <2>1. ASSUME NEW s \in valid, Safe(s)
        PROVE  Safe(s)'
    <3>1. s \in Slot
      BY DEF ProgramInv, LocType
    <3>2. CASE hp[s] = a
      BY <1>1, <1>2, <3>1, <3>2 DEF Safe, ProgramInv, MemType
    <3>3. CASE hp[s] # a
      BY <1>2, <2>1, <3>3 DEF Safe, ProgramInv, MemType
    <3> QED
      BY <3>2, <3>3
  <2> QED
    BY <1>2, <1>3, <1>4, <2>1, SafeStays
<1> QED
  BY <1>1, <1>2, <1>5, <1>6, <1>7 DEF ProgramInv

LEMMA DeleteInv ==
    ASSUME ProgramInv, NEW t \in Threads, NEW a \in Addr, mem[a] = "retired",
           since[a] = {}, Delete({a}), Elsewhere(t), UNCHANGED program
    PROVE  ProgramInv' /\ Grows /\ R!Next /\ mem' = [mem EXCEPT ![a] = "none"]
<1>1. /\ MemType' /\ SinceInv' /\ Grows /\ hp' = hp /\ since' = since /\ R!Next
      /\ mem' = [mem EXCEPT ![a] = "none"]
  BY DeleteStep DEF ProgramInv
<1>2. UNCHANGED <<link, valid, loc>>
  BY DEF program
<1>3. \A u \in Threads : u # t => pc'[u] = pc[u]
  BY DEF Elsewhere, ProgramInv, LocType
<1>4. \A u \in Threads : pc'[u] \in {"load", "store", "retire"} => u # t /\ pc[u] = pc'[u]
  BY <1>3 DEF Elsewhere
<1>5. LocType'
  BY <1>2, <1>3, <1>4 DEF Elsewhere, ProgramInv, LocType
<1>6. LinkInv'
  <2>1. \A b \in Addr : mem[b] = "used" => mem'[b] = "used"
    BY <1>1 DEF ProgramInv, MemType
  <2> QED
    BY <1>2, <1>4, <2>1 DEF ProgramInv, LinkInv, LocType, Unlinked
<1>7. ValidInv'
  <2>1. ASSUME NEW s \in valid, Safe(s)
        PROVE  Safe(s)'
    <3>1. hp[s] # a
      BY <2>1 DEF Safe
    <3> QED
      BY <1>1, <2>1, <3>1 DEF Safe, ProgramInv, MemType
  <2> QED
    BY <1>1, <1>2, <1>4, <2>1, SafeStays
<1> QED
  BY <1>1, <1>5, <1>6, <1>7 DEF ProgramInv

LEMMA QuietInv ==
    ASSUME ProgramInv, NEW t \in Threads, UNCHANGED <<mm, program>>, Elsewhere(t)
    PROVE  ProgramInv' /\ Grows /\ mem' = mem
<1>1. UNCHANGED <<hp, mem, since, link, valid, loc>>
  BY DEF mm, program
<1>2. MemType' /\ SinceInv' /\ Grows
  BY <1>1 DEF ProgramInv, MemType, SinceInv, Grows
<1>3. \A u \in Threads : u # t => pc'[u] = pc[u]
  BY DEF Elsewhere, ProgramInv, LocType
<1>4. \A u \in Threads : pc'[u] \in {"load", "store", "retire"} => u # t /\ pc[u] = pc'[u]
  BY <1>3 DEF Elsewhere
<1>5. LocType'
  BY <1>1, <1>3, <1>4 DEF Elsewhere, ProgramInv, LocType
<1>6. LinkInv'
  BY <1>1, <1>4, LinkStays
<1>7. ValidInv'
  BY <1>1, <1>4, SafeStays DEF Safe
<1> QED
  BY <1>1, <1>2, <1>5, <1>6, <1>7 DEF ProgramInv

\* Nothing happens.
LEMMA StutterInv ==
    ASSUME ProgramInv, UNCHANGED vars
    PROVE  ProgramInv'
BY DEF ProgramInv, MemType, LocType, SinceInv, LinkInv, Unlinked, ValidInv, Safe, vars, mm

LEMMA SafeUse ==
    ASSUME ProgramInv
    PROVE  NoUseAfterFree
BY DEF ProgramInv, ValidInv, Safe, NoUseAfterFree

=============================================================================
