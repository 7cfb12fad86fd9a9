-------------------------- MODULE PassTheBuckProofs ---------------------------
(***************************************************************************)
(* PassTheBuck implements Reclaimer, for any number of threads, hps and    *)
(* objects, and loses no object.  What a liberator has, it has looked for  *)
(* in all hps before the one it is at, and the same holds for what it      *)
(* leaves beside an hp.                                                    *)
(*                                                                         *)
(* The hard case is a liberator that gives up after three DCASes.  When an *)
(* hp has held its object all the time (Held), no other liberator can find *)
(* there what it has itself, so after the first DCAS has failed nobody is  *)
(* about to leave an object there with a version that is still valid; what *)
(* made the second fail took the handover away, and nothing can make the   *)
(* third fail (Claims).                                                    *)
(***************************************************************************)
EXTENDS PassTheBuck, ReclaimerProofs

Versions == 0 .. N+1
Handover == [val : Addr \cup {Null}, ver : Versions]
ScanRecord == [vs : SUBSET Addr, it : 0 .. N, ihp : Index, attempts : 0 .. 2,
               h : Handover, v : Addr \cup {Null}]
ScanType == kept \in [Slot -> Handover] /\ scan \in [Threads -> ScanRecord]

\* The steps of a liberator at an hp.
Scanning == {"version", "value", "same", "look", "give", "retry", "get"}

LocalInv(t) ==
    /\ pc[t] \in Scanning => scan[t].it < N
    /\ pc[t] \in ClientLabels \cup {"retire"} => scan[t] = NoScan
    /\ pc[t] \in {"clear", "end"} => scan[t].vs = {}
    /\ pc[t] \in {"look", "get"} => scan[t].attempts = 0
    /\ scan[t].attempts > 0 => pc[t] \in Scanning
    /\ pc[t] = "retry" => scan[t].attempts > 0
    /\ pc[t] = "give" \/ scan[t].attempts > 0 => scan[t].v \in scan[t].vs

\* Every retired object is in one handover or in one set vs, and no other is.
PlaceInv ==
    /\ \A s \in Slot : kept[s].val # Null =>
         mem[kept[s].val] = "retired" /\ Passed(since, kept[s].val, s[1], s[2])
    /\ \A s, p \in Slot : kept[s].val = kept[p].val /\ kept[s].val # Null => s = p
    /\ \A t \in Threads : \A a \in scan[t].vs :
         /\ mem[a] = "retired"
         /\ \A s \in Slot : kept[s].val # a
         /\ \A u \in Threads : a \in scan[u].vs => u = t
    /\ \A a \in Addr : mem[a] = "retired" =>
         (\E s \in Slot : kept[s].val = a) \/ (\E t \in Threads : a \in scan[t].vs)

\* Thread t has looked for a in all hps before this one, and in this one.
Before(t, a) == Passed(since, a, scan[t].it, scan[t].ihp)
Beyond(t, a) == Passed(since, a, scan[t].it, scan[t].ihp + 1)

\* What a liberator knows of its objects, and of the handover it has read.
SeenInv(t) ==
    /\ pc[t] \in Scanning => \A a \in scan[t].vs : Before(t, a)
    /\ pc[t] = "give" \/ scan[t].attempts > 0 =>
         \A a \in scan[t].vs \ {scan[t].v} : Beyond(t, a)
    /\ pc[t] = "get" => scan[t].h.val # Null /\ \A a \in scan[t].vs : Beyond(t, a)
    /\ pc[t] = "delete" => \A a \in scan[t].vs : since[a] = {}
HandoverInv(t) ==
    LET h == scan[t].h
        k == kept[Here(t)]
    IN  /\ pc[t] \in {"same", "look", "retry", "give", "get"} /\ k.ver = h.ver => k.val = h.val
        /\ pc[t] \in {"give", "get"} /\ k.ver = h.ver /\ h.val # Null => Beyond(t, h.val)

\* The hp has held an object of t ever since it was retired, and a DCAS of t
\* has failed or will.
Held(t) == \E a \in scan[t].vs : Here(t) \in since[a]
Late(t) ==
    \/ scan[t].attempts > 0
    \/ pc[t] \in {"value", "same", "look", "give"} /\ kept[Here(t)].ver # scan[t].h.ver

\* u is about to leave an object at s, and will succeed.
Giver(u, s) == pc[u] = "give" /\ Here(u) = s /\ scan[u].h.ver = kept[s].ver
Claims(t) == pc[t] \in Scanning /\ Held(t) /\ Late(t) =>
    LET h == scan[t].h
        k == kept[Here(t)]
    IN  /\ \A u \in Threads \ {t} : ~Giver(u, Here(t))
        /\ scan[t].attempts = 1 /\ pc[t] \in {"value", "same", "retry", "give"} =>
             h.ver = k.ver \/ k.val = Null
        /\ scan[t].attempts = 2 =>
             /\ k.val = Null
             /\ pc[t] \in {"value", "same", "retry", "give"} => h.ver = k.ver
             /\ pc[t] \in {"same", "retry", "give"} => h.val = Null

ThreadInv(t) == LocalInv(t) /\ SeenInv(t) /\ HandoverInv(t) /\ Claims(t)
PTBInv == ProgramInv /\ ScanType /\ PlaceInv /\ \A t \in Threads : ThreadInv(t)

\* The parts of a record of scan.
LEMMA RecordFields ==
    ASSUME NEW r \in ScanRecord
    PROVE  /\ r.vs \in SUBSET Addr /\ r.it \in 0 .. N /\ r.ihp \in Index
           /\ r.attempts \in 0 .. 2 /\ r.h \in Handover /\ r.v \in Addr \cup {Null}
           /\ r.h.val \in Addr \cup {Null} /\ r.h.ver \in Versions
           /\ r.it \in Nat /\ r.ihp \in Nat
<1>1. /\ r.vs \in SUBSET Addr /\ r.it \in 0 .. N /\ r.ihp \in Index
      /\ r.attempts \in 0 .. 2 /\ r.h \in Handover /\ r.v \in Addr \cup {Null}
  BY DEF ScanRecord
<1>2. r.h.val \in Addr \cup {Null} /\ r.h.ver \in Versions
  BY <1>1 DEF Handover
<1> QED
  BY <1>1, <1>2, MemoryAssumption DEF Index

\* The changes of a record of scan.
LEMMA ChangeVs ==
    ASSUME NEW r \in ScanRecord, NEW x \in SUBSET Addr
    PROVE  LET q == [r EXCEPT !.vs = x] IN
           q \in ScanRecord /\ q.vs = x /\ q.it = r.it /\ q.ihp = r.ihp
           /\ q.attempts = r.attempts /\ q.h = r.h /\ q.v = r.v
BY DEF ScanRecord

LEMMA ChangeIt ==
    ASSUME NEW r \in ScanRecord, NEW x \in 0 .. N
    PROVE  LET q == [r EXCEPT !.it = x] IN
           q \in ScanRecord /\ q.vs = r.vs /\ q.it = x /\ q.ihp = r.ihp
           /\ q.attempts = r.attempts /\ q.h = r.h /\ q.v = r.v
BY DEF ScanRecord

LEMMA ChangeIhp ==
    ASSUME NEW r \in ScanRecord, NEW x \in Index
    PROVE  LET q == [r EXCEPT !.ihp = x] IN
           q \in ScanRecord /\ q.vs = r.vs /\ q.it = r.it /\ q.ihp = x
           /\ q.attempts = r.attempts /\ q.h = r.h /\ q.v = r.v
BY DEF ScanRecord

LEMMA ChangeAttempts ==
    ASSUME NEW r \in ScanRecord, NEW x \in 0 .. 2
    PROVE  LET q == [r EXCEPT !.attempts = x] IN
           q \in ScanRecord /\ q.vs = r.vs /\ q.it = r.it /\ q.ihp = r.ihp
           /\ q.attempts = x /\ q.h = r.h /\ q.v = r.v
BY DEF ScanRecord

LEMMA ChangeH ==
    ASSUME NEW r \in ScanRecord, NEW x \in Handover
    PROVE  LET q == [r EXCEPT !.h = x] IN
           q \in ScanRecord /\ q.vs = r.vs /\ q.it = r.it /\ q.ihp = r.ihp
           /\ q.attempts = r.attempts /\ q.h = x /\ q.v = r.v
BY DEF ScanRecord

LEMMA ChangeV ==
    ASSUME NEW r \in ScanRecord, NEW x \in Addr \cup {Null}
    PROVE  LET q == [r EXCEPT !.v = x] IN
           q \in ScanRecord /\ q.vs = r.vs /\ q.it = r.it /\ q.ihp = r.ihp
           /\ q.attempts = r.attempts /\ q.h = r.h /\ q.v = x
BY DEF ScanRecord

LEMMA NoScanRecord ==
    /\ NoValue \in Handover
    /\ NoScan \in ScanRecord /\ NoScan.vs = {} /\ NoScan.attempts = 0
    /\ NoScan.it = 0 /\ NoScan.ihp = 0
<1>1. 0 \in Index /\ 0 \in 0 .. N /\ 0 \in Versions
  BY MemoryAssumption DEF Index, Versions
<1>2. NoValue \in Handover
  BY <1>1 DEF NoValue, Handover
<1> QED
  BY <1>1, <1>2 DEF NoScan, ScanRecord

\* The locals of a liberator that comes to an hp with vs.
Arrival(vs, i, j) == [NoScan EXCEPT !.vs = vs, !.it = i, !.ihp = j]
LEMMA ArrivalFields ==
    ASSUME NEW vs \in SUBSET Addr, NEW i \in 0 .. N, NEW j \in Index
    PROVE  LET r == Arrival(vs, i, j) IN
           /\ r \in ScanRecord /\ r.vs = vs /\ r.it = i /\ r.ihp = j /\ r.attempts = 0
<1> DEFINE p == [NoScan EXCEPT !.vs = vs]
           q == [p EXCEPT !.it = i]
           r == [q EXCEPT !.ihp = j]
<1>1. p \in ScanRecord /\ p.vs = vs /\ p.attempts = 0
  BY NoScanRecord, ChangeVs
<1> HIDE DEF p
<1>2. q \in ScanRecord /\ q.vs = vs /\ q.it = i /\ q.attempts = 0
  BY <1>1, ChangeIt
<1> HIDE DEF q
<1>3. r \in ScanRecord /\ r.vs = vs /\ r.it = i /\ r.ihp = j /\ r.attempts = 0
  BY <1>2, ChangeIhp
<1> HIDE DEF r
<1>4. Arrival(vs, i, j) = r
  BY DEF p, q, r, Arrival
<1> QED
  BY <1>3, <1>4

\* A liberator at an hp.
LEMMA AtHp ==
    ASSUME PTBInv, NEW t \in Threads, pc[t] \in Scanning
    PROVE  /\ scan[t] \in ScanRecord /\ scan[t].it \in 0 .. N-1 /\ scan[t].ihp \in Index
           /\ Here(t) \in Slot /\ kept[Here(t)] \in Handover
<1>1. scan[t] \in ScanRecord /\ scan[t].it < N
  BY DEF PTBInv, ScanType, ThreadInv, LocalInv
<1>2. scan[t].it \in 0 .. N-1 /\ scan[t].ihp \in Index
  BY <1>1, RecordFields, MemoryAssumption
<1>3. Here(t) \in Slot
  BY <1>2 DEF Here, Slot, Threads
<1> QED
  BY <1>1, <1>2, <1>3 DEF PTBInv, ScanType

\* There is a version that no liberator has read: they are N, and there are
\* N+2 versions.
LEMMA NewerFacts ==
    ASSUME ScanType, NEW s \in Slot
    PROVE  /\ Newer(s) \in Versions /\ Newer(s) # kept[s].ver
           /\ \A t \in Threads : Here(t) = s => scan[t].h.ver # Newer(s)
<1> DEFINE Good(k) == /\ k # kept[s].ver
                      /\ \A t \in Threads : Here(t) = s => scan[t].h.ver # k
<1>1. \E k \in 0 .. N+1 : Good(k)
  <2> SUFFICES ASSUME \A k \in 0 .. N+1 : ~Good(k)
               PROVE  FALSE
    OBVIOUS
  <2> DEFINE S == (0 .. N+1) \ {kept[s].ver}
             f == [k \in S |-> CHOOSE t \in Threads : scan[t].h.ver = k]
  <2>1. N \in Nat /\ N > 0 /\ N + 1 \in Int /\ N - 1 \in Int
    BY MemoryAssumption
  <2>2. kept[s].ver \in 0 .. N+1
    BY DEF ScanType, Handover, Versions
  <2>3. IsFiniteSet(0 .. N+1) /\ Cardinality(0 .. N+1) = N + 2
    BY <2>1, FS_Interval
  <2>4. IsFiniteSet(S) /\ Cardinality(S) = N + 1
    <3> DEFINE I == 0 .. N+1
    <3> HIDE DEF I
    <3>1. IsFiniteSet(I) /\ Cardinality(I) = N + 2 /\ kept[s].ver \in I
      BY <2>2, <2>3 DEF I
    <3>2. IsFiniteSet(I \ {kept[s].ver}) /\ Cardinality(I \ {kept[s].ver}) = N + 2 - 1
      BY <2>1, <3>1, FS_RemoveElement
    <3> QED
      BY <2>1, <3>2 DEF I
  <2>5. IsFiniteSet(Threads) /\ Cardinality(Threads) = N
    BY <2>1, FS_Interval DEF Threads
  <2>6. ASSUME NEW k \in S
        PROVE  f[k] \in Threads /\ scan[f[k]].h.ver = k
    <3>1. \E t \in Threads : scan[t].h.ver = k
      OBVIOUS
    <3> QED
      BY <3>1
  <2>7. f \in [S -> Threads]
    BY <2>6
  <2>8. N < N + 1
    BY <2>1
  <2> HIDE DEF S, f
  <2>9. \E x, y \in S : x # y /\ f[x] = f[y]
    BY <2>4, <2>5, <2>7, <2>8, FS_PigeonHole
  <2> QED
    BY <2>6, <2>9
<1>2. Newer(s) = CHOOSE k \in 0 .. N+1 : Good(k)
  BY DEF Newer
<1>3. Newer(s) \in 0 .. N+1 /\ Good(Newer(s))
  <2> HIDE DEF Good
  <2> QED
    BY <1>1, <1>2
<1> QED
  BY <1>3 DEF Versions

-----------------------------------------------------------------------------

(* What a step of t leaves alone. *)

\* The objects stay where they are.
LEMMA PlaceStays ==
    ASSUME PTBInv, ProgramInv', Grows, kept' = kept,
           \A u \in Threads : scan'[u].vs = scan[u].vs,
           \A a \in Addr : mem'[a] = "retired" <=> mem[a] = "retired"
    PROVE  PlaceInv'
<1>1. ASSUME NEW s \in Slot, kept[s].val # Null
      PROVE  mem'[kept[s].val] = "retired" /\ Passed(since', kept[s].val, s[1], s[2])
  <2>1. kept[s].val \in Addr
    BY <1>1 DEF PTBInv, ScanType, Handover
  <2>2. mem[kept[s].val] = "retired" /\ Passed(since, kept[s].val, s[1], s[2])
    BY <1>1 DEF PTBInv, PlaceInv
  <2>3. s[1] \in Nat /\ s[2] \in Nat
    BY MemoryAssumption DEF Slot, Threads, Index
  <2> QED
    BY <2>1, <2>2, <2>3, PassedStays DEF PTBInv, ProgramInv
<1>2. \A u \in Threads : \A a \in scan[u].vs : a \in Addr
  BY DEF PTBInv, ScanType, ScanRecord
<1>3. /\ \A s, p \in Slot : kept[s].val = kept[p].val /\ kept[s].val # Null => s = p
      /\ \A u \in Threads : \A a \in scan[u].vs :
           /\ mem'[a] = "retired"
           /\ \A s \in Slot : kept[s].val # a
           /\ \A w \in Threads : a \in scan[w].vs => w = u
      /\ \A a \in Addr : mem'[a] = "retired" =>
           (\E s \in Slot : kept[s].val = a) \/ (\E u \in Threads : a \in scan[u].vs)
  BY <1>2 DEF PTBInv, PlaceInv
<1> QED
  BY <1>1, <1>3 DEF PlaceInv

\* A DCAS of t that succeeds, or another step of t with the handovers.
Gives(t) ==
    \E v \in Addr \cup {Null} :
      /\ pc[t] \in {"give", "get"} /\ pc'[t] \notin {"give", "get"}
      /\ kept[Here(t)] = scan[t].h /\ (pc[t] = "get" => v = Null)
      /\ kept' = [kept EXCEPT ![Here(t)] = [val |-> v, ver |-> Newer(Here(t))]]
Looks(t) ==
    /\ kept' = kept
    /\ pc'[t] = "give" =>
         pc[t] \in Scanning /\ scan'[t].it = scan[t].it /\ scan'[t].ihp = scan[t].ihp
         /\ hp[Here(t)] \in scan[t].vs
OnlyOf(t) ==
    /\ ProgramInv' /\ Grows
    /\ Gives(t) \/ Looks(t)
    /\ \A u \in Threads : u # t => pc'[u] = pc[u] /\ scan'[u] = scan[u]

\* A handover that another thread has read changes its version, or not at all.
LEMMA OtherHandover ==
    ASSUME PTBInv, NEW t \in Threads, OnlyOf(t), NEW s \in Slot, kept'[s] # kept[s]
    PROVE  /\ Gives(t) /\ s = Here(t) /\ kept[s] = scan[t].h
           /\ pc[t] = "get" => kept'[s].val = Null
           /\ \A u \in Threads : Here(u) = s => scan[u].h.ver # kept'[s].ver
<1>1. Gives(t)
  BY DEF OnlyOf, Looks
<1>2. PICK v \in Addr \cup {Null} :
        /\ pc[t] \in {"give", "get"} /\ kept[Here(t)] = scan[t].h
        /\ pc[t] = "get" => v = Null
        /\ kept' = [kept EXCEPT ![Here(t)] = [val |-> v, ver |-> Newer(Here(t))]]
  BY <1>1 DEF Gives
<1>3. s = Here(t) /\ kept'[s] = [val |-> v, ver |-> Newer(s)]
  BY <1>2 DEF PTBInv, ScanType
<1>4. kept'[s].val = v /\ kept'[s].ver = Newer(s)
  BY <1>3
<1>5. \A u \in Threads : Here(u) = s => scan[u].h.ver # Newer(s)
  BY NewerFacts DEF PTBInv
<1> QED
  BY <1>1, <1>2, <1>3, <1>4, <1>5

\* What another thread has passed.
LEMMA OtherSeen ==
    ASSUME PTBInv, NEW t \in Threads, OnlyOf(t), NEW u \in Threads, u # t
    PROVE  LocalInv(u)' /\ SeenInv(u)'
<1>1. pc'[u] = pc[u] /\ scan'[u] = scan[u]
  BY DEF OnlyOf
<1>2. scan[u] \in ScanRecord /\ LocalInv(u) /\ SeenInv(u)
  BY DEF PTBInv, ScanType, ThreadInv
<1>3. LocalInv(u)'
  BY <1>1, <1>2 DEF LocalInv
<1>4. scan[u].it \in Nat /\ scan[u].ihp \in Nat /\ scan[u].ihp + 1 \in Nat
      /\ scan[u].vs \in SUBSET Addr
  BY <1>2, RecordFields
<1>5. \A a \in scan[u].vs : mem[a] = "retired"
  BY DEF PTBInv, PlaceInv
<1>6. MemType /\ MemType' /\ Grows
  BY DEF PTBInv, OnlyOf, ProgramInv
<1>7. ASSUME NEW a \in scan[u].vs
      PROVE  /\ Before(u, a) => Before(u, a)'
             /\ Beyond(u, a) => Beyond(u, a)'
             /\ since[a] = {} => since'[a] = {}
  <2>1. a \in Addr /\ mem[a] = "retired"
    BY <1>4, <1>5
  <2>2. Before(u, a) => Before(u, a)'
    BY <1>1, <1>4, <1>6, <2>1, PassedStays DEF Before
  <2>3. Beyond(u, a) => Beyond(u, a)'
    BY <1>1, <1>4, <1>6, <2>1, PassedStays DEF Beyond
  <2>4. since[a] = {} => since'[a] = {}
    BY <1>6, <2>1 DEF Grows
  <2> QED
    BY <2>2, <2>3, <2>4
<1>8. SeenInv(u)'
  BY <1>1, <1>2, <1>7 DEF SeenInv
<1> QED
  BY <1>3, <1>8

\* What another thread knows of the handover it has read.
LEMMA OtherRead ==
    ASSUME PTBInv, NEW t \in Threads, OnlyOf(t), NEW u \in Threads, u # t
    PROVE  HandoverInv(u)'
<1>1. pc'[u] = pc[u] /\ scan'[u] = scan[u] /\ Here(u)' = Here(u)
  BY DEF OnlyOf, Here
<1> SUFFICES ASSUME pc[u] \in {"same", "look", "retry", "give", "get"},
                    kept'[Here(u)].ver = scan[u].h.ver
             PROVE  /\ kept'[Here(u)].val = scan[u].h.val
                    /\ pc[u] \in {"give", "get"} /\ scan[u].h.val # Null =>
                         Passed(since', scan[u].h.val, scan[u].it, scan[u].ihp + 1)
  BY <1>1 DEF HandoverInv, Beyond
<1>2. pc[u] \in Scanning
  BY DEF Scanning
<1>3. Here(u) \in Slot /\ scan[u] \in ScanRecord
  BY <1>2, AtHp
<1>4. kept'[Here(u)] = kept[Here(u)]
  BY <1>3, OtherHandover
<1>5. kept[Here(u)].val = scan[u].h.val
      /\ (pc[u] \in {"give", "get"} /\ scan[u].h.val # Null => Beyond(u, scan[u].h.val))
  BY <1>4 DEF PTBInv, ThreadInv, HandoverInv
<1>6. ASSUME pc[u] \in {"give", "get"}, scan[u].h.val # Null
      PROVE  Passed(since', scan[u].h.val, scan[u].it, scan[u].ihp + 1)
  <2>1. scan[u].h.val \in Addr /\ mem[scan[u].h.val] = "retired"
    BY <1>3, <1>5, <1>6, RecordFields DEF PTBInv, PlaceInv
  <2>2. scan[u].it \in Nat /\ scan[u].ihp + 1 \in Nat
    BY <1>3, RecordFields
  <2>3. MemType /\ MemType' /\ Grows
    BY DEF PTBInv, OnlyOf, ProgramInv
  <2> QED
    BY <1>5, <1>6, <2>1, <2>2, <2>3, PassedStays DEF Beyond
<1> QED
  BY <1>4, <1>5, <1>6

\* No other thread finds at an hp what it has itself, when the hp has held
\* an object of u all the time.
LEMMA OtherClaims ==
    ASSUME PTBInv, NEW t \in Threads, OnlyOf(t), NEW u \in Threads, u # t
    PROVE  Claims(u)'
<1> DEFINE s == Here(u)
<1>1. pc'[u] = pc[u] /\ scan'[u] = scan[u] /\ Here(u)' = s
  BY DEF OnlyOf, Here
<1> SUFFICES ASSUME pc[u] \in Scanning, Held(u)', Late(u)'
             PROVE  /\ \A w \in Threads \ {u} : ~Giver(w, Here(u))'
                    /\ scan[u].attempts = 1 /\ pc[u] \in {"value", "same", "retry", "give"} =>
                         scan[u].h.ver = kept'[s].ver \/ kept'[s].val = Null
                    /\ scan[u].attempts = 2 =>
                         /\ kept'[s].val = Null
                         /\ pc[u] \in {"value", "same", "retry", "give"} =>
                              scan[u].h.ver = kept'[s].ver
                         /\ pc[u] \in {"same", "retry", "give"} => scan[u].h.val = Null
  BY <1>1 DEF Claims
<1>2. s \in Slot /\ scan[u] \in ScanRecord
  BY AtHp
<1>3. PICK a \in scan[u].vs : s \in since'[a]
  BY <1>1 DEF Held
<1>4. a \in Addr /\ mem[a] = "retired" /\ Before(u, a)
  BY <1>2, RecordFields DEF PTBInv, PlaceInv, ThreadInv, SeenInv
<1>5. s \in since[a]
  <2>1. \A i \in Index : i < s[2] => <<s[1], i>> \notin since[a]
    BY <1>2, <1>4 DEF Before, Passed, Here, Slot
  <2> QED
    BY <1>3, <1>4, <2>1 DEF OnlyOf, Grows
<1>6. hp[s] = a /\ Held(u)
  BY <1>4, <1>5 DEF PTBInv, ProgramInv, SinceInv, Held
<1>7. ~(Looks(t) /\ pc'[t] = "give" /\ Here(t)' = s)
  <2> SUFFICES ASSUME Looks(t), pc'[t] = "give", Here(t)' = s
               PROVE  FALSE
    OBVIOUS
  <2>1. scan'[t].it = scan[t].it /\ scan'[t].ihp = scan[t].ihp /\ hp[Here(t)] \in scan[t].vs
    BY DEF Looks
  <2>2. Here(t) = s
    BY <2>1 DEF Here
  <2>3. a \in scan[t].vs
    BY <1>6, <2>1, <2>2
  <2> QED
    BY <2>3 DEF PTBInv, PlaceInv
<1>8. CASE kept'[s] = kept[s]
  <2>1. Late(u)
    BY <1>1, <1>8 DEF Late
  <2>2. /\ \A w \in Threads \ {u} : ~Giver(w, s)
        /\ scan[u].attempts = 1 /\ pc[u] \in {"value", "same", "retry", "give"} =>
             scan[u].h.ver = kept[s].ver \/ kept[s].val = Null
        /\ scan[u].attempts = 2 =>
             /\ kept[s].val = Null
             /\ pc[u] \in {"value", "same", "retry", "give"} => scan[u].h.ver = kept[s].ver
             /\ pc[u] \in {"same", "retry", "give"} => scan[u].h.val = Null
    BY <1>6, <2>1 DEF PTBInv, ThreadInv, Claims
  <2>3. ASSUME NEW w \in Threads \ {u}
        PROVE  ~Giver(w, Here(u))'
    <3>1. CASE w = t
      <4> SUFFICES ASSUME pc'[t] = "give", Here(t)' = s
                   PROVE  FALSE
        BY <1>1, <3>1 DEF Giver
      <4>1. Looks(t)
        BY DEF OnlyOf, Gives
      <4> QED
        BY <1>7, <4>1
    <3>2. CASE w # t
      <4>1. pc'[w] = pc[w] /\ scan'[w] = scan[w] /\ Here(w)' = Here(w)
        BY <3>2 DEF OnlyOf, Here
      <4> QED
        BY <1>1, <1>8, <2>2, <4>1 DEF Giver
    <3> QED
      BY <3>1, <3>2
  <2> QED
    BY <1>8, <2>2, <2>3
<1>9. CASE kept'[s] # kept[s]
  <2>1. /\ Gives(t) /\ s = Here(t) /\ kept[s] = scan[t].h
        /\ pc[t] = "get" => kept'[s].val = Null
        /\ \A w \in Threads : Here(w) = s => scan[w].h.ver # kept'[s].ver
    BY <1>2, <1>9, OtherHandover
  <2>2. ASSUME NEW w \in Threads \ {u}
        PROVE  ~Giver(w, Here(u))'
    <3>1. CASE w = t
      BY <2>1, <3>1 DEF Giver, Gives
    <3>2. CASE w # t
      <4>1. scan'[w] = scan[w] /\ Here(w)' = Here(w)
        BY <3>2 DEF OnlyOf, Here
      <4> QED
        BY <1>1, <2>1, <4>1 DEF Giver
    <3> QED
      BY <3>1, <3>2
  <2>3. ASSUME scan[u].attempts > 0
        PROVE  scan[u].attempts # 2 /\ kept'[s].val = Null
    <3>1. /\ \A w \in Threads \ {u} : ~Giver(w, s)
          /\ scan[u].attempts = 2 => kept[s].val = Null
      BY <1>6, <2>3 DEF PTBInv, ThreadInv, Claims, Late
    <3>2. pc[t] # "give"
      BY <2>1, <3>1 DEF Giver
    <3>3. pc[t] = "get"
      BY <2>1, <3>2 DEF Gives
    <3>4. kept[s].val # Null
      BY <2>1, <3>3 DEF PTBInv, ThreadInv, SeenInv
    <3> QED
      BY <2>1, <3>1, <3>3, <3>4
  <2> QED
    BY <2>2, <2>3
<1> QED
  BY <1>8, <1>9

LEMMA OtherStays ==
    ASSUME PTBInv, NEW t \in Threads, OnlyOf(t), NEW u \in Threads, u # t
    PROVE  ThreadInv(u)'
BY OtherSeen, OtherRead, OtherClaims DEF ThreadInv

\* A thread that is not a liberator, or has looked everywhere.
LEMMA OutsideInv ==
    ASSUME NEW t \in Threads, LocalInv(t)', pc'[t] \notin Scanning,
           pc'[t] = "delete" => \A a \in scan'[t].vs : since'[a] = {}
    PROVE  ThreadInv(t)'
BY DEF LocalInv, ThreadInv, SeenInv, HandoverInv, Claims, Scanning

-----------------------------------------------------------------------------

(* The steps of a liberator at an hp. *)

\* What it has not found in the hp, or could only find there by chance.
LEMMA NotHeld ==
    ASSUME PTBInv, NEW t \in Threads, pc[t] \in Scanning, NEW a \in Addr,
           Before(t, a), Here(t) \notin since[a]
    PROVE  Beyond(t, a)
<1>1. scan[t].it \in 0 .. N-1 /\ scan[t].ihp \in Index
  BY AtHp
<1> QED
  BY <1>1, HpPassed DEF Before, Beyond, Here

LEMMA NotFound ==
    ASSUME PTBInv, NEW t \in Threads, pc[t] \in Scanning, NEW a \in Addr,
           Before(t, a), hp[Here(t)] # a
    PROVE  Beyond(t, a)
<1>1. Here(t) \notin since[a]
  BY DEF PTBInv, ProgramInv, SinceInv
<1> QED
  BY <1>1, NotHeld

\* The same of what is in the handover: it is not what the hp holds.
LEMMA GuardNotFound ==
    ASSUME PTBInv, NEW t \in Threads, pc[t] \in {"look", "retry"},
           kept[Here(t)].ver = scan[t].h.ver, scan[t].h.val # Null,
           hp[Here(t)] \in scan[t].vs \/ hp[Here(t)] # scan[t].h.val
    PROVE  Beyond(t, scan[t].h.val)
<1>1. pc[t] \in Scanning
  BY DEF Scanning
<1>2. Here(t) \in Slot /\ scan[t] \in ScanRecord
  BY <1>1, AtHp
<1>3. kept[Here(t)].val = scan[t].h.val
  BY DEF PTBInv, ThreadInv, HandoverInv
<1>4. scan[t].h.val \in Addr /\ Before(t, scan[t].h.val)
  BY <1>2, <1>3, RecordFields DEF PTBInv, PlaceInv, Before, Here
<1>5. hp[Here(t)] # scan[t].h.val
  BY <1>2, <1>3 DEF PTBInv, PlaceInv
<1> QED
  BY <1>1, <1>4, <1>5, NotFound

\* On to the next hp, or to the end.
LEMMA ForwardInv ==
    ASSUME PTBInv, NEW t \in Threads, pc[t] \in Scanning, NEW vs \in SUBSET Addr,
           Forward(t, vs), UNCHANGED mm, \A a \in vs : Beyond(t, a)
    PROVE  /\ scan' \in [Threads -> ScanRecord]
           /\ \A u \in Threads : u # t => scan'[u] = scan[u]
           /\ scan'[t].vs = vs
           /\ Elsewhere(t) /\ pc'[t] \notin {"give", "get"}
           /\ ThreadInv(t)'
<1> DEFINE next == Following(scan[t].it, scan[t].ihp)
           r == Arrival(vs, next[1], next[2])
<1>1. /\ scan' = [scan EXCEPT ![t] = r]
      /\ pc' = [pc EXCEPT ![t] = IF next[1] < N THEN "version"
                                 ELSE IF vs = {} THEN "end" ELSE "delete"]
  BY DEF Forward, Goto, Arrival
<1>2. scan[t].it \in 0 .. N-1 /\ scan[t].ihp \in Index
  BY AtHp
<1>3. next[1] \in Nat /\ next[2] \in Index /\ next[1] <= N /\ N \in Nat
  BY <1>2, FollowingPlace, MemoryAssumption
<1>4. \A a \in vs : Passed(since, a, next[1], next[2]) /\ (next[1] = N => since[a] = {})
  BY <1>2, NextPassed DEF PTBInv, ProgramInv, Beyond
<1> HIDE DEF next
<1>5. r \in ScanRecord /\ r.vs = vs /\ r.it = next[1] /\ r.ihp = next[2] /\ r.attempts = 0
  <2>1. next[1] \in 0 .. N /\ next[2] \in Index
    BY <1>3
  <2> QED
    BY <2>1, ArrivalFields
<1> HIDE DEF r
<1>6. /\ scan' \in [Threads -> ScanRecord] /\ scan'[t] = r
      /\ \A u \in Threads : u # t => scan'[u] = scan[u]
  BY <1>1, <1>5 DEF PTBInv, ScanType
<1>7. pc'[t] = IF next[1] < N THEN "version" ELSE IF vs = {} THEN "end" ELSE "delete"
  BY <1>1 DEF PTBInv, ProgramInv, LocType
<1>8. since' = since
  BY DEF mm
<1>9. LocalInv(t)'
  BY <1>5, <1>6, <1>7 DEF LocalInv, ClientLabels, Scanning
<1>10. CASE next[1] < N
  <2>1. pc'[t] = "version"
    BY <1>7, <1>10
  <2>2. Elsewhere(t)
    BY <1>1, <1>7, <2>1 DEF Elsewhere
  <2>3. SeenInv(t)'
    BY <1>4, <1>5, <1>6, <1>8, <2>1 DEF SeenInv, Before
  <2>4. HandoverInv(t)' /\ Claims(t)'
    BY <1>5, <1>6, <2>1 DEF HandoverInv, Claims, Late
  <2> QED
    BY <1>5, <1>6, <1>9, <2>1, <2>2, <2>3, <2>4 DEF ThreadInv
<1>11. CASE ~(next[1] < N)
  <2>1. pc'[t] \in {"end", "delete"} /\ pc'[t] \notin Scanning
    BY <1>7, <1>11 DEF Scanning
  <2>2. next[1] = N
    BY <1>3, <1>11
  <2>3. ThreadInv(t)'
    BY <1>4, <1>5, <1>6, <1>8, <1>9, <2>1, <2>2, OutsideInv
  <2> QED
    BY <1>1, <1>5, <1>6, <2>1, <2>3 DEF Elsewhere
<1> QED
  BY <1>10, <1>11

\* A step that changes neither the memory nor the handovers.
LEMMA QuietStep ==
    ASSUME PTBInv, NEW t \in Threads, UNCHANGED <<mm, program, kept>>, Elsewhere(t),
           scan' \in [Threads -> ScanRecord], scan'[t].vs = scan[t].vs,
           \A u \in Threads : u # t => scan'[u] = scan[u],
           Looks(t), ThreadInv(t)'
    PROVE  PTBInv'
<1>1. ProgramInv' /\ Grows /\ mem' = mem
  BY QuietInv DEF PTBInv
<1>2. \A u \in Threads : u # t => pc'[u] = pc[u]
  BY DEF Elsewhere, PTBInv, ProgramInv, LocType
<1>3. OnlyOf(t)
  BY <1>1, <1>2 DEF OnlyOf
<1>4. \A u \in Threads : ThreadInv(u)'
  BY <1>3, OtherStays
<1>5. ScanType'
  BY DEF PTBInv, ScanType
<1>6. PlaceInv'
  BY <1>1, PlaceStays
<1> QED
  BY <1>1, <1>4, <1>5, <1>6 DEF PTBInv

\* A step to another line of the same round, with the locals r.
LEMMA StepAtHp ==
    ASSUME PTBInv, NEW t \in Threads, pc[t] \in Scanning, NEW r \in ScanRecord,
           scan' = [scan EXCEPT ![t] = r], r.vs = scan[t].vs,
           r.it = scan[t].it, r.ihp = scan[t].ihp,
           NEW l \in Scanning, Goto(t, l), UNCHANGED <<mm, program, kept>>,
           l = "give" => hp[Here(t)] \in scan[t].vs,
           ThreadInv(t)'
    PROVE  PTBInv'
<1>1. /\ scan' \in [Threads -> ScanRecord] /\ scan'[t] = r
      /\ \A u \in Threads : u # t => scan'[u] = scan[u]
  BY DEF PTBInv, ScanType
<1>2. pc'[t] = l /\ Elsewhere(t)
  BY DEF Goto, Elsewhere, PTBInv, ProgramInv, LocType, Scanning
<1>3. Looks(t)
  BY <1>1, <1>2 DEF Looks
<1> QED
  BY <1>1, <1>2, <1>3, QuietStep

\* What the parts of ThreadInv become in such a step.
LEMMA SameRound ==
    ASSUME PTBInv, NEW t \in Threads, pc[t] \in Scanning, NEW r \in ScanRecord,
           scan' = [scan EXCEPT ![t] = r], r.vs = scan[t].vs,
           r.it = scan[t].it, r.ihp = scan[t].ihp,
           NEW l \in Scanning, Goto(t, l), UNCHANGED <<mm, program, kept>>
    PROVE  /\ pc'[t] = l /\ scan'[t] = r /\ kept' = kept /\ since' = since /\ hp' = hp
           /\ Here(t)' = Here(t) /\ (Held(t)' <=> Held(t))
           /\ \A a : (Before(t, a)' <=> Before(t, a)) /\ (Beyond(t, a)' <=> Beyond(t, a))
           /\ \A u \in Threads \ {t} : \A s : Giver(u, s)' <=> Giver(u, s)
           /\ \A a \in scan[t].vs : Before(t, a) /\ a \in Addr
           /\ scan[t].it < N
<1>1. /\ scan'[t] = r /\ \A u \in Threads : u # t => scan'[u] = scan[u]
  BY DEF PTBInv, ScanType
<1>2. pc'[t] = l /\ \A u \in Threads : u # t => pc'[u] = pc[u]
  BY DEF Goto, PTBInv, ProgramInv, LocType
<1>3. UNCHANGED <<hp, mem, since, kept>>
  BY DEF mm
<1>4. Here(t)' = Here(t) /\ \A u \in Threads \ {t} : Here(u)' = Here(u)
  BY <1>1 DEF Here
<1>5. Held(t)' <=> Held(t)
  BY <1>1, <1>3, <1>4 DEF Held
<1>6. \A a : (Before(t, a)' <=> Before(t, a)) /\ (Beyond(t, a)' <=> Beyond(t, a))
  BY <1>1, <1>3 DEF Before, Beyond
<1>7. \A u \in Threads \ {t} : \A s : Giver(u, s)' <=> Giver(u, s)
  BY <1>1, <1>2, <1>3, <1>4 DEF Giver
<1>8. /\ \A a \in scan[t].vs : Before(t, a) /\ a \in Addr
      /\ scan[t].it < N
  BY AtHp, RecordFields DEF PTBInv, ThreadInv, SeenInv, LocalInv
<1> QED
  BY <1>1, <1>2, <1>3, <1>4, <1>5, <1>6, <1>7, <1>8

\* getAtomicH(): what a thread with attempts knows carries over.
LEMMA VersionStep ==
    ASSUME PTBInv, NEW t \in Threads, Version(t)
    PROVE  PTBInv' /\ UNCHANGED mm
<1> DEFINE h == [val |-> Null, ver |-> kept[Here(t)].ver]
           r == [scan[t] EXCEPT !.h = h]
<1>1. /\ pc[t] = "version" /\ pc[t] \in Scanning /\ "value" \in Scanning
      /\ scan' = [scan EXCEPT ![t] = r] /\ Goto(t, "value")
      /\ UNCHANGED <<mm, program, kept>>
  BY DEF Version, At, Set, Quiet, Scanning
<1>2. scan[t] \in ScanRecord /\ h \in Handover /\ h.ver = kept[Here(t)].ver
  BY <1>1, AtHp DEF Handover
<1> HIDE DEF h
<1>3. /\ r \in ScanRecord /\ r.vs = scan[t].vs /\ r.it = scan[t].it /\ r.ihp = scan[t].ihp
      /\ r.attempts = scan[t].attempts /\ r.h = h /\ r.v = scan[t].v
  BY <1>2, ChangeH
<1> HIDE DEF r
<1>4. /\ pc'[t] = "value" /\ scan'[t] = r /\ kept' = kept /\ Here(t)' = Here(t)
      /\ (Held(t)' <=> Held(t))
      /\ \A a : (Before(t, a)' <=> Before(t, a)) /\ (Beyond(t, a)' <=> Beyond(t, a))
      /\ \A u \in Threads \ {t} : \A s : Giver(u, s)' <=> Giver(u, s)
  BY <1>1, <1>3, SameRound
<1>5. LocalInv(t)' /\ SeenInv(t)' /\ HandoverInv(t)'
  BY <1>1, <1>3, <1>4 DEF PTBInv, ThreadInv, LocalInv, SeenInv, HandoverInv, ClientLabels
<1>6. Claims(t)'
  BY <1>1, <1>2, <1>3, <1>4 DEF PTBInv, ThreadInv, Claims, Late
<1> QED
  BY <1>1, <1>3, <1>5, <1>6, StepAtHp DEF ThreadInv

LEMMA ValueStep ==
    ASSUME PTBInv, NEW t \in Threads, Value(t)
    PROVE  PTBInv' /\ UNCHANGED mm
<1> DEFINE h == [scan[t].h EXCEPT !.val = kept[Here(t)].val]
           r == [scan[t] EXCEPT !.h = h]
<1>1. /\ pc[t] = "value" /\ pc[t] \in Scanning /\ "same" \in Scanning
      /\ scan' = [scan EXCEPT ![t] = r] /\ Goto(t, "same")
      /\ UNCHANGED <<mm, program, kept>>
  BY DEF Value, At, Set, Quiet, Scanning
<1>2. scan[t] \in ScanRecord /\ scan[t].h \in Handover /\ kept[Here(t)].val \in Addr \cup {Null}
  BY <1>1, AtHp, RecordFields DEF Handover
<1>3. h \in Handover /\ h.val = kept[Here(t)].val /\ h.ver = scan[t].h.ver
  BY <1>2 DEF Handover
<1> HIDE DEF h
<1>4. /\ r \in ScanRecord /\ r.vs = scan[t].vs /\ r.it = scan[t].it /\ r.ihp = scan[t].ihp
      /\ r.attempts = scan[t].attempts /\ r.h = h /\ r.v = scan[t].v
  BY <1>2, <1>3, ChangeH
<1> HIDE DEF r
<1>5. /\ pc'[t] = "same" /\ scan'[t] = r /\ kept' = kept /\ Here(t)' = Here(t)
      /\ (Held(t)' <=> Held(t))
      /\ \A a : (Before(t, a)' <=> Before(t, a)) /\ (Beyond(t, a)' <=> Beyond(t, a))
      /\ \A u \in Threads \ {t} : \A s : Giver(u, s)' <=> Giver(u, s)
  BY <1>1, <1>4, SameRound
<1>6. LocalInv(t)' /\ SeenInv(t)' /\ HandoverInv(t)'
  BY <1>1, <1>3, <1>4, <1>5 DEF PTBInv, ThreadInv, LocalInv, SeenInv, HandoverInv, ClientLabels
<1>7. Claims(t)'
  BY <1>1, <1>3, <1>4, <1>5 DEF PTBInv, ThreadInv, Claims, Late
<1> QED
  BY <1>1, <1>4, <1>6, <1>7, StepAtHp DEF ThreadInv

LEMMA SameStep ==
    ASSUME PTBInv, NEW t \in Threads, Same(t)
    PROVE  PTBInv' /\ UNCHANGED mm
<1> DEFINE l == IF kept[Here(t)].ver # scan[t].h.ver THEN "version"
                ELSE IF scan[t].attempts = 0 THEN "look" ELSE "retry"
<1>1. /\ pc[t] = "same" /\ pc[t] \in Scanning /\ Goto(t, l)
      /\ scan' = scan /\ UNCHANGED <<mm, program, kept>>
  BY DEF Same, At, Quiet, Scanning
<1>2. /\ l \in {"version", "look", "retry"} /\ l \in Scanning
      /\ l = "look" => scan[t].attempts = 0
      /\ l = "retry" => scan[t].attempts # 0
      /\ l # "version" => kept[Here(t)].ver = scan[t].h.ver
  BY DEF Scanning
<1> HIDE DEF l
<1>3. scan' = [scan EXCEPT ![t] = scan[t]] /\ scan[t] \in ScanRecord /\ scan[t].attempts \in 0 .. 2
  BY <1>1, RecordFields DEF PTBInv, ScanType
<1>4. /\ pc'[t] = l /\ scan'[t] = scan[t] /\ kept' = kept /\ Here(t)' = Here(t)
      /\ (Held(t)' <=> Held(t))
      /\ \A a : (Before(t, a)' <=> Before(t, a)) /\ (Beyond(t, a)' <=> Beyond(t, a))
      /\ \A u \in Threads \ {t} : \A s : Giver(u, s)' <=> Giver(u, s)
  BY <1>1, <1>2, <1>3, SameRound
<1>5. LocalInv(t)' /\ SeenInv(t)' /\ HandoverInv(t)'
  BY <1>1, <1>2, <1>3, <1>4 DEF PTBInv, ThreadInv, LocalInv, SeenInv, HandoverInv, ClientLabels
<1>6. Claims(t)'
  BY <1>1, <1>2, <1>4 DEF PTBInv, ThreadInv, Claims, Late
<1> QED
  BY <1>1, <1>2, <1>3, <1>5, <1>6, StepAtHp DEF ThreadInv

\* A step to the next hp that changes no handover.
LEMMA ForwardStep ==
    ASSUME PTBInv, NEW t \in Threads, pc[t] \in Scanning, Forward(t, scan[t].vs),
           UNCHANGED <<mm, program, kept>>, \A a \in scan[t].vs : Beyond(t, a)
    PROVE  PTBInv' /\ UNCHANGED mm
<1>1. scan[t].vs \in SUBSET Addr
  BY AtHp, RecordFields
<1>2. /\ scan' \in [Threads -> ScanRecord]
      /\ \A u \in Threads : u # t => scan'[u] = scan[u]
      /\ scan'[t].vs = scan[t].vs
      /\ Elsewhere(t) /\ pc'[t] \notin {"give", "get"}
      /\ ThreadInv(t)'
  BY <1>1, ForwardInv
<1>3. Looks(t)
  BY <1>2 DEF Looks
<1> QED
  BY <1>2, <1>3, QuietStep

LEMMA LookStep ==
    ASSUME PTBInv, NEW t \in Threads, Look(t)
    PROVE  PTBInv' /\ UNCHANGED mm
<1> DEFINE v == hp[Here(t)]
           h == scan[t].h
<1>1. pc[t] = "look" /\ pc[t] \in Scanning /\ UNCHANGED <<mm, program, kept>>
  BY DEF Look, At, Quiet, Scanning
<1>2. /\ scan[t] \in ScanRecord /\ scan[t].attempts = 0 /\ Here(t) \in Slot
      /\ v \in Addr \cup {Null} /\ scan[t].vs \in SUBSET Addr
  BY <1>1, AtHp, RecordFields DEF PTBInv, ThreadInv, LocalInv, ProgramInv, MemType
<1>3. \A a \in scan[t].vs : a # v => Beyond(t, a)
  BY <1>1, <1>2, NotFound DEF PTBInv, ThreadInv, SeenInv
<1>4. kept[Here(t)].ver = h.ver => kept[Here(t)].val = h.val
  BY <1>1 DEF PTBInv, ThreadInv, HandoverInv
<1>5. CASE v \in scan[t].vs
  <2> DEFINE r == [scan[t] EXCEPT !.v = v]
  <2>1. scan' = [scan EXCEPT ![t] = r] /\ Goto(t, "give") /\ "give" \in Scanning
    BY <1>5 DEF Look, Scanning
  <2>2. /\ r \in ScanRecord /\ r.vs = scan[t].vs /\ r.it = scan[t].it /\ r.ihp = scan[t].ihp
        /\ r.attempts = 0 /\ r.h = h /\ r.v = v
    BY <1>2, ChangeV
  <2> HIDE DEF r
  <2>3. /\ pc'[t] = "give" /\ scan'[t] = r /\ kept' = kept /\ Here(t)' = Here(t)
        /\ (Held(t)' <=> Held(t))
        /\ \A a : (Before(t, a)' <=> Before(t, a)) /\ (Beyond(t, a)' <=> Beyond(t, a))
        /\ \A u \in Threads \ {t} : \A s : Giver(u, s)' <=> Giver(u, s)
    BY <1>1, <2>1, <2>2, SameRound
  <2>4. kept[Here(t)].ver = h.ver /\ h.val # Null => Beyond(t, h.val)
    BY <1>1, <1>5, GuardNotFound
  <2>5. LocalInv(t)' /\ SeenInv(t)'
    BY <1>1, <1>3, <1>5, <2>2, <2>3 DEF PTBInv, ThreadInv, LocalInv, SeenInv, ClientLabels
  <2>6. HandoverInv(t)'
    BY <1>4, <2>2, <2>3, <2>4 DEF HandoverInv
  <2>7. Claims(t)'
    BY <1>1, <1>2, <2>2, <2>3 DEF PTBInv, ThreadInv, Claims, Late
  <2> QED
    BY <1>1, <1>5, <2>1, <2>2, <2>5, <2>6, <2>7, StepAtHp DEF ThreadInv
<1>6. CASE v \notin scan[t].vs /\ h.val # Null /\ h.val # v
  <2>1. scan' = scan /\ Goto(t, "get") /\ "get" \in Scanning
    BY <1>6 DEF Look, Scanning
  <2>2. scan' = [scan EXCEPT ![t] = scan[t]]
    BY <2>1 DEF PTBInv, ScanType
  <2>3. /\ pc'[t] = "get" /\ scan'[t] = scan[t] /\ kept' = kept /\ Here(t)' = Here(t)
        /\ \A a : (Before(t, a)' <=> Before(t, a)) /\ (Beyond(t, a)' <=> Beyond(t, a))
    BY <1>1, <1>2, <2>1, <2>2, SameRound
  <2>4. kept[Here(t)].ver = h.ver => Beyond(t, h.val)
    BY <1>1, <1>6, GuardNotFound
  <2>5. LocalInv(t)' /\ SeenInv(t)'
    BY <1>1, <1>2, <1>3, <1>6, <2>3 DEF PTBInv, ThreadInv, LocalInv, SeenInv, ClientLabels
  <2>6. HandoverInv(t)' /\ Claims(t)'
    BY <1>2, <1>4, <2>3, <2>4 DEF HandoverInv, Claims, Late
  <2> QED
    BY <1>1, <1>2, <2>1, <2>2, <2>5, <2>6, StepAtHp DEF ThreadInv
<1>7. CASE v \notin scan[t].vs /\ ~(h.val # Null /\ h.val # v)
  <2>1. Forward(t, scan[t].vs)
    BY <1>7 DEF Look
  <2> QED
    BY <1>1, <1>3, <1>7, <2>1, ForwardStep
<1> QED
  BY <1>5, <1>6, <1>7

\* Who gives up because of what getAtomicH() returns, has an object that the
\* hp has not held all the time.
LEMMA RetryStep ==
    ASSUME PTBInv, NEW t \in Threads, Retry(t)
    PROVE  PTBInv' /\ UNCHANGED mm
<1> DEFINE s == scan[t]
           gone == (s.attempts = 2 /\ s.h.val # Null) \/ s.v # hp[Here(t)]
<1>1. pc[t] = "retry" /\ pc[t] \in Scanning /\ UNCHANGED <<mm, program, kept>>
  BY DEF Retry, At, Quiet, Scanning
<1>2. s \in ScanRecord /\ s.attempts > 0 /\ s.v \in s.vs /\ s.vs \in SUBSET Addr
      /\ Here(t) \in Slot
  BY <1>1, AtHp, RecordFields DEF PTBInv, ThreadInv, LocalInv
<1>3. /\ \A a \in s.vs : Before(t, a)
      /\ \A a \in s.vs \ {s.v} : Beyond(t, a)
      /\ kept[Here(t)].ver = s.h.ver => kept[Here(t)].val = s.h.val
      /\ Held(t) => (s.attempts = 2 => s.h.val = Null)
  BY <1>1, <1>2 DEF PTBInv, ThreadInv, SeenInv, HandoverInv, Claims, Late
<1>4. CASE gone
  <2>1. Forward(t, s.vs)
    BY <1>4 DEF Retry
  <2>2. Here(t) \notin since[s.v]
    BY <1>2, <1>3, <1>4 DEF Held, PTBInv, ProgramInv, SinceInv
  <2>3. Beyond(t, s.v)
    BY <1>1, <1>2, <1>3, <2>2, NotHeld
  <2> QED
    BY <1>1, <1>3, <2>1, <2>3, ForwardStep
<1>5. CASE ~gone
  <2>1. scan' = scan /\ Goto(t, "give") /\ "give" \in Scanning
    BY <1>5 DEF Retry, Scanning
  <2>2. scan' = [scan EXCEPT ![t] = s]
    BY <2>1 DEF PTBInv, ScanType
  <2>3. /\ pc'[t] = "give" /\ scan'[t] = s /\ kept' = kept /\ Here(t)' = Here(t)
        /\ (Held(t)' <=> Held(t))
        /\ \A a : (Before(t, a)' <=> Before(t, a)) /\ (Beyond(t, a)' <=> Beyond(t, a))
        /\ \A u \in Threads \ {t} : \A p : Giver(u, p)' <=> Giver(u, p)
    BY <1>1, <1>2, <2>1, <2>2, SameRound
  <2>4. kept[Here(t)].ver = s.h.ver /\ s.h.val # Null => Beyond(t, s.h.val)
    BY <1>1, <1>2, <1>5, GuardNotFound
  <2>5. LocalInv(t)' /\ SeenInv(t)'
    BY <1>1, <1>2, <1>3, <2>1, <2>3 DEF PTBInv, ThreadInv, LocalInv, SeenInv, ClientLabels
  <2>6. HandoverInv(t)'
    BY <1>3, <2>3, <2>4 DEF HandoverInv
  <2>7. Claims(t)'
    BY <1>1, <1>2, <2>3 DEF PTBInv, ThreadInv, Claims, Late
  <2>8. hp[Here(t)] \in s.vs
    BY <1>2, <1>5
  <2> QED
    BY <1>1, <1>2, <2>1, <2>2, <2>5, <2>6, <2>7, <2>8, StepAtHp DEF ThreadInv
<1> QED
  BY <1>4, <1>5

\* A DCAS that fails.  The third one fails only if the hp has not held the
\* object all the time.
LEMMA GiveFails ==
    ASSUME PTBInv, NEW t \in Threads, Give(t), kept[Here(t)] # scan[t].h
    PROVE  PTBInv' /\ UNCHANGED mm
<1> DEFINE s == scan[t]
<1>1. pc[t] = "give" /\ pc[t] \in Scanning /\ UNCHANGED <<mm, program, kept>>
  BY DEF Give, DCAS, At, Scanning
<1>2. /\ s \in ScanRecord /\ s.v \in s.vs /\ s.vs \in SUBSET Addr
      /\ s.attempts \in 0 .. 2 /\ s.h \in Handover /\ Here(t) \in Slot
      /\ kept[Here(t)] \in Handover
  BY <1>1, AtHp, RecordFields DEF PTBInv, ThreadInv, LocalInv
<1>3. /\ \A a \in s.vs : Before(t, a)
      /\ \A a \in s.vs \ {s.v} : Beyond(t, a)
  BY <1>1 DEF PTBInv, ThreadInv, SeenInv
<1>4. kept[Here(t)].ver # s.h.ver
  <2>1. kept[Here(t)].ver = s.h.ver => kept[Here(t)].val = s.h.val
    BY <1>1 DEF PTBInv, ThreadInv, HandoverInv
  <2> QED
    BY <1>2, <2>1 DEF Handover
<1>5. Held(t) =>
        /\ \A u \in Threads \ {t} : ~Giver(u, Here(t))
        /\ s.attempts = 1 => kept[Here(t)].val = Null
        /\ s.attempts # 2
  BY <1>1, <1>4 DEF PTBInv, ThreadInv, Claims, Late
<1>6. CASE s.attempts = 2
  <2>1. Forward(t, s.vs)
    BY <1>6 DEF Give, DCAS
  <2>2. Here(t) \notin since[s.v]
    BY <1>2, <1>5, <1>6 DEF Held
  <2>3. Beyond(t, s.v)
    BY <1>1, <1>2, <1>3, <2>2, NotHeld
  <2> QED
    BY <1>1, <1>3, <2>1, <2>3, ForwardStep
<1>7. CASE s.attempts # 2
  <2> DEFINE n == s.attempts + 1
             r == [s EXCEPT !.attempts = n]
  <2>1. Goto(t, "version") /\ "version" \in Scanning
    BY <1>7 DEF Give, DCAS, Scanning
  <2>2. scan' = [scan EXCEPT ![t] = r]
    BY <1>7 DEF Give, DCAS, PTBInv, ScanType
  <2>3. n \in 0 .. 2 /\ n > 0 /\ (n = 1 => s.attempts = 0) /\ (n = 2 => s.attempts = 1)
    BY <1>2, <1>7
  <2> HIDE DEF n
  <2>4. /\ r \in ScanRecord /\ r.vs = s.vs /\ r.it = s.it /\ r.ihp = s.ihp
        /\ r.attempts = n /\ r.h = s.h /\ r.v = s.v
    BY <1>2, <2>3, ChangeAttempts
  <2> HIDE DEF r
  <2>5. /\ pc'[t] = "version" /\ scan'[t] = r /\ kept' = kept /\ Here(t)' = Here(t)
        /\ (Held(t)' <=> Held(t))
        /\ \A a : (Before(t, a)' <=> Before(t, a)) /\ (Beyond(t, a)' <=> Beyond(t, a))
        /\ \A u \in Threads \ {t} : \A p : Giver(u, p)' <=> Giver(u, p)
    BY <1>1, <2>1, <2>2, <2>4, SameRound
  <2>6. LocalInv(t)' /\ SeenInv(t)' /\ HandoverInv(t)'
    BY <1>1, <1>2, <1>3, <2>4, <2>5
       DEF PTBInv, ThreadInv, LocalInv, SeenInv, HandoverInv, ClientLabels, Scanning
  <2>7. Claims(t)'
    BY <1>5, <2>3, <2>4, <2>5 DEF Claims
  <2> QED
    BY <1>1, <2>1, <2>2, <2>4, <2>6, <2>7, StepAtHp DEF ThreadInv
<1> QED
  BY <1>6, <1>7

LEMMA GetFails ==
    ASSUME PTBInv, NEW t \in Threads, Get(t), kept[Here(t)] # scan[t].h
    PROVE  PTBInv' /\ UNCHANGED mm
<1>1. /\ pc[t] = "get" /\ pc[t] \in Scanning /\ UNCHANGED <<mm, program, kept>>
      /\ Forward(t, scan[t].vs)
  BY DEF Get, DCAS, At, Scanning
<1>2. \A a \in scan[t].vs : Beyond(t, a)
  BY <1>1 DEF PTBInv, ThreadInv, SeenInv
<1> QED
  BY <1>1, <1>2, ForwardStep

\* A DCAS that succeeds: v goes into the handover, what was there into vs.
LEMMA Exchanged ==
    ASSUME PTBInv, NEW t \in Threads, NEW s \in Slot, NEW v, NEW k,
           v = Null \/ (v \in scan[t].vs /\ Passed(since, v, s[1], s[2])), k = kept[s].val,
           UNCHANGED <<mem, since>>, kept'[s].val = v,
           \A p \in Slot : p # s => kept'[p] = kept[p],
           \A u \in Threads : u # t => scan'[u] = scan[u],
           scan'[t].vs = (scan[t].vs \ {v}) \cup ({k} \ {Null})
    PROVE  PlaceInv'
<1>1. /\ \A p \in Slot : kept[p].val # Null =>
           mem[kept[p].val] = "retired" /\ Passed(since, kept[p].val, p[1], p[2])
      /\ \A p, q \in Slot : kept[p].val = kept[q].val /\ kept[p].val # Null => p = q
      /\ \A u \in Threads : \A a \in scan[u].vs :
           /\ mem[a] = "retired"
           /\ \A p \in Slot : kept[p].val # a
           /\ \A w \in Threads : a \in scan[w].vs => w = u
      /\ \A a \in Addr : mem[a] = "retired" =>
           (\E p \in Slot : kept[p].val = a) \/ (\E u \in Threads : a \in scan[u].vs)
  BY DEF PTBInv, PlaceInv
<1>2. Null \notin Addr /\ \A u \in Threads : Null \notin scan[u].vs
  BY MemoryAssumption DEF Null, Addr, PTBInv, ScanType, ScanRecord
<1>3. \A p \in Slot : kept'[p].val = IF p = s THEN v ELSE kept[p].val
  OBVIOUS
<1>4. \A u \in Threads : \A a : a \in scan'[u].vs <=>
        IF u = t THEN (a \in scan[t].vs /\ a # v) \/ (a = k /\ k # Null)
                 ELSE a \in scan[u].vs
  OBVIOUS
<1>5. \A p \in Slot : kept'[p].val # Null =>
        mem'[kept'[p].val] = "retired" /\ Passed(since', kept'[p].val, p[1], p[2])
  BY <1>1, <1>3
<1>6. \A p, q \in Slot : kept'[p].val = kept'[q].val /\ kept'[p].val # Null => p = q
  BY <1>1, <1>3
<1>7. ASSUME NEW u \in Threads, NEW a \in scan'[u].vs
      PROVE  /\ mem'[a] = "retired"
             /\ \A p \in Slot : kept'[p].val # a
             /\ \A w \in Threads : a \in scan'[w].vs => w = u
  <2>1. CASE a \in scan[u].vs /\ ~(u = t /\ a = v)
    BY <1>1, <1>2, <1>3, <1>4, <2>1
  <2>2. CASE u = t /\ a = k /\ k # Null
    <3>1. mem[a] = "retired" /\ \A w \in Threads : a \notin scan[w].vs
      BY <1>1, <2>2
    <3>2. \A p \in Slot : kept'[p].val # a
      BY <1>1, <1>3, <2>2, <3>1
    <3>3. \A w \in Threads : a \in scan'[w].vs => w = u
      BY <1>4, <2>2, <3>1
    <3> QED
      BY <3>1, <3>2, <3>3
  <2> QED
    BY <1>4, <1>7, <2>1, <2>2
<1>8. ASSUME NEW a \in Addr, mem'[a] = "retired"
      PROVE  (\E p \in Slot : kept'[p].val = a) \/ (\E u \in Threads : a \in scan'[u].vs)
  <2>1. CASE \E p \in Slot : kept[p].val = a
    <3>1. PICK p \in Slot : kept[p].val = a
      BY <2>1
    <3> QED
      BY <1>2, <1>3, <1>4, <3>1
  <2>2. CASE \E u \in Threads : a \in scan[u].vs
    <3>1. PICK u \in Threads : a \in scan[u].vs
      BY <2>2
    <3>2. CASE u = t /\ a = v
      BY <1>3, <3>2
    <3>3. CASE ~(u = t /\ a = v)
      BY <1>4, <3>1, <3>3
    <3> QED
      BY <3>2, <3>3
  <2> QED
    BY <1>1, <1>8, <2>1, <2>2
<1> QED
  BY <1>5, <1>6, <1>7, <1>8 DEF PlaceInv

LEMMA GivesStep ==
    ASSUME PTBInv, NEW t \in Threads, pc[t] \in {"give", "get"}, NEW v, NEW vs,
           v = (IF pc[t] = "give" THEN scan[t].v ELSE Null),
           vs = (scan[t].vs \ {v}) \cup ({scan[t].h.val} \ {Null}),
           kept[Here(t)] = scan[t].h,
           kept' = [kept EXCEPT ![Here(t)] = [val |-> v, ver |-> Newer(Here(t))]],
           Forward(t, vs), UNCHANGED <<mm, program>>
    PROVE  PTBInv' /\ UNCHANGED mm
<1> DEFINE s == Here(t)
<1>1. pc[t] \in Scanning
  BY DEF Scanning
<1>2. scan[t] \in ScanRecord /\ s \in Slot /\ scan[t].h.val \in Addr \cup {Null}
      /\ scan[t].v \in Addr \cup {Null} /\ scan[t].vs \in SUBSET Addr
  BY <1>1, AtHp, RecordFields
<1>3. /\ v \in Addr \cup {Null} /\ vs \in SUBSET Addr
      /\ v = Null \/ v \in scan[t].vs
  BY <1>2 DEF PTBInv, ThreadInv, LocalInv
<1>4. \A a \in scan[t].vs : Before(t, a)
  BY <1>1 DEF PTBInv, ThreadInv, SeenInv
<1>5. \A a \in vs : Beyond(t, a)
  <2>1. \A a \in scan[t].vs \ {v} : Beyond(t, a)
    BY DEF PTBInv, ThreadInv, SeenInv
  <2>2. scan[t].h.val # Null => Beyond(t, scan[t].h.val)
    BY DEF PTBInv, ThreadInv, HandoverInv
  <2> QED
    BY <2>1, <2>2
<1>6. /\ scan' \in [Threads -> ScanRecord]
      /\ \A u \in Threads : u # t => scan'[u] = scan[u]
      /\ scan'[t].vs = vs
      /\ Elsewhere(t) /\ pc'[t] \notin {"give", "get"}
      /\ ThreadInv(t)'
  BY <1>1, <1>3, <1>5, ForwardInv
<1>7. ProgramInv' /\ Grows /\ UNCHANGED <<mem, since>>
  BY <1>6, QuietInv DEF PTBInv, mm
<1>8. Gives(t)
  BY <1>3, <1>6 DEF Gives
<1>9. \A u \in Threads : u # t => pc'[u] = pc[u]
  BY <1>6 DEF Elsewhere, PTBInv, ProgramInv, LocType
<1>10. \A u \in Threads : ThreadInv(u)'
  <2>1. OnlyOf(t)
    BY <1>6, <1>7, <1>8, <1>9 DEF OnlyOf
  <2> QED
    BY <1>6, <2>1, OtherStays
<1>11. /\ kept' \in [Slot -> Handover] /\ kept'[s].val = v
       /\ \A p \in Slot : p # s => kept'[p] = kept[p]
  <2>1. Newer(s) \in Versions
    BY <1>2, NewerFacts DEF PTBInv
  <2>2. [val |-> v, ver |-> Newer(s)] \in Handover
    BY <1>3, <2>1 DEF Handover
  <2>3. kept \in [Slot -> Handover]
    BY DEF PTBInv, ScanType
  <2> QED
    BY <1>2, <2>2, <2>3
<1>12. PlaceInv'
  <2>1. v = Null \/ (v \in scan[t].vs /\ Passed(since, v, s[1], s[2]))
    BY <1>3, <1>4 DEF Before, Here
  <2>2. scan[t].h.val = kept[s].val
    OBVIOUS
  <2> HIDE DEF s
  <2> QED
    BY <1>2, <1>6, <1>7, <1>11, <2>1, <2>2, Exchanged DEF s
<1> QED
  BY <1>6, <1>7, <1>10, <1>11, <1>12 DEF PTBInv, ScanType

LEMMA GiveGetStep ==
    ASSUME PTBInv, NEW t \in Threads, Give(t) \/ Get(t)
    PROVE  PTBInv' /\ UNCHANGED mm
<1> DEFINE s == scan[t]
<1>1. CASE kept[Here(t)] # s.h
  BY <1>1, GiveFails, GetFails
<1>2. CASE Give(t) /\ kept[Here(t)] = s.h
  <2>1. /\ pc[t] = "give"
        /\ kept' = [kept EXCEPT ![Here(t)] = [val |-> s.v, ver |-> Newer(Here(t))]]
        /\ Forward(t, (s.vs \ {s.v}) \cup ({s.h.val} \ {Null}))
        /\ UNCHANGED <<mm, program>>
    BY <1>2 DEF Give, DCAS, At
  <2> QED
    BY <1>2, <2>1, GivesStep
<1>3. CASE Get(t) /\ kept[Here(t)] = s.h
  <2>1. /\ pc[t] = "get"
        /\ kept' = [kept EXCEPT ![Here(t)] = [val |-> Null, ver |-> Newer(Here(t))]]
        /\ Forward(t, s.vs \cup {s.h.val})
        /\ UNCHANGED <<mm, program>>
    BY <1>3 DEF Get, DCAS, At
  <2>2. s.h.val # Null /\ Null \notin s.vs
    <3>1. s.h.val # Null
      BY <2>1 DEF PTBInv, ThreadInv, SeenInv
    <3>2. Null \notin s.vs
      BY MemoryAssumption DEF Null, Addr, PTBInv, ScanType, ScanRecord
    <3> QED
      BY <3>1, <3>2
  <2>3. s.vs \cup {s.h.val} = (s.vs \ {Null}) \cup ({s.h.val} \ {Null})
    BY <2>2
  <2> QED
    BY <1>3, <2>1, <2>3, GivesStep
<1> QED
  BY <1>1, <1>2, <1>3

-----------------------------------------------------------------------------

(* The other steps. *)

\* A step of a thread that is no liberator, before and after.
LEMMA OutsideStep ==
    ASSUME PTBInv, NEW t \in Threads, ProgramInv', Grows, kept' = kept,
           \A a \in Addr : mem'[a] = "retired" <=> mem[a] = "retired",
           scan' \in [Threads -> ScanRecord], scan'[t].vs = scan[t].vs,
           \A u \in Threads : u # t => pc'[u] = pc[u] /\ scan'[u] = scan[u],
           pc'[t] \notin Scanning \cup {"delete"}, LocalInv(t)'
    PROVE  PTBInv'
<1>1. OnlyOf(t)
  BY DEF OnlyOf, Looks, Scanning
<1>2. \A u \in Threads : ThreadInv(u)'
  BY <1>1, OtherStays, OutsideInv
<1>3. PlaceInv'
  BY PlaceStays
<1> QED
  BY <1>2, <1>3 DEF PTBInv, ScanType

LEMMA ClientStep ==
    ASSUME PTBInv, NEW t \in Threads, Client(t)
    PROVE  PTBInv' /\ (R!Next \/ UNCHANGED mm)
<1>1. ProgramInv' /\ Bystander(t) /\ (R!Next \/ UNCHANGED mm)
  BY ClientInv DEF PTBInv
<1>2. PICK l \in ClientLabels \cup {"retire"} : pc' = [pc EXCEPT ![t] = l]
  BY <1>1 DEF Bystander
<1>3. pc'[t] = l /\ \A u \in Threads : u # t => pc'[u] = pc[u]
  BY <1>2, SetPc DEF PTBInv, ProgramInv
<1>4. /\ Grows /\ kept' = kept /\ scan' = scan /\ pc[t] \in ClientLabels
      /\ \A a \in Addr : mem'[a] = "retired" <=> mem[a] = "retired"
  BY <1>1 DEF Bystander
<1>5. scan[t] = NoScan
  BY <1>4 DEF PTBInv, ThreadInv, LocalInv
<1>6. LocalInv(t)' /\ pc'[t] \notin Scanning \cup {"delete"}
  BY <1>3, <1>4, <1>5, NoScanRecord DEF LocalInv, ClientLabels, Scanning
<1>7. scan' \in [Threads -> ScanRecord]
  BY <1>4 DEF PTBInv, ScanType
<1> QED
  BY <1>1, <1>3, <1>4, <1>6, <1>7, OutsideStep

LEMMA ClearStep ==
    ASSUME PTBInv, NEW t \in Threads, Clear(t)
    PROVE  PTBInv' /\ (R!Next \/ UNCHANGED mm)
<1>1. scan[t] \in ScanRecord /\ scan[t].ihp \in Index /\ scan \in [Threads -> ScanRecord]
  BY RecordFields DEF PTBInv, ScanType
<1>2. CASE At(t, "idle") /\ Goto(t, "clear") /\ Quiet /\ UNCHANGED scan
  <2>1. /\ Elsewhere(t) /\ pc'[t] = "clear" /\ UNCHANGED <<mm, program, kept, scan>>
        /\ \A u \in Threads : u # t => pc'[u] = pc[u]
    BY <1>2 DEF Elsewhere, Goto, Quiet, PTBInv, ProgramInv, LocType
  <2>2. ProgramInv' /\ Grows /\ mem' = mem
    BY <2>1, QuietInv DEF PTBInv
  <2>3. scan[t] = NoScan
    BY <1>2 DEF At, PTBInv, ThreadInv, LocalInv, ClientLabels
  <2>4. LocalInv(t)' /\ pc'[t] \notin Scanning \cup {"delete"}
    BY <2>1, <2>3, NoScanRecord DEF LocalInv, ClientLabels, Scanning
  <2> QED
    BY <1>1, <2>1, <2>2, <2>4, OutsideStep
<1>3. CASE /\ At(t, "clear") /\ ClearHp(t, scan[t].ihp)
           /\ IF scan[t].ihp + 1 < HPs
              THEN scan' = [scan EXCEPT ![t].ihp = @ + 1] /\ UNCHANGED pc
              ELSE scan' = [scan EXCEPT ![t] = NoScan] /\ Goto(t, "idle")
  <2>1. pc[t] = "clear" /\ kept' = kept /\ scan[t].vs = {} /\ scan[t].attempts = 0
    <3>1. pc[t] = "clear" /\ kept' = kept
      BY <1>3 DEF At, ClearHp
    <3> QED
      BY <1>1, <3>1, RecordFields DEF PTBInv, ThreadInv, LocalInv, Scanning
  <2>2. /\ Elsewhere(t) /\ pc'[t] \in {"idle", "clear"}
        /\ \A u \in Threads : u # t => pc'[u] = pc[u]
    BY <1>3, <2>1 DEF Elsewhere, Goto, PTBInv, ProgramInv, LocType
  <2>3. ProgramInv' /\ Grows /\ mem' = mem /\ R!Next
    BY <1>1, <1>3, <2>2, ClearInv DEF PTBInv
  <2>4. CASE scan[t].ihp + 1 < HPs
    <3> DEFINE i == scan[t].ihp + 1
               r == [scan[t] EXCEPT !.ihp = i]
    <3>1. i \in Index
      BY <1>1, <2>4, MemoryAssumption DEF Index
    <3>2. scan' = [scan EXCEPT ![t] = r] /\ pc'[t] = "clear"
      BY <1>1, <1>3, <2>1, <2>4
    <3> HIDE DEF i
    <3>3. r \in ScanRecord /\ r.vs = {} /\ r.attempts = 0
      BY <1>1, <2>1, <3>1, ChangeIhp
    <3> HIDE DEF r
    <3>4. /\ scan' \in [Threads -> ScanRecord] /\ scan'[t] = r
          /\ \A u \in Threads : u # t => scan'[u] = scan[u]
      BY <1>1, <3>2, <3>3
    <3>5. LocalInv(t)' /\ pc'[t] \notin Scanning \cup {"delete"}
      BY <3>2, <3>3, <3>4 DEF LocalInv, ClientLabels, Scanning
    <3> QED
      BY <2>1, <2>2, <2>3, <3>3, <3>4, <3>5, OutsideStep
  <2>5. CASE ~(scan[t].ihp + 1 < HPs)
    <3>1. /\ scan' \in [Threads -> ScanRecord] /\ scan'[t] = NoScan
          /\ \A u \in Threads : u # t => scan'[u] = scan[u]
      BY <1>1, <1>3, <2>5, NoScanRecord
    <3>2. pc'[t] = "idle"
      BY <1>3, <2>5 DEF Goto, PTBInv, ProgramInv, LocType
    <3>3. LocalInv(t)' /\ pc'[t] \notin Scanning \cup {"delete"}
      BY <3>1, <3>2, NoScanRecord DEF LocalInv, ClientLabels, Scanning
    <3> QED
      BY <2>1, <2>2, <2>3, <3>1, <3>3, NoScanRecord, OutsideStep
  <2> QED
    BY <2>4, <2>5
<1> QED
  BY <1>2, <1>3 DEF Clear

LEMMA ClearOneStep ==
    ASSUME PTBInv, NEW t \in Threads, ClearOne(t)
    PROVE  PTBInv' /\ R!Next
<1>1. PICK i \in Index : pc[t] = "idle" /\ ClearHp(t, i) /\ pc' = pc /\ scan' = scan
  BY DEF ClearOne, At
<1>2. Elsewhere(t)
  BY <1>1 DEF Elsewhere, PTBInv, ProgramInv, LocType
<1>3. ProgramInv' /\ Grows /\ mem' = mem /\ R!Next /\ kept' = kept
  BY <1>1, <1>2, ClearInv DEF PTBInv, ClearHp
<1>4. LocalInv(t)' /\ pc'[t] \notin Scanning \cup {"delete"}
  BY <1>1 DEF PTBInv, ThreadInv, LocalInv, Scanning
<1>5. scan' \in [Threads -> ScanRecord]
  BY <1>1 DEF PTBInv, ScanType
<1> QED
  BY <1>1, <1>3, <1>4, <1>5, OutsideStep

LEMMA EndStep ==
    ASSUME PTBInv, NEW t \in Threads, End(t)
    PROVE  PTBInv' /\ UNCHANGED mm
<1>1. /\ pc[t] = "end" /\ scan' = [scan EXCEPT ![t] = NoScan]
      /\ UNCHANGED <<mm, program, kept>>
  BY DEF End, At, Quiet
<1>2. /\ Elsewhere(t) /\ pc'[t] = "idle" /\ \A u \in Threads : u # t => pc'[u] = pc[u]
  BY DEF End, Goto, Elsewhere, PTBInv, ProgramInv, LocType
<1>3. ProgramInv' /\ Grows /\ mem' = mem
  BY <1>1, <1>2, QuietInv DEF PTBInv
<1>4. /\ scan' \in [Threads -> ScanRecord] /\ scan'[t] = NoScan
      /\ \A u \in Threads : u # t => scan'[u] = scan[u]
  BY <1>1, NoScanRecord DEF PTBInv, ScanType
<1>5. scan[t].vs = {}
  BY <1>1 DEF PTBInv, ThreadInv, LocalInv
<1>6. LocalInv(t)' /\ pc'[t] \notin Scanning \cup {"delete"}
  BY <1>2, <1>4, NoScanRecord DEF LocalInv, ClientLabels, Scanning
<1> QED
  BY <1>1, <1>2, <1>3, <1>4, <1>5, <1>6, NoScanRecord, OutsideStep

\* The object of retire() is in one place, the set vs of its thread.
LEMMA LiberateStep ==
    ASSUME PTBInv, NEW t \in Threads, Retire(t)
    PROVE  PTBInv' /\ R!Next
<1> DEFINE a == loc[t].ptr
           r == [NoScan EXCEPT !.vs = {a}]
<1>1. /\ pc[t] = "retire" /\ Goto(t, "version") /\ Protections(hp, {a})
      /\ scan' = [scan EXCEPT ![t].vs = {a}] /\ loc' = [loc EXCEPT ![t] = NoLocals]
      /\ UNCHANGED <<link, valid, kept>>
  BY DEF Retire, At
<1>2. /\ Elsewhere(t) /\ pc'[t] = "version" /\ \A u \in Threads : u # t => pc'[u] = pc[u]
  BY <1>1 DEF Goto, Elsewhere, PTBInv, ProgramInv, LocType
<1>3. /\ ProgramInv' /\ Grows /\ R!Next /\ a \in Addr /\ mem[a] = "used"
      /\ mem' = [mem EXCEPT ![a] = "retired"]
  BY <1>1, <1>2, RetireInv DEF PTBInv
<1>4. scan[t] = NoScan /\ scan \in [Threads -> ScanRecord] /\ mem \in [Addr -> {"none", "used", "retired"}]
  BY <1>1 DEF PTBInv, ThreadInv, LocalInv, ScanType, ProgramInv, MemType
<1>5. scan' = [scan EXCEPT ![t] = r]
  BY <1>1, <1>4
<1> HIDE DEF a
<1>6. /\ r \in ScanRecord /\ r.vs = {a} /\ r.it = 0 /\ r.ihp = 0 /\ r.attempts = 0
  BY <1>3, NoScanRecord, ChangeVs
<1> HIDE DEF r
<1>7. /\ scan' \in [Threads -> ScanRecord] /\ scan'[t] = r
      /\ \A u \in Threads : u # t => scan'[u] = scan[u]
  BY <1>4, <1>5, <1>6
<1>8. ThreadInv(t)'
  <2>1. LocalInv(t)'
    BY <1>2, <1>6, <1>7, MemoryAssumption DEF LocalInv, ClientLabels, Scanning
  <2>2. \A p \in Slot : ~(p[1] < 0 \/ (p[1] = 0 /\ p[2] < 0))
    BY MemoryAssumption DEF Slot, Threads, Index
  <2>3. SeenInv(t)'
    BY <1>2, <1>6, <1>7, <2>2 DEF SeenInv, Before, Passed
  <2>4. HandoverInv(t)' /\ Claims(t)'
    BY <1>2, <1>6, <1>7 DEF HandoverInv, Claims, Late
  <2> QED
    BY <2>1, <2>3, <2>4 DEF ThreadInv
<1>9. ASSUME NEW u \in Threads, u # t
      PROVE  ThreadInv(u)'
  <2>1. OnlyOf(t)
    BY <1>1, <1>2, <1>3, <1>7 DEF OnlyOf, Looks
  <2> QED
    BY <1>9, <2>1, OtherStays
<1>10. /\ \A s \in Slot : kept[s].val # a
       /\ \A u \in Threads : a \notin scan[u].vs
  <2>1. Null # a
    BY <1>3, MemoryAssumption DEF Null, Addr
  <2> QED
    BY <1>3, <2>1 DEF PTBInv, PlaceInv
<1>11. PlaceInv'
  <2>1. \A u \in Threads : \A b \in scan'[u].vs :
          IF u = t THEN b = a ELSE b \in scan[u].vs /\ b # a
    BY <1>6, <1>7, <1>10
  <2>2. ASSUME NEW s \in Slot, kept[s].val # Null
        PROVE  mem'[kept[s].val] = "retired" /\ Passed(since', kept[s].val, s[1], s[2])
    <3>1. kept[s].val \in Addr /\ mem[kept[s].val] = "retired"
          /\ Passed(since, kept[s].val, s[1], s[2])
      BY <2>2 DEF PTBInv, ScanType, Handover, PlaceInv
    <3>2. s[1] \in Nat /\ s[2] \in Nat
      BY MemoryAssumption DEF Slot, Threads, Index
    <3>3. Passed(since', kept[s].val, s[1], s[2])
      BY <1>3, <3>1, <3>2, PassedStays DEF PTBInv, ProgramInv
    <3> QED
      BY <1>3, <1>4, <3>1, <3>3
  <2>3. \A s, p \in Slot : kept[s].val = kept[p].val /\ kept[s].val # Null => s = p
    BY DEF PTBInv, PlaceInv
  <2>4. ASSUME NEW u \in Threads, NEW b \in scan'[u].vs
        PROVE  /\ mem'[b] = "retired"
               /\ \A s \in Slot : kept[s].val # b
               /\ \A w \in Threads : b \in scan'[w].vs => w = u
    <3>1. CASE u = t
      <4>1. b = a
        BY <2>1, <3>1
      <4>2. \A w \in Threads : b \in scan'[w].vs => w = t
        BY <2>1, <4>1
      <4> QED
        BY <1>3, <1>4, <1>10, <3>1, <4>1, <4>2
    <3>2. CASE u # t
      <4>1. b \in scan[u].vs /\ b # a
        BY <2>1, <3>2
      <4>2. /\ mem[b] = "retired" /\ \A s \in Slot : kept[s].val # b
            /\ \A w \in Threads : b \in scan[w].vs => w = u
        BY <4>1 DEF PTBInv, PlaceInv
      <4>3. mem'[b] = "retired"
        BY <1>3, <1>4, <4>1, <4>2
      <4>4. \A w \in Threads : b \in scan'[w].vs => w = u
        BY <2>1, <4>1, <4>2
      <4> QED
        BY <4>2, <4>3, <4>4
    <3> QED
      BY <3>1, <3>2
  <2>5. ASSUME NEW b \in Addr, mem'[b] = "retired"
        PROVE  (\E s \in Slot : kept[s].val = b) \/ (\E u \in Threads : b \in scan'[u].vs)
    <3>1. CASE b = a
      BY <1>6, <1>7, <3>1
    <3>2. CASE b # a
      <4>1. mem[b] = "retired"
        BY <1>3, <1>4, <2>5, <3>2
      <4>2. \A u \in Threads : b \in scan[u].vs => b \in scan'[u].vs
        BY <1>4, <1>7, NoScanRecord
      <4> QED
        BY <4>1, <4>2 DEF PTBInv, PlaceInv
    <3> QED
      BY <3>1, <3>2
  <2> QED
    BY <1>1, <2>2, <2>3, <2>4, <2>5 DEF PlaceInv
<1> QED
  BY <1>1, <1>3, <1>7, <1>8, <1>9, <1>11 DEF PTBInv, ScanType

\* deleteAll() deletes what no hp has held all the time, once.
LEMMA DeleteAllStep ==
    ASSUME PTBInv, NEW t \in Threads, DeleteAll(t)
    PROVE  PTBInv' /\ R!Next
<1>1. pc[t] = "delete" /\ kept' = kept
  BY DEF DeleteAll, At
<1>2. PICK a \in scan[t].vs :
        /\ Delete({a}) /\ UNCHANGED program
        /\ scan' = [scan EXCEPT ![t] = [NoScan EXCEPT !.vs = scan[t].vs \ {a}]]
        /\ Goto(t, IF scan[t].vs = {a} THEN "idle" ELSE "delete")
  BY DEF DeleteAll
<1> DEFINE vs == scan[t].vs \ {a}
           r == [NoScan EXCEPT !.vs = vs]
<1>3. a \in Addr /\ mem[a] = "retired" /\ since[a] = {} /\ scan[t].vs \in SUBSET Addr
      /\ \A b \in scan[t].vs : since[b] = {}
  BY <1>1, RecordFields DEF PTBInv, ScanType, PlaceInv, ThreadInv, SeenInv
<1>4. /\ Elsewhere(t) /\ \A u \in Threads : u # t => pc'[u] = pc[u]
      /\ pc'[t] = (IF scan[t].vs = {a} THEN "idle" ELSE "delete")
  BY <1>2 DEF Goto, Elsewhere, PTBInv, ProgramInv, LocType
<1>5. /\ ProgramInv' /\ Grows /\ R!Next /\ mem' = [mem EXCEPT ![a] = "none"]
      /\ since' = since
  BY <1>2, <1>3, <1>4, DeleteInv DEF PTBInv, Delete
<1>6. r \in ScanRecord /\ r.vs = vs /\ r.it = 0 /\ r.ihp = 0 /\ r.attempts = 0
      /\ (vs = {} => r = NoScan)
  <2>1. r \in ScanRecord /\ r.vs = vs /\ r.it = 0 /\ r.ihp = 0 /\ r.attempts = 0
    BY <1>3, NoScanRecord, ChangeVs
  <2>2. [NoScan EXCEPT !.vs = {}] = NoScan
    BY DEF NoScan
  <2> QED
    BY <2>1, <2>2
<1>7. pc'[t] = "idle" => vs = {}
  BY <1>4
<1>8. scan' = [scan EXCEPT ![t] = r]
  BY <1>2
<1>9. \A b : b \in vs <=> b \in scan[t].vs /\ b # a
  OBVIOUS
<1> HIDE DEF r, vs
<1>10. /\ scan' \in [Threads -> ScanRecord] /\ scan'[t] = r
       /\ \A u \in Threads : u # t => scan'[u] = scan[u]
  BY <1>6, <1>8 DEF PTBInv, ScanType
<1>11. ThreadInv(t)'
  <2>1. pc'[t] \in {"idle", "delete"} /\ pc'[t] \notin Scanning
    BY <1>4 DEF Scanning
  <2>2. LocalInv(t)'
    BY <1>6, <1>7, <1>10, <2>1 DEF LocalInv, ClientLabels
  <2> QED
    BY <1>3, <1>5, <1>6, <1>9, <1>10, <2>1, <2>2, OutsideInv
<1>12. ASSUME NEW u \in Threads, u # t
       PROVE  ThreadInv(u)'
  <2>1. OnlyOf(t)
    BY <1>1, <1>4, <1>5, <1>10 DEF OnlyOf, Looks
  <2> QED
    BY <1>12, <2>1, OtherStays
<1>13. PlaceInv'
  <2>1. /\ \A s \in Slot : kept[s].val # a
        /\ \A u \in Threads : u # t => a \notin scan[u].vs
    BY <1>2 DEF PTBInv, PlaceInv
  <2>2. \A u \in Threads : \A b : b \in scan'[u].vs <=> b \in scan[u].vs /\ b # a
    BY <1>6, <1>9, <1>10, <2>1
  <2>3. \A b \in Addr : mem'[b] = "retired" <=> mem[b] = "retired" /\ b # a
    BY <1>3, <1>5 DEF PTBInv, ProgramInv, MemType
  <2>4. ASSUME NEW s \in Slot, kept[s].val # Null
        PROVE  mem'[kept[s].val] = "retired" /\ Passed(since', kept[s].val, s[1], s[2])
    <3>1. kept[s].val \in Addr /\ mem[kept[s].val] = "retired"
          /\ Passed(since, kept[s].val, s[1], s[2])
      BY <2>4 DEF PTBInv, ScanType, Handover, PlaceInv
    <3> QED
      BY <1>5, <2>1, <2>3, <3>1
  <2>5. \A s, p \in Slot : kept[s].val = kept[p].val /\ kept[s].val # Null => s = p
    BY DEF PTBInv, PlaceInv
  <2>6. ASSUME NEW u \in Threads, NEW b \in scan'[u].vs
        PROVE  /\ mem'[b] = "retired"
               /\ \A s \in Slot : kept[s].val # b
               /\ \A w \in Threads : b \in scan'[w].vs => w = u
    <3>1. b \in scan[u].vs /\ b # a /\ b \in Addr
      BY <2>2 DEF PTBInv, ScanType, ScanRecord
    <3>2. /\ mem[b] = "retired" /\ \A s \in Slot : kept[s].val # b
          /\ \A w \in Threads : b \in scan[w].vs => w = u
      BY <3>1 DEF PTBInv, PlaceInv
    <3> QED
      BY <2>2, <2>3, <3>1, <3>2
  <2>7. \A b \in Addr : mem'[b] = "retired" =>
          (\E s \in Slot : kept[s].val = b) \/ (\E u \in Threads : b \in scan'[u].vs)
    BY <2>2, <2>3 DEF PTBInv, PlaceInv
  <2> QED
    BY <1>1, <2>4, <2>5, <2>6, <2>7 DEF PlaceInv
<1> QED
  BY <1>1, <1>5, <1>10, <1>11, <1>12, <1>13 DEF PTBInv, ScanType

-----------------------------------------------------------------------------

LEMMA PTBStart == Init => PTBInv /\ R!InitMemory
<1> SUFFICES ASSUME Init PROVE PTBInv /\ R!InitMemory
  OBVIOUS
<1>1. ProgramInv /\ R!InitMemory
  BY InitProgram DEF Init
<1>2. /\ kept = [s \in Slot |-> NoValue] /\ scan = [t \in Threads |-> NoScan]
      /\ \A t \in Threads : pc[t] = "idle"
      /\ \A a \in Addr : mem[a] = "none"
  BY DEF Init, InitClient, InitMemory
<1>3. ScanType
  BY <1>2, NoScanRecord DEF ScanType
<1>4. PlaceInv
  BY <1>2, NoScanRecord DEF PlaceInv, NoValue
<1>5. ASSUME NEW t \in Threads
      PROVE  ThreadInv(t)
  BY <1>2, NoScanRecord
     DEF ThreadInv, LocalInv, SeenInv, HandoverInv, Claims, Scanning, ClientLabels
<1> QED
  BY <1>1, <1>3, <1>4, <1>5 DEF PTBInv

LEMMA EveryStep ==
    ASSUME PTBInv, [Next]_vars
    PROVE  PTBInv' /\ [R!Next]_mm
<1>1. CASE UNCHANGED vars
  <2>1. ProgramInv' /\ UNCHANGED <<mm, hp, mem, since, kept, scan, pc>>
    BY <1>1, StutterInv DEF PTBInv, vars, mm
  <2>2. ScanType' /\ PlaceInv'
    BY <2>1 DEF PTBInv, ScanType, PlaceInv, Passed
  <2>3. ASSUME NEW t \in Threads
        PROVE  ThreadInv(t)'
    BY <2>1 DEF PTBInv, ThreadInv, LocalInv, SeenInv, HandoverInv, Claims, Held, Late, Giver,
                Before, Beyond, Passed, Here
  <2> QED
    BY <2>1, <2>2, <2>3 DEF PTBInv
<1>2. ASSUME NEW t \in Threads, Client(t) \/ Clear(t) \/ ClearOne(t) \/ Scan(t)
      PROVE  PTBInv' /\ [R!Next]_mm
  BY <1>2, ClientStep, ClearStep, ClearOneStep, LiberateStep, VersionStep, ValueStep, SameStep,
     LookStep, GiveGetStep, RetryStep, DeleteAllStep, EndStep DEF Scan
<1> QED
  BY <1>1, <1>2 DEF Next

\* The inductive invariant of liberate(): where the retired objects are, what
\* each liberator has passed, and why its third DCAS does not fail.
THEOREM PassTheBuckInvariant == Spec => []PTBInv
<1>1. Init => PTBInv
  BY PTBStart
<1>2. PTBInv /\ [Next]_vars => PTBInv'
  BY EveryStep
<1> QED
  BY <1>1, <1>2, PTL DEF Spec

\* What a thread has protected is not deleted by any liberate(), for any
\* number of threads, hps and objects.
THEOREM GuardedIsNotDeleted == Spec => []NoUseAfterFree
<1>1. PTBInv => NoUseAfterFree
  BY SafeUse DEF PTBInv
<1> QED
  BY <1>1, PassTheBuckInvariant, PTL

\* A retired object is in one handover or in one set vs until it is deleted:
\* no DCAS, won or lost, loses or doubles it.
THEOREM LiberatedOnce == Spec => []OnePlace
<1>1. ASSUME PTBInv, NEW a \in Addr
      PROVE  Cardinality(Places[a]) = IF mem[a] = "retired" THEN 1 ELSE 0
  <2> DEFINE K == {s \in Slot : kept[s].val = a}
             V == {t \in Threads : a \in scan[t].vs}
  <2>1. Places[a] = K \cup V
    BY DEF Places
  <2>2. a # Null
    BY MemoryAssumption DEF Null, Addr
  <2>3. /\ mem[a] = "retired" => K # {} \/ V # {}
        /\ K # {} \/ V # {} => mem[a] = "retired"
        /\ \A s, p \in K : s = p
        /\ \A t, u \in V : t = u
        /\ K = {} \/ V = {}
    BY <1>1, <2>2 DEF PTBInv, PlaceInv
  <2>4. CASE mem[a] = "retired"
    <3>1. \E x : K \cup V = {x}
      <4>1. CASE K # {}
        <5>1. PICK s \in K : TRUE
          BY <4>1
        <5>2. K \cup V = {s}
          BY <2>3, <4>1, <5>1
        <5> QED
          BY <5>2
      <4>2. CASE V # {}
        <5>1. PICK u \in V : TRUE
          BY <4>2
        <5>2. K \cup V = {u}
          BY <2>3, <4>2, <5>1
        <5> QED
          BY <5>2
      <4> QED
        BY <2>3, <2>4, <4>1, <4>2
    <3> QED
      BY <2>1, <2>4, <3>1, FS_Singleton
  <2>5. CASE mem[a] # "retired"
    <3>1. K \cup V = {}
      BY <2>3, <2>5
    <3> QED
      BY <2>1, <2>5, <3>1, FS_EmptySet
  <2> QED
    BY <2>4, <2>5
<1>2. PTBInv => OnePlace
  BY <1>1 DEF OnePlace, OneOf
<1> QED
  BY <1>2, PassTheBuckInvariant, PTL

\* PassTheBuck implements what the data structures rely on: only retired
\* objects are deleted, once, and none that an hp has held all the time.
THEOREM PassTheBuckPromise == Spec => Promise
<1>1. Init => R!InitMemory
  BY PTBStart
<1>2. PTBInv /\ [Next]_vars => [R!Next]_mm
  BY EveryStep
<1> QED
  BY <1>1, <1>2, PassTheBuckInvariant, PTL DEF Spec, Promise, R!Spec, mm, R!mm

=============================================================================
