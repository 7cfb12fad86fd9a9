------------------------ MODULE HazardPointersProofs -------------------------
(***************************************************************************)
(* HazardPointers implements Reclaimer, for any number of threads, hps and *)
(* objects, and loses no object.  What it adds to ProgramInv: the lists    *)
(* have every retired object in one place, and a scan has seen that none   *)
(* of the hps it has passed has held its object ever since it was retired, *)
(* which stays so.                                                         *)
(***************************************************************************)
EXTENDS HazardPointers, ReclaimerProofs

ScanRecord == [iret : Nat \ {0}, it : Nat, ihp : Index]
ListInv ==
    /\ kept \in [Threads -> Seq(Addr)]
    /\ scan \in [Threads -> ScanRecord]
    /\ \A t \in Threads : \A k \in DOMAIN kept[t] : mem[kept[t][k]] = "retired"
    /\ \A t, u \in Threads : \A k \in DOMAIN kept[t], l \in DOMAIN kept[u] :
         kept[t][k] = kept[u][l] => t = u /\ k = l
    /\ \A a \in Addr : mem[a] = "retired" =>
         \E t \in Threads : \E k \in DOMAIN kept[t] : kept[t][k] = a

ScanInv(t) ==
    /\ pc[t] \in {"look", "delete"} => scan[t].iret \in DOMAIN kept[t]
    /\ pc[t] = "look" =>
         scan[t].it < N /\ Passed(since, Obj(t), scan[t].it, scan[t].ihp)
    /\ pc[t] = "delete" => since[Obj(t)] = {}

HPInv == ProgramInv /\ ListInv /\ \A t \in Threads : ScanInv(t)

\* A thread whose list and scan do not change, and whose objects others do
\* not delete.
LEMMA ScanStays ==
    ASSUME HPInv, ProgramInv', Grows, NEW t \in Threads,
           pc'[t] \in {"look", "delete"} => pc'[t] = pc[t],
           kept'[t] = kept[t], scan'[t] = scan[t]
    PROVE  ScanInv(t)'
<1> SUFFICES ASSUME pc'[t] \in {"look", "delete"}
             PROVE  ScanInv(t)'
  BY DEF ScanInv
<1>1. pc'[t] = pc[t] /\ Obj(t)' = Obj(t) /\ scan[t].iret \in DOMAIN kept[t]
  BY DEF HPInv, ScanInv, Obj
<1>2. Obj(t) \in Addr /\ mem[Obj(t)] = "retired"
  BY <1>1 DEF HPInv, ListInv, Obj
<1>3. scan[t].it \in Nat /\ scan[t].ihp \in Nat
  BY DEF HPInv, ListInv, ScanRecord, Index
<1>4. CASE pc[t] = "look"
  <2>1. Passed(since, Obj(t), scan[t].it, scan[t].ihp)
    BY <1>4 DEF HPInv, ScanInv
  <2>2. Passed(since', Obj(t), scan[t].it, scan[t].ihp)
    BY <1>2, <1>3, <2>1, PassedStays DEF HPInv, ProgramInv
  <2> QED
    BY <1>1, <1>4, <2>2 DEF HPInv, ScanInv
<1>5. CASE pc[t] = "delete"
  <2>1. since[Obj(t)] = {}
    BY <1>5 DEF HPInv, ScanInv
  <2>2. since'[Obj(t)] = {}
    BY <1>2, <2>1 DEF Grows
  <2> QED
    BY <1>1, <1>5, <2>2 DEF HPInv, ScanInv
<1> QED
  BY <1>1, <1>4, <1>5

\* Where Round leads: to the end of the call, or to the first hp.
LEMMA RoundInv ==
    ASSUME NEW t \in Threads, NEW list \in Seq(Addr), NEW iret \in Nat \ {0},
           HPInv, Round(t, list, iret), kept' = [kept EXCEPT ![t] = list]
    PROVE  /\ scan' \in [Threads -> ScanRecord]
           /\ \A u \in Threads : u # t => scan'[u] = scan[u]
           /\ Elsewhere(t)
           /\ ScanInv(t)'
<1>1. pc'[t] \in {"look", "idle"} /\ Elsewhere(t)
  BY DEF Round, Goto, Elsewhere, HPInv, ProgramInv, LocType
<1>2. 0 \in Index /\ N > 0
  BY MemoryAssumption DEF Index
<1>3. /\ scan' \in [Threads -> ScanRecord]
      /\ \A u \in Threads : u # t => scan'[u] = scan[u]
  BY <1>2 DEF Round, NoScan, HPInv, ListInv, ScanRecord
<1>4. ASSUME pc'[t] = "look"
      PROVE  iret <= Len(list) /\ scan'[t] = [iret |-> iret, it |-> 0, ihp |-> 0]
  BY <1>4 DEF Round, NoScan, Goto, HPInv, ProgramInv, LocType, ListInv
<1>5. ASSUME pc'[t] = "look"
      PROVE  scan'[t].iret \in DOMAIN kept'[t] /\ scan'[t].it < N
             /\ Passed(since', kept'[t][iret], 0, 0)
  <2>1. kept'[t] = list
    BY DEF HPInv, ListInv
  <2>2. \A p \in Slot : ~(p[1] < 0 \/ (p[1] = 0 /\ p[2] < 0))
    BY DEF Slot, Threads, Index
  <2> QED
    BY <1>2, <1>4, <1>5, <2>1, <2>2 DEF Passed
<1> QED
  BY <1>1, <1>3, <1>4, <1>5 DEF ScanInv, Obj

LEMMA ListsStart == Init => HPInv /\ R!InitMemory
<1> SUFFICES ASSUME Init PROVE HPInv /\ R!InitMemory
  OBVIOUS
<1>1. ProgramInv /\ R!InitMemory
  BY InitProgram DEF Init
<1>2. 0 \in Index
  BY MemoryAssumption DEF Index
<1>3. ListInv
  BY <1>2 DEF Init, InitClient, InitMemory, ListInv, NoScan, ScanRecord
<1>4. \A t \in Threads : ScanInv(t)
  BY DEF Init, InitClient, ScanInv
<1> QED
  BY <1>1, <1>3, <1>4 DEF HPInv

\* The program changes neither the lists nor what is retired.
LEMMA ClientStep ==
    ASSUME HPInv, NEW t \in Threads, Client(t)
    PROVE  HPInv' /\ (R!Next \/ UNCHANGED mm)
<1>1. ProgramInv' /\ Bystander(t) /\ (R!Next \/ UNCHANGED mm)
  BY ClientInv DEF HPInv
<1>2. kept' = kept /\ scan' = scan /\ \A a \in Addr : mem'[a] = "retired" <=> mem[a] = "retired"
  BY <1>1 DEF Bystander
<1>3. ListInv'
  BY <1>2 DEF HPInv, ListInv
<1>4. \A u \in Threads : pc'[u] \in {"look", "delete"} => pc'[u] = pc[u]
  BY <1>1 DEF Bystander, ClientLabels, HPInv, ProgramInv, LocType
<1>5. \A u \in Threads : ScanInv(u)'
  BY <1>1, <1>2, <1>4, ScanStays DEF Bystander
<1> QED
  BY <1>1, <1>3, <1>5 DEF HPInv

LEMMA ClearStep ==
    ASSUME HPInv, NEW t \in Threads, Clear(t)
    PROVE  HPInv' /\ (R!Next \/ UNCHANGED mm)
<1>1. CASE At(t, "idle") /\ Goto(t, "clear") /\ UNCHANGED <<mm, program, reclaimer>>
  <2>1. Elsewhere(t) /\ UNCHANGED <<mm, program, kept, scan>>
    BY <1>1 DEF Elsewhere, Goto, HPInv, ProgramInv, LocType, reclaimer
  <2>2. ProgramInv' /\ Grows /\ mem' = mem
    BY <2>1, QuietInv DEF HPInv
  <2>3. ListInv'
    BY <2>1, <2>2 DEF HPInv, ListInv
  <2>4. \A u \in Threads : pc'[u] \in {"look", "delete"} => pc'[u] = pc[u]
    BY <1>1 DEF Goto, HPInv, ProgramInv, LocType
  <2>5. \A u \in Threads : ScanInv(u)'
    BY <2>1, <2>2, <2>4, ScanStays
  <2> QED
    BY <2>1, <2>2, <2>3, <2>5 DEF HPInv
<1>2. CASE /\ At(t, "clear") /\ ClearHp(t, scan[t].ihp)
           /\ IF scan[t].ihp + 1 < HPs
              THEN scan' = [scan EXCEPT ![t].ihp = @ + 1] /\ UNCHANGED pc
              ELSE scan' = [scan EXCEPT ![t] = NoScan] /\ Goto(t, "idle")
  <2>1. scan[t].ihp \in Index /\ kept' = kept
    BY <1>2 DEF HPInv, ListInv, ScanRecord, ClearHp
  <2>2. Elsewhere(t) /\ \A u \in Threads : pc'[u] \in {"look", "delete"} => u # t /\ pc'[u] = pc[u]
    BY <1>2 DEF Elsewhere, At, Goto, HPInv, ProgramInv, LocType
  <2>3. ProgramInv' /\ Grows /\ mem' = mem /\ R!Next
    BY <1>2, <2>1, <2>2, ClearInv DEF HPInv
  <2>4. /\ scan' \in [Threads -> ScanRecord]
        /\ \A u \in Threads : u # t => scan'[u] = scan[u]
    <3>1. 0 \in Index /\ HPs \in Nat
      BY MemoryAssumption DEF Index
    <3>2. CASE scan[t].ihp + 1 < HPs
      <4>1. scan[t].ihp + 1 \in Index
        BY <2>1, <3>1, <3>2 DEF Index
      <4>2. scan \in [Threads -> ScanRecord]
        BY DEF HPInv, ListInv
      <4>3. [scan[t] EXCEPT !.ihp = @ + 1] \in ScanRecord
        BY <4>1, <4>2 DEF ScanRecord
      <4>4. scan' = [scan EXCEPT ![t] = [scan[t] EXCEPT !.ihp = @ + 1]]
        BY <1>2, <3>2, <4>2
      <4> QED
        BY <4>2, <4>3, <4>4
    <3>3. CASE ~(scan[t].ihp + 1 < HPs)
      <4>1. scan' = [scan EXCEPT ![t] = NoScan]
        BY <1>2, <3>3
      <4>2. NoScan \in ScanRecord /\ scan \in [Threads -> ScanRecord]
        BY <3>1 DEF HPInv, ListInv, NoScan, ScanRecord
      <4> QED
        BY <4>1, <4>2
    <3> QED
      BY <3>2, <3>3
  <2>5. ListInv'
    BY <2>1, <2>3, <2>4 DEF HPInv, ListInv
  <2>6. ASSUME NEW u \in Threads
        PROVE  ScanInv(u)'
    <3>1. CASE u = t
      BY <2>2, <3>1 DEF ScanInv
    <3>2. CASE u # t
      BY <2>1, <2>2, <2>3, <2>4, <3>2, ScanStays
    <3> QED
      BY <3>1, <3>2
  <2> QED
    BY <2>3, <2>5, <2>6 DEF HPInv
<1> QED
  BY <1>1, <1>2 DEF Clear

LEMMA RetireStepInv ==
    ASSUME HPInv, NEW t \in Threads, Retire(t)
    PROVE  HPInv' /\ R!Next
<1> DEFINE a == loc[t].ptr
           list == Append(kept[t], a)
<1>1. pc[t] = "retire" /\ Round(t, list, 1) /\ kept' = [kept EXCEPT ![t] = list]
      /\ Protections(hp, {a}) /\ loc' = [loc EXCEPT ![t] = NoLocals] /\ UNCHANGED <<link, valid>>
  BY DEF Retire, At
<1>2. a \in Addr /\ mem[a] = "used"
  BY <1>1 DEF HPInv, ProgramInv, LinkInv
<1>3. kept[t] \in Seq(Addr) /\ list \in Seq(Addr)
  BY <1>2 DEF HPInv, ListInv
<1>4. /\ scan' \in [Threads -> ScanRecord] /\ Elsewhere(t) /\ ScanInv(t)'
      /\ \A u \in Threads : u # t => scan'[u] = scan[u]
  <2> HIDE DEF list
  <2>1. 1 \in Nat \ {0}
    OBVIOUS
  <2> QED
    BY <1>1, <1>3, <2>1, RoundInv
<1>5. ProgramInv' /\ Grows /\ R!Next /\ mem' = [mem EXCEPT ![a] = "retired"]
  BY <1>1, <1>4, RetireInv DEF HPInv
<1>6. ListInv'
  <2>1. /\ kept'[t] = list
        /\ \A u \in Threads : u # t => kept'[u] = kept[u]
        /\ kept' \in [Threads -> Seq(Addr)]
    BY <1>1, <1>3 DEF HPInv, ListInv
  <2>2. /\ Len(kept[t]) \in Nat /\ DOMAIN kept[t] = 1 .. Len(kept[t])
        /\ DOMAIN list = 1 .. Len(kept[t]) + 1
        /\ list[Len(kept[t]) + 1] = a
        /\ \A k \in DOMAIN kept[t] : list[k] = kept[t][k]
    BY <1>2, <1>3
  <2>3. \A u \in Threads : \A k \in DOMAIN kept[u] : kept[u][k] # a /\ kept[u][k] \in Addr
    BY <1>2 DEF HPInv, ListInv
  <2>4. \A u \in Threads : \A k \in DOMAIN kept'[u] :
          IF u = t /\ k = Len(kept[t]) + 1 THEN kept'[u][k] = a
          ELSE k \in DOMAIN kept[u] /\ kept'[u][k] = kept[u][k]
    <3> SUFFICES ASSUME NEW u \in Threads, NEW k \in DOMAIN kept'[u]
                 PROVE  IF u = t /\ k = Len(kept[t]) + 1 THEN kept'[u][k] = a
                        ELSE k \in DOMAIN kept[u] /\ kept'[u][k] = kept[u][k]
      OBVIOUS
    <3>1. CASE u = t
      <4>1. k \in 1 .. Len(kept[t]) + 1
        BY <2>1, <2>2, <3>1
      <4>2. k = Len(kept[t]) + 1 \/ k \in DOMAIN kept[t]
        BY <2>2, <4>1
      <4> QED
        BY <2>1, <2>2, <3>1, <4>2
    <3>2. CASE u # t
      BY <2>1, <3>2
    <3> QED
      BY <3>1, <3>2
  <2>5. \A u \in Threads : \A k \in DOMAIN kept'[u] : mem'[kept'[u][k]] = "retired"
    BY <1>2, <1>5, <2>3, <2>4 DEF HPInv, ProgramInv, MemType, ListInv
  <2>6. \A u, w \in Threads : \A k \in DOMAIN kept'[u], l \in DOMAIN kept'[w] :
          kept'[u][k] = kept'[w][l] => u = w /\ k = l
    <3> SUFFICES ASSUME NEW u \in Threads, NEW w \in Threads,
                        NEW k \in DOMAIN kept'[u], NEW l \in DOMAIN kept'[w],
                        kept'[u][k] = kept'[w][l]
                 PROVE  u = w /\ k = l
      OBVIOUS
    <3>1. (u = t /\ k = Len(kept[t]) + 1) \/
          (k \in DOMAIN kept[u] /\ kept'[u][k] = kept[u][k] /\ kept[u][k] # a)
      BY <2>3, <2>4
    <3>2. (w = t /\ l = Len(kept[t]) + 1) \/
          (l \in DOMAIN kept[w] /\ kept'[w][l] = kept[w][l] /\ kept[w][l] # a)
      BY <2>3, <2>4
    <3>3. CASE u = t /\ k = Len(kept[t]) + 1
      <4>1. kept'[u][k] = a
        BY <2>4, <3>3
      <4> QED
        BY <3>2, <3>3, <4>1
    <3>4. CASE w = t /\ l = Len(kept[t]) + 1
      <4>1. kept'[w][l] = a
        BY <2>4, <3>4
      <4> QED
        BY <3>1, <3>4, <4>1
    <3>5. CASE k \in DOMAIN kept[u] /\ l \in DOMAIN kept[w] /\ kept[u][k] = kept[w][l]
      <4>1. \A x, y \in Threads : \A m \in DOMAIN kept[x], n \in DOMAIN kept[y] :
              kept[x][m] = kept[y][n] => x = y /\ m = n
        BY DEF HPInv, ListInv
      <4> QED
        BY <3>5, <4>1
    <3> QED
      BY <3>1, <3>2, <3>3, <3>4, <3>5
  <2>7. ASSUME NEW b \in Addr, mem'[b] = "retired"
        PROVE  \E u \in Threads : \E k \in DOMAIN kept'[u] : kept'[u][k] = b
    <3>1. CASE b = a
      BY <2>1, <2>2, <3>1
    <3>2. CASE b # a
      <4>1. mem[b] = "retired"
        BY <1>2, <1>5, <2>7, <3>2 DEF HPInv, ProgramInv, MemType
      <4>2. PICK u \in Threads : \E k \in DOMAIN kept[u] : kept[u][k] = b
        BY <4>1 DEF HPInv, ListInv
      <4>3. PICK k \in DOMAIN kept[u] : kept[u][k] = b
        BY <4>2
      <4>4. k \in DOMAIN kept'[u] /\ kept'[u][k] = b
        <5>1. CASE u = t
          <6>1. k \in 1 .. Len(kept[t]) /\ kept[t][k] = b
            BY <2>2, <4>3, <5>1
          <6>2. k \in DOMAIN list /\ list[k] = b
            BY <2>2, <6>1
          <6> QED
            BY <2>1, <5>1, <6>2
        <5>2. CASE u # t
          BY <2>1, <4>3, <5>2
        <5> QED
          BY <5>1, <5>2
      <4> QED
        BY <4>4
    <3> QED
      BY <3>1, <3>2
  <2> QED
    BY <1>4, <2>1, <2>5, <2>6, <2>7 DEF ListInv
<1>7. ASSUME NEW u \in Threads, u # t
      PROVE  ScanInv(u)'
  <2>1. kept'[u] = kept[u] /\ scan'[u] = scan[u] /\ pc'[u] = pc[u]
    BY <1>1, <1>4, <1>7 DEF Elsewhere, HPInv, ProgramInv, LocType, ListInv
  <2> QED
    BY <1>5, <2>1, ScanStays
<1> QED
  BY <1>4, <1>5, <1>6, <1>7 DEF HPInv

\* What thread t looks at while it scans.
LEMMA ScannedObj ==
    ASSUME HPInv, NEW t \in Threads, pc[t] \in {"look", "delete"}
    PROVE  /\ scan[t].iret \in DOMAIN kept[t] /\ scan[t].iret \in Nat \ {0}
           /\ Obj(t) \in Addr /\ mem[Obj(t)] = "retired"
           /\ kept[t] \in Seq(Addr) /\ scan[t] \in ScanRecord
BY DEF HPInv, ListInv, ScanInv, Obj, ScanRecord

LEMMA LookStep ==
    ASSUME HPInv, NEW t \in Threads, Look(t)
    PROVE  HPInv' /\ UNCHANGED mm
<1>1. pc[t] = "look" /\ UNCHANGED <<mm, program, kept>>
  BY DEF Look, At
<1>2. /\ scan[t].iret \in DOMAIN kept[t] /\ scan[t].iret \in Nat \ {0}
      /\ Obj(t) \in Addr /\ mem[Obj(t)] = "retired"
      /\ kept[t] \in Seq(Addr) /\ scan[t] \in ScanRecord
  BY <1>1, ScannedObj
<1>3. scan[t].it \in 0 .. N-1 /\ scan[t].ihp \in Index
      /\ Passed(since, Obj(t), scan[t].it, scan[t].ihp)
  BY <1>1, <1>2, MemoryAssumption DEF HPInv, ScanInv, ScanRecord
<1>4. /\ scan' \in [Threads -> ScanRecord] /\ Elsewhere(t) /\ ScanInv(t)'
      /\ \A u \in Threads : u # t => scan'[u] = scan[u]
  <2>1. CASE hp[<<scan[t].it, scan[t].ihp>>] = Obj(t)
    <3>1. Round(t, kept[t], scan[t].iret + 1) /\ kept' = [kept EXCEPT ![t] = kept[t]]
      BY <1>1, <2>1 DEF Look, HPInv, ListInv
    <3>2. scan[t].iret + 1 \in Nat \ {0}
      BY <1>2
    <3> QED
      BY <1>2, <3>1, <3>2, RoundInv
  <2>2. CASE hp[<<scan[t].it, scan[t].ihp>>] # Obj(t)
    <3> DEFINE next == Following(scan[t].it, scan[t].ihp)
    <3>1. /\ next[1] \in Nat /\ next[2] \in Index /\ next[1] <= N
          /\ Passed(since, Obj(t), next[1], next[2])
          /\ next[1] = N => since[Obj(t)] = {}
      BY <1>2, <1>3, <2>2, FollowingPassed DEF HPInv, ProgramInv
    <3>2. /\ Goto(t, IF next[1] < N THEN "look" ELSE "delete")
          /\ scan' = [scan EXCEPT ![t].it = next[1], ![t].ihp = next[2]]
      BY <2>2 DEF Look
    <3> HIDE DEF next
    <3>3. scan' = [scan EXCEPT ![t] = [scan[t] EXCEPT !.it = next[1], !.ihp = next[2]]]
      BY <3>2 DEF HPInv, ListInv
    <3>4. [scan[t] EXCEPT !.it = next[1], !.ihp = next[2]] \in ScanRecord
      BY <1>2, <3>1 DEF ScanRecord
    <3>5. /\ scan' \in [Threads -> ScanRecord]
          /\ \A u \in Threads : u # t => scan'[u] = scan[u]
          /\ scan'[t] = [scan[t] EXCEPT !.it = next[1], !.ihp = next[2]]
      BY <3>3, <3>4 DEF HPInv, ListInv
    <3>6. scan'[t].iret = scan[t].iret /\ scan'[t].it = next[1] /\ scan'[t].ihp = next[2]
      BY <1>2, <3>5 DEF ScanRecord
    <3>7. Elsewhere(t) /\ pc'[t] = IF next[1] < N THEN "look" ELSE "delete"
      BY <3>2 DEF Goto, Elsewhere, HPInv, ProgramInv, LocType
    <3>8. since' = since /\ kept' = kept /\ Obj(t)' = Obj(t)
      BY <1>1, <3>6 DEF mm, Obj
    <3>9. N \in Nat
      BY MemoryAssumption
    <3>10. ScanInv(t)'
      BY <1>2, <3>1, <3>6, <3>7, <3>8, <3>9 DEF ScanInv
    <3> QED
      BY <3>5, <3>7, <3>10
  <2> QED
    BY <2>1, <2>2
<1>5. ProgramInv' /\ Grows /\ mem' = mem
  BY <1>1, <1>4, QuietInv DEF HPInv
<1>6. ListInv'
  BY <1>1, <1>4, <1>5 DEF HPInv, ListInv
<1>7. ASSUME NEW u \in Threads, u # t
      PROVE  ScanInv(u)'
  <2>1. kept'[u] = kept[u] /\ scan'[u] = scan[u] /\ pc'[u] = pc[u]
    BY <1>1, <1>4, <1>7 DEF Elsewhere, HPInv, ProgramInv, LocType
  <2> QED
    BY <1>5, <2>1, ScanStays
<1> QED
  BY <1>1, <1>4, <1>5, <1>6, <1>7 DEF HPInv

LEMMA DeleteObjStep ==
    ASSUME HPInv, NEW t \in Threads, DeleteObj(t)
    PROVE  HPInv' /\ R!Next
<1> DEFINE i == scan[t].iret
           n == Len(kept[t])
           a == Obj(t)
           list == [j \in 1 .. n - 1 |-> kept[t][IF j < i THEN j ELSE j + 1]]
<1>1. pc[t] = "delete" /\ Round(t, list, i) /\ kept' = [kept EXCEPT ![t] = list]
      /\ Delete({a}) /\ UNCHANGED program
  BY DEF DeleteObj, At
<1>2. /\ i \in DOMAIN kept[t] /\ i \in Nat \ {0} /\ a \in Addr /\ mem[a] = "retired"
      /\ kept[t] \in Seq(Addr) /\ a = kept[t][i]
  BY <1>1, ScannedObj DEF Obj
<1>3. since[a] = {}
  BY <1>1 DEF HPInv, ScanInv
<1>4. n \in Nat /\ n > 0 /\ DOMAIN kept[t] = 1 .. n /\ i \in 1 .. n
  BY <1>2
<1>5. list \in Seq(Addr) /\ DOMAIN list = 1 .. n - 1
      /\ \A j \in 1 .. n - 1 : list[j] = kept[t][IF j < i THEN j ELSE j + 1]
  <2>1. \A j \in 1 .. n - 1 : (IF j < i THEN j ELSE j + 1) \in 1 .. n
    BY <1>4
  <2>2. \A j \in 1 .. n - 1 : kept[t][IF j < i THEN j ELSE j + 1] \in Addr
    BY <1>2, <1>4, <2>1
  <2>3. n - 1 \in Nat
    BY <1>4
  <2> QED
    BY <2>2, <2>3
<1> HIDE DEF a, list, i
<1>6. /\ scan' \in [Threads -> ScanRecord] /\ Elsewhere(t) /\ ScanInv(t)'
      /\ \A u \in Threads : u # t => scan'[u] = scan[u]
  BY <1>1, <1>2, <1>5, RoundInv
<1>7. ProgramInv' /\ Grows /\ R!Next /\ mem' = [mem EXCEPT ![a] = "none"]
  BY <1>1, <1>2, <1>3, <1>6, DeleteInv DEF HPInv
<1>8. ListInv'
  <2>1. /\ kept'[t] = list
        /\ \A u \in Threads : u # t => kept'[u] = kept[u]
        /\ kept' \in [Threads -> Seq(Addr)]
    BY <1>1, <1>5 DEF HPInv, ListInv
  <2> DEFINE Old(u, k) == IF u # t \/ k < i THEN k ELSE k + 1
  <2>2. ASSUME NEW u \in Threads, NEW k \in DOMAIN kept'[u]
        PROVE  /\ Old(u, k) \in DOMAIN kept[u] /\ kept'[u][k] = kept[u][Old(u, k)]
               /\ u = t => k \in Int /\ Old(u, k) # i
    <3>1. CASE u = t
      BY <1>4, <1>5, <2>1, <3>1
    <3>2. CASE u # t
      BY <2>1, <3>2
    <3> QED
      BY <3>1, <3>2
  <2>3. ASSUME NEW u \in Threads, NEW k \in DOMAIN kept'[u]
        PROVE  kept'[u][k] # a /\ mem'[kept'[u][k]] = "retired"
    <3>1. kept'[u][k] = kept[u][Old(u, k)] /\ Old(u, k) \in DOMAIN kept[u]
      BY <2>2
    <3>2. ~(u = t /\ Old(u, k) = i)
      BY <2>2
    <3> HIDE DEF Old
    <3>3. kept[u][Old(u, k)] # a /\ kept[u][Old(u, k)] \in Addr
          /\ mem[kept[u][Old(u, k)]] = "retired"
      BY <1>2, <3>1, <3>2 DEF HPInv, ListInv
    <3> QED
      BY <1>7, <3>1, <3>3 DEF HPInv, ProgramInv, MemType
  <2>4. ASSUME NEW u \in Threads, NEW w \in Threads, NEW k \in DOMAIN kept'[u],
               NEW l \in DOMAIN kept'[w], kept'[u][k] = kept'[w][l]
        PROVE  u = w /\ k = l
    <3>1. /\ kept'[u][k] = kept[u][Old(u, k)] /\ Old(u, k) \in DOMAIN kept[u]
          /\ kept'[w][l] = kept[w][Old(w, l)] /\ Old(w, l) \in DOMAIN kept[w]
      BY <2>2
    <3>2. u = w /\ Old(u, k) = Old(w, l)
      <4> HIDE DEF Old
      <4>1. \A p, q \in Threads : \A x \in DOMAIN kept[p], y \in DOMAIN kept[q] :
              kept[p][x] = kept[q][y] => p = q /\ x = y
        BY DEF HPInv, ListInv
      <4>2. kept[u][Old(u, k)] = kept[w][Old(w, l)]
        BY <2>4, <3>1
      <4> QED
        BY <3>1, <4>1, <4>2
    <3>3. u = t => k \in Int /\ l \in Int
      BY <2>2, <3>2
    <3> QED
      BY <1>2, <3>2, <3>3
  <2>5. ASSUME NEW b \in Addr, mem'[b] = "retired"
        PROVE  \E u \in Threads : \E k \in DOMAIN kept'[u] : kept'[u][k] = b
    <3>1. b # a /\ mem[b] = "retired"
      BY <1>2, <1>7, <2>5 DEF HPInv, ProgramInv, MemType
    <3>2. PICK u \in Threads : \E k \in DOMAIN kept[u] : kept[u][k] = b
      BY <3>1 DEF HPInv, ListInv
    <3>3. PICK k \in DOMAIN kept[u] : kept[u][k] = b
      BY <3>2
    <3>4. CASE u # t
      BY <2>1, <3>3, <3>4
    <3>5. CASE u = t
      <4>1. k \in 1 .. n /\ k # i
        BY <1>2, <1>4, <3>1, <3>3, <3>5
      <4>2. CASE k < i
        <5>1. k \in 1 .. n - 1 /\ list[k] = b
          BY <1>4, <1>5, <3>3, <3>5, <4>1, <4>2
        <5> QED
          BY <1>5, <2>1, <3>5, <5>1
      <4>3. CASE k > i
        <5>1. k - 1 \in 1 .. n - 1 /\ ~(k - 1 < i) /\ (k - 1) + 1 = k
          BY <1>4, <4>1, <4>3
        <5>2. list[k - 1] = b
          BY <1>5, <3>3, <3>5, <5>1
        <5> QED
          BY <1>5, <2>1, <3>5, <5>1, <5>2
      <4> QED
        BY <1>4, <4>1, <4>2, <4>3
    <3> QED
      BY <3>4, <3>5
  <2> QED
    BY <1>6, <2>1, <2>3, <2>4, <2>5 DEF ListInv
<1>9. ASSUME NEW u \in Threads, u # t
      PROVE  ScanInv(u)'
  <2>1. kept'[u] = kept[u] /\ scan'[u] = scan[u] /\ pc'[u] = pc[u]
    BY <1>1, <1>6, <1>9 DEF Elsewhere, HPInv, ProgramInv, LocType, ListInv
  <2> QED
    BY <1>7, <2>1, ScanStays
<1> QED
  BY <1>6, <1>7, <1>8, <1>9 DEF HPInv

LEMMA EveryStep ==
    ASSUME HPInv, [Next]_vars
    PROVE  HPInv' /\ [R!Next]_mm
<1>1. CASE UNCHANGED vars
  <2>1. ProgramInv' /\ UNCHANGED <<mm, kept, scan, pc, mem, since>>
    BY <1>1, StutterInv DEF HPInv, vars, mm
  <2> QED
    BY <2>1 DEF HPInv, ListInv, ScanInv, Obj, Passed
<1>2. ASSUME NEW t \in Threads, Client(t) \/ Clear(t) \/ Scan(t)
      PROVE  HPInv' /\ [R!Next]_mm
  BY <1>2, ClientStep, ClearStep, RetireStepInv, LookStep, DeleteObjStep DEF Scan
<1> QED
  BY <1>1, <1>2 DEF Next

\* The inductive invariant of the lists and of the scans of retire().
THEOREM HazardPointersInvariant == Spec => []HPInv
<1>1. Init => HPInv
  BY ListsStart
<1>2. HPInv /\ [Next]_vars => HPInv'
  BY EveryStep
<1> QED
  BY <1>1, <1>2, PTL DEF Spec

\* What a thread has protected with protect(), protectPtr() or swapPtrs() is
\* not deleted by any retire(), for any number of threads, hps and objects.
THEOREM ProtectedIsNotDeleted == Spec => []NoUseAfterFree
<1>1. HPInv => NoUseAfterFree
  BY SafeUse DEF HPInv
<1> QED
  BY <1>1, HazardPointersInvariant, PTL

\* A retired object is in one place of one retiredList until it is deleted.
THEOREM ListedOnce == Spec => []OnePlace
<1>1. ASSUME HPInv, NEW a \in Addr
      PROVE  Cardinality(Places[a]) = IF mem[a] = "retired" THEN 1 ELSE 0
  <2>1. CASE mem[a] = "retired"
    <3>1. PICK t \in Threads : \E k \in DOMAIN kept[t] : kept[t][k] = a
      BY <1>1, <2>1 DEF HPInv, ListInv
    <3>2. PICK k \in DOMAIN kept[t] : kept[t][k] = a
      BY <3>1
    <3>3. \A u \in Threads : \A l \in DOMAIN kept[u] : kept[u][l] = a => u = t /\ l = k
      BY <1>1, <3>2 DEF HPInv, ListInv
    <3>4. Places[a] = {<<t, k>>}
      BY <3>2, <3>3 DEF Places
    <3> QED
      BY <2>1, <3>4, FS_Singleton
  <2>2. CASE mem[a] # "retired"
    <3>1. \A u \in Threads : \A l \in DOMAIN kept[u] : kept[u][l] # a
      BY <1>1, <2>2 DEF HPInv, ListInv
    <3>2. Places[a] = {}
      BY <3>1 DEF Places
    <3> QED
      BY <2>2, <3>2, FS_EmptySet
  <2> QED
    BY <2>1, <2>2
<1>2. HPInv => OnePlace
  BY <1>1 DEF OnePlace, OneOf
<1> QED
  BY <1>2, HazardPointersInvariant, PTL

\* HazardPointers implements what the data structures rely on: only retired
\* objects are deleted, once, and none that an hp has held all the time.
THEOREM HazardPointersPromise == Spec => Promise
<1>1. Init => R!InitMemory
  BY ListsStart
<1>2. HPInv /\ [Next]_vars => [R!Next]_mm
  BY EveryStep
<1> QED
  BY <1>1, <1>2, HazardPointersInvariant, PTL DEF Spec, Promise, R!Spec, mm, R!mm

=============================================================================
