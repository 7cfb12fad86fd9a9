------------------------ MODULE PassThePointerProofs -------------------------
(***************************************************************************)
(* PassThePointer implements Reclaimer, for any number of threads, hps and *)
(* objects, and loses no object.  An object that was left beside an hp has *)
(* been looked for in all hps before that one, whoever left it there; who  *)
(* takes it goes on from the start of the row.                             *)
(***************************************************************************)
EXTENDS PassThePointer, ReclaimerProofs

ScanRecord == [ptr : Addr \cup {Null}, it : Nat, ihp : Index, take : Nat, last : Nat]

\* The steps at which a thread has an object in its hand.
Holding == {"look", "handover", "look_again", "delete"}
ScanType ==
    /\ kept \in [Slot -> Addr \cup {Null}]
    /\ scan \in [Threads -> ScanRecord]
    /\ \A t \in Threads : scan[t].ptr # Null <=> pc[t] \in Holding

\* Every retired object is in one handover or in one hand, and no other is.
PlaceInv ==
    /\ \A s \in Slot : kept[s] # Null => mem[kept[s]] = "retired"
    /\ \A t \in Threads : scan[t].ptr # Null => mem[scan[t].ptr] = "retired"
    /\ \A s, q \in Slot : kept[s] = kept[q] /\ kept[s] # Null => s = q
    /\ \A t, u \in Threads : scan[t].ptr = scan[u].ptr /\ scan[t].ptr # Null => t = u
    /\ \A s \in Slot, t \in Threads : kept[s] # Null => kept[s] # scan[t].ptr
    /\ \A a \in Addr : mem[a] = "retired" =>
         (\E s \in Slot : kept[s] = a) \/ (\E t \in Threads : scan[t].ptr = a)

HandoverInv(s) == kept[s] # Null => Passed(since, kept[s], s[1], s[2])
ScanInv(t) ==
    /\ scan[t].take <= HPs /\ scan[t].last < HPs
    /\ pc[t] \in {"look", "handover", "look_again"} =>
         scan[t].it < N /\ Passed(since, scan[t].ptr, scan[t].it, scan[t].ihp)
    /\ pc[t] \in {"take", "take_exchange"} => scan[t].take < HPs
    /\ pc[t] = "delete" => since[scan[t].ptr] = {}

PTPInv ==
    /\ ProgramInv /\ ScanType /\ PlaceInv
    /\ \A s \in Slot : HandoverInv(s)
    /\ \A t \in Threads : ScanInv(t)

\* The changes of a record of scan.
LEMMA FreshRecords ==
    /\ NoScan \in ScanRecord /\ NoScan.ptr = Null /\ NoScan.take = 0 /\ NoScan.last = HPs - 1
    /\ \A p \in Addr \cup {Null} :
         LET r == [NoScan EXCEPT !.ptr = p, !.take = HPs] IN
         /\ r \in ScanRecord /\ r.ptr = p /\ r.take = HPs /\ r.last = HPs - 1
         /\ r.it = 0 /\ r.ihp = 0
    /\ \A i, l \in Nat :
         LET r == [NoScan EXCEPT !.take = i, !.last = l] IN
         r \in ScanRecord /\ r.ptr = Null /\ r.take = i /\ r.last = l
<1>1. 0 \in Index /\ HPs \in Nat /\ HPs - 1 \in Nat
  BY MemoryAssumption DEF Index
<1>2. NoScan = [ptr |-> Null, it |-> 0, ihp |-> 0, take |-> 0, last |-> HPs - 1]
  BY DEF NoScan
<1> QED
  BY <1>1, <1>2 DEF ScanRecord

LEMMA RecordFields ==
    ASSUME NEW r \in ScanRecord
    PROVE  /\ r.ptr \in Addr \cup {Null} /\ r.it \in Nat /\ r.ihp \in Index
           /\ r.ihp \in Nat /\ r.take \in Nat /\ r.last \in Nat
BY DEF ScanRecord, Index

LEMMA SetIhp ==
    ASSUME NEW r \in ScanRecord, NEW i \in Index
    PROVE  LET q == [r EXCEPT !.ihp = i] IN
           q \in ScanRecord /\ q.ptr = r.ptr /\ q.take = r.take /\ q.last = r.last
BY DEF ScanRecord

LEMMA SetTake ==
    ASSUME NEW r \in ScanRecord, NEW i \in Nat, NEW l \in Nat
    PROVE  LET q == [r EXCEPT !.take = i, !.last = l] IN
           q \in ScanRecord /\ q.ptr = r.ptr /\ q.take = i /\ q.last = l
BY DEF ScanRecord

LEMMA SetPlace ==
    ASSUME NEW r \in ScanRecord, NEW i \in Nat, NEW j \in Index
    PROVE  LET q == [r EXCEPT !.it = i, !.ihp = j] IN
           /\ q \in ScanRecord /\ q.ptr = r.ptr /\ q.take = r.take /\ q.last = r.last
           /\ q.it = i /\ q.ihp = j
BY DEF ScanRecord

LEMMA SetPtr ==
    ASSUME NEW r \in ScanRecord, NEW p \in Addr \cup {Null}
    PROVE  LET q == [r EXCEPT !.ptr = p] IN
           /\ q \in ScanRecord /\ q.ptr = p /\ q.take = r.take /\ q.last = r.last
           /\ q.it = r.it /\ q.ihp = r.ihp
BY DEF ScanRecord

LEMMA SetTaken ==
    ASSUME NEW r \in ScanRecord, NEW p \in Addr \cup {Null}, NEW i \in Nat, NEW k \in Nat
    PROVE  LET q == [r EXCEPT !.ptr = p, !.it = i, !.ihp = 0, !.take = k] IN
           /\ q \in ScanRecord /\ q.ptr = p /\ q.take = k /\ q.last = r.last
           /\ q.it = i /\ q.ihp = 0
<1>1. 0 \in Index
  BY MemoryAssumption DEF Index
<1> QED
  BY <1>1 DEF ScanRecord

\* Thread t changes its record to r.
LEMMA ScanChange ==
    ASSUME PTPInv, NEW t \in Threads, NEW r \in ScanRecord, scan' = [scan EXCEPT ![t] = r]
    PROVE  /\ scan' \in [Threads -> ScanRecord] /\ scan'[t] = r
           /\ \A u \in Threads : u # t => scan'[u] = scan[u]
BY DEF PTPInv, ScanType

LEMMA PcChange ==
    ASSUME PTPInv, NEW t \in Threads, NEW l, pc' = [pc EXCEPT ![t] = l],
           l \notin {"load", "store", "retire"}
    PROVE  Elsewhere(t) /\ pc'[t] = l /\ \A u \in Threads : u # t => pc'[u] = pc[u]
BY DEF PTPInv, ProgramInv, LocType, Elsewhere

LEMMA ScanStays ==
    ASSUME PTPInv, ProgramInv', Grows, NEW t \in Threads, scan'[t] = scan[t],
           pc'[t] = pc[t] \/ {pc[t], pc'[t]} \cap (Holding \cup {"take", "take_exchange"}) = {}
    PROVE  ScanInv(t)'
<1>1. scan[t].it \in Nat /\ scan[t].ihp \in Nat /\ scan[t].ptr \in Addr \cup {Null}
  BY RecordFields DEF PTPInv, ScanType
<1>2. ScanInv(t) /\ (pc[t] \in Holding => mem[scan[t].ptr] = "retired" /\ scan[t].ptr # Null)
  BY DEF PTPInv, ScanType, PlaceInv
<1>3. CASE pc[t] \in Holding
  <2>1. pc'[t] = pc[t] /\ scan[t].ptr \in Addr /\ mem[scan[t].ptr] = "retired"
    BY <1>1, <1>2, <1>3
  <2>2. pc[t] # "delete" => Passed(since', scan[t].ptr, scan[t].it, scan[t].ihp)
    <3> SUFFICES ASSUME pc[t] # "delete"
                 PROVE  Passed(since', scan[t].ptr, scan[t].it, scan[t].ihp)
      OBVIOUS
    <3>1. Passed(since, scan[t].ptr, scan[t].it, scan[t].ihp)
      BY <1>2, <1>3 DEF ScanInv, Holding
    <3> QED
      BY <1>1, <2>1, <3>1, PassedStays DEF PTPInv, ProgramInv
  <2>3. pc[t] = "delete" => since'[scan[t].ptr] = {}
    BY <1>2, <2>1 DEF ScanInv, Grows
  <2> QED
    BY <1>2, <2>1, <2>2, <2>3 DEF ScanInv
<1>4. CASE pc[t] \notin Holding
  BY <1>2, <1>4 DEF ScanInv, Holding
<1> QED
  BY <1>3, <1>4

LEMMA HandoverStays ==
    ASSUME PTPInv, ProgramInv', Grows, NEW s \in Slot, kept'[s] = kept[s]
    PROVE  HandoverInv(s)'
<1>1. kept[s] \in Addr \cup {Null} /\ s[1] \in Nat /\ s[2] \in Nat
  BY DEF PTPInv, ScanType, Slot, Threads, Index
<1>2. CASE kept[s] # Null
  <2>1. kept[s] \in Addr /\ mem[kept[s]] = "retired" /\ Passed(since, kept[s], s[1], s[2])
    BY <1>1, <1>2 DEF PTPInv, HandoverInv, PlaceInv
  <2> QED
    BY <1>1, <2>1, PassedStays DEF HandoverInv, PTPInv, ProgramInv
<1> QED
  BY <1>2 DEF HandoverInv

\* The steps that move no object.
LEMMA NothingMoves ==
    ASSUME PTPInv, ProgramInv', Grows, kept' = kept,
           \A a \in Addr : mem'[a] = "retired" <=> mem[a] = "retired",
           \A u \in Threads : scan'[u].ptr = scan[u].ptr
    PROVE  PlaceInv' /\ \A s \in Slot : HandoverInv(s)'
<1>1. \A u \in Threads : scan[u].ptr \in Addr \cup {Null}
  BY RecordFields DEF PTPInv, ScanType
<1>2. \A s \in Slot : kept[s] \in Addr \cup {Null}
  BY DEF PTPInv, ScanType
<1>3. PlaceInv'
  BY <1>1, <1>2 DEF PTPInv, PlaceInv
<1> QED
  BY <1>3, HandoverStays

\* The steps that exchange what is in handover s with what t has in its hand.
LEMMA Swapped ==
    ASSUME PTPInv, NEW t \in Threads, NEW s \in Slot, mem' = mem,
           kept' = [kept EXCEPT ![s] = scan[t].ptr], scan'[t].ptr = kept[s],
           \A u \in Threads : u # t => scan'[u] = scan[u]
    PROVE  PlaceInv' /\ kept' \in [Slot -> Addr \cup {Null}]
<1>1. scan[t].ptr \in Addr \cup {Null} /\ kept \in [Slot -> Addr \cup {Null}]
  BY RecordFields DEF PTPInv, ScanType
<1>2. kept'[s] = scan[t].ptr /\ \A q \in Slot : q # s => kept'[q] = kept[q]
  BY <1>1
<1>3. PlaceInv
  BY DEF PTPInv
<1>4. \A q \in Slot : kept'[q] # Null => mem'[kept'[q]] = "retired"
  BY <1>2, <1>3 DEF PlaceInv
<1>5. \A u \in Threads : scan'[u].ptr # Null => mem'[scan'[u].ptr] = "retired"
  BY <1>2, <1>3 DEF PlaceInv
<1>6. \A p, q \in Slot : kept'[p] = kept'[q] /\ kept'[p] # Null => p = q
  BY <1>2, <1>3 DEF PlaceInv
<1>7. \A w, u \in Threads : scan'[w].ptr = scan'[u].ptr /\ scan'[w].ptr # Null => w = u
  BY <1>2, <1>3 DEF PlaceInv
<1>8. \A q \in Slot, u \in Threads : kept'[q] # Null => kept'[q] # scan'[u].ptr
  BY <1>2, <1>3 DEF PlaceInv
<1>9. ASSUME NEW a \in Addr, mem'[a] = "retired"
      PROVE  (\E q \in Slot : kept'[q] = a) \/ (\E u \in Threads : scan'[u].ptr = a)
  <2>1. (\E q \in Slot : kept[q] = a) \/ (\E u \in Threads : scan[u].ptr = a)
    BY <1>3, <1>9 DEF PlaceInv
  <2>2. ASSUME NEW q \in Slot, kept[q] = a
        PROVE  (\E p \in Slot : kept'[p] = a) \/ (\E u \in Threads : scan'[u].ptr = a)
    BY <1>2, <2>2
  <2>3. ASSUME NEW w \in Threads, scan[w].ptr = a
        PROVE  (\E p \in Slot : kept'[p] = a) \/ (\E u \in Threads : scan'[u].ptr = a)
    BY <1>2, <2>3
  <2> QED
    BY <2>1, <2>2, <2>3
<1> QED
  BY <1>1, <1>4, <1>5, <1>6, <1>7, <1>8, <1>9 DEF PlaceInv

LEMMA StartInv == Init => PTPInv /\ R!InitMemory
<1> SUFFICES ASSUME Init PROVE PTPInv /\ R!InitMemory
  OBVIOUS
<1>1. ProgramInv /\ R!InitMemory
  BY InitProgram DEF Init
<1>2. \A t \in Threads : scan[t] = NoScan /\ pc[t] = "idle"
  BY DEF Init, InitClient
<1>3. \A s \in Slot : kept[s] = Null
  BY DEF Init
<1>4. ScanType
  <2>1. scan \in [Threads -> ScanRecord] /\ kept \in [Slot -> Addr \cup {Null}]
    BY FreshRecords DEF Init
  <2> QED
    BY <1>2, <2>1, FreshRecords DEF ScanType, Holding
<1>5. PlaceInv /\ \A s \in Slot : HandoverInv(s)
  <2>1. \A a \in Addr : mem[a] # "retired"
    BY DEF Init, InitClient, InitMemory
  <2> QED
    BY <1>2, <1>3, <2>1, FreshRecords DEF PlaceInv, HandoverInv
<1>6. \A t \in Threads : ScanInv(t)
  <2>1. HPs \in Nat \ {0}
    BY MemoryAssumption
  <2>2. NoScan.take = 0 /\ NoScan.last = HPs - 1
    BY FreshRecords
  <2>3. 0 <= HPs /\ HPs - 1 < HPs
    BY <2>1
  <2> QED
    BY <1>2, <2>2, <2>3 DEF ScanInv
<1> QED
  BY <1>1, <1>4, <1>5, <1>6 DEF PTPInv

LEMMA ClientStep ==
    ASSUME PTPInv, NEW t \in Threads, Client(t)
    PROVE  PTPInv' /\ (R!Next \/ UNCHANGED mm)
<1>1. ProgramInv' /\ Bystander(t) /\ (R!Next \/ UNCHANGED mm)
  BY ClientInv DEF PTPInv
<1>2. kept' = kept /\ scan' = scan /\ Grows
      /\ \A a \in Addr : mem'[a] = "retired" <=> mem[a] = "retired"
  BY <1>1 DEF Bystander
<1>3. \A u \in Threads :
        pc'[u] = pc[u] \/ {pc[u], pc'[u]} \cap (Holding \cup {"take", "take_exchange"}) = {}
  BY <1>1 DEF Bystander, ClientLabels, Holding, PTPInv, ProgramInv, LocType
<1>4. ScanType'
  BY <1>2, <1>3 DEF PTPInv, ScanType
<1>5. PlaceInv' /\ \A s \in Slot : HandoverInv(s)'
  BY <1>1, <1>2, NothingMoves
<1>6. \A u \in Threads : ScanInv(u)'
  BY <1>1, <1>2, <1>3, ScanStays
<1> QED
  BY <1>1, <1>4, <1>5, <1>6 DEF PTPInv

\* Thread t changes its record to r and goes to l, and what it leaves is right.
LEMMA Assemble ==
    ASSUME PTPInv, NEW t \in Threads, NEW r \in ScanRecord, NEW l,
           scan' = [scan EXCEPT ![t] = r], pc' = [pc EXCEPT ![t] = l],
           r.ptr # Null <=> l \in Holding,
           r.take <= HPs, r.last < HPs,
           l \in {"look", "handover", "look_again"} =>
             r.it < N /\ Passed(since', r.ptr, r.it, r.ihp),
           l \in {"take", "take_exchange"} => r.take < HPs,
           l = "delete" => since'[r.ptr] = {},
           ProgramInv', Grows, PlaceInv', kept' \in [Slot -> Addr \cup {Null}],
           \A s \in Slot : HandoverInv(s)'
    PROVE  PTPInv'
<1>1. /\ scan' \in [Threads -> ScanRecord] /\ scan'[t] = r
      /\ \A u \in Threads : u # t => scan'[u] = scan[u]
  BY ScanChange
<1>2. pc'[t] = l /\ \A u \in Threads : u # t => pc'[u] = pc[u]
  BY SetPc DEF PTPInv, ProgramInv
<1>3. ScanType'
  <2>1. \A u \in Threads : scan[u].ptr # Null <=> pc[u] \in Holding
    BY DEF PTPInv, ScanType
  <2>2. \A u \in Threads : scan'[u].ptr # Null <=> pc'[u] \in Holding
    BY <1>1, <1>2, <2>1
  <2> QED
    BY <1>1, <2>2 DEF ScanType
<1>4. ScanInv(t)'
  BY <1>1, <1>2 DEF ScanInv
<1>5. \A u \in Threads : ScanInv(u)'
  BY <1>1, <1>2, <1>4, ScanStays
<1> QED
  BY <1>3, <1>5 DEF PTPInv

\* What is known of the record of a thread.
LEMMA RecordOf ==
    ASSUME PTPInv, NEW t \in Threads
    PROVE  /\ scan[t] \in ScanRecord /\ scan \in [Threads -> ScanRecord]
           /\ scan[t].ptr # Null <=> pc[t] \in Holding
           /\ scan[t].take <= HPs /\ scan[t].last < HPs
           /\ ScanInv(t)
BY DEF PTPInv, ScanType, ScanInv

\* clear() goes on, or ends.
LEMMA TakeNextRecord ==
    ASSUME PTPInv, NEW t \in Threads, NEW i \in Nat, TakeNext(t, i)
    PROVE  \E r \in ScanRecord : \E l \in {"take", "idle"} :
             /\ scan' = [scan EXCEPT ![t] = r] /\ pc' = [pc EXCEPT ![t] = l]
             /\ r.ptr = Null /\ r.take <= HPs /\ r.last < HPs
             /\ l = "take" => r.take < HPs
<1>1. scan[t] \in ScanRecord /\ scan[t].last < HPs /\ scan[t].last \in Nat /\ HPs \in Nat \ {0}
  BY RecordOf, RecordFields, MemoryAssumption
<1>2. CASE i <= scan[t].last
  <2> DEFINE r == [NoScan EXCEPT !.take = i, !.last = scan[t].last]
  <2>1. r \in ScanRecord /\ r.ptr = Null /\ r.take = i /\ r.last = scan[t].last
    BY <1>1, FreshRecords
  <2>2. scan' = [scan EXCEPT ![t] = r] /\ pc' = [pc EXCEPT ![t] = "take"]
    BY <1>2 DEF TakeNext, Goto
  <2>3. i <= HPs /\ i < HPs
    BY <1>1, <1>2
  <2> QED
    BY <1>1, <2>1, <2>2, <2>3
<1>3. CASE ~(i <= scan[t].last)
  <2>1. scan' = [scan EXCEPT ![t] = NoScan] /\ pc' = [pc EXCEPT ![t] = "idle"]
    BY <1>3 DEF TakeNext, Goto
  <2>2. NoScan \in ScanRecord /\ NoScan.ptr = Null /\ NoScan.take = 0 /\ NoScan.last = HPs - 1
    BY FreshRecords
  <2>3. 0 <= HPs /\ HPs - 1 < HPs
    BY <1>1
  <2> QED
    BY <2>1, <2>2, <2>3
<1> QED
  BY <1>2, <1>3

\* The scan goes on behind an hp that does not hold the object, or ends.
LEMMA ForwardRecord ==
    ASSUME PTPInv, NEW t \in Threads, pc[t] \in {"look", "look_again"},
           hp[Here(t)] # scan[t].ptr, Forward(t)
    PROVE  \E r \in ScanRecord : \E l \in {"look", "delete"} :
             /\ scan' = [scan EXCEPT ![t] = r] /\ pc' = [pc EXCEPT ![t] = l]
             /\ r.ptr = scan[t].ptr /\ r.take = scan[t].take /\ r.last = scan[t].last
             /\ l = "look" => r.it < N /\ Passed(since, r.ptr, r.it, r.ihp)
             /\ l = "delete" => since[r.ptr] = {}
<1> DEFINE a == scan[t].ptr
           next == Following(scan[t].it, scan[t].ihp)
           r == [scan[t] EXCEPT !.it = next[1], !.ihp = next[2]]
           l == IF next[1] < N THEN "look" ELSE "delete"
<1>1. /\ scan[t] \in ScanRecord /\ scan \in [Threads -> ScanRecord]
      /\ scan[t].it < N /\ Passed(since, a, scan[t].it, scan[t].ihp) /\ a # Null
  BY RecordOf DEF ScanInv, Holding
<1>2. a \in Addr /\ scan[t].it \in 0 .. N-1 /\ scan[t].ihp \in Index /\ N \in Nat
  BY <1>1, RecordFields, MemoryAssumption
<1>3. hp[<<scan[t].it, scan[t].ihp>>] # a
  BY DEF Here
<1>4. /\ next[1] \in Nat /\ next[2] \in Index /\ next[1] <= N
      /\ Passed(since, a, next[1], next[2])
      /\ next[1] = N => since[a] = {}
  BY <1>1, <1>2, <1>3, FollowingPassed DEF PTPInv, ProgramInv
<1>5. scan' = [scan EXCEPT ![t].it = next[1], ![t].ihp = next[2]] /\ pc' = [pc EXCEPT ![t] = l]
  BY DEF Forward, Goto
<1> HIDE DEF next
<1>6. scan' = [scan EXCEPT ![t] = r]
  BY <1>1, <1>5
<1>7. /\ r \in ScanRecord /\ r.ptr = a /\ r.take = scan[t].take /\ r.last = scan[t].last
      /\ r.it = next[1] /\ r.ihp = next[2]
  BY <1>1, <1>4 DEF ScanRecord
<1>8. l \in {"look", "delete"} /\ (l = "look" => next[1] < N) /\ (l = "delete" => next[1] = N)
  BY <1>2, <1>4
<1> HIDE DEF r, l
<1> QED
  BY <1>4, <1>5, <1>6, <1>7, <1>8

\* A step that changes neither memory nor the data of the program.
LEMMA QuietStep ==
    ASSUME PTPInv, NEW t \in Threads, UNCHANGED <<mm, program>>, NEW l,
           pc' = [pc EXCEPT ![t] = l], l \notin {"load", "store", "retire"}
    PROVE  /\ ProgramInv' /\ Grows /\ mem' = mem /\ since' = since /\ hp' = hp
<1>1. Elsewhere(t)
  BY PcChange
<1> QED
  BY <1>1, QuietInv DEF PTPInv, mm

LEMMA ClearStep ==
    ASSUME PTPInv, NEW t \in Threads, Clear(t)
    PROVE  PTPInv' /\ (R!Next \/ UNCHANGED mm)
<1>1. scan[t] \in ScanRecord /\ scan \in [Threads -> ScanRecord]
      /\ (scan[t].ptr # Null <=> pc[t] \in Holding) /\ scan[t].take <= HPs /\ scan[t].last < HPs
  BY RecordOf
<1>2. CASE At(t, "idle") /\ Goto(t, "clear") /\ Quiet /\ UNCHANGED scan
  <2>1. pc' = [pc EXCEPT ![t] = "clear"] /\ pc[t] = "idle"
        /\ UNCHANGED <<mm, program>> /\ kept' = kept /\ scan' = [scan EXCEPT ![t] = scan[t]]
    BY <1>1, <1>2 DEF At, Goto, Quiet
  <2>2. ProgramInv' /\ Grows /\ mem' = mem
    BY <2>1, QuietStep
  <2>3. PlaceInv' /\ \A s \in Slot : HandoverInv(s)'
    BY <1>2, <2>1, <2>2, NothingMoves
  <2>4. kept' \in [Slot -> Addr \cup {Null}]
    BY <2>1 DEF PTPInv, ScanType
  <2>5. scan[t].ptr = Null
    BY <1>1, <2>1 DEF Holding
  <2>6. PTPInv'
    BY <1>1, <2>1, <2>2, <2>3, <2>4, <2>5, Assemble DEF Holding
  <2> QED
    BY <2>1, <2>6
<1>3. CASE /\ At(t, "clear") /\ ClearHp(t, scan[t].ihp)
           /\ IF scan[t].ihp + 1 < HPs
              THEN scan' = [scan EXCEPT ![t].ihp = @ + 1] /\ UNCHANGED pc
              ELSE scan' = [scan EXCEPT ![t] = NoScan] /\ Goto(t, "take")
  <2>1. pc[t] = "clear" /\ scan[t].ihp \in Index /\ scan[t].ptr = Null
        /\ kept' = kept /\ HPs \in Nat \ {0}
    BY <1>1, <1>3, RecordFields, MemoryAssumption DEF At, ClearHp, Holding
  <2>2. PICK r \in ScanRecord, l \in {"clear", "take"} :
          /\ scan' = [scan EXCEPT ![t] = r] /\ pc' = [pc EXCEPT ![t] = l]
          /\ r.ptr = Null /\ r.take <= HPs /\ r.last < HPs
          /\ l = "take" => r.take < HPs
    <3>1. CASE scan[t].ihp + 1 < HPs
      <4> DEFINE r == [scan[t] EXCEPT !.ihp = @ + 1]
      <4>1. scan[t].ihp + 1 \in Index
        BY <2>1, <3>1 DEF Index
      <4>2. r \in ScanRecord /\ r.ptr = Null /\ r.take = scan[t].take /\ r.last = scan[t].last
        BY <1>1, <2>1, <4>1 DEF ScanRecord
      <4>3. scan' = [scan EXCEPT ![t] = r] /\ UNCHANGED pc
        BY <1>1, <1>3, <3>1
      <4>4. pc' = [pc EXCEPT ![t] = "clear"]
        BY <2>1, <4>3 DEF PTPInv, ProgramInv, LocType
      <4> QED
        BY <1>1, <4>2, <4>3, <4>4
    <3>2. CASE ~(scan[t].ihp + 1 < HPs)
      <4>1. scan' = [scan EXCEPT ![t] = NoScan] /\ pc' = [pc EXCEPT ![t] = "take"]
        BY <1>3, <3>2 DEF Goto
      <4>2. NoScan \in ScanRecord /\ NoScan.ptr = Null /\ NoScan.take = 0 /\ NoScan.last = HPs - 1
        BY FreshRecords
      <4>3. 0 <= HPs /\ 0 < HPs /\ HPs - 1 < HPs
        BY <2>1
      <4> QED
        BY <4>1, <4>2, <4>3
    <3> QED
      BY <3>1, <3>2
  <2>3. Elsewhere(t)
    BY <2>2, PcChange
  <2>4. ProgramInv' /\ Grows /\ mem' = mem /\ R!Next
    BY <1>3, <2>1, <2>3, ClearInv DEF PTPInv
  <2>5. \A u \in Threads : scan'[u].ptr = scan[u].ptr
    BY <1>1, <2>1, <2>2
  <2>6. PlaceInv' /\ \A s \in Slot : HandoverInv(s)'
    BY <2>1, <2>4, <2>5, NothingMoves
  <2>7. kept' \in [Slot -> Addr \cup {Null}]
    BY <2>1 DEF PTPInv, ScanType
  <2>8. PTPInv'
    BY <2>2, <2>4, <2>6, <2>7, Assemble DEF Holding
  <2> QED
    BY <2>4, <2>8
<1> QED
  BY <1>2, <1>3 DEF Clear

LEMMA ClearOneStep ==
    ASSUME PTPInv, NEW t \in Threads, ClearOne(t)
    PROVE  PTPInv' /\ R!Next
<1>1. PICK i \in Index :
        /\ At(t, "idle") /\ Goto(t, "take") /\ ClearHp(t, i)
        /\ scan' = [scan EXCEPT ![t].take = i, ![t].last = i]
  BY DEF ClearOne
<1>2. scan[t] \in ScanRecord /\ scan \in [Threads -> ScanRecord]
      /\ (scan[t].ptr # Null <=> pc[t] \in Holding)
  BY RecordOf
<1>3. pc[t] = "idle" /\ pc' = [pc EXCEPT ![t] = "take"] /\ kept' = kept
  BY <1>1 DEF At, Goto, ClearHp
<1>4. scan[t].ptr = Null
  BY <1>2, <1>3 DEF Holding
<1>5. i \in Nat /\ i < HPs /\ i <= HPs
  BY MemoryAssumption DEF Index
<1> DEFINE r == [scan[t] EXCEPT !.take = i, !.last = i]
<1>6. r \in ScanRecord /\ r.ptr = Null /\ r.take = i /\ r.last = i
  BY <1>2, <1>4, <1>5 DEF ScanRecord
<1>7. scan' = [scan EXCEPT ![t] = r]
  BY <1>1, <1>2
<1> HIDE DEF r
<1>8. Elsewhere(t)
  BY <1>3, PcChange
<1>9. ProgramInv' /\ Grows /\ mem' = mem /\ R!Next
  BY <1>1, <1>8, ClearInv DEF PTPInv
<1>10. \A u \in Threads : scan'[u].ptr = scan[u].ptr
  BY <1>2, <1>4, <1>6, <1>7
<1>11. PlaceInv' /\ \A s \in Slot : HandoverInv(s)'
  BY <1>3, <1>9, <1>10, NothingMoves
<1>12. kept' \in [Slot -> Addr \cup {Null}]
  BY <1>3 DEF PTPInv, ScanType
<1>13. PTPInv'
  BY <1>3, <1>5, <1>6, <1>7, <1>9, <1>11, <1>12, Assemble DEF Holding
<1> QED
  BY <1>9, <1>13

LEMMA TakeLookStep ==
    ASSUME PTPInv, NEW t \in Threads, TakeLook(t)
    PROVE  PTPInv' /\ UNCHANGED mm
<1>1. /\ scan[t] \in ScanRecord /\ scan \in [Threads -> ScanRecord]
      /\ (scan[t].ptr # Null <=> pc[t] \in Holding) /\ scan[t].take <= HPs /\ scan[t].last < HPs
      /\ ScanInv(t)
  BY RecordOf
<1>2. pc[t] = "take" /\ UNCHANGED <<mm, program>> /\ kept' = kept
  BY DEF TakeLook, At, Quiet
<1>3. scan[t].ptr = Null /\ scan[t].take < HPs /\ scan[t].take + 1 \in Nat
  BY <1>1, <1>2, RecordFields DEF Holding, ScanInv
<1>4. PICK r \in ScanRecord, l \in {"take", "idle", "take_exchange"} :
        /\ scan' = [scan EXCEPT ![t] = r] /\ pc' = [pc EXCEPT ![t] = l]
        /\ r.ptr = Null /\ r.take <= HPs /\ r.last < HPs
        /\ l \in {"take", "take_exchange"} => r.take < HPs
  <2>1. CASE kept[<<t, scan[t].take>>] # Null
    <3>1. pc' = [pc EXCEPT ![t] = "take_exchange"] /\ scan' = [scan EXCEPT ![t] = scan[t]]
      BY <1>1, <2>1 DEF TakeLook, Goto
    <3> QED
      BY <1>1, <1>3, <3>1
  <2>2. CASE kept[<<t, scan[t].take>>] = Null
    <3>1. TakeNext(t, scan[t].take + 1)
      BY <2>2 DEF TakeLook
    <3> QED
      BY <1>3, <3>1, TakeNextRecord
  <2> QED
    BY <2>1, <2>2
<1>5. ProgramInv' /\ Grows /\ mem' = mem
  BY <1>2, <1>4, QuietStep
<1>6. \A u \in Threads : scan'[u].ptr = scan[u].ptr
  BY <1>1, <1>3, <1>4
<1>7. PlaceInv' /\ \A s \in Slot : HandoverInv(s)'
  BY <1>2, <1>5, <1>6, NothingMoves
<1>8. kept' \in [Slot -> Addr \cup {Null}]
  BY <1>2 DEF PTPInv, ScanType
<1>9. PTPInv'
  BY <1>4, <1>5, <1>7, <1>8, Assemble DEF Holding
<1> QED
  BY <1>2, <1>9
LEMMA LookStep ==
    ASSUME PTPInv, NEW t \in Threads, Look(t)
    PROVE  PTPInv' /\ UNCHANGED mm
<1>1. /\ scan[t] \in ScanRecord /\ scan \in [Threads -> ScanRecord]
      /\ (scan[t].ptr # Null <=> pc[t] \in Holding) /\ scan[t].take <= HPs /\ scan[t].last < HPs
      /\ ScanInv(t)
  BY RecordOf
<1>2. pc[t] = "look" /\ UNCHANGED <<mm, program>> /\ kept' = kept
  BY DEF Look, At, Quiet
<1>3. /\ scan[t].ptr # Null /\ scan[t].it < N
      /\ Passed(since, scan[t].ptr, scan[t].it, scan[t].ihp)
  BY <1>1, <1>2 DEF Holding, ScanInv
<1>4. PICK r \in ScanRecord, l \in {"look", "delete", "handover"} :
        /\ scan' = [scan EXCEPT ![t] = r] /\ pc' = [pc EXCEPT ![t] = l]
        /\ r.ptr = scan[t].ptr /\ r.take = scan[t].take /\ r.last = scan[t].last
        /\ l \in {"look", "handover"} => r.it < N /\ Passed(since, r.ptr, r.it, r.ihp)
        /\ l = "delete" => since[r.ptr] = {}
  <2>1. CASE hp[Here(t)] = scan[t].ptr
    <3>1. pc' = [pc EXCEPT ![t] = "handover"] /\ scan' = [scan EXCEPT ![t] = scan[t]]
      BY <1>1, <2>1 DEF Look, Goto
    <3> QED
      BY <1>1, <1>3, <3>1
  <2>2. CASE hp[Here(t)] # scan[t].ptr
    <3>1. Forward(t)
      BY <2>2 DEF Look
    <3> QED
      BY <1>2, <2>2, <3>1, ForwardRecord
  <2> QED
    BY <2>1, <2>2
<1>5. ProgramInv' /\ Grows /\ mem' = mem /\ since' = since
  BY <1>2, <1>4, QuietStep
<1>6. \A u \in Threads : scan'[u].ptr = scan[u].ptr
  BY <1>1, <1>4
<1>7. PlaceInv' /\ \A s \in Slot : HandoverInv(s)'
  BY <1>2, <1>5, <1>6, NothingMoves
<1>8. kept' \in [Slot -> Addr \cup {Null}]
  BY <1>2 DEF PTPInv, ScanType
<1>9. PTPInv'
  BY <1>1, <1>3, <1>4, <1>5, <1>7, <1>8, Assemble DEF Holding
<1> QED
  BY <1>2, <1>9

LEMMA LookAgainStep ==
    ASSUME PTPInv, NEW t \in Threads, LookAgain(t)
    PROVE  PTPInv' /\ UNCHANGED mm
<1>1. /\ scan[t] \in ScanRecord /\ scan \in [Threads -> ScanRecord]
      /\ (scan[t].ptr # Null <=> pc[t] \in Holding) /\ scan[t].take <= HPs /\ scan[t].last < HPs
      /\ ScanInv(t)
  BY RecordOf
<1>2. pc[t] = "look_again" /\ UNCHANGED <<mm, program>> /\ kept' = kept
  BY DEF LookAgain, At, Quiet
<1>3. /\ scan[t].ptr # Null /\ scan[t].it < N
      /\ Passed(since, scan[t].ptr, scan[t].it, scan[t].ihp)
  BY <1>1, <1>2 DEF Holding, ScanInv
<1>4. PICK r \in ScanRecord, l \in {"look", "delete", "handover"} :
        /\ scan' = [scan EXCEPT ![t] = r] /\ pc' = [pc EXCEPT ![t] = l]
        /\ r.ptr = scan[t].ptr /\ r.take = scan[t].take /\ r.last = scan[t].last
        /\ l \in {"look", "handover"} => r.it < N /\ Passed(since, r.ptr, r.it, r.ihp)
        /\ l = "delete" => since[r.ptr] = {}
  <2>1. CASE hp[Here(t)] = scan[t].ptr
    <3>1. pc' = [pc EXCEPT ![t] = "look"] /\ scan' = [scan EXCEPT ![t] = scan[t]]
      BY <1>1, <2>1 DEF LookAgain, Goto
    <3> QED
      BY <1>1, <1>3, <3>1
  <2>2. CASE hp[Here(t)] # scan[t].ptr
    <3>1. Forward(t)
      BY <2>2 DEF LookAgain
    <3> QED
      BY <1>2, <2>2, <3>1, ForwardRecord
  <2> QED
    BY <2>1, <2>2
<1>5. ProgramInv' /\ Grows /\ mem' = mem /\ since' = since
  BY <1>2, <1>4, QuietStep
<1>6. \A u \in Threads : scan'[u].ptr = scan[u].ptr
  BY <1>1, <1>4
<1>7. PlaceInv' /\ \A s \in Slot : HandoverInv(s)'
  BY <1>2, <1>5, <1>6, NothingMoves
<1>8. kept' \in [Slot -> Addr \cup {Null}]
  BY <1>2 DEF PTPInv, ScanType
<1>9. PTPInv'
  BY <1>1, <1>3, <1>4, <1>5, <1>7, <1>8, Assemble DEF Holding
<1> QED
  BY <1>2, <1>9

LEMMA TakeStep ==
    ASSUME PTPInv, NEW t \in Threads, Take(t)
    PROVE  PTPInv' /\ UNCHANGED mm
<1> DEFINE s == <<t, scan[t].take>>
<1>1. /\ scan[t] \in ScanRecord /\ scan \in [Threads -> ScanRecord]
      /\ (scan[t].ptr # Null <=> pc[t] \in Holding) /\ scan[t].take <= HPs /\ scan[t].last < HPs
      /\ ScanInv(t)
  BY RecordOf
<1>2. /\ pc[t] = "take_exchange" /\ UNCHANGED <<mm, program>>
      /\ kept' = [kept EXCEPT ![s] = Null]
  BY DEF Take, At
<1>3. scan[t].ptr = Null /\ scan[t].take < HPs /\ scan[t].take \in Nat /\ scan[t].take + 1 \in Nat
  BY <1>1, <1>2, RecordFields DEF Holding, ScanInv
<1>4. s \in Slot /\ t \in Nat /\ t < N /\ HPs \in Nat /\ scan[t].take + 1 <= HPs
  BY <1>3, MemoryAssumption DEF Slot, Index, Threads
<1>5. kept \in [Slot -> Addr \cup {Null}] /\ kept[s] \in Addr \cup {Null}
  BY <1>4 DEF PTPInv, ScanType
<1>6. PICK r \in ScanRecord, l \in {"take", "idle", "look"} :
        /\ scan' = [scan EXCEPT ![t] = r] /\ pc' = [pc EXCEPT ![t] = l]
        /\ r.ptr = kept[s] /\ r.take <= HPs /\ r.last < HPs
        /\ r.ptr # Null <=> l = "look"
        /\ l = "take" => r.take < HPs
        /\ l = "look" => r.it < N /\ Passed(since, r.ptr, r.it, r.ihp)
  <2>1. CASE kept[s] = Null
    <3>1. TakeNext(t, scan[t].take + 1)
      BY <2>1 DEF Take
    <3> QED
      BY <1>3, <2>1, <3>1, TakeNextRecord
  <2>2. CASE kept[s] # Null
    <3> DEFINE r == [scan[t] EXCEPT !.ptr = kept[s], !.it = t, !.ihp = 0,
                                    !.take = scan[t].take + 1]
    <3>1. scan' = [scan EXCEPT ![t] = r] /\ pc' = [pc EXCEPT ![t] = "look"]
      <4>1. /\ Goto(t, "look")
            /\ scan' = [scan EXCEPT ![t] = [scan[t] EXCEPT !.ptr = kept[s], !.it = t, !.ihp = 0,
                                                           !.take = @ + 1]]
        BY <2>2 DEF Take
      <4>2. scan' = [scan EXCEPT ![t] = r]
        BY <1>1, <4>1
      <4> QED
        BY <4>1, <4>2 DEF Goto
    <3>2. 0 \in Index
      BY MemoryAssumption DEF Index
    <3>3. /\ r \in ScanRecord /\ r.ptr = kept[s] /\ r.take = scan[t].take + 1
          /\ r.last = scan[t].last /\ r.it = t /\ r.ihp = 0
      BY <1>1, <1>3, <1>4, <1>5, <3>2 DEF ScanRecord
    <3>4. Passed(since, kept[s], t, scan[t].take)
      BY <1>4, <2>2 DEF PTPInv, HandoverInv
    <3>5. Passed(since, kept[s], t, 0)
      BY <1>3, <3>4 DEF Passed, Slot, Index
    <3> HIDE DEF r
    <3> QED
      BY <1>1, <1>4, <2>2, <3>1, <3>3, <3>5
  <2> QED
    BY <2>1, <2>2
<1> HIDE DEF s
<1>7. ProgramInv' /\ Grows /\ mem' = mem /\ since' = since
  BY <1>2, <1>6, QuietStep
<1>8. scan'[t].ptr = kept[s] /\ \A u \in Threads : u # t => scan'[u] = scan[u]
  BY <1>1, <1>6
<1>9. PlaceInv' /\ kept' \in [Slot -> Addr \cup {Null}]
  BY <1>2, <1>3, <1>4, <1>7, <1>8, Swapped
<1>10. ASSUME NEW q \in Slot
       PROVE  HandoverInv(q)'
  <2>1. CASE q = s
    BY <1>2, <1>5, <2>1 DEF HandoverInv
  <2>2. CASE q # s
    BY <1>2, <1>5, <1>7, <2>2, HandoverStays
  <2> QED
    BY <2>1, <2>2
<1>11. PTPInv'
  BY <1>6, <1>7, <1>9, <1>10, Assemble DEF Holding
<1> QED
  BY <1>2, <1>11

LEMMA HandoverStep ==
    ASSUME PTPInv, NEW t \in Threads, Handover(t)
    PROVE  PTPInv' /\ UNCHANGED mm
<1> DEFINE s == Here(t)
<1>1. /\ scan[t] \in ScanRecord /\ scan \in [Threads -> ScanRecord]
      /\ (scan[t].ptr # Null <=> pc[t] \in Holding) /\ scan[t].take <= HPs /\ scan[t].last < HPs
      /\ ScanInv(t)
  BY RecordOf
<1>2. /\ pc[t] = "handover" /\ UNCHANGED <<mm, program>>
      /\ kept' = [kept EXCEPT ![s] = scan[t].ptr]
  BY DEF Handover, At
<1>3. /\ scan[t].ptr # Null /\ scan[t].it < N
      /\ Passed(since, scan[t].ptr, scan[t].it, scan[t].ihp)
  BY <1>1, <1>2 DEF Holding, ScanInv
<1>4. s = <<scan[t].it, scan[t].ihp>> /\ s \in Slot /\ scan[t].take \in Nat
  BY <1>1, <1>3, RecordFields, MemoryAssumption DEF Here, Slot, Threads
<1>5. kept \in [Slot -> Addr \cup {Null}] /\ kept[s] \in Addr \cup {Null}
  BY <1>4 DEF PTPInv, ScanType
<1>6. PICK r \in ScanRecord, l \in {"take", "idle", "look_again"} :
        /\ scan' = [scan EXCEPT ![t] = r] /\ pc' = [pc EXCEPT ![t] = l]
        /\ r.ptr = kept[s] /\ r.take <= HPs /\ r.last < HPs
        /\ r.ptr # Null <=> l = "look_again"
        /\ l = "take" => r.take < HPs
        /\ l = "look_again" => r.it < N /\ Passed(since, r.ptr, r.it, r.ihp)
  <2>1. CASE kept[s] = Null
    <3>1. TakeNext(t, scan[t].take)
      BY <2>1 DEF Handover
    <3> QED
      BY <1>4, <2>1, <3>1, TakeNextRecord
  <2>2. CASE kept[s] # Null
    <3> DEFINE r == [scan[t] EXCEPT !.ptr = kept[s]]
    <3>1. scan' = [scan EXCEPT ![t].ptr = kept[s]] /\ pc' = [pc EXCEPT ![t] = "look_again"]
      BY <2>2 DEF Handover, Goto
    <3>2. scan' = [scan EXCEPT ![t] = r]
      BY <1>1, <3>1
    <3>3. /\ r \in ScanRecord /\ r.ptr = kept[s] /\ r.take = scan[t].take
          /\ r.last = scan[t].last /\ r.it = scan[t].it /\ r.ihp = scan[t].ihp
      BY <1>1, <1>5 DEF ScanRecord
    <3>4. Passed(since, kept[s], scan[t].it, scan[t].ihp)
      BY <1>4, <2>2 DEF PTPInv, HandoverInv
    <3> HIDE DEF r
    <3> QED
      BY <1>1, <1>3, <2>2, <3>1, <3>2, <3>3, <3>4
  <2> QED
    BY <2>1, <2>2
<1> HIDE DEF s
<1>7. ProgramInv' /\ Grows /\ mem' = mem /\ since' = since
  BY <1>2, <1>6, QuietStep
<1>8. scan'[t].ptr = kept[s] /\ \A u \in Threads : u # t => scan'[u] = scan[u]
  BY <1>1, <1>6
<1>9. PlaceInv' /\ kept' \in [Slot -> Addr \cup {Null}]
  BY <1>2, <1>4, <1>7, <1>8, Swapped
<1>10. ASSUME NEW q \in Slot
       PROVE  HandoverInv(q)'
  <2>1. CASE q = s
    BY <1>2, <1>3, <1>4, <1>5, <1>7, <2>1 DEF HandoverInv
  <2>2. CASE q # s
    BY <1>2, <1>5, <1>7, <2>2, HandoverStays
  <2> QED
    BY <2>1, <2>2
<1>11. PTPInv'
  BY <1>6, <1>7, <1>9, <1>10, Assemble DEF Holding
<1> QED
  BY <1>2, <1>11
LEMMA RetireStepInv ==
    ASSUME PTPInv, NEW t \in Threads, Retire(t)
    PROVE  PTPInv' /\ R!Next
<1> DEFINE a == loc[t].ptr
           r == [NoScan EXCEPT !.ptr = a, !.take = HPs]
<1>1. /\ scan \in [Threads -> ScanRecord]
      /\ (scan[t].ptr # Null <=> pc[t] \in Holding)
  BY RecordOf
<1>2. /\ pc[t] = "retire" /\ pc' = [pc EXCEPT ![t] = "look"] /\ scan' = [scan EXCEPT ![t] = r]
      /\ Protections(hp, {a}) /\ loc' = [loc EXCEPT ![t] = NoLocals]
      /\ UNCHANGED <<link, valid, kept>>
  BY DEF Retire, At, Goto
<1>3. Elsewhere(t)
  BY <1>2, PcChange
<1>4. /\ ProgramInv' /\ Grows /\ R!Next /\ a \in Addr /\ mem[a] = "used"
      /\ mem' = [mem EXCEPT ![a] = "retired"]
  BY <1>2, <1>3, RetireInv DEF PTPInv
<1>5. /\ r \in ScanRecord /\ r.ptr = a /\ r.take = HPs /\ r.last = HPs - 1
      /\ r.it = 0 /\ r.ihp = 0
  <2>1. 0 \in Index /\ HPs \in Nat /\ HPs - 1 \in Nat
    BY MemoryAssumption DEF Index
  <2> QED
    BY <1>4, <2>1 DEF NoScan, ScanRecord
<1> HIDE DEF r
<1>6. scan'[t].ptr = a /\ scan[t].ptr = Null /\ \A u \in Threads : u # t => scan'[u] = scan[u]
  BY <1>1, <1>2, <1>5 DEF Holding
<1>7. a # Null /\ mem'[a] = "retired" /\ \A b \in Addr : b # a => mem'[b] = mem[b]
  BY <1>4 DEF PTPInv, ProgramInv, MemType, Addr, Null
<1>8. PlaceInv'
  <2>1. PlaceInv /\ kept' = kept
    BY <1>2 DEF PTPInv
  <2>2. /\ \A s \in Slot : kept[s] \in Addr \cup {Null} /\ kept[s] # a
        /\ \A u \in Threads : scan[u].ptr \in Addr \cup {Null} /\ scan[u].ptr # a
    BY <1>1, <1>4, <1>7, <2>1, RecordFields DEF PTPInv, ScanType, PlaceInv
  <2>3. \A s \in Slot : kept'[s] # Null => mem'[kept'[s]] = "retired"
    BY <1>7, <2>1, <2>2 DEF PlaceInv
  <2>4. \A u \in Threads : scan'[u].ptr # Null => mem'[scan'[u].ptr] = "retired"
    BY <1>6, <1>7, <2>1, <2>2 DEF PlaceInv
  <2>5. \A s, q \in Slot : kept'[s] = kept'[q] /\ kept'[s] # Null => s = q
    BY <2>1 DEF PlaceInv
  <2>6. \A w, u \in Threads : scan'[w].ptr = scan'[u].ptr /\ scan'[w].ptr # Null => w = u
    BY <1>6, <2>1, <2>2 DEF PlaceInv
  <2>7. \A s \in Slot, u \in Threads : kept'[s] # Null => kept'[s] # scan'[u].ptr
    BY <1>6, <2>1, <2>2 DEF PlaceInv
  <2>8. ASSUME NEW b \in Addr, mem'[b] = "retired"
        PROVE  (\E s \in Slot : kept'[s] = b) \/ (\E u \in Threads : scan'[u].ptr = b)
    <3>1. CASE b = a
      BY <1>6, <3>1
    <3>2. CASE b # a
      <4>1. mem[b] = "retired"
        BY <1>7, <2>8, <3>2
      <4>2. (\E s \in Slot : kept[s] = b) \/ (\E u \in Threads : scan[u].ptr = b)
        BY <2>1, <4>1 DEF PlaceInv
      <4>3. b # Null
        BY DEF Addr, Null
      <4>4. ASSUME NEW u \in Threads, scan[u].ptr = b
            PROVE  scan'[u].ptr = b
        BY <1>6, <4>3, <4>4
      <4> QED
        BY <2>1, <4>2, <4>4
    <3> QED
      BY <3>1, <3>2
  <2> QED
    BY <2>3, <2>4, <2>5, <2>6, <2>7, <2>8 DEF PlaceInv
<1>9. kept' \in [Slot -> Addr \cup {Null}]
  BY <1>2 DEF PTPInv, ScanType
<1>10. \A s \in Slot : HandoverInv(s)'
  BY <1>2, <1>4, HandoverStays
<1>11. /\ r.take <= HPs /\ r.last < HPs /\ r.it < N
       /\ Passed(since', a, 0, 0)
  <2>1. N \in Nat \ {0} /\ HPs \in Nat \ {0}
    BY MemoryAssumption
  <2>2. Passed(since', a, 0, 0)
    BY <2>1 DEF Passed, Slot, Threads, Index
  <2> QED
    BY <1>5, <2>1, <2>2
<1>12. PTPInv'
  BY <1>2, <1>4, <1>5, <1>7, <1>8, <1>9, <1>10, <1>11, Assemble DEF Holding
<1> QED
  BY <1>4, <1>12

LEMMA DeleteObjStep ==
    ASSUME PTPInv, NEW t \in Threads, DeleteObj(t)
    PROVE  PTPInv' /\ R!Next
<1> DEFINE a == scan[t].ptr
<1>1. /\ scan[t] \in ScanRecord /\ scan \in [Threads -> ScanRecord]
      /\ (a # Null <=> pc[t] \in Holding) /\ ScanInv(t)
  BY RecordOf
<1>2. /\ pc[t] = "delete" /\ TakeNext(t, scan[t].take) /\ Delete({a})
      /\ UNCHANGED program /\ kept' = kept
  BY DEF DeleteObj, At
<1>3. a \in Addr /\ a # Null /\ since[a] = {} /\ scan[t].take \in Nat
  BY <1>1, <1>2, RecordFields DEF Holding, ScanInv
<1>4. mem[a] = "retired"
  BY <1>3 DEF PTPInv, PlaceInv
<1>5. PICK r \in ScanRecord, l \in {"take", "idle"} :
        /\ scan' = [scan EXCEPT ![t] = r] /\ pc' = [pc EXCEPT ![t] = l]
        /\ r.ptr = Null /\ r.take <= HPs /\ r.last < HPs
        /\ l = "take" => r.take < HPs
  BY <1>2, <1>3, TakeNextRecord
<1>6. Elsewhere(t)
  BY <1>5, PcChange
<1>7. ProgramInv' /\ Grows /\ R!Next /\ mem' = [mem EXCEPT ![a] = "none"]
  BY <1>2, <1>3, <1>4, <1>6, DeleteInv DEF PTPInv
<1>8. scan'[t].ptr = Null /\ \A u \in Threads : u # t => scan'[u] = scan[u]
  BY <1>1, <1>5
<1>9. mem'[a] = "none" /\ \A b \in Addr : b # a => mem'[b] = mem[b]
  BY <1>3, <1>7 DEF PTPInv, ProgramInv, MemType
<1>10. PlaceInv'
  <2>1. PlaceInv
    BY DEF PTPInv
  <2>2. /\ \A s \in Slot : kept[s] \in Addr \cup {Null} /\ kept[s] # a
        /\ \A u \in Threads : scan[u].ptr \in Addr \cup {Null} /\ (u # t => scan[u].ptr # a)
    BY <1>1, <1>3, <2>1, RecordFields DEF PTPInv, ScanType, PlaceInv
  <2>3. \A s \in Slot : kept'[s] # Null => mem'[kept'[s]] = "retired"
    BY <1>2, <1>9, <2>1, <2>2 DEF PlaceInv
  <2>4. \A u \in Threads : scan'[u].ptr # Null => mem'[scan'[u].ptr] = "retired"
    BY <1>8, <1>9, <2>1, <2>2 DEF PlaceInv
  <2>5. \A s, q \in Slot : kept'[s] = kept'[q] /\ kept'[s] # Null => s = q
    BY <1>2, <2>1 DEF PlaceInv
  <2>6. \A w, u \in Threads : scan'[w].ptr = scan'[u].ptr /\ scan'[w].ptr # Null => w = u
    BY <1>8, <2>1 DEF PlaceInv
  <2>7. \A s \in Slot, u \in Threads : kept'[s] # Null => kept'[s] # scan'[u].ptr
    BY <1>2, <1>8, <2>1 DEF PlaceInv
  <2>8. ASSUME NEW b \in Addr, mem'[b] = "retired"
        PROVE  (\E s \in Slot : kept'[s] = b) \/ (\E u \in Threads : scan'[u].ptr = b)
    <3>1. b # a /\ mem[b] = "retired"
      BY <1>9, <2>8
    <3>2. (\E s \in Slot : kept[s] = b) \/ (\E u \in Threads : scan[u].ptr = b)
      BY <2>1, <3>1 DEF PlaceInv
    <3>3. ASSUME NEW u \in Threads, scan[u].ptr = b
          PROVE  scan'[u].ptr = b
      BY <1>8, <3>1, <3>3
    <3> QED
      BY <1>2, <3>2, <3>3
  <2> QED
    BY <2>3, <2>4, <2>5, <2>6, <2>7, <2>8 DEF PlaceInv
<1>11. kept' \in [Slot -> Addr \cup {Null}]
  BY <1>2 DEF PTPInv, ScanType
<1>12. \A s \in Slot : HandoverInv(s)'
  BY <1>2, <1>7, HandoverStays
<1>13. PTPInv'
  BY <1>5, <1>7, <1>10, <1>11, <1>12, Assemble DEF Holding
<1> QED
  BY <1>7, <1>13

LEMMA EveryStep ==
    ASSUME PTPInv, [Next]_vars
    PROVE  PTPInv' /\ [R!Next]_mm
<1>1. CASE Next
  <2>1. PICK t \in Threads : Client(t) \/ Clear(t) \/ ClearOne(t) \/ Scan(t)
    BY <1>1 DEF Next
  <2> QED
    BY <2>1, ClientStep, ClearStep, ClearOneStep, TakeLookStep, TakeStep, RetireStepInv,
       LookStep, HandoverStep, LookAgainStep, DeleteObjStep DEF Scan
<1>2. CASE UNCHANGED vars
  <2>1. ProgramInv'
    BY <1>2, StutterInv DEF PTPInv
  <2>2. UNCHANGED <<hp, mem, since, link, kept, valid, pc, loc, scan>>
    BY <1>2 DEF vars, mm
  <2>3. ScanType' /\ PlaceInv'
    BY <2>2 DEF PTPInv, ScanType, PlaceInv
  <2>4. (\A s \in Slot : HandoverInv(s)') /\ \A t \in Threads : ScanInv(t)'
    BY <2>2 DEF PTPInv, HandoverInv, ScanInv, Passed
  <2> QED
    BY <1>2, <2>1, <2>3, <2>4 DEF PTPInv, vars
<1> QED
  BY <1>1, <1>2

\* The invariant of pass-the-pointer: every retired object is in one handover
\* or in one hand, and has been looked for in all hps before that place.
THEOREM PassThePointerInvariant == Spec => []PTPInv
<1>1. Init => PTPInv
  BY StartInv
<1>2. PTPInv /\ [Next]_vars => PTPInv'
  BY EveryStep
<1> QED
  BY <1>1, <1>2, PTL DEF Spec

\* What a thread has protected is not deleted by any retire() or clear(),
\* although objects wander from thread to thread while they are scanned for.
THEOREM PassedOnIsNotDeleted == Spec => []NoUseAfterFree
<1>1. PTPInv => NoUseAfterFree
  BY SafeUse DEF PTPInv
<1> QED
  BY <1>1, PassThePointerInvariant, PTL

\* A retired object is in one handover or in the hands of one thread until
\* it is deleted: no exchange loses or doubles it.
THEOREM HandedOverOnce == Spec => []OnePlace
<1>1. ASSUME PTPInv, NEW a \in Addr
      PROVE  Cardinality(Places[a]) = IF mem[a] = "retired" THEN 1 ELSE 0
  <2> DEFINE S == {s \in Slot : kept[s] = a}
             T == {t \in Threads : scan[t].ptr = a}
  <2>1. Places[a] = S \cup T
    BY DEF Places
  <2>2. PlaceInv /\ a # Null
    BY <1>1 DEF PTPInv, Addr, Null
  <2>3. CASE mem[a] = "retired"
    <3>1. CASE S # {}
      <4>1. PICK s \in Slot : kept[s] = a
        BY <3>1
      <4>2. S = {s} /\ T = {}
        BY <2>2, <4>1 DEF PlaceInv
      <4> QED
        BY <2>1, <2>3, <4>2, FS_Singleton
    <3>2. CASE S = {}
      <4>1. PICK t \in Threads : scan[t].ptr = a
        BY <2>2, <2>3, <3>2 DEF PlaceInv
      <4>2. T = {t}
        BY <2>2, <4>1 DEF PlaceInv
      <4>3. Places[a] = {t}
        BY <2>1, <3>2, <4>2
      <4> QED
        BY <2>3, <4>3, FS_Singleton
    <3> QED
      BY <3>1, <3>2
  <2>4. CASE mem[a] # "retired"
    <3>1. S = {} /\ T = {}
      BY <2>2, <2>4 DEF PlaceInv
    <3> QED
      BY <2>1, <2>4, <3>1, FS_EmptySet
  <2> QED
    BY <2>3, <2>4
<1>2. PTPInv => OnePlace
  BY <1>1 DEF OnePlace, OneOf
<1> QED
  BY <1>2, PassThePointerInvariant, PTL

\* PassThePointer implements what the data structures rely on.
THEOREM PassThePointerPromise == Spec => Promise
<1>1. Init => R!InitMemory
  BY StartInv
<1>2. PTPInv /\ [Next]_vars => [R!Next]_mm
  BY EveryStep
<1> QED
  BY <1>1, <1>2, PassThePointerInvariant, PTL DEF Spec, Promise, R!Spec, mm, R!mm
=============================================================================
