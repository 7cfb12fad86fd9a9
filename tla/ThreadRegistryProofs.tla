------------------------ MODULE ThreadRegistryProofs ------------------------
(***************************************************************************)
(* Proofs about ThreadRegistry, for any number of threads and entries.     *)
(*                                                                         *)
(* RegistryInv = TypeOK /\ OwnInv /\ Crowd is inductive.  OwnInv says that *)
(* an entry of usedTID is TRUE exactly if one thread owns it; Crowd is the *)
(* counting argument that keeps the for loop from running off the array.   *)
(***************************************************************************)
EXTENDS ThreadRegistry, FiniteSetTheorems, TLAPS

(***************************************************************************)
(* One step of a thread: the action Next quantifies over.                  *)
(***************************************************************************)
Step(t) == GetTID(t) \/ Register(t) \/ Deregister(t)

(***************************************************************************)
(* The initial state satisfies the inductive invariant.                    *)
(***************************************************************************)
LEMMA RegistryInit == Init => RegistryInv
<1>1. ASSUME Init PROVE TypeOK /\ OwnInv
  BY <1>1, NAssumption DEF Init, TypeOK, OwnInv, LocalInv, OneOwner, HasOwner,
     Owns, Slots, NotAssigned
<1>2. ASSUME Init PROVE Crowd
  <2> SUFFICES ASSUME NEW k \in 0 .. N
               PROVE  Cardinality(AtOrBeyond(k)) <= N - k
    BY DEF Crowd
  <2>1. AtOrBeyond(k) = {}
    BY <1>2 DEF Init, AtOrBeyond
  <2> QED
    BY <2>1, FS_EmptySet, NAssumption
<1> QED
  BY <1>1, <1>2 DEF RegistryInv

(***************************************************************************)
(* The types are kept; the locals of the thread that takes the step show   *)
(* that the entry it looks at exists.                                      *)
(***************************************************************************)
LEMMA TypeStep ==
  ASSUME TypeOK, OwnInv, NEW t \in Threads, Step(t)
  PROVE  TypeOK'
<1> USE NAssumption DEF TypeOK, Slots, NotAssigned
<1>0. LocalInv(t)
  BY DEF OwnInv
<1>a. ASSUME pc[t] \in {"load", "cas"}, NextSlot(t)
      PROVE  /\ slot' \in [Threads -> 0 .. N]
             /\ pc' \in [Threads -> {"unborn", "load", "cas", "max",
                                     "casmax", "live", "full"}]
  <2>1. slot[t] + 1 \in 0 .. N
    BY <1>0, <1>a DEF LocalInv
  <2> QED
    BY <2>1, <1>a DEF NextSlot
<1>1. CASE GetTID(t)
  BY <1>1 DEF GetTID
<1>2. CASE LoadUsed(t)
  <2>1. CASE usedTID[slot[t]]
    BY <1>a, <1>2, <2>1 DEF LoadUsed
  <2>2. CASE ~usedTID[slot[t]]
    BY <1>2, <2>2 DEF LoadUsed
  <2> QED
    BY <2>1, <2>2
<1>3. CASE CasUsed(t)
  <2>1. CASE usedTID[slot[t]]
    BY <1>a, <1>3, <2>1 DEF CasUsed
  <2>2. CASE ~usedTID[slot[t]]
    BY <1>3, <2>2 DEF CasUsed
  <2> QED
    BY <2>1, <2>2
<1>4. CASE LoadMax(t)
  <2>1. slot[t] \in Slots
    BY <1>0, <1>4 DEF LoadMax, LocalInv
  <2> QED
    BY <1>4, <2>1 DEF LoadMax
<1>5. CASE CasMax(t)
  BY <1>0, <1>5 DEF CasMax, LocalInv
<1>6. CASE Deregister(t)
  <2>1. tid[t] \in Slots
    BY <1>0, <1>6 DEF Deregister, LocalInv
  <2> QED
    BY <1>6, <2>1 DEF Deregister
<1> QED
  BY <1>1, <1>2, <1>3, <1>4, <1>5, <1>6 DEF Step, Register

(***************************************************************************)
(* A thread that moves on in the loop owns nothing before or after.        *)
(***************************************************************************)
LEMMA NextSlotOwn ==
  ASSUME TypeOK, OwnInv, NEW t \in Threads,
         pc[t] \in {"load", "cas"}, NextSlot(t),
         UNCHANGED <<usedTID, maxTid, tid, curMax>>
  PROVE  OwnInv'
<1>1. slot[t] < N /\ slot[t] \in 0 .. N /\ tid[t] = NotAssigned
  BY DEF OwnInv, LocalInv, TypeOK
<1>2. /\ slot'[t] = slot[t] + 1
      /\ pc'[t] = IF slot[t] + 1 < N THEN "load" ELSE "full"
      /\ \A u \in Threads : u # t => pc'[u] = pc[u] /\ slot'[u] = slot[u]
  BY DEF NextSlot, TypeOK
<1>3. LocalInv(t)'
  BY <1>1, <1>2, NAssumption DEF LocalInv, Owns
<1>4. \A u \in Threads : u # t => LocalInv(u)'
  BY <1>2 DEF OwnInv, LocalInv, Owns
<1>5. \A u \in Threads : Owns(u)' <=> Owns(u)
  BY <1>2 DEF Owns
<1>6. \A u \in Threads : Owns(u) => slot'[u] = slot[u]
  BY <1>2 DEF Owns
<1>7. OneOwner' /\ HasOwner'
  BY <1>5, <1>6 DEF OwnInv, OneOwner, HasOwner
<1> QED
  BY <1>3, <1>4, <1>7 DEF OwnInv

(***************************************************************************)
(* Every step of a thread keeps the ownership of entries.                  *)
(***************************************************************************)
LEMMA OwnStep ==
  ASSUME TypeOK, OwnInv, NEW t \in Threads, Step(t)
  PROVE  OwnInv'
<1>1. CASE GetTID(t)
  BY <1>1, NAssumption
     DEF GetTID, OwnInv, LocalInv, OneOwner, HasOwner, Owns, TypeOK, NotAssigned
<1>2. CASE LoadUsed(t)
  <2>1. CASE usedTID[slot[t]]
    BY <1>2, <2>1, NextSlotOwn DEF LoadUsed
  <2>2. CASE ~usedTID[slot[t]]
    BY <1>2, <2>2
       DEF LoadUsed, OwnInv, LocalInv, OneOwner, HasOwner, Owns, TypeOK
  <2> QED
    BY <2>1, <2>2
<1>3. CASE CasUsed(t)
  <2>1. CASE usedTID[slot[t]]
    BY <1>3, <2>1, NextSlotOwn DEF CasUsed
  <2>2. CASE ~usedTID[slot[t]]
    <3>1. /\ usedTID' = [usedTID EXCEPT ![slot[t]] = TRUE]
          /\ pc' = [pc EXCEPT ![t] = "max"]
          /\ UNCHANGED <<maxTid, tid, slot, curMax>>
          /\ slot[t] \in Slots
          /\ ~Owns(t)
      BY <1>3, <2>2, NAssumption
         DEF CasUsed, OwnInv, LocalInv, Owns, TypeOK, Slots
    <3>2. \A u \in Threads : Owns(u) => slot[u] # slot[t]
      BY <2>2 DEF OwnInv, LocalInv
    <3>3. \A u \in Threads : Owns(u)' <=> Owns(u) \/ u = t
      BY <3>1 DEF Owns, TypeOK
    <3>4. \A u \in Threads : LocalInv(u)'
      <4> SUFFICES ASSUME NEW u \in Threads PROVE LocalInv(u)'
        OBVIOUS
      <4>1. LocalInv(u)
        BY DEF OwnInv
      <4>2. CASE u = t
        BY <1>3, <3>1, <4>1, <4>2, NAssumption
           DEF CasUsed, LocalInv, Owns, TypeOK, Slots
      <4>3. CASE u # t
        BY <3>1, <3>3, <4>1, <4>3 DEF LocalInv, TypeOK, Slots
      <4> QED
        BY <4>2, <4>3
    <3>5. OneOwner'
      BY <3>1, <3>2, <3>3 DEF OwnInv, OneOwner
    <3>6. HasOwner'
      BY <3>1, <3>3 DEF OwnInv, HasOwner, TypeOK
    <3> QED
      BY <3>4, <3>5, <3>6 DEF OwnInv
  <2> QED
    BY <2>1, <2>2
<1>4. CASE LoadMax(t)
  <2>1. /\ UNCHANGED <<usedTID, maxTid, slot>>
        /\ \A u \in Threads : Owns(u)' <=> Owns(u)
    BY <1>4 DEF LoadMax, Owns, TypeOK
  <2>2. LocalInv(t)'
    BY <1>4, NAssumption DEF LoadMax, OwnInv, LocalInv, Owns, TypeOK, Slots
  <2>3. \A u \in Threads : u # t => LocalInv(u)'
    BY <1>4 DEF LoadMax, OwnInv, LocalInv, Owns, TypeOK
  <2>4. OneOwner' /\ HasOwner'
    BY <2>1 DEF OwnInv, OneOwner, HasOwner
  <2> QED
    BY <2>2, <2>3, <2>4 DEF OwnInv
<1>5. CASE CasMax(t)
  <2>1. maxTid' >= maxTid /\ maxTid' \in Int
    BY <1>5 DEF CasMax, OwnInv, LocalInv, TypeOK
  <2>2. /\ UNCHANGED <<usedTID, tid, slot, curMax>>
        /\ \A u \in Threads : Owns(u)' <=> Owns(u)
    BY <1>5 DEF CasMax, Owns, TypeOK
  <2>3. \A u \in Threads : LocalInv(u)'
    BY <1>5, <2>1, <2>2 DEF CasMax, OwnInv, LocalInv, Owns, TypeOK
  <2>4. OneOwner' /\ HasOwner'
    BY <2>2 DEF OwnInv, OneOwner, HasOwner
  <2> QED
    BY <2>3, <2>4 DEF OwnInv
<1>6. CASE Deregister(t)
  <2>1. /\ tid[t] = slot[t] /\ slot[t] \in Slots /\ Owns(t)
        /\ usedTID' = [usedTID EXCEPT ![slot[t]] = FALSE]
        /\ \A u \in Threads : u # t => pc'[u] = pc[u] /\ slot'[u] = slot[u]
        /\ pc'[t] = "unborn" /\ tid'[t] = NotAssigned
    <3>1. LocalInv(t) /\ pc[t] = "live"
      BY <1>6 DEF Deregister, OwnInv
    <3>2. tid[t] = slot[t] /\ slot[t] \in Slots /\ Owns(t)
      BY <3>1, NAssumption DEF LocalInv, Owns, TypeOK, Slots
    <3> QED
      BY <1>6, <3>2 DEF Deregister, TypeOK
  <2>2. \A u \in Threads : Owns(u)' <=> Owns(u) /\ u # t
    BY <2>1 DEF Owns
  <2>3. \A u \in Threads : u # t /\ Owns(u) => slot[u] # slot[t]
    BY <2>1 DEF OwnInv, OneOwner
  <2>4. \A u \in Threads : LocalInv(u)'
    BY <1>6, <2>1, <2>2, <2>3
       DEF Deregister, OwnInv, LocalInv, Owns, TypeOK, Slots
  <2>5. OneOwner'
    BY <2>1, <2>2 DEF OwnInv, OneOwner
  <2>6. HasOwner'
    BY <2>1, <2>2 DEF OwnInv, HasOwner, TypeOK
  <2> QED
    BY <2>4, <2>5, <2>6 DEF OwnInv
<1> QED
  BY <1>1, <1>2, <1>3, <1>4, <1>5, <1>6 DEF Step, Register

(***************************************************************************)
(* The threads at or beyond an entry are finitely many.                    *)
(***************************************************************************)
LEMMA CrowdFinite ==
  ASSUME NEW k
  PROVE  /\ IsFiniteSet(AtOrBeyond(k))
         /\ Cardinality(AtOrBeyond(k)) \in Nat
         /\ Cardinality(AtOrBeyond(k)) <= Cardinality(Threads)
BY ThreadsAssumption, FS_Subset, FS_CardinalityType DEF AtOrBeyond

(***************************************************************************)
(* A thread moves from entry s to entry s+1 only if another one owns s:    *)
(* there is room for it beyond s.                                          *)
(***************************************************************************)
LEMMA NextSlotCrowd ==
  ASSUME TypeOK, OwnInv, Crowd, NEW t \in Threads,
         pc[t] \in {"load", "cas"}, usedTID[slot[t]], NextSlot(t)
  PROVE  Crowd'
<1> DEFINE s == slot[t]
<1>1. s \in Slots /\ s + 1 \in 0 .. N
  BY NAssumption DEF TypeOK, OwnInv, LocalInv, Slots
<1>2. PICK u \in Threads : Owns(u) /\ slot[u] = s
  BY <1>1 DEF OwnInv, HasOwner
<1>3. u # t
  BY <1>2 DEF Owns
<1>4. /\ slot' = [slot EXCEPT ![t] = s + 1]
      /\ pc'[t] # "unborn"
      /\ \A v \in Threads : v # t => pc'[v] = pc[v]
  BY DEF NextSlot, TypeOK
<1> SUFFICES ASSUME NEW k \in 0 .. N
             PROVE  Cardinality(AtOrBeyond(k)') <= N - k
  BY DEF Crowd
<1>5. CASE k # s + 1
  <2>1. AtOrBeyond(k)' = AtOrBeyond(k)
    BY <1>1, <1>4, <1>5 DEF AtOrBeyond, TypeOK, Slots
  <2> QED
    BY <2>1 DEF Crowd
<1>6. CASE k = s + 1
  <2>1. AtOrBeyond(k)' = AtOrBeyond(k) \cup {t}
    BY <1>1, <1>4, <1>6 DEF AtOrBeyond, TypeOK, Slots
  <2> DEFINE A == AtOrBeyond(k) \cup {t}
  <2>2. t \notin AtOrBeyond(k) /\ u \notin A
    BY <1>1, <1>2, <1>3, <1>6 DEF AtOrBeyond, Slots
  <2>3. A \cup {u} \subseteq AtOrBeyond(s)
    BY <1>1, <1>2, <1>6, NAssumption DEF AtOrBeyond, Owns, TypeOK, Slots
  <2>4. /\ IsFiniteSet(A)
        /\ Cardinality(A) = Cardinality(AtOrBeyond(k)) + 1
    BY <2>2, CrowdFinite, FS_AddElement
  <2>5. /\ IsFiniteSet(A \cup {u})
        /\ Cardinality(A \cup {u}) = Cardinality(A) + 1
    BY <2>2, <2>4, FS_AddElement
  <2>6. Cardinality(A \cup {u}) <= Cardinality(AtOrBeyond(s))
    <3>1. IsFiniteSet(AtOrBeyond(s))
      BY CrowdFinite
    <3> HIDE DEF A, s
    <3> QED
      BY <2>3, <3>1, FS_Subset
  <2>7. Cardinality(AtOrBeyond(s)) <= N - s
    BY <1>1, NAssumption DEF Crowd, Slots
  <2>8. Cardinality(A) + 1 <= N - s
    BY <2>4, <2>5, <2>6, <2>7, CrowdFinite, <1>1, NAssumption DEF Slots
  <2>9. Cardinality(A) <= N - k
    BY <2>4, <2>8, CrowdFinite, <1>1, <1>6, NAssumption DEF Slots
  <2> QED
    BY <2>1, <2>9
<1> QED
  BY <1>5, <1>6

(***************************************************************************)
(* Every step of a thread keeps the counting argument.                     *)
(***************************************************************************)
LEMMA CrowdStep ==
  ASSUME TypeOK, OwnInv, Crowd, NEW t \in Threads, Step(t)
  PROVE  Crowd'
<1>1. CASE \A k \in 0 .. N : AtOrBeyond(k)' \subseteq AtOrBeyond(k)
  <2> SUFFICES ASSUME NEW k \in 0 .. N
               PROVE  Cardinality(AtOrBeyond(k)') <= N - k
    BY DEF Crowd
  <2>1. Cardinality(AtOrBeyond(k)') <= Cardinality(AtOrBeyond(k))
    BY <1>1, CrowdFinite, FS_Subset
  <2>2. Cardinality(AtOrBeyond(k)') \in Nat
    BY <1>1, CrowdFinite, FS_Subset, FS_CardinalityType
  <2> QED
    BY <2>1, <2>2, CrowdFinite, NAssumption DEF Crowd
<1>2. CASE GetTID(t)
  <2> SUFFICES ASSUME NEW k \in 0 .. N
               PROVE  Cardinality(AtOrBeyond(k)') <= N - k
    BY DEF Crowd
  <2>1. CASE k = 0
    <3>1. AtOrBeyond(k)' \subseteq Threads
      BY DEF AtOrBeyond
    <3>2. Cardinality(AtOrBeyond(k)') <= Cardinality(Threads)
      BY <3>1, ThreadsAssumption, FS_Subset
    <3>3. Cardinality(AtOrBeyond(k)') \in Nat /\ Cardinality(Threads) \in Nat
      BY <3>1, ThreadsAssumption, FS_Subset, FS_CardinalityType
    <3> QED
      BY <2>1, <3>2, <3>3, ThreadsAssumption, NAssumption
  <2>2. CASE k # 0
    <3>1. AtOrBeyond(k)' = AtOrBeyond(k)
      BY <1>2, <2>2 DEF GetTID, AtOrBeyond, TypeOK
    <3> QED
      BY <3>1 DEF Crowd
  <2> QED
    BY <2>1, <2>2
<1>3. CASE LoadUsed(t)
  BY <1>1, <1>3, NextSlotCrowd DEF LoadUsed, AtOrBeyond, TypeOK
<1>4. CASE CasUsed(t)
  BY <1>1, <1>4, NextSlotCrowd DEF CasUsed, AtOrBeyond, TypeOK
<1>5. CASE LoadMax(t)
  BY <1>1, <1>5 DEF LoadMax, AtOrBeyond, TypeOK
<1>6. CASE CasMax(t)
  BY <1>1, <1>6 DEF CasMax, AtOrBeyond, TypeOK
<1>7. CASE Deregister(t)
  BY <1>1, <1>7 DEF Deregister, AtOrBeyond, TypeOK
<1> QED
  BY <1>2, <1>3, <1>4, <1>5, <1>6, <1>7 DEF Step, Register

(***************************************************************************)
(* The inductive invariant holds in every reachable state.                 *)
(***************************************************************************)
THEOREM RegistryInvariant == Spec => []RegistryInv
<1>1. Init => RegistryInv
  BY RegistryInit
<1>2. RegistryInv /\ [Next]_vars => RegistryInv'
  <2> SUFFICES ASSUME RegistryInv, [Next]_vars
               PROVE  RegistryInv'
    OBVIOUS
  <2>1. CASE Next
    BY <2>1, TypeStep, OwnStep, CrowdStep DEF Next, Step, RegistryInv
  <2>2. CASE UNCHANGED vars
    BY <2>2 DEF vars, RegistryInv, TypeOK, OwnInv, LocalInv, OneOwner,
       HasOwner, Owns, Crowd, AtOrBeyond
  <2> QED
    BY <2>1, <2>2
<1> QED
  BY <1>1, <1>2, PTL DEF Spec

(***************************************************************************)
(* Live threads have distinct tids, for any number of threads.             *)
(***************************************************************************)
THEOREM TidsAreUnique == Spec => []UniqueTid
<1>1. RegistryInv => UniqueTid
  BY DEF RegistryInv, OwnInv, LocalInv, OneOwner, Owns, UniqueTid
<1> QED
  BY <1>1, RegistryInvariant, PTL

(***************************************************************************)
(* A tid that was handed out is below maxTid, so scans visit its row.      *)
(***************************************************************************)
THEOREM MaxTidCovers == Spec => []MaxCoversLive
<1>1. RegistryInv => MaxCoversLive
  BY DEF RegistryInv, OwnInv, LocalInv, MaxCoversLive
<1> QED
  BY <1>1, RegistryInvariant, PTL

(***************************************************************************)
(* register_thread_new() never reaches its assert(false): with at most N   *)
(* threads alive, every one that looks for an entry finds one.             *)
(***************************************************************************)
THEOREM RegistryNeverFull == Spec => []NeverFull
<1>1. RegistryInv => NeverFull
  <2> SUFFICES ASSUME RegistryInv, NEW t \in Threads, pc[t] = "full"
               PROVE  FALSE
    BY DEF NeverFull
  <2>1. t \in AtOrBeyond(N)
    BY NAssumption DEF RegistryInv, OwnInv, LocalInv, AtOrBeyond
  <2>2. Cardinality(AtOrBeyond(N)) = 0
    BY CrowdFinite, NAssumption DEF RegistryInv, Crowd
  <2> QED
    BY <2>1, <2>2, CrowdFinite, FS_EmptySet
<1> QED
  BY <1>1, RegistryInvariant, PTL

(***************************************************************************)
(* maxTid never decreases, although the threads that raise it race.        *)
(***************************************************************************)
THEOREM MaxTidMonotone == Spec => MaxNeverShrinks
<1>1. RegistryInv /\ [Next]_vars => [maxTid' >= maxTid]_vars
  <2> SUFFICES ASSUME RegistryInv, NEW t \in Threads, Step(t)
               PROVE  maxTid' >= maxTid
    BY DEF Next, Step
  <2>1. CASE CasMax(t)
    BY <2>1, NAssumption DEF CasMax, RegistryInv, TypeOK, OwnInv, LocalInv, Slots
  <2>2. CASE ~CasMax(t)
    BY <2>2, NAssumption DEF Step, Register, GetTID, LoadUsed, CasUsed,
         LoadMax, Deregister, RegistryInv, TypeOK
  <2> QED
    BY <2>1, <2>2
<1> QED
  BY <1>1, RegistryInvariant, PTL DEF Spec, MaxNeverShrinks

(***************************************************************************)
(* The type invariant: each local has the range its place in the code      *)
(* says, and maxTid never exceeds the size of the registry.                *)
(***************************************************************************)
THEOREM RegistryTypes == Spec => []TypeOK
<1>1. RegistryInv => TypeOK
  BY DEF RegistryInv
<1> QED
  BY <1>1, RegistryInvariant, PTL

=============================================================================
