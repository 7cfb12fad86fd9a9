---------------------------- MODULE OrcPtrProofs -----------------------------
(***************************************************************************)
(* Proofs about OrcPtr, for any number of orc_ptrs, objects and indices.   *)
(*                                                                         *)
(* PtrInv is inductive.  Others(v, i) are the orc_ptrs with index i except *)
(* v: cleanIdx() leaves their number in usedHaz, so that an index that is  *)
(* free then, or whose count was 1, has no user but v, and a store in its  *)
(* hp disturbs no other orc_ptr.                                           *)
(***************************************************************************)
EXTENDS OrcPtr, FiniteSetTheorems, TLAPS

Others(v, i) == {w \in live : w # v /\ ref[w].idx = i}

LEMMA IndexFacts == 0 \in Idx /\ PtrIdx \subseteq Idx /\ PtrIdx \subseteq Nat /\ 0 \notin PtrIdx
BY HazAssumption DEF Idx, PtrIdx

\* Sets of variables are finite and counted by natural numbers.
LEMMA Counted ==
    ASSUME NEW S \in SUBSET Var
    PROVE  /\ IsFiniteSet(S) /\ Cardinality(S) \in Nat
           /\ Cardinality(S) = 0 <=> S = {}
           /\ \A v \in Var : Cardinality(S \cup {v}) = IF v \in S THEN Cardinality(S)
                                                       ELSE Cardinality(S) + 1
           /\ \A v \in Var : Cardinality(S \ {v}) = IF v \in S THEN Cardinality(S) - 1
                                                    ELSE Cardinality(S)
<1>1. IsFiniteSet(S)
  BY VarAssumption, FS_Subset
<1> QED  BY <1>1, FS_CardinalityType, FS_EmptySet, FS_AddElement, FS_RemoveElement

\* w leaves a set and v enters it.
LEMMA Exchanged ==
    ASSUME NEW S \in SUBSET Var, NEW w \in S, NEW v \in Var \ S
    PROVE  Cardinality((S \ {w}) \cup {v}) = Cardinality(S)
<1>1. Cardinality(S \ {w}) = Cardinality(S) - 1 /\ Cardinality(S) \in Nat
  BY Counted
<1>2. S \ {w} \in SUBSET Var /\ v \notin S \ {w} /\ v \in Var
  OBVIOUS
<1>3. Cardinality((S \ {w}) \cup {v}) = Cardinality(S \ {w}) + 1
  BY <1>2, Counted
<1> QED  BY <1>1, <1>3

\* cleanIdx() leaves in usedHaz the number of the others.
LEMMA CleanCount ==
    ASSUME PtrInv, NEW v \in Var
    PROVE  /\ Clean(v) \in [Idx -> Nat] /\ Clean(v)[0] = 0
           /\ \A i \in PtrIdx : Clean(v)[i] = Cardinality(Others(v, i))
<1> USE IndexFacts
<1>1. /\ usedHaz \in [Idx -> Nat] /\ usedHaz[0] = 0 /\ ref[v].idx \in Idx
      /\ live \subseteq Var
  BY DEF PtrInv, TypeOK, ScopeInv, OrcPtr
<1>2. \A i \in PtrIdx : usedHaz[i] = Cardinality(Users(i)) /\ Users(i) \in SUBSET Var
  BY <1>1 DEF PtrInv, UsedIsCount, Users
<1>3. ref[v].idx # 0 => v \in live
  BY DEF PtrInv, ScopeInv
<1>4. ASSUME NEW i \in PtrIdx
      PROVE  Cardinality(Others(v, i)) =
               IF ref[v].idx = i THEN usedHaz[i] - 1 ELSE usedHaz[i]
  <2>1. Others(v, i) = Users(i) \ {v}
    BY DEF Others, Users
  <2>2. v \in Users(i) <=> ref[v].idx = i
    BY <1>3 DEF Users
  <2> QED  BY <1>2, <2>1, <2>2, Counted
<1>5. \A i \in PtrIdx : Cardinality(Others(v, i)) \in Nat
  BY <1>1, Counted DEF Others
<1>6. CASE ref[v].idx = 0
  BY <1>1, <1>4, <1>6 DEF Clean
<1>7. CASE ref[v].idx # 0
  <2>1. ref[v].idx \in PtrIdx
    BY <1>1, <1>7, HazAssumption DEF Idx, PtrIdx
  <2>2. Clean(v) = [usedHaz EXCEPT ![ref[v].idx] = @ - 1]
    BY <1>7 DEF Clean
  <2>3. \A i \in Idx : Clean(v)[i] = IF i = ref[v].idx THEN usedHaz[i] - 1 ELSE usedHaz[i]
    BY <1>1, <2>2
  <2>4. usedHaz[ref[v].idx] - 1 \in Nat
    BY <1>4, <1>5, <2>1
  <2>5. Clean(v) \in [Idx -> Nat]
    BY <1>1, <2>2, <2>4
  <2> QED  BY <1>1, <1>4, <1>7, <2>3, <2>5
<1> QED  BY <1>6, <1>7

\* A variable out of scope has no index: all users are others.
LEMMA FreshCount ==
    ASSUME PtrInv, NEW v \in Var \ live
    PROVE  /\ usedHaz \in [Idx -> Nat] /\ usedHaz[0] = 0
           /\ \A i \in PtrIdx : usedHaz[i] = Cardinality(Others(v, i))
<1>1. \A i \in PtrIdx : Others(v, i) = Users(i)
  BY DEF Others, Users
<1> QED  BY <1>1 DEF PtrInv, TypeOK, ScopeInv, UsedIsCount

\* v has index k, or none (0), and u counted the others.
LEMMA CountAfter ==
    ASSUME PtrInv, NEW v \in Var, NEW u \in [Idx -> Nat], NEW k \in Idx,
           \A i \in PtrIdx : u[i] = Cardinality(Others(v, i)),
           live' \in SUBSET Var, live' \ {v} = live \ {v}, k # 0 => v \in live',
           ref'[v].idx = k, \A w \in Var \ {v} : ref'[w].idx = ref[w].idx,
           usedHaz' = IF k = 0 THEN u ELSE [u EXCEPT ![k] = @ + 1]
    PROVE  UsedIsCount'
<1> USE IndexFacts
<1> SUFFICES ASSUME NEW i \in PtrIdx
             PROVE  usedHaz'[i] = Cardinality(Users(i)')
  BY DEF UsedIsCount, Users
<1>1. Others(v, i) \in SUBSET Var /\ v \notin Others(v, i)
  BY DEF Others, PtrInv, TypeOK
<1>2. Users(i)' = IF k = i THEN Others(v, i) \cup {v} ELSE Others(v, i)
  BY DEF Users, Others, PtrInv, TypeOK
<1>3. usedHaz'[i] = IF k = i THEN u[i] + 1 ELSE u[i]
  OBVIOUS
<1> QED  BY <1>1, <1>2, <1>3, Counted

\* The index that v shares with nobody has no other user.
LEMMA SoleAlone ==
    ASSUME PtrInv, NEW v \in live, Sole(v)
    PROVE  /\ ref[v].idx \in PtrIdx
           /\ \A w \in Held : ref[w].idx = ref[v].idx => w = v
<1>1. usedHaz[ref[v].idx] = 1 /\ usedHaz[0] = 0 /\ v \in Var /\ ref[v].idx \in Idx
  BY DEF Sole, PtrInv, ScopeInv, TypeOK, OrcPtr
<1>2. ref[v].idx \in PtrIdx
  BY <1>1, HazAssumption DEF Idx, PtrIdx
<1>3. Clean(v)[ref[v].idx] = 0
  BY <1>1, <1>2, IndexFacts DEF Clean, PtrInv, TypeOK
<1>4. Cardinality(Others(v, ref[v].idx)) = 0
  BY <1>1, <1>2, <1>3, CleanCount
<1>5. Others(v, ref[v].idx) = {}
  BY <1>4, Counted DEF Others, PtrInv, TypeOK
<1> QED  BY <1>2, <1>5 DEF Others, Held

\* An index that is free once v is cleaned has no other user.
LEMMA FreeAlone ==
    ASSUME PtrInv, NEW v \in Var, NEW u, NEW i \in PtrIdx, u[i] = 0,
           \A j \in PtrIdx : u[j] = Cardinality(Others(v, j))
    PROVE  \A w \in Held : ref[w].idx = i => w = v
<1>1. Others(v, i) = {}
  BY Counted DEF Others, PtrInv, TypeOK
<1> QED  BY <1>1 DEF Others, Held

\* clear() frees no object.
LEMMA ClearedFacts ==
    ASSUME PtrInv, NEW v \in Var
    PROVE  /\ Cleared(v) \in [Obj -> Status]
           /\ \A o \in Obj : status[o] # "free" => Cleared(v)[o] # "free"
BY DEF Cleared, PtrInv, TypeOK, Status

\* v gets pointer p and index k, whose hp gets p or stays, and nobody else
\* has that index.
LEMMA SafeAfter ==
    ASSUME PtrInv, NEW v \in Var, NEW k \in PtrIdx, NEW p \in Ptr, NEW l \in BOOLEAN,
           ref' = [ref EXCEPT ![v] = [ptr |-> p, idx |-> k, lnk |-> l]],
           live' = live \cup {v},
           \/ hp' = [hp EXCEPT ![k] = p]
           \/ hp' = hp /\ p \notin Obj,
           \A w \in Held : ref[w].idx = k => w = v,
           status' \in [Obj -> Status],
           \A o \in Obj : status[o] # "free" => status'[o] # "free",
           p \in Obj => status'[p] # "free",
           temp' \in {temp, NoTemp}
    PROVE  /\ HeldIsSafe' /\ TempIsSafe'
           /\ hp' \in [Idx -> Ptr] /\ ref' \in [Var -> OrcPtr] /\ ref'[v].idx = k
           /\ live' \in SUBSET Var /\ temp' \in Ptr \cup {NoTemp}
           /\ \A w \in Var \ {v} : ref'[w] = ref[w]
<1> USE IndexFacts
<1>1. /\ ref' = [ref EXCEPT ![v] = [ptr |-> p, idx |-> k, lnk |-> l]]
      /\ ref \in [Var -> OrcPtr] /\ hp \in [Idx -> Ptr] /\ live \in SUBSET Var
      /\ temp \in Ptr \cup {NoTemp}
  BY DEF PtrInv, TypeOK
<1>2. ref' \in [Var -> OrcPtr]
  BY <1>1 DEF OrcPtr
<1>3. \A w \in Var \ {v} : ref'[w] = ref[w]
  BY <1>1
<1>4. ref'[v] = [ptr |-> p, idx |-> k, lnk |-> l]
  BY <1>1
<1>5. hp' \in [Idx -> Ptr]
  BY <1>1
<1>6. \A i \in Idx \ {k} : hp'[i] = hp[i]
  BY <1>1
<1>7. HeldIsSafe'
  <2> SUFFICES ASSUME NEW w \in Held', ref'[w].ptr \in Obj
               PROVE  hp'[ref'[w].idx] = ref'[w].ptr /\ status'[ref'[w].ptr] # "free"
    BY DEF HeldIsSafe, Held
  <2>1. CASE w = v
    BY <1>1, <1>4, <2>1
  <2>2. CASE w # v
    <3>1. w \in Held /\ ref'[w] = ref[w]
      BY <1>1, <1>3, <2>2 DEF Held
    <3>2. ref[w].idx \in Idx \ {k}
      BY <1>1, <2>2, <3>1 DEF Held, OrcPtr
    <3>3. hp[ref[w].idx] = ref[w].ptr /\ status[ref[w].ptr] # "free"
      BY <3>1 DEF PtrInv, HeldIsSafe
    <3> QED  BY <1>6, <3>1, <3>2, <3>3
  <2> QED  BY <2>1, <2>2
<1>8. TempIsSafe'
  BY <1>6, ValueAssumption DEF TempIsSafe, PtrInv
<1> QED  BY <1>1, <1>2, <1>3, <1>4, <1>5, <1>7, <1>8

\* What Take() does, with or without a free index.
LEMMA TakeStep ==
    ASSUME PtrInv, NEW v \in Var, NEW u \in [Idx -> Nat], u[0] = 0,
           \A i \in PtrIdx : u[i] = Cardinality(Others(v, i)),
           NEW from, NEW p \in Ptr, NEW l \in BOOLEAN, NEW protect \in BOOLEAN,
           protect \/ p \notin Obj,
           Take(v, u, from, p, l, protect), live' = live \cup {v},
           status' \in [Obj -> Status],
           \A o \in Obj : status[o] # "free" => status'[o] # "free",
           p \in Obj => status'[p] # "free",
           temp' \in {temp, NoTemp}
    PROVE  PtrInv'
<1> USE IndexFacts
<1>0. /\ live \in SUBSET Var /\ ref \in [Var -> OrcPtr] /\ hp \in [Idx -> Ptr]
      /\ usedHaz \in [Idx -> Nat] /\ temp \in Ptr \cup {NoTemp} /\ failed \in BOOLEAN
  BY DEF PtrInv, TypeOK
<1>1. ASSUME NEW i \in PtrIdx, u[i] = 0, usedHaz' = [u EXCEPT ![i] = @ + 1],
             Set(v, p, i, l), hp' = (IF protect THEN [hp EXCEPT ![i] = p] ELSE hp),
             failed' = failed
      PROVE  PtrInv'
  <2>1. \A w \in Held : ref[w].idx = i => w = v
    BY <1>1, FreeAlone
  <2>2. \/ hp' = [hp EXCEPT ![i] = p]
        \/ hp' = hp /\ p \notin Obj
    BY <1>1
  <2>3. /\ HeldIsSafe' /\ TempIsSafe'
        /\ hp' \in [Idx -> Ptr] /\ ref' \in [Var -> OrcPtr] /\ ref'[v].idx = i
        /\ live' \in SUBSET Var /\ temp' \in Ptr \cup {NoTemp}
        /\ \A w \in Var \ {v} : ref'[w] = ref[w]
    <3>1. ref' = [ref EXCEPT ![v] = [ptr |-> p, idx |-> i, lnk |-> l]]
      BY <1>1 DEF Set
    <3> QED  BY <2>1, <2>2, <3>1, SafeAfter
  <2>4. UsedIsCount'
    <3>1. live' \ {v} = live \ {v} /\ v \in live' /\ i # 0 /\ i \in Idx
      BY <1>1
    <3>2. \A w \in Var \ {v} : ref'[w].idx = ref[w].idx
      BY <2>3
    <3>3. usedHaz' = IF i = 0 THEN u ELSE [u EXCEPT ![i] = @ + 1]
      BY <1>1, <3>1
    <3> QED  BY <2>3, <3>1, <3>2, <3>3, CountAfter
  <2>5. usedHaz' \in [Idx -> Nat] /\ usedHaz'[0] = 0
    BY <1>1
  <2>6. ScopeInv'
    BY <2>3, <2>5 DEF ScopeInv, PtrInv
  <2> QED  BY <1>0, <1>1, <2>3, <2>4, <2>5, <2>6 DEF PtrInv, TypeOK
<1>2. ASSUME failed' = TRUE, UNCHANGED <<usedHaz, ref, hp>>
      PROVE  PtrInv'
  <2>1. v \in live \/ ref[v].idx = 0
    BY DEF PtrInv, ScopeInv
  <2>2. Held' = Held
    BY <1>2, <2>1 DEF Held
  <2>3. \A i \in PtrIdx : Users(i)' = Users(i)
    BY <1>2, <2>1 DEF Users
  <2>4. UsedIsCount'
    BY <1>2, <2>3 DEF PtrInv, UsedIsCount
  <2>5. HeldIsSafe'
    BY <1>2, <2>2, <1>0 DEF PtrInv, HeldIsSafe, Held
  <2>6. ScopeInv' /\ TempIsSafe'
    BY <1>2, ValueAssumption DEF PtrInv, ScopeInv, TempIsSafe
  <2> QED  BY <1>0, <1>2, <2>4, <2>5, <2>6 DEF PtrInv, TypeOK
<1> QED  BY <1>1, <1>2 DEF Take

\* What Keep() does to an orc_ptr whose index is its own.
LEMMA KeepStep ==
    ASSUME PtrInv, NEW v \in live, Sole(v), NEW p \in Ptr, NEW l \in BOOLEAN,
           Keep(v, p, l), live' = live,
           status' \in [Obj -> Status],
           \A o \in Obj : status[o] # "free" => status'[o] # "free",
           p \in Obj => status'[p] # "free",
           temp' \in {temp, NoTemp}
    PROVE  PtrInv'
<1> USE IndexFacts
<1>1. PICK k \in PtrIdx : k = ref[v].idx
  BY SoleAlone
<1>2. \A w \in Held : ref[w].idx = k => w = v
  BY <1>1, SoleAlone
<1>3. /\ ref' = [ref EXCEPT ![v] = [ptr |-> p, idx |-> k, lnk |-> l]]
      /\ hp' = [hp EXCEPT ![k] = p]
      /\ usedHaz' = usedHaz /\ failed' = failed
  BY <1>1 DEF Keep, Set
<1>4. v \in Var /\ live' = live \cup {v}
  BY DEF PtrInv, TypeOK
<1>5. /\ HeldIsSafe' /\ TempIsSafe'
      /\ hp' \in [Idx -> Ptr] /\ ref' \in [Var -> OrcPtr] /\ ref'[v].idx = k
      /\ live' \in SUBSET Var /\ temp' \in Ptr \cup {NoTemp}
      /\ \A w \in Var \ {v} : ref'[w] = ref[w]
  <2>1. \/ hp' = [hp EXCEPT ![k] = p]
        \/ hp' = hp /\ p \notin Obj
    BY <1>3
  <2> QED  BY <1>2, <1>3, <1>4, <2>1, SafeAfter
<1>6. \A i \in PtrIdx : Users(i)' = Users(i)
  BY <1>1, <1>4, <1>5 DEF Users, PtrInv, TypeOK
<1>7. UsedIsCount'
  BY <1>3, <1>6 DEF PtrInv, UsedIsCount
<1>8. ScopeInv'
  BY <1>3, <1>5 DEF PtrInv, ScopeInv
<1> QED  BY <1>3, <1>5, <1>7, <1>8 DEF PtrInv, TypeOK

\* A step that leaves hp alone, gives nobody an index with another pointer,
\* and counts right.
LEMMA ShareStep ==
    ASSUME PtrInv, UsedIsCount', hp' = hp, failed' = failed,
           ref' \in [Var -> OrcPtr], live' \in SUBSET Var,
           usedHaz' \in [Idx -> Nat], usedHaz'[0] = 0,
           \A w \in Var \ live' : ref'[w].idx = 0,
           \A w \in Held' : \E x \in Held :
              ref'[w].idx = ref[x].idx /\ ref'[w].ptr = ref[x].ptr,
           status' \in [Obj -> Status],
           \A o \in Obj : status[o] # "free" => status'[o] # "free",
           temp' = temp
    PROVE  PtrInv'
<1>1. HeldIsSafe'
  BY DEF HeldIsSafe, Held, PtrInv
<1>2. ScopeInv' /\ TempIsSafe'
  BY DEF ScopeInv, TempIsSafe, PtrInv
<1> QED  BY <1>1, <1>2 DEF PtrInv, TypeOK

\* The functions that concern one orc_ptr.
LEMMA OneStep ==
    ASSUME PtrInv, NEW v \in Var, One(v)
    PROVE  PtrInv'
<1> USE IndexFacts
<1>0. /\ live \in SUBSET Var /\ ref \in [Var -> OrcPtr] /\ hp \in [Idx -> Ptr]
      /\ usedHaz \in [Idx -> Nat] /\ temp \in Ptr \cup {NoTemp}
      /\ status \in [Obj -> Status] /\ ref[v].idx \in Idx
  BY DEF PtrInv, TypeOK, OrcPtr
<1>1. /\ Clean(v) \in [Idx -> Nat] /\ Clean(v)[0] = 0
      /\ \A i \in PtrIdx : Clean(v)[i] = Cardinality(Others(v, i))
  BY CleanCount
<1>2. v \notin live => /\ usedHaz \in [Idx -> Nat] /\ usedHaz[0] = 0
                       /\ \A i \in PtrIdx : usedHaz[i] = Cardinality(Others(v, i))
  BY FreshCount
<1>3. /\ Cleared(v) \in [Obj -> Status]
      /\ \A o \in Obj : status[o] # "free" => Cleared(v)[o] # "free"
  BY ClearedFacts
<1>4. temp # NoTemp => temp \in Ptr /\ (temp \in Obj => status[temp] # "free")
  BY <1>0 DEF PtrInv, TempIsSafe
<1>5. v \in live => live = live \cup {v}
  OBVIOUS
<1>6. Null \in Ptr /\ Null \notin Obj
  BY ValueAssumption DEF Ptr
<1>7. CASE Construct(v)
  <2>1. v \notin live /\ live' = live \cup {v} /\ temp' = temp /\ status' = status
        /\ Take(v, usedHaz, 1, Null, TRUE, FALSE)
    BY <1>7 DEF Construct
  <2> QED  BY <1>0, <1>2, <1>6, <2>1, TakeStep
<1>8. CASE MakeOrc(v)
  <2>1. PICK o \in Obj :
          /\ v \notin live /\ live' = live \cup {v} /\ temp' = temp
          /\ status[o] = "free" /\ status' = [status EXCEPT ![o] = "new"]
          /\ Take(v, usedHaz, 1, o, FALSE, TRUE)
    BY <1>8 DEF MakeOrc
  <2>2. status' \in [Obj -> Status] /\ status'[o] # "free"
        /\ \A x \in Obj : status[x] # "free" => status'[x] # "free"
    BY <1>0, <2>1 DEF Status
  <2> QED  BY <1>2, <2>1, <2>2, TakeStep DEF Ptr
<1>9. CASE ConstructLoaded(v)
  <2>1. temp # NoTemp /\ v \notin live /\ live' = live \cup {v} /\ temp' = NoTemp
        /\ status' = status /\ Take(v, usedHaz, 1, temp, TRUE, TRUE)
    BY <1>9 DEF ConstructLoaded
  <2> QED  BY <1>0, <1>2, <1>4, <2>1, TakeStep
<1>10. ASSUME temp # NoTemp, v \in live, temp' = NoTemp, live' = live,
              \/ Sole(v) /\ Keep(v, temp, TRUE)
              \/ Take(v, Clean(v), 1, temp, TRUE, TRUE),
              status' \in {status, Cleared(v)}
       PROVE  PtrInv'
  <2>1. /\ status' \in [Obj -> Status]
        /\ \A o \in Obj : status[o] # "free" => status'[o] # "free"
    BY <1>0, <1>3, <1>10
  <2>2. temp \in Ptr /\ (temp \in Obj => status'[temp] # "free")
    BY <1>4, <1>10, <2>1
  <2>3. CASE Sole(v) /\ Keep(v, temp, TRUE)
    BY <1>10, <2>1, <2>2, <2>3, KeepStep
  <2>4. CASE Take(v, Clean(v), 1, temp, TRUE, TRUE)
    BY <1>1, <1>5, <1>10, <2>1, <2>2, <2>4, TakeStep
  <2> QED  BY <1>10, <2>3, <2>4
<1>11. CASE AssignLoaded(v)
  BY <1>10, <1>11 DEF AssignLoaded
<1>12. CASE UnmarkLoaded(v)
  BY <1>10, <1>12 DEF UnmarkLoaded
<1>13. CASE Destroy(v)
  <2>1. /\ v \in live /\ live' = live \ {v} /\ ref' = [ref EXCEPT ![v] = NoPtr]
        /\ usedHaz' = Clean(v) /\ status' = Cleared(v)
        /\ temp' = temp /\ hp' = hp /\ failed' = failed
    BY <1>13 DEF Destroy
  <2>2. ref' \in [Var -> OrcPtr] /\ ref'[v].idx = 0 /\ \A w \in Var \ {v} : ref'[w] = ref[w]
    BY <1>0, <1>6, <2>1 DEF NoPtr, OrcPtr
  <2>3. live' \in SUBSET Var /\ live' \ {v} = live \ {v}
    BY <1>0, <2>1
  <2>4. UsedIsCount'
    BY <1>1, <2>1, <2>2, <2>3, CountAfter
  <2>5. \A w \in Held' : w \in Held /\ ref'[w] = ref[w]
    BY <1>0, <2>1, <2>2 DEF Held
  <2>6. \A w \in Var \ live' : ref'[w].idx = 0
    BY <2>1, <2>2 DEF PtrInv, ScopeInv
  <2>7. usedHaz' \in [Idx -> Nat] /\ usedHaz'[0] = 0
    BY <1>1, <2>1
  <2> QED  BY <1>3, <2>1, <2>2, <2>3, <2>4, <2>5, <2>6, <2>7, ShareStep
<1>14. CASE Link(v)
  <2>1. UNCHANGED <<live, ref, temp, hp, usedHaz, failed>>
        /\ status' \in [Obj -> Status]
        /\ \A o \in Obj : status[o] # "free" => status'[o] # "free"
    BY <1>0, <1>14 DEF Link, Status
  <2>2. UsedIsCount'
    BY <2>1 DEF PtrInv, UsedIsCount, Users
  <2>3. Held' = Held
    BY <2>1 DEF Held
  <2> QED  BY <1>0, <2>1, <2>2, <2>3, ShareStep DEF PtrInv, ScopeInv
<1> QED  BY <1>7, <1>8, <1>9, <1>11, <1>12, <1>13, <1>14 DEF One

\* The branch of the assignments that copies to a higher index.
LEMMA CopyUpStep ==
    ASSUME PtrInv, NEW v \in Var, NEW w \in Var, v \in live, w \in Held,
           CopyUp(v, w), live' = live \cup {v}, temp' \in {temp, NoTemp},
           status' \in [Obj -> Status],
           \A o \in Obj : status[o] # "free" => status'[o] # "free"
    PROVE  PtrInv'
<1>1. ref[w].ptr \in Ptr /\ ref[w].lnk \in BOOLEAN
  BY DEF PtrInv, TypeOK, OrcPtr
<1>2. PICK p \in Ptr : p = ref[w].ptr
  BY <1>1
<1>3. PICK l \in BOOLEAN : l = ref[w].lnk
  BY <1>1
<1>4. p \in Obj => status'[p] # "free"
  BY <1>2 DEF PtrInv, HeldIsSafe
<1>5. CASE Sole(v) /\ Keep(v, ref[w].ptr, ref[w].lnk)
  <2>1. Sole(v) /\ Keep(v, p, l) /\ live' = live
    BY <1>2, <1>3, <1>5
  <2> QED  BY <1>4, <2>1, KeepStep
<1>6. CASE Take(v, Clean(v), Above(w), ref[w].ptr, ref[w].lnk, TRUE)
  <2>1. /\ Clean(v) \in [Idx -> Nat] /\ Clean(v)[0] = 0
        /\ \A i \in PtrIdx : Clean(v)[i] = Cardinality(Others(v, i))
    BY CleanCount
  <2>2. Take(v, Clean(v), Above(w), p, l, TRUE)
    BY <1>2, <1>3, <1>6
  <2>3. ASSUME Take(v, Clean(v), Above(w), p, TRUE, TRUE) PROVE PtrInv'
    BY <1>4, <2>1, <2>3, TakeStep
  <2>4. ASSUME Take(v, Clean(v), Above(w), p, FALSE, TRUE) PROVE PtrInv'
    BY <1>4, <2>1, <2>4, TakeStep
  <2>5. l = TRUE \/ l = FALSE
    OBVIOUS
  <2> QED  BY <2>2, <2>3, <2>4, <2>5
<1> QED  BY <1>5, <1>6 DEF CopyUp

\* The functions that concern two orc_ptrs.
LEMMA TwoStep ==
    ASSUME PtrInv, NEW v \in Var, NEW w \in Var, Two(v, w)
    PROVE  PtrInv'
<1> USE IndexFacts
<1>0. /\ live \in SUBSET Var /\ ref \in [Var -> OrcPtr] /\ hp \in [Idx -> Ptr]
      /\ usedHaz \in [Idx -> Nat] /\ usedHaz[0] = 0
      /\ status \in [Obj -> Status] /\ \A x \in Var : ref[x].idx \in Idx
      /\ \A x \in Var \ live : ref[x].idx = 0
      /\ \A i \in PtrIdx : usedHaz[i] = Cardinality(Users(i))
  BY DEF PtrInv, TypeOK, OrcPtr, ScopeInv, UsedIsCount
<1>1. /\ Clean(v) \in [Idx -> Nat] /\ Clean(v)[0] = 0
      /\ \A i \in PtrIdx : Clean(v)[i] = Cardinality(Others(v, i))
  BY CleanCount
<1>2. /\ Cleared(v) \in [Obj -> Status]
      /\ \A o \in Obj : status[o] # "free" => Cleared(v)[o] # "free"
  BY ClearedFacts
<1>3. \A i \in PtrIdx : Users(i) \in SUBSET Var /\ Others(v, i) \in SUBSET Var
  BY <1>0 DEF Users, Others
<1>4. w \in Held => w \in live /\ ref[w].idx \in PtrIdx /\ ref[w].idx # 0
  BY <1>0, HazAssumption DEF Held, Idx, PtrIdx
<1>5. CASE Copy(v, w)
  <2>1. /\ v \notin live /\ w \in Held /\ live' = live \cup {v}
        /\ usedHaz' = [usedHaz EXCEPT ![ref[w].idx] = @ + 1]
        /\ ref' = [ref EXCEPT ![v] = ref[w]]
        /\ UNCHANGED <<temp, hp, status, failed>>
    BY <1>5 DEF Copy
  <2>2. PICK k \in PtrIdx : k = ref[w].idx
    BY <1>4, <2>1
  <2>3. \A i \in PtrIdx : usedHaz[i] = Cardinality(Others(v, i))
    BY <2>1, FreshCount
  <2>4. /\ ref' \in [Var -> OrcPtr] /\ ref'[v] = ref[w]
        /\ \A x \in Var \ {v} : ref'[x] = ref[x]
    BY <1>0, <2>1
  <2>5. /\ live' \in SUBSET Var /\ live' \ {v} = live \ {v} /\ v \in live'
        /\ k # 0 /\ k \in Idx /\ usedHaz' = IF k = 0 THEN usedHaz
                                             ELSE [usedHaz EXCEPT ![k] = @ + 1]
    BY <1>0, <2>1, <2>2
  <2>6. UsedIsCount'
    BY <1>0, <2>2, <2>3, <2>4, <2>5, CountAfter
  <2>7. usedHaz' \in [Idx -> Nat] /\ usedHaz'[0] = 0
    BY <1>0, <2>2, <2>5
  <2>8. \A x \in Held' : \E y \in Held : ref'[x] = ref[y]
    BY <1>0, <2>1, <2>4 DEF Held
  <2>9. \A x \in Var \ live' : ref'[x].idx = 0
    BY <1>0, <2>1, <2>4
  <2> QED  BY <1>0, <2>1, <2>4, <2>5, <2>6, <2>7, <2>8, <2>9, ShareStep
<1>6. CASE Move(v, w)
  <2>1. /\ v \notin live /\ w \in Held /\ live' = live \cup {v}
        /\ ref' = [ref EXCEPT ![v] = ref[w], ![w].idx = 0]
        /\ UNCHANGED <<temp, hp, usedHaz, status, failed>>
    BY <1>6 DEF Move
  <2>2. w \in live /\ v # w /\ ref[v].idx = 0
    BY <1>0, <1>4, <2>1
  <2>3. /\ ref' \in [Var -> OrcPtr] /\ ref'[v] = ref[w] /\ ref'[w].idx = 0
        /\ \A x \in Var \ {v, w} : ref'[x] = ref[x]
    BY <1>0, <2>1, <2>2 DEF OrcPtr
  <2>4. UsedIsCount'
    <3> SUFFICES ASSUME NEW i \in PtrIdx
                 PROVE  usedHaz[i] = Cardinality(Users(i)')
      BY <2>1 DEF UsedIsCount, Users
    <3>1. CASE ref[w].idx = i
      <4>1. Users(i)' = (Users(i) \ {w}) \cup {v}
        BY <1>0, <2>1, <2>2, <2>3, <3>1 DEF Users
      <4>2. w \in Users(i) /\ v \in Var \ Users(i)
        BY <2>1, <2>2, <3>1 DEF Users
      <4> QED  BY <1>0, <1>3, <4>1, <4>2, Exchanged
    <3>2. CASE ref[w].idx # i
      <4>1. Users(i)' = Users(i)
        BY <1>0, <2>1, <2>2, <2>3, <3>2 DEF Users
      <4> QED  BY <1>0, <4>1
    <3> QED  BY <3>1, <3>2
  <2>5. \A x \in Held' : \E y \in Held : ref'[x] = ref[y]
    BY <1>0, <2>1, <2>3 DEF Held
  <2>6. live' \in SUBSET Var /\ \A x \in Var \ live' : ref'[x].idx = 0
    BY <1>0, <2>1, <2>3
  <2>7. /\ usedHaz' \in [Idx -> Nat] /\ usedHaz'[0] = 0 /\ status' \in [Obj -> Status]
        /\ \A o \in Obj : status[o] # "free" => status'[o] # "free"
        /\ hp' = hp /\ failed' = failed /\ temp' = temp
    BY <1>0, <2>1
  <2>8. \A x \in Held' : \E y \in Held :
           ref'[x].idx = ref[y].idx /\ ref'[x].ptr = ref[y].ptr
    BY <2>5
  <2>9. ref' \in [Var -> OrcPtr]
    BY <2>3
  <2> QED  BY <2>4, <2>6, <2>7, <2>8, <2>9, ShareStep
<1>7. CASE Assign(v, w)
  <2>1. /\ v \in live /\ w \in Held /\ live' = live /\ temp' = temp
        /\ status' = Cleared(v)
    BY <1>7 DEF Assign
  <2>2. CASE CopyUp(v, w)
    <3>1. live' = live \cup {v} /\ status' \in [Obj -> Status]
      BY <1>2, <2>1
    <3>2. \A o \in Obj : status[o] # "free" => status'[o] # "free"
      BY <1>2, <2>1
    <3> QED  BY <2>1, <2>2, <3>1, <3>2, CopyUpStep
  <2>3. CASE /\ usedHaz' = [Clean(v) EXCEPT ![ref[w].idx] = @ + 1]
             /\ ref' = [ref EXCEPT ![v] = ref[w]]
             /\ hp' = hp /\ failed' = failed
    <3>1. PICK k \in PtrIdx : k = ref[w].idx
      BY <1>4, <2>1
    <3>2. /\ ref' \in [Var -> OrcPtr] /\ ref'[v] = ref[w]
          /\ \A x \in Var \ {v} : ref'[x] = ref[x]
      BY <1>0, <2>3
    <3>3. /\ live' \in SUBSET Var /\ live' \ {v} = live \ {v} /\ v \in live'
          /\ k # 0 /\ k \in Idx /\ usedHaz' = IF k = 0 THEN Clean(v)
                                               ELSE [Clean(v) EXCEPT ![k] = @ + 1]
      BY <1>0, <2>1, <2>3, <3>1
    <3>4. UsedIsCount'
      BY <1>1, <3>1, <3>2, <3>3, CountAfter
    <3>5. usedHaz' \in [Idx -> Nat] /\ usedHaz'[0] = 0
      BY <1>1, <3>1, <3>3
    <3>6. \A x \in Held' : \E y \in Held : ref'[x] = ref[y]
      BY <1>0, <2>1, <3>2 DEF Held
    <3>7. \A x \in Var \ live' : ref'[x].idx = 0
      BY <1>0, <2>1, <3>2
    <3> QED  BY <1>2, <2>1, <2>3, <3>2, <3>3, <3>4, <3>5, <3>6, <3>7, ShareStep
  <2> QED  BY <1>7, <2>2, <2>3 DEF Assign
<1>8. CASE MoveAssign(v, w)
  <2>1. /\ v # w /\ v \in live /\ w \in Held /\ live' = live /\ temp' = temp
        /\ status' = Cleared(v)
    BY <1>8 DEF MoveAssign
  <2>2. CASE CopyUp(v, w)
    <3>1. live' = live \cup {v} /\ status' \in [Obj -> Status]
      BY <1>2, <2>1
    <3>2. \A o \in Obj : status[o] # "free" => status'[o] # "free"
      BY <1>2, <2>1
    <3> QED  BY <2>1, <2>2, <3>1, <3>2, CopyUpStep
  <2>3. CASE /\ usedHaz' = Clean(v)
             /\ ref' = [ref EXCEPT ![v] = ref[w], ![w].idx = 0]
             /\ hp' = hp /\ failed' = failed
    <3>1. w \in live
      BY <1>4, <2>1
    <3>2. /\ ref' \in [Var -> OrcPtr] /\ ref'[v] = ref[w] /\ ref'[w].idx = 0
          /\ \A x \in Var \ {v, w} : ref'[x] = ref[x]
      BY <1>0, <2>1, <2>3 DEF OrcPtr
    <3>3. UsedIsCount'
      <4> SUFFICES ASSUME NEW i \in PtrIdx
                   PROVE  Clean(v)[i] = Cardinality(Users(i)')
        BY <2>3 DEF UsedIsCount, Users
      <4>1. CASE ref[w].idx = i
        <5>1. Users(i)' = (Others(v, i) \ {w}) \cup {v}
          BY <1>0, <2>1, <3>1, <3>2, <4>1 DEF Users, Others
        <5>2. w \in Others(v, i) /\ v \in Var \ Others(v, i)
          BY <2>1, <3>1, <4>1 DEF Others
        <5> QED  BY <1>1, <1>3, <5>1, <5>2, Exchanged
      <4>2. CASE ref[w].idx # i
        <5>1. Users(i)' = Others(v, i)
          BY <1>0, <2>1, <3>1, <3>2, <4>2 DEF Users, Others
        <5> QED  BY <1>1, <5>1
      <4> QED  BY <4>1, <4>2
    <3>4. \A x \in Held' : \E y \in Held : ref'[x] = ref[y]
      BY <1>0, <2>1, <3>2 DEF Held
    <3>5. live' \in SUBSET Var /\ \A x \in Var \ live' : ref'[x].idx = 0
      BY <1>0, <2>1, <3>1, <3>2
    <3>6. usedHaz' \in [Idx -> Nat] /\ usedHaz'[0] = 0
      BY <1>1, <2>3
    <3> QED  BY <1>2, <2>1, <2>3, <3>2, <3>3, <3>4, <3>5, <3>6, ShareStep
  <2> QED  BY <1>8, <2>2, <2>3 DEF MoveAssign
<1>9. CASE SwapPtrs(v, w)
  <2>1. /\ v # w /\ v \in Held /\ w \in Held
        /\ ref' = [ref EXCEPT ![v] = [ref[w] EXCEPT !.lnk = ref[v].lnk],
                              ![w] = [ref[v] EXCEPT !.lnk = ref[w].lnk]]
        /\ UNCHANGED <<live, temp, hp, usedHaz, status, failed>>
    BY <1>9 DEF SwapPtrs
  <2>2. /\ ref' \in [Var -> OrcPtr]
        /\ ref'[v].idx = ref[w].idx /\ ref'[v].ptr = ref[w].ptr
        /\ ref'[w].idx = ref[v].idx /\ ref'[w].ptr = ref[v].ptr
        /\ \A x \in Var \ {v, w} : ref'[x] = ref[x]
    BY <1>0, <2>1 DEF OrcPtr
  <2>3. v \in live /\ w \in live
    BY <2>1 DEF Held
  <2>4. UsedIsCount'
    <3> SUFFICES ASSUME NEW i \in PtrIdx
                 PROVE  usedHaz[i] = Cardinality(Users(i)')
      BY <2>1 DEF UsedIsCount, Users
    <3>1. CASE ref[v].idx = i /\ ref[w].idx # i
      <4>1. Users(i)' = (Users(i) \ {v}) \cup {w}
        BY <1>0, <2>1, <2>2, <2>3, <3>1 DEF Users
      <4>2. v \in Users(i) /\ w \in Var \ Users(i)
        BY <2>3, <3>1 DEF Users
      <4> QED  BY <1>0, <1>3, <4>1, <4>2, Exchanged
    <3>2. CASE ref[w].idx = i /\ ref[v].idx # i
      <4>1. Users(i)' = (Users(i) \ {w}) \cup {v}
        BY <1>0, <2>1, <2>2, <2>3, <3>2 DEF Users
      <4>2. w \in Users(i) /\ v \in Var \ Users(i)
        BY <2>3, <3>2 DEF Users
      <4> QED  BY <1>0, <1>3, <4>1, <4>2, Exchanged
    <3>3. CASE (ref[v].idx = i) = (ref[w].idx = i)
      <4>1. Users(i)' = Users(i)
        BY <1>0, <2>1, <2>2, <2>3, <3>3 DEF Users
      <4> QED  BY <1>0, <4>1
    <3> QED  BY <3>1, <3>2, <3>3
  <2>5. \A x \in Held' : \E y \in Held : ref'[x].idx = ref[y].idx /\ ref'[x].ptr = ref[y].ptr
    BY <1>0, <2>1, <2>2 DEF Held
  <2>6. \A x \in Var \ live' : ref'[x].idx = 0
    BY <1>0, <2>1, <2>2, <2>3
  <2> QED  BY <1>0, <2>1, <2>2, <2>4, <2>5, <2>6, ShareStep
<1> QED  BY <1>5, <1>6, <1>7, <1>8, <1>9 DEF Two

\* The other steps: a load, and what other threads do.
LEMMA OtherStep ==
    ASSUME PtrInv, Load \/ (\E o \in Obj : Publish(o) \/ Reclaim(o)) \/ UNCHANGED vars
    PROVE  PtrInv'
<1> USE IndexFacts
<1>0. /\ hp \in [Idx -> Ptr] /\ status \in [Obj -> Status] /\ temp \in Ptr \cup {NoTemp}
      /\ ref \in [Var -> OrcPtr] /\ live \in SUBSET Var
  BY DEF PtrInv, TypeOK
<1>1. UNCHANGED <<live, ref, usedHaz, failed>>
  BY DEF Load, Publish, Reclaim, vars
<1>2. UsedIsCount' /\ ScopeInv'
  BY <1>1 DEF PtrInv, UsedIsCount, Users, ScopeInv
<1>3. Held' = Held /\ Held \subseteq Var /\ \A w \in Held : ref[w].idx \in Idx \ {0}
  BY <1>0, <1>1 DEF Held, OrcPtr
<1>4. \A w \in Held : ref[w].ptr \in Obj =>
         hp[ref[w].idx] = ref[w].ptr /\ status[ref[w].ptr] # "free"
  BY DEF PtrInv, HeldIsSafe
<1>5. CASE Load
  <2>1. status' = status
    BY <1>5 DEF Load
  <2>2. PICK p \in Ptr : /\ temp' = p
                         /\ \/ p \in Obj /\ status[p] = "linked" /\ hp' = [hp EXCEPT ![0] = p]
                            \/ p = Null /\ hp' = hp
    BY <1>5 DEF Load, Ptr
  <2>3. /\ hp' \in [Idx -> Ptr] /\ \A i \in Idx \ {0} : hp'[i] = hp[i]
        /\ TempIsSafe'
    BY <1>0, <2>1, <2>2, ValueAssumption DEF TempIsSafe
  <2>4. HeldIsSafe'
    BY <1>1, <1>3, <1>4, <2>1, <2>3 DEF HeldIsSafe
  <2> QED  BY <1>0, <1>1, <1>2, <2>1, <2>2, <2>3, <2>4 DEF PtrInv, TypeOK
<1>6. ASSUME NEW o \in Obj, Publish(o) \/ Reclaim(o)
      PROVE  PtrInv'
  <2>1. hp' = hp /\ temp' = temp
    BY <1>6 DEF Publish, Reclaim
  <2>2. status' \in [Obj -> Status]
    BY <1>0, <1>6 DEF Publish, Reclaim, Status
  <2>3. \A x \in Obj : status[x] # "free" /\ (\E i \in Idx : hp[i] = x) => status'[x] # "free"
    BY <1>0, <1>6 DEF Publish, Reclaim
  <2>4. HeldIsSafe'
    BY <1>1, <1>3, <1>4, <2>1, <2>3 DEF HeldIsSafe
  <2>5. TempIsSafe'
    BY <2>1, <2>3 DEF PtrInv, TempIsSafe
  <2> QED  BY <1>0, <1>1, <1>2, <2>1, <2>2, <2>4, <2>5 DEF PtrInv, TypeOK
<1>7. CASE UNCHANGED vars
  BY <1>1, <1>2, <1>3, <1>7 DEF vars, PtrInv, TypeOK, HeldIsSafe, TempIsSafe
<1> QED  BY <1>5, <1>6, <1>7

LEMMA InitPtr == Init => PtrInv
<1> SUFFICES ASSUME Init PROVE PtrInv
  OBVIOUS
<1> USE IndexFacts DEF Init
<1>1. TypeOK
  BY DEF TypeOK, NoPtr, OrcPtr, Ptr, Status
<1>2. UsedIsCount
  BY FS_EmptySet DEF UsedIsCount, Users
<1>3. HeldIsSafe /\ ScopeInv /\ TempIsSafe
  BY ValueAssumption DEF HeldIsSafe, Held, ScopeInv, TempIsSafe, NoPtr
<1> QED  BY <1>1, <1>2, <1>3 DEF PtrInv

\* The inductive invariant of the index bookkeeping, for any number of
\* orc_ptrs, objects and indices and every sequence of operations.
THEOREM PtrInvariant == Spec => []PtrInv
<1>1. PtrInv /\ [Next]_vars => PtrInv'
  <2> SUFFICES ASSUME PtrInv, [Next]_vars PROVE PtrInv'
    OBVIOUS
  <2>1. CASE \E v \in Var : One(v)
    BY <2>1, OneStep
  <2>2. CASE \E v, w \in Var : Two(v, w)
    BY <2>2, TwoStep
  <2>3. CASE Load \/ (\E o \in Obj : Publish(o) \/ Reclaim(o)) \/ UNCHANGED vars
    BY <2>3, OtherStep
  <2> QED  BY <2>1, <2>2, <2>3 DEF Next, Stopped
<1> QED  BY InitPtr, <1>1, PTL DEF Spec

\* usedHaz counts the orc_ptrs that share an index, whatever is copied, moved,
\* swapped and assigned: no index is freed too early, and none leaks.
THEOREM IndicesAreCounted == Spec => []UsedIsCount
<1>1. PtrInv => UsedIsCount
  BY DEF PtrInv
<1> QED  BY PtrInvariant, <1>1, PTL

\* The hp of every orc_ptr that is in use holds its pointer, so that a
\* reclaimer that respects the hps deletes no object that an orc_ptr holds.
THEOREM HeldObjectsAreSafe == Spec => []HeldIsSafe
<1>1. PtrInv => HeldIsSafe
  BY DEF PtrInv
<1> QED  BY PtrInvariant, <1>1, PTL

\* The type invariant of the bookkeeping.
THEOREM OrcPtrTypes == Spec => []TypeOK
<1>1. PtrInv => TypeOK
  BY DEF PtrInv
<1> QED  BY PtrInvariant, <1>1, PTL

\* An hp that changes gets nullptr, a new object, the result of the load, or
\* a copy from below.
Upward ==
    \A i \in PtrIdx : hp'[i] # hp[i] =>
       \/ hp'[i] = Null \/ hp'[i] = temp \/ status[hp'[i]] = "free"
       \/ \E j \in Idx : j < i /\ hp[j] = hp'[i]

\* A store of p to one hp k, where p is allowed there.
LEMMA UpwardStore ==
    ASSUME hp \in [Idx -> Ptr], NEW k \in PtrIdx, NEW p,
           hp' = [hp EXCEPT ![k] = p] \/ hp' = hp,
           \/ p = Null \/ p = temp \/ status[p] = "free"
           \/ \E j \in Idx : j < k /\ hp[j] = p
    PROVE  Upward
BY IndexFacts DEF Upward

\* What Take() stores, if anything, goes to an index from `from' on.
StoresFrom(from, p) ==
    \E i \in PtrIdx : i >= from /\ hp' = [hp EXCEPT ![i] = p]

LEMMA UpwardFrom ==
    ASSUME hp \in [Idx -> Ptr], NEW from \in Int, NEW p,
           hp' = hp \/ StoresFrom(from, p),
           \/ p = Null \/ p = temp \/ status[p] = "free"
           \/ \E j \in Idx : j < from /\ hp[j] = p
    PROVE  Upward
<1>1. CASE hp' = hp
  BY <1>1 DEF Upward
<1>2. ASSUME NEW i \in PtrIdx, i >= from, hp' = [hp EXCEPT ![i] = p]
      PROVE  Upward
  <2>1. (\E j \in Idx : j < from /\ hp[j] = p) => \E j \in Idx : j < i /\ hp[j] = p
    BY <1>2, HazAssumption DEF Idx, PtrIdx
  <2> QED  BY <1>2, <2>1, UpwardStore
<1> QED  BY <1>1, <1>2 DEF StoresFrom

\* The pointer of the orc_ptr w is in the hp of its index.
LEMMA UpwardCopy ==
    ASSUME PtrInv, NEW v \in Var, NEW w \in Var, w \in Held, CopyUp(v, w)
    PROVE  Upward
<1>1. /\ hp \in [Idx -> Ptr] /\ ref[v].idx \in Idx /\ ref[w].idx \in Idx
      /\ ref[w].ptr \in Ptr /\ ref[w].idx < ref[v].idx
  BY DEF PtrInv, TypeOK, OrcPtr, CopyUp
<1>2. ref[w].ptr = Null \/ hp[ref[w].idx] = ref[w].ptr
  BY <1>1 DEF PtrInv, HeldIsSafe, Ptr
<1>3. CASE Keep(v, ref[w].ptr, ref[w].lnk)
  <2>1. ref[v].idx \in PtrIdx
    BY <1>1, HazAssumption DEF Idx, PtrIdx
  <2>2. hp' = [hp EXCEPT ![ref[v].idx] = ref[w].ptr]
    BY <1>3 DEF Keep
  <2> QED  BY <1>1, <1>2, <2>1, <2>2, UpwardStore
<1>4. CASE Take(v, Clean(v), Above(w), ref[w].ptr, ref[w].lnk, TRUE)
  <2>1. Above(w) \in Int /\ ref[w].idx < Above(w)
    BY <1>1, HazAssumption DEF Above, Idx
  <2>2. hp' = hp \/ StoresFrom(Above(w), ref[w].ptr)
    BY <1>4 DEF Take, StoresFrom
  <2> QED  BY <1>1, <1>2, <2>1, <2>2, UpwardFrom
<1> QED  BY <1>3, <1>4 DEF CopyUp

\* A copy of a protection goes to a higher index than the source, so that a
\* scan from low to high finds one of the two: for any number of orc_ptrs
\* and indices and every sequence of operations.
THEOREM ProtectionsGoUp == Spec => CopiesGoUp
<1>1. ASSUME PtrInv, Next PROVE Upward
  <2> USE <1>1
  <2>1. hp \in [Idx -> Ptr]
    BY DEF PtrInv, TypeOK
  <2>2. CASE hp' = hp
    BY <2>2 DEF Upward
  <2>3. CASE Load
    BY <2>1, <2>3, IndexFacts DEF Load, Upward
  <2>4. ASSUME NEW v \in Var, One(v) PROVE Upward
    <3>1. CASE Construct(v)
      BY <2>2, <3>1 DEF Construct, Take
    <3>2. CASE MakeOrc(v)
      <4>1. PICK o \in Obj : status[o] = "free" /\ (hp' = hp \/ StoresFrom(1, o))
        BY <3>2 DEF MakeOrc, Take, StoresFrom
      <4> QED  BY <2>1, <4>1, UpwardFrom
    <3>3. CASE ConstructLoaded(v)
      <4>1. hp' = hp \/ StoresFrom(1, temp)
        BY <3>3 DEF ConstructLoaded, Take, StoresFrom
      <4> QED  BY <2>1, <4>1, UpwardFrom
    <3>4. CASE Sole(v) /\ Keep(v, temp, TRUE) /\ v \in live
      <4>1. ref[v].idx \in PtrIdx
        BY <3>4, SoleAlone
      <4>2. hp' = [hp EXCEPT ![ref[v].idx] = temp]
        BY <3>4 DEF Keep
      <4> QED  BY <2>1, <4>1, <4>2, UpwardStore
    <3>5. CASE Take(v, Clean(v), 1, temp, TRUE, TRUE)
      <4>1. hp' = hp \/ StoresFrom(1, temp)
        BY <3>5 DEF Take, StoresFrom
      <4> QED  BY <2>1, <4>1, UpwardFrom
    <3>6. CASE AssignLoaded(v) \/ UnmarkLoaded(v)
      BY <3>4, <3>5, <3>6 DEF AssignLoaded, UnmarkLoaded
    <3>7. CASE Destroy(v) \/ Link(v)
      BY <2>2, <3>7 DEF Destroy, Link
    <3> QED  BY <2>4, <3>1, <3>2, <3>3, <3>6, <3>7 DEF One
  <2>5. ASSUME NEW v \in Var, NEW w \in Var, Two(v, w) PROVE Upward
    <3>1. CASE w \in Held /\ CopyUp(v, w)
      BY <3>1, UpwardCopy
    <3>2. hp' = hp \/ (w \in Held /\ CopyUp(v, w))
      BY <2>5 DEF Two, Copy, Move, Assign, MoveAssign, SwapPtrs
    <3> QED  BY <2>2, <3>1, <3>2
  <2>6. CASE (\E o \in Obj : Publish(o) \/ Reclaim(o)) \/ Stopped
    BY <2>2, <2>6 DEF Publish, Reclaim, Stopped, vars
  <2> QED  BY <2>3, <2>4, <2>5, <2>6 DEF Next
<1>2. PtrInv /\ [Next]_vars => [Upward]_vars
  BY <1>1
<1> QED  BY PtrInvariant, <1>2, PTL DEF Spec, CopiesGoUp, Upward

=============================================================================
