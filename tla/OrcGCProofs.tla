---------------------------- MODULE OrcGCProofs ------------------------------
(***************************************************************************)
(* Proofs about OrcGC, in three parts.                                     *)
(*                                                                         *)
(* First, LocalsInv: every variable has its type, and every thread is      *)
(* ready for its next step.  A step of t can change the locals of t only   *)
(* (FrameStep), and what t knows of them survives its own steps (TypeStep  *)
(* and OwnStep, action by action).                                         *)
(*                                                                         *)
(* Then, BRETIRED makes the retirement of an object exclusive              *)
(* (OneRetirer).  An object under retirement moves between the hands of    *)
(* threads, the handovers and the recursiveLists; the first lemmas are     *)
(* about such moves, whatever makes them.  The induction needs WordInv: a  *)
(* CAS that sets BRETIRED compares with a word that has it clear, and the  *)
(* word of freed memory has it set, so the CAS succeeds only on an object  *)
(* that exists and is in none of the places.                               *)
(*                                                                         *)
(* Then come what the steps leave alone and what holds in the destructor,  *)
(* and the proof that an object without a link is never forgotten          *)
(* (NothingForgotten) and that the destructor deletes those that are left  *)
(* (AllReclaimed): whoever sees the count at zero stays responsible for    *)
(* the object until it has a retirer.                                      *)
(***************************************************************************)
EXTENDS OrcGCSafety, FiniteSetTheorems, TLAPS

\* The indices of orc_ptrs are indices of the rows; so is 0.
LEMMA IndexFacts == 0 \in Idx /\ PtrIdx \subseteq Idx /\ PtrIdx \subseteq Nat
  BY HazAssumption DEF Idx, PtrIdx

\* What the CASes and the fetch_adds make of a word is a word.
LEMMA WordFacts ==
    /\ NewWord \in Word /\ FreeWord \in Word
    /\ \A w \in Word : /\ w.cnt \in Int /\ w.ret \in BOOLEAN /\ w.seq \in Nat
                       /\ \A b \in BOOLEAN : [w EXCEPT !.ret = b] \in Word
                       /\ [w EXCEPT !.cnt = @ + 1] \in Word
                       /\ [w EXCEPT !.cnt = @ - 1, !.seq = @ + 1] \in Word
<1>1. NewWord \in Word
  BY DEF NewWord, Word
<1>2. ASSUME NEW w \in Word
      PROVE  /\ w.cnt \in Int /\ w.ret \in BOOLEAN /\ w.seq \in Nat
             /\ \A b \in BOOLEAN : [w EXCEPT !.ret = b] \in Word
             /\ [w EXCEPT !.cnt = @ + 1] \in Word
             /\ [w EXCEPT !.cnt = @ - 1, !.seq = @ + 1] \in Word
  <2>1. w.cnt \in Int /\ w.ret \in BOOLEAN /\ w.seq \in Nat
    BY DEF Word
  <2>2. \A b \in BOOLEAN : [w EXCEPT !.ret = b] \in Word
    BY DEF Word
  <2>3. w.cnt + 1 \in Int /\ w.cnt - 1 \in Int /\ w.seq + 1 \in Nat
    BY <2>1
  <2>4. [w EXCEPT !.cnt = w.cnt + 1] \in Word
    BY <2>3 DEF Word
  <2>5. [w EXCEPT !.cnt = w.cnt - 1] \in Word
    BY <2>3 DEF Word
  <2>6. [w EXCEPT !.cnt = w.cnt - 1, !.seq = w.seq + 1] \in Word
    BY <2>3 DEF Word
  <2> QED  BY <2>1, <2>2, <2>4, <2>6
<1>3. FreeWord \in Word
  BY <1>1, <1>2 DEF FreeWord
<1> QED  BY <1>1, <1>2, <1>3

\* The locals of a thread have their types.
LEMMA LocalTypes ==
    ASSUME TypeOK, NEW t \in Threads
    PROVE  /\ pc[t] \in Labels /\ op[t] \in Operation
           /\ op[t].new \in Ptr /\ op[t].old \in Ptr /\ op[t].lnk \in BOOLEAN
           /\ op[t].ptr \in Ptr \cup {Poison} /\ op[t].from \in Nat
           /\ op[t].cell \in Cell \cup {Null}
           /\ ops[t] \in Nat
           /\ \A i \in PtrIdx : slot[t][i].ptr \in Ptr /\ slot[t][i].lnk \in BOOLEAN
           /\ Level(t) \in {0, 1}
           /\ dec[t][Level(t)].ptr \in Ptr /\ dec[t][Level(t)].word \in Word
           /\ retcnt[t] \in Nat /\ seen[t] \in Ptr
           /\ ptr[t] \in Ptr /\ again[t] \in BOOLEAN /\ rlist[t] \in Seq(Obj)
           /\ retireStarted[t] \in BOOLEAN /\ retTo[t] \in Labels
           /\ lorc[t] \in Word /\ scan[t] \in SUBSET Place
           /\ \A o \in Obj : orc[o] \in Word
           /\ \A c \in Cell : link[c] \in Ptr \cup {Poison}
           /\ \A u \in Threads, i \in Idx : handovers[u][i] \in Ptr
<1> USE DEF TypeOK
<1>1. op[t] \in Operation /\ pc[t] \in Labels /\ ops[t] \in Nat
  BY DEF ProgramType
<1>2. /\ op[t].new \in Ptr /\ op[t].old \in Ptr /\ op[t].lnk \in BOOLEAN
      /\ op[t].ptr \in Ptr \cup {Poison} /\ op[t].from \in Nat
      /\ op[t].cell \in Cell \cup {Null}
  BY <1>1 DEF Operation
<1>3. \A i \in PtrIdx : slot[t][i].ptr \in Ptr /\ slot[t][i].lnk \in BOOLEAN
  BY DEF ProgramType
<1>4. Level(t) \in {0, 1}
  BY DEF Level
<1>5. /\ dec[t][Level(t)].ptr \in Ptr /\ dec[t][Level(t)].word \in Word
      /\ retcnt[t] \in Nat /\ seen[t] \in Ptr
  BY <1>4 DEF DecType
<1>6. /\ ptr[t] \in Ptr /\ again[t] \in BOOLEAN /\ rlist[t] \in Seq(Obj)
      /\ retireStarted[t] \in BOOLEAN /\ retTo[t] \in Labels
  BY DEF RetType
<1>7. lorc[t] \in Word /\ scan[t] \in SUBSET Place
  BY DEF ScanType
<1>8. (\A o \in Obj : orc[o] \in Word) /\ \A c \in Cell : link[c] \in Ptr \cup {Poison}
  BY DEF ObjType
<1>9. \A u \in Threads, i \in Idx : handovers[u][i] \in Ptr
  BY DEF HpType
<1> QED  BY <1>1, <1>2, <1>3, <1>4, <1>5, <1>6, <1>7, <1>8, <1>9

\* The cells a thread can reach are cells.
LEMMA HeldType ==
    ASSUME TypeOK, NEW t \in Threads
    PROVE  Held(t) \subseteq Obj /\ Reach(t) \subseteq Cell
  BY LocalTypes DEF Held, Reach, Cell, Ptr

\* The locals of a thread between operations have their type.
LEMMA NoOpType == NoOp \in Operation
  BY DEF NoOp, Operation, Ptr

\* Goto() keeps the types.
LEMMA GotoType ==
    ASSUME ProgramType, NEW t \in Threads, NEW l \in Labels, Goto(t, l), UNCHANGED <<slot, ops>>
    PROVE  ProgramType'
<1>1. op' \in [Threads -> Operation]
  BY NoOpType DEF ProgramType, Goto
<1>2. pc' \in [Threads -> Labels]
  BY DEF ProgramType, Goto
<1> QED  BY <1>1, <1>2 DEF ProgramType

\* Run() keeps the types.
LEMMA RunType ==
    ASSUME ProgramType, NEW t \in Threads, NEW o \in Operation, NEW l \in Labels, Run(t, o, l)
    PROVE  op' \in [Threads -> Operation] /\ pc' \in [Threads -> Labels]
  BY DEF ProgramType, Run

\* Retire() keeps the types.
LEMMA RetireType ==
    ASSUME ProgramType, RetType, NEW t \in Threads, NEW p \in Ptr, NEW l \in Labels,
           Retire(t, p, l), UNCHANGED <<slot, ops>>
    PROVE  ProgramType' /\ RetType'
<1>1. CASE p = Null
  BY <1>1, GotoType DEF Retire, RetType, retVars
<1>2. CASE p # Null /\ retireStarted[t]
  <2>1. p \in Obj
    BY <1>2 DEF Ptr
  <2>2. rlist' = [rlist EXCEPT ![t] = Append(@, p)]
    BY <1>2 DEF Retire
  <2>3. Append(rlist[t], p) \in Seq(Obj)
    BY <2>1 DEF RetType
  <2>4. rlist' \in [Threads -> Seq(Obj)]
    BY <2>2, <2>3 DEF RetType
  <2> QED  BY <1>2, <2>4, GotoType DEF Retire, RetType
<1>3. CASE p # Null /\ ~retireStarted[t]
  <2>1. Goto(t, "self") /\ "self" \in Labels
    BY <1>3 DEF Retire, Labels
  <2> QED  BY <1>3, <2>1, GotoType DEF Retire, RetType
<1> QED  BY <1>1, <1>2, <1>3

\* Continue() keeps the types.
LEMMA ContinueType ==
    ASSUME TypeOK, NEW t \in Threads, NEW p \in Ptr, Continue(t, p),
           UNCHANGED <<slot, ops>>
    PROVE  /\ ProgramType' /\ RetType'
           /\ lorc' \in [Threads -> Word] /\ scan' \in [Threads -> SUBSET Place]
<1>0. /\ ProgramType /\ RetType /\ ScanType
      /\ retTo[t] \in Labels /\ "load" \in Labels /\ rlist[t] \in Seq(Obj)
  BY LocalTypes DEF TypeOK, Labels
<1>1. lorc' \in [Threads -> Word] /\ scan' \in [Threads -> SUBSET Place]
  BY <1>0, WordFacts DEF Continue, ScanType
<1>2. again' \in [Threads -> BOOLEAN]
  BY <1>0 DEF Continue, RetType
<1>3. CASE p # Null
  <2>1. Goto(t, "load")
    BY <1>3 DEF Continue
  <2> QED  BY <1>0, <1>1, <1>2, <1>3, <2>1, GotoType DEF Continue, RetType
<1>4. CASE p = Null /\ rlist[t] # <<>>
  <2>1. Goto(t, "load")
    BY <1>4 DEF Continue
  <2>2. Head(rlist[t]) \in Ptr /\ Tail(rlist[t]) \in Seq(Obj)
    BY <1>0, <1>4 DEF Ptr
  <2>3. /\ ptr' = [ptr EXCEPT ![t] = Head(rlist[t])]
        /\ rlist' = [rlist EXCEPT ![t] = Tail(rlist[t])]
        /\ UNCHANGED <<retireStarted, retTo>>
    BY <1>0, <1>4 DEF Continue, RetType
  <2>4. RetType'
    BY <1>0, <1>2, <2>2, <2>3 DEF RetType
  <2> QED  BY <1>0, <1>1, <2>1, <2>4, GotoType
<1>5. CASE p = Null /\ rlist[t] = <<>>
  <2>1. Goto(t, retTo[t])
    BY <1>5 DEF Continue
  <2>2. "idle" \in Labels
    BY DEF Labels
  <2>3. RetType'
    BY <1>0, <1>2, <1>5, <2>2 DEF Continue, RetType, Ptr
  <2> QED  BY <1>0, <1>1, <2>1, <2>3, GotoType
<1> QED  BY <1>3, <1>4, <1>5

\* The CAS that sets BRETIRED keeps the types.
LEMMA CasRetiredType ==
    ASSUME ObjType, ProgramType, RetType, NEW t \in Threads, NEW o \in Obj, NEW w,
           NEW l \in Labels, CasRetired(t, o, w, l), UNCHANGED <<alive, link, slot, ops>>
    PROVE  ObjType' /\ ProgramType' /\ RetType'
<1>1. orc' \in [Obj -> Word]
  BY WordFacts DEF CasRetired, ObjType
<1>2. o \in Ptr
  BY DEF Ptr
<1>3. ProgramType' /\ RetType'
  BY <1>2, RetireType, GotoType DEF CasRetired, RetType, retVars
<1> QED  BY <1>1, <1>3 DEF ObjType

\* The test at the end of decrementOrc() keeps the types.
LEMMA DecrementTestType ==
    ASSUME ProgramType, DecType, NEW t \in Threads, NEW d \in [ptr : Ptr, word : Word],
           DecrementTest(t, d), UNCHANGED <<slot, ops>>
    PROVE  ProgramType' /\ dec' \in [Threads -> [{0, 1} -> [ptr : Ptr, word : Word]]]
<1>1. "deccas" \in Labels /\ AfterDec(t) \in Labels
  BY DEF AfterDec, Labels
<1>2. NoDec \in [ptr : Ptr, word : Word]
  BY WordFacts DEF NoDec, Ptr
<1>3. ProgramType'
  BY <1>1, GotoType DEF DecrementTest
<1>4. Level(t) \in {0, 1}
  BY DEF Level
<1>5. PICK e \in {d, NoDec} : dec' = [dec EXCEPT ![t][Level(t)] = e]
  BY DEF DecrementTest
<1>6. dec' \in [Threads -> [{0, 1} -> [ptr : Ptr, word : Word]]]
  BY <1>2, <1>4, <1>5 DEF DecType
<1> QED  BY <1>3, <1>6

\* The search of retireOne() keeps the types.
LEMMA SeekNextType ==
    ASSUME ProgramType, ScanType, NEW t \in Threads, NEW p, SeekNext(t, p),
           UNCHANGED <<slot, ops>>
    PROVE  ProgramType' /\ scan' \in [Threads -> SUBSET Place]
<1>1. (IF scan[t] = {p} THEN "reset" ELSE "seek") \in Labels
  BY DEF Labels
<1> QED  BY <1>1, GotoType DEF SeekNext, ScanType

\* Every step of a thread keeps the types.  For the steps that follow a
\* pointer this needs what OperandInv says of it.
LEMMA TypeStep ==
    ASSUME LocalsInv, NEW t \in Threads, Begin(t) \/ Call(t)
    PROVE  TypeOK'
<1>a. TypeOK /\ ObjType /\ HpType /\ ProgramType /\ DecType /\ RetType /\ ScanType
  BY DEF LocalsInv, TypeOK
<1>b. OperandInv(t) /\ LoopInv(t)
  BY DEF LocalsInv
<1>1. CASE Register(t)
  <2>1. HpType'
    BY <1>a, <1>1, NAssumption DEF Register, HpType, Threads
  <2> QED  BY <1>a, <1>1, <2>1 DEF Register, TypeOK, ObjType, ProgramType, DecType,
           RetType, ScanType, objVars, gcVars, decVars, retVars, endVars
<1>2. CASE MakeOrc(t)
  <2>1. PICK o \in Obj \ alive :
          /\ alive' = alive \cup {o}
          /\ orc' = [orc EXCEPT ![o] = NewWord]
          /\ link' = [link EXCEPT ![o] = Null]
          /\ hp' = [hp EXCEPT ![t][0] = o]
          /\ Run(t, [NoOp EXCEPT !.ptr = o, !.lnk = FALSE], "newidx")
    BY <1>2 DEF MakeOrc
  <2>2. ObjType'
    BY <1>a, <2>1, WordFacts DEF ObjType, Ptr
  <2>3. HpType'
    BY <1>a, <1>2, <2>1, IndexFacts DEF MakeOrc, HpType, Ptr
  <2>4. [NoOp EXCEPT !.ptr = o, !.lnk = FALSE] \in Operation /\ "newidx" \in Labels
    BY DEF NoOp, Operation, Ptr, Labels
  <2>5. ProgramType'
    BY <1>a, <1>2, <2>1, <2>4, RunType DEF MakeOrc, Start, ProgramType
  <2> QED  BY <1>a, <1>2, <2>2, <2>3, <2>5 DEF MakeOrc, TypeOK, DecType, RetType, ScanType,
           gcVars, decVars, retVars, endVars
<1>3. CASE Load(t)
  <2>1. PICK c \in Reach(t) : Run(t, [NoOp EXCEPT !.kind = "load", !.cell = c], "read")
    BY <1>3 DEF Load
  <2>2. [NoOp EXCEPT !.kind = "load", !.cell = c] \in Operation /\ "read" \in Labels
    BY <1>a, HeldType DEF NoOp, Operation, Ptr, Labels
  <2>3. ProgramType'
    BY <1>a, <1>3, <2>1, <2>2, RunType DEF Load, Start, ProgramType
  <2> QED  BY <1>a, <1>3, <2>3 DEF Load, TypeOK, ObjType, HpType, DecType, RetType,
           ScanType, objVars, hpVars, gcVars, decVars, retVars, endVars
<1>3a. CASE Assign(t)
  <2>1. PICK c \in Reach(t), i \in PtrIdx, o \in Ptr :
          Run(t, [NoOp EXCEPT !.kind = "assign", !.cell = c, !.from = i, !.old = o], "read")
    BY <1>a, <1>3a, LocalTypes DEF Assign, Ptr
  <2>2. /\ [NoOp EXCEPT !.kind = "assign", !.cell = c, !.from = i, !.old = o] \in Operation
        /\ "read" \in Labels
    <3>1. i \in Nat /\ c \in Cell
      BY <1>a, HeldType, HazAssumption DEF PtrIdx
    <3> QED  BY <3>1 DEF NoOp, Operation, Ptr, Labels
  <2>3. ProgramType'
    BY <1>a, <1>3a, <2>1, <2>2, RunType DEF Assign, Start, ProgramType
  <2> QED  BY <1>a, <1>3a, <2>3 DEF Assign, TypeOK, ObjType, HpType, DecType, RetType,
           ScanType, objVars, hpVars, gcVars, decVars, retVars, endVars
<1>4. CASE Store(t)
  <2>1. PICK c \in Reach(t) :
          \/ /\ Start(t, "store")
             /\ \E v \in Held(t) :
                  Run(t, [NoOp EXCEPT !.kind = "store", !.cell = c, !.new = v], "inc")
          \/ /\ Start(t, "reset")
             /\ Run(t, [NoOp EXCEPT !.kind = "store", !.cell = c], "xchg")
    BY <1>4 DEF Store
  <2>2. /\ \A v \in Held(t) : [NoOp EXCEPT !.kind = "store", !.cell = c, !.new = v] \in Operation
        /\ [NoOp EXCEPT !.kind = "store", !.cell = c] \in Operation
        /\ "inc" \in Labels /\ "xchg" \in Labels
    BY <1>a, HeldType DEF NoOp, Operation, Ptr, Labels
  <2>3. op' \in [Threads -> Operation] /\ pc' \in [Threads -> Labels]
    BY <1>a, <2>1, <2>2, RunType
  <2>4. ops' \in [Threads -> Nat]
    <3>1. ops' = [ops EXCEPT ![t] = @ + 1]
      BY <2>1 DEF Start
    <3>2. ops[t] + 1 \in Nat
      BY <1>a, LocalTypes
    <3> QED  BY <1>a, <3>1, <3>2 DEF ProgramType
  <2>5. ProgramType'
    BY <1>a, <1>4, <2>3, <2>4 DEF Store, ProgramType
  <2> QED  BY <1>a, <1>4, <2>5 DEF Store, TypeOK, ObjType, HpType, DecType, RetType,
           ScanType, objVars, hpVars, gcVars, decVars, retVars, endVars
<1>5. CASE CompareExchange(t)
  <2>1. PICK c \in Reach(t), e \in Held(t) \cup {Null}, d \in Held(t) \cup {Null} :
          /\ link' = [link EXCEPT ![c] = d]
          /\ dec' = [dec EXCEPT ![t][0].ptr = e]
          /\ Run(t, [NoOp EXCEPT !.kind = "cas", !.cell = c, !.new = d, !.old = e],
                    IF d = Null THEN "decprotect" ELSE "inc")
    BY <1>5 DEF CompareExchange
  <2>2. c \in Cell /\ e \in Ptr /\ d \in Ptr
    BY <1>a, HeldType DEF Ptr
  <2>3. [NoOp EXCEPT !.kind = "cas", !.cell = c, !.new = d, !.old = e] \in Operation
    BY <2>2 DEF NoOp, Operation, Ptr
  <2>4. (IF d = Null THEN "decprotect" ELSE "inc") \in Labels
    BY DEF Labels
  <2>5. ProgramType'
    BY <1>a, <1>5, <2>1, <2>3, <2>4, RunType DEF CompareExchange, Start, ProgramType
  <2>6. ObjType'
    BY <1>a, <1>5, <2>1, <2>2 DEF CompareExchange, ObjType
  <2>7. DecType'
    BY <1>a, <1>5, <2>1, <2>2 DEF CompareExchange, DecType
  <2> QED  BY <1>a, <1>5, <2>5, <2>6, <2>7 DEF CompareExchange, TypeOK, HpType, RetType,
           ScanType, hpVars, retVars, endVars
<1>6. CASE PoisonCell(t)
  <2>1. PICK c \in Held(t) :
          /\ link' = [link EXCEPT ![c] = Poison]
          /\ IF link[c] \in Obj
             THEN dec' = [dec EXCEPT ![t][0].ptr = link[c]] /\ Goto(t, "decprotect")
             ELSE UNCHANGED dec /\ Goto(t, "idle")
    BY <1>6 DEF PoisonCell
  <2>2. c \in Cell /\ "decprotect" \in Labels /\ "idle" \in Labels
    BY <1>a, HeldType DEF Labels, Cell
  <2>3. ops' \in [Threads -> Nat] /\ slot' = slot
    BY <1>a, <1>6 DEF PoisonCell, Start, ProgramType
  <2>4. op' \in [Threads -> Operation] /\ pc' \in [Threads -> Labels]
    BY <1>a, <2>1, <2>2, NoOpType DEF Goto, ProgramType
  <2>5. ProgramType'
    BY <1>a, <2>3, <2>4 DEF ProgramType
  <2>6. ObjType'
    BY <1>a, <1>6, <2>1, <2>2 DEF PoisonCell, ObjType
  <2>7. (dec' = [dec EXCEPT ![t][0].ptr = link[c]] /\ link[c] \in Ptr) \/ dec' = dec
    BY <2>1 DEF Ptr
  <2>8. dec' \in [Threads -> [{0, 1} -> [ptr : Ptr, word : Word]]]
    BY <1>a, <2>7 DEF DecType
  <2>9. DecType'
    BY <1>a, <1>6, <2>8 DEF PoisonCell, DecType
  <2> QED  BY <1>a, <1>6, <2>5, <2>6, <2>9 DEF PoisonCell, TypeOK, HpType, RetType,
           ScanType, hpVars, retVars, endVars
<1>7. CASE CopyPtr(t)
  <2>1. PICK i \in PtrIdx :
          Run(t, [NoOp EXCEPT !.kind = "copy", !.ptr = slot[t][i].ptr, !.lnk = slot[t][i].lnk,
                              !.from = i + 1], "newidx")
    BY <1>7 DEF CopyPtr
  <2>2. slot[t][i].ptr \in Ptr /\ slot[t][i].lnk \in BOOLEAN /\ i + 1 \in Nat
    BY <1>a, LocalTypes, IndexFacts
  <2>3. /\ [NoOp EXCEPT !.kind = "copy", !.ptr = slot[t][i].ptr, !.lnk = slot[t][i].lnk,
                         !.from = i + 1] \in Operation
        /\ "newidx" \in Labels
    BY <2>2 DEF NoOp, Operation, Ptr, Labels
  <2>4. ProgramType'
    BY <1>a, <1>7, <2>1, <2>3, RunType DEF CopyPtr, Start, ProgramType
  <2> QED  BY <1>a, <1>7, <2>4 DEF CopyPtr, TypeOK, ObjType, HpType, DecType, RetType,
           ScanType, objVars, hpVars, gcVars, decVars, retVars, endVars
<1>8. CASE DropPtr(t)
  <2>1. PICK i \in PtrIdx :
          /\ slot' = [slot EXCEPT ![t][i] = NoPtr]
          /\ IF slot[t][i].lnk THEN UNCHANGED <<pc, op>>
             ELSE Run(t, [NoOp EXCEPT !.old = slot[t][i].ptr, !.from = i], "clear")
    BY <1>8 DEF DropPtr
  <2>2. [NoOp EXCEPT !.old = slot[t][i].ptr, !.from = i] \in Operation /\ "clear" \in Labels
    BY <1>a, LocalTypes, IndexFacts DEF NoOp, Operation, Ptr, Labels
  <2>3. op' \in [Threads -> Operation] /\ pc' \in [Threads -> Labels]
    BY <1>a, <2>1, <2>2, RunType DEF ProgramType
  <2>4. slot' \in [Threads -> [PtrIdx -> [ptr : Ptr, lnk : BOOLEAN]]]
    BY <1>a, <2>1 DEF ProgramType, NoPtr, Ptr
  <2>5. ProgramType'
    BY <1>a, <1>8, <2>3, <2>4 DEF DropPtr, ProgramType
  <2> QED  BY <1>a, <1>8, <2>5 DEF DropPtr, TypeOK, ObjType, HpType, DecType, RetType,
           ScanType, objVars, hpVars, gcVars, decVars, retVars, endVars
<1>9. CASE Shutdown(t)
  <2>1. (IF maxHPs > 0 THEN "sweep" ELSE "down") \in Labels
    BY DEF Labels
  <2>2. ProgramType'
    BY <1>a, <1>9, <2>1, GotoType DEF Shutdown
  <2>3. ScanType'
    BY <1>a, <1>9 DEF Shutdown, ScanType
  <2> QED  BY <1>a, <1>9, <2>2, <2>3 DEF Shutdown, TypeOK, ObjType, HpType, DecType,
           RetType, objVars, hpVars, decVars, retVars
<1>10. CASE GetProtected(t)
  <2> DEFINE pub == link[op[t].cell]
  <2>1. /\ pub \in Ptr \cup {Poison} /\ "publish" \in Labels
        /\ (IF op[t].old = Null THEN "newidx" ELSE "clear") \in Labels
    BY <1>a, <1>b, <1>10, LocalTypes DEF GetProtected, OperandInv, Ready, Labels
  <2>2. [op[t] EXCEPT !.ptr = pub] \in Operation
    BY <1>a, <2>1, LocalTypes DEF Operation
  <2>3. op' \in [Threads -> Operation] /\ pc' \in [Threads -> Labels]
    BY <1>a, <1>10, <2>1, <2>2, RunType, NoOpType DEF GetProtected, Loaded, Goto, ProgramType
  <2>4. slot' \in [Threads -> [PtrIdx -> [ptr : Ptr, lnk : BOOLEAN]]]
    <3> DEFINE S == [ptr : Ptr, lnk : BOOLEAN]
    <3>1. NoPtr \in S
      BY DEF NoPtr, Ptr
    <3>2. [slot[t] EXCEPT ![op[t].from] = NoPtr] \in [PtrIdx -> S]
      <4>1. slot[t] \in [PtrIdx -> S]
        BY <1>a DEF ProgramType
      <4> HIDE DEF S
      <4> QED  BY <3>1, <4>1
    <3>3. slot' = slot \/ slot' = [slot EXCEPT ![t][op[t].from] = NoPtr]
      BY <1>10 DEF GetProtected, Loaded
    <3>4. slot \in [Threads -> [PtrIdx -> S]]
      BY <1>a DEF ProgramType
    <3> HIDE DEF S
    <3>5. slot' \in [Threads -> [PtrIdx -> S]]
      BY <3>2, <3>3, <3>4
    <3> QED  BY <3>5 DEF S
  <2> QED  BY <1>a, <1>10, <2>3, <2>4 DEF GetProtected, TypeOK, ProgramType, ObjType,
           HpType, DecType, RetType, ScanType, objVars, hpVars, gcVars, decVars, retVars,
           endVars
<1>11. CASE Publish(t)
  <2>1. HpType'
    BY <1>a, <1>11, LocalTypes, IndexFacts DEF Publish, HpType
  <2>2. ProgramType'
    BY <1>a, <1>11, GotoType DEF Publish, Labels
  <2> QED  BY <1>a, <1>11, <2>1, <2>2 DEF Publish, TypeOK, ObjType, DecType, RetType,
           ScanType, objVars, gcVars, decVars, retVars, endVars
<1>12. CASE GetNewIdx(t)
  <2>1. PICK idx \in PtrIdx : maxHPs' = IF maxHPs <= idx THEN idx + 1 ELSE maxHPs
    BY <1>12 DEF GetNewIdx
  <2>2. maxHPs' \in 0 .. MaxHaz
    BY <1>a, <2>1, HazAssumption DEF PtrIdx, HpType
  <2>3. HpType'
    BY <1>a, <1>12, <2>2 DEF GetNewIdx, HpType
  <2>4. ProgramType'
    BY <1>a, <1>12, GotoType DEF GetNewIdx, Labels
  <2> QED  BY <1>a, <1>12, <2>3, <2>4 DEF GetNewIdx, TypeOK, ObjType, DecType, RetType,
           ScanType, objVars, gcVars, decVars, retVars, endVars
<1>13. CASE ProtectPtr(t)
  <2>1. PICK idx \in PtrIdx :
          /\ hp' = [hp EXCEPT ![t][idx] = op[t].ptr]
          /\ slot' = IF op[t].ptr \in Obj
                     THEN [slot EXCEPT ![t][idx] = [ptr |-> op[t].ptr, lnk |-> op[t].lnk]]
                     ELSE slot
    BY <1>13 DEF ProtectPtr
  <2>2. op[t].ptr \in Ptr \cup {Poison} /\ op[t].lnk \in BOOLEAN /\ idx \in Idx
    BY <1>a, LocalTypes, IndexFacts
  <2>3. HpType'
    BY <1>a, <1>13, <2>1, <2>2 DEF ProtectPtr, HpType, Ptr
  <2>4. slot' \in [Threads -> [PtrIdx -> [ptr : Ptr, lnk : BOOLEAN]]]
    BY <1>a, <2>1, <2>2 DEF ProgramType, Ptr
  <2>5. op' \in [Threads -> Operation] /\ pc' \in [Threads -> Labels]
    BY <1>a, <1>13, NoOpType DEF ProtectPtr, Goto, ProgramType, Labels
  <2> QED  BY <1>a, <1>13, <2>3, <2>4, <2>5 DEF ProtectPtr, TypeOK, ObjType, ProgramType,
           DecType, RetType, ScanType, objVars, gcVars, decVars, retVars, endVars
<1>14. CASE Clear(t)
  <2>1. orc[op[t].old] \in Word
    BY <1>a, <1>b, <1>14, LocalTypes DEF Clear, OperandInv, Ready
  <2>2. ScanType'
    BY <1>a, <1>14, <2>1 DEF Clear, ScanType, endVars
  <2>3. ProgramType'
    BY <1>a, <1>14, GotoType DEF Clear, AfterClear, Labels
  <2> QED  BY <1>a, <1>14, <2>2, <2>3 DEF Clear, TypeOK, ObjType, HpType, DecType, RetType,
           objVars, hpVars, decVars, retVars
<1>15. CASE ClearCas(t)
  <2>1. op[t].old \in Obj /\ op[t].old \in Ptr /\ AfterClear(t) \in Labels
    BY <1>b, <1>15 DEF ClearCas, OperandInv, Ready, AfterClear, Labels, Ptr
  <2>2. ObjType' /\ ProgramType' /\ RetType'
    BY <1>a, <1>15, <2>1, CasRetiredType DEF ClearCas
  <2>3. ScanType'
    BY <1>a, <1>15, WordFacts DEF ClearCas, ScanType, endVars
  <2> QED  BY <1>a, <1>15, <2>2, <2>3 DEF ClearCas, TypeOK, HpType, DecType, hpVars, decVars
<1>16. CASE IncrementOrc(t)
  <2> DEFINE o == op[t].new
             w == [orc[o] EXCEPT !.cnt = @ + 1]
  <2>1. o \in Obj
    BY <1>b, <1>16 DEF IncrementOrc, OperandInv, Ready
  <2>2. w \in Word
    BY <1>a, <2>1, LocalTypes, WordFacts
  <2>3. AfterInc(t) \in Labels /\ "inccas" \in Labels
    BY DEF AfterInc, Labels
  <2>4. /\ orc' = [orc EXCEPT ![o] = w]
        /\ \/ lorc' = [lorc EXCEPT ![t] = w] /\ Goto(t, "inccas")
           \/ UNCHANGED lorc /\ Goto(t, AfterInc(t))
    BY <1>16 DEF IncrementOrc
  <2> HIDE DEF o, w
  <2>5. ObjType'
    BY <1>a, <1>16, <2>1, <2>2, <2>4 DEF IncrementOrc, ObjType
  <2>6. ScanType'
    BY <1>a, <1>16, <2>2, <2>4 DEF IncrementOrc, ScanType, endVars
  <2>7. ProgramType'
    BY <1>a, <1>16, <2>3, <2>4, GotoType DEF IncrementOrc
  <2> QED  BY <1>a, <1>16, <2>5, <2>6, <2>7 DEF IncrementOrc, TypeOK, HpType, DecType, RetType,
           hpVars, decVars, retVars
<1>17. CASE IncrementCas(t)
  <2>1. op[t].new \in Obj /\ op[t].new \in Ptr /\ AfterInc(t) \in Labels
    BY <1>b, <1>17 DEF IncrementCas, OperandInv, Ready, AfterInc, Labels, Ptr
  <2>2. ObjType' /\ ProgramType' /\ RetType'
    BY <1>a, <1>17, <2>1, CasRetiredType DEF IncrementCas
  <2>3. ScanType'
    BY <1>a, <1>17, WordFacts DEF IncrementCas, ScanType, endVars
  <2> QED  BY <1>a, <1>17, <2>2, <2>3 DEF IncrementCas, TypeOK, HpType, DecType, hpVars, decVars
<1>18. CASE Exchange(t)
  <2> DEFINE old == link[op[t].cell]
  <2>1. op[t].cell \in Cell /\ op[t].new \in Ptr /\ "decprotect" \in Labels /\ "idle" \in Labels
    BY <1>a, <1>b, <1>18, LocalTypes DEF Exchange, OperandInv, Ready, Labels
  <2>2. ObjType'
    BY <1>a, <1>18, <2>1 DEF Exchange, ObjType
  <2>3. ProgramType'
    BY <1>a, <1>18, <2>1, GotoType DEF Exchange
  <2>4. (dec' = [dec EXCEPT ![t][0].ptr = old] /\ old \in Ptr) \/ dec' = dec
    BY <1>18 DEF Exchange, Ptr
  <2> HIDE DEF old
  <2>5. DecType'
    BY <1>a, <1>18, <2>4 DEF Exchange, DecType
  <2> QED  BY <1>a, <1>18, <2>2, <2>3, <2>5 DEF Exchange, TypeOK, HpType, RetType, ScanType,
           hpVars, retVars, endVars
<1>19. CASE DecrementProtect(t)
  <2>1. HpType'
    BY <1>a, <1>19, LocalTypes, IndexFacts DEF DecrementProtect, HpType
  <2>2. ProgramType'
    BY <1>a, <1>19, GotoType DEF DecrementProtect, Labels
  <2> QED  BY <1>a, <1>19, <2>1, <2>2 DEF DecrementProtect, TypeOK, ObjType, DecType, RetType,
           ScanType, objVars, gcVars, decVars, retVars, endVars
<1>20. CASE DecrementOrc(t)
  <2> DEFINE o == dec[t][Level(t)].ptr
             w == [orc[o] EXCEPT !.cnt = @ - 1, !.seq = @ + 1]
             d == [ptr |-> o, word |-> w]
  <2>1. o \in Obj /\ w \in Word
    BY <1>a, <1>b, <1>20, LocalTypes, WordFacts DEF DecrementOrc, OperandInv, Ready, DecSteps
  <2>2. d \in [ptr : Ptr, word : Word]
    BY <2>1 DEF Ptr
  <2>3. "retireOne" \in Labels
    BY DEF Labels
  <2>4. /\ orc' = [orc EXCEPT ![o] = w]
        /\ \/ dec' = [dec EXCEPT ![t][Level(t)] = d] /\ Goto(t, "retireOne")
           \/ DecrementTest(t, d)
    BY <1>20 DEF DecrementOrc
  <2> HIDE DEF o, w, d
  <2>5. ObjType'
    BY <1>a, <1>20, <2>1, <2>4 DEF DecrementOrc, ObjType
  <2>6. ProgramType' /\ dec' \in [Threads -> [{0, 1} -> [ptr : Ptr, word : Word]]]
    <3>1. CASE dec' = [dec EXCEPT ![t][Level(t)] = d] /\ Goto(t, "retireOne")
      BY <1>a, <1>20, <2>2, <2>3, <3>1, GotoType DEF DecrementOrc, DecType
    <3>2. CASE DecrementTest(t, d)
      BY <1>a, <1>20, <2>2, <3>2, DecrementTestType DEF DecrementOrc
    <3> QED  BY <2>4, <3>1, <3>2
  <2>7. retcnt' = [retcnt EXCEPT ![t] = retcnt[t] + 1] /\ retcnt[t] + 1 \in Nat
    BY <1>a, <1>20, LocalTypes DEF DecrementOrc
  <2>8. DecType'
    BY <1>a, <1>20, <2>6, <2>7 DEF DecrementOrc, DecType
  <2> QED  BY <1>a, <1>20, <2>5, <2>6, <2>8 DEF DecrementOrc, TypeOK, HpType, RetType, ScanType,
           hpVars, retVars, endVars
<1>21. CASE ResetRetcnt(t)
  <2>1. dec[t][Level(t)] \in [ptr : Ptr, word : Word]
    BY <1>a, LocalTypes DEF DecType
  <2>2. ProgramType' /\ dec' \in [Threads -> [{0, 1} -> [ptr : Ptr, word : Word]]]
    BY <1>a, <1>21, <2>1, DecrementTestType DEF ResetRetcnt
  <2>3. DecType'
    BY <1>a, <1>21, <2>2 DEF ResetRetcnt, DecType
  <2> QED  BY <1>a, <1>21, <2>2, <2>3 DEF ResetRetcnt, TypeOK, ObjType, HpType, RetType,
           ScanType, objVars, hpVars, retVars, endVars
<1>22. CASE DecrementCas(t)
  <2> DEFINE o == dec[t][Level(t)].ptr
  <2>1. o \in Obj /\ o \in Ptr /\ AfterDec(t) \in Labels
    BY <1>b, <1>22 DEF DecrementCas, OperandInv, Ready, DecSteps, AfterDec, Labels, Ptr
  <2>2. ObjType' /\ ProgramType' /\ RetType'
    BY <1>a, <1>22, <2>1, CasRetiredType DEF DecrementCas
  <2>3. NoDec \in [ptr : Ptr, word : Word]
    BY WordFacts DEF NoDec, Ptr
  <2>4. DecType'
    BY <1>a, <1>22, <2>3 DEF DecrementCas, DecType
  <2> QED  BY <1>a, <1>22, <2>2, <2>4 DEF DecrementCas, TypeOK, HpType, ScanType, hpVars, endVars
<1>23. CASE RetireOne(t)
  <2>1. ScanType'
    BY <1>a, <1>23 DEF RetireOne, ScanType, endVars
  <2>2. ProgramType'
    BY <1>a, <1>23, GotoType DEF RetireOne, Labels
  <2> QED  BY <1>a, <1>23, <2>1, <2>2 DEF RetireOne, TypeOK, ObjType, HpType, DecType, RetType,
           objVars, hpVars, decVars, retVars
<1>24. CASE Seek(t)
  <2>1. PICK p \in Place :
          /\ seen' = [seen EXCEPT ![t] = handovers[p[1]][p[2]]]
          /\ (Goto(t, "seekhp") /\ UNCHANGED scan) \/ SeekNext(t, p)
    BY <1>a, <1>24, LocalTypes DEF Seek
  <2>2. handovers[p[1]][p[2]] \in Ptr
    BY <1>a, LocalTypes DEF Place
  <2>3. DecType'
    BY <1>a, <1>24, <2>1, <2>2 DEF Seek, DecType
  <2>4. "seekhp" \in Labels
    BY DEF Labels
  <2>5. ScanType' /\ ProgramType'
    BY <1>a, <1>24, <2>1, <2>4, SeekNextType, GotoType DEF Seek, ScanType, endVars
  <2> QED  BY <1>a, <1>24, <2>3, <2>5 DEF Seek, TypeOK, ObjType, HpType, RetType,
           objVars, hpVars, retVars
<1>25. CASE SeekHP(t)
  <2>1. PICK p \in Place :
          (scan' = [scan EXCEPT ![t] = {p}] /\ Goto(t, "take")) \/ SeekNext(t, p)
    BY <1>a, <1>25, LocalTypes DEF SeekHP
  <2>2. DecType'
    BY <1>a, <1>25 DEF SeekHP, DecType, Ptr
  <2>3. "take" \in Labels
    BY DEF Labels
  <2>4. ScanType' /\ ProgramType'
    BY <1>a, <1>25, <2>1, <2>3, SeekNextType, GotoType DEF SeekHP, ScanType, endVars
  <2> QED  BY <1>a, <1>25, <2>2, <2>4 DEF SeekHP, TypeOK, ObjType, HpType, RetType,
           objVars, hpVars, retVars
<1>26. CASE TakeHandover(t)
  <2>1. PICK p \in Place :
          /\ handovers' = [handovers EXCEPT ![p[1]][p[2]] = Null]
          /\ Retire(t, handovers[p[1]][p[2]], "reset")
    BY <1>a, <1>26, LocalTypes DEF TakeHandover
  <2>2. handovers[p[1]][p[2]] \in Ptr /\ "reset" \in Labels
    BY <1>a, LocalTypes DEF Place, Labels
  <2>3. HpType'
    BY <1>a, <1>26, <2>1 DEF TakeHandover, HpType, Ptr
  <2>4. ProgramType' /\ RetType'
    BY <1>a, <1>26, <2>1, <2>2, RetireType DEF TakeHandover
  <2>5. ScanType'
    BY <1>a, <1>26 DEF TakeHandover, ScanType, endVars
  <2> QED  BY <1>a, <1>26, <2>3, <2>4, <2>5 DEF TakeHandover, TypeOK, ObjType, DecType,
           objVars, decVars
<1>27. CASE RetireSelf(t)
  <2>1. /\ handovers' \in [Threads -> [Idx -> Ptr]]
        /\ \E p \in Ptr : Continue(t, p)
    <3>1. CASE \E i \in OwnHp(t) : /\ handovers' = [handovers EXCEPT ![t][i] = ptr[t]]
                                   /\ Continue(t, handovers[t][i])
      BY <1>a, <3>1, LocalTypes DEF OwnHp, HpType
    <3>2. CASE Continue(t, ptr[t]) /\ UNCHANGED handovers
      BY <1>a, <3>2, LocalTypes DEF HpType
    <3> QED  BY <1>27, <3>1, <3>2 DEF RetireSelf
  <2>2. PICK p \in Ptr : Continue(t, p)
    BY <2>1
  <2>3. /\ ProgramType' /\ RetType'
        /\ lorc' \in [Threads -> Word] /\ scan' \in [Threads -> SUBSET Place]
    BY <1>a, <1>27, <2>2, ContinueType DEF RetireSelf
  <2>4. HpType' /\ ScanType'
    BY <1>a, <1>27, <2>1, <2>3 DEF RetireSelf, HpType, ScanType, endVars
  <2> QED  BY <1>a, <1>27, <2>3, <2>4 DEF RetireSelf, TypeOK, ObjType, DecType, objVars, decVars
<1>28. CASE RetireLoad(t)
  <2>1. orc[ptr[t]] \in Word
    BY <1>a, <1>b, <1>28, LocalTypes DEF RetireLoad, LoopInv, LoopSteps
  <2>2. (IF IsCounterZero(orc[ptr[t]]) THEN TryHandover ELSE "cbhp") \in Labels
    BY DEF TryHandover, Labels
  <2>3. ScanType'
    BY <1>a, <1>28, <2>1 DEF RetireLoad, ScanType, endVars
  <2>4. ProgramType'
    BY <1>a, <1>28, <2>2, GotoType DEF RetireLoad
  <2> QED  BY <1>a, <1>28, <2>3, <2>4 DEF RetireLoad, TypeOK, ObjType, HpType, DecType, RetType,
           objVars, hpVars, decVars, retVars
<1>29. CASE ClearBitProtect(t)
  <2>1. HpType'
    BY <1>a, <1>29, LocalTypes, IndexFacts DEF ClearBitProtect, HpType
  <2>2. ProgramType'
    BY <1>a, <1>29, GotoType DEF ClearBitProtect, Labels
  <2> QED  BY <1>a, <1>29, <2>1, <2>2 DEF ClearBitProtect, TypeOK, ObjType, DecType, RetType,
           ScanType, objVars, gcVars, decVars, retVars, endVars
<1>30. CASE ClearBit(t)
  <2> DEFINE w == [orc[ptr[t]] EXCEPT !.ret = FALSE]
  <2>1. ptr[t] \in Obj /\ w \in Word
    BY <1>a, <1>b, <1>30, LocalTypes, WordFacts DEF ClearBit, LoopInv, LoopSteps
  <2>2. /\ orc' = [orc EXCEPT ![ptr[t]] = w]
        /\ lorc' = [lorc EXCEPT ![t] = w]
        /\ Goto(t, IF IsZero(w) THEN "cbcas" ELSE "cbfail")
    BY <1>30 DEF ClearBit
  <2> HIDE DEF w
  <2>3. (IF IsZero(w) THEN "cbcas" ELSE "cbfail") \in Labels
    BY DEF Labels
  <2>4. ObjType' /\ ScanType'
    BY <1>a, <1>30, <2>1, <2>2 DEF ClearBit, ObjType, ScanType, endVars
  <2>5. ProgramType'
    BY <1>a, <1>30, <2>2, <2>3, GotoType DEF ClearBit
  <2> QED  BY <1>a, <1>30, <2>4, <2>5 DEF ClearBit, TypeOK, HpType, DecType, RetType,
           hpVars, decVars, retVars
<1>31. CASE ClearBitCas(t)
  <2>1. ptr[t] \in Obj /\ "cbok" \in Labels /\ "cbfail" \in Labels
    BY <1>b, <1>31 DEF ClearBitCas, LoopInv, LoopSteps, Labels
  <2>2. orc' \in [Obj -> Word]
    <3>1. orc' = [orc EXCEPT ![ptr[t]].ret = TRUE] \/ orc' = orc
      BY <1>31 DEF ClearBitCas
    <3>2. orc \in [Obj -> Word]
      BY <1>a DEF ObjType
    <3>3. [orc[ptr[t]] EXCEPT !.ret = TRUE] \in Word
      BY <2>1, <3>2, WordFacts
    <3> QED  BY <3>1, <3>2, <3>3
  <2>3. lorc' \in [Threads -> Word]
    <3>1. lorc' = [lorc EXCEPT ![t].ret = TRUE] \/ lorc' = lorc
      BY <1>31 DEF ClearBitCas
    <3>2. [lorc[t] EXCEPT !.ret = TRUE] \in Word
      BY <1>a, LocalTypes, WordFacts
    <3> QED  BY <1>a, <3>1, <3>2 DEF ScanType
  <2>4. ObjType' /\ ScanType'
    BY <1>a, <1>31, <2>2, <2>3 DEF ClearBitCas, ObjType, ScanType, endVars
  <2>5. ProgramType'
    BY <1>a, <1>31, <2>1, GotoType DEF ClearBitCas
  <2> QED  BY <1>a, <1>31, <2>4, <2>5 DEF ClearBitCas, TypeOK, HpType, DecType, RetType,
           hpVars, decVars, retVars
<1>32. CASE ClearBitOk(t)
  <2>1. (IF again[t] THEN "load" ELSE TryHandover) \in Labels
    BY DEF TryHandover, Labels
  <2>2. HpType' /\ RetType'
    BY <1>a, <1>32, IndexFacts DEF ClearBitOk, HpType, RetType, Ptr
  <2>3. ProgramType'
    BY <1>a, <1>32, <2>1, GotoType DEF ClearBitOk
  <2> QED  BY <1>a, <1>32, <2>2, <2>3 DEF ClearBitOk, TypeOK, ObjType, DecType, ScanType,
           objVars, decVars, endVars
<1>33. CASE ClearBitFail(t)
  <2>1. HpType'
    BY <1>a, <1>33, IndexFacts DEF ClearBitFail, HpType, Ptr
  <2>2. /\ ProgramType' /\ RetType'
        /\ lorc' \in [Threads -> Word] /\ scan' \in [Threads -> SUBSET Place]
    BY <1>a, <1>33, ContinueType DEF ClearBitFail, Ptr
  <2>3. ScanType'
    BY <1>a, <1>33, <2>2 DEF ClearBitFail, ScanType, endVars
  <2> QED  BY <1>a, <1>33, <2>1, <2>2, <2>3 DEF ClearBitFail, TypeOK, ObjType, DecType,
           objVars, decVars
<1>34. CASE ScanThreads(t)
  <2>1. ScanType'
    BY <1>a, <1>34 DEF ScanThreads, ScanType, endVars
  <2>2. ProgramType'
    BY <1>a, <1>34, GotoType DEF ScanThreads, Labels
  <2> QED  BY <1>a, <1>34, <2>1, <2>2 DEF ScanThreads, TypeOK, ObjType, HpType, DecType, RetType,
           objVars, hpVars, decVars, retVars
<1>35. CASE ScanHPs(t)
  <2>1. ScanType'
    BY <1>a, <1>35 DEF ScanHPs, ScanType, endVars
  <2>2. ProgramType'
    BY <1>a, <1>35, GotoType DEF ScanHPs, Labels
  <2> QED  BY <1>a, <1>35, <2>1, <2>2 DEF ScanHPs, TypeOK, ObjType, HpType, DecType, RetType,
           objVars, hpVars, decVars, retVars
<1>36. CASE Scan(t)
  <2>1. PICK p \in Place :
          \/ scan' = [scan EXCEPT ![t] = {p}] /\ Goto(t, "hand")
          \/ /\ scan' = [scan EXCEPT ![t] = @ \ {p}]
             /\ Goto(t, IF scan[t] = {p} THEN "check" ELSE "scan")
    BY <1>a, <1>36, LocalTypes DEF Scan
  <2>2. "hand" \in Labels /\ (IF scan[t] = {p} THEN "check" ELSE "scan") \in Labels
    BY DEF Labels
  <2>3. ScanType'
    BY <1>a, <1>36, <2>1 DEF Scan, ScanType, endVars
  <2>4. ProgramType'
    BY <1>a, <1>36, <2>1, <2>2, GotoType DEF Scan
  <2> QED  BY <1>a, <1>36, <2>3, <2>4 DEF Scan, TypeOK, ObjType, HpType, DecType, RetType,
           objVars, hpVars, decVars, retVars
<1>37. CASE HandOver(t)
  <2>1. PICK p \in Place :
          /\ handovers' = [handovers EXCEPT ![p[1]][p[2]] = ptr[t]]
          /\ Continue(t, handovers[p[1]][p[2]])
    BY <1>a, <1>37, LocalTypes DEF HandOver
  <2>2. handovers[p[1]][p[2]] \in Ptr /\ ptr[t] \in Ptr
    BY <1>a, LocalTypes DEF Place
  <2>3. HpType'
    BY <1>a, <1>37, <2>1, <2>2 DEF HandOver, HpType
  <2>4. /\ ProgramType' /\ RetType'
        /\ lorc' \in [Threads -> Word] /\ scan' \in [Threads -> SUBSET Place]
    BY <1>a, <1>37, <2>1, <2>2, ContinueType DEF HandOver
  <2>5. ScanType'
    BY <1>a, <1>37, <2>4 DEF HandOver, ScanType, endVars
  <2> QED  BY <1>a, <1>37, <2>3, <2>4, <2>5 DEF HandOver, TypeOK, ObjType, DecType,
           objVars, decVars
<1>38. CASE CheckWord(t)
  <2> DEFINE w == orc[ptr[t]]
  <2>1. (IF w = lorc[t] THEN "destroy" ELSE IF IsCounterZero(w) THEN "load" ELSE "cbhp") \in Labels
    BY DEF Labels
  <2>2. IsCounterZero(w) \in BOOLEAN
    BY DEF IsCounterZero
  <2>3. RetType'
    BY <1>a, <1>38, <2>2 DEF CheckWord, RetType
  <2>4. ScanType'
    BY <1>a, <1>38, WordFacts DEF CheckWord, ScanType, endVars
  <2>5. ProgramType'
    BY <1>a, <1>38, <2>1, GotoType DEF CheckWord
  <2> QED  BY <1>a, <1>38, <2>3, <2>4, <2>5 DEF CheckWord, TypeOK, ObjType, HpType, DecType,
           objVars, hpVars, decVars
<1>39. CASE Destroy(t)
  <2> DEFINE o == link[ptr[t]]
  <2>1. "decprotect" \in Labels /\ "free" \in Labels
    BY DEF Labels
  <2>2. (dec' = [dec EXCEPT ![t][1].ptr = o] /\ o \in Ptr) \/ dec' = dec
    BY <1>39 DEF Destroy, Ptr
  <2> HIDE DEF o
  <2>3. dec' \in [Threads -> [{0, 1} -> [ptr : Ptr, word : Word]]]
    BY <1>a, <2>2 DEF DecType
  <2>4. DecType'
    BY <1>a, <1>39, <2>3 DEF Destroy, DecType
  <2>5. ProgramType'
    BY <1>a, <1>39, <2>1, GotoType DEF Destroy
  <2> QED  BY <1>a, <1>39, <2>4, <2>5 DEF Destroy, TypeOK, ObjType, HpType, RetType, ScanType,
           objVars, hpVars, retVars, endVars
<1>40. CASE FreeObj(t)
  <2>1. ptr[t] \in Obj
    BY <1>b, <1>40 DEF FreeObj, LoopInv, LoopSteps
  <2>2. ObjType'
    BY <1>a, <1>40, <2>1, WordFacts DEF FreeObj, ObjType, Ptr
  <2>3. /\ ProgramType' /\ RetType'
        /\ lorc' \in [Threads -> Word] /\ scan' \in [Threads -> SUBSET Place]
    BY <1>a, <1>40, ContinueType DEF FreeObj, Ptr
  <2>4. ScanType'
    BY <1>a, <1>40, <2>3 DEF FreeObj, ScanType, endVars
  <2> QED  BY <1>a, <1>40, <2>2, <2>3, <2>4 DEF FreeObj, TypeOK, HpType, DecType, hpVars, decVars
<1>41. CASE Sweep(t)
  <2>1. PICK p \in left :
          /\ left' = left \ {p}
          /\ handovers' = [handovers EXCEPT ![p[1]][p[2]] = Null]
          /\ Retire(t, handovers[p[1]][p[2]], IF left = {p} THEN "down" ELSE "sweep")
    BY <1>41 DEF Sweep
  <2>2. /\ handovers[p[1]][p[2]] \in Ptr
        /\ (IF left = {p} THEN "down" ELSE "sweep") \in Labels
    BY <1>a, LocalTypes DEF Place, Labels, ScanType
  <2>3. HpType'
    BY <1>a, <1>41, <2>1 DEF Sweep, HpType, Ptr
  <2>4. ProgramType' /\ RetType'
    BY <1>a, <1>41, <2>1, <2>2, RetireType DEF Sweep
  <2>5. ScanType'
    BY <1>a, <1>41, <2>1 DEF Sweep, ScanType
  <2> QED  BY <1>a, <1>41, <2>3, <2>4, <2>5 DEF Sweep, TypeOK, ObjType, DecType, objVars, decVars
<1> QED  BY <1>1, <1>2, <1>3, <1>3a, <1>4, <1>5, <1>6, <1>7, <1>8, <1>9, <1>10, <1>11,
        <1>12, <1>13, <1>14, <1>15, <1>16, <1>17, <1>18, <1>19, <1>20, <1>21, <1>22,
        <1>23, <1>24, <1>25, <1>26, <1>27, <1>28, <1>29, <1>30, <1>31, <1>32, <1>33,
        <1>34, <1>35, <1>36, <1>37, <1>38, <1>39, <1>40, <1>41
        DEF Begin, Call

\* The locals that LoopInv(u) and OperandInv(u) are about.
Frame(u) ==
    /\ pc'[u] = pc[u] /\ op'[u] = op[u] /\ dec'[u] = dec[u] /\ ptr'[u] = ptr[u]
    /\ rlist'[u] = rlist[u] /\ retireStarted'[u] = retireStarted[u]
    /\ retTo'[u] = retTo[u]

\* A thread whose locals stay knows of them what it knew.
LEMMA FrameKeeps ==
    ASSUME NEW u \in Threads, Frame(u), LoopInv(u), OperandInv(u)
    PROVE  LoopInv(u)' /\ OperandInv(u)'
  BY DEF Frame, LoopInv, OperandInv, Ready, Level

\* The locals of retire() that most steps leave alone.
Kept(t) ==
    /\ ptr'[t] = ptr[t] /\ rlist'[t] = rlist[t]
    /\ retireStarted'[t] = retireStarted[t] /\ retTo'[t] = retTo[t]

\* Kept(t), from the UNCHANGED of an action.
LEMMA UnchangedKept ==
    ASSUME NEW t \in Threads, UNCHANGED retVars
    PROVE  Kept(t)
  BY DEF Kept, retVars

\* The step sets, spelled out.
LEMMA LabelFacts ==
    /\ LoopSteps \cap DecSteps = {}
    /\ "idle" \notin LoopSteps \cup DecSteps /\ "self" \notin LoopSteps \cup DecSteps
    /\ "self" \notin Returns /\ LoopSteps \cap Returns = {}
  BY DEF LoopSteps, DecSteps, Returns

\* The locals of a thread after Goto() ...
LEMMA GotoLocals ==
    ASSUME ProgramType, NEW t \in Threads, NEW l, Goto(t, l)
    PROVE  pc'[t] = l /\ (l # "idle" => op'[t] = op[t])
  BY DEF ProgramType, Goto

\* ... and after Run().
LEMMA RunLocals ==
    ASSUME ProgramType, NEW t \in Threads, NEW o, NEW l, Run(t, o, l)
    PROVE  pc'[t] = l /\ op'[t] = o
  BY DEF ProgramType, Run

\* A step that leaves the locals of retire() alone and goes to l.
LEMMA GotoStep ==
    ASSUME ProgramType, NEW t \in Threads, NEW l, Goto(t, l), Kept(t),
           LoopInv(t), OperandInv(t), dec'[t] = dec[t],
           pc[t] # "self", l # "self",
           IF retireStarted[t] THEN l \in LoopSteps \cup DecSteps ELSE l \notin LoopSteps,
           Ready(t, l, Level(t))
    PROVE  LoopInv(t)' /\ OperandInv(t)'
<1>1. pc'[t] = l /\ (l # "idle" => op'[t] = op[t])
  BY GotoLocals
<1>2. LoopInv(t)'
  BY <1>1, LabelFacts DEF LoopInv, Kept
<1>2a. dec'[t] = dec[t] /\ retTo'[t] = retTo[t] /\ Level(t)' = Level(t)
  BY DEF Kept, Level
<1>3. CASE l = "idle"
  <2>1. ~retireStarted[t]
    BY <1>3 DEF LoopSteps, DecSteps
  <2>2. retTo[t] = "idle"
    BY <2>1 DEF LoopInv
  <2>3. pc'[t] = "idle" /\ retTo'[t] = "idle"
    BY <1>1, <1>2a, <1>3, <2>2
  <2>4. Ready(t, pc[t], Level(t))'
    BY <2>3 DEF Ready, DecSteps
  <2>5. Ready(t, retTo[t], 0)'
    BY <2>3 DEF Ready, DecSteps
  <2> QED  BY <1>2, <2>4, <2>5 DEF OperandInv
<1>4. CASE l # "idle"
  <2>1. op'[t] = op[t] /\ pc'[t] = l
    BY <1>1, <1>4
  <2>2. Ready(t, pc[t], Level(t))'
    BY <2>1, <1>2a DEF Ready
  <2>3. Ready(t, retTo[t], 0)
    BY DEF OperandInv
  <2>4. Ready(t, retTo[t], 0)'
    BY <2>1, <2>3, <1>2a DEF Ready
  <2> QED  BY <1>2, <2>2, <2>4 DEF OperandInv
<1> QED  BY <1>2, <1>3, <1>4

\* The same for a step at level 0 that starts an operation or a retry of it.
LEMMA RunStep ==
    ASSUME ProgramType, NEW t \in Threads, NEW o, NEW l, Run(t, o, l), Kept(t),
           LoopInv(t), pc[t] \in {"idle", "read"},
           l \notin LoopSteps, l # "self", Ready(t, l, 0)'
    PROVE  LoopInv(t)' /\ OperandInv(t)'
<1>1. pc'[t] = l
  BY RunLocals
<1>2. ~retireStarted[t] /\ pc[t] # "self" /\ retTo[t] = "idle"
  BY DEF LoopInv, LoopSteps, DecSteps
<1>3. LoopInv(t)'
  BY <1>1, <1>2 DEF LoopInv, Kept
<1>4. OperandInv(t)'
  BY <1>1, <1>2 DEF OperandInv, Ready, Level, Kept, DecSteps
<1> QED  BY <1>3, <1>4

\* The same for a step that changes the decrementOrc() of its level.
LEMMA DecStep ==
    ASSUME ProgramType, NEW t \in Threads, NEW l, Goto(t, l), Kept(t),
           LoopInv(t), OperandInv(t), pc[t] # "self",
           retireStarted[t] => dec'[t][0] = dec[t][0],
           l \in DecSteps \cup {IF retireStarted[t] THEN "free" ELSE "idle"},
           l \in DecSteps => dec'[t][Level(t)].ptr \in Obj
    PROVE  LoopInv(t)' /\ OperandInv(t)'
<1>1. pc'[t] = l /\ (l # "idle" => op'[t] = op[t])
  BY GotoLocals
<1>2. LoopInv(t)'
  BY <1>1, LabelFacts DEF LoopInv, Kept, LoopSteps
<1>3. Level(t)' = Level(t)
  BY DEF Kept, Level
<1>4. Ready(t, pc[t], Level(t))'
  BY <1>1, <1>3 DEF Ready, DecSteps
<1>5. Ready(t, retTo[t], 0)'
  <2>1. CASE ~retireStarted[t]
    <3>1. retTo'[t] = "idle"
      BY <2>1 DEF LoopInv, Kept
    <3> QED  BY <3>1 DEF Ready, DecSteps
  <2>2. CASE retireStarted[t]
    <3>1. op'[t] = op[t] /\ retTo'[t] = retTo[t] /\ dec'[t][0] = dec[t][0]
      BY <1>1, <2>2 DEF Kept, DecSteps
    <3>2. Ready(t, retTo[t], 0)
      BY DEF OperandInv
    <3> QED  BY <3>1, <3>2 DEF Ready
  <2> QED  BY <2>1, <2>2
<1> QED  BY <1>2, <1>4, <1>5 DEF OperandInv

\* DecrementTest() with the decrementOrc() d of the level of t.
LEMMA TestStep ==
    ASSUME ProgramType, DecType, NEW t \in Threads, NEW d, d.ptr \in Obj,
           DecrementTest(t, d), Kept(t), LoopInv(t), OperandInv(t), pc[t] # "self"
    PROVE  LoopInv(t)' /\ OperandInv(t)'
<1>1. Level(t) \in {0, 1} /\ (retireStarted[t] => Level(t) = 1)
  BY DEF Level
<1>2. CASE IsZero(d.word)
  <2>1. dec' = [dec EXCEPT ![t][Level(t)] = d] /\ Goto(t, "deccas")
    BY <1>2 DEF DecrementTest
  <2>2. dec'[t][Level(t)] = d /\ (retireStarted[t] => dec'[t][0] = dec[t][0])
    BY <1>1, <2>1 DEF DecType
  <2> QED  BY <2>1, <2>2, DecStep DEF DecSteps
<1>3. CASE ~IsZero(d.word)
  <2>1. dec' = [dec EXCEPT ![t][Level(t)] = NoDec] /\ Goto(t, AfterDec(t))
    BY <1>3 DEF DecrementTest
  <2>2. retireStarted[t] => dec'[t][0] = dec[t][0]
    BY <1>1, <2>1 DEF DecType
  <2>3. AfterDec(t) = (IF retireStarted[t] THEN "free" ELSE "idle") /\ AfterDec(t) \notin DecSteps
    BY DEF AfterDec, DecSteps
  <2> QED  BY <2>1, <2>2, <2>3, DecStep
<1> QED  BY <1>2, <1>3

\* Retire() goes to a step that is ready.
LEMMA RetireStep ==
    ASSUME ProgramType, RetType, NEW t \in Threads, NEW p \in Ptr, NEW l, Retire(t, p, l),
           LoopInv(t), OperandInv(t), pc[t] # "self",
           IF retireStarted[t] THEN l \in LoopSteps \cup DecSteps ELSE l \in Returns,
           Ready(t, l, Level(t)),
           \/ dec'[t] = dec[t]
           \/ /\ l \in {IF retireStarted[t] THEN "free" ELSE "idle"}
              /\ retireStarted[t] => dec'[t][0] = dec[t][0]
    PROVE  LoopInv(t)' /\ OperandInv(t)'
<1>1. CASE p = Null
  <2>1. Goto(t, l) /\ Kept(t)
    BY <1>1, UnchangedKept DEF Retire
  <2>2. CASE dec'[t] = dec[t]
    <3>1. l # "self" /\ (~retireStarted[t] => l \notin LoopSteps)
      BY LabelFacts
    <3> QED  BY <2>1, <2>2, <3>1, GotoStep
  <2>3. CASE dec'[t] # dec[t]
    <3>1. l \notin DecSteps
      BY <2>3 DEF DecSteps
    <3> QED  BY <2>1, <2>3, <3>1, DecStep
  <2> QED  BY <2>2, <2>3
<1>2. CASE p # Null /\ retireStarted[t]
  <2>1. pc'[t] = l /\ op'[t] = op[t]
    BY <1>2, GotoLocals, LabelFacts DEF Retire
  <2>2. ptr'[t] = ptr[t] /\ retireStarted'[t] = retireStarted[t] /\ retTo'[t] = retTo[t]
    BY <1>2 DEF Retire
  <2>3. LoopInv(t)'
    BY <1>2, <2>1, <2>2, LabelFacts DEF LoopInv
  <2>4. Level(t)' = Level(t) /\ Ready(t, retTo[t], 0)
    BY <2>2 DEF Level, OperandInv
  <2>5. Ready(t, retTo[t], 0)'
    <3>1. dec'[t][0] = dec[t][0]
      BY <1>2
    <3> QED  BY <2>1, <2>2, <2>4, <3>1 DEF Ready
  <2>6. Ready(t, pc[t], Level(t))'
    <3>1. CASE dec'[t] = dec[t]
      BY <2>1, <2>4, <3>1 DEF Ready
    <3>2. CASE dec'[t] # dec[t]
      BY <1>2, <2>1, <3>2 DEF Ready, DecSteps
    <3> QED  BY <3>1, <3>2
  <2> QED  BY <2>3, <2>5, <2>6 DEF OperandInv
<1>3. CASE p # Null /\ ~retireStarted[t]
  <2>1. pc'[t] = "self" /\ op'[t] = op[t]
    BY <1>3, GotoLocals DEF Retire
  <2>2. /\ ptr'[t] = p /\ retTo'[t] = l
        /\ rlist'[t] = rlist[t] /\ retireStarted'[t] = retireStarted[t]
    BY <1>3 DEF Retire, RetType
  <2>3. p \in Obj
    BY <1>3 DEF Ptr
  <2>4. LoopInv(t)'
    BY <1>3, <2>1, <2>2, <2>3, LabelFacts DEF LoopInv
  <2>5. Ready(t, pc[t], Level(t))'
    BY <2>1 DEF Ready, DecSteps
  <2>6. Ready(t, retTo[t], 0)'
    <3>1. CASE dec'[t] = dec[t]
      BY <1>3, <2>1, <2>2, <3>1 DEF Ready, Level
    <3>2. CASE dec'[t] # dec[t]
      BY <1>3, <2>2, <3>2 DEF Ready, DecSteps
    <3> QED  BY <3>1, <3>2
  <2> QED  BY <2>4, <2>5, <2>6 DEF OperandInv
<1> QED  BY <1>1, <1>2, <1>3

\* Continue() goes to a step that is ready.
LEMMA ContinueStep ==
    ASSUME ProgramType, RetType, NEW t \in Threads, NEW p \in Ptr, Continue(t, p),
           LoopInv(t), OperandInv(t), dec'[t] = dec[t],
           retireStarted[t] \/ pc[t] = "self"
    PROVE  LoopInv(t)' /\ OperandInv(t)'
<1>1. CASE p # Null
  <2>1. pc'[t] = "load" /\ op'[t] = op[t]
    BY <1>1, GotoLocals DEF Continue
  <2>2. /\ ptr'[t] = p /\ retireStarted'[t] = TRUE
        /\ rlist'[t] = rlist[t] /\ retTo'[t] = retTo[t]
    BY <1>1 DEF Continue, RetType
  <2>3. LoopInv(t)'
    BY <1>1, <2>1, <2>2 DEF LoopInv, LoopSteps, Ptr
  <2>4. OperandInv(t)'
    BY <2>1, <2>2 DEF OperandInv, Ready, DecSteps
  <2> QED  BY <2>3, <2>4
<1>2. CASE p = Null /\ rlist[t] # <<>>
  <2>1. pc'[t] = "load" /\ op'[t] = op[t]
    BY <1>2, GotoLocals DEF Continue
  <2>2. /\ ptr'[t] = Head(rlist[t]) /\ retireStarted'[t] = retireStarted[t]
        /\ retTo'[t] = retTo[t]
    BY <1>2 DEF Continue, RetType
  <2>3. Head(rlist[t]) \in Obj
    BY <1>2 DEF RetType
  <2>4. retireStarted[t]
    BY <1>2 DEF LoopInv
  <2>5. LoopInv(t)'
    BY <2>1, <2>2, <2>3, <2>4 DEF LoopInv, LoopSteps
  <2>6. OperandInv(t)'
    BY <2>1, <2>2 DEF OperandInv, Ready, DecSteps
  <2> QED  BY <2>5, <2>6
<1>3. CASE p = Null /\ rlist[t] = <<>>
  <2>1. pc'[t] = retTo[t] /\ (retTo[t] # "idle" => op'[t] = op[t])
    BY <1>3, GotoLocals DEF Continue
  <2>2. /\ ptr'[t] = Null /\ retireStarted'[t] = FALSE
        /\ rlist'[t] = <<>> /\ retTo'[t] = "idle"
    BY <1>3 DEF Continue, RetType
  <2>3. LoopInv(t)'
    BY <2>1, <2>2, LabelFacts DEF LoopInv, Returns
  <2>4. OperandInv(t)'
    BY <2>1, <2>2 DEF OperandInv, Ready, Level, DecSteps
  <2> QED  BY <2>3, <2>4
<1> QED  BY <1>1, <1>2, <1>3

\* No step of t changes the locals of another thread.
LEMMA FrameStep ==
    ASSUME TypeOK, NEW t \in Threads, Begin(t) \/ Call(t), NEW u \in Threads \ {t}
    PROVE  Frame(u)
<1> USE DEF TypeOK, ProgramType, DecType, RetType, Frame
<1>0. ProgramType /\ DecType /\ RetType
  OBVIOUS
<1>1. CASE Register(t)
  BY <1>0, <1>1 DEF Register, gcVars, decVars, retVars
<1>2. CASE MakeOrc(t)
  BY <1>0, <1>2 DEF MakeOrc, Start, Run, gcVars, decVars, retVars
<1>3. CASE Load(t)
  BY <1>0, <1>3 DEF Load, Start, Run, gcVars, decVars, retVars
<1>3a. CASE Assign(t)
  BY <1>0, <1>3a DEF Assign, Start, Run, gcVars, decVars, retVars
<1>4. CASE Store(t)
  BY <1>0, <1>4 DEF Store, Start, Run, gcVars, decVars, retVars
<1>5. CASE CompareExchange(t)
  BY <1>0, <1>5 DEF CompareExchange, Start, Run, gcVars, decVars, retVars
<1>6. CASE PoisonCell(t)
  BY <1>0, <1>6 DEF PoisonCell, Start, Goto, gcVars, decVars, retVars
<1>7. CASE CopyPtr(t)
  BY <1>0, <1>7 DEF CopyPtr, Start, Run, gcVars, decVars, retVars
<1>8. CASE DropPtr(t)
  BY <1>0, <1>8 DEF DropPtr, Run, gcVars, decVars, retVars
<1>9. CASE Shutdown(t)
  BY <1>0, <1>9 DEF Shutdown, Goto, gcVars, decVars, retVars
<1>10. CASE GetProtected(t)
  BY <1>0, <1>10 DEF GetProtected, Loaded, Run, Goto, gcVars, decVars, retVars
<1>11. CASE Publish(t)
  BY <1>0, <1>11 DEF Publish, Goto, gcVars, decVars, retVars
<1>12. CASE GetNewIdx(t)
  BY <1>0, <1>12 DEF GetNewIdx, Goto, gcVars, decVars, retVars
<1>13. CASE ProtectPtr(t)
  BY <1>0, <1>13 DEF ProtectPtr, Goto, gcVars, decVars, retVars
<1>14. CASE Clear(t)
  BY <1>0, <1>14 DEF Clear, Goto, gcVars, decVars, retVars
<1>15. CASE ClearCas(t)
  BY <1>0, <1>15 DEF ClearCas, CasRetired, Retire, Goto, gcVars, decVars, retVars
<1>16. CASE IncrementOrc(t)
  BY <1>0, <1>16 DEF IncrementOrc, Goto, gcVars, decVars, retVars
<1>17. CASE IncrementCas(t)
  BY <1>0, <1>17 DEF IncrementCas, CasRetired, Retire, Goto, gcVars, decVars, retVars
<1>18. CASE Exchange(t)
  BY <1>0, <1>18 DEF Exchange, Goto, gcVars, decVars, retVars
<1>19. CASE DecrementProtect(t)
  BY <1>0, <1>19 DEF DecrementProtect, Goto, gcVars, decVars, retVars
<1>20. CASE DecrementOrc(t)
  BY <1>0, <1>20 DEF DecrementOrc, DecrementTest, Goto, gcVars, decVars, retVars
<1>21. CASE ResetRetcnt(t)
  BY <1>0, <1>21 DEF ResetRetcnt, DecrementTest, Goto, gcVars, decVars, retVars
<1>22. CASE DecrementCas(t)
  BY <1>0, <1>22 DEF DecrementCas, CasRetired, Retire, Goto, gcVars, decVars, retVars
<1>23. CASE RetireOne(t)
  BY <1>0, <1>23 DEF RetireOne, Goto, gcVars, decVars, retVars
<1>24. CASE Seek(t)
  BY <1>0, <1>24 DEF Seek, SeekNext, Goto, gcVars, decVars, retVars
<1>25. CASE SeekHP(t)
  BY <1>0, <1>25 DEF SeekHP, SeekNext, Goto, gcVars, decVars, retVars
<1>26. CASE TakeHandover(t)
  BY <1>0, <1>26 DEF TakeHandover, Retire, Goto, gcVars, decVars, retVars
<1>27. CASE RetireSelf(t)
  BY <1>0, <1>27 DEF RetireSelf, Continue, Goto, gcVars, decVars, retVars
<1>28. CASE RetireLoad(t)
  BY <1>0, <1>28 DEF RetireLoad, Goto, gcVars, decVars, retVars
<1>29. CASE ClearBitProtect(t)
  BY <1>0, <1>29 DEF ClearBitProtect, Goto, gcVars, decVars, retVars
<1>30. CASE ClearBit(t)
  BY <1>0, <1>30 DEF ClearBit, Goto, gcVars, decVars, retVars
<1>31. CASE ClearBitCas(t)
  BY <1>0, <1>31 DEF ClearBitCas, Goto, gcVars, decVars, retVars
<1>32. CASE ClearBitOk(t)
  BY <1>0, <1>32 DEF ClearBitOk, Goto, gcVars, decVars, retVars
<1>33. CASE ClearBitFail(t)
  BY <1>0, <1>33 DEF ClearBitFail, Continue, Goto, gcVars, decVars, retVars
<1>34. CASE ScanThreads(t)
  BY <1>0, <1>34 DEF ScanThreads, Goto, gcVars, decVars, retVars
<1>35. CASE ScanHPs(t)
  BY <1>0, <1>35 DEF ScanHPs, Goto, gcVars, decVars, retVars
<1>36. CASE Scan(t)
  BY <1>0, <1>36 DEF Scan, Goto, gcVars, decVars, retVars
<1>37. CASE HandOver(t)
  BY <1>0, <1>37 DEF HandOver, Continue, Goto, gcVars, decVars, retVars
<1>38. CASE CheckWord(t)
  BY <1>0, <1>38 DEF CheckWord, Goto, gcVars, decVars, retVars
<1>39. CASE Destroy(t)
  BY <1>0, <1>39 DEF Destroy, Goto, gcVars, decVars, retVars
<1>40. CASE FreeObj(t)
  BY <1>0, <1>40 DEF FreeObj, Continue, Goto, gcVars, decVars, retVars
<1>41. CASE Sweep(t)
  BY <1>0, <1>41 DEF Sweep, Retire, Goto, gcVars, decVars, retVars
<1> QED  BY <1>1, <1>2, <1>3, <1>3a, <1>4, <1>5, <1>6, <1>7, <1>8, <1>9, <1>10, <1>11,
            <1>12, <1>13, <1>14, <1>15, <1>16, <1>17, <1>18, <1>19, <1>20, <1>21,
            <1>22, <1>23, <1>24, <1>25, <1>26, <1>27, <1>28, <1>29, <1>30, <1>31,
            <1>32, <1>33, <1>34, <1>35, <1>36, <1>37, <1>38, <1>39, <1>40, <1>41 DEF
            Begin, Call

\* A CAS that sets BRETIRED, and the retire() that may follow.
LEMMA CasStep ==
    ASSUME TypeOK, NEW t \in Threads, NEW o \in Ptr, NEW w, NEW l, CasRetired(t, o, w, l),
           LoopInv(t), OperandInv(t), pc[t] # "self",
           IF retireStarted[t] THEN l \in LoopSteps \cup DecSteps ELSE l \in Returns,
           Ready(t, l, Level(t)),
           \/ dec'[t] = dec[t]
           \/ /\ l = (IF retireStarted[t] THEN "free" ELSE "idle")
              /\ retireStarted[t] => dec'[t][0] = dec[t][0]
    PROVE  LoopInv(t)' /\ OperandInv(t)'
<1>0. ProgramType /\ RetType
  BY DEF TypeOK
<1>1. CASE Retire(t, o, l)
  BY <1>0, <1>1, RetireStep
<1>2. CASE Goto(t, l) /\ UNCHANGED retVars
  <2>1. Kept(t) /\ l # "self" /\ (~retireStarted[t] => l \notin LoopSteps)
    BY <1>2, UnchangedKept, LabelFacts
  <2>2. CASE dec'[t] = dec[t]
    BY <1>0, <1>2, <2>1, <2>2, GotoStep
  <2>3. CASE dec'[t] # dec[t]
    <3>1. l \notin DecSteps /\ l \in {IF retireStarted[t] THEN "free" ELSE "idle"}
      BY <2>3 DEF DecSteps
    <3> QED  BY <1>0, <1>2, <2>1, <2>3, <3>1, DecStep
  <2> QED  BY <2>2, <2>3
<1> QED  BY <1>1, <1>2 DEF CasRetired

\* The step after incrementOrc() is ready.
LEMMA AfterIncReady ==
    ASSUME NEW t \in Threads, Ready(t, "inc", 0) \/ Ready(t, "inccas", 0), Level(t) = 0
    PROVE  /\ AfterInc(t) \in Returns /\ AfterInc(t) \notin LoopSteps
           /\ Ready(t, AfterInc(t), Level(t))
  BY DEF AfterInc, Ready, Returns, LoopSteps, DecSteps

\* What a thread knows of its own locals survives its own steps.
LEMMA OwnStep ==
    ASSUME LocalsInv, NEW t \in Threads, Begin(t) \/ Call(t)
    PROVE  LoopInv(t)' /\ OperandInv(t)'
<1>0. /\ TypeOK /\ ProgramType /\ DecType /\ RetType
      /\ LoopInv(t) /\ OperandInv(t)
  BY DEF LocalsInv, TypeOK
<1>1. CASE Register(t)
  <2>1. Frame(t)
    BY <1>1 DEF Register, Frame, gcVars, decVars, retVars
  <2> QED  BY <1>0, <2>1, FrameKeeps
<1>2. CASE MakeOrc(t)
  <2>1. PICK o \in Obj : Run(t, [NoOp EXCEPT !.ptr = o, !.lnk = FALSE], "newidx")
    BY <1>2 DEF MakeOrc
  <2>2. Kept(t) /\ pc[t] = "idle"
    BY <1>2, UnchangedKept DEF MakeOrc, Start, gcVars
  <2>4. Ready(t, "newidx", 0)'
    BY DEF Ready, DecSteps
  <2> QED  BY <1>0, <2>1, <2>2, <2>4, RunStep DEF LoopSteps
<1>3. CASE Load(t)
  <2>1. PICK c \in Cell : Run(t, [NoOp EXCEPT !.kind = "load", !.cell = c], "read")
    BY <1>0, <1>3, HeldType DEF Load
  <2>2. Kept(t) /\ pc[t] = "idle"
    BY <1>3, UnchangedKept DEF Load, Start, gcVars
  <2>3. op'[t].cell = c
    BY <1>0, <2>1 DEF Run, ProgramType, NoOp
  <2>4. Ready(t, "read", 0)'
    BY <2>3 DEF Ready, DecSteps
  <2> QED  BY <1>0, <2>1, <2>2, <2>4, RunStep DEF LoopSteps
<1>3a. CASE Assign(t)
  <2>1. PICK c \in Cell, i \in PtrIdx, o \in Ptr :
          Run(t, [NoOp EXCEPT !.kind = "assign", !.cell = c, !.from = i, !.old = o], "read")
    BY <1>0, <1>3a, HeldType, LocalTypes DEF Assign, Ptr
  <2>2. Kept(t) /\ pc[t] = "idle"
    BY <1>3a, UnchangedKept DEF Assign, Start, gcVars
  <2>3. op'[t].cell = c
    BY <1>0, <2>1 DEF Run, ProgramType, NoOp
  <2>4. Ready(t, "read", 0)'
    BY <2>3 DEF Ready, DecSteps
  <2> QED  BY <1>0, <2>1, <2>2, <2>4, RunStep DEF LoopSteps
<1>4. CASE Store(t)
  <2>1. PICK c \in Cell :
          \/ \E v \in Obj : Run(t, [NoOp EXCEPT !.kind = "store", !.cell = c, !.new = v], "inc")
          \/ Run(t, [NoOp EXCEPT !.kind = "store", !.cell = c], "xchg")
    BY <1>0, <1>4, HeldType DEF Store
  <2>2. Kept(t) /\ pc[t] = "idle"
    BY <1>4, UnchangedKept DEF Store, Start, gcVars
  <2>3. ASSUME NEW v \in Obj,
               Run(t, [NoOp EXCEPT !.kind = "store", !.cell = c, !.new = v], "inc")
        PROVE  LoopInv(t)' /\ OperandInv(t)'
    <3>1. op'[t].cell = c /\ op'[t].new = v /\ op'[t].kind = "store"
      BY <1>0, <2>3 DEF Run, ProgramType, NoOp
    <3>2. Ready(t, "inc", 0)'
      BY <3>1 DEF Ready, DecSteps
    <3> QED  BY <1>0, <2>2, <2>3, <3>2, RunStep DEF LoopSteps
  <2>4. ASSUME Run(t, [NoOp EXCEPT !.kind = "store", !.cell = c], "xchg")
        PROVE  LoopInv(t)' /\ OperandInv(t)'
    <3>1. op'[t].cell = c
      BY <1>0, <2>4 DEF Run, ProgramType, NoOp
    <3>2. Ready(t, "xchg", 0)'
      BY <3>1 DEF Ready, DecSteps
    <3> QED  BY <1>0, <2>2, <2>4, <3>2, RunStep DEF LoopSteps
  <2> QED  BY <2>1, <2>3, <2>4
<1>5. CASE CompareExchange(t)
  <2>1. PICK c \in Cell, e \in Ptr, d \in Ptr :
          /\ e # Null \/ d # Null
          /\ dec' = [dec EXCEPT ![t][0].ptr = e]
          /\ Run(t, [NoOp EXCEPT !.kind = "cas", !.cell = c, !.new = d, !.old = e],
                 IF d = Null THEN "decprotect" ELSE "inc")
    BY <1>0, <1>5, HeldType DEF CompareExchange, Ptr
  <2> DEFINE l == IF d = Null THEN "decprotect" ELSE "inc"
  <2>2. Kept(t) /\ pc[t] = "idle"
    BY <1>5, UnchangedKept DEF CompareExchange, Start
  <2>3. op'[t].new = d /\ op'[t].kind = "cas" /\ op'[t].old = e
    BY <1>0, <2>1 DEF Run, ProgramType, NoOp
  <2>4. dec'[t][0].ptr = e
    BY <1>0, <2>1 DEF DecType
  <2>5. Ready(t, l, 0)'
    BY <2>1, <2>3, <2>4 DEF Ready, DecSteps, Ptr
  <2>6. l \notin LoopSteps /\ l # "self"
    BY DEF LoopSteps
  <2> QED  BY <1>0, <2>1, <2>2, <2>5, <2>6, RunStep
<1>6. CASE PoisonCell(t)
  <2>1. PICK l \in {"decprotect", "idle"} :
          Goto(t, l) /\ (l = "decprotect" => \E o \in Obj : dec' = [dec EXCEPT ![t][0].ptr = o])
    BY <1>6 DEF PoisonCell
  <2>2. Kept(t) /\ pc[t] = "idle"
    BY <1>6, UnchangedKept DEF PoisonCell, Start
  <2>3. ~retireStarted[t] /\ Level(t) = 0
    BY <1>0, <2>2 DEF LoopInv, LoopSteps, DecSteps, Level
  <2>4. l \in DecSteps => dec'[t][0].ptr \in Obj
    BY <1>0, <2>1 DEF DecType, DecSteps
  <2>5. l \in DecSteps \cup {"idle"}
    BY DEF DecSteps
  <2> QED  BY <1>0, <2>1, <2>2, <2>3, <2>4, <2>5, DecStep
<1>7. CASE CopyPtr(t)
  <2>1. PICK i \in PtrIdx :
          /\ slot[t][i].ptr # Null
          /\ Run(t, [NoOp EXCEPT !.kind = "copy", !.ptr = slot[t][i].ptr,
                                  !.lnk = slot[t][i].lnk, !.from = i + 1], "newidx")
    BY <1>7 DEF CopyPtr
  <2>2. Kept(t) /\ pc[t] = "idle"
    BY <1>7, UnchangedKept DEF CopyPtr, Start, gcVars
  <2>4. Ready(t, "newidx", 0)'
    BY DEF Ready, DecSteps
  <2> QED  BY <1>0, <2>1, <2>2, <2>4, RunStep DEF LoopSteps
<1>8. CASE DropPtr(t)
  <2>1. PICK i \in PtrIdx :
          /\ slot[t][i].ptr # Null
          /\ \/ UNCHANGED <<pc, op>>
             \/ Run(t, [NoOp EXCEPT !.old = slot[t][i].ptr, !.from = i], "clear")
    BY <1>8 DEF DropPtr
  <2>2. Kept(t) /\ pc[t] = "idle" /\ dec'[t] = dec[t]
    BY <1>8, UnchangedKept DEF DropPtr, gcVars, decVars
  <2>3. CASE UNCHANGED <<pc, op>>
    BY <1>0, <2>2, <2>3, FrameKeeps DEF Frame, Kept
  <2>4. CASE Run(t, [NoOp EXCEPT !.old = slot[t][i].ptr, !.from = i], "clear")
    <3>1. op'[t].old = slot[t][i].ptr /\ slot[t][i].ptr \in Obj
      BY <1>0, <2>1, <2>4, LocalTypes DEF Run, ProgramType, NoOp, Ptr
    <3>2. Ready(t, "clear", 0)'
      BY <3>1 DEF Ready, DecSteps
    <3> QED  BY <1>0, <2>2, <2>4, <3>2, RunStep DEF LoopSteps
  <2> QED  BY <2>1, <2>3, <2>4
<1>9. CASE Shutdown(t)
  <2>1. PICK l \in {"sweep", "down"} : Goto(t, l)
    BY <1>9 DEF Shutdown
  <2>2. Kept(t) /\ pc[t] = "idle" /\ dec'[t] = dec[t]
    BY <1>9, UnchangedKept DEF Shutdown, decVars
  <2>3. ~retireStarted[t] /\ l \notin LoopSteps /\ Ready(t, l, Level(t))
    BY <1>0, <2>2 DEF LoopInv, LoopSteps, DecSteps, Ready
  <2> QED  BY <1>0, <2>1, <2>2, <2>3, GotoStep
<1>10. CASE GetProtected(t)
  <2>0. Kept(t) /\ pc[t] = "read" /\ dec'[t] = dec[t]
    BY <1>10, UnchangedKept DEF GetProtected, gcVars, decVars
  <2>1. op[t].cell \in Cell /\ ~retireStarted[t]
    BY <1>0, <2>0 DEF OperandInv, Ready, LoopInv, LoopSteps, DecSteps
  <2>2. CASE link[op[t].cell] # op[t].ptr
    <3>1. Run(t, [op[t] EXCEPT !.ptr = link[op[t].cell]], "publish")
      BY <1>10, <2>2 DEF GetProtected
    <3>2. op'[t].cell = op[t].cell
      BY <1>0, <3>1, RunLocals, LocalTypes DEF Operation
    <3>3. Ready(t, "publish", 0)'
      BY <2>1, <3>2 DEF Ready, DecSteps
    <3> QED  BY <1>0, <2>0, <3>1, <3>3, RunStep DEF LoopSteps
  <2>3. CASE link[op[t].cell] = op[t].ptr
    <3>1. PICK l \in {"newidx", "clear"} : Goto(t, l) /\ (l = "clear" => op[t].old # Null)
      BY <1>10, <2>3 DEF GetProtected, Loaded
    <3>2. l \notin LoopSteps /\ Ready(t, l, Level(t))
      BY <1>0, <3>1, LocalTypes DEF LoopSteps, DecSteps, Ready, Ptr
    <3> QED  BY <1>0, <2>0, <2>1, <3>1, <3>2, GotoStep
  <2> QED  BY <2>2, <2>3
<1>11. CASE Publish(t)
  <2>1. PICK l \in {"read"} : Goto(t, l)
    BY <1>11 DEF Publish
  <2>2. Kept(t) /\ dec'[t] = dec[t]
    BY <1>11, UnchangedKept DEF Publish, Kept, gcVars, decVars, retVars
  <2>3. /\ pc[t] # "self" /\ l # "self"
        /\ IF retireStarted[t] THEN l \in LoopSteps \cup DecSteps ELSE l \notin LoopSteps
        /\ Ready(t, l, Level(t))
    BY <1>0, <1>11, <2>1 DEF Publish, LoopInv, OperandInv, Ready, LoopSteps, DecSteps
  <2> QED  BY <1>0, <2>1, <2>2, <2>3, GotoStep
<1>12. CASE GetNewIdx(t)
  <2>1. PICK l \in {"protect"} : Goto(t, l)
    BY <1>12 DEF GetNewIdx
  <2>2. Kept(t) /\ dec'[t] = dec[t]
    BY <1>12, UnchangedKept DEF GetNewIdx, Kept, gcVars, decVars, retVars
  <2>3. /\ pc[t] # "self" /\ l # "self"
        /\ IF retireStarted[t] THEN l \in LoopSteps \cup DecSteps ELSE l \notin LoopSteps
        /\ Ready(t, l, Level(t))
    BY <1>0, <1>12, <2>1 DEF GetNewIdx, LoopInv, OperandInv, Ready, LoopSteps, DecSteps
  <2> QED  BY <1>0, <2>1, <2>2, <2>3, GotoStep
<1>13. CASE ProtectPtr(t)
  <2>1. PICK l \in {"idle"} : Goto(t, l)
    BY <1>13 DEF ProtectPtr
  <2>2. Kept(t) /\ dec'[t] = dec[t]
    BY <1>13, UnchangedKept DEF ProtectPtr, Kept, gcVars, decVars, retVars
  <2>3. /\ pc[t] # "self" /\ l # "self"
        /\ IF retireStarted[t] THEN l \in LoopSteps \cup DecSteps ELSE l \notin LoopSteps
        /\ Ready(t, l, Level(t))
    BY <1>0, <1>13, <2>1 DEF ProtectPtr, LoopInv, OperandInv, Ready, LoopSteps, DecSteps
  <2> QED  BY <1>0, <2>1, <2>2, <2>3, GotoStep
<1>14. CASE Clear(t)
  <2>1. PICK l \in {"clearcas", "newidx", "idle"} : Goto(t, l)
    BY <1>14 DEF Clear, AfterClear
  <2>2. Kept(t) /\ dec'[t] = dec[t]
    BY <1>14, UnchangedKept DEF Clear, Kept, gcVars, decVars, retVars
  <2>3. /\ pc[t] # "self" /\ l # "self"
        /\ IF retireStarted[t] THEN l \in LoopSteps \cup DecSteps ELSE l \notin LoopSteps
        /\ Ready(t, l, Level(t))
    BY <1>0, <1>14, <2>1 DEF Clear, LoopInv, OperandInv, Ready, LoopSteps, DecSteps
  <2> QED  BY <1>0, <2>1, <2>2, <2>3, GotoStep
<1>15. CASE ClearCas(t)
  <2>1. CasRetired(t, op[t].old, lorc[t], AfterClear(t))
    BY <1>15 DEF ClearCas
  <2>2. dec'[t] = dec[t] /\ pc[t] = "clearcas"
    BY <1>15 DEF ClearCas, decVars
  <2>3. ~retireStarted[t] /\ op[t].old \in Ptr
    BY <1>0, <2>2 DEF LoopInv, LoopSteps, DecSteps, OperandInv, Ready, Ptr
  <2>4. AfterClear(t) \in Returns /\ Ready(t, AfterClear(t), Level(t))
    BY DEF AfterClear, Returns, Ready, DecSteps
  <2> QED  BY <1>0, <2>1, <2>2, <2>3, <2>4, CasStep
<1>16. CASE IncrementOrc(t)
  <2>1. PICK l \in {"inccas", AfterInc(t)} : Goto(t, l)
    BY <1>16 DEF IncrementOrc
  <2>2. Kept(t) /\ dec'[t] = dec[t] /\ pc[t] = "inc"
    BY <1>16, UnchangedKept DEF IncrementOrc, decVars
  <2>3. ~retireStarted[t] /\ Level(t) = 0 /\ Ready(t, "inc", 0)
    BY <1>0, <2>2 DEF LoopInv, LoopSteps, DecSteps, Level, OperandInv
  <2>4. l # "self" /\ l \notin LoopSteps /\ Ready(t, l, Level(t))
    BY <2>3, AfterIncReady DEF LoopSteps, Ready, DecSteps, Returns
  <2> QED  BY <1>0, <2>1, <2>2, <2>3, <2>4, GotoStep
<1>17. CASE IncrementCas(t)
  <2>1. CasRetired(t, op[t].new, lorc[t], AfterInc(t))
    BY <1>17 DEF IncrementCas
  <2>2. dec'[t] = dec[t] /\ pc[t] = "inccas"
    BY <1>17 DEF IncrementCas, decVars
  <2>3. ~retireStarted[t] /\ Level(t) = 0 /\ Ready(t, "inccas", 0) /\ op[t].new \in Ptr
    BY <1>0, <2>2, LocalTypes DEF LoopInv, LoopSteps, DecSteps, Level, OperandInv
  <2>4. AfterInc(t) \in Returns /\ Ready(t, AfterInc(t), Level(t))
    BY <2>3, AfterIncReady
  <2> QED  BY <1>0, <2>1, <2>2, <2>3, <2>4, CasStep
<1>18. CASE Exchange(t)
  <2>1. PICK l \in {"decprotect", "idle"} :
          Goto(t, l) /\ (l = "decprotect" => \E o \in Obj : dec' = [dec EXCEPT ![t][0].ptr = o])
    BY <1>18 DEF Exchange
  <2>2. Kept(t) /\ pc[t] = "xchg"
    BY <1>18, UnchangedKept DEF Exchange
  <2>3. ~retireStarted[t] /\ Level(t) = 0
    BY <1>0, <2>2 DEF LoopInv, LoopSteps, DecSteps, Level
  <2>4. l \in DecSteps => dec'[t][0].ptr \in Obj
    BY <1>0, <2>1 DEF DecType, DecSteps
  <2>5. l \in DecSteps \cup {"idle"}
    BY DEF DecSteps
  <2> QED  BY <1>0, <2>1, <2>2, <2>3, <2>4, <2>5, DecStep
<1>19. CASE DecrementProtect(t)
  <2>1. PICK l \in {"decfaa"} : Goto(t, l)
    BY <1>19 DEF DecrementProtect
  <2>2. Kept(t) /\ dec'[t] = dec[t]
    BY <1>19, UnchangedKept DEF DecrementProtect, Kept, gcVars, decVars, retVars
  <2>3. /\ pc[t] # "self" /\ l # "self"
        /\ IF retireStarted[t] THEN l \in LoopSteps \cup DecSteps ELSE l \notin LoopSteps
        /\ Ready(t, l, Level(t))
    BY <1>0, <1>19, <2>1 DEF DecrementProtect, LoopInv, OperandInv, Ready, LoopSteps, DecSteps
  <2> QED  BY <1>0, <2>1, <2>2, <2>3, GotoStep
<1>20. CASE DecrementOrc(t)
  <2> DEFINE o == dec[t][Level(t)].ptr
             d == [ptr |-> o, word |-> [orc[o] EXCEPT !.cnt = @ - 1, !.seq = @ + 1]]
  <2>1. pc[t] = "decfaa" /\ Kept(t)
    BY <1>20, UnchangedKept DEF DecrementOrc
  <2>2. o \in Obj /\ d.ptr = o
    BY <1>0, <2>1 DEF OperandInv, Ready, DecSteps
  <2>3. \/ dec' = [dec EXCEPT ![t][Level(t)] = d] /\ Goto(t, "retireOne")
        \/ DecrementTest(t, d)
    BY <1>20 DEF DecrementOrc
  <2> HIDE DEF d
  <2>4. CASE dec' = [dec EXCEPT ![t][Level(t)] = d] /\ Goto(t, "retireOne")
    <3>1. Level(t) \in {0, 1} /\ (retireStarted[t] => Level(t) = 1)
      BY DEF Level
    <3>2. dec'[t][Level(t)] = d /\ (retireStarted[t] => dec'[t][0] = dec[t][0])
      BY <1>0, <2>4, <3>1 DEF DecType
    <3> QED  BY <1>0, <2>1, <2>2, <2>4, <3>2, DecStep DEF DecSteps
  <2>5. CASE DecrementTest(t, d)
    BY <1>0, <2>1, <2>2, <2>5, TestStep
  <2> QED  BY <2>3, <2>4, <2>5
<1>21. CASE ResetRetcnt(t)
  <2>1. pc[t] = "reset" /\ Kept(t) /\ DecrementTest(t, dec[t][Level(t)])
    BY <1>21, UnchangedKept DEF ResetRetcnt
  <2>2. dec[t][Level(t)].ptr \in Obj
    BY <1>0, <2>1 DEF OperandInv, Ready, DecSteps
  <2> QED  BY <1>0, <2>1, <2>2, TestStep
<1>22. CASE DecrementCas(t)
  <2> DEFINE d == dec[t][Level(t)]
  <2>1. /\ pc[t] = "deccas" /\ CasRetired(t, d.ptr, d.word, AfterDec(t))
        /\ dec' = [dec EXCEPT ![t][Level(t)] = NoDec]
    BY <1>22 DEF DecrementCas
  <2>2. Level(t) \in {0, 1} /\ (retireStarted[t] => Level(t) = 1)
    BY DEF Level
  <2>3. retireStarted[t] => dec'[t][0] = dec[t][0]
    BY <1>0, <2>1, <2>2 DEF DecType
  <2>4. /\ AfterDec(t) = (IF retireStarted[t] THEN "free" ELSE "idle")
        /\ IF retireStarted[t] THEN AfterDec(t) \in LoopSteps \cup DecSteps
                               ELSE AfterDec(t) \in Returns
        /\ Ready(t, AfterDec(t), Level(t))
    BY DEF AfterDec, LoopSteps, Returns, Ready, DecSteps
  <2>5. d.ptr \in Ptr
    BY <1>0, LocalTypes
  <2> QED  BY <1>0, <2>1, <2>3, <2>4, <2>5, CasStep
<1>23. CASE RetireOne(t)
  <2>1. PICK l \in {"seek", "reset"} : Goto(t, l)
    BY <1>23 DEF RetireOne
  <2>2. Kept(t) /\ dec'[t] = dec[t]
    BY <1>23, UnchangedKept DEF RetireOne, Kept, gcVars, decVars, retVars
  <2>3. /\ pc[t] # "self" /\ l # "self"
        /\ IF retireStarted[t] THEN l \in LoopSteps \cup DecSteps ELSE l \notin LoopSteps
        /\ Ready(t, l, Level(t))
    BY <1>0, <1>23, <2>1 DEF RetireOne, LoopInv, OperandInv, Ready, LoopSteps, DecSteps
  <2> QED  BY <1>0, <2>1, <2>2, <2>3, GotoStep
<1>24. CASE Seek(t)
  <2>1. PICK l \in {"seekhp", "reset", "seek"} : Goto(t, l)
    BY <1>24 DEF Seek, SeekNext
  <2>2. Kept(t) /\ dec'[t] = dec[t]
    BY <1>24, UnchangedKept DEF Seek, Kept, SeekNext, gcVars, decVars, retVars
  <2>3. /\ pc[t] # "self" /\ l # "self"
        /\ IF retireStarted[t] THEN l \in LoopSteps \cup DecSteps ELSE l \notin LoopSteps
        /\ Ready(t, l, Level(t))
    BY <1>0, <1>24, <2>1 DEF Seek, LoopInv, OperandInv, Ready, LoopSteps, DecSteps
  <2> QED  BY <1>0, <2>1, <2>2, <2>3, GotoStep
<1>25. CASE SeekHP(t)
  <2>1. PICK l \in {"take", "reset", "seek"} : Goto(t, l)
    BY <1>25 DEF SeekHP, SeekNext
  <2>2. Kept(t) /\ dec'[t] = dec[t]
    BY <1>25, UnchangedKept DEF SeekHP, Kept, SeekNext, gcVars, decVars, retVars
  <2>3. /\ pc[t] # "self" /\ l # "self"
        /\ IF retireStarted[t] THEN l \in LoopSteps \cup DecSteps ELSE l \notin LoopSteps
        /\ Ready(t, l, Level(t))
    BY <1>0, <1>25, <2>1 DEF SeekHP, LoopInv, OperandInv, Ready, LoopSteps, DecSteps
  <2> QED  BY <1>0, <2>1, <2>2, <2>3, GotoStep
<1>26. CASE TakeHandover(t)
  <2>1. PICK p \in Place : Retire(t, handovers[p[1]][p[2]], "reset")
    BY <1>0, <1>26, LocalTypes DEF TakeHandover
  <2>2. pc[t] = "take" /\ dec'[t] = dec[t] /\ handovers[p[1]][p[2]] \in Ptr
    BY <1>0, <1>26, LocalTypes DEF TakeHandover, decVars, Place
  <2>3. /\ "reset" \in Returns /\ "reset" \in DecSteps
        /\ Ready(t, "reset", Level(t))
    BY <1>0, <2>2 DEF Returns, DecSteps, OperandInv, Ready
  <2> QED  BY <1>0, <2>1, <2>2, <2>3, RetireStep
<1>27. CASE RetireSelf(t)
  <2>1. PICK p \in Ptr : Continue(t, p)
    BY <1>0, <1>27, LocalTypes DEF RetireSelf, Place, Ptr, OwnHp
  <2>2. dec'[t] = dec[t] /\ (retireStarted[t] \/ pc[t] = "self")
    BY <1>0, <1>27 DEF RetireSelf, decVars, LoopInv, LoopSteps
  <2> QED  BY <1>0, <2>1, <2>2, ContinueStep
<1>28. CASE RetireLoad(t)
  <2>1. PICK l \in {"check", "threads", "cbhp"} : Goto(t, l)
    BY <1>28 DEF RetireLoad, TryHandover
  <2>2. Kept(t) /\ dec'[t] = dec[t]
    BY <1>28, UnchangedKept DEF RetireLoad, Kept, TryHandover, gcVars, decVars, retVars
  <2>3. /\ pc[t] # "self" /\ l # "self"
        /\ IF retireStarted[t] THEN l \in LoopSteps \cup DecSteps ELSE l \notin LoopSteps
        /\ Ready(t, l, Level(t))
    BY <1>0, <1>28, <2>1 DEF RetireLoad, LoopInv, OperandInv, Ready, LoopSteps, DecSteps
  <2> QED  BY <1>0, <2>1, <2>2, <2>3, GotoStep
<1>29. CASE ClearBitProtect(t)
  <2>1. PICK l \in {"cbfaa"} : Goto(t, l)
    BY <1>29 DEF ClearBitProtect
  <2>2. Kept(t) /\ dec'[t] = dec[t]
    BY <1>29, UnchangedKept DEF ClearBitProtect, Kept, gcVars, decVars, retVars
  <2>3. /\ pc[t] # "self" /\ l # "self"
        /\ IF retireStarted[t] THEN l \in LoopSteps \cup DecSteps ELSE l \notin LoopSteps
        /\ Ready(t, l, Level(t))
    BY <1>0, <1>29, <2>1 DEF ClearBitProtect, LoopInv, OperandInv, Ready, LoopSteps, DecSteps
  <2> QED  BY <1>0, <2>1, <2>2, <2>3, GotoStep
<1>30. CASE ClearBit(t)
  <2>1. PICK l \in {"cbcas", "cbfail"} : Goto(t, l)
    BY <1>30 DEF ClearBit
  <2>2. Kept(t) /\ dec'[t] = dec[t]
    BY <1>30, UnchangedKept DEF ClearBit, Kept, gcVars, decVars, retVars
  <2>3. /\ pc[t] # "self" /\ l # "self"
        /\ IF retireStarted[t] THEN l \in LoopSteps \cup DecSteps ELSE l \notin LoopSteps
        /\ Ready(t, l, Level(t))
    BY <1>0, <1>30, <2>1 DEF ClearBit, LoopInv, OperandInv, Ready, LoopSteps, DecSteps
  <2> QED  BY <1>0, <2>1, <2>2, <2>3, GotoStep
<1>31. CASE ClearBitCas(t)
  <2>1. PICK l \in {"cbok", "cbfail"} : Goto(t, l)
    BY <1>31 DEF ClearBitCas
  <2>2. Kept(t) /\ dec'[t] = dec[t]
    BY <1>31, UnchangedKept DEF ClearBitCas, Kept, gcVars, decVars, retVars
  <2>3. /\ pc[t] # "self" /\ l # "self"
        /\ IF retireStarted[t] THEN l \in LoopSteps \cup DecSteps ELSE l \notin LoopSteps
        /\ Ready(t, l, Level(t))
    BY <1>0, <1>31, <2>1 DEF ClearBitCas, LoopInv, OperandInv, Ready, LoopSteps, DecSteps
  <2> QED  BY <1>0, <2>1, <2>2, <2>3, GotoStep
<1>32. CASE ClearBitOk(t)
  <2>1. PICK l \in {"load", "check", "threads"} : Goto(t, l)
    BY <1>32 DEF ClearBitOk, TryHandover
  <2>2. Kept(t) /\ dec'[t] = dec[t]
    BY <1>32, UnchangedKept DEF ClearBitOk, Kept, TryHandover, gcVars, decVars, retVars
  <2>3. /\ pc[t] # "self" /\ l # "self"
        /\ IF retireStarted[t] THEN l \in LoopSteps \cup DecSteps ELSE l \notin LoopSteps
        /\ Ready(t, l, Level(t))
    BY <1>0, <1>32, <2>1 DEF ClearBitOk, LoopInv, OperandInv, Ready, LoopSteps, DecSteps
  <2> QED  BY <1>0, <2>1, <2>2, <2>3, GotoStep
<1>33. CASE ClearBitFail(t)
  <2>1. PICK p \in Ptr : Continue(t, p)
    BY <1>0, <1>33, LocalTypes DEF ClearBitFail, Place, Ptr, OwnHp
  <2>2. dec'[t] = dec[t] /\ (retireStarted[t] \/ pc[t] = "self")
    BY <1>0, <1>33 DEF ClearBitFail, decVars, LoopInv, LoopSteps
  <2> QED  BY <1>0, <2>1, <2>2, ContinueStep
<1>34. CASE ScanThreads(t)
  <2>1. PICK l \in {"hps"} : Goto(t, l)
    BY <1>34 DEF ScanThreads
  <2>2. Kept(t) /\ dec'[t] = dec[t]
    BY <1>34, UnchangedKept DEF ScanThreads, Kept, gcVars, decVars, retVars
  <2>3. /\ pc[t] # "self" /\ l # "self"
        /\ IF retireStarted[t] THEN l \in LoopSteps \cup DecSteps ELSE l \notin LoopSteps
        /\ Ready(t, l, Level(t))
    BY <1>0, <1>34, <2>1 DEF ScanThreads, LoopInv, OperandInv, Ready, LoopSteps, DecSteps
  <2> QED  BY <1>0, <2>1, <2>2, <2>3, GotoStep
<1>35. CASE ScanHPs(t)
  <2>1. PICK l \in {"scan", "check"} : Goto(t, l)
    BY <1>35 DEF ScanHPs
  <2>2. Kept(t) /\ dec'[t] = dec[t]
    BY <1>35, UnchangedKept DEF ScanHPs, Kept, gcVars, decVars, retVars
  <2>3. /\ pc[t] # "self" /\ l # "self"
        /\ IF retireStarted[t] THEN l \in LoopSteps \cup DecSteps ELSE l \notin LoopSteps
        /\ Ready(t, l, Level(t))
    BY <1>0, <1>35, <2>1 DEF ScanHPs, LoopInv, OperandInv, Ready, LoopSteps, DecSteps
  <2> QED  BY <1>0, <2>1, <2>2, <2>3, GotoStep
<1>36. CASE Scan(t)
  <2>1. PICK l \in {"hand", "check", "scan"} : Goto(t, l)
    BY <1>36 DEF Scan
  <2>2. Kept(t) /\ dec'[t] = dec[t]
    BY <1>36, UnchangedKept DEF Scan, Kept, gcVars, decVars, retVars
  <2>3. /\ pc[t] # "self" /\ l # "self"
        /\ IF retireStarted[t] THEN l \in LoopSteps \cup DecSteps ELSE l \notin LoopSteps
        /\ Ready(t, l, Level(t))
    BY <1>0, <1>36, <2>1 DEF Scan, LoopInv, OperandInv, Ready, LoopSteps, DecSteps
  <2> QED  BY <1>0, <2>1, <2>2, <2>3, GotoStep
<1>37. CASE HandOver(t)
  <2>1. PICK p \in Ptr : Continue(t, p)
    BY <1>0, <1>37, LocalTypes DEF HandOver, Place, Ptr, OwnHp
  <2>2. dec'[t] = dec[t] /\ (retireStarted[t] \/ pc[t] = "self")
    BY <1>0, <1>37 DEF HandOver, decVars, LoopInv, LoopSteps
  <2> QED  BY <1>0, <2>1, <2>2, ContinueStep
<1>38. CASE CheckWord(t)
  <2>1. PICK l \in {"destroy", "load", "cbhp"} : Goto(t, l)
    BY <1>38 DEF CheckWord
  <2>2. Kept(t) /\ dec'[t] = dec[t]
    BY <1>38, UnchangedKept DEF CheckWord, Kept, gcVars, decVars, retVars
  <2>3. /\ pc[t] # "self" /\ l # "self"
        /\ IF retireStarted[t] THEN l \in LoopSteps \cup DecSteps ELSE l \notin LoopSteps
        /\ Ready(t, l, Level(t))
    BY <1>0, <1>38, <2>1 DEF CheckWord, LoopInv, OperandInv, Ready, LoopSteps, DecSteps
  <2> QED  BY <1>0, <2>1, <2>2, <2>3, GotoStep
<1>39. CASE Destroy(t)
  <2>1. PICK l \in {"decprotect", "free"} :
          /\ Goto(t, l)
          /\ l = "decprotect" => \E o \in Obj : dec' = [dec EXCEPT ![t][1].ptr = o]
          /\ l = "free" => dec' = dec
    BY <1>39 DEF Destroy
  <2>2. Kept(t) /\ pc[t] = "destroy"
    BY <1>39, UnchangedKept DEF Destroy
  <2>3. retireStarted[t] /\ Level(t) = 1
    BY <1>0, <2>2 DEF LoopInv, LoopSteps, Level
  <2>4. dec'[t][0] = dec[t][0] /\ (l \in DecSteps => dec'[t][1].ptr \in Obj)
    BY <1>0, <2>1 DEF DecType, DecSteps
  <2>5. l \in DecSteps \cup {"free"}
    BY DEF DecSteps
  <2> QED  BY <1>0, <2>1, <2>2, <2>3, <2>4, <2>5, DecStep
<1>40. CASE FreeObj(t)
  <2>1. PICK p \in Ptr : Continue(t, p)
    BY <1>0, <1>40, LocalTypes DEF FreeObj, Place, Ptr, OwnHp
  <2>2. dec'[t] = dec[t] /\ (retireStarted[t] \/ pc[t] = "self")
    BY <1>0, <1>40 DEF FreeObj, decVars, LoopInv, LoopSteps
  <2> QED  BY <1>0, <2>1, <2>2, ContinueStep
<1>41. CASE Sweep(t)
  <2>1. PICK p \in Place, l \in {"down", "sweep"} : Retire(t, handovers[p[1]][p[2]], l)
    BY <1>0, <1>41 DEF Sweep, TypeOK, ScanType
  <2>2. pc[t] = "sweep" /\ dec'[t] = dec[t] /\ handovers[p[1]][p[2]] \in Ptr
    BY <1>0, <1>41, LocalTypes DEF Sweep, decVars, Place
  <2>3. l \in Returns /\ ~retireStarted[t] /\ Ready(t, l, Level(t))
    BY <1>0, <2>2 DEF Returns, LoopInv, LoopSteps, DecSteps, Ready
  <2> QED  BY <1>0, <2>1, <2>2, <2>3, RetireStep
<1> QED  BY <1>1, <1>2, <1>3, <1>3a, <1>4, <1>5, <1>6, <1>7, <1>8, <1>9, <1>10, <1>11,
            <1>12, <1>13, <1>14, <1>15, <1>16, <1>17, <1>18, <1>19, <1>20, <1>21,
            <1>22, <1>23, <1>24, <1>25, <1>26, <1>27, <1>28, <1>29, <1>30, <1>31,
            <1>32, <1>33, <1>34, <1>35, <1>36, <1>37, <1>38, <1>39, <1>40, <1>41 DEF
            Begin, Call

\* The initial states have the invariant.
LEMMA InitLocals ==
    ASSUME Init
    PROVE  LocalsInv
<1>1. \A o \in Obj : Cardinality(LinksTo(InitLink, o)) \in Int
  BY LinkAssumption, FS_CardinalityType
<1>2. orc \in [Obj -> Word]
  <2>1. ASSUME NEW o \in Obj
        PROVE  [NewWord EXCEPT !.cnt = Cardinality(LinksTo(InitLink, o))] \in Word
    BY <1>1, WordFacts DEF Word, NewWord
  <2> QED  BY <2>1, WordFacts DEF Init
<1>3. ObjType
  BY <1>2, LinkAssumption DEF Init, ObjType, Ptr
<1>4. HpType
  BY HazAssumption, NAssumption DEF Init, HpType, Ptr
<1>5. ProgramType
  BY NoOpType DEF Init, ProgramType, Labels, NoPtr, Ptr
<1>6. DecType
  BY WordFacts DEF Init, DecType, NoDec, Ptr
<1>7. RetType
  BY DEF Init, RetType, Ptr, Labels
<1>8. ScanType
  BY WordFacts DEF Init, ScanType
<1>9. \A t \in Threads : LoopInv(t) /\ OperandInv(t)
  BY DEF Init, LoopInv, OperandInv, Ready, LoopSteps, DecSteps, Returns
<1> QED  BY <1>3, <1>4, <1>5, <1>6, <1>7, <1>8, <1>9 DEF LocalsInv, TypeOK

\* Steps that change nothing keep it.
LEMMA StutterLocals ==
    ASSUME LocalsInv, UNCHANGED vars
    PROVE  LocalsInv'
<1> USE DEF LocalsInv, vars, objVars, hpVars, gcVars, decVars, retVars, endVars
<1>1. TypeOK'
  BY DEF TypeOK, ObjType, HpType, ProgramType, DecType, RetType, ScanType
<1>2. ASSUME NEW u \in Threads
      PROVE  LoopInv(u)' /\ OperandInv(u)'
  BY FrameKeeps DEF Frame
<1> QED  BY <1>1, <1>2

\* Every step keeps it.
LEMMA LocalsStep ==
    ASSUME LocalsInv, [Next]_vars
    PROVE  LocalsInv'
<1>1. ASSUME NEW t \in Threads, Begin(t) \/ Call(t)
      PROVE  LocalsInv'
  <2>1. TypeOK'
    BY <1>1, TypeStep
  <2>2. LoopInv(t)' /\ OperandInv(t)'
    BY <1>1, OwnStep
  <2>3. ASSUME NEW u \in Threads \ {t}
        PROVE  LoopInv(u)' /\ OperandInv(u)'
    BY <1>1, FrameStep, FrameKeeps DEF LocalsInv
  <2> QED  BY <2>1, <2>2, <2>3 DEF LocalsInv
<1>2. CASE UNCHANGED vars
  BY <1>2, StutterLocals
<1> QED  BY <1>1, <1>2 DEF Next, Down

\* Every reachable state is well typed, and every thread knows of its own
\* locals what LoopInv and OperandInv say: the pointer that the next step of
\* decrementOrc(), of retire() or of clear() follows is never nullptr and
\* never the poison.
THEOREM LocalsInvariant == Spec => []LocalsInv
<1>1. Init => LocalsInv
  BY InitLocals
<1>2. LocalsInv /\ [Next]_vars => LocalsInv'
  BY LocalsStep
<1> QED  BY <1>1, <1>2, PTL DEF Spec

\* Every variable always has its type, for any number of threads, objects
\* and hazardous pointers: maxHPs never exceeds MAX_HAZ, and no handover, list
\* or hand ever holds the poison.
THEOREM TypeCorrect == Spec => []TypeOK
<1>1. LocalsInv => TypeOK
  BY DEF LocalsInv
<1> QED  BY <1>1, LocalsInvariant, PTL


-----------------------------------------------------------------------------

(* Who has the object: BRETIRED, and what is under retirement. *)


\* The moves of an object between the hands h, the handovers v and the
\* lists l.  An object that is nowhere goes into the hand of t.
LEMMA PutHand ==
    ASSUME NEW h \in [Threads -> Ptr], NEW v \in [Threads -> [Idx -> Ptr]],
           NEW l \in [Threads -> Seq(Obj)], NEW t \in Threads, NEW x \in Obj,
           Exclusive(h, v, l), Fresh(x, h, v, l)
    PROVE  LET g == [h EXCEPT ![t] = x] IN
           /\ Exclusive(g, v, l)
           /\ \A y \in Obj \ {x} : Fresh(y, h, v, l) => Fresh(y, g, v, l)
<1> DEFINE g == [h EXCEPT ![t] = x]
<1>1. \A u \in Threads : g[u] = IF u = t THEN x ELSE h[u]
  OBVIOUS
<1> HIDE DEF g
<1>2. HandsApart(g)
  BY <1>1 DEF Exclusive, Fresh, HandsApart, NotInHand
<1>3. \A u \in Threads : g[u] \in Obj => NotInEntry(g[u], v) /\ NotInList(g[u], l)
  BY <1>1 DEF Exclusive, Fresh
<1>4. \A y \in Obj \ {x} : NotInHand(y, h) => NotInHand(y, g)
  BY <1>1 DEF NotInHand
<1> QED  BY <1>2, <1>3, <1>4 DEF g, Exclusive, Fresh

\* The object in the hand of t leaves it and is nowhere.
LEMMA ClearHand ==
    ASSUME NEW h \in [Threads -> Ptr], NEW v \in [Threads -> [Idx -> Ptr]],
           NEW l \in [Threads -> Seq(Obj)], NEW t \in Threads,
           Exclusive(h, v, l)
    PROVE  LET g == [h EXCEPT ![t] = Null] IN
           /\ Exclusive(g, v, l)
           /\ \A y \in Obj : Fresh(y, h, v, l) \/ y = h[t] => Fresh(y, g, v, l)
<1> DEFINE g == [h EXCEPT ![t] = Null]
<1>0. Null \notin Obj
  BY ValueAssumption
<1>1. \A u \in Threads : g[u] = IF u = t THEN Null ELSE h[u]
  OBVIOUS
<1> HIDE DEF g
<1>2. HandsApart(g)
  BY <1>0, <1>1 DEF Exclusive, HandsApart
<1>3. \A u \in Threads : g[u] \in Obj => NotInEntry(g[u], v) /\ NotInList(g[u], l)
  BY <1>0, <1>1 DEF Exclusive
<1>4. \A y \in Obj : NotInHand(y, h) \/ y = h[t] => NotInHand(y, g)
  BY <1>0, <1>1 DEF NotInHand, Exclusive, HandsApart
<1> QED  BY <1>2, <1>3, <1>4 DEF g, Exclusive, Fresh

\* An object that is nowhere goes into an entry of the handovers.
LEMMA PutEntry ==
    ASSUME NEW h \in [Threads -> Ptr], NEW v \in [Threads -> [Idx -> Ptr]],
           NEW l \in [Threads -> Seq(Obj)], NEW t \in Threads, NEW i \in Idx, NEW x \in Obj,
           Exclusive(h, v, l), Fresh(x, h, v, l)
    PROVE  LET w == [v EXCEPT ![t][i] = x] IN
           /\ Exclusive(h, w, l)
           /\ \A y \in Obj \ {x} : Fresh(y, h, v, l) => Fresh(y, h, w, l)
<1> DEFINE w == [v EXCEPT ![t][i] = x]
<1>1. \A u \in Threads, j \in Idx : w[u][j] = IF u = t /\ i = j THEN x ELSE v[u][j]
  OBVIOUS
<1> HIDE DEF w
<1>2. EntriesApart(w)
  BY <1>1 DEF Exclusive, Fresh, EntriesApart, NotInEntry
<1>3. \A u \in Threads : h[u] \in Obj => NotInEntry(h[u], w)
  BY <1>1 DEF Exclusive, Fresh, NotInEntry, NotInHand
<1>4. \A u \in Threads, j \in Idx : w[u][j] \in Obj => NotInList(w[u][j], l)
  BY <1>1 DEF Exclusive, Fresh
<1>5. \A y \in Obj \ {x} : NotInEntry(y, v) => NotInEntry(y, w)
  BY <1>1 DEF NotInEntry
<1> QED  BY <1>2, <1>3, <1>4, <1>5 DEF w, Exclusive, Fresh

\* The object in an entry leaves it and is nowhere.
LEMMA ClearEntry ==
    ASSUME NEW h \in [Threads -> Ptr], NEW v \in [Threads -> [Idx -> Ptr]],
           NEW l \in [Threads -> Seq(Obj)], NEW t \in Threads, NEW i \in Idx,
           Exclusive(h, v, l)
    PROVE  LET w == [v EXCEPT ![t][i] = Null] IN
           /\ Exclusive(h, w, l)
           /\ \A y \in Obj : Fresh(y, h, v, l) \/ y = v[t][i] => Fresh(y, h, w, l)
<1> DEFINE w == [v EXCEPT ![t][i] = Null]
<1>0. Null \notin Obj
  BY ValueAssumption
<1>1. \A u \in Threads, j \in Idx : w[u][j] = IF u = t /\ i = j THEN Null ELSE v[u][j]
  OBVIOUS
<1> HIDE DEF w
<1>2. EntriesApart(w)
  <2> SUFFICES ASSUME NEW a \in Threads, NEW b \in Threads, NEW j \in Idx, NEW k \in Idx,
                      w[a][j] \in Obj, w[a][j] = w[b][k]
               PROVE  a = b /\ j = k
    BY DEF EntriesApart
  <2>1. w[a][j] = v[a][j] /\ w[b][k] = v[b][k]
    BY <1>0, <1>1
  <2>2. EntriesApart(v) /\ v[a][j] \in Obj /\ v[a][j] = v[b][k]
    BY <2>1 DEF Exclusive
  <2> QED  BY <2>2 DEF EntriesApart
<1>3. \A u \in Threads : h[u] \in Obj => NotInEntry(h[u], w)
  BY <1>0, <1>1 DEF Exclusive, NotInEntry
<1>4. \A u \in Threads, j \in Idx : w[u][j] \in Obj => NotInList(w[u][j], l)
  BY <1>0, <1>1 DEF Exclusive
<1>5. \A y \in Obj : NotInEntry(y, v) \/ y = v[t][i] => NotInEntry(y, w)
  BY <1>0, <1>1 DEF NotInEntry, Exclusive, EntriesApart
<1>6. v[t][i] \in Obj => NotInHand(v[t][i], h) /\ NotInList(v[t][i], l)
  BY DEF Exclusive, NotInHand, NotInEntry
<1> QED  BY <1>2, <1>3, <1>4, <1>5, <1>6 DEF w, Exclusive, Fresh

\* An object that is nowhere goes to the end of the list of t.
LEMMA PutList ==
    ASSUME NEW h \in [Threads -> Ptr], NEW v \in [Threads -> [Idx -> Ptr]],
           NEW l \in [Threads -> Seq(Obj)], NEW t \in Threads, NEW x \in Obj,
           Exclusive(h, v, l), Fresh(x, h, v, l)
    PROVE  LET m == [l EXCEPT ![t] = Append(@, x)] IN
           /\ Exclusive(h, v, m)
           /\ \A y \in Obj \ {x} : Fresh(y, h, v, l) => Fresh(y, h, v, m)
<1> DEFINE m == [l EXCEPT ![t] = Append(@, x)]
<1>1. \A u \in Threads \ {t} : m[u] = l[u]
  OBVIOUS
<1>a. l[t] \in Seq(Obj)
  OBVIOUS
<1>b. m[t] = Append(l[t], x)
  OBVIOUS
<1>2. m[t] = Append(l[t], x) /\ l[t] \in Seq(Obj)
  BY <1>a, <1>b
<1>3. /\ DOMAIN l[t] = 1 .. Len(l[t]) /\ DOMAIN m[t] = 1 .. Len(l[t]) + 1
      /\ m[t][Len(l[t]) + 1] = x
      /\ \A k \in DOMAIN l[t] : m[t][k] = l[t][k]
      /\ Len(l[t]) \in Nat
  BY <1>2
<1> HIDE DEF m
<1>4. \A u \in Threads : \A k \in DOMAIN m[u] :
         IF u = t /\ k = Len(l[t]) + 1 THEN m[u][k] = x
         ELSE k \in DOMAIN l[u] /\ m[u][k] = l[u][k]
  <2> TAKE u \in Threads
  <2>1. CASE u # t
    BY <2>1, <1>1
  <2>2. CASE u = t
    <3> TAKE k \in DOMAIN m[u]
    <3>1. k \in 1 .. Len(l[t]) + 1
      BY <2>2, <1>3
    <3>2. CASE k = Len(l[t]) + 1
      BY <2>2, <3>2, <1>3
    <3>3. CASE k # Len(l[t]) + 1
      <4>1. k \in DOMAIN l[t]
        BY <3>1, <3>3, <1>3
      <4> QED  BY <2>2, <3>3, <4>1, <1>3
    <3> QED  BY <3>2, <3>3
  <2> QED  BY <2>1, <2>2
<1>5. ListsApart(m)
  <2> SUFFICES ASSUME NEW u \in Threads, NEW w \in Threads,
                      NEW k \in DOMAIN m[u], NEW n \in DOMAIN m[w], m[u][k] = m[w][n]
               PROVE  u = w /\ k = n
    BY DEF ListsApart
  <2>1. \A z \in Threads : \A j \in DOMAIN l[z] : l[z][j] # x
    BY DEF Fresh, NotInList
  <2>2. CASE (u = t /\ k = Len(l[t]) + 1) \/ (w = t /\ n = Len(l[t]) + 1)
    BY <2>1, <2>2, <1>4
  <2>3. CASE ~(u = t /\ k = Len(l[t]) + 1) /\ ~(w = t /\ n = Len(l[t]) + 1)
    <3>1. k \in DOMAIN l[u] /\ n \in DOMAIN l[w] /\ l[u][k] = l[w][n]
      BY <2>3, <1>4
    <3> QED  BY <3>1 DEF Exclusive, ListsApart
  <2> QED  BY <2>2, <2>3
<1>6. \A y \in Obj \ {x} : NotInList(y, l) => NotInList(y, m)
  BY <1>4 DEF NotInList
<1>7. \A u \in Threads : h[u] \in Obj => NotInList(h[u], m)
  BY <1>6 DEF Exclusive, Fresh, NotInHand
<1>8. \A u \in Threads, j \in Idx : v[u][j] \in Obj => NotInList(v[u][j], m)
  BY <1>6 DEF Exclusive, Fresh, NotInEntry
<1> QED  BY <1>5, <1>6, <1>7, <1>8 DEF m, Exclusive, Fresh

\* The head of the list of t leaves it and is nowhere.
LEMMA PopList ==
    ASSUME NEW h \in [Threads -> Ptr], NEW v \in [Threads -> [Idx -> Ptr]],
           NEW l \in [Threads -> Seq(Obj)], NEW t \in Threads,
           Exclusive(h, v, l), l[t] # <<>>
    PROVE  LET m == [l EXCEPT ![t] = Tail(@)] IN
           /\ Exclusive(h, v, m)
           /\ Head(l[t]) \in Obj
           /\ \A y \in Obj : Fresh(y, h, v, l) \/ y = Head(l[t]) => Fresh(y, h, v, m)
<1> DEFINE m == [l EXCEPT ![t] = Tail(@)]
<1>1. \A u \in Threads \ {t} : m[u] = l[u]
  OBVIOUS
<1>2. m[t] = Tail(l[t]) /\ l[t] \in Seq(Obj)
  OBVIOUS
<1>3. /\ DOMAIN l[t] = 1 .. Len(l[t]) /\ DOMAIN m[t] = 1 .. Len(l[t]) - 1
      /\ Head(l[t]) = l[t][1] /\ 1 \in DOMAIN l[t] /\ Head(l[t]) \in Obj
      /\ \A k \in DOMAIN m[t] : m[t][k] = l[t][k + 1]
      /\ Len(l[t]) \in Nat
  BY <1>2
<1> HIDE DEF m
<1> DEFINE at(u, k) == IF u = t THEN k + 1 ELSE k
<1>4. \A u \in Threads : \A k \in DOMAIN m[u] :
         at(u, k) \in DOMAIN l[u] /\ m[u][k] = l[u][at(u, k)]
  <2> TAKE u \in Threads
  <2>1. CASE u # t
    BY <2>1, <1>1
  <2>2. CASE u = t
    <3> TAKE k \in DOMAIN m[u]
    <3>1. k \in 1 .. Len(l[t]) - 1
      BY <2>2, <1>3
    <3>2. k + 1 \in DOMAIN l[t]
      BY <3>1, <1>3
    <3> QED  BY <2>2, <3>2, <1>3
  <2> QED  BY <2>1, <2>2
<1>4a. \A k \in DOMAIN m[t] : k \in Int /\ k + 1 # 1
  BY <1>3
<1>5. ListsApart(m)
  <2> SUFFICES ASSUME NEW u \in Threads, NEW w \in Threads,
                      NEW k \in DOMAIN m[u], NEW n \in DOMAIN m[w], m[u][k] = m[w][n]
               PROVE  u = w /\ k = n
    BY DEF ListsApart
  <2>1. l[u][at(u, k)] = l[w][at(w, n)]
    BY <1>4
  <2>2. u = w /\ at(u, k) = at(w, n)
    BY <2>1, <1>4 DEF Exclusive, ListsApart
  <2> QED  BY <2>2, <1>4a
<1>6. \A y \in Obj : NotInList(y, l) => NotInList(y, m)
  BY <1>4 DEF NotInList
<1>7. NotInList(Head(l[t]), m)
  <2> SUFFICES ASSUME NEW u \in Threads, NEW k \in DOMAIN m[u], m[u][k] = Head(l[t])
               PROVE  FALSE
    BY DEF NotInList
  <2>1. l[u][at(u, k)] = l[t][1] /\ at(u, k) \in DOMAIN l[u]
    BY <1>4, <1>3
  <2>2. u = t /\ at(u, k) = 1
    BY <2>1, <1>3 DEF Exclusive, ListsApart
  <2> QED  BY <2>2, <1>4a
<1>8. NotInHand(Head(l[t]), h) /\ NotInEntry(Head(l[t]), v)
  BY <1>3 DEF Exclusive, NotInHand, NotInEntry, NotInList
<1>9. Exclusive(h, v, m)
  BY <1>5, <1>6 DEF Exclusive, NotInHand, NotInEntry
<1> QED  BY <1>3, <1>6, <1>7, <1>8, <1>9 DEF m, Fresh

\* Steps of a thread that has given BRETIRED up: ptr is not in its hand.
GaveUp == {"cbcas", "cbfail"}

\* The places have their types.
LEMMA HandTypes ==
    ASSUME TypeOK
    PROVE  /\ hand \in [Threads -> Ptr]
           /\ handovers \in [Threads -> [Idx -> Ptr]]
           /\ rlist \in [Threads -> Seq(Obj)]
           /\ ptr \in [Threads -> Ptr]
  BY DEF TypeOK, HpType, RetType, hand, InHand, Ptr

\* A step of t changes the hand of t only ...
LEMMA HandMove ==
    ASSUME NEW t \in Threads, \A u \in Threads \ {t} : Frame(u)
    PROVE  hand' = [hand EXCEPT ![t] = InHand(t)']
  BY DEF hand, InHand, Frame

\* ... or none, when t keeps its object.
LEMMA HandSame ==
    ASSUME NEW t \in Threads, \A u \in Threads \ {t} : Frame(u),
           pc[t] \notin GaveUp, pc'[t] \notin GaveUp, ptr'[t] = ptr[t]
    PROVE  hand' = hand
  BY DEF hand, InHand, Frame, GaveUp

\* The objects in retirement exist and have BRETIRED set.
Marked == \A o \in Obj : Fresh(o, hand, handovers, rlist) \/ (o \in alive /\ orc[o].ret)

\* A step that moves nothing and clears no BRETIRED.
LEMMA QuietStep ==
    ASSUME OneRetirer, NEW t \in Threads, \A u \in Threads \ {t} : Frame(u),
           pc[t] \notin GaveUp, pc'[t] \notin GaveUp, ptr'[t] = ptr[t],
           UNCHANGED <<handovers, rlist>>,
           \A o \in alive : o \in alive' /\ (orc[o].ret => orc'[o].ret)
    PROVE  OneRetirer'
<1>1. hand' = hand
  BY HandSame
<1> QED  BY <1>1 DEF OneRetirer

\* Retire(t, p, l) puts p in the hand of t or at the end of its list; v are
\* the handovers after the step.
LEMMA RetireMoves ==
    ASSUME TypeOK, NEW t \in Threads, \A u \in Threads \ {t} : Frame(u), LoopInv(t),
           NEW v \in [Threads -> [Idx -> Ptr]], NEW p \in Ptr, NEW l, Retire(t, p, l),
           pc[t] \notin GaveUp \cup {"self"}, l \notin GaveUp,
           Exclusive(hand, v, rlist), p \in Obj => Fresh(p, hand, v, rlist)
    PROVE  /\ Exclusive(hand', v, rlist')
           /\ \A y \in Obj \ {p} : Fresh(y, hand, v, rlist) => Fresh(y, hand', v, rlist')
<1>0. /\ hand \in [Threads -> Ptr] /\ rlist \in [Threads -> Seq(Obj)]
      /\ ptr \in [Threads -> Ptr] /\ ProgramType
  BY HandTypes DEF TypeOK
<1>1. CASE p = Null
  <2>1. UNCHANGED <<ptr, rlist>> /\ pc'[t] = l
    BY <1>0, <1>1, GotoLocals DEF Retire, retVars
  <2>2. hand' = hand
    BY <2>1, HandSame
  <2> QED  BY <2>1, <2>2
<1>2. CASE p # Null /\ retireStarted[t]
  <2>1. rlist' = [rlist EXCEPT ![t] = Append(@, p)] /\ ptr' = ptr /\ pc'[t] = l
    BY <1>0, <1>2, GotoLocals DEF Retire
  <2>2. hand' = hand
    BY <2>1, HandSame
  <2>3. p \in Obj
    BY <1>2 DEF Ptr
  <2> QED  BY <1>0, <2>1, <2>2, <2>3, PutList
<1>3. CASE p # Null /\ ~retireStarted[t]
  <2>1. ptr'[t] = p /\ rlist' = rlist /\ pc'[t] = "self"
    BY <1>0, <1>3, GotoLocals DEF Retire
  <2>2. hand' = [hand EXCEPT ![t] = p]
    BY <2>1, HandMove DEF InHand
  <2>3. p \in Obj
    BY <1>3 DEF Ptr
  <2> QED  BY <1>0, <2>1, <2>2, <2>3, PutHand
<1> QED  BY <1>1, <1>2, <1>3

\* Continue(t, p) takes p, or the head of its list, into the hand of t; h
\* are the hands without that of t.
LEMMA ContinueMoves ==
    ASSUME TypeOK, NEW t \in Threads, \A u \in Threads \ {t} : Frame(u), LoopInv(t),
           NEW v \in [Threads -> [Idx -> Ptr]], NEW p \in Ptr, Continue(t, p),
           NEW h \in [Threads -> Ptr], h = [hand EXCEPT ![t] = Null],
           Exclusive(h, v, rlist), p \in Obj => Fresh(p, h, v, rlist)
    PROVE  /\ Exclusive(hand', v, rlist')
           /\ \A y \in Obj \ {p} : Fresh(y, h, v, rlist) => Fresh(y, hand', v, rlist')
<1>0. /\ hand \in [Threads -> Ptr] /\ rlist \in [Threads -> Seq(Obj)]
      /\ ptr \in [Threads -> Ptr] /\ ProgramType
  BY HandTypes DEF TypeOK
<1>1. CASE p # Null
  <2>1. ptr'[t] = p /\ rlist' = rlist /\ pc'[t] = "load"
    BY <1>0, <1>1, GotoLocals DEF Continue
  <2>2. hand' = [hand EXCEPT ![t] = p]
    BY <2>1, HandMove DEF InHand
  <2>3. hand' = [h EXCEPT ![t] = p]
    BY <1>0, <2>2
  <2>4. p \in Obj
    BY <1>1 DEF Ptr
  <2> QED  BY <1>0, <2>1, <2>3, <2>4, PutHand
<1>2. CASE p = Null /\ rlist[t] # <<>>
  <2> DEFINE x == Head(rlist[t])
             m == [rlist EXCEPT ![t] = Tail(@)]
  <2>1. ptr'[t] = x /\ rlist' = m /\ pc'[t] = "load"
    BY <1>0, <1>2, GotoLocals DEF Continue
  <2>2. hand' = [hand EXCEPT ![t] = x]
    BY <2>1, HandMove DEF InHand
  <2>3. hand' = [h EXCEPT ![t] = x]
    BY <1>0, <2>2
  <2>4. /\ Exclusive(h, v, m) /\ x \in Obj
        /\ \A y \in Obj : Fresh(y, h, v, rlist) \/ y = x => Fresh(y, h, v, m)
    BY <1>0, <1>2, PopList
  <2>5. m \in [Threads -> Seq(Obj)]
    <3>1. Tail(rlist[t]) \in Seq(Obj)
      BY <1>0, <1>2
    <3> QED  BY <1>0, <3>1
  <2>6. \A y \in Obj : Fresh(y, h, v, rlist) => y # x
    BY <1>0, <1>2 DEF Fresh, NotInList
  <2> HIDE DEF x, m
  <2>7. /\ Exclusive([h EXCEPT ![t] = x], v, m)
        /\ \A y \in Obj \ {x} : Fresh(y, h, v, m) => Fresh(y, [h EXCEPT ![t] = x], v, m)
    BY <2>4, <2>5, PutHand
  <2> QED  BY <2>1, <2>3, <2>4, <2>6, <2>7
<1>3. CASE p = Null /\ rlist[t] = <<>>
  <2>1. ptr'[t] = Null /\ rlist' = rlist
    BY <1>0, <1>3 DEF Continue
  <2>2. hand' = [hand EXCEPT ![t] = Null]
    BY <2>1, HandMove DEF InHand
  <2> QED  BY <2>1, <2>2
<1> QED  BY <1>1, <1>2, <1>3

\* Facts about t that the steps below start from.
LEMMA RetireFacts ==
    ASSUME RetireInv, NEW t \in Threads
    PROVE  /\ TypeOK /\ ProgramType /\ LoopInv(t) /\ OperandInv(t)
           /\ OneRetirer /\ Marked /\ Exclusive(hand, handovers, rlist)
           /\ hand[t] = InHand(t)
           /\ hand \in [Threads -> Ptr] /\ rlist \in [Threads -> Seq(Obj)]
           /\ handovers \in [Threads -> [Idx -> Ptr]]
           /\ ptr \in [Threads -> Ptr]
           /\ \A o \in Obj : orc[o] \in Word /\ orc[o].ret \in BOOLEAN
           /\ \A o \in Obj \ alive : orc[o].ret
<1>1. LocalsInv /\ WordInv /\ OneRetirer
  BY DEF RetireInv
<1>2. TypeOK /\ LoopInv(t) /\ OperandInv(t)
  BY <1>1 DEF LocalsInv
<1>3. \A o \in Obj : orc[o] \in Word /\ orc[o].ret \in BOOLEAN
  BY <1>2, WordFacts DEF TypeOK, ObjType
<1>4. \A o \in Obj \ alive : orc[o].ret
  BY <1>1 DEF WordInv
<1>5. hand[t] = InHand(t)
  BY DEF hand
<1> QED  BY <1>1, <1>2, <1>3, <1>4, <1>5, HandTypes DEF OneRetirer, Marked, TypeOK

\* An object is taken out of a handover entry and retired.
LEMMA TakeStep ==
    ASSUME RetireInv, NEW t \in Threads, \A u \in Threads \ {t} : Frame(u),
           NEW r \in Threads, NEW i \in Idx, NEW l,
           pc[t] \notin GaveUp \cup {"self"}, l \notin GaveUp,
           handovers' = [handovers EXCEPT ![r][i] = Null],
           Retire(t, handovers[r][i], l), UNCHANGED <<alive, orc>>
    PROVE  OneRetirer'
<1> DEFINE x == handovers[r][i]
           v == [handovers EXCEPT ![r][i] = Null]
<1>0. /\ TypeOK /\ LoopInv(t) /\ Marked /\ Exclusive(hand, handovers, rlist)
      /\ hand \in [Threads -> Ptr] /\ rlist \in [Threads -> Seq(Obj)]
      /\ handovers \in [Threads -> [Idx -> Ptr]]
  BY RetireFacts
<1>1. /\ Exclusive(hand, v, rlist)
      /\ \A y \in Obj : Fresh(y, hand, handovers, rlist) \/ y = x => Fresh(y, hand, v, rlist)
  BY <1>0, ClearEntry
<1>2. x \in Ptr /\ v \in [Threads -> [Idx -> Ptr]] /\ handovers' = v /\ Retire(t, x, l)
  BY <1>0 DEF Ptr
<1>3. \A y \in Obj : Fresh(y, hand, handovers, rlist) => y # x
  BY DEF Fresh, NotInEntry
<1> HIDE DEF x, v
<1>4. /\ Exclusive(hand', v, rlist')
      /\ \A y \in Obj \ {x} : Fresh(y, hand, v, rlist) => Fresh(y, hand', v, rlist')
  BY <1>0, <1>1, <1>2, RetireMoves
<1>5. \A y \in Obj : Fresh(y, hand, handovers, rlist) => Fresh(y, hand', v, rlist')
  BY <1>1, <1>3, <1>4
<1> QED  BY <1>0, <1>2, <1>4, <1>5 DEF OneRetirer, Marked

\* The object in hand is left in a handover entry; what was there is next.
LEMMA PassOnStep ==
    ASSUME RetireInv, NEW t \in Threads, \A u \in Threads \ {t} : Frame(u),
           NEW r \in Threads, NEW i \in Idx, pc[t] \notin GaveUp, ptr[t] \in Obj,
           handovers' = [handovers EXCEPT ![r][i] = ptr[t]],
           Continue(t, handovers[r][i]), UNCHANGED <<alive, orc>>
    PROVE  OneRetirer'
<1> DEFINE x == handovers[r][i]
           h == [hand EXCEPT ![t] = Null]
           v == [handovers EXCEPT ![r][i] = Null]
           w == [v EXCEPT ![r][i] = ptr[t]]
<1>0. /\ TypeOK /\ LoopInv(t) /\ Marked /\ Exclusive(hand, handovers, rlist)
      /\ hand \in [Threads -> Ptr] /\ rlist \in [Threads -> Seq(Obj)]
      /\ handovers \in [Threads -> [Idx -> Ptr]] /\ hand[t] = ptr[t]
  BY RetireFacts DEF InHand, GaveUp
<1>1. h \in [Threads -> Ptr] /\ v \in [Threads -> [Idx -> Ptr]] /\ x \in Ptr
  BY <1>0 DEF Ptr
<1>2. /\ Exclusive(h, handovers, rlist)
      /\ \A y \in Obj : Fresh(y, hand, handovers, rlist) \/ y = ptr[t]
                        => Fresh(y, h, handovers, rlist)
  BY <1>0, ClearHand
<1>3. handovers' = w /\ w \in [Threads -> [Idx -> Ptr]] /\ Continue(t, x)
  BY <1>0 DEF Ptr
<1>4. x # ptr[t] /\ \A y \in Obj : Fresh(y, hand, handovers, rlist) => y # x /\ y # ptr[t]
  BY <1>0 DEF Exclusive, Fresh, NotInEntry, NotInHand
<1> HIDE DEF h, x
<1>5. /\ Exclusive(h, v, rlist)
      /\ \A y \in Obj : Fresh(y, h, handovers, rlist) \/ y = handovers[r][i]
                        => Fresh(y, h, v, rlist)
  BY <1>0, <1>1, <1>2, ClearEntry
<1> HIDE DEF v
<1>6. /\ Exclusive(h, w, rlist)
      /\ \A y \in Obj \ {ptr[t]} : Fresh(y, h, v, rlist) => Fresh(y, h, w, rlist)
  BY <1>0, <1>1, <1>2, <1>5, PutEntry
<1> HIDE DEF w
<1>7. x \in Obj => Fresh(x, h, w, rlist)
  BY <1>4, <1>5, <1>6 DEF x
<1>8. /\ Exclusive(hand', w, rlist')
      /\ \A y \in Obj \ {x} : Fresh(y, h, w, rlist) => Fresh(y, hand', w, rlist')
  BY <1>0, <1>1, <1>3, <1>6, <1>7, ContinueMoves DEF h
<1>9. \A y \in Obj : Fresh(y, hand, handovers, rlist) => Fresh(y, hand', w, rlist')
  BY <1>2, <1>4, <1>5, <1>6, <1>8
<1> QED  BY <1>0, <1>3, <1>8, <1>9 DEF OneRetirer, Marked

\* retire() goes on with the object in hand, or lets go of it.
LEMMA LetGo ==
    ASSUME RetireInv, NEW t \in Threads, \A u \in Threads \ {t} : Frame(u),
           NEW p \in {Null, hand[t]}, Continue(t, p), UNCHANGED handovers
    PROVE  /\ Exclusive(hand', handovers', rlist')
           /\ \A y \in Obj \ {p} : Fresh(y, hand, handovers, rlist) \/ y = hand[t]
                                   => Fresh(y, hand', handovers', rlist')
<1> DEFINE h == [hand EXCEPT ![t] = Null]
<1>0. /\ TypeOK /\ LoopInv(t) /\ Exclusive(hand, handovers, rlist)
      /\ hand \in [Threads -> Ptr] /\ rlist \in [Threads -> Seq(Obj)]
      /\ handovers \in [Threads -> [Idx -> Ptr]]
  BY RetireFacts
<1>1. h \in [Threads -> Ptr] /\ p \in Ptr
  BY <1>0 DEF Ptr
<1>2. /\ Exclusive(h, handovers, rlist)
      /\ \A y \in Obj : Fresh(y, hand, handovers, rlist) \/ y = hand[t]
                        => Fresh(y, h, handovers, rlist)
  BY <1>0, ClearHand
<1>3. p \in Obj => Fresh(p, h, handovers, rlist)
  BY <1>2, ValueAssumption
<1> HIDE DEF h
<1>4. /\ Exclusive(hand', handovers, rlist')
      /\ \A y \in Obj \ {p} : Fresh(y, h, handovers, rlist) => Fresh(y, hand', handovers, rlist')
  BY <1>0, <1>1, <1>2, <1>3, ContinueMoves DEF h
<1> QED  BY <1>2, <1>4

\* The CAS that sets BRETIRED succeeds only on an object in nobody's hands.
LEMMA CasOne ==
    ASSUME RetireInv, NEW t \in Threads, \A u \in Threads \ {t} : Frame(u),
           NEW o \in Obj, NEW w, ~w.ret, NEW l, CasRetired(t, o, w, l),
           pc[t] \notin GaveUp \cup {"self"}, l \notin GaveUp,
           UNCHANGED <<alive, handovers>>
    PROVE  OneRetirer'
<1>0. /\ TypeOK /\ ProgramType /\ LoopInv(t) /\ OneRetirer
      /\ Marked /\ Exclusive(hand, handovers, rlist)
      /\ hand \in [Threads -> Ptr] /\ rlist \in [Threads -> Seq(Obj)]
      /\ handovers \in [Threads -> [Idx -> Ptr]]
      /\ orc \in [Obj -> Word] /\ \A x \in Obj \ alive : orc[x].ret
  BY RetireFacts DEF TypeOK, ObjType
<1>1. CASE orc[o] = w
  <2>1. Fresh(o, hand, handovers, rlist) /\ o \in alive
    BY <1>0, <1>1 DEF Marked
  <2>2. orc' = [orc EXCEPT ![o].ret = TRUE] /\ Retire(t, o, l) /\ o \in Ptr
    BY <1>1 DEF CasRetired, Ptr
  <2>3. orc'[o].ret /\ \A y \in Obj \ {o} : orc'[y] = orc[y]
    BY <1>0, <2>2 DEF Word
  <2>4. /\ Exclusive(hand', handovers, rlist')
        /\ \A y \in Obj \ {o} : Fresh(y, hand, handovers, rlist) => Fresh(y, hand', handovers, rlist')
    BY <1>0, <2>1, <2>2, RetireMoves
  <2> QED  BY <1>0, <2>1, <2>3, <2>4 DEF OneRetirer, Marked
<1>2. CASE orc[o] # w
  <2>1. Goto(t, l) /\ UNCHANGED <<orc, ptr, rlist>>
    BY <1>2 DEF CasRetired, retVars
  <2>2. pc'[t] = l
    BY <1>0, <2>1, GotoLocals
  <2> QED  BY <1>0, <2>1, <2>2, QuietStep
<1> QED  BY <1>1, <1>2

\* BRETIRED stays exclusive in every step of a thread.
LEMMA RetirerStep ==
    ASSUME RetireInv, NEW t \in Threads, Begin(t) \/ Call(t)
    PROVE  OneRetirer'
<1>0. /\ TypeOK /\ ProgramType /\ LoopInv(t) /\ OperandInv(t)
      /\ OneRetirer /\ Marked /\ Exclusive(hand, handovers, rlist)
      /\ hand[t] = InHand(t)
      /\ hand \in [Threads -> Ptr] /\ rlist \in [Threads -> Seq(Obj)]
      /\ handovers \in [Threads -> [Idx -> Ptr]]
      /\ orc \in [Obj -> Word] /\ \A x \in Obj \ alive : orc[x].ret
      /\ \A u \in Threads \ {t} : Frame(u)
  BY RetireFacts, FrameStep DEF TypeOK, ObjType
<1>1. CASE Register(t)
  <2>1. pc[t] \notin GaveUp /\ pc'[t] \notin GaveUp
    BY <1>0, <1>1 DEF Register, GaveUp, ProgramType
  <2>2. ptr'[t] = ptr[t] /\ UNCHANGED <<alive, orc, handovers, rlist>>
    BY <1>1 DEF Register, objVars, hpVars, gcVars, retVars
  <2> QED  BY <1>0, <2>1, <2>2, QuietStep
<1>2. CASE MakeOrc(t)
  <2>1. pc[t] \notin GaveUp /\ pc'[t] \notin GaveUp
    BY <1>0, <1>2 DEF MakeOrc, Start, Run, GaveUp, ProgramType
  <2>2. ptr'[t] = ptr[t] /\ UNCHANGED <<handovers, rlist>>
    BY <1>2 DEF MakeOrc, gcVars, retVars
  <2>3. PICK o \in Obj \ alive : alive' = alive \cup {o} /\ orc' = [orc EXCEPT ![o] = NewWord]
    BY <1>2 DEF MakeOrc
  <2>4. \A x \in alive : x \in alive' /\ (orc[x].ret => orc'[x].ret)
    BY <1>0, <2>3
  <2> QED  BY <1>0, <2>1, <2>2, <2>4, QuietStep
<1>3. CASE Load(t)
  <2>1. pc[t] \notin GaveUp /\ pc'[t] \notin GaveUp
    BY <1>0, <1>3 DEF Load, Start, Run, GaveUp, ProgramType
  <2>2. ptr'[t] = ptr[t] /\ UNCHANGED <<alive, orc, handovers, rlist>>
    BY <1>3 DEF Load, Start, Run, objVars, hpVars, gcVars, retVars
  <2> QED  BY <1>0, <2>1, <2>2, QuietStep
<1>3a. CASE Assign(t)
  <2>1. pc[t] \notin GaveUp /\ pc'[t] \notin GaveUp
    BY <1>0, <1>3a DEF Assign, Start, Run, GaveUp, ProgramType
  <2>2. ptr'[t] = ptr[t] /\ UNCHANGED <<alive, orc, handovers, rlist>>
    BY <1>3a DEF Assign, objVars, hpVars, gcVars, retVars
  <2> QED  BY <1>0, <2>1, <2>2, QuietStep
<1>4. CASE Store(t)
  <2>1. pc[t] \notin GaveUp /\ pc'[t] \notin GaveUp
    BY <1>0, <1>4 DEF Store, Start, Run, GaveUp, ProgramType
  <2>2. ptr'[t] = ptr[t] /\ UNCHANGED <<alive, orc, handovers, rlist>>
    BY <1>4 DEF Store, Start, Run, objVars, hpVars, gcVars, retVars
  <2> QED  BY <1>0, <2>1, <2>2, QuietStep
<1>5. CASE CompareExchange(t)
  <2>1. pc[t] \notin GaveUp /\ pc'[t] \notin GaveUp
    BY <1>0, <1>5 DEF CompareExchange, Start, Run, GaveUp, ProgramType
  <2>2. ptr'[t] = ptr[t] /\ UNCHANGED <<alive, orc, handovers, rlist>>
    BY <1>5 DEF CompareExchange, Start, Run, objVars, hpVars, gcVars, retVars
  <2> QED  BY <1>0, <2>1, <2>2, QuietStep
<1>6. CASE PoisonCell(t)
  <2>1. pc[t] \notin GaveUp /\ pc'[t] \notin GaveUp
    BY <1>0, <1>6 DEF PoisonCell, Start, Goto, GaveUp, ProgramType
  <2>2. ptr'[t] = ptr[t] /\ UNCHANGED <<alive, orc, handovers, rlist>>
    BY <1>6 DEF PoisonCell, Start, Goto, objVars, hpVars, gcVars, retVars
  <2> QED  BY <1>0, <2>1, <2>2, QuietStep
<1>7. CASE CopyPtr(t)
  <2>1. pc[t] \notin GaveUp /\ pc'[t] \notin GaveUp
    BY <1>0, <1>7 DEF CopyPtr, Start, Run, GaveUp, ProgramType
  <2>2. ptr'[t] = ptr[t] /\ UNCHANGED <<alive, orc, handovers, rlist>>
    BY <1>7 DEF CopyPtr, Start, Run, objVars, hpVars, gcVars, retVars
  <2> QED  BY <1>0, <2>1, <2>2, QuietStep
<1>8. CASE DropPtr(t)
  <2>1. pc[t] \notin GaveUp /\ pc'[t] \notin GaveUp
    BY <1>0, <1>8 DEF DropPtr, Run, GaveUp, ProgramType
  <2>2. ptr'[t] = ptr[t] /\ UNCHANGED <<alive, orc, handovers, rlist>>
    BY <1>8 DEF DropPtr, Run, objVars, hpVars, gcVars, retVars
  <2> QED  BY <1>0, <2>1, <2>2, QuietStep
<1>9. CASE Shutdown(t)
  <2>1. pc[t] \notin GaveUp /\ pc'[t] \notin GaveUp
    BY <1>0, <1>9 DEF Shutdown, Goto, GaveUp, ProgramType
  <2>2. ptr'[t] = ptr[t] /\ UNCHANGED <<alive, orc, handovers, rlist>>
    BY <1>9 DEF Shutdown, Goto, objVars, hpVars, gcVars, retVars
  <2> QED  BY <1>0, <2>1, <2>2, QuietStep
<1>10. CASE GetProtected(t)
  <2>1. pc[t] \notin GaveUp /\ pc'[t] \notin GaveUp
    BY <1>0, <1>10 DEF GetProtected, Loaded, Run, Goto, GaveUp, ProgramType
  <2>2. ptr'[t] = ptr[t] /\ UNCHANGED <<alive, orc, handovers, rlist>>
    BY <1>10 DEF GetProtected, objVars, hpVars, gcVars, retVars
  <2> QED  BY <1>0, <2>1, <2>2, QuietStep
<1>11. CASE Publish(t)
  <2>1. pc[t] \notin GaveUp /\ pc'[t] \notin GaveUp
    BY <1>0, <1>11 DEF Publish, Goto, GaveUp, ProgramType
  <2>2. ptr'[t] = ptr[t] /\ UNCHANGED <<alive, orc, handovers, rlist>>
    BY <1>11 DEF Publish, Goto, objVars, hpVars, gcVars, retVars
  <2> QED  BY <1>0, <2>1, <2>2, QuietStep
<1>12. CASE GetNewIdx(t)
  <2>1. pc[t] \notin GaveUp /\ pc'[t] \notin GaveUp
    BY <1>0, <1>12 DEF GetNewIdx, Goto, GaveUp, ProgramType
  <2>2. ptr'[t] = ptr[t] /\ UNCHANGED <<alive, orc, handovers, rlist>>
    BY <1>12 DEF GetNewIdx, Goto, objVars, hpVars, gcVars, retVars
  <2> QED  BY <1>0, <2>1, <2>2, QuietStep
<1>13. CASE ProtectPtr(t)
  <2>1. pc[t] \notin GaveUp /\ pc'[t] \notin GaveUp
    BY <1>0, <1>13 DEF ProtectPtr, Goto, GaveUp, ProgramType
  <2>2. ptr'[t] = ptr[t] /\ UNCHANGED <<alive, orc, handovers, rlist>>
    BY <1>13 DEF ProtectPtr, Goto, objVars, hpVars, gcVars, retVars
  <2> QED  BY <1>0, <2>1, <2>2, QuietStep
<1>14. CASE Clear(t)
  <2>1. pc[t] \notin GaveUp /\ pc'[t] \notin GaveUp
    BY <1>0, <1>14 DEF Clear, AfterClear, Goto, GaveUp, ProgramType
  <2>2. ptr'[t] = ptr[t] /\ UNCHANGED <<alive, orc, handovers, rlist>>
    BY <1>14 DEF Clear, Goto, objVars, hpVars, gcVars, retVars
  <2> QED  BY <1>0, <2>1, <2>2, QuietStep
<1>15. CASE ClearCas(t)
  <2>1. CasRetired(t, op[t].old, lorc[t], AfterClear(t))
    BY <1>15 DEF ClearCas
  <2>2. pc[t] = "clearcas" /\ UNCHANGED <<alive, handovers>>
    BY <1>15 DEF ClearCas, hpVars
  <2>3. op[t].old \in Obj
    BY <1>0, <2>2 DEF OperandInv, Ready, DecSteps
  <2>4. ~lorc[t].ret
    BY <2>2 DEF RetireInv, WordInv
  <2>5. AfterClear(t) \notin GaveUp
    BY DEF AfterClear, GaveUp
  <2>6. pc[t] \notin GaveUp \cup {"self"}
    BY <2>2 DEF GaveUp
  <2> QED  BY <1>0, <2>1, <2>2, <2>3, <2>4, <2>5, <2>6, CasOne
<1>16. CASE IncrementOrc(t)
  <2>1. pc[t] \notin GaveUp /\ pc'[t] \notin GaveUp
    BY <1>0, <1>16 DEF IncrementOrc, Goto, AfterInc, GaveUp, ProgramType
  <2>2. ptr'[t] = ptr[t] /\ UNCHANGED <<alive, handovers, rlist>>
    BY <1>16 DEF IncrementOrc, hpVars, retVars
  <2> DEFINE o == op[t].new
             w == [orc[o] EXCEPT !.cnt = @ + 1]
  <2>3. orc' = [orc EXCEPT ![o] = w]
    BY <1>16 DEF IncrementOrc
  <2>4. o \in Obj
    BY <1>0, <1>16 DEF IncrementOrc, OperandInv, Ready, DecSteps
  <2>5. w.ret = orc[o].ret
    BY <1>0, <2>4 DEF Word
  <2> HIDE DEF o, w
  <2>6. \A x \in alive : x \in alive' /\ (orc[x].ret => orc'[x].ret)
    BY <1>0, <2>2, <2>3, <2>5 DEF TypeOK, ObjType
  <2> QED  BY <1>0, <2>1, <2>2, <2>6, QuietStep
<1>17. CASE IncrementCas(t)
  <2>1. CasRetired(t, op[t].new, lorc[t], AfterInc(t))
    BY <1>17 DEF IncrementCas
  <2>2. pc[t] = "inccas" /\ UNCHANGED <<alive, handovers>>
    BY <1>17 DEF IncrementCas, hpVars
  <2>3. op[t].new \in Obj
    BY <1>0, <2>2 DEF OperandInv, Ready, DecSteps
  <2>4. ~lorc[t].ret
    BY <2>2 DEF RetireInv, WordInv
  <2>5. AfterInc(t) \notin GaveUp
    BY DEF AfterInc, AfterDec, GaveUp
  <2>6. pc[t] \notin GaveUp \cup {"self"}
    BY <2>2 DEF GaveUp
  <2> QED  BY <1>0, <2>1, <2>2, <2>3, <2>4, <2>5, <2>6, CasOne
<1>18. CASE Exchange(t)
  <2>1. pc[t] \notin GaveUp /\ pc'[t] \notin GaveUp
    BY <1>0, <1>18 DEF Exchange, Goto, GaveUp, ProgramType
  <2>2. ptr'[t] = ptr[t] /\ UNCHANGED <<alive, orc, handovers, rlist>>
    BY <1>18 DEF Exchange, Goto, objVars, hpVars, gcVars, retVars
  <2> QED  BY <1>0, <2>1, <2>2, QuietStep
<1>19. CASE DecrementProtect(t)
  <2>1. pc[t] \notin GaveUp /\ pc'[t] \notin GaveUp
    BY <1>0, <1>19 DEF DecrementProtect, Goto, GaveUp, ProgramType
  <2>2. ptr'[t] = ptr[t] /\ UNCHANGED <<alive, orc, handovers, rlist>>
    BY <1>19 DEF DecrementProtect, Goto, objVars, hpVars, gcVars, retVars
  <2> QED  BY <1>0, <2>1, <2>2, QuietStep
<1>20. CASE DecrementOrc(t)
  <2>1. pc[t] \notin GaveUp /\ pc'[t] \notin GaveUp
    BY <1>0, <1>20 DEF DecrementOrc, DecrementTest, Goto, AfterDec, GaveUp, ProgramType
  <2>2. ptr'[t] = ptr[t] /\ UNCHANGED <<alive, handovers, rlist>>
    BY <1>20 DEF DecrementOrc, hpVars, retVars
  <2> DEFINE o == dec[t][Level(t)].ptr
             w == [orc[o] EXCEPT !.cnt = @ - 1, !.seq = @ + 1]
  <2>3. orc' = [orc EXCEPT ![o] = w]
    BY <1>20 DEF DecrementOrc
  <2>4. o \in Obj
    BY <1>0, <1>20 DEF DecrementOrc, OperandInv, Ready, DecSteps
  <2>5. w.ret = orc[o].ret
    BY <1>0, <2>4 DEF Word
  <2> HIDE DEF o, w
  <2>6. \A x \in alive : x \in alive' /\ (orc[x].ret => orc'[x].ret)
    BY <1>0, <2>2, <2>3, <2>5 DEF TypeOK, ObjType
  <2> QED  BY <1>0, <2>1, <2>2, <2>6, QuietStep
<1>21. CASE ResetRetcnt(t)
  <2>1. pc[t] \notin GaveUp /\ pc'[t] \notin GaveUp
    BY <1>0, <1>21 DEF ResetRetcnt, DecrementTest, Goto, AfterDec, GaveUp, ProgramType
  <2>2. ptr'[t] = ptr[t] /\ UNCHANGED <<alive, orc, handovers, rlist>>
    BY <1>21 DEF ResetRetcnt, DecrementTest, Goto, AfterDec, objVars, hpVars, gcVars, retVars
  <2> QED  BY <1>0, <2>1, <2>2, QuietStep
<1>22. CASE DecrementCas(t)
  <2>1. CasRetired(t, dec[t][Level(t)].ptr, dec[t][Level(t)].word, AfterDec(t))
    BY <1>22 DEF DecrementCas
  <2>2. pc[t] = "deccas" /\ UNCHANGED <<alive, handovers>>
    BY <1>22 DEF DecrementCas, hpVars
  <2>3. dec[t][Level(t)].ptr \in Obj
    BY <1>0, <2>2 DEF OperandInv, Ready, DecSteps
  <2>4. ~dec[t][Level(t)].word.ret
    BY <2>2 DEF RetireInv, WordInv
  <2>5. AfterDec(t) \notin GaveUp
    BY DEF AfterInc, AfterDec, GaveUp
  <2>6. pc[t] \notin GaveUp \cup {"self"}
    BY <2>2 DEF GaveUp
  <2> QED  BY <1>0, <2>1, <2>2, <2>3, <2>4, <2>5, <2>6, CasOne
<1>23. CASE RetireOne(t)
  <2>1. pc[t] \notin GaveUp /\ pc'[t] \notin GaveUp
    BY <1>0, <1>23 DEF RetireOne, Goto, GaveUp, ProgramType
  <2>2. ptr'[t] = ptr[t] /\ UNCHANGED <<alive, orc, handovers, rlist>>
    BY <1>23 DEF RetireOne, Goto, objVars, hpVars, gcVars, retVars
  <2> QED  BY <1>0, <2>1, <2>2, QuietStep
<1>24. CASE Seek(t)
  <2>1. pc[t] \notin GaveUp /\ pc'[t] \notin GaveUp
    BY <1>0, <1>24 DEF Seek, SeekNext, Goto, GaveUp, ProgramType
  <2>2. ptr'[t] = ptr[t] /\ UNCHANGED <<alive, orc, handovers, rlist>>
    BY <1>24 DEF Seek, SeekNext, Goto, objVars, hpVars, gcVars, retVars
  <2> QED  BY <1>0, <2>1, <2>2, QuietStep
<1>25. CASE SeekHP(t)
  <2>1. pc[t] \notin GaveUp /\ pc'[t] \notin GaveUp
    BY <1>0, <1>25 DEF SeekHP, SeekNext, Goto, GaveUp, ProgramType
  <2>2. ptr'[t] = ptr[t] /\ UNCHANGED <<alive, orc, handovers, rlist>>
    BY <1>25 DEF SeekHP, SeekNext, Goto, objVars, hpVars, gcVars, retVars
  <2> QED  BY <1>0, <2>1, <2>2, QuietStep
<1>26. CASE TakeHandover(t)
  <2>1. PICK p \in Place :
          /\ handovers' = [handovers EXCEPT ![p[1]][p[2]] = Null]
          /\ Retire(t, handovers[p[1]][p[2]], "reset")
    BY <1>0, <1>26 DEF TakeHandover, TypeOK, ScanType
  <2>2. p[1] \in Threads /\ p[2] \in Idx
    BY DEF Place
  <2>3. /\ pc[t] \notin GaveUp \cup {"self"} /\ "reset" \notin GaveUp
        /\ UNCHANGED <<alive, orc>>
    BY <1>26 DEF TakeHandover, GaveUp, objVars
  <2> QED  BY <1>0, <2>1, <2>2, <2>3, TakeStep
<1>27. CASE RetireSelf(t)
  <2>1. pc[t] \notin GaveUp /\ ptr[t] \in Obj /\ UNCHANGED <<alive, orc>>
    BY <1>0, <1>27 DEF RetireSelf, GaveUp, objVars, LoopInv
  <2>2. ASSUME NEW i \in Idx, handovers' = [handovers EXCEPT ![t][i] = ptr[t]],
               Continue(t, handovers[t][i])
        PROVE  OneRetirer'
    BY <1>0, <2>1, <2>2, PassOnStep
  <2>3. CASE Continue(t, ptr[t]) /\ UNCHANGED handovers
    <3>1. hand[t] = ptr[t]
      BY <1>0, <2>1 DEF InHand, GaveUp
    <3>2. /\ Exclusive(hand', handovers', rlist')
          /\ \A y \in Obj \ {ptr[t]} : Fresh(y, hand, handovers, rlist)
                                        => Fresh(y, hand', handovers', rlist')
      BY <1>0, <2>3, <3>1, LetGo
    <3>3. ~Fresh(ptr[t], hand, handovers, rlist)
      BY <3>1 DEF Fresh, NotInHand
    <3> QED  BY <1>0, <2>1, <3>2, <3>3 DEF OneRetirer, Marked
  <2> QED  BY <1>27, <2>2, <2>3 DEF RetireSelf, OwnHp
<1>28. CASE RetireLoad(t)
  <2>1. pc[t] \notin GaveUp /\ pc'[t] \notin GaveUp
    BY <1>0, <1>28 DEF RetireLoad, Goto, TryHandover, GaveUp, ProgramType
  <2>2. ptr'[t] = ptr[t] /\ UNCHANGED <<alive, orc, handovers, rlist>>
    BY <1>28 DEF RetireLoad, Goto, TryHandover, objVars, hpVars, gcVars, retVars
  <2> QED  BY <1>0, <2>1, <2>2, QuietStep
<1>29. CASE ClearBitProtect(t)
  <2>1. pc[t] \notin GaveUp /\ pc'[t] \notin GaveUp
    BY <1>0, <1>29 DEF ClearBitProtect, Goto, GaveUp, ProgramType
  <2>2. ptr'[t] = ptr[t] /\ UNCHANGED <<alive, orc, handovers, rlist>>
    BY <1>29 DEF ClearBitProtect, Goto, objVars, hpVars, gcVars, retVars
  <2> QED  BY <1>0, <2>1, <2>2, QuietStep
<1>30. CASE ClearBit(t)
  <2>1. /\ pc[t] = "cbfaa" /\ UNCHANGED <<alive, handovers, ptr, rlist>>
        /\ orc' = [orc EXCEPT ![ptr[t]] = [@ EXCEPT !.ret = FALSE]]
        /\ pc'[t] \in GaveUp
    BY <1>0, <1>30 DEF ClearBit, Goto, GaveUp, ProgramType, hpVars, retVars
  <2>2. hand[t] = ptr[t] /\ hand' = [hand EXCEPT ![t] = Null]
    BY <1>0, <2>1, HandMove DEF InHand, GaveUp
  <2>3. /\ Exclusive(hand', handovers, rlist)
        /\ \A y \in Obj : Fresh(y, hand, handovers, rlist) \/ y = hand[t]
                          => Fresh(y, hand', handovers, rlist)
    BY <1>0, <2>2, ClearHand
  <2>4. \A y \in Obj : y # ptr[t] => orc'[y] = orc[y]
    BY <1>0, <2>1
  <2> QED  BY <1>0, <2>1, <2>2, <2>3, <2>4 DEF OneRetirer, Marked
<1>31. CASE ClearBitCas(t)
  <2>1. /\ pc[t] = "cbcas" /\ UNCHANGED <<alive, handovers, ptr, rlist>>
        /\ ~lorc[t].ret /\ ptr[t] \in Obj
    BY <1>0, <1>31 DEF ClearBitCas, hpVars, retVars, RetireInv, WordInv, LoopInv, LoopSteps
  <2>2. CASE orc[ptr[t]] = lorc[t]
    <3>1. pc'[t] = "cbok" /\ orc' = [orc EXCEPT ![ptr[t]].ret = TRUE]
      BY <1>0, <1>31, <2>2, GotoLocals DEF ClearBitCas
    <3>2. ptr[t] \in alive /\ Fresh(ptr[t], hand, handovers, rlist)
      BY <1>0, <2>1, <2>2 DEF Marked
    <3>3. hand' = [hand EXCEPT ![t] = ptr[t]]
      BY <1>0, <2>1, <3>1, HandMove DEF InHand
    <3>4. /\ Exclusive(hand', handovers, rlist)
          /\ \A y \in Obj \ {ptr[t]} : Fresh(y, hand, handovers, rlist)
                                        => Fresh(y, hand', handovers, rlist)
      BY <1>0, <2>1, <3>2, <3>3, PutHand
    <3>5. orc'[ptr[t]].ret /\ \A y \in Obj : y # ptr[t] => orc'[y] = orc[y]
      BY <1>0, <2>1, <3>1 DEF TypeOK, ObjType, Word
    <3> QED  BY <1>0, <2>1, <3>2, <3>4, <3>5 DEF OneRetirer, Marked
  <2>3. CASE orc[ptr[t]] # lorc[t]
    <3>1. pc'[t] = "cbfail" /\ UNCHANGED orc
      BY <1>0, <1>31, <2>3, GotoLocals DEF ClearBitCas
    <3>2. hand[t] = Null /\ hand' = [hand EXCEPT ![t] = Null]
      BY <1>0, <2>1, <3>1, HandMove DEF InHand
    <3>3. hand' = hand
      BY <1>0, <3>2
    <3> QED  BY <1>0, <2>1, <3>1, <3>3 DEF OneRetirer, Marked
  <2> QED  BY <2>2, <2>3
<1>32. CASE ClearBitOk(t)
  <2>1. pc[t] \notin GaveUp /\ pc'[t] \notin GaveUp
    BY <1>0, <1>32 DEF ClearBitOk, Goto, TryHandover, GaveUp, ProgramType
  <2>2. ptr'[t] = ptr[t] /\ UNCHANGED <<alive, orc, handovers, rlist>>
    BY <1>32 DEF ClearBitOk, Goto, TryHandover, objVars, hpVars, gcVars, retVars
  <2> QED  BY <1>0, <2>1, <2>2, QuietStep
<1>33. CASE ClearBitFail(t)
  <2>1. Continue(t, Null) /\ UNCHANGED <<alive, orc, handovers>>
    BY <1>33 DEF ClearBitFail, objVars
  <2>2. /\ Exclusive(hand', handovers', rlist')
        /\ \A y \in Obj : Fresh(y, hand, handovers, rlist) => Fresh(y, hand', handovers', rlist')
    BY <1>0, <2>1, LetGo, ValueAssumption
  <2> QED  BY <1>0, <2>1, <2>2 DEF OneRetirer, Marked
<1>34. CASE ScanThreads(t)
  <2>1. pc[t] \notin GaveUp /\ pc'[t] \notin GaveUp
    BY <1>0, <1>34 DEF ScanThreads, Goto, GaveUp, ProgramType
  <2>2. ptr'[t] = ptr[t] /\ UNCHANGED <<alive, orc, handovers, rlist>>
    BY <1>34 DEF ScanThreads, Goto, objVars, hpVars, gcVars, retVars
  <2> QED  BY <1>0, <2>1, <2>2, QuietStep
<1>35. CASE ScanHPs(t)
  <2>1. pc[t] \notin GaveUp /\ pc'[t] \notin GaveUp
    BY <1>0, <1>35 DEF ScanHPs, Goto, GaveUp, ProgramType
  <2>2. ptr'[t] = ptr[t] /\ UNCHANGED <<alive, orc, handovers, rlist>>
    BY <1>35 DEF ScanHPs, Goto, objVars, hpVars, gcVars, retVars
  <2> QED  BY <1>0, <2>1, <2>2, QuietStep
<1>36. CASE Scan(t)
  <2>1. pc[t] \notin GaveUp /\ pc'[t] \notin GaveUp
    BY <1>0, <1>36 DEF Scan, Goto, GaveUp, ProgramType
  <2>2. ptr'[t] = ptr[t] /\ UNCHANGED <<alive, orc, handovers, rlist>>
    BY <1>36 DEF Scan, Goto, objVars, hpVars, gcVars, retVars
  <2> QED  BY <1>0, <2>1, <2>2, QuietStep
<1>37. CASE HandOver(t)
  <2>1. PICK p \in Place :
          /\ handovers' = [handovers EXCEPT ![p[1]][p[2]] = ptr[t]]
          /\ Continue(t, handovers[p[1]][p[2]])
    BY <1>0, <1>37 DEF HandOver, TypeOK, ScanType
  <2>2. p[1] \in Threads /\ p[2] \in Idx
    BY DEF Place
  <2>3. pc[t] \notin GaveUp /\ ptr[t] \in Obj /\ UNCHANGED <<alive, orc>>
    BY <1>0, <1>37 DEF HandOver, GaveUp, objVars, LoopInv, LoopSteps
  <2> QED  BY <1>0, <2>1, <2>2, <2>3, PassOnStep
<1>38. CASE CheckWord(t)
  <2>1. pc[t] \notin GaveUp /\ pc'[t] \notin GaveUp
    BY <1>0, <1>38 DEF CheckWord, Goto, GaveUp, ProgramType
  <2>2. ptr'[t] = ptr[t] /\ UNCHANGED <<alive, orc, handovers, rlist>>
    BY <1>38 DEF CheckWord, Goto, objVars, hpVars, gcVars, retVars
  <2> QED  BY <1>0, <2>1, <2>2, QuietStep
<1>39. CASE Destroy(t)
  <2>1. pc[t] \notin GaveUp /\ pc'[t] \notin GaveUp
    BY <1>0, <1>39 DEF Destroy, Goto, GaveUp, ProgramType
  <2>2. ptr'[t] = ptr[t] /\ UNCHANGED <<alive, orc, handovers, rlist>>
    BY <1>39 DEF Destroy, Goto, objVars, hpVars, gcVars, retVars
  <2> QED  BY <1>0, <2>1, <2>2, QuietStep
<1>40. CASE FreeObj(t)
  <2>1. /\ Continue(t, Null) /\ UNCHANGED handovers /\ pc[t] = "free"
        /\ alive' = alive \ {ptr[t]} /\ orc' = [orc EXCEPT ![ptr[t]] = FreeWord]
    BY <1>40 DEF FreeObj, hpVars
  <2>2. hand[t] = ptr[t]
    BY <1>0, <2>1 DEF InHand
  <2>3. /\ Exclusive(hand', handovers', rlist')
        /\ \A y \in Obj : Fresh(y, hand, handovers, rlist) \/ y = ptr[t]
                          => Fresh(y, hand', handovers', rlist')
    BY <1>0, <2>1, <2>2, LetGo, ValueAssumption
  <2>4. \A y \in Obj : y # ptr[t] => orc'[y] = orc[y] /\ (y \in alive => y \in alive')
    BY <1>0, <2>1
  <2> QED  BY <1>0, <2>3, <2>4 DEF OneRetirer, Marked
<1>41. CASE Sweep(t)
  <2>1. PICK p \in Place, l \in {"down", "sweep"} :
          /\ handovers' = [handovers EXCEPT ![p[1]][p[2]] = Null]
          /\ Retire(t, handovers[p[1]][p[2]], l)
    BY <1>0, <1>41 DEF Sweep, TypeOK, ScanType
  <2>2. p[1] \in Threads /\ p[2] \in Idx
    BY DEF Place
  <2>3. /\ pc[t] \notin GaveUp \cup {"self"} /\ l \notin GaveUp
        /\ UNCHANGED <<alive, orc>>
    BY <1>41 DEF Sweep, GaveUp, objVars
  <2> QED  BY <1>0, <2>1, <2>2, <2>3, TakeStep
<1> QED  BY <1>1, <1>2, <1>3, <1>3a, <1>4, <1>5, <1>6, <1>7, <1>8, <1>9, <1>10, <1>11,
            <1>12, <1>13, <1>14, <1>15, <1>16, <1>17, <1>18, <1>19, <1>20, <1>21,
            <1>22, <1>23, <1>24, <1>25, <1>26, <1>27, <1>28, <1>29, <1>30, <1>31,
            <1>32, <1>33, <1>34, <1>35, <1>36, <1>37, <1>38, <1>39, <1>40, <1>41 DEF
            Begin, Call

\* No step of t changes the word another thread has copied.
LEMMA CopyFrame ==
    ASSUME TypeOK, NEW t \in Threads, Begin(t) \/ Call(t), NEW u \in Threads \ {t}
    PROVE  lorc'[u] = lorc[u]
<1>0. lorc \in [Threads -> Word]
  BY DEF TypeOK, ScanType
<1>1. CASE Register(t)
  BY <1>0, <1>1 DEF Register, gcVars
<1>2. CASE MakeOrc(t)
  BY <1>0, <1>2 DEF MakeOrc, gcVars
<1>3. CASE Load(t)
  BY <1>0, <1>3 DEF Load, gcVars
<1>3a. CASE Assign(t)
  BY <1>0, <1>3a DEF Assign, gcVars
<1>4. CASE Store(t)
  BY <1>0, <1>4 DEF Store, gcVars
<1>5. CASE CompareExchange(t)
  BY <1>0, <1>5 DEF CompareExchange, gcVars
<1>6. CASE PoisonCell(t)
  BY <1>0, <1>6 DEF PoisonCell, gcVars
<1>7. CASE CopyPtr(t)
  BY <1>0, <1>7 DEF CopyPtr, gcVars
<1>8. CASE DropPtr(t)
  BY <1>0, <1>8 DEF DropPtr, gcVars
<1>9. CASE Shutdown(t)
  BY <1>0, <1>9 DEF Shutdown, gcVars
<1>10. CASE GetProtected(t)
  BY <1>0, <1>10 DEF GetProtected, gcVars
<1>11. CASE Publish(t)
  BY <1>0, <1>11 DEF Publish, gcVars
<1>12. CASE GetNewIdx(t)
  BY <1>0, <1>12 DEF GetNewIdx, gcVars
<1>13. CASE ProtectPtr(t)
  BY <1>0, <1>13 DEF ProtectPtr, gcVars
<1>14. CASE Clear(t)
  BY <1>0, <1>14 DEF Clear, gcVars
<1>15. CASE ClearCas(t)
  BY <1>0, <1>15 DEF ClearCas, gcVars
<1>16. CASE IncrementOrc(t)
  BY <1>0, <1>16 DEF IncrementOrc, gcVars
<1>17. CASE IncrementCas(t)
  BY <1>0, <1>17 DEF IncrementCas, gcVars
<1>18. CASE Exchange(t)
  BY <1>0, <1>18 DEF Exchange, gcVars
<1>19. CASE DecrementProtect(t)
  BY <1>0, <1>19 DEF DecrementProtect, gcVars
<1>20. CASE DecrementOrc(t)
  BY <1>0, <1>20 DEF DecrementOrc, gcVars
<1>21. CASE ResetRetcnt(t)
  BY <1>0, <1>21 DEF ResetRetcnt, gcVars
<1>22. CASE DecrementCas(t)
  BY <1>0, <1>22 DEF DecrementCas, gcVars
<1>23. CASE RetireOne(t)
  BY <1>0, <1>23 DEF RetireOne, gcVars
<1>24. CASE Seek(t)
  BY <1>0, <1>24 DEF Seek, gcVars
<1>25. CASE SeekHP(t)
  BY <1>0, <1>25 DEF SeekHP, gcVars
<1>26. CASE TakeHandover(t)
  BY <1>0, <1>26 DEF TakeHandover, gcVars
<1>27. CASE RetireSelf(t)
  BY <1>0, <1>27 DEF RetireSelf, Continue, gcVars
<1>28. CASE RetireLoad(t)
  BY <1>0, <1>28 DEF RetireLoad, gcVars
<1>29. CASE ClearBitProtect(t)
  BY <1>0, <1>29 DEF ClearBitProtect, gcVars
<1>30. CASE ClearBit(t)
  BY <1>0, <1>30 DEF ClearBit, gcVars
<1>31. CASE ClearBitCas(t)
  BY <1>0, <1>31 DEF ClearBitCas, gcVars
<1>32. CASE ClearBitOk(t)
  BY <1>0, <1>32 DEF ClearBitOk, gcVars
<1>33. CASE ClearBitFail(t)
  BY <1>0, <1>33 DEF ClearBitFail, Continue, gcVars
<1>34. CASE ScanThreads(t)
  BY <1>0, <1>34 DEF ScanThreads, gcVars
<1>35. CASE ScanHPs(t)
  BY <1>0, <1>35 DEF ScanHPs, gcVars
<1>36. CASE Scan(t)
  BY <1>0, <1>36 DEF Scan, gcVars
<1>37. CASE HandOver(t)
  BY <1>0, <1>37 DEF HandOver, Continue, gcVars
<1>38. CASE CheckWord(t)
  BY <1>0, <1>38 DEF CheckWord, gcVars
<1>39. CASE Destroy(t)
  BY <1>0, <1>39 DEF Destroy, gcVars
<1>40. CASE FreeObj(t)
  BY <1>0, <1>40 DEF FreeObj, Continue, gcVars
<1>41. CASE Sweep(t)
  BY <1>0, <1>41 DEF Sweep, gcVars
<1> QED  BY <1>1, <1>2, <1>3, <1>3a, <1>4, <1>5, <1>6, <1>7, <1>8, <1>9, <1>10, <1>11,
            <1>12, <1>13, <1>14, <1>15, <1>16, <1>17, <1>18, <1>19, <1>20, <1>21,
            <1>22, <1>23, <1>24, <1>25, <1>26, <1>27, <1>28, <1>29, <1>30, <1>31,
            <1>32, <1>33, <1>34, <1>35, <1>36, <1>37, <1>38, <1>39, <1>40, <1>41 DEF
            Begin, Call

\* The steps before a CAS that sets BRETIRED.
CasSteps == {"inccas", "clearcas", "cbcas", "deccas"}

\* What t knows of the word before such a CAS.
CopyInv(t) ==
    /\ pc[t] \in {"inccas", "clearcas", "cbcas"} => ~lorc[t].ret
    /\ pc[t] = "deccas" => ~dec[t][Level(t)].word.ret

\* The test at the end of decrementOrc() compares with a word that has
\* BRETIRED clear.
LEMMA TestCopyInv ==
    ASSUME ProgramType, DecType, NEW t \in Threads, NEW d, DecrementTest(t, d),
           UNCHANGED retireStarted
    PROVE  CopyInv(t)'
<1>1. Level(t)' = Level(t) /\ Level(t) \in {0, 1}
  BY DEF Level
<1>2. CASE IsZero(d.word)
  <2>1. pc'[t] = "deccas" /\ dec' = [dec EXCEPT ![t][Level(t)] = d]
    BY <1>2, GotoLocals DEF DecrementTest
  <2>2. dec'[t][Level(t)] = d
    BY <1>1, <2>1 DEF DecType
  <2> QED  BY <1>1, <1>2, <2>1, <2>2 DEF CopyInv, IsZero
<1>3. CASE ~IsZero(d.word)
  <2>1. pc'[t] = AfterDec(t)
    BY <1>3, GotoLocals DEF DecrementTest
  <2> QED  BY <2>1 DEF CopyInv, AfterDec
<1> QED  BY <1>2, <1>3

\* After its own step, t is before such a CAS with such a word only.
LEMMA OwnCopyInv ==
    ASSUME TypeOK, NEW t \in Threads, Begin(t) \/ Call(t), LoopInv(t), OperandInv(t)
    PROVE  CopyInv(t)'
<1>0. /\ TypeOK /\ ProgramType /\ DecType
      /\ Level(t) \in {0, 1} /\ dec[t] \in [{0, 1} -> [ptr : Ptr, word : Word]]
      /\ lorc \in [Threads -> Word] /\ retTo[t] \in Returns
  BY DEF TypeOK, DecType, ScanType, Level, LoopInv
<1>1. CASE Register(t)
  <2>1. pc'[t] \notin CasSteps
    BY <1>0, <1>1 DEF Register, CasSteps, ProgramType
  <2> QED  BY <2>1 DEF CopyInv, CasSteps
<1>2. CASE MakeOrc(t)
  <2>1. pc'[t] \notin CasSteps
    BY <1>0, <1>2 DEF MakeOrc, Start, Run, CasSteps, ProgramType
  <2> QED  BY <2>1 DEF CopyInv, CasSteps
<1>3. CASE Load(t)
  <2>1. pc'[t] \notin CasSteps
    BY <1>0, <1>3 DEF Load, Start, Run, CasSteps, ProgramType
  <2> QED  BY <2>1 DEF CopyInv, CasSteps
<1>3a. CASE Assign(t)
  <2>1. pc'[t] \notin CasSteps
    BY <1>0, <1>3a DEF Assign, Start, Run, CasSteps, ProgramType
  <2> QED  BY <2>1 DEF CopyInv, CasSteps
<1>4. CASE Store(t)
  <2>1. pc'[t] \notin CasSteps
    BY <1>0, <1>4 DEF Store, Start, Run, CasSteps, ProgramType
  <2> QED  BY <2>1 DEF CopyInv, CasSteps
<1>5. CASE CompareExchange(t)
  <2>1. pc'[t] \notin CasSteps
    BY <1>0, <1>5 DEF CompareExchange, Start, Run, CasSteps, ProgramType
  <2> QED  BY <2>1 DEF CopyInv, CasSteps
<1>6. CASE PoisonCell(t)
  <2>1. pc'[t] \notin CasSteps
    BY <1>0, <1>6 DEF PoisonCell, Start, Goto, CasSteps, ProgramType
  <2> QED  BY <2>1 DEF CopyInv, CasSteps
<1>7. CASE CopyPtr(t)
  <2>1. pc'[t] \notin CasSteps
    BY <1>0, <1>7 DEF CopyPtr, Start, Run, CasSteps, ProgramType
  <2> QED  BY <2>1 DEF CopyInv, CasSteps
<1>8. CASE DropPtr(t)
  <2>1. pc'[t] \notin CasSteps
    BY <1>0, <1>8 DEF DropPtr, Run, CasSteps, ProgramType
  <2> QED  BY <2>1 DEF CopyInv, CasSteps
<1>9. CASE Shutdown(t)
  <2>1. pc'[t] \notin CasSteps
    BY <1>0, <1>9 DEF Shutdown, Goto, CasSteps, ProgramType
  <2> QED  BY <2>1 DEF CopyInv, CasSteps
<1>10. CASE GetProtected(t)
  <2>1. pc'[t] \notin CasSteps
    BY <1>0, <1>10 DEF GetProtected, Loaded, Run, Goto, CasSteps, ProgramType
  <2> QED  BY <2>1 DEF CopyInv, CasSteps
<1>11. CASE Publish(t)
  <2>1. pc'[t] \notin CasSteps
    BY <1>0, <1>11 DEF Publish, Goto, CasSteps, ProgramType
  <2> QED  BY <2>1 DEF CopyInv, CasSteps
<1>12. CASE GetNewIdx(t)
  <2>1. pc'[t] \notin CasSteps
    BY <1>0, <1>12 DEF GetNewIdx, Goto, CasSteps, ProgramType
  <2> QED  BY <2>1 DEF CopyInv, CasSteps
<1>13. CASE ProtectPtr(t)
  <2>1. pc'[t] \notin CasSteps
    BY <1>0, <1>13 DEF ProtectPtr, Goto, CasSteps, ProgramType
  <2> QED  BY <2>1 DEF CopyInv, CasSteps
<1>14. CASE Clear(t)
  <2>1. (lorc'[t] = orc[op[t].old] /\ ~orc[op[t].old].ret) \/ pc'[t] # "clearcas"
    BY <1>0, <1>14 DEF Clear, AfterClear, Goto, IsZero, ProgramType
  <2>2. pc'[t] \in {"clearcas", "newidx", "idle"}
    BY <1>0, <1>14 DEF Clear, AfterClear, Goto, ProgramType
  <2> QED  BY <2>1, <2>2 DEF CopyInv
<1>15. CASE ClearCas(t)
  <2>1. pc'[t] \notin CasSteps
    BY <1>0, <1>15 DEF ClearCas, CasRetired, AfterClear, Retire, Goto, CasSteps,
      ProgramType
  <2> QED  BY <2>1 DEF CopyInv, CasSteps
<1>16. CASE IncrementOrc(t)
  <2>1. CASE pc'[t] # "inccas"
    <3>1. pc'[t] \notin CasSteps
      BY <1>0, <1>16, <2>1 DEF IncrementOrc, Goto, AfterInc, CasSteps, ProgramType
    <3> QED  BY <3>1 DEF CopyInv, CasSteps
  <2>2. CASE pc'[t] = "inccas"
    <3>1. ~lorc'[t].ret
      BY <1>0, <1>16, <2>2 DEF IncrementOrc, Goto, AfterInc, IsZero, ProgramType
    <3> QED  BY <2>2, <3>1 DEF CopyInv
  <2> QED  BY <2>1, <2>2
<1>17. CASE IncrementCas(t)
  <2>1. pc'[t] \notin CasSteps
    BY <1>0, <1>17 DEF IncrementCas, CasRetired, Retire, Goto, AfterInc, CasSteps, ProgramType
  <2> QED  BY <2>1 DEF CopyInv, CasSteps
<1>18. CASE Exchange(t)
  <2>1. pc'[t] \notin CasSteps
    BY <1>0, <1>18 DEF Exchange, Goto, CasSteps, ProgramType
  <2> QED  BY <2>1 DEF CopyInv, CasSteps
<1>19. CASE DecrementProtect(t)
  <2>1. pc'[t] \notin CasSteps
    BY <1>0, <1>19 DEF DecrementProtect, Goto, CasSteps, ProgramType
  <2> QED  BY <2>1 DEF CopyInv, CasSteps
<1>20. CASE DecrementOrc(t)
  <2> DEFINE o == dec[t][Level(t)].ptr
             d == [ptr |-> o, word |-> [orc[o] EXCEPT !.cnt = @ - 1, !.seq = @ + 1]]
  <2>1. \/ Goto(t, "retireOne")
        \/ DecrementTest(t, d)
    BY <1>20 DEF DecrementOrc
  <2>2. UNCHANGED retireStarted
    BY <1>20 DEF DecrementOrc, retVars
  <2> HIDE DEF d
  <2>3. CASE Goto(t, "retireOne")
    BY <1>0, <2>3, GotoLocals DEF CopyInv
  <2>4. CASE DecrementTest(t, d)
    BY <1>0, <2>2, <2>4, TestCopyInv
  <2> QED  BY <2>1, <2>3, <2>4
<1>21. CASE ResetRetcnt(t)
  <2>1. DecrementTest(t, dec[t][Level(t)]) /\ UNCHANGED retireStarted
    BY <1>21 DEF ResetRetcnt, retVars
  <2> QED  BY <1>0, <2>1, TestCopyInv
<1>22. CASE DecrementCas(t)
  <2>1. pc'[t] \notin CasSteps
    BY <1>0, <1>22 DEF DecrementCas, CasRetired, Retire, Goto, AfterDec, CasSteps, ProgramType
  <2> QED  BY <2>1 DEF CopyInv, CasSteps
<1>23. CASE RetireOne(t)
  <2>1. pc'[t] \notin CasSteps
    BY <1>0, <1>23 DEF RetireOne, Goto, CasSteps, ProgramType
  <2> QED  BY <2>1 DEF CopyInv, CasSteps
<1>24. CASE Seek(t)
  <2>1. pc'[t] \notin CasSteps
    BY <1>0, <1>24 DEF Seek, SeekNext, Goto, CasSteps, ProgramType
  <2> QED  BY <2>1 DEF CopyInv, CasSteps
<1>25. CASE SeekHP(t)
  <2>1. pc'[t] \notin CasSteps
    BY <1>0, <1>25 DEF SeekHP, SeekNext, Goto, CasSteps, ProgramType
  <2> QED  BY <2>1 DEF CopyInv, CasSteps
<1>26. CASE TakeHandover(t)
  <2>1. pc'[t] \notin CasSteps
    BY <1>0, <1>26 DEF TakeHandover, Retire, Goto, CasSteps, ProgramType
  <2> QED  BY <2>1 DEF CopyInv, CasSteps
<1>27. CASE RetireSelf(t)
  <2>1. pc'[t] \notin CasSteps
    BY <1>0, <1>27 DEF RetireSelf, Continue, Goto, Returns, CasSteps, ProgramType
  <2> QED  BY <2>1 DEF CopyInv, CasSteps
<1>28. CASE RetireLoad(t)
  <2>1. pc'[t] \notin CasSteps
    BY <1>0, <1>28 DEF RetireLoad, Goto, TryHandover, CasSteps, ProgramType
  <2> QED  BY <2>1 DEF CopyInv, CasSteps
<1>29. CASE ClearBitProtect(t)
  <2>1. pc'[t] \notin CasSteps
    BY <1>0, <1>29 DEF ClearBitProtect, Goto, CasSteps, ProgramType
  <2> QED  BY <2>1 DEF CopyInv, CasSteps
<1>30. CASE ClearBit(t)
  <2>1. pc'[t] \in {"cbcas", "cbfail"}
    BY <1>0, <1>30 DEF ClearBit, Goto, ProgramType
  <2>2. ptr[t] \in Obj
    BY <1>0, <1>30 DEF ClearBit, LoopInv, LoopSteps
  <2> DEFINE w == [orc[ptr[t]] EXCEPT !.ret = FALSE]
  <2>3. ~w.ret
    BY <2>2 DEF TypeOK, ObjType, Word
  <2>4. lorc'[t] = w
    BY <1>0, <1>30 DEF ClearBit
  <2> QED  BY <2>1, <2>3, <2>4 DEF CopyInv
<1>31. CASE ClearBitCas(t)
  <2>1. pc'[t] \notin CasSteps
    BY <1>0, <1>31 DEF ClearBitCas, Goto, CasSteps, ProgramType
  <2> QED  BY <2>1 DEF CopyInv, CasSteps
<1>32. CASE ClearBitOk(t)
  <2>1. pc'[t] \notin CasSteps
    BY <1>0, <1>32 DEF ClearBitOk, Goto, TryHandover, CasSteps, ProgramType
  <2> QED  BY <2>1 DEF CopyInv, CasSteps
<1>33. CASE ClearBitFail(t)
  <2>1. pc'[t] \notin CasSteps
    BY <1>0, <1>33 DEF ClearBitFail, Continue, Goto, Returns, CasSteps, ProgramType
  <2> QED  BY <2>1 DEF CopyInv, CasSteps
<1>34. CASE ScanThreads(t)
  <2>1. pc'[t] \notin CasSteps
    BY <1>0, <1>34 DEF ScanThreads, Goto, CasSteps, ProgramType
  <2> QED  BY <2>1 DEF CopyInv, CasSteps
<1>35. CASE ScanHPs(t)
  <2>1. pc'[t] \notin CasSteps
    BY <1>0, <1>35 DEF ScanHPs, Goto, CasSteps, ProgramType
  <2> QED  BY <2>1 DEF CopyInv, CasSteps
<1>36. CASE Scan(t)
  <2>1. pc'[t] \notin CasSteps
    BY <1>0, <1>36 DEF Scan, Goto, CasSteps, ProgramType
  <2> QED  BY <2>1 DEF CopyInv, CasSteps
<1>37. CASE HandOver(t)
  <2>1. pc'[t] \notin CasSteps
    BY <1>0, <1>37 DEF HandOver, Continue, Goto, Returns, CasSteps, ProgramType
  <2> QED  BY <2>1 DEF CopyInv, CasSteps
<1>38. CASE CheckWord(t)
  <2>1. pc'[t] \notin CasSteps
    BY <1>0, <1>38 DEF CheckWord, Goto, CasSteps, ProgramType
  <2> QED  BY <2>1 DEF CopyInv, CasSteps
<1>39. CASE Destroy(t)
  <2>1. pc'[t] \notin CasSteps
    BY <1>0, <1>39 DEF Destroy, Goto, CasSteps, ProgramType
  <2> QED  BY <2>1 DEF CopyInv, CasSteps
<1>40. CASE FreeObj(t)
  <2>1. pc'[t] \notin CasSteps
    BY <1>0, <1>40 DEF FreeObj, Continue, Goto, Returns, CasSteps, ProgramType
  <2> QED  BY <2>1 DEF CopyInv, CasSteps
<1>41. CASE Sweep(t)
  <2>1. pc'[t] \notin CasSteps
    BY <1>0, <1>41 DEF Sweep, Retire, Goto, CasSteps, ProgramType
  <2> QED  BY <2>1 DEF CopyInv, CasSteps
<1> QED  BY <1>1, <1>2, <1>3, <1>3a, <1>4, <1>5, <1>6, <1>7, <1>8, <1>9, <1>10, <1>11,
            <1>12, <1>13, <1>14, <1>15, <1>16, <1>17, <1>18, <1>19, <1>20, <1>21,
            <1>22, <1>23, <1>24, <1>25, <1>26, <1>27, <1>28, <1>29, <1>30, <1>31,
            <1>32, <1>33, <1>34, <1>35, <1>36, <1>37, <1>38, <1>39, <1>40, <1>41 DEF
            Begin, Call

\* Freed memory keeps BRETIRED set.
LEMMA FreeMarked ==
    ASSUME RetireInv, NEW t \in Threads, Begin(t) \/ Call(t)
    PROVE  \A x \in Obj \ alive' : orc'[x].ret
<1>0. /\ TypeOK /\ LoopInv(t) /\ OperandInv(t) /\ orc \in [Obj -> Word]
      /\ OneRetirer /\ Marked /\ hand[t] = InHand(t)
      /\ \A x \in Obj \ alive : orc[x].ret
  BY RetireFacts DEF TypeOK, ObjType
<1>1. CASE Register(t)
  BY <1>0, <1>1 DEF Register, objVars
<1>2. CASE MakeOrc(t)
  BY <1>0, <1>2 DEF MakeOrc, objVars
<1>3. CASE Load(t)
  BY <1>0, <1>3 DEF Load, objVars
<1>3a. CASE Assign(t)
  BY <1>0, <1>3a DEF Assign, objVars
<1>4. CASE Store(t)
  BY <1>0, <1>4 DEF Store, objVars
<1>5. CASE CompareExchange(t)
  BY <1>0, <1>5 DEF CompareExchange, objVars
<1>6. CASE PoisonCell(t)
  BY <1>0, <1>6 DEF PoisonCell, objVars
<1>7. CASE CopyPtr(t)
  BY <1>0, <1>7 DEF CopyPtr, objVars
<1>8. CASE DropPtr(t)
  BY <1>0, <1>8 DEF DropPtr, objVars
<1>9. CASE Shutdown(t)
  BY <1>0, <1>9 DEF Shutdown, objVars
<1>10. CASE GetProtected(t)
  BY <1>0, <1>10 DEF GetProtected, objVars
<1>11. CASE Publish(t)
  BY <1>0, <1>11 DEF Publish, objVars
<1>12. CASE GetNewIdx(t)
  BY <1>0, <1>12 DEF GetNewIdx, objVars
<1>13. CASE ProtectPtr(t)
  BY <1>0, <1>13 DEF ProtectPtr, objVars
<1>14. CASE Clear(t)
  BY <1>0, <1>14 DEF Clear, objVars
<1>15. CASE ClearCas(t)
  <2>1. alive' = alive /\ (orc' = orc \/ \E o : orc' = [orc EXCEPT ![o].ret = TRUE])
    BY <1>15 DEF ClearCas, CasRetired
  <2> QED  BY <1>0, <2>1 DEF Word
<1>16. CASE IncrementOrc(t)
  <2> DEFINE o == op[t].new
             w == [orc[o] EXCEPT !.cnt = @ + 1]
  <2>1. orc' = [orc EXCEPT ![o] = w] /\ alive' = alive
    BY <1>16 DEF IncrementOrc
  <2>2. o \in Obj
    BY <1>0, <1>16 DEF IncrementOrc, OperandInv, Ready, DecSteps
  <2>3. w.ret = orc[o].ret
    BY <1>0, <2>2 DEF Word
  <2> HIDE DEF o, w
  <2> QED  BY <1>0, <2>1, <2>2, <2>3
<1>17. CASE IncrementCas(t)
  <2>1. alive' = alive /\ (orc' = orc \/ \E o : orc' = [orc EXCEPT ![o].ret = TRUE])
    BY <1>17 DEF IncrementCas, CasRetired
  <2> QED  BY <1>0, <2>1 DEF Word
<1>18. CASE Exchange(t)
  BY <1>0, <1>18 DEF Exchange, objVars
<1>19. CASE DecrementProtect(t)
  BY <1>0, <1>19 DEF DecrementProtect, objVars
<1>20. CASE DecrementOrc(t)
  <2> DEFINE o == dec[t][Level(t)].ptr
             w == [orc[o] EXCEPT !.cnt = @ - 1, !.seq = @ + 1]
  <2>1. orc' = [orc EXCEPT ![o] = w] /\ alive' = alive
    BY <1>20 DEF DecrementOrc
  <2>2. o \in Obj
    BY <1>0, <1>20 DEF DecrementOrc, OperandInv, Ready, DecSteps
  <2>3. w.ret = orc[o].ret
    BY <1>0, <2>2 DEF Word
  <2> HIDE DEF o, w
  <2> QED  BY <1>0, <2>1, <2>2, <2>3
<1>21. CASE ResetRetcnt(t)
  BY <1>0, <1>21 DEF ResetRetcnt, objVars
<1>22. CASE DecrementCas(t)
  <2>1. alive' = alive /\ (orc' = orc \/ \E o : orc' = [orc EXCEPT ![o].ret = TRUE])
    BY <1>22 DEF DecrementCas, CasRetired
  <2> QED  BY <1>0, <2>1 DEF Word
<1>23. CASE RetireOne(t)
  BY <1>0, <1>23 DEF RetireOne, objVars
<1>24. CASE Seek(t)
  BY <1>0, <1>24 DEF Seek, objVars
<1>25. CASE SeekHP(t)
  BY <1>0, <1>25 DEF SeekHP, objVars
<1>26. CASE TakeHandover(t)
  BY <1>0, <1>26 DEF TakeHandover, objVars
<1>27. CASE RetireSelf(t)
  BY <1>0, <1>27 DEF RetireSelf, objVars
<1>28. CASE RetireLoad(t)
  BY <1>0, <1>28 DEF RetireLoad, objVars
<1>29. CASE ClearBitProtect(t)
  BY <1>0, <1>29 DEF ClearBitProtect, objVars
<1>30. CASE ClearBit(t)
  <2>1. ptr[t] \in Obj /\ hand[t] = ptr[t]
    BY <1>0, <1>30 DEF ClearBit, LoopInv, LoopSteps, InHand
  <2>2. ptr[t] \in alive
    BY <1>0, <2>1 DEF Marked, Fresh, NotInHand
  <2>3. alive' = alive /\ orc' = [orc EXCEPT ![ptr[t]] = [orc[ptr[t]] EXCEPT !.ret = FALSE]]
    BY <1>30 DEF ClearBit
  <2> QED  BY <1>0, <2>2, <2>3
<1>31. CASE ClearBitCas(t)
  <2>1. alive' = alive /\ (orc' = orc \/ orc' = [orc EXCEPT ![ptr[t]].ret = TRUE])
    BY <1>31 DEF ClearBitCas
  <2> QED  BY <1>0, <2>1 DEF Word
<1>32. CASE ClearBitOk(t)
  BY <1>0, <1>32 DEF ClearBitOk, objVars
<1>33. CASE ClearBitFail(t)
  BY <1>0, <1>33 DEF ClearBitFail, objVars
<1>34. CASE ScanThreads(t)
  BY <1>0, <1>34 DEF ScanThreads, objVars
<1>35. CASE ScanHPs(t)
  BY <1>0, <1>35 DEF ScanHPs, objVars
<1>36. CASE Scan(t)
  BY <1>0, <1>36 DEF Scan, objVars
<1>37. CASE HandOver(t)
  BY <1>0, <1>37 DEF HandOver, objVars
<1>38. CASE CheckWord(t)
  BY <1>0, <1>38 DEF CheckWord, objVars
<1>39. CASE Destroy(t)
  BY <1>0, <1>39 DEF Destroy, objVars
<1>40. CASE FreeObj(t)
  <2>1. alive' = alive \ {ptr[t]} /\ orc' = [orc EXCEPT ![ptr[t]] = FreeWord]
    BY <1>40 DEF FreeObj
  <2>2. FreeWord.ret
    BY DEF FreeWord, NewWord
  <2> QED  BY <1>0, <2>1, <2>2
<1>41. CASE Sweep(t)
  BY <1>0, <1>41 DEF Sweep, objVars
<1> QED  BY <1>1, <1>2, <1>3, <1>3a, <1>4, <1>5, <1>6, <1>7, <1>8, <1>9, <1>10, <1>11,
            <1>12, <1>13, <1>14, <1>15, <1>16, <1>17, <1>18, <1>19, <1>20, <1>21,
            <1>22, <1>23, <1>24, <1>25, <1>26, <1>27, <1>28, <1>29, <1>30, <1>31,
            <1>32, <1>33, <1>34, <1>35, <1>36, <1>37, <1>38, <1>39, <1>40, <1>41 DEF
            Begin, Call

\* Every step of a thread keeps RetireInv ...
LEMMA RetireStepInv ==
    ASSUME RetireInv, NEW t \in Threads, Begin(t) \/ Call(t)
    PROVE  RetireInv'
<1>0. LocalsInv /\ TypeOK /\ WordInv /\ LoopInv(t) /\ OperandInv(t)
  BY RetireFacts DEF RetireInv
<1>1. LocalsInv'
  BY <1>0, LocalsStep DEF Next
<1>2. OneRetirer'
  BY RetirerStep
<1>3. ASSUME NEW u \in Threads
      PROVE  CopyInv(u)'
  <2>1. CASE u = t
    BY <1>0, <2>1, OwnCopyInv
  <2>2. CASE u # t
    <3>1. Frame(u) /\ lorc'[u] = lorc[u]
      BY <1>0, <2>2, FrameStep, CopyFrame
    <3>2. CopyInv(u)
      BY <1>0 DEF WordInv, CopyInv
    <3> QED  BY <3>1, <3>2 DEF CopyInv, Frame, Level
  <2> QED  BY <2>1, <2>2
<1>4. \A x \in Obj \ alive' : orc'[x].ret
  BY FreeMarked
<1>5. WordInv'
  BY <1>3, <1>4 DEF WordInv, CopyInv
<1> QED  BY <1>1, <1>2, <1>5 DEF RetireInv

\* ... a step that changes nothing keeps it ...
LEMMA RetireStutter ==
    ASSUME RetireInv, UNCHANGED vars
    PROVE  RetireInv'
<1> USE DEF RetireInv, vars, objVars, hpVars, gcVars, decVars, retVars, endVars
<1>1. LocalsInv'
  BY LocalsStep
<1>2. WordInv'
  BY DEF WordInv, Level
<1>3. hand' = hand
  BY DEF hand, InHand
<1>4. OneRetirer'
  BY <1>3 DEF OneRetirer
<1> QED  BY <1>1, <1>2, <1>4

\* ... and the initial states have it.
LEMMA InitRetire ==
    ASSUME Init
    PROVE  RetireInv
<1>1. LocalsInv
  BY InitLocals
<1>2. WordInv
  BY WordFacts DEF Init, WordInv, FreeWord, NewWord
<1>3. hand = [t \in Threads |-> Null]
  BY DEF Init, hand, InHand
<1>4. \A o \in Obj : Fresh(o, hand, handovers, rlist)
  BY <1>3, ValueAssumption DEF Init, Fresh, NotInHand, NotInEntry, NotInList
<1>5. Exclusive(hand, handovers, rlist)
  BY <1>3, ValueAssumption
     DEF Init, Exclusive, HandsApart, EntriesApart, ListsApart
<1> QED  BY <1>1, <1>2, <1>4, <1>5 DEF RetireInv, OneRetirer

\* RetireInv is inductive: LocalsInv, WordInv and OneRetirer together are
\* kept by every step of every thread.
THEOREM RetireInvariant == Spec => []RetireInv
<1>1. Init => RetireInv
  BY InitRetire
<1>2. RetireInv /\ [Next]_vars => RetireInv'
  BY RetireStepInv, RetireStutter DEF Next, Down
<1> QED  BY <1>1, <1>2, PTL DEF Spec

\* For any number of threads, objects and hazardous pointers and for every
\* program: an object that retire() works on, that waits in a recursiveList
\* or in handovers exists, has BRETIRED set and is in no second such place.
\* No object is ever deleted twice, whatever the order of the CASes.
THEOREM RetirementIsExclusive == Spec => []OneRetirer
<1>1. RetireInv => OneRetirer
  BY DEF RetireInv
<1> QED  BY <1>1, RetireInvariant, PTL


-----------------------------------------------------------------------------

\* What Goto(t, l) does to the locals of t.
Moves(t, l) == pc'[t] = l /\ op'[t] = (IF l = "idle" THEN NoOp ELSE op[t])

\* The locals of retire() that Guarded(t) is about.
SameRetire(t) ==
    ptr'[t] = ptr[t] /\ retireStarted'[t] = retireStarted[t] /\ retTo'[t] = retTo[t]

\* retire() starts on p.
Enters(t, p, l) ==
    /\ ~retireStarted[t] /\ p \in Obj /\ Moves(t, "self")
    /\ ptr'[t] = p /\ retTo'[t] = l /\ ~retireStarted'[t]

\* retire() goes on with another object, or returns.
GoesOn(t) ==
    /\ Moves(t, "load") /\ ptr'[t] \in Obj
    /\ retireStarted'[t] /\ retTo'[t] = retTo[t]
Comes(t) ==
    /\ Moves(t, retTo[t]) /\ ptr'[t] = Null
    /\ ~retireStarted'[t] /\ retTo'[t] = "idle"

\* Goto(t, l), seen from the locals of t.
LEMMA GotoMoves ==
    ASSUME ProgramType, NEW t \in Threads, NEW l, Goto(t, l)
    PROVE  Moves(t, l)
  BY DEF ProgramType, Goto, Moves

\* The three outcomes of a call of retire(p).
LEMMA RetireCases ==
    ASSUME ProgramType, RetType, NEW t \in Threads, NEW p \in Ptr, NEW l, Retire(t, p, l)
    PROVE  (Moves(t, l) /\ SameRetire(t)) \/ Enters(t, p, l)
<1>1. CASE p = Null
  BY <1>1, GotoMoves DEF Retire, SameRetire, retVars
<1>2. CASE p # Null /\ retireStarted[t]
  BY <1>2, GotoMoves DEF Retire, SameRetire
<1>3. CASE p # Null /\ ~retireStarted[t]
  <2>1. Moves(t, "self")
    BY <1>3, GotoMoves DEF Retire
  <2> QED  BY <1>3, <2>1 DEF Retire, RetType, Ptr, Enters
<1> QED  BY <1>1, <1>2, <1>3

\* The two outcomes of a CAS that sets BRETIRED.
LEMMA CasCases ==
    ASSUME ProgramType, RetType, NEW t \in Threads, NEW o \in Ptr, NEW w, NEW l,
           CasRetired(t, o, w, l)
    PROVE  (Moves(t, l) /\ SameRetire(t)) \/ Enters(t, o, l)
<1>1. CASE Retire(t, o, l)
  BY <1>1, RetireCases
<1>2. CASE Goto(t, l) /\ UNCHANGED retVars
  BY <1>2, GotoMoves DEF SameRetire, retVars
<1> QED  BY <1>1, <1>2 DEF CasRetired

\* The loop of retire() goes on or retire() returns.
LEMMA ContinueCases ==
    ASSUME ProgramType, RetType, ScanType, NEW t \in Threads, LoopInv(t),
           NEW p \in Ptr, Continue(t, p)
    PROVE  scan'[t] = {} /\ (GoesOn(t) \/ Comes(t))
<1>1. scan'[t] = {}
  BY DEF Continue, ScanType
<1>2. CASE p # Null
  <2>1. Moves(t, "load")
    BY <1>2, GotoMoves DEF Continue
  <2> QED  BY <1>1, <1>2, <2>1 DEF Continue, RetType, Ptr, GoesOn
<1>3. CASE p = Null /\ rlist[t] # <<>>
  <2>1. Moves(t, "load")
    BY <1>3, GotoMoves DEF Continue
  <2>2. ptr'[t] \in Obj
    BY <1>3 DEF Continue, RetType
  <2>3. retireStarted[t]
    BY <1>3 DEF LoopInv
  <2> QED  BY <1>1, <1>3, <2>1, <2>2, <2>3 DEF Continue, GoesOn
<1>4. CASE p = Null /\ rlist[t] = <<>>
  <2>1. Moves(t, retTo[t])
    BY <1>4, GotoMoves DEF Continue
  <2> QED  BY <1>1, <1>4, <2>1 DEF Continue, RetType, Comes
<1> QED  BY <1>2, <1>3, <1>4

\* Which steps write the variables that threads share or keep.
LinkSteps(t) == MakeOrc(t) \/ CompareExchange(t) \/ PoisonCell(t) \/ Exchange(t) \/ FreeObj(t)
HpSteps(t) == \/ MakeOrc(t) \/ Publish(t) \/ ProtectPtr(t) \/ DecrementProtect(t)
              \/ ClearBitProtect(t) \/ ClearBitOk(t) \/ ClearBitFail(t)
SlotSteps(t) == DropPtr(t) \/ GetProtected(t) \/ ProtectPtr(t)
CountSteps(t) == MakeOrc(t) \/ IncrementOrc(t) \/ DecrementOrc(t) \/ FreeObj(t)

\* Which steps write the memory that the threads share.
LEMMA WhoWrites ==
    ASSUME NEW t \in Threads, Begin(t) \/ Call(t)
    PROVE  /\ ~LinkSteps(t) => link' = link
           /\ ~(MakeOrc(t) \/ FreeObj(t)) => alive' = alive
           /\ ~HpSteps(t) => hp' = hp
           /\ ~SlotSteps(t) => slot' = slot
           /\ ~GetNewIdx(t) => maxHPs' = maxHPs
           /\ ~Register(t) => maxThreads' = maxThreads
           /\ ~Shutdown(t) => inDestructor' = inDestructor
<1> USE DEF LinkSteps, HpSteps, SlotSteps, objVars, hpVars, gcVars, endVars
<1>1. CASE Begin(t)
  BY <1>1 DEF Begin, Register, MakeOrc, Load, Assign, Store, CompareExchange, PoisonCell,
     CopyPtr, DropPtr, Shutdown
<1>2. CASE Call(t)
  BY <1>2 DEF Call, GetProtected, Publish, GetNewIdx, ProtectPtr, Clear, ClearCas,
       IncrementOrc, IncrementCas, Exchange, DecrementProtect, DecrementOrc, ResetRetcnt,
       DecrementCas, RetireOne, Seek, SeekHP, TakeHandover, RetireSelf, RetireLoad,
       ClearBitProtect, ClearBit, ClearBitCas, ClearBitOk, ClearBitFail, ScanThreads,
       ScanHPs, Scan, HandOver, CheckWord, Destroy, FreeObj, Sweep
<1> QED  BY <1>1, <1>2

\* The locals of another thread stay, and with them what it relies on.
Wide(u) ==
    /\ Frame(u) /\ slot'[u] = slot[u] /\ hp'[u] = hp[u]
    /\ lorc'[u] = lorc[u] /\ scan'[u] = scan[u]

\* The steps of t leave the locals of every other thread alone.
LEMMA WideFrame ==
    ASSUME TypeOK, NEW t \in Threads, Begin(t) \/ Call(t), NEW u \in Threads \ {t}
    PROVE  Wide(u)
<1>0. /\ scan \in [Threads -> SUBSET Place]
      /\ slot \in [Threads -> [PtrIdx -> [ptr : Ptr, lnk : BOOLEAN]]]
      /\ hp \in [Threads -> [Idx -> Ptr \cup {Poison}]]
  BY DEF TypeOK, ScanType, ProgramType, HpType
<1>1. Frame(u) /\ lorc'[u] = lorc[u]
  BY FrameStep, CopyFrame
<1>2. scan'[u] = scan[u]
  <2> USE <1>0 DEF gcVars
  <2>1. CASE Begin(t)
    BY <2>1 DEF Begin, Register, MakeOrc, Load, Assign, Store, CompareExchange, PoisonCell,
       CopyPtr, DropPtr, Shutdown
  <2>2. CASE Call(t)
    BY <2>2 DEF Call, GetProtected, Publish, GetNewIdx, ProtectPtr, Clear, ClearCas,
       IncrementOrc, IncrementCas, Exchange, DecrementProtect, DecrementOrc, ResetRetcnt,
       DecrementCas, RetireOne, Seek, SeekHP, SeekNext, TakeHandover, RetireSelf, Continue,
       RetireLoad, ClearBitProtect, ClearBit, ClearBitCas, ClearBitOk, ClearBitFail,
       ScanThreads, ScanHPs, Scan, HandOver, CheckWord, Destroy, FreeObj, Sweep
  <2> QED  BY <2>1, <2>2
<1>3. slot'[u] = slot[u]
  BY <1>0, WhoWrites DEF SlotSteps, DropPtr, GetProtected, Loaded, ProtectPtr
<1>4. hp'[u] = hp[u]
  BY <1>0, WhoWrites DEF HpSteps, MakeOrc, Publish, ProtectPtr, DecrementProtect,
     ClearBitProtect, ClearBitOk, ClearBitFail
<1> QED  BY <1>1, <1>2, <1>3, <1>4 DEF Wide

\* An operation at one of these steps is not inside retire().
Outside == {"idle", "read", "publish", "newidx", "protect", "clear", "clearcas",
            "inc", "inccas", "xchg", "sweep", "down"}
LEMMA OutsideFacts ==
    ASSUME NEW t \in Threads, LoopInv(t), pc[t] \in Outside
    PROVE  ~retireStarted[t] /\ ptr[t] = Null /\ rlist[t] = <<>> /\ retTo[t] = "idle"
  BY DEF Outside, LoopInv, LoopSteps, DecSteps

\* In the destructor only its thread steps, and it has no orc_ptr.
LEMMA DownStep ==
    ASSUME RetireInv, DownInv, NEW t \in Threads, Begin(t) \/ Call(t)
    PROVE  DownInv'
<1>0. /\ TypeOK /\ ProgramType /\ RetType /\ ScanType /\ LocalsInv /\ LoopInv(t) /\ DownInv
      /\ \A u \in Threads \ {t} : Wide(u)
      /\ op[t].old \in Ptr /\ op[t].new \in Ptr /\ dec[t][Level(t)].ptr \in Ptr
      /\ \A u \in Threads, i \in Idx : handovers[u][i] \in Ptr
      /\ ptr[t] \in Ptr
  BY WideFrame, LocalTypes DEF RetireInv, LocalsInv, TypeOK
<1>1. CASE Shutdown(t)
  <2>1. /\ \A u \in Threads : pc[u] = "idle" /\ Held(u) = {}
        /\ slot' = slot /\ pc'[t] \in {"sweep", "down"}
    BY <1>0, <1>1 DEF Shutdown, Goto, ProgramType
  <2>2. \A u \in Threads : Held(u)' = {}
    BY <2>1 DEF Held
  <2>3. \A u \in Threads \ {t} : pc'[u] = "idle"
    BY <1>0, <2>1 DEF Wide, Frame
  <2> QED  BY <2>1, <2>2, <2>3 DEF DownInv
<1>2. CASE ~Shutdown(t) /\ ~inDestructor
  BY <1>2, WhoWrites DEF DownInv
<1>3. CASE ~Shutdown(t) /\ inDestructor
  <2>1. Call(t)
    BY <1>3 DEF Begin, Register, MakeOrc, Load, Assign, Store, CompareExchange, PoisonCell, CopyPtr,
       DropPtr, Shutdown, Start
  <2>2. pc[t] # "idle"
    BY <2>1 DEF Call, GetProtected, Publish, GetNewIdx, ProtectPtr, Clear, ClearCas,
       IncrementOrc, IncrementCas, Exchange, DecrementProtect, DecrementOrc, ResetRetcnt,
       DecrementCas, RetireOne, Seek, SeekHP, TakeHandover, RetireSelf, RetireLoad,
       ClearBitProtect, ClearBit, ClearBitCas, ClearBitOk, ClearBitFail, ScanThreads,
       ScanHPs, Scan, HandOver, CheckWord, Destroy, FreeObj, Sweep
  <2>3. pc[t] \in {"sweep", "down"} \/ retTo[t] \in {"sweep", "down"}
    BY <1>0, <1>3, <2>2 DEF DownInv
  <2>4. pc[t] \notin {"sweep", "down"} => /\ retTo[t] \in {"sweep", "down"}
                                          /\ retireStarted[t] \/ pc[t] = "self"
    BY <1>0, <2>3 DEF LoopInv
  <2>5. pc[t] \notin {"read", "publish", "newidx", "protect", "clear", "clearcas", "inc", "inccas", "xchg"}
    BY <1>0, <2>4, OutsideFacts DEF Outside
  <2>6. slot' = slot
    BY <1>3, <2>1, <2>5, WhoWrites DEF SlotSteps, DropPtr, GetProtected, ProtectPtr
  <2>7. pc'[t] \in {"sweep", "down"} \/ retTo'[t] \in {"sweep", "down"}
    <3>1. CASE Sweep(t)
      <4>1. PICK q \in left, l \in {"sweep", "down"} : Retire(t, handovers[q[1]][q[2]], l)
        BY <3>1 DEF Sweep
      <4>2. handovers[q[1]][q[2]] \in Ptr
        BY <1>0, <4>1 DEF ScanType, Place
      <4> QED  BY <1>0, <4>1, <4>2, RetireCases DEF Moves, Enters
    <3>2. CASE RetireSelf(t) \/ ClearBitFail(t) \/ HandOver(t) \/ FreeObj(t)
      <4>1. \E p \in Ptr : Continue(t, p)
        <5>1. CASE RetireSelf(t)
          BY <1>0, <5>1 DEF RetireSelf, OwnHp
        <5>2. CASE ClearBitFail(t) \/ FreeObj(t)
          BY <5>2 DEF ClearBitFail, FreeObj, Ptr
        <5>3. CASE HandOver(t)
          <6>1. PICK q \in scan[t] : Continue(t, handovers[q[1]][q[2]])
            BY <5>3 DEF HandOver
          <6>2. handovers[q[1]][q[2]] \in Ptr
            BY <1>0, <6>1 DEF ScanType, Place
          <6> QED  BY <6>1, <6>2
        <5> QED  BY <3>2, <5>1, <5>2, <5>3
      <4>2. GoesOn(t) \/ Comes(t)
        BY <1>0, <4>1, ContinueCases
      <4>3. retTo[t] \in {"sweep", "down"}
        BY <2>4, <3>2 DEF RetireSelf, ClearBitFail, HandOver, FreeObj
      <4> QED  BY <4>2, <4>3 DEF GoesOn, Comes, Moves
    <3>3. CASE DecrementCas(t) \/ TakeHandover(t)
      <4>1. retTo[t] \in {"sweep", "down"} /\ retireStarted[t]
        BY <2>4, <3>3 DEF DecrementCas, TakeHandover
      <4>2. retTo'[t] = retTo[t]
        <5>1. CASE DecrementCas(t)
          BY <1>0, <5>1, <4>1, CasCases DEF DecrementCas, SameRetire, Enters
        <5>2. CASE TakeHandover(t)
          <6>1. PICK q \in scan[t] : Retire(t, handovers[q[1]][q[2]], "reset")
            BY <5>2 DEF TakeHandover
          <6>2. handovers[q[1]][q[2]] \in Ptr
            BY <1>0, <6>1 DEF ScanType, Place
          <6> QED  BY <1>0, <4>1, <6>1, <6>2, RetireCases DEF SameRetire, Enters
        <5> QED  BY <3>3, <5>1, <5>2
      <4> QED  BY <4>1, <4>2
    <3>4. CASE /\ ~Sweep(t) /\ ~RetireSelf(t) /\ ~ClearBitFail(t) /\ ~HandOver(t) /\ ~FreeObj(t)
               /\ ~DecrementCas(t) /\ ~TakeHandover(t)
      <4>1. retTo'[t] = retTo[t] /\ pc[t] \notin {"sweep", "down"}
        BY <2>1, <2>5, <3>4 DEF Call, GetProtected, Publish, GetNewIdx, ProtectPtr, Clear, ClearCas,
           IncrementOrc, IncrementCas, Exchange, DecrementProtect, DecrementOrc, ResetRetcnt,
           RetireOne, Seek, SeekHP, RetireLoad, ClearBitProtect, ClearBit, ClearBitCas, ClearBitOk,
           ScanThreads, ScanHPs, Scan, CheckWord, Destroy, gcVars, retVars
      <4> QED  BY <2>4, <4>1
    <3> QED  BY <3>1, <3>2, <3>3, <3>4
  <2>8. \A u \in Threads \ {t} : pc'[u] = "idle"
    <3>1. \A u \in Threads \ {t} : pc[u] = "idle"
      BY <1>0, <1>3, <2>2 DEF DownInv
    <3> QED  BY <1>0, <3>1 DEF Wide, Frame
  <2>9. \A u \in Threads : Held(u)' = {}
    BY <1>0, <1>3, <2>6 DEF DownInv, Held
  <2> QED  BY <2>7, <2>8, <2>9 DEF DownInv
<1> QED  BY <1>1, <1>2, <1>3

-----------------------------------------------------------------------------

\* Nothing is forgotten.  First, which steps move objects in retirement or
\* take one into the hand, and which write a word.
RetireSteps(t) ==
    \/ ClearCas(t) \/ IncrementCas(t) \/ DecrementCas(t) \/ TakeHandover(t) \/ Sweep(t)
    \/ RetireSelf(t) \/ HandOver(t) \/ ClearBitFail(t) \/ FreeObj(t)
WordSteps(t) ==
    \/ MakeOrc(t) \/ ClearCas(t) \/ IncrementOrc(t) \/ IncrementCas(t) \/ DecrementOrc(t)
    \/ DecrementCas(t) \/ ClearBit(t) \/ ClearBitCas(t) \/ FreeObj(t)

\* Every other step leaves them alone.
LEMMA WhoRetires ==
    ASSUME NEW t \in Threads, Begin(t) \/ Call(t)
    PROVE  /\ ~RetireSteps(t) => UNCHANGED <<handovers, rlist, ptr, retireStarted, retTo>>
           /\ ~WordSteps(t) => orc' = orc
<1> USE DEF RetireSteps, WordSteps, objVars, hpVars, gcVars, retVars
<1>1. CASE Begin(t)
  BY <1>1 DEF Begin, Register, MakeOrc, Load, Assign, Store, CompareExchange, PoisonCell,
     CopyPtr, DropPtr, Shutdown
<1>2. CASE Call(t)
  <2>1. ~WordSteps(t) => orc' = orc
    BY <1>2 DEF Call, GetProtected, Publish, GetNewIdx, ProtectPtr, Clear, Exchange,
       DecrementProtect, ResetRetcnt, RetireOne, Seek, SeekHP, TakeHandover, RetireSelf,
       RetireLoad, ClearBitProtect, ClearBitOk, ClearBitFail, ScanThreads, ScanHPs, Scan,
       HandOver, CheckWord, Destroy, Sweep
  <2>2. ~RetireSteps(t) => UNCHANGED <<handovers, rlist, ptr, retireStarted, retTo>>
    BY <1>2 DEF Call, GetProtected, Publish, GetNewIdx, ProtectPtr, Clear,
       IncrementOrc, Exchange, DecrementProtect, DecrementOrc, ResetRetcnt,
       RetireOne, Seek, SeekHP, RetireLoad, ClearBitProtect, ClearBit, ClearBitCas,
       ClearBitOk, ScanThreads, ScanHPs, Scan, CheckWord, Destroy
  <2> QED  BY <2>1, <2>2
<1> QED  BY <1>1, <1>2

\* The step that a thread takes from the labels of interest.
LEMMA StepFrom ==
    ASSUME NEW t \in Threads, Begin(t) \/ Call(t)
    PROVE  /\ pc[t] = "newidx"    => GetNewIdx(t)
           /\ pc[t] = "protect"   => ProtectPtr(t)
           /\ pc[t] = "clear"     => Clear(t)
           /\ pc[t] = "clearcas"  => ClearCas(t)
           /\ pc[t] = "inccas"    => IncrementCas(t)
           /\ pc[t] = "cbcas"     => ClearBitCas(t)
           /\ pc[t] = "deccas"    => DecrementCas(t)
           /\ pc[t] = "retireOne" => RetireOne(t)
           /\ pc[t] = "seek"      => Seek(t)
           /\ pc[t] = "seekhp"    => SeekHP(t)
           /\ pc[t] = "take"      => TakeHandover(t)
           /\ pc[t] = "reset"     => ResetRetcnt(t)
           /\ pc[t] # "idle"      => Call(t)
<1>1. ASSUME Begin(t) PROVE pc[t] = "idle"
  BY <1>1 DEF Begin, Register, MakeOrc, Load, Assign, Store, CompareExchange, PoisonCell,
     CopyPtr, DropPtr, Shutdown, Start
<1>2. CASE Call(t)
  BY <1>2 DEF Call, GetProtected, Publish, GetNewIdx, ProtectPtr, Clear, ClearCas,
       IncrementOrc, IncrementCas, Exchange, DecrementProtect, DecrementOrc, ResetRetcnt,
       DecrementCas, RetireOne, Seek, SeekHP, TakeHandover, RetireSelf, RetireLoad,
       ClearBitProtect, ClearBit, ClearBitCas, ClearBitOk, ClearBitFail, ScanThreads,
       ScanHPs, Scan, HandOver, CheckWord, Destroy, FreeObj, Sweep
<1> QED  BY <1>1, <1>2

\* The object x is in the list of t.
InList(t, x) == \E k \in DOMAIN rlist[t] : rlist[t][k] = x

\* Where an object in retirement is.
LEMMA Places ==
    ASSUME NEW o \in Obj
    PROVE  ~Fresh(o, hand, handovers, rlist) <=>
             \/ \E u \in Threads : hand[u] = o \/ InList(u, o)
             \/ \E u \in Threads, i \in Idx : handovers[u][i] = o
  BY DEF Fresh, NotInHand, NotInEntry, NotInList, InList

\* Retire(t, p, l) keeps what t has and puts p in its hand or its list.
LEMMA RetireKeeps ==
    ASSUME TypeOK, NEW t \in Threads, LoopInv(t), NEW p \in Ptr, NEW l, Retire(t, p, l),
           pc[t] \notin GaveUp \cup {"self"}, l \notin GaveUp
    PROVE  /\ p \in Obj => hand'[t] = p \/ InList(t, p)'
           /\ \A x \in Obj : hand[t] = x \/ InList(t, x) => hand'[t] = x \/ InList(t, x)'
<1>0. /\ rlist \in [Threads -> Seq(Obj)] /\ ptr \in [Threads -> Ptr] /\ ProgramType
      /\ hand[t] = InHand(t) /\ hand'[t] = InHand(t)' /\ Null \notin Obj
  BY HandTypes, ValueAssumption DEF TypeOK, hand
<1>1. CASE p = Null
  <2>1. UNCHANGED <<ptr, rlist>> /\ pc'[t] = l
    BY <1>0, <1>1, GotoLocals DEF Retire, retVars
  <2> QED  BY <1>0, <1>1, <2>1 DEF InHand, InList, GaveUp
<1>2. CASE p # Null /\ retireStarted[t]
  <2>1. rlist'[t] = Append(rlist[t], p) /\ ptr' = ptr /\ pc'[t] = l
    BY <1>0, <1>2, GotoLocals DEF Retire
  <2>2. hand'[t] = hand[t]
    BY <1>0, <2>1 DEF InHand, GaveUp
  <2>3. InList(t, p)'
    BY <1>0, <2>1 DEF InList
  <2>4. \A x \in Obj : InList(t, x) => InList(t, x)'
    BY <1>0, <2>1 DEF InList
  <2> QED  BY <2>2, <2>3, <2>4
<1>3. CASE p # Null /\ ~retireStarted[t]
  <2>1. ptr'[t] = p /\ rlist' = rlist /\ pc'[t] = "self"
    BY <1>0, <1>3, GotoLocals DEF Retire
  <2>2. hand[t] = Null
    BY <1>0, <1>3 DEF LoopInv, InHand
  <2> QED  BY <1>0, <2>1, <2>2 DEF InHand, InList, GaveUp
<1> QED  BY <1>1, <1>2, <1>3

\* Continue(t, p) takes p, or the head of the list, into the hand.
LEMMA ContinueKeeps ==
    ASSUME TypeOK, NEW t \in Threads, NEW p \in Ptr, Continue(t, p)
    PROVE  /\ p \in Obj => hand'[t] = p
           /\ \A x \in Obj : InList(t, x) => hand'[t] = x \/ InList(t, x)'
<1>0. /\ rlist \in [Threads -> Seq(Obj)] /\ ptr \in [Threads -> Ptr] /\ ProgramType
      /\ hand'[t] = InHand(t)' /\ Null \notin Obj
  BY HandTypes, ValueAssumption DEF TypeOK, hand
<1>1. CASE p # Null
  <2>1. ptr'[t] = p /\ rlist' = rlist /\ pc'[t] = "load"
    BY <1>0, <1>1, GotoLocals DEF Continue
  <2> QED  BY <1>0, <2>1 DEF InHand, InList
<1>2. CASE p = Null /\ rlist[t] # <<>>
  <2>1. ptr'[t] = Head(rlist[t]) /\ rlist'[t] = Tail(rlist[t]) /\ pc'[t] = "load"
    BY <1>0, <1>2, GotoLocals DEF Continue
  <2>2. hand'[t] = rlist[t][1]
    BY <1>0, <1>2, <2>1 DEF InHand
  <2>3. ASSUME NEW x \in Obj, NEW k \in DOMAIN rlist[t], k # 1, rlist[t][k] = x
        PROVE  InList(t, x)'
    <3>1. k - 1 \in DOMAIN rlist'[t] /\ rlist'[t][k - 1] = x
      BY <1>0, <1>2, <2>1, <2>3
    <3> QED  BY <3>1 DEF InList
  <2> QED  BY <1>0, <1>2, <2>2, <2>3 DEF InList
<1>3. CASE p = Null /\ rlist[t] = <<>>
  BY <1>0, <1>3 DEF InList
<1> QED  BY <1>1, <1>2, <1>3
\* A step that retires nothing leaves the hand of its thread as it is.
LEMMA HandStays ==
    ASSUME TypeOK, NEW t \in Threads, Begin(t) \/ Call(t),
           ~RetireSteps(t), ~ClearBit(t), ~ClearBitCas(t)
    PROVE  hand'[t] = hand[t]
<1>0. ProgramType /\ hand'[t] = InHand(t)' /\ hand[t] = InHand(t)
  BY DEF TypeOK, hand
<1>1. ptr'[t] = ptr[t]
  BY WhoRetires
<1>2. pc[t] \notin GaveUp
  BY StepFrom DEF RetireSteps, GaveUp, Call, GetProtected, Publish, GetNewIdx, ProtectPtr, Clear,
     IncrementOrc, Exchange, DecrementProtect, DecrementOrc, ResetRetcnt, RetireOne, Seek, SeekHP,
     RetireLoad, ClearBitProtect, ClearBitOk, ScanThreads, ScanHPs, Scan, CheckWord, Destroy
<1>3. pc'[t] \notin GaveUp
  <2>1. CASE Begin(t)
    BY <1>0, <2>1 DEF Begin, Register, MakeOrc, Load, Assign, Store, CompareExchange, PoisonCell,
       CopyPtr, DropPtr, Shutdown, Start, Run, Goto, GaveUp, ProgramType
  <2>2. CASE Call(t)
    BY <1>0, <2>2 DEF RetireSteps, GaveUp, Call, ProgramType, GetProtected, Loaded, Publish,
       GetNewIdx, ProtectPtr, Clear, AfterClear, IncrementOrc, AfterInc, Exchange, DecrementProtect,
       DecrementOrc, DecrementTest, AfterDec, ResetRetcnt, RetireOne, Seek, SeekNext, SeekHP,
       RetireLoad, TryHandover, ClearBitProtect, ClearBitOk, ScanThreads, ScanHPs, Scan, CheckWord,
       Destroy, Goto, Run
  <2> QED  BY <2>1, <2>2
<1> QED  BY <1>0, <1>1, <1>2, <1>3 DEF InHand, GaveUp

\* The three steps with a CAS that sets BRETIRED.
CasReturns == {"idle", "newidx", "xchg", "decprotect", "free"}
LEMMA CasRetires ==
    ASSUME LocalsInv, NEW t \in Threads, ClearCas(t) \/ IncrementCas(t) \/ DecrementCas(t)
    PROVE  \E x \in Obj, w \in Word, l \in CasReturns :
              /\ CasRetired(t, x, w, l)
              /\ l \notin GaveUp /\ pc[t] \notin GaveUp \cup {"self"}
<1>0. TypeOK /\ OperandInv(t) /\ lorc[t] \in Word /\ dec[t][Level(t)].word \in Word
  BY LocalTypes DEF LocalsInv, TypeOK, ScanType
<1>1. CASE ClearCas(t)
  <2>1. op[t].old \in Obj /\ CasRetired(t, op[t].old, lorc[t], AfterClear(t))
    BY <1>0, <1>1 DEF ClearCas, OperandInv, Ready
  <2>2. AfterClear(t) \in CasReturns \ GaveUp /\ pc[t] \notin GaveUp \cup {"self"}
    BY <1>1 DEF ClearCas, AfterClear, CasReturns, GaveUp
  <2> QED  BY <1>0, <2>1, <2>2
<1>2. CASE IncrementCas(t)
  <2>1. op[t].new \in Obj /\ CasRetired(t, op[t].new, lorc[t], AfterInc(t))
    BY <1>0, <1>2 DEF IncrementCas, OperandInv, Ready
  <2>2. AfterInc(t) \in CasReturns \ GaveUp /\ pc[t] \notin GaveUp \cup {"self"}
    BY <1>2 DEF IncrementCas, AfterInc, CasReturns, GaveUp
  <2> QED  BY <1>0, <2>1, <2>2
<1>3. CASE DecrementCas(t)
  <2>1. LET d == dec[t][Level(t)] IN d.ptr \in Obj /\ CasRetired(t, d.ptr, d.word, AfterDec(t))
    BY <1>0, <1>3 DEF DecrementCas, OperandInv, Ready, DecSteps
  <2>2. AfterDec(t) \in CasReturns \ GaveUp /\ pc[t] \notin GaveUp \cup {"self"}
    BY <1>3 DEF DecrementCas, AfterDec, CasReturns, GaveUp
  <2> QED  BY <1>0, <2>1, <2>2
<1> QED  BY <1>1, <1>2, <1>3

\* An object that has BRETIRED already stays in one of the places, or its bit
\* is cleared or it is deleted.
LEMMA PlacesKept ==
    ASSUME RetireInv, NEW t \in Threads, Begin(t) \/ Call(t), NEW o \in Obj,
           ~Fresh(o, hand, handovers, rlist), o \in alive', orc'[o].ret
    PROVE  ~Fresh(o, hand, handovers, rlist)'
<1> DEFINE Mine == hand[t] = o \/ InList(t, o)
<1>0. /\ TypeOK /\ ProgramType /\ LoopInv(t) /\ OneRetirer /\ Exclusive(hand, handovers, rlist)
      /\ \A u \in Threads \ {t} : Frame(u)
      /\ hand \in [Threads -> Ptr] /\ ptr \in [Threads -> Ptr] /\ rlist \in [Threads -> Seq(Obj)]
      /\ handovers \in [Threads -> [Idx -> Ptr]] /\ scan[t] \in SUBSET Place /\ left \in SUBSET Place
      /\ orc \in [Obj -> Word] /\ hand[t] = InHand(t) /\ hand'[t] = InHand(t)' /\ Null \notin Obj
      /\ retTo[t] \in Labels
  BY RetireFacts, FrameStep, ValueAssumption DEF TypeOK, ObjType, ScanType, RetType, hand
<1>1. ~Fresh(o, hand, handovers, rlist)' <=>
             \/ \E u \in Threads : hand'[u] = o \/ InList(u, o)'
             \/ \E u \in Threads, i \in Idx : handovers'[u][i] = o
  BY DEF Fresh, NotInHand, NotInEntry, NotInList, InList
<1>2. \A u \in Threads \ {t} : hand'[u] = hand[u] /\ (InList(u, o) => InList(u, o)')
  BY <1>0 DEF Frame, hand, InHand, InList
<1>3. \/ \E u \in Threads \ {t} : hand[u] = o \/ InList(u, o)
      \/ Mine
      \/ \E u \in Threads, i \in Idx : handovers[u][i] = o
  BY Places
<1>4. CASE \E u \in Threads \ {t} : hand[u] = o \/ InList(u, o)
  BY <1>1, <1>2, <1>4
<1>5. CASE /\ handovers' = handovers
           /\ Mine => (hand'[t] = o \/ InList(t, o)')
  BY <1>1, <1>3, <1>4, <1>5
<1>6. CASE ~RetireSteps(t) /\ ~ClearBit(t) /\ ~ClearBitCas(t)
  BY <1>0, <1>5, <1>6, WhoRetires, HandStays DEF InList
<1>7. CASE ClearCas(t) \/ IncrementCas(t) \/ DecrementCas(t)
  <2>0. handovers' = handovers /\ Obj \subseteq Ptr
    BY <1>7 DEF ClearCas, IncrementCas, DecrementCas, hpVars, Ptr
  <2>1. PICK x \in Obj, w \in Word, l \in CasReturns :
           CasRetired(t, x, w, l) /\ l \notin GaveUp /\ pc[t] \notin GaveUp \cup {"self"}
    BY <1>7, CasRetires DEF RetireInv
  <2>2. CASE Retire(t, x, l)
    BY <1>0, <1>5, <2>0, <2>1, <2>2, RetireKeeps
  <2>3. CASE Goto(t, l) /\ UNCHANGED retVars
    BY <1>0, <1>5, <2>0, <2>1, <2>3, GotoLocals DEF InHand, InList, GaveUp, retVars
  <2> QED  BY <2>1, <2>2, <2>3 DEF CasRetired
<1>8. CASE TakeHandover(t) \/ Sweep(t)
  <2>1. PICK p \in Place, l \in Labels :
          /\ handovers' = [handovers EXCEPT ![p[1]][p[2]] = Null]
          /\ Retire(t, handovers[p[1]][p[2]], l)
          /\ l \notin GaveUp /\ pc[t] \notin GaveUp \cup {"self"}
    <3>1. CASE TakeHandover(t)
      BY <1>0, <3>1 DEF TakeHandover, GaveUp, Labels
    <3>2. CASE Sweep(t)
      BY <1>0, <3>2 DEF Sweep, GaveUp, Labels
    <3> QED  BY <1>8, <3>1, <3>2
  <2>2. p[1] \in Threads /\ p[2] \in Idx /\ handovers[p[1]][p[2]] \in Ptr
    BY <1>0 DEF Place
  <2>3. /\ handovers[p[1]][p[2]] = o => hand'[t] = o \/ InList(t, o)'
        /\ Mine => hand'[t] = o \/ InList(t, o)'
    BY <1>0, <2>1, <2>2, RetireKeeps
  <2>4. \A u \in Threads, i \in Idx : handovers[u][i] = o /\ handovers[p[1]][p[2]] # o => handovers'[u][i] = o
    BY <1>0, <2>1, <2>2
  <2> QED  BY <1>1, <1>3, <1>4, <2>3, <2>4
<1>9. CASE RetireSelf(t) \/ HandOver(t)
  <2>1. CASE Continue(t, ptr[t]) /\ handovers' = handovers
    BY <1>0, <1>5, <2>1, ContinueKeeps DEF InHand
  <2>2. ASSUME NEW p \in Place, Continue(t, handovers[p[1]][p[2]]),
               handovers' = [handovers EXCEPT ![p[1]][p[2]] = ptr[t]]
        PROVE  ~Fresh(o, hand, handovers, rlist)'
    <3>1. p[1] \in Threads /\ p[2] \in Idx /\ handovers[p[1]][p[2]] \in Ptr
      BY <1>0 DEF Place
    <3>2. handovers'[p[1]][p[2]] = ptr[t]
      BY <1>0, <2>2, <3>1
    <3>3. hand[t] = o => handovers'[p[1]][p[2]] = o
      BY <1>0, <3>2 DEF InHand
    <3>4. /\ handovers[p[1]][p[2]] = o => hand'[t] = o
          /\ InList(t, o) => hand'[t] = o \/ InList(t, o)'
      BY <1>0, <2>2, <3>1, ContinueKeeps
    <3>5. \A u \in Threads, i \in Idx : handovers[u][i] = o /\ handovers[p[1]][p[2]] # o => handovers'[u][i] = o
      BY <1>0, <2>2, <3>1
    <3> QED  BY <1>1, <1>3, <1>4, <3>1, <3>3, <3>4, <3>5
  <2>3. CASE RetireSelf(t)
    <3>1. \A i \in OwnHp(t) : <<t, i>> \in Place
      BY DEF OwnHp, Place
    <3> QED  BY <2>1, <2>2, <2>3, <3>1 DEF RetireSelf
  <2>4. CASE HandOver(t)
    BY <1>0, <2>2, <2>4 DEF HandOver
  <2> QED  BY <1>9, <2>3, <2>4
<1>10. CASE ClearBitFail(t)
  <2>1. /\ Continue(t, Null) /\ handovers' = handovers /\ hand[t] = Null
    BY <1>0, <1>10 DEF ClearBitFail, InHand
  <2> QED  BY <1>0, <1>5, <2>1, ContinueKeeps DEF Ptr
<1>11. CASE FreeObj(t)
  <2>1. /\ Continue(t, Null) /\ handovers' = handovers /\ hand[t] # o
    BY <1>0, <1>11 DEF FreeObj, InHand, hpVars
  <2> QED  BY <1>0, <1>5, <2>1, ContinueKeeps DEF Ptr
<1>12. CASE ClearBit(t)
  <2>1. /\ handovers' = handovers /\ rlist' = rlist /\ hand[t] = ptr[t]
        /\ orc' = [orc EXCEPT ![ptr[t]] = [orc[ptr[t]] EXCEPT !.ret = FALSE]]
    BY <1>0, <1>12 DEF ClearBit, InHand, hpVars, retVars
  <2>2. ptr[t] # o
    BY <1>0, <2>1 DEF Word
  <2> QED  BY <1>5, <2>1, <2>2 DEF InList
<1>13. CASE ClearBitCas(t)
  <2>1. handovers' = handovers /\ rlist' = rlist /\ hand[t] = Null
    BY <1>0, <1>13 DEF ClearBitCas, InHand, hpVars, retVars
  <2> QED  BY <1>0, <1>5, <2>1 DEF InList
<1> QED  BY <1>6, <1>7, <1>8, <1>9, <1>10, <1>11, <1>12, <1>13 DEF RetireSteps

\* A step that sets BRETIRED takes the object into the hand, or adds it to
\* the list.
LEMMA RetirerKept ==
    ASSUME RetireInv, RetirerInv, NEW t \in Threads, Begin(t) \/ Call(t)
    PROVE  RetirerInv'
<1>0. /\ TypeOK /\ ProgramType /\ LoopInv(t) /\ orc \in [Obj -> Word]
      /\ ptr \in [Threads -> Ptr] /\ OperandInv(t) /\ alive \in SUBSET Obj /\ hand'[t] = InHand(t)'
      /\ Null \notin Obj
  BY RetireFacts, ValueAssumption DEF TypeOK, ObjType, hand
<1> SUFFICES ASSUME NEW o \in Obj, o \in alive', orc'[o].ret
             PROVE  ~Fresh(o, hand, handovers, rlist)'
  <2>1. alive' \subseteq Obj
    BY <1>0, WhoWrites DEF MakeOrc, FreeObj
  <2> QED  BY <2>1 DEF RetirerInv
<1>1. CASE o \in alive /\ orc[o].ret
  BY <1>1, PlacesKept DEF RetirerInv
<1>2. CASE o \in alive /\ ~orc[o].ret
  <2>1. orc'[o] # orc[o]
    BY <1>2
  <2>2. CASE ClearCas(t) \/ IncrementCas(t) \/ DecrementCas(t)
    <3>1. PICK x \in Obj, w \in Word, l \in CasReturns :
             CasRetired(t, x, w, l) /\ l \notin GaveUp /\ pc[t] \notin GaveUp \cup {"self"}
      BY <2>2, CasRetires DEF RetireInv
    <3>2. Retire(t, x, l) /\ x = o
      BY <1>0, <2>1, <3>1 DEF CasRetired
    <3>3. hand'[t] = o \/ InList(t, o)'
      BY <1>0, <3>1, <3>2, RetireKeeps DEF Ptr
    <3> QED  BY <3>3 DEF Fresh, NotInHand, NotInList, InList
  <2>3. CASE ClearBitCas(t)
    <3>1. ptr[t] = o /\ pc'[t] = "cbok" /\ ptr'[t] = o
      BY <1>0, <2>1, <2>3 DEF ClearBitCas, Goto, ProgramType, retVars
    <3> QED  BY <1>0, <3>1 DEF InHand, Fresh, NotInHand
  <2>4. CASE MakeOrc(t) \/ FreeObj(t)
    BY <1>0, <1>2, <2>1, <2>4 DEF MakeOrc, FreeObj
  <2>5. CASE IncrementOrc(t) \/ DecrementOrc(t) \/ ClearBit(t)
    <3>0. \A x \in Obj : orc[x] \in Word
      BY <1>0
    <3>1. CASE IncrementOrc(t)
      <4>1. LET x == op[t].new IN  orc' = [orc EXCEPT ![x] = [orc[x] EXCEPT !.cnt = orc[x].cnt + 1]]
        BY <3>1 DEF IncrementOrc
      <4> QED  BY <1>0, <1>2, <3>0, <4>1 DEF Word
    <3>2. CASE DecrementOrc(t)
      <4>1. LET x == dec[t][Level(t)].ptr
            IN  orc' = [orc EXCEPT ![x] = [orc[x] EXCEPT !.cnt = orc[x].cnt - 1, !.seq = orc[x].seq + 1]]
        BY <3>2 DEF DecrementOrc
      <4> QED  BY <1>0, <1>2, <3>0, <4>1 DEF Word
    <3>3. CASE ClearBit(t)
      BY <1>0, <1>2, <3>3 DEF ClearBit
    <3> QED  BY <2>5, <3>1, <3>2, <3>3
  <2> QED  BY <2>1, <2>2, <2>3, <2>4, <2>5, WhoRetires DEF WordSteps
<1>3. CASE o \notin alive
  <2>1. MakeOrc(t)
    BY <1>3, WhoWrites DEF FreeObj
  <2>2. orc'[o] = NewWord
    BY <1>0, <1>3, <2>1 DEF MakeOrc
  <2> QED  BY <2>2 DEF NewWord
<1> QED  BY <1>1, <1>2, <1>3
-----------------------------------------------------------------------------

\* A thread that does not move stays responsible for an object whose word
\* stays.
LEMMA OthersKeep ==
    ASSUME NEW u \in Threads, NEW o \in Obj, Wide(u), orc'[o] = orc[o], Responsible(u, o)
    PROVE  Responsible(u, o)'
  BY DEF Responsible, Decides, Level, Wide, Frame

\* The thread that moves: an object that was never linked stays in its
\* orc_ptr, or clear() is called for it.
LEMMA SlotKeeps ==
    ASSUME TypeOK, NEW t \in Threads, ClearsOld(t), Begin(t) \/ Call(t), NEW o \in Obj,
           \E i \in PtrIdx : slot[t][i] = [ptr |-> o, lnk |-> FALSE]
    PROVE  Responsible(t, o)'
<1>0. /\ slot \in [Threads -> [PtrIdx -> [ptr : Ptr, lnk : BOOLEAN]]] /\ ProgramType
      /\ Null \notin Obj
  BY ValueAssumption DEF TypeOK, ProgramType
<1>1. PICK i \in PtrIdx : slot[t][i] = [ptr |-> o, lnk |-> FALSE]
  OBVIOUS
<1>2. CASE slot'[t][i] = slot[t][i]
  BY <1>1, <1>2 DEF Responsible
<1>3. CASE DropPtr(t)
  <2>1. PICK j \in PtrIdx :
          /\ slot' = [slot EXCEPT ![t][j] = NoPtr]
          /\ ~slot[t][j].lnk => Run(t, [NoOp EXCEPT !.old = slot[t][j].ptr, !.from = j], "clear")
    BY <1>3 DEF DropPtr
  <2>2. CASE j = i
    <3>0. slot[t][j].ptr = o /\ ~slot[t][j].lnk
      BY <1>1, <2>2
    <3>1. Run(t, [NoOp EXCEPT !.old = o, !.from = j], "clear")
      BY <2>1, <3>0
    <3>2. pc'[t] = "clear" /\ op'[t].old = o
      BY <1>0, <3>1 DEF Run, ProgramType, NoOp
    <3> QED  BY <3>2 DEF Responsible
  <2> QED  BY <1>0, <1>2, <2>1, <2>2
<1>4. CASE GetProtected(t)
  <2>1. CASE UNCHANGED slot
    BY <1>2, <2>1
  <2>2. CASE Loaded(t) /\ op[t].kind = "assign"
    <3>1. /\ slot' = [slot EXCEPT ![t][op[t].from] = NoPtr]
          /\ Goto(t, IF op[t].old = Null THEN "newidx" ELSE "clear")
      BY <2>2 DEF Loaded
    <3>2. CASE op[t].from = i
      <4>1. op[t].old = o
        BY <1>1, <1>4, <2>2, <3>2 DEF GetProtected, ClearsOld
      <4>2. pc'[t] = "clear" /\ op'[t].old = o
        BY <1>0, <3>1, <4>1 DEF Goto, ProgramType
      <4> QED  BY <4>2 DEF Responsible
    <3> QED  BY <1>0, <1>2, <3>1, <3>2
  <2> QED  BY <1>4, <2>1, <2>2 DEF GetProtected, Loaded
<1>5. CASE ProtectPtr(t)
  <2>1. PICK j \in PtrIdx :
          /\ NewIdx(t, j)
          /\ slot' = IF op[t].ptr \in Obj
                     THEN [slot EXCEPT ![t][j] = [ptr |-> op[t].ptr, lnk |-> op[t].lnk]]
                     ELSE slot
    BY <1>5 DEF ProtectPtr
  <2>2. j # i
    BY <1>0, <1>1, <2>1 DEF NewIdx, FreeIdx
  <2> QED  BY <1>0, <1>2, <2>1, <2>2
<1> QED  BY <1>2, <1>3, <1>4, <1>5, WhoWrites DEF SlotSteps

\* A new object, or a copy of an orc_ptr with one, gets to its orc_ptr; and
\* clear() reads the word.
LEMMA BringKeeps ==
    ASSUME TypeOK, NEW t \in Threads, Begin(t) \/ Call(t), NEW o \in Obj,
           \/ pc[t] \in {"newidx", "protect"} /\ op[t].ptr = o /\ ~op[t].lnk
           \/ pc[t] = "clear" /\ op[t].old = o /\ IsZero(orc[o]) /\ orc'[o] = orc[o]
    PROVE  Responsible(t, o)'
<1>0. /\ slot \in [Threads -> [PtrIdx -> [ptr : Ptr, lnk : BOOLEAN]]] /\ ProgramType
      /\ lorc \in [Threads -> Word] /\ op[t].lnk \in BOOLEAN
  BY LocalTypes DEF TypeOK, ProgramType, ScanType
<1>1. CASE pc[t] = "newidx"
  <2>1. pc'[t] = "protect" /\ op'[t] = op[t]
    BY <1>0, <1>1, StepFrom DEF GetNewIdx, Goto, ProgramType
  <2> QED  BY <1>1, <2>1 DEF Responsible
<1>2. CASE pc[t] = "protect"
  <2>1. PICK j \in PtrIdx : slot' = [slot EXCEPT ![t][j] = [ptr |-> o, lnk |-> op[t].lnk]]
    BY <1>2, StepFrom DEF ProtectPtr
  <2>2. slot'[t][j] = [ptr |-> o, lnk |-> FALSE]
    BY <1>0, <1>2, <2>1
  <2> QED  BY <2>2 DEF Responsible
<1>3. CASE pc[t] = "clear"
  <2>1. pc'[t] = "clearcas" /\ op'[t] = op[t] /\ lorc'[t] = orc[o]
    BY <1>0, <1>3, StepFrom DEF Clear, Goto, ProgramType
  <2> QED  BY <1>3, <2>1 DEF Responsible
<1> QED  BY <1>1, <1>2, <1>3

\* A CAS that fails finds another word; one that succeeds sets the bit.
LEMMA CasKeeps ==
    ASSUME LocalsInv, NEW t \in Threads, Begin(t) \/ Call(t), NEW o \in Obj,
           IsZero(orc[o]), orc'[o] = orc[o], lorc[t] = orc[o],
           \/ pc[t] = "clearcas" /\ op[t].old = o
           \/ pc[t] = "inccas" /\ op[t].new = o
           \/ pc[t] = "cbcas" /\ ptr[t] = o
    PROVE  FALSE
<1>0. orc \in [Obj -> [cnt : Int, ret : BOOLEAN, seq : Nat]]
  BY DEF LocalsInv, TypeOK, ObjType, Word
<1>1. orc' = [orc EXCEPT ![o].ret = TRUE]
  BY StepFrom DEF ClearCas, IncrementCas, ClearBitCas, CasRetired
<1> QED  BY <1>0, <1>1 DEF IsZero

\* The word that decrementOrc() has left is kept for its CAS, through the
\* calls of retireOne() and retire().
LEMMA DecideKeeps ==
    ASSUME LocalsInv, NEW t \in Threads, Begin(t) \/ Call(t), NEW o \in Obj,
           IsZero(orc[o]), orc'[o] = orc[o],
           NEW l \in {0, 1}, Decides(t, l), dec[t][l] = [ptr |-> o, word |-> orc[o]]
    PROVE  Responsible(t, o)'
<1>0. /\ TypeOK /\ ProgramType /\ RetType /\ ScanType /\ LoopInv(t)
      /\ dec \in [Threads -> [{0, 1} -> [ptr : Ptr, word : Word]]]
      /\ orc \in [Obj -> [cnt : Int, ret : BOOLEAN, seq : Nat]]
      /\ handovers \in [Threads -> [Idx -> Ptr]] /\ scan[t] \in SUBSET Place /\ ptr[t] \in Ptr
  BY LocalTypes DEF LocalsInv, TypeOK, DecType, ObjType, Word, HpType
<1>1. SUFFICES Decides(t, l)' /\ dec'[t][l] = dec[t][l]
  BY DEF Responsible
<1>2. CASE pc[t] \in Deciding /\ l = Level(t)
  <2>1. CASE pc[t] \in {"retireOne", "seek", "seekhp"}
    <3>1. pc'[t] \in Deciding /\ UNCHANGED <<dec, retireStarted>>
      BY <1>0, <2>1, StepFrom DEF RetireOne, Seek, SeekHP, SeekNext, Goto, ProgramType, Deciding,
         decVars, retVars
    <3> QED  BY <1>2, <3>1 DEF Decides, Level
  <2>2. CASE pc[t] = "take"
    <3>1. PICK p \in Place : Retire(t, handovers[p[1]][p[2]], "reset")
      BY <1>0, <2>2, StepFrom DEF TakeHandover
    <3>2. handovers[p[1]][p[2]] \in Ptr /\ dec' = dec
      BY <1>0, <2>2, StepFrom DEF Place, TakeHandover, decVars
    <3>3. (Moves(t, "reset") /\ SameRetire(t)) \/ Enters(t, handovers[p[1]][p[2]], "reset")
      BY <1>0, <3>1, <3>2, RetireCases
    <3> QED  BY <1>2, <3>2, <3>3 DEF Decides, Level, Deciding, Moves, SameRetire, Enters
  <2>3. CASE pc[t] = "reset"
    <3>1. DecrementTest(t, dec[t][l]) /\ UNCHANGED retVars
      BY <1>2, <2>3, StepFrom DEF ResetRetcnt
    <3>2. dec' = [dec EXCEPT ![t][l] = dec[t][l]] /\ Goto(t, "deccas")
      BY <1>2, <3>1 DEF DecrementTest
    <3> QED  BY <1>0, <1>2, <3>1, <3>2, GotoMoves DEF Decides, Level, Deciding, Moves, retVars
  <2>4. CASE pc[t] = "deccas"
    <3>1. CasRetired(t, o, orc[o], AfterDec(t))
      BY <1>2, <2>4, StepFrom DEF DecrementCas
    <3>2. orc' = [orc EXCEPT ![o].ret = TRUE]
      BY <3>1 DEF CasRetired
    <3> QED  BY <1>0, <3>2 DEF IsZero
  <2> QED  BY <1>2, <2>1, <2>2, <2>3, <2>4 DEF Deciding
<1>3. CASE retTo[t] = "reset" /\ l = 0
  <2>1. /\ pc[t] \in LoopSteps \cup DecSteps \cup {"self"} /\ pc[t] # "idle"
        /\ retireStarted[t] <=> pc[t] # "self"
    BY <1>0, <1>3 DEF LoopInv, LoopSteps, DecSteps
  <2>2. Call(t)
    BY <2>1, StepFrom
  <2>3. dec'[t][0] = dec[t][0]
    <3>1. CASE DecrementOrc(t) \/ ResetRetcnt(t) \/ DecrementCas(t)
      <4>1. Level(t) = 1 /\ \E d : dec' = [dec EXCEPT ![t][Level(t)] = d]
        BY <2>1, <3>1 DEF DecrementOrc, ResetRetcnt, DecrementCas, DecrementTest, Level
      <4> QED  BY <1>0, <4>1
    <3>2. CASE Destroy(t)
      BY <1>0, <3>2 DEF Destroy
    <3>3. CASE ~DecrementOrc(t) /\ ~ResetRetcnt(t) /\ ~DecrementCas(t) /\ ~Destroy(t)
      BY <2>1, <2>2, <3>3 DEF LoopSteps, DecSteps, Call, GetProtected, Publish, GetNewIdx, ProtectPtr,
         Clear, ClearCas, IncrementOrc, IncrementCas, Exchange, DecrementProtect, RetireOne, Seek,
         SeekHP, TakeHandover, RetireSelf, RetireLoad, ClearBitProtect, ClearBit, ClearBitCas,
         ClearBitOk, ClearBitFail, ScanThreads, ScanHPs, Scan, HandOver, CheckWord, FreeObj, Sweep,
         gcVars, decVars
    <3> QED  BY <3>1, <3>2, <3>3
  <2>4. retTo'[t] = "reset" \/ (pc'[t] = "reset" /\ ~retireStarted'[t])
    <3>1. CASE ~RetireSteps(t)
      BY <1>3, <3>1, WhoRetires
    <3>2. CASE RetireSelf(t) \/ ClearBitFail(t) \/ HandOver(t) \/ FreeObj(t)
      <4>1. \E p \in Ptr : Continue(t, p)
        <5>1. CASE RetireSelf(t)
          BY <1>0, <5>1 DEF RetireSelf, OwnHp
        <5>2. CASE ClearBitFail(t) \/ FreeObj(t)
          BY <5>2 DEF ClearBitFail, FreeObj, Ptr
        <5>3. CASE HandOver(t)
          <6>1. PICK q \in scan[t] : Continue(t, handovers[q[1]][q[2]])
            BY <5>3 DEF HandOver
          <6>2. handovers[q[1]][q[2]] \in Ptr
            BY <1>0, <6>1 DEF Place
          <6> QED  BY <6>1, <6>2
        <5> QED  BY <3>2, <5>1, <5>2, <5>3
      <4>2. GoesOn(t) \/ Comes(t)
        BY <1>0, <4>1, ContinueCases
      <4> QED  BY <1>3, <4>2 DEF GoesOn, Comes, Moves
    <3>3. CASE ClearCas(t) \/ IncrementCas(t) \/ DecrementCas(t) \/ TakeHandover(t) \/ Sweep(t)
      <4>1. pc[t] \in DecSteps /\ retireStarted[t]
        BY <2>1, <3>3 DEF ClearCas, IncrementCas, DecrementCas, TakeHandover, Sweep, LoopSteps, DecSteps
      <4>2. CASE DecrementCas(t)
        <5>1. CasRetired(t, dec[t][Level(t)].ptr, dec[t][Level(t)].word, AfterDec(t))
          BY <4>2 DEF DecrementCas
        <5> QED  BY <1>0, <1>3, <4>1, <5>1, LocalTypes, CasCases DEF SameRetire, Enters
      <4>3. CASE TakeHandover(t)
        <5>1. PICK p \in Place : Retire(t, handovers[p[1]][p[2]], "reset")
          BY <1>0, <4>3 DEF TakeHandover
        <5>2. handovers[p[1]][p[2]] \in Ptr
          BY <1>0 DEF Place
        <5> QED  BY <1>0, <1>3, <4>1, <5>1, <5>2, RetireCases DEF SameRetire, Enters
      <4> QED  BY <3>3, <4>1, <4>2, <4>3 DEF ClearCas, IncrementCas, Sweep, DecSteps
    <3> QED  BY <3>1, <3>2, <3>3 DEF RetireSteps
  <2> QED  BY <1>3, <2>3, <2>4 DEF Decides, Level, Deciding
<1> QED  BY <1>2, <1>3 DEF Decides
\* The thread whose step brings a count to zero is responsible.
LEMMA WordAnswers ==
    ASSUME LocalsInv, NEW t \in Threads, Begin(t) \/ Call(t), NEW o \in Obj,
           orc'[o] # orc[o] \/ (MakeOrc(t) /\ o \notin alive), o \in alive', IsZero(orc'[o])
    PROVE  Responsible(t, o)'
<1>0. /\ TypeOK /\ ProgramType /\ OperandInv(t)
      /\ orc \in [Obj -> [cnt : Int, ret : BOOLEAN, seq : Nat]] /\ lorc \in [Threads -> Word]
      /\ dec \in [Threads -> [{0, 1} -> [ptr : Ptr, word : Word]]] /\ ptr \in [Threads -> Ptr]
  BY DEF LocalsInv, TypeOK, ObjType, ScanType, DecType, RetType, Word
<1>1. CASE MakeOrc(t)
  <2>1. PICK x \in Obj \ alive :
          /\ alive' = alive \cup {x} /\ orc' = [orc EXCEPT ![x] = NewWord]
          /\ Run(t, [NoOp EXCEPT !.ptr = x, !.lnk = FALSE], "newidx")
    BY <1>1 DEF MakeOrc
  <2>2. o = x
    BY <1>0, <2>1
  <2>3. pc'[t] = "newidx" /\ op'[t].ptr = o /\ ~op'[t].lnk
    BY <1>0, <2>1, <2>2 DEF Run, ProgramType, NoOp
  <2> QED  BY <2>3 DEF Responsible
<1>2. CASE IncrementOrc(t)
  <2> DEFINE w == [orc[op[t].new] EXCEPT !.cnt = @ + 1]
  <2>1. /\ orc' = [orc EXCEPT ![op[t].new] = w]
        /\ IsZero(w) => lorc' = [lorc EXCEPT ![t] = w] /\ Goto(t, "inccas")
    BY <1>2 DEF IncrementOrc
  <2>2. op[t].new = o
    BY <1>0, <1>2, <2>1 DEF IncrementOrc, MakeOrc, Start
  <2>3. orc'[o] = w
    BY <1>0, <2>1, <2>2
  <2> HIDE DEF w
  <2>4. pc'[t] = "inccas" /\ op'[t] = op[t] /\ lorc'[t] = orc'[o]
    BY <1>0, <2>1, <2>3 DEF Goto, ProgramType
  <2> QED  BY <2>2, <2>4 DEF Responsible
<1>3. CASE DecrementOrc(t)
  <2> DEFINE x == dec[t][Level(t)].ptr
             w == [orc[x] EXCEPT !.cnt = @ - 1, !.seq = @ + 1]
             d == [ptr |-> x, word |-> w]
  <2>1. /\ orc' = [orc EXCEPT ![x] = w] /\ UNCHANGED retVars
        /\ IsZero(w) => /\ dec' = [dec EXCEPT ![t][Level(t)] = d]
                        /\ \E l \in {"retireOne", "deccas"} : Goto(t, l)
    BY <1>3 DEF DecrementOrc, DecrementTest
  <2>2. x = o
    BY <1>0, <1>3, <2>1 DEF DecrementOrc, MakeOrc, Start
  <2>3. orc'[o] = w
    BY <1>0, <2>1, <2>2
  <2> HIDE DEF w
  <2>4. /\ pc'[t] \in Deciding /\ Level(t)' = Level(t) /\ Level(t) \in {0, 1}
        /\ dec'[t][Level(t)] = [ptr |-> o, word |-> orc'[o]]
    BY <1>0, <2>1, <2>2, <2>3 DEF Goto, ProgramType, Deciding, Level, retVars
  <2> QED  BY <2>4 DEF Responsible, Decides
<1>4. CASE ClearBit(t)
  <2> DEFINE w == [orc[ptr[t]] EXCEPT !.ret = FALSE]
  <2>1. /\ orc' = [orc EXCEPT ![ptr[t]] = w] /\ UNCHANGED retVars
        /\ IsZero(w) => Goto(t, "cbcas")
        /\ lorc' = [lorc EXCEPT ![t] = w]
    BY <1>4 DEF ClearBit
  <2>2. ptr[t] = o
    BY <1>0, <1>4, <2>1 DEF ClearBit, MakeOrc, Start
  <2>3. orc'[o] = w
    BY <1>0, <2>1, <2>2
  <2> HIDE DEF w
  <2>4. pc'[t] = "cbcas" /\ ptr'[t] = o /\ lorc'[t] = orc'[o]
    BY <1>0, <2>1, <2>2, <2>3 DEF Goto, ProgramType, retVars
  <2> QED  BY <2>4 DEF Responsible
<1>5. CASE ClearCas(t) \/ IncrementCas(t) \/ DecrementCas(t) \/ ClearBitCas(t)
  <2>1. orc' = orc \/ \E x \in Ptr : orc' = [orc EXCEPT ![x].ret = TRUE]
    BY <1>0, <1>5, LocalTypes DEF ClearCas, IncrementCas, DecrementCas, ClearBitCas, CasRetired
  <2>2. pc[t] # "idle"
    BY <1>5 DEF ClearCas, IncrementCas, DecrementCas, ClearBitCas
  <2> QED  BY <1>0, <2>1, <2>2 DEF IsZero, MakeOrc, Start
<1>6. CASE FreeObj(t)
  BY <1>0, <1>6 DEF FreeObj, MakeOrc, Start
<1> QED  BY <1>1, <1>2, <1>3, <1>4, <1>5, <1>6, WhoRetires DEF WordSteps

\* A step leaves no object without a thread that will retire it.
LEMMA ResponsibleKept ==
    ASSUME RetireInv, KeptInv, NEW t \in Threads, Begin(t) \/ Call(t)
    PROVE  ResponsibleInv'
<1>0. /\ TypeOK /\ LocalsInv /\ ClearsOld(t) /\ alive \in SUBSET Obj
      /\ \A u \in Threads \ {t} : Wide(u)
  BY WideFrame DEF RetireInv, KeptInv, LocalsInv, TypeOK, ObjType
<1> SUFFICES ASSUME NEW o \in Obj, o \in alive', IsZero(orc'[o])
             PROVE  \E u \in Threads : Responsible(u, o)'
  <2>1. alive' \subseteq Obj
    BY <1>0, WhoWrites DEF MakeOrc, FreeObj
  <2> QED  BY <2>1 DEF ResponsibleInv
<1>1. CASE orc'[o] # orc[o] \/ (MakeOrc(t) /\ o \notin alive)
  BY <1>0, <1>1, WordAnswers
<1>2. CASE orc'[o] = orc[o] /\ ~(MakeOrc(t) /\ o \notin alive)
  <2>1. o \in alive /\ IsZero(orc[o])
    BY <1>2, WhoWrites DEF FreeObj
  <2>2. PICK u \in Threads : Responsible(u, o)
    BY <2>1 DEF KeptInv, ResponsibleInv
  <2>3. CASE u # t
    BY <1>0, <1>2, <2>2, <2>3, OthersKeep
  <2>4. CASE u = t
    BY <1>0, <1>2, <2>1, <2>2, <2>4, SlotKeeps, BringKeeps, CasKeeps, DecideKeeps DEF Responsible
  <2> QED  BY <2>3, <2>4
<1> QED  BY <1>1, <1>2

\* An assignment of a program without setUnmarked() will clear() what it
\* has to.
LEMMA ClearsKept ==
    ASSUME RetireInv, KeptInv, NoUnmarked, NEW t \in Threads, Begin(t) \/ Call(t), NEW u \in Threads
    PROVE  ClearsOld(u)'
<1>0. /\ TypeOK /\ ProgramType /\ ClearsOld(u) /\ ops[t] \in Nat /\ LoopInv(t)
      /\ slot \in [Threads -> [PtrIdx -> [ptr : Ptr, lnk : BOOLEAN]]]
      /\ \A v \in Threads \ {t} : Wide(v)
  BY WideFrame, LocalTypes DEF RetireInv, KeptInv, LocalsInv, TypeOK, ProgramType
<1>1. CASE u # t
  BY <1>0, <1>1 DEF ClearsOld, Wide, Frame
<1>2. CASE u = t
  <2>1. CASE Assign(t)
    <3>1. PICK name \in {"assign", "unmarked"}, c \in Reach(t), i \in PtrIdx :
            /\ Start(t, name)
            /\ Run(t, [NoOp EXCEPT !.kind = "assign", !.cell = c, !.from = i,
                         !.old = IF name = "assign" /\ ~slot[t][i].lnk
                                 THEN slot[t][i].ptr ELSE Null], "read")
      BY <2>1 DEF Assign
    <3>2. name = "assign" /\ slot' = slot
      <4>1. ops[t] + 1 \in 1 .. Len(Program[t]) /\ name \in Program[t][ops[t] + 1]
        BY <1>0, <3>1 DEF Start, NoUnmarked
      <4> QED  BY <2>1, <3>1, <4>1 DEF NoUnmarked, Assign
    <3>3. op'[t].from = i /\ (~slot[t][i].lnk => op'[t].old = slot[t][i].ptr)
      BY <1>0, <3>1, <3>2 DEF Run, ProgramType, NoOp
    <3> QED  BY <1>2, <3>2, <3>3 DEF ClearsOld
  <2>2. CASE Load(t)
    <3>1. op'[t].kind = "load"
      BY <1>0, <2>2 DEF Load, Run, ProgramType, NoOp
    <3> QED  BY <1>2, <3>1 DEF ClearsOld
  <2>3. CASE GetProtected(t) \/ Publish(t)
    <3>1. CASE /\ GetProtected(t) /\ UNCHANGED slot
               /\ Run(t, [op[t] EXCEPT !.ptr = link[op[t].cell]], "publish")
      <4>1. pc[t] = "read"
        BY <3>1 DEF GetProtected
      <4>2. op'[t].kind = op[t].kind /\ op'[t].from = op[t].from /\ op'[t].old = op[t].old
        BY <1>0, <3>1, LocalTypes DEF Run, ProgramType, Operation
      <4> QED  BY <1>0, <1>2, <3>1, <4>1, <4>2 DEF ClearsOld
    <3>2. CASE Loaded(t)
      BY <1>0, <1>2, <3>2 DEF Loaded, Goto, ProgramType, ClearsOld
    <3>3. CASE Publish(t)
      <4>1. op'[t] = op[t] /\ slot' = slot /\ pc[t] = "publish"
        BY <1>0, <3>3 DEF Publish, Goto, ProgramType
      <4> QED  BY <1>0, <1>2, <4>1 DEF ClearsOld
    <3> QED  BY <2>3, <3>1, <3>2, <3>3 DEF GetProtected
  <2>4. CASE ~Assign(t) /\ ~Load(t) /\ ~GetProtected(t) /\ ~Publish(t)
    <3>1. pc'[t] \notin {"read", "publish"}
      <4>1. CASE Begin(t)
        BY <1>0, <2>4, <4>1 DEF Begin, Register, MakeOrc, Store, CompareExchange, PoisonCell,
           CopyPtr, DropPtr, Shutdown, Start, Run, Goto, ProgramType
      <4>2. CASE Call(t)
        BY <1>0, <2>4, <4>2 DEF Call, ProgramType, LoopInv, Returns,
           GetNewIdx, ProtectPtr, Clear, AfterClear, ClearCas, CasRetired, Retire, IncrementOrc,
           IncrementCas, AfterInc, Exchange, DecrementProtect, DecrementOrc, DecrementTest, AfterDec,
           DecrementCas, ResetRetcnt, RetireOne, Seek, SeekNext, SeekHP, TakeHandover, RetireSelf,
           Continue, RetireLoad, TryHandover, ClearBitProtect, ClearBit, ClearBitCas, ClearBitOk,
           ClearBitFail, ScanThreads, ScanHPs, Scan, HandOver, CheckWord, Destroy, FreeObj, Sweep, Goto
      <4> QED  BY <4>1, <4>2
    <3> QED  BY <1>2, <3>1 DEF ClearsOld
  <2> QED  BY <2>1, <2>2, <2>3, <2>4
<1> QED  BY <1>1, <1>2
\* At first every object has a link, and none is in retirement.
LEMMA InitKept ==
    ASSUME Init
    PROVE  KeptInv
<1>1. \A o \in alive : ~orc[o].ret
  BY DEF Init, NewWord
<1>2. ASSUME NEW o \in alive PROVE ~IsZero(orc[o])
  <2>1. o \in Obj /\ LinksTo(InitLink, o) # {} /\ orc[o].cnt = Cardinality(LinksTo(InitLink, o))
    BY DEF Init, LinksTo, NewWord
  <2>2. Cardinality(LinksTo(InitLink, o)) # 0
    BY <2>1, LinkAssumption, FS_EmptySet
  <2> QED  BY <2>1, <2>2 DEF IsZero
<1>3. \A t \in Threads : ClearsOld(t)
  BY DEF Init, ClearsOld
<1> QED  BY <1>1, <1>2, <1>3 DEF KeptInv, RetirerInv, ResponsibleInv

\* KeptInv is about the variables of vars only.
LEMMA StutterKept ==
    ASSUME KeptInv, UNCHANGED vars, TypeOK
    PROVE  KeptInv'
<1>1. /\ UNCHANGED <<alive, orc, handovers, rlist, pc, ptr, op, slot>>
      /\ \A u \in Threads : Wide(u)
  BY DEF vars, objVars, hpVars, gcVars, decVars, retVars, endVars, Wide, Frame
<1>2. RetirerInv'
  <2>1. hand' = hand
    BY <1>1 DEF hand, InHand
  <2> QED  BY <1>1, <2>1 DEF KeptInv, RetirerInv
<1>3. ResponsibleInv'
  <2>1. SUFFICES ASSUME NEW o \in alive, IsZero(orc[o])
                 PROVE  \E t \in Threads : Responsible(t, o)'
    BY <1>1 DEF ResponsibleInv
  <2>2. o \in Obj
    BY DEF TypeOK, ObjType
  <2>3. PICK t \in Threads : Responsible(t, o)
    BY <2>1 DEF KeptInv, ResponsibleInv
  <2> QED  BY <1>1, <2>2, <2>3, OthersKeep
<1>4. \A t \in Threads : ClearsOld(t)'
  BY <1>1 DEF KeptInv, ClearsOld
<1> QED  BY <1>2, <1>3, <1>4 DEF KeptInv

\* Every object with BRETIRED has a retirer, and every object with a count of
\* zero has a thread that will retire it, in every program that does not use
\* the setUnmarked() of loads.
THEOREM KeptInvariant ==
    ASSUME NoUnmarked
    PROVE  Spec => []KeptInv
<1>1. Init => KeptInv
  BY InitKept
<1>2. RetireInv /\ KeptInv /\ [Next]_vars => KeptInv'
  <2>1. ASSUME RetireInv, KeptInv, NEW t \in Threads, Begin(t) \/ Call(t) PROVE KeptInv'
    BY <2>1, RetirerKept, ResponsibleKept, ClearsKept DEF KeptInv
  <2> QED  BY <2>1, StutterKept DEF Next, Down, RetireInv, LocalsInv
<1> QED  BY <1>1, <1>2, RetireInvariant, PTL DEF Spec

\* Between operations of such programs, an object without a link waits in a
\* handover, or has an orc_ptr that will call clear() for it.
THEOREM NothingIsForgotten ==
    ASSUME NoUnmarked
    PROVE  Spec => []NothingForgotten
<1>1. RetireInv /\ KeptInv => NothingForgotten
  <2> SUFFICES ASSUME RetireInv, KeptInv, Quiet, NEW o \in alive, orc[o].cnt = 0
               PROVE  \/ \E t \in Threads, i \in PtrIdx : slot[t][i] = [ptr |-> o, lnk |-> FALSE]
                      \/ \E t \in Threads, i \in Idx : handovers[t][i] = o
    BY DEF NothingForgotten
  <2>0. o \in Obj /\ o # Null
    BY ValueAssumption DEF RetireInv, LocalsInv, TypeOK, ObjType
  <2>1. \A t \in Threads : pc[t] = "idle" /\ ptr[t] = Null /\ rlist[t] = <<>> /\ retTo[t] = "idle"
    BY OutsideFacts DEF Quiet, RetireInv, LocalsInv, Outside
  <2>2. CASE orc[o].ret
    <3>1. ~Fresh(o, hand, handovers, rlist)
      BY <2>2 DEF KeptInv, RetirerInv
    <3> QED  BY <2>0, <2>1, <3>1, Places DEF InList, hand, InHand
  <2>3. CASE ~orc[o].ret
    <3>1. PICK t \in Threads : Responsible(t, o)
      BY <2>3 DEF KeptInv, ResponsibleInv, IsZero
    <3> QED  BY <2>1, <3>1 DEF Responsible, Decides, Deciding
  <2> QED  BY <2>2, <2>3
<1> QED  BY <1>1, KeptInvariant, RetireInvariant, PTL

-----------------------------------------------------------------------------

\* The handovers are where the scans and the destructor look.  First, who
\* scans, and who ends.
LEMMA WhoScans ==
    ASSUME LocalsInv, NEW t \in Threads, Begin(t) \/ Call(t)
    PROVE  /\ pc'[t] = "threads" => RetireLoad(t) \/ ClearBitOk(t)
           /\ pc'[t] = "hps" => ScanThreads(t)
           /\ pc'[t] = "scan" => ScanHPs(t) \/ Scan(t)
           /\ pc'[t] = "hand" => Scan(t)
<1>0. TypeOK /\ ProgramType /\ LoopInv(t)
  BY DEF LocalsInv, TypeOK
<1>1. CASE Begin(t)
  BY <1>0, <1>1 DEF Begin, Register, MakeOrc, Load, Assign, Store, CompareExchange, PoisonCell,
     CopyPtr, DropPtr, Shutdown, Start, Run, Goto, ProgramType
<1>2. CASE Call(t)
  BY <1>0, <1>2 DEF Call, ProgramType, LoopInv, Returns, GetProtected, Loaded, Run, Publish,
     GetNewIdx, ProtectPtr, Clear, AfterClear, ClearCas, CasRetired, Retire, IncrementOrc,
     IncrementCas, AfterInc, Exchange, DecrementProtect, DecrementOrc, DecrementTest, AfterDec,
     DecrementCas, ResetRetcnt, RetireOne, Seek, SeekNext, SeekHP, TakeHandover, RetireSelf,
     Continue, RetireLoad, TryHandover, ClearBitProtect, ClearBit, ClearBitCas, ClearBitOk,
     ClearBitFail, ScanThreads, ScanHPs, Scan, HandOver, CheckWord, Destroy, FreeObj, Sweep, Goto
<1> QED  BY <1>1, <1>2

\* Which steps change what the destructor visits and what it finds there.
LEMMA WhoEnds ==
    ASSUME NEW t \in Threads, Begin(t) \/ Call(t)
    PROVE  /\ ~Shutdown(t) /\ ~Sweep(t) => left' = left
           /\ ~(RetireSelf(t) \/ HandOver(t) \/ TakeHandover(t) \/ Sweep(t)) => handovers' = handovers
<1> USE DEF hpVars, gcVars, endVars
<1>1. CASE Begin(t)
  BY <1>1 DEF Begin, Register, MakeOrc, Load, Assign, Store, CompareExchange, PoisonCell,
     CopyPtr, DropPtr, Shutdown
<1>2. CASE Call(t)
  BY <1>2 DEF Call, GetProtected, Publish, GetNewIdx, ProtectPtr, Clear, ClearCas,
       IncrementOrc, IncrementCas, Exchange, DecrementProtect, DecrementOrc, ResetRetcnt,
       DecrementCas, RetireOne, Seek, SeekHP, TakeHandover, RetireSelf, RetireLoad,
       ClearBitProtect, ClearBit, ClearBitCas, ClearBitOk, ClearBitFail, ScanThreads,
       ScanHPs, Scan, HandOver, CheckWord, Destroy, FreeObj, Sweep
<1> QED  BY <1>1, <1>2

\* The destructor is where it sweeps and where it ends.
LEMMA WhoComesDown ==
    ASSUME LocalsInv, NEW t \in Threads, Begin(t) \/ Call(t),
           NEW end \in {"sweep", "down"}, end \in {pc'[t], retTo'[t]}
    PROVE  Shutdown(t) \/ Sweep(t) \/ end \in {pc[t], retTo[t]}
<1>0. /\ TypeOK /\ ProgramType /\ RetType /\ ScanType /\ LoopInv(t) /\ ptr[t] \in Ptr
      /\ handovers \in [Threads -> [Idx -> Ptr]] /\ scan[t] \in SUBSET Place
  BY LocalTypes DEF LocalsInv, TypeOK, HpType
<1>1. CASE ~RetireSteps(t)
  <2>1. retTo'[t] = retTo[t]
    BY <1>1, WhoRetires
  <2>2. CASE Begin(t)
    BY <1>0, <2>1, <2>2 DEF Begin, Register, MakeOrc, Load, Assign, Store, CompareExchange, PoisonCell,
       CopyPtr, DropPtr, Start, Run, Goto, ProgramType
  <2>3. CASE Call(t)
    BY <1>0, <1>1, <2>1, <2>3 DEF RetireSteps, Call, ProgramType, GetProtected, Loaded, Publish,
       GetNewIdx, ProtectPtr, Clear, AfterClear, IncrementOrc, AfterInc, Exchange, DecrementProtect,
       DecrementOrc, DecrementTest, AfterDec, ResetRetcnt, RetireOne, Seek, SeekNext, SeekHP,
       RetireLoad, TryHandover, ClearBitProtect, ClearBit, ClearBitCas, ClearBitOk, ScanThreads,
       ScanHPs, Scan, CheckWord, Destroy, Goto, Run
  <2> QED  BY <2>2, <2>3
<1>2. CASE ClearCas(t) \/ IncrementCas(t) \/ DecrementCas(t)
  <2>1. PICK o \in Obj, w \in Word, l \in CasReturns : CasRetired(t, o, w, l)
    BY <1>2, CasRetires
  <2>2. (Moves(t, l) /\ SameRetire(t)) \/ Enters(t, o, l)
    BY <1>0, <2>1, CasCases DEF Ptr
  <2> QED  BY <2>2 DEF Moves, SameRetire, Enters, CasReturns
<1>3. CASE TakeHandover(t)
  <2>1. PICK p \in Place : Retire(t, handovers[p[1]][p[2]], "reset")
    BY <1>0, <1>3 DEF TakeHandover
  <2>2. handovers[p[1]][p[2]] \in Ptr
    BY <1>0 DEF Place
  <2> QED  BY <1>0, <2>1, <2>2, RetireCases DEF Moves, SameRetire, Enters
<1>4. CASE RetireSelf(t) \/ ClearBitFail(t) \/ HandOver(t) \/ FreeObj(t)
  <2>1. \E p \in Ptr : Continue(t, p)
    <3>1. CASE RetireSelf(t)
      BY <1>0, <3>1 DEF RetireSelf, OwnHp
    <3>2. CASE ClearBitFail(t) \/ FreeObj(t)
      BY <3>2 DEF ClearBitFail, FreeObj, Ptr
    <3>3. CASE HandOver(t)
      <4>1. PICK q \in scan[t] : Continue(t, handovers[q[1]][q[2]])
        BY <3>3 DEF HandOver
      <4>2. handovers[q[1]][q[2]] \in Ptr
        BY <1>0, <4>1 DEF Place
      <4> QED  BY <4>1, <4>2
    <3> QED  BY <1>4, <3>1, <3>2, <3>3
  <2> QED  BY <1>0, <2>1, ContinueCases DEF GoesOn, Comes, Moves
<1> QED  BY <1>1, <1>2, <1>3, <1>4 DEF RetireSteps

\* A step keeps the bounds of the handovers in use, and the destructor empties
\* the entries it leaves behind.
LEMMA SweepKept ==
    ASSUME RetireInv, DownInv, SweepInv, NEW t \in Threads, Begin(t) \/ Call(t)
    PROVE  SweepInv'
<1>0. /\ TypeOK /\ LocalsInv /\ ProgramType /\ LoopInv(t) /\ handovers \in [Threads -> [Idx -> Ptr]]
      /\ \A u \in Threads : LoopInv(u)
      /\ scan \in [Threads -> SUBSET Place] /\ left \in SUBSET Place /\ maxHPs \in Nat /\ maxThreads \in Nat
      /\ slot \in [Threads -> [PtrIdx -> [ptr : Ptr, lnk : BOOLEAN]]]
      /\ Idx \subseteq Nat /\ Threads \subseteq Nat
      /\ \A u \in Threads \ {t} : Wide(u)
  BY WideFrame, HazAssumption, NAssumption
     DEF RetireInv, LocalsInv, TypeOK, ProgramType, HpType, ScanType, Idx, Threads
<1>1. maxHPs <= maxHPs' /\ maxThreads <= maxThreads' /\ maxHPs' \in Nat /\ maxThreads' \in Nat
  BY <1>0, IndexFacts, WhoWrites DEF GetNewIdx, Register
<1>2. ASSUME NEW u \in Threads, pc'[u] # "idle" \/ Held(u)' # {} PROVE u < maxThreads'
  <2>1. CASE u # t
    <3>1. pc'[u] = pc[u] /\ Held(u)' = Held(u) /\ u \in Nat
      BY <1>0, <2>1 DEF Wide, Frame, Held
    <3> QED  BY <1>0, <1>1, <1>2, <3>1 DEF SweepInv
  <2>2. CASE u = t /\ (pc[t] # "idle" \/ Held(t) # {})
    BY <1>0, <1>1, <2>2 DEF SweepInv
  <2>3. CASE u = t /\ pc[t] = "idle" /\ Held(t) = {}
    <3>1. CASE Register(t)
      BY <1>0, <2>3, <3>1 DEF Register
    <3>2. CASE DropPtr(t)
      BY <2>3, <3>2 DEF DropPtr, Held
    <3>3. CASE ~Register(t) /\ ~DropPtr(t)
      <4>1. Begin(t)
        BY <2>3 DEF Call, GetProtected, Publish, GetNewIdx, ProtectPtr, Clear, ClearCas,
          IncrementOrc, IncrementCas, Exchange, DecrementProtect, DecrementOrc, ResetRetcnt,
          DecrementCas, RetireOne, Seek, SeekHP, TakeHandover, RetireSelf, RetireLoad,
          ClearBitProtect, ClearBit, ClearBitCas, ClearBitOk, ClearBitFail, ScanThreads,
          ScanHPs, Scan, HandOver, CheckWord, Destroy, FreeObj, Sweep
      <4>2. t < maxThreads
        BY <3>3, <4>1 DEF Begin, MakeOrc, Load, Assign, Store, CompareExchange, PoisonCell,
           CopyPtr, Shutdown, Start
      <4> QED  BY <1>0, <1>1, <2>3, <4>2
    <3> QED  BY <3>1, <3>2, <3>3
  <2> QED  BY <2>1, <2>2, <2>3
<1>3. ASSUME NEW u \in Threads
      PROVE  /\ pc'[u] = "hps" => \A p \in scan'[u] : p[1] < maxThreads'
             /\ pc'[u] \in {"scan", "hand"} => \A p \in scan'[u] : Used(p)'
  <2>1. /\ pc[u] = "hps" => \A p \in scan[u] : p[1] < maxThreads'
        /\ pc[u] \in {"scan", "hand"} => \A p \in scan[u] : Used(p)'
    <3>1. \A p \in Place : p[1] \in Nat /\ p[2] \in Nat
      BY <1>0 DEF Place
    <3>2. \A p \in scan[u] : p \in Place
      BY <1>0
    <3> QED  BY <1>0, <1>1, <3>1, <3>2 DEF SweepInv, Used
  <2>2. CASE u # t
    BY <1>0, <2>1, <2>2 DEF Wide, Frame
  <2>3. CASE u = t /\ pc'[t] = "hps"
    <3>1. scan'[t] = {p \in Place : p[1] < maxThreads} /\ maxThreads' = maxThreads
      BY <1>0, <2>3, WhoScans DEF ScanThreads, hpVars
    <3> QED  BY <2>3, <3>1
  <2>4. CASE u = t /\ pc'[t] \in {"scan", "hand"}
    <3>1. CASE ScanHPs(t)
      <4>1. /\ scan'[t] = {p \in scan[t] : p[2] < maxHPs} /\ pc[t] = "hps"
            /\ maxThreads' = maxThreads /\ maxHPs' = maxHPs
        BY <1>0, <3>1 DEF ScanHPs, hpVars
      <4> QED  BY <2>1, <2>4, <4>1 DEF Used
    <3>2. CASE Scan(t)
      <4>1. scan'[t] \subseteq scan[t] /\ pc[t] = "scan"
        BY <1>0, <3>2 DEF Scan
      <4> QED  BY <2>1, <2>4, <4>1
    <3> QED  BY <2>4, <3>1, <3>2, <1>0, WhoScans
  <2> QED  BY <2>2, <2>3, <2>4
<1>4. ASSUME NEW u \in Threads, inDestructor' PROVE pc'[u] \notin {"threads", "hps", "scan", "hand"}
  <2>1. CASE Shutdown(t)
    BY <1>0, <2>1 DEF Shutdown, Goto, ProgramType
  <2>2. CASE inDestructor /\ u # t
    BY <1>0, <2>2 DEF SweepInv, Wide, Frame
  <2>3. CASE inDestructor /\ u = t
    <3>1. pc'[t] # "threads"
      BY <1>0, <2>3, WhoScans DEF RetireLoad, ClearBitOk, TryHandover, SweepInv, Goto, ProgramType
    <3>2. pc'[t] \notin {"hps", "scan", "hand"}
      BY <1>0, <2>3, WhoScans DEF ScanThreads, ScanHPs, Scan, SweepInv
    <3> QED  BY <2>3, <3>1, <3>2
  <2> QED  BY <1>4, <2>1, <2>2, <2>3, WhoWrites
<1>5. ASSUME NEW u \in Threads, NEW l \in {"sweep", "down"}, l \in {pc'[u], retTo'[u]}
      PROVE  inDestructor'
  <2>1. CASE Shutdown(t)
    BY <2>1 DEF Shutdown
  <2>2. CASE Sweep(t)
    BY <2>2 DEF Sweep, SweepInv
  <2>3. CASE ~Shutdown(t) /\ ~Sweep(t)
    <3>1. l \in {pc[u], retTo[u]}
      BY <1>0, <1>5, <2>3, WhoComesDown DEF Wide, Frame
    <3> QED  BY <2>3, <3>1, WhoWrites DEF SweepInv
  <2> QED  BY <2>1, <2>2, <2>3
<1>6. ASSUME NEW u \in Threads, "down" \in {pc'[u], retTo'[u]} PROVE left' = {}
  <2>1. CASE Shutdown(t)
    <3>1. pc[u] = "idle" /\ pc[t] = "idle" /\ ~inDestructor
      BY <2>1 DEF Shutdown
    <3>2. retTo[u] = "idle" /\ retTo' = retTo
      BY <1>0, <2>1, <3>1, OutsideFacts DEF Outside, Shutdown, retVars
    <3>3. pc'[t] = "down" /\ maxHPs = 0
      BY <1>0, <1>6, <2>1, <3>1, <3>2 DEF Shutdown, Goto, ProgramType
    <3>4. left' = {p \in Place : p[1] < maxThreads /\ p[2] < maxHPs}
      BY <2>1 DEF Shutdown
    <3>5. \A p \in Place : p[2] \in Nat
      BY <1>0 DEF Place
    <3> QED  BY <3>3, <3>4, <3>5
  <2>2. CASE Sweep(t)
    <3>1. PICK p \in left : /\ left' = left \ {p}
                            /\ Retire(t, handovers[p[1]][p[2]], IF left = {p} THEN "down" ELSE "sweep")
      BY <2>2 DEF Sweep
    <3>2. \A x \in Threads : "down" \notin {pc[x], retTo[x]}
      BY <3>1 DEF SweepInv
    <3>4. u = t
      BY <1>0, <1>6, <3>2 DEF Wide, Frame
    <3>5. SUFFICES ASSUME left # {p} PROVE FALSE
      BY <3>1
    <3>6. Retire(t, handovers[p[1]][p[2]], "sweep")
      BY <3>1, <3>5
    <3>7. handovers[p[1]][p[2]] \in Ptr
      BY <1>0 DEF Place
    <3>8. pc'[t] \in {"sweep", "self"} /\ retTo'[t] \in {"sweep", retTo[t]}
      BY <1>0, <3>6, <3>7, RetireCases DEF Moves, SameRetire, Enters, TypeOK
    <3> QED  BY <1>6, <3>2, <3>4, <3>8
  <2>3. CASE ~Shutdown(t) /\ ~Sweep(t)
    <3>1. "down" \in {pc[u], retTo[u]}
      BY <1>0, <1>6, <2>3, WhoComesDown DEF Wide, Frame
    <3> QED  BY <2>3, <3>1, WhoEnds DEF SweepInv
  <2> QED  BY <2>1, <2>2, <2>3
<1>7. ASSUME NEW u \in Threads, NEW i \in Idx, handovers'[u][i] # Null
      PROVE  Used(<<u, i>>)' /\ (inDestructor' => <<u, i>> \in left')
  <2>0. u \in Nat /\ i \in Nat /\ <<u, i>> \in Place
    BY <1>0 DEF Place
  <2>1. CASE handovers[u][i] # Null /\ ~Shutdown(t) /\ ~Sweep(t)
    <3>1. Used(<<u, i>>) /\ (inDestructor => <<u, i>> \in left)
      BY <2>1 DEF SweepInv
    <3>2. left' = left /\ inDestructor' = inDestructor
      BY <2>1, WhoEnds, WhoWrites
    <3> QED  BY <1>1, <1>0, <2>0, <3>1, <3>2 DEF Used
  <2>2. CASE Shutdown(t)
    <3>1. handovers' = handovers /\ maxThreads' = maxThreads /\ maxHPs' = maxHPs
      BY <2>2 DEF Shutdown, hpVars
    <3>2. Used(<<u, i>>)
      BY <1>7, <3>1 DEF SweepInv
    <3>3. left' = {p \in Place : p[1] < maxThreads /\ p[2] < maxHPs}
      BY <2>2 DEF Shutdown
    <3> QED  BY <2>0, <3>1, <3>2, <3>3 DEF Used
  <2>3. CASE Sweep(t)
    <3>1. PICK p \in left : /\ left' = left \ {p}
                            /\ handovers' = [handovers EXCEPT ![p[1]][p[2]] = Null]
      BY <2>3 DEF Sweep
    <3>2. p = <<p[1], p[2]>> /\ p[1] \in Threads /\ p[2] \in Idx
      BY <1>0 DEF Place
    <3>3. handovers[u][i] # Null /\ <<u, i>> # p
      BY <1>0, <1>7, <3>1, <3>2
    <3>4. maxThreads' = maxThreads /\ maxHPs' = maxHPs /\ inDestructor' = inDestructor
      BY <2>3 DEF Sweep
    <3> QED  BY <3>1, <3>3, <3>4 DEF SweepInv, Used
  <2>4. CASE handovers[u][i] = Null /\ RetireSelf(t)
    <3>1. /\ handovers' # handovers
          /\ pc[t] = "self" /\ maxHPs' = maxHPs /\ maxThreads' = maxThreads /\ inDestructor' = inDestructor
      BY <1>7, <2>4 DEF RetireSelf, endVars
    <3>2. PICK j \in OwnHp(t) : ~inDestructor /\ handovers' = [handovers EXCEPT ![t][j] = ptr[t]]
      BY <2>4, <3>1 DEF RetireSelf
    <3>3. u = t /\ i = j
      BY <1>0, <1>7, <2>4, <3>2
    <3>4. j < maxHPs /\ t < maxThreads
      BY <3>1, <3>2 DEF OwnHp, SweepInv
    <3> QED  BY <3>1, <3>2, <3>3, <3>4 DEF Used
  <2>5. CASE handovers[u][i] = Null /\ HandOver(t)
    <3>1. PICK p \in scan[t] : handovers' = [handovers EXCEPT ![p[1]][p[2]] = ptr[t]]
      BY <2>5 DEF HandOver
    <3>2. /\ pc[t] = "hand" /\ maxHPs' = maxHPs /\ maxThreads' = maxThreads
          /\ inDestructor' = inDestructor
      BY <2>5 DEF HandOver, endVars
    <3>3. Used(p) /\ ~inDestructor
      BY <3>1, <3>2 DEF SweepInv
    <3>4. p[1] = u /\ p[2] = i
      BY <1>0, <1>7, <2>5, <3>1 DEF Place
    <3> QED  BY <3>2, <3>3, <3>4 DEF Used
  <2>6. CASE handovers[u][i] = Null /\ TakeHandover(t)
    <3>1. PICK p \in scan[t] : handovers' = [handovers EXCEPT ![p[1]][p[2]] = Null]
      BY <2>6 DEF TakeHandover
    <3> QED  BY <1>0, <1>7, <2>6, <3>1 DEF Place
  <2> QED  BY <1>7, <2>1, <2>2, <2>3, <2>4, <2>5, <2>6, WhoEnds
<1> QED  BY <1>2, <1>3, <1>4, <1>5, <1>6, <1>7 DEF SweepInv

\* DownInv and SweepInv too.
LEMMA SweepStutter ==
    ASSUME DownInv, SweepInv, UNCHANGED vars
    PROVE  DownInv' /\ SweepInv'
<1>1. /\ UNCHANGED <<handovers, maxHPs, maxThreads, inDestructor, left>>
      /\ UNCHANGED <<pc, retTo, scan, slot>>
  BY DEF vars, hpVars, gcVars, decVars, retVars, endVars
<1>2. \A t \in Threads : Held(t)' = Held(t)
  BY <1>1 DEF Held
<1> QED  BY <1>1, <1>2 DEF DownInv, SweepInv, Used

\* What the destructor relies on: when it has emptied the handovers that are
\* in use, all are empty.
THEOREM SweepInvariant == Spec => [](DownInv /\ SweepInv)
<1>1. Init => DownInv /\ SweepInv
  BY DEF Init, DownInv, SweepInv, Held, NoPtr
<1>2. RetireInv /\ DownInv /\ SweepInv /\ [Next]_vars => DownInv' /\ SweepInv'
  BY DownStep, SweepKept, SweepStutter DEF Next, Down
<1> QED  BY <1>1, <1>2, RetireInvariant, PTL DEF Spec

\* When the destructor of such a program is through, every object without a
\* link has been deleted.
THEOREM EverythingIsReclaimed ==
    ASSUME NoUnmarked
    PROVE  Spec => []AllReclaimed
<1>1. RetireInv /\ KeptInv /\ DownInv /\ SweepInv => AllReclaimed
  <2> SUFFICES ASSUME RetireInv, KeptInv, DownInv, SweepInv, NEW d \in Threads, pc[d] = "down",
                      NEW o \in alive, orc[o].cnt = 0
               PROVE  FALSE
    BY DEF AllReclaimed
  <2>0. o \in Obj /\ o # Null
    BY ValueAssumption DEF RetireInv, LocalsInv, TypeOK, ObjType
  <2>1. inDestructor /\ left = {}
    BY DEF SweepInv
  <2>2. \A t \in Threads : pc[t] \in {"idle", "down"}
    BY <2>1 DEF DownInv
  <2>3. \A t \in Threads : ptr[t] = Null /\ rlist[t] = <<>> /\ retTo[t] = "idle"
    BY <2>2, OutsideFacts DEF RetireInv, LocalsInv, Outside
  <2>4. CASE orc[o].ret
    <3>1. ~Fresh(o, hand, handovers, rlist)
      BY <2>4 DEF KeptInv, RetirerInv
    <3>2. \A t \in Threads, i \in Idx : handovers[t][i] = Null
      BY <2>1 DEF SweepInv
    <3> QED  BY <2>0, <2>3, <3>1, <3>2, Places DEF InList, hand, InHand
  <2>5. CASE ~orc[o].ret
    <3>1. PICK t \in Threads : Responsible(t, o)
      BY <2>5 DEF KeptInv, ResponsibleInv, IsZero
    <3>2. \A i \in PtrIdx : slot[t][i].ptr # o
      BY <2>0, <2>1 DEF DownInv, Held
    <3> QED  BY <2>2, <2>3, <3>1, <3>2 DEF Responsible, Decides, Deciding
  <2> QED  BY <2>4, <2>5
<1> QED  BY <1>1, KeptInvariant, SweepInvariant, RetireInvariant, PTL

-----------------------------------------------------------------------------

(* What is freed, nobody reaches: the counts, the hps and the scans of    *)
(* tryHandover() together keep every object that a thread can reach.       *)
(* First comes what the steps leave alone, then one part of SafeInv after  *)
(* the other, and at the end the theorems.                                 *)

\* The counts and sequence numbers that a step leaves alone.
CountsStay == \A o \in Obj : orc'[o].cnt = orc[o].cnt /\ orc'[o].seq = orc[o].seq

\* Four steps change a count or a sequence number.
LEMMA WhoCounts ==
    ASSUME TypeOK, NEW t \in Threads, Begin(t) \/ Call(t), ~CountSteps(t)
    PROVE  CountsStay
<1>0. orc \in [Obj -> [cnt : Int, ret : BOOLEAN, seq : Nat]]
  BY DEF TypeOK, ObjType, Word
<1>1. CASE Begin(t)
  BY <1>1 DEF Begin, Register, MakeOrc, Load, Assign, Store, CompareExchange, PoisonCell,
     CopyPtr, DropPtr, Shutdown, CountsStay, CountSteps, objVars
<1>2. CASE ClearCas(t) \/ IncrementCas(t) \/ DecrementCas(t)
  BY <1>0, <1>2 DEF ClearCas, IncrementCas, DecrementCas, CasRetired, CountsStay
<1>3. CASE ClearBit(t) \/ ClearBitCas(t)
  BY <1>0, <1>3 DEF ClearBit, ClearBitCas, CountsStay
<1>4. CASE Call(t) /\ ~ClearCas(t) /\ ~IncrementCas(t) /\ ~DecrementCas(t) /\ ~ClearBit(t) /\ ~ClearBitCas(t)
  BY <1>4 DEF CountsStay, CountSteps, objVars, Call, GetProtected, Publish, GetNewIdx,
       ProtectPtr, Clear, Exchange, DecrementProtect, ResetRetcnt,
       RetireOne, Seek, SeekHP, TakeHandover, RetireSelf, RetireLoad,
       ClearBitProtect, ClearBitOk, ClearBitFail, ScanThreads,
       ScanHPs, Scan, HandOver, CheckWord, Destroy, Sweep
<1> QED  BY <1>1, <1>2, <1>3, <1>4

GuardsShrink(t) == \A i \in Idx, o \in Obj : Guarded(t, i, o)' => Guarded(t, i, o)

\* The steps that begin to rely on an hp.
GuardSteps(t) == \/ MakeOrc(t) \/ GetProtected(t) \/ ProtectPtr(t)
                 \/ DecrementProtect(t) \/ ClearBitProtect(t)

\* A thread between operations relies on its orc_ptrs only.
LEMMA IdleFacts ==
    ASSUME NEW t \in Threads, LoopInv(t), pc[t] = "idle"
    PROVE  ~retireStarted[t] /\ retTo[t] = "idle"
  BY DEF LoopInv, LoopSteps, DecSteps

\* The first step of an operation protects nothing, make_orc() apart.
LEMMA BeginGuards ==
    ASSUME LocalsInv, NEW t \in Threads, Begin(t), ~GuardSteps(t)
    PROVE  GuardsShrink(t)
<1>0. /\ ProgramType /\ LoopInv(t) /\ op[t] \in Operation
      /\ slot[t] \in [PtrIdx -> [ptr : Ptr, lnk : BOOLEAN]]
  BY DEF LocalsInv, TypeOK, ProgramType
<1>1. CASE Register(t)
  <2>1. Frame(t) /\ slot' = slot
    BY <1>1 DEF Register, Frame, gcVars, decVars, retVars
  <2> QED  BY <2>1 DEF Frame, GuardsShrink, Guarded, Temporary, Carried, Decremented, Suspended,
        Releasing, Cleared, Undecided, Level
<1>2. ASSUME pc[t] = "idle", slot' = slot, Kept(t),
             pc'[t] \in {"read", "inc", "xchg", "newidx", "decprotect", "idle", "sweep", "down"},
             pc'[t] = "newidx" => op'[t].kind = "copy"
      PROVE  GuardsShrink(t)
  <2>1. ~retireStarted'[t] /\ retTo'[t] = "idle"
    BY <1>0, <1>2, IdleFacts DEF Kept
  <2>2. ASSUME NEW o \in Obj PROVE o \notin Temporary(t)'
    BY <1>2, <2>1, ValueAssumption DEF Temporary, Carried, Decremented, Suspended, Releasing, Deciding
  <2>3. ASSUME NEW o \in Obj, NEW i \in PtrIdx, Guarded(t, i, o)' PROVE Guarded(t, i, o)
    BY <1>2, <2>3, HazAssumption DEF Guarded, Cleared, PtrIdx
  <2> QED  BY <2>2, <2>3 DEF GuardsShrink, Guarded
<1>3. CASE Load(t) \/ Assign(t) \/ Store(t) \/ CopyPtr(t)
  <2>1. pc[t] = "idle" /\ slot' = slot
    BY <1>3 DEF Load, Assign, Store, CopyPtr, Start
  <2>2. Kept(t)
    BY <1>3, UnchangedKept DEF Load, Assign, Store, CopyPtr, gcVars
  <2>3. CASE CopyPtr(t)
    <3>1. pc'[t] = "newidx" /\ op'[t].kind = "copy"
      BY <1>0, <2>3 DEF CopyPtr, Run, ProgramType, NoOp
    <3> QED  BY <1>2, <2>1, <2>2, <3>1
  <2>4. CASE Load(t) \/ Assign(t) \/ Store(t)
    <3>1. pc'[t] \in {"read", "inc", "xchg"}
      BY <1>0, <2>4 DEF Load, Assign, Store, Run, ProgramType
    <3> QED  BY <1>2, <2>1, <2>2, <3>1
  <2> QED  BY <1>3, <2>3, <2>4
<1>4. CASE CompareExchange(t) \/ PoisonCell(t) \/ Shutdown(t)
  <2>1. pc[t] = "idle" /\ slot' = slot
    BY <1>4 DEF CompareExchange, PoisonCell, Shutdown, Start
  <2>2. Kept(t)
    BY <1>4, UnchangedKept DEF CompareExchange, PoisonCell, Shutdown
  <2>3. pc'[t] \in {"inc", "decprotect", "idle", "sweep", "down"}
    BY <1>0, <1>4 DEF CompareExchange, PoisonCell, Shutdown, Run, Goto, ProgramType
  <2> QED  BY <1>2, <2>1, <2>2, <2>3
<1>5. CASE DropPtr(t)
  <2>1. PICK i \in PtrIdx :
          /\ slot' = [slot EXCEPT ![t][i] = NoPtr]
          /\ \/ UNCHANGED <<pc, op>>
             \/ Run(t, [NoOp EXCEPT !.old = slot[t][i].ptr, !.from = i], "clear")
    BY <1>5 DEF DropPtr
  <2>2. pc[t] = "idle"
    BY <1>5 DEF DropPtr
  <2>3. Kept(t)
    BY <1>5, UnchangedKept DEF DropPtr, gcVars
  <2>4. ~retireStarted'[t] /\ retTo'[t] = "idle"
    BY <1>0, <2>2, <2>3, IdleFacts DEF Kept
  <2>5. slot'[t] = [slot[t] EXCEPT ![i] = NoPtr]
    BY <1>0, <2>1 DEF ProgramType
  <2>6. \/ pc'[t] = "idle"
        \/ pc'[t] = "clear" /\ op'[t].old = slot[t][i].ptr /\ op'[t].from = i /\ op'[t].kind = "none"
    BY <1>0, <2>1, <2>2 DEF Run, ProgramType, NoOp
  <2>7. ASSUME NEW o \in Obj PROVE o \notin Temporary(t)'
    BY <2>6, <2>4, ValueAssumption DEF Temporary, Carried, Decremented, Suspended, Releasing, Deciding
  <2>8. ASSUME NEW o \in Obj, NEW j \in PtrIdx, Guarded(t, j, o)' PROVE Guarded(t, j, o)
    <3>1. NoPtr.ptr # o
      BY ValueAssumption DEF NoPtr
    <3>2. \/ slot'[t][j].ptr = o
          \/ Cleared(t, j)' /\ op'[t].old = o
      BY <2>8, HazAssumption DEF Guarded, PtrIdx
    <3>3. slot[t][j].ptr = o
      BY <1>0, <2>5, <2>6, <3>1, <3>2 DEF Cleared
    <3> QED  BY <3>3 DEF Guarded
  <2> QED  BY <2>7, <2>8 DEF GuardsShrink, Guarded
<1> QED  BY <1>1, <1>3, <1>4, <1>5 DEF Begin, GuardSteps


\* A step inside an operation that changes neither its decrementOrc() nor
\* its orc_ptrs relies on no more than before if what it goes to relies on
\* the same object.
LEMMA MoveGuards ==
    ASSUME NEW t \in Threads, NEW l, Moves(t, l), SameRetire(t),
           dec'[t][0] = dec[t][0] \/ retTo[t] = "idle",
           l \in Deciding => dec'[t][Level(t)] = dec[t][Level(t)],
           slot'[t] = slot[t], LoopInv(t), l = "idle" => ~retireStarted[t] /\ pc[t] # "self",
           l \in {"newidx", "protect"} =>
               \/ pc[t] \in {"newidx", "protect"}
               \/ pc[t] \in {"clear", "clearcas"} /\ op[t].kind = "assign",
           l \in {"clear", "clearcas"} => pc[t] \in {"clear", "clearcas"},
           l \in Deciding => pc[t] \in Deciding, l # "decfaa",
           l \in {"cbfaa", "cbcas"} => pc[t] \in {"cbfaa", "cbcas"}
    PROVE  GuardsShrink(t)
<1>1. Level(t)' = Level(t)
  BY DEF SameRetire, Level
<1>2. CASE l = "idle"
  <2>1. retTo'[t] = "idle" /\ pc'[t] = "idle"
    BY <1>2 DEF LoopInv, SameRetire, Moves
  <2>2. ASSUME NEW o \in Obj PROVE o \notin Temporary(t)'
    BY <2>1, ValueAssumption DEF Temporary, Carried, Decremented, Suspended, Releasing, Deciding
  <2>3. ASSUME NEW o \in Obj, NEW i \in PtrIdx, Guarded(t, i, o)' PROVE Guarded(t, i, o)
    BY <2>1, <2>3, HazAssumption DEF Guarded, Cleared, PtrIdx
  <2> QED  BY <2>2, <2>3 DEF GuardsShrink, Guarded
<1>3. CASE l # "idle"
  <2>1. op'[t] = op[t] /\ pc'[t] = l
    BY <1>3 DEF Moves
  <2>2. ASSUME NEW o \in Obj, o \in Temporary(t)' PROVE o \in Temporary(t)
    <3> USE <2>1, <2>2, <1>1, ValueAssumption DEF SameRetire
    <3>1. CASE o = Carried(t)'
      BY <3>1 DEF Carried, Temporary
    <3>2. CASE o = Decremented(t)'
      BY <3>2 DEF Decremented, Undecided, Temporary, Deciding
    <3>3. CASE o = Suspended(t)'
      BY <3>3 DEF Suspended, Undecided, Temporary
    <3>4. CASE o = Releasing(t)'
      BY <3>4 DEF Releasing, Temporary
    <3> QED  BY <3>1, <3>2, <3>3, <3>4 DEF Temporary
  <2>3. ASSUME NEW o \in Obj, NEW i \in PtrIdx, Guarded(t, i, o)' PROVE Guarded(t, i, o)
    BY <2>1, <2>3, HazAssumption DEF Guarded, Cleared, PtrIdx
  <2> QED  BY <2>2, <2>3 DEF GuardsShrink, Guarded
<1> QED  BY <1>2, <1>3

\* The shares of t in the counts stay as they are, ...
SharesStay(t) == \A o \in Obj :
    /\ Late(t, o)' <=> Late(t, o)
    /\ Early(t, o)' <=> Early(t, o)
    /\ Owed(t, o)' <=> Owed(t, o)
    /\ OwedInside(t, o)' <=> OwedInside(t, o)

\* ... and so does the object that t deletes.
DeletingStays(t) ==
    (Deleting(t)' <=> Deleting(t)) /\ (Deleting(t) => ptr'[t] = ptr[t])

\* The steps at which a thread may have a share in a count.
ShareSteps == {"inc", "inccas", "xchg", "decprotect", "decfaa"}

\* A jump between two steps that carry no share keeps the shares.
LEMMA MoveShares ==
    ASSUME NEW t \in Threads, NEW l, Moves(t, l), SameRetire(t),
           pc[t] \notin ShareSteps, l \notin ShareSteps,
           dec'[t][0] = dec[t][0] \/ retTo[t] = "idle", l = "idle" => retTo[t] = "idle"
    PROVE  SharesStay(t)
<1>1. ASSUME NEW o \in Obj PROVE ~Late(t, o) /\ ~Late(t, o)' /\ ~OwedInside(t, o) /\ ~OwedInside(t, o)'
  BY DEF Late, OwedInside, ShareSteps, Moves
<1>2. ASSUME NEW o \in Obj PROVE Early(t, o)' <=> Early(t, o)
  BY DEF Early, ShareSteps, Moves, SameRetire
<1>3. ASSUME NEW o \in Obj PROVE Owed(t, o)' <=> Owed(t, o)
  BY DEF Owed, ShareSteps, Moves, SameRetire
<1> QED  BY <1>1, <1>2, <1>3 DEF SharesStay

\* A jump inside the deleter or outside it keeps what t deletes.
LEMMA MoveDeleting ==
    ASSUME NEW t \in Threads, NEW l, Moves(t, l), SameRetire(t),
           retireStarted[t] => (pc[t] \in DecSteps \cup {"free"} <=> l \in DecSteps \cup {"free"})
    PROVE  DeletingStays(t)
  BY DEF DeletingStays, Deleting, Moves, SameRetire

\* A loop of retire() that ends or starts again.
LEMMA ContinueStill ==
    ASSUME NEW t \in Threads, LoopInv(t), GoesOn(t) \/ Comes(t),
           pc[t] \in LoopSteps \cup {"self"},
           dec'[t] = dec[t], slot'[t] = slot[t]
    PROVE  /\ GuardsShrink(t) /\ SharesStay(t)
           /\ pc[t] # "free" => DeletingStays(t)
<1>1. /\ pc[t] \notin DecSteps /\ pc[t] \notin ShareSteps
      /\ pc[t] \notin {"newidx", "protect", "clear", "clearcas"}
  BY DEF LoopSteps, DecSteps, ShareSteps
<1>2. CASE GoesOn(t)
  <2>1. pc'[t] = "load" /\ op'[t] = op[t] /\ retTo'[t] = retTo[t] /\ retireStarted'[t]
    BY <1>2 DEF GoesOn, Moves
  <2>2. ASSUME NEW o \in Obj, o \in Temporary(t)' PROVE o \in Temporary(t)
    <3>1. o = Carried(t)' \/ o = Suspended(t)'
      BY <2>1, <2>2, ValueAssumption DEF Temporary, Decremented, Releasing, Deciding
    <3> QED  BY <2>1, <3>1, ValueAssumption DEF Temporary, Carried, Suspended, Undecided
  <2>3. ASSUME NEW o \in Obj, NEW i \in PtrIdx, Guarded(t, i, o)' PROVE Guarded(t, i, o)
    BY <2>1, <2>3, HazAssumption DEF Guarded, Cleared, PtrIdx
  <2>4. SharesStay(t)
    BY <2>1, <1>1 DEF SharesStay, Late, Early, Owed, OwedInside, ShareSteps
  <2>5. pc[t] # "free" => DeletingStays(t)
    BY <2>1, <1>1 DEF DeletingStays, Deleting, DecSteps
  <2> QED  BY <2>2, <2>3, <2>4, <2>5 DEF GuardsShrink, Guarded
<1>3. CASE Comes(t)
  <2>1. pc'[t] = retTo[t] /\ retTo'[t] = "idle" /\ ~retireStarted'[t]
        /\ (retTo[t] # "idle" => op'[t] = op[t])
    BY <1>3 DEF Comes, Moves
  <2>1a. retTo[t] \in Returns
    BY DEF LoopInv
  <2>2. ASSUME NEW o \in Obj, o \in Temporary(t)' PROVE o \in Temporary(t)
    <3>1. o = Carried(t)' \/ o = Decremented(t)'
      BY <2>1, <2>1a, <2>2, ValueAssumption DEF Temporary, Suspended, Releasing, Returns
    <3>2. CASE o = Carried(t)'
      BY <2>1, <2>1a, <3>2, ValueAssumption DEF Temporary, Carried, Returns
    <3>3. CASE o = Decremented(t)'
      BY <2>1, <2>1a, <3>3, ValueAssumption DEF Temporary, Decremented, Suspended, Undecided, Returns, Deciding, Level
    <3> QED  BY <3>1, <3>2, <3>3
  <2>3. ASSUME NEW o \in Obj, NEW i \in PtrIdx, Guarded(t, i, o)' PROVE Guarded(t, i, o)
    BY <2>1, <2>1a, <2>3, HazAssumption DEF Guarded, Cleared, PtrIdx, Returns
  <2>4. SharesStay(t)
    BY <2>1, <2>1a, <1>1 DEF SharesStay, Late, Early, Owed, OwedInside, ShareSteps, Returns
  <2>5. pc[t] # "free" => DeletingStays(t)
    BY <2>1, <1>1 DEF DeletingStays, Deleting, DecSteps
  <2> QED  BY <2>2, <2>3, <2>4, <2>5 DEF GuardsShrink, Guarded
<1> QED  BY <1>2, <1>3

\* A call of retire() from outside.
LEMMA EnterStill ==
    ASSUME NEW t \in Threads, NEW p, NEW l, LoopInv(t), Enters(t, p, l), pc[t] # "self",
           slot'[t] = slot[t],
           l = "newidx" => pc[t] \in {"clear", "clearcas"} /\ op[t].kind = "assign",
           l = "reset" => pc[t] \in Deciding /\ dec'[t] = dec[t]
    PROVE  /\ GuardsShrink(t) /\ DeletingStays(t)
           /\ pc[t] \notin ShareSteps /\ l \notin {"xchg", "decprotect"} => SharesStay(t)
<1>1. /\ pc'[t] = "self" /\ op'[t] = op[t] /\ retTo'[t] = l /\ ~retireStarted'[t]
      /\ ~retireStarted[t] /\ retTo[t] = "idle"
  BY DEF Enters, Moves, LoopInv
<1>2. ASSUME NEW o \in Obj, o \in Temporary(t)' PROVE o \in Temporary(t)
  <2>1. o = Carried(t)' \/ o = Suspended(t)'
    BY <1>1, <1>2, ValueAssumption DEF Temporary, Decremented, Releasing, Deciding
  <2>2. CASE o = Carried(t)'
    BY <1>1, <2>2, ValueAssumption DEF Temporary, Carried
  <2>3. CASE o = Suspended(t)'
    BY <1>1, <2>3, ValueAssumption DEF Temporary, Decremented, Suspended, Undecided, Level
  <2> QED  BY <2>1, <2>2, <2>3
<1>3. ASSUME NEW o \in Obj, NEW i \in PtrIdx, Guarded(t, i, o)' PROVE Guarded(t, i, o)
  BY <1>1, <1>3, HazAssumption DEF Guarded, Cleared, PtrIdx
<1>4. DeletingStays(t)
  BY <1>1 DEF DeletingStays, Deleting
<1>5. ASSUME pc[t] \notin ShareSteps, l \notin {"xchg", "decprotect"} PROVE SharesStay(t)
  BY <1>1, <1>5 DEF SharesStay, Late, Early, Owed, OwedInside, ShareSteps
<1> QED  BY <1>2, <1>3, <1>4, <1>5 DEF GuardsShrink, Guarded

\* Nothing that the counts or the guards of t depend on moves.
Still(t) == GuardsShrink(t) /\ SharesStay(t) /\ DeletingStays(t)

\* A jump from one step of retire() to another.
LEMMA MoveStill ==
    ASSUME NEW t \in Threads, NEW l, LoopInv(t), Moves(t, l), SameRetire(t),
           dec'[t][0] = dec[t][0] \/ retTo[t] = "idle",
           l \in Deciding => dec'[t][Level(t)] = dec[t][Level(t)],
           slot'[t] = slot[t], l = "idle" => ~retireStarted[t] /\ pc[t] # "self",
           pc[t] \notin ShareSteps, l \notin ShareSteps,
           l \in {"newidx", "protect"} =>
               \/ pc[t] \in {"newidx", "protect"}
               \/ pc[t] \in {"clear", "clearcas"} /\ op[t].kind = "assign",
           l \in {"clear", "clearcas"} => pc[t] \in {"clear", "clearcas"},
           l \in Deciding => pc[t] \in Deciding,
           l \in {"cbfaa", "cbcas"} => pc[t] \in {"cbfaa", "cbcas"},
           retireStarted[t] => (pc[t] \in DecSteps \cup {"free"} <=> l \in DecSteps \cup {"free"})
    PROVE  Still(t)
<1>1. GuardsShrink(t)
  BY MoveGuards DEF ShareSteps
<1>2. SharesStay(t)
  BY MoveShares DEF LoopInv
<1>3. DeletingStays(t)
  BY MoveDeleting
<1> QED  BY <1>1, <1>2, <1>3 DEF Still

\* The steps of a call that are of none of these kinds.
BusySteps(t) ==
    \/ GuardSteps(t) \/ IncrementOrc(t) \/ Exchange(t) \/ DecrementOrc(t)
    \/ Destroy(t) \/ FreeObj(t)

\* A step of a call that is not one of BusySteps protects nothing new, moves no
\* share and deletes nothing.
LEMMA CallStill ==
    ASSUME LocalsInv, NEW t \in Threads, OperationInv(t), Call(t), ~BusySteps(t)
    PROVE  Still(t)
<1>0. /\ TypeOK /\ ProgramType /\ RetType /\ ScanType /\ DecType /\ LoopInv(t) /\ OperandInv(t)
      /\ ptr[t] \in Ptr /\ op[t].old \in Ptr /\ op[t].new \in Ptr
      /\ \A u \in Threads, i \in Idx : handovers[u][i] \in Ptr
  BY LocalTypes DEF LocalsInv, TypeOK
<1>1. CASE Publish(t) \/ GetNewIdx(t)
  <2>1. SameRetire(t) /\ dec'[t] = dec[t] /\ slot'[t] = slot[t]
    BY <1>1 DEF Publish, GetNewIdx, SameRetire, gcVars, retVars, decVars
  <2>2. \/ pc[t] = "publish" /\ Moves(t, "read")
        \/ pc[t] = "newidx" /\ Moves(t, "protect")
    BY <1>0, <1>1, GotoMoves DEF Publish, GetNewIdx
  <2>3. ~retireStarted[t]
    BY <1>0, <2>2 DEF LoopInv, LoopSteps, DecSteps
  <2> QED  BY <1>0, <2>1, <2>2, <2>3, MoveStill DEF ShareSteps, DecSteps, Deciding
<1>2. CASE Clear(t)
  <2>1. SameRetire(t) /\ dec'[t] = dec[t] /\ slot'[t] = slot[t] /\ pc[t] = "clear"
    BY <1>2 DEF Clear, SameRetire, retVars, decVars
  <2>2. Moves(t, "clearcas") \/ Moves(t, AfterClear(t))
    BY <1>0, <1>2, GotoMoves DEF Clear
  <2>3. ~retireStarted[t]
    BY <1>0, <2>1 DEF LoopInv, LoopSteps, DecSteps
  <2> QED  BY <1>0, <2>1, <2>2, <2>3, MoveStill DEF ShareSteps, DecSteps, Deciding, AfterClear
<1>3. CASE ClearCas(t)
  <2>1. dec'[t] = dec[t] /\ slot'[t] = slot[t] /\ pc[t] = "clearcas"
    BY <1>3 DEF ClearCas, decVars
  <2>2. (Moves(t, AfterClear(t)) /\ SameRetire(t)) \/ Enters(t, op[t].old, AfterClear(t))
    BY <1>0, <1>3, CasCases DEF ClearCas
  <2>3. ~retireStarted[t] /\ AfterClear(t) = (IF op[t].kind = "assign" THEN "newidx" ELSE "idle")
    BY <1>0, <2>1 DEF LoopInv, LoopSteps, DecSteps, AfterClear
  <2>4. CASE Moves(t, AfterClear(t)) /\ SameRetire(t)
    BY <1>0, <2>1, <2>3, <2>4, MoveStill DEF ShareSteps, DecSteps, Deciding
  <2>5. CASE Enters(t, op[t].old, AfterClear(t))
    BY <1>0, <2>1, <2>3, <2>5, EnterStill DEF ShareSteps, Still
  <2> QED  BY <2>2, <2>4, <2>5
<1>4. CASE IncrementCas(t)
  <2>1. dec'[t] = dec[t] /\ slot'[t] = slot[t] /\ pc[t] = "inccas"
    BY <1>4 DEF IncrementCas, decVars
  <2>2. (Moves(t, AfterInc(t)) /\ SameRetire(t)) \/ Enters(t, op[t].new, AfterInc(t))
    BY <1>0, <1>4, CasCases DEF IncrementCas
  <2>3. ~retireStarted[t] /\ retTo[t] = "idle"
    BY <1>0, <2>1 DEF LoopInv, LoopSteps, DecSteps
  <2>4. GuardsShrink(t) /\ DeletingStays(t)
    <3>1. CASE Moves(t, AfterInc(t)) /\ SameRetire(t)
      BY <1>0, <2>1, <2>3, <3>1, MoveGuards, MoveDeleting DEF AfterInc, Deciding
    <3>2. CASE Enters(t, op[t].new, AfterInc(t))
      BY <1>0, <2>1, <3>2, EnterStill DEF AfterInc
    <3> QED  BY <2>2, <3>1, <3>2
  <2>5. SharesStay(t)
    <3>1. op[t].kind \in {"store", "cas"}
      BY <2>1 DEF OperationInv
    <3>2. \/ pc'[t] = AfterInc(t) /\ retTo'[t] = "idle"
          \/ pc'[t] = "self" /\ retTo'[t] = AfterInc(t)
      BY <2>2, <2>3 DEF Moves, SameRetire, Enters
    <3>3. (AfterInc(t) # "idle" => op'[t] = op[t]) /\ ~retireStarted'[t]
      BY <2>2, <2>3 DEF Moves, SameRetire, Enters
    <3>4. ASSUME NEW o \in Obj PROVE Early(t, o)' <=> Early(t, o)
      BY <2>1, <2>3, <3>1, <3>2, <3>3 DEF Early, AfterInc
    <3>5. ASSUME NEW o \in Obj PROVE Owed(t, o)' <=> Owed(t, o)
      BY <2>1, <2>3, <3>1, <3>2, <3>3 DEF Owed, AfterInc
    <3>6. ASSUME NEW o \in Obj PROVE ~Late(t, o) /\ ~Late(t, o)' /\ ~OwedInside(t, o) /\ ~OwedInside(t, o)'
      BY <2>1, <2>3, <3>2, <3>3 DEF Late, OwedInside, AfterInc
    <3> QED  BY <3>4, <3>5, <3>6 DEF SharesStay
  <2> QED  BY <2>4, <2>5 DEF Still
<1>5. CASE ResetRetcnt(t)
  <2>1. pc[t] = "reset" /\ slot'[t] = slot[t] /\ SameRetire(t)
    BY <1>5 DEF ResetRetcnt, SameRetire, retVars
  <2>2. \/ /\ dec' = [dec EXCEPT ![t][Level(t)] = dec[t][Level(t)]]
           /\ Moves(t, "deccas")
        \/ /\ dec' = [dec EXCEPT ![t][Level(t)] = NoDec]
           /\ Moves(t, AfterDec(t))
    BY <1>0, <1>5, GotoMoves DEF ResetRetcnt, DecrementTest
  <2>3. dec'[t][0] = dec[t][0] \/ retTo[t] = "idle"
    BY <1>0, <2>1, <2>2 DEF Level, LoopInv, DecType
  <2>4. AfterDec(t) = IF retireStarted[t] THEN "free" ELSE "idle"
    BY DEF AfterDec
  <2>5. CASE Moves(t, "deccas") /\ dec' = [dec EXCEPT ![t][Level(t)] = dec[t][Level(t)]]
    <3>1. dec'[t][Level(t)] = dec[t][Level(t)]
      BY <1>0, <2>5 DEF DecType
    <3> QED  BY <1>0, <2>1, <2>3, <2>5, <3>1, MoveStill DEF ShareSteps, DecSteps, Deciding
  <2>6. CASE Moves(t, AfterDec(t))
    BY <1>0, <2>1, <2>3, <2>4, <2>6, MoveStill DEF ShareSteps, DecSteps, Deciding
  <2> QED  BY <2>2, <2>5, <2>6
<1>6. CASE DecrementCas(t)
  <2>1. /\ pc[t] = "deccas" /\ slot'[t] = slot[t]
        /\ dec' = [dec EXCEPT ![t][Level(t)] = NoDec] /\ dec[t][Level(t)].ptr \in Ptr
    BY <1>0, <1>6, LocalTypes DEF DecrementCas
  <2>2. \/ Moves(t, AfterDec(t)) /\ SameRetire(t)
        \/ Enters(t, dec[t][Level(t)].ptr, AfterDec(t))
    BY <1>0, <1>6, <2>1, CasCases DEF DecrementCas
  <2>3. dec'[t][0] = dec[t][0] \/ retTo[t] = "idle"
    BY <1>0, <2>1 DEF Level, LoopInv, DecType
  <2>4. AfterDec(t) = IF retireStarted[t] THEN "free" ELSE "idle"
    BY DEF AfterDec
  <2>5. CASE Moves(t, AfterDec(t)) /\ SameRetire(t)
    BY <1>0, <2>1, <2>3, <2>4, <2>5, MoveStill DEF ShareSteps, DecSteps, Deciding
  <2>6. CASE Enters(t, dec[t][Level(t)].ptr, AfterDec(t))
    BY <1>0, <2>1, <2>4, <2>6, EnterStill DEF ShareSteps, Still
  <2> QED  BY <2>2, <2>5, <2>6
<1>7. CASE RetireOne(t) \/ Seek(t) \/ SeekHP(t)
  <2>1. SameRetire(t) /\ dec'[t] = dec[t] /\ slot'[t] = slot[t]
    BY <1>7 DEF RetireOne, Seek, SeekHP, SameRetire, retVars, decVars
  <2>2. pc[t] \in {"retireOne", "seek", "seekhp"}
    BY <1>7 DEF RetireOne, Seek, SeekHP
  <2>3. \E l \in {"reset", "seek", "seekhp", "take"} : Moves(t, l)
    BY <1>0, <1>7, GotoMoves DEF RetireOne, Seek, SeekHP, SeekNext
  <2> QED  BY <1>0, <2>1, <2>2, <2>3, MoveStill DEF ShareSteps, DecSteps, Deciding
<1>8. CASE TakeHandover(t)
  <2>1. pc[t] = "take" /\ dec'[t] = dec[t] /\ slot'[t] = slot[t]
    BY <1>8 DEF TakeHandover, decVars
  <2>2. PICK p \in Ptr : (Moves(t, "reset") /\ SameRetire(t)) \/ Enters(t, p, "reset")
    <3>1. PICK q \in scan[t] : Retire(t, handovers[q[1]][q[2]], "reset")
      BY <1>8 DEF TakeHandover
    <3>2. handovers[q[1]][q[2]] \in Ptr
      BY <1>0, <3>1 DEF ScanType, Place
    <3> QED  BY <1>0, <3>1, <3>2, RetireCases
  <2>3. CASE Moves(t, "reset") /\ SameRetire(t)
    BY <1>0, <2>1, <2>3, MoveStill DEF ShareSteps, DecSteps, Deciding
  <2>4. CASE Enters(t, p, "reset")
    BY <1>0, <2>1, <2>4, EnterStill DEF ShareSteps, Still, Deciding
  <2> QED  BY <2>2, <2>3, <2>4
<1>9. CASE RetireSelf(t) \/ ClearBitFail(t) \/ HandOver(t)
  <2>1. dec'[t] = dec[t] /\ slot'[t] = slot[t]
    BY <1>9 DEF RetireSelf, ClearBitFail, HandOver, decVars
  <2>2. pc[t] \in LoopSteps \cup {"self"} /\ pc[t] # "free"
    BY <1>9 DEF RetireSelf, ClearBitFail, HandOver, LoopSteps
  <2>3. \E p \in Ptr : Continue(t, p)
    <3>1. CASE RetireSelf(t)
      BY <1>0, <3>1 DEF RetireSelf, OwnHp
    <3>2. CASE ClearBitFail(t)
      BY <3>2 DEF ClearBitFail, Ptr
    <3>3. CASE HandOver(t)
      <4>1. PICK q \in scan[t] : Continue(t, handovers[q[1]][q[2]])
        BY <3>3 DEF HandOver
      <4>2. handovers[q[1]][q[2]] \in Ptr
        BY <1>0, <4>1 DEF ScanType, Place
      <4> QED  BY <4>1, <4>2
    <3> QED  BY <1>9, <3>1, <3>2, <3>3
  <2>4. GoesOn(t) \/ Comes(t)
    BY <1>0, <2>3, ContinueCases
  <2> QED  BY <1>0, <2>1, <2>2, <2>4, ContinueStill DEF Still
<1>10. CASE \/ RetireLoad(t) \/ ClearBit(t) \/ ClearBitCas(t) \/ ClearBitOk(t)
            \/ ScanThreads(t) \/ ScanHPs(t) \/ Scan(t) \/ CheckWord(t)
  <2>1. SameRetire(t) /\ dec'[t] = dec[t] /\ slot'[t] = slot[t]
    BY <1>10 DEF RetireLoad, ClearBit, ClearBitCas, ClearBitOk, ScanThreads, ScanHPs,
       Scan, CheckWord, SameRetire, retVars, decVars
  <2>2. pc[t] \in {"load", "cbfaa", "cbcas", "cbok", "threads", "hps", "scan", "check"}
    BY <1>10 DEF RetireLoad, ClearBit, ClearBitCas, ClearBitOk, ScanThreads, ScanHPs,
       Scan, CheckWord
  <2>3. \E l \in {"check", "threads", "cbhp", "cbcas", "cbfail", "cbok", "load", "hps",
                   "scan", "hand", "destroy"} :
            Moves(t, l) /\ (l = "cbcas" => pc[t] = "cbfaa")
    BY <1>0, <1>10, GotoMoves DEF RetireLoad, ClearBit, ClearBitCas, ClearBitOk,
       ScanThreads, ScanHPs, Scan, CheckWord, TryHandover
  <2> QED  BY <1>0, <2>1, <2>2, <2>3, MoveStill DEF ShareSteps, DecSteps, Deciding, LoopSteps
<1>11. CASE Sweep(t)
  <2>1. pc[t] = "sweep" /\ dec'[t] = dec[t] /\ slot'[t] = slot[t]
    BY <1>11 DEF Sweep, decVars
  <2>2. PICK p \in Ptr, l \in {"sweep", "down"} : (Moves(t, l) /\ SameRetire(t)) \/ Enters(t, p, l)
    <3>1. PICK q \in left, l \in {"sweep", "down"} : Retire(t, handovers[q[1]][q[2]], l)
      BY <1>11 DEF Sweep
    <3>2. handovers[q[1]][q[2]] \in Ptr
      BY <1>0, <3>1 DEF ScanType, Place
    <3> QED  BY <1>0, <3>1, <3>2, RetireCases
  <2>3. ~retireStarted[t]
    BY <1>0, <2>1 DEF LoopInv, LoopSteps, DecSteps
  <2>4. CASE Moves(t, l) /\ SameRetire(t)
    BY <1>0, <2>1, <2>3, <2>4, MoveStill DEF ShareSteps, DecSteps, Deciding
  <2>5. CASE Enters(t, p, l)
    BY <1>0, <2>1, <2>5, EnterStill DEF ShareSteps, Still
  <2> QED  BY <2>2, <2>4, <2>5
<1> QED  BY <1>1, <1>2, <1>3, <1>4, <1>5, <1>6, <1>7, <1>8, <1>9, <1>10, <1>11
        DEF Call, BusySteps, GuardSteps

\* What makes a thread rely on place i for o when it did not before.
Gained(t, i, o) ==
    \/ MakeOrc(t) /\ o \in alive' \ alive
    \/ pc[t] = "read" /\ link[op[t].cell] = o
    \/ \E j \in Idx : j < i /\ i < maxHPs /\ Guarded(t, j, o)
    \/ pc[t] = "decprotect" /\ (Owed(t, o) \/ OwedInside(t, o))
    \/ pc[t] = "cbhp" /\ ptr[t] = o

\* The other steps that move no share, and what they protect.
LEMMA BeginStill ==
    ASSUME LocalsInv, NEW t \in Threads, Begin(t), ~CompareExchange(t), ~PoisonCell(t)
    PROVE  SharesStay(t) /\ DeletingStays(t)
<1>0. ProgramType /\ LoopInv(t) /\ NoOp \in Operation
  BY NoOpType DEF LocalsInv, TypeOK
<1>1. CASE Register(t)
  <2>1. Frame(t)
    BY <1>1 DEF Register, Frame, gcVars, decVars, retVars
  <2> QED  BY <2>1 DEF Frame, SharesStay, DeletingStays, Late, Early, Owed, OwedInside, Deleting
<1>2. CASE ~Register(t)
  <2>1. pc[t] = "idle" /\ Kept(t)
    BY <1>2, UnchangedKept DEF Begin, MakeOrc, Load, Assign, Store, CopyPtr, DropPtr, Shutdown, Start, gcVars
  <2>2. ~retireStarted[t] /\ retTo[t] = "idle" /\ ~retireStarted'[t] /\ retTo'[t] = "idle"
    BY <1>0, <2>1, IdleFacts DEF Kept
  <2>3. \/ pc'[t] \in {"newidx", "read", "idle", "clear", "sweep", "down"}
        \/ pc'[t] \in {"inc", "xchg"} /\ op'[t].kind = "store" /\ (pc'[t] = "xchg" => op'[t].new = Null)
    <3>1. CASE MakeOrc(t) \/ Load(t) \/ Assign(t) \/ CopyPtr(t)
      BY <1>0, <3>1 DEF MakeOrc, Load, Assign, CopyPtr, Run, ProgramType
    <3>2. CASE DropPtr(t) \/ Shutdown(t)
      BY <1>0, <2>1, <3>2 DEF DropPtr, Shutdown, Run, Goto, ProgramType
    <3>3. CASE Store(t)
      <4>1. \/ \E c, v : Run(t, [NoOp EXCEPT !.kind = "store", !.cell = c, !.new = v], "inc")
            \/ \E c : Run(t, [NoOp EXCEPT !.kind = "store", !.cell = c], "xchg")
        BY <3>3 DEF Store
      <4>2. pc'[t] \in {"inc", "xchg"} /\ op'[t].kind = "store"
        BY <1>0, <4>1 DEF Run, ProgramType, NoOp
      <4>3. pc'[t] = "xchg" => op'[t].new = Null
        BY <1>0, <4>1 DEF Run, ProgramType, NoOp
      <4> QED  BY <4>2, <4>3
    <3> QED  BY <1>2, <3>1, <3>2, <3>3 DEF Begin
  <2>4. SharesStay(t)
    BY <2>1, <2>2, <2>3, ValueAssumption DEF SharesStay, Late, Early, Owed, OwedInside
  <2>5. DeletingStays(t)
    BY <2>2 DEF DeletingStays, Deleting
  <2> QED  BY <2>4, <2>5
<1> QED  BY <1>1, <1>2

\* make_orc() protects the new object at index 0.
LEMMA MakeOrcGains ==
    ASSUME LocalsInv, NEW t \in Threads, MakeOrc(t)
    PROVE  /\ \A i \in Idx, o \in Obj : Guarded(t, i, o)' => Guarded(t, i, o) \/ Gained(t, i, o)
           /\ \A o \in Obj : Guarded(t, 0, o)' => hp'[t][0] = o
           /\ \A i \in PtrIdx, o \in Obj : Guarded(t, i, o)' => Guarded(t, i, o)
<1>0. ProgramType /\ LoopInv(t) /\ hp \in [Threads -> [Idx -> Ptr \cup {Poison}]]
  BY DEF LocalsInv, TypeOK, HpType
<1>1. PICK o \in Obj \ alive : /\ Run(t, [NoOp EXCEPT !.ptr = o, !.lnk = FALSE], "newidx")
                               /\ alive' = alive \cup {o}
                               /\ hp' = [hp EXCEPT ![t][0] = o]
  BY DEF MakeOrc
<1>2. pc[t] = "idle" /\ slot' = slot /\ Kept(t)
  BY UnchangedKept DEF MakeOrc, Start, gcVars
<1>3. ~retireStarted'[t] /\ retTo'[t] = "idle"
  BY <1>0, <1>2, IdleFacts DEF Kept
<1>4. pc'[t] = "newidx" /\ op'[t].ptr = o
  BY <1>0, <1>1 DEF Run, ProgramType, NoOp
<1>5. hp'[t][0] = o
  BY <1>0, <1>1, IndexFacts
<1>6. ASSUME NEW x \in Obj, x \in Temporary(t)' PROVE x = o
  BY <1>3, <1>4, <1>6, ValueAssumption DEF Temporary, Carried, Decremented, Suspended, Releasing, Deciding
<1>7. ASSUME NEW x \in Obj, NEW i \in PtrIdx, Guarded(t, i, x)' PROVE Guarded(t, i, x)
  BY <1>2, <1>4, <1>7, HazAssumption DEF Guarded, Cleared, PtrIdx
<1> QED  BY <1>1, <1>5, <1>6, <1>7, HazAssumption DEF Guarded, Gained, PtrIdx

\* get_protected() protects at index 0 what it has read twice.
LEMMA GetProtectedGains ==
    ASSUME LocalsInv, NEW t \in Threads, GetProtected(t), OperationInv(t)
    PROVE  /\ SharesStay(t) /\ DeletingStays(t)
           /\ \A i \in Idx, o \in Obj : Guarded(t, i, o)' => Guarded(t, i, o) \/ Gained(t, i, o)
           /\ \A o \in Obj : Guarded(t, 0, o)' => hp[t][0] = o
           /\ \A i \in PtrIdx, o \in Obj : Guarded(t, i, o)' => Guarded(t, i, o)
<1>0. /\ ProgramType /\ LoopInv(t) /\ pc[t] = "read"
      /\ slot[t] \in [PtrIdx -> [ptr : Ptr, lnk : BOOLEAN]]
  BY DEF LocalsInv, TypeOK, ProgramType, GetProtected
<1>1. Kept(t)
  BY UnchangedKept DEF GetProtected, gcVars
<1>2. ~retireStarted[t] /\ retTo[t] = "idle" /\ ~retireStarted'[t] /\ retTo'[t] = "idle"
  BY <1>0, <1>1 DEF LoopInv, LoopSteps, DecSteps, Kept
<1>3. CASE pc'[t] = "publish" /\ slot' = slot
  <2>1. SharesStay(t) /\ DeletingStays(t)
    BY <1>0, <1>2, <1>3 DEF SharesStay, Late, Early, Owed, OwedInside, DeletingStays, Deleting
  <2>2. ASSUME NEW x \in Obj PROVE x \notin Temporary(t)'
    BY <1>2, <1>3, ValueAssumption DEF Temporary, Carried, Decremented, Suspended, Releasing, Deciding
  <2>3. ASSUME NEW x \in Obj, NEW i \in PtrIdx, Guarded(t, i, x)' PROVE Guarded(t, i, x)
    BY <1>3, <2>3, HazAssumption DEF Guarded, Cleared, PtrIdx
  <2> QED  BY <2>1, <2>2, <2>3, HazAssumption DEF Guarded, PtrIdx
<1>4. CASE Loaded(t) /\ link[op[t].cell] = op[t].ptr
  <2>1. pc'[t] = (IF op[t].old = Null THEN "newidx" ELSE "clear") /\ op'[t] = op[t]
    BY <1>0, <1>4, GotoMoves DEF Loaded, Moves
  <2>2. SharesStay(t) /\ DeletingStays(t)
    BY <1>0, <1>2, <2>1 DEF SharesStay, Late, Early, Owed, OwedInside, DeletingStays, Deleting
  <2>3. ASSUME NEW x \in Obj, x \in Temporary(t)' PROVE x = op[t].ptr
    BY <1>2, <2>1, <2>3, ValueAssumption DEF Temporary, Carried, Decremented, Suspended, Releasing, Deciding
  <2>4. ASSUME NEW x \in Obj, NEW i \in PtrIdx, Guarded(t, i, x)' PROVE Guarded(t, i, x)
    <3>1. NoPtr.ptr # x
      BY ValueAssumption DEF NoPtr
    <3>2. slot'[t][i] = slot[t][i] \/ slot'[t][i] = NoPtr
      BY <1>0, <1>4 DEF Loaded, ProgramType
    <3>3. \/ slot'[t][i].ptr = x
          \/ op[t].old # Null /\ i = op[t].from /\ op[t].old = x
      BY <2>1, <2>4, HazAssumption DEF Guarded, Cleared, PtrIdx
    <3>4. slot[t][i].ptr = x
      BY <1>0, <3>1, <3>2, <3>3 DEF OperationInv
    <3> QED  BY <3>4 DEF Guarded
  <2>5. ASSUME NEW x \in Obj, Guarded(t, 0, x)' PROVE x = op[t].ptr /\ hp[t][0] = x
    BY <1>0, <2>3, <2>5, HazAssumption DEF Guarded, OperationInv, PtrIdx
  <2> QED  BY <1>0, <1>4, <2>2, <2>4, <2>5, HazAssumption DEF Gained, Idx, PtrIdx
<1> QED  BY <1>0, <1>3, <1>4, RunLocals DEF GetProtected

\* protect_ptr() moves the protection from index 0, or from the orc_ptr
\* that is copied, to a higher index.
LEMMA ProtectPtrGains ==
    ASSUME LocalsInv, NEW t \in Threads, ProtectPtr(t), OperationInv(t), HpInv(t)
    PROVE  /\ SharesStay(t) /\ DeletingStays(t)
           /\ \A i \in Idx, o \in Obj :
                Guarded(t, i, o)' => /\ Guarded(t, i, o) \/ Gained(t, i, o)
                                     /\ hp'[t][i] = o /\ (i < maxHPs \/ i = 0)
<1>0. /\ ProgramType /\ LoopInv(t) /\ pc[t] = "protect"
      /\ slot[t] \in [PtrIdx -> [ptr : Ptr, lnk : BOOLEAN]]
      /\ hp[t] \in [Idx -> Ptr \cup {Poison}]
  BY DEF LocalsInv, TypeOK, ProgramType, ProtectPtr, HpType
<1>1. Kept(t)
  BY UnchangedKept DEF ProtectPtr, gcVars
<1>2. ~retireStarted[t] /\ retTo[t] = "idle" /\ ~retireStarted'[t] /\ retTo'[t] = "idle"
  BY <1>0, <1>1 DEF LoopInv, LoopSteps, DecSteps, Kept
<1>3. PICK idx \in PtrIdx :
        /\ NewIdx(t, idx)
        /\ hp' = [hp EXCEPT ![t][idx] = op[t].ptr]
        /\ slot' = IF op[t].ptr \in Obj
                   THEN [slot EXCEPT ![t][idx] = [ptr |-> op[t].ptr, lnk |-> op[t].lnk]]
                   ELSE slot
  BY DEF ProtectPtr
<1>4. pc'[t] = "idle"
  BY <1>0, GotoMoves DEF ProtectPtr, Moves
<1>5. SharesStay(t) /\ DeletingStays(t)
  BY <1>0, <1>2, <1>4 DEF SharesStay, Late, Early, Owed, OwedInside, DeletingStays, Deleting
<1>6. ASSUME NEW x \in Obj PROVE x \notin Temporary(t)'
  BY <1>2, <1>4, ValueAssumption DEF Temporary, Carried, Decremented, Suspended, Releasing, Deciding
<1>7. ASSUME NEW x \in Obj, NEW i \in Idx, Guarded(t, i, x)'
      PROVE  /\ Guarded(t, i, x) \/ Gained(t, i, x)
             /\ hp'[t][i] = x /\ (i < maxHPs \/ i = 0)
  <2>1. i \in PtrIdx /\ slot'[t][i].ptr = x
    BY <1>4, <1>6, <1>7 DEF Guarded, Cleared
  <2>2. CASE i # idx
    <3>1. slot'[t][i] = slot[t][i] /\ hp'[t][i] = hp[t][i]
      BY <1>0, <1>3, <2>1, <2>2 DEF ProgramType, LocalsInv, TypeOK, HpType, PtrIdx, Idx
    <3>2. Guarded(t, i, x)
      BY <2>1, <3>1 DEF Guarded
    <3> QED  BY <3>1, <3>2 DEF HpInv
  <2>3. CASE i = idx
    <3>1. slot[t][idx].ptr = Null
      BY <1>3 DEF NewIdx, FreeIdx
    <3>2. op[t].ptr = x /\ x # Null
      BY <1>0, <1>3, <2>1, <2>3, <3>1, ValueAssumption DEF ProgramType
    <3>3. hp'[t][i] = x
      BY <1>0, <1>3, <2>3, <3>2, IndexFacts DEF LocalsInv, TypeOK, HpType
    <3>4. i < maxHPs
      BY <1>0, <1>3, <2>3 DEF OperationInv
    <3>5. CASE op[t].kind = "copy"
      <4>1. op[t].from - 1 \in PtrIdx /\ slot[t][op[t].from - 1].ptr = x
        BY <1>0, <3>2, <3>5 DEF OperationInv
      <4>2. op[t].from <= i /\ i \in Int /\ op[t].from \in Nat
        BY <1>0, <1>3, <2>3, LocalTypes DEF NewIdx, FreeIdx, LocalsInv, PtrIdx
      <4>3. op[t].from - 1 \in Idx /\ op[t].from - 1 < i /\ Guarded(t, op[t].from - 1, x)
        BY <4>1, <4>2, IndexFacts DEF Guarded
      <4> QED  BY <3>3, <3>4, <4>3 DEF Gained
    <3>6. CASE op[t].kind # "copy"
      <4>1. x \in Temporary(t)
        BY <1>0, <3>2, <3>6 DEF Temporary, Carried
      <4>2. 0 \in Idx /\ 0 < i /\ Guarded(t, 0, x)
        BY <4>1, <2>1, HazAssumption DEF Guarded, PtrIdx, Idx
      <4> QED  BY <3>3, <3>4, <4>2 DEF Gained
    <3> QED  BY <3>5, <3>6
  <2> QED  BY <2>2, <2>3
<1> QED  BY <1>5, <1>7

\* decrementOrc() and clearBitRetired() protect the object they work on.
LEMMA ProtectShares ==
    ASSUME LocalsInv, NEW t \in Threads, DecrementProtect(t) \/ ClearBitProtect(t)
    PROVE  SharesStay(t) /\ DeletingStays(t)
<1>0. ProgramType /\ LoopInv(t)
  BY DEF LocalsInv, TypeOK
<1>1. /\ \/ pc[t] = "decprotect" /\ pc'[t] = "decfaa"
         \/ pc[t] = "cbhp" /\ pc'[t] = "cbfaa"
      /\ op'[t] = op[t] /\ SameRetire(t) /\ dec' = dec
  BY <1>0, GotoLocals DEF DecrementProtect, ClearBitProtect, SameRetire, gcVars, decVars, retVars
<1> QED
  BY <1>0, <1>1 DEF SharesStay, Late, Early, Owed, OwedInside, DeletingStays, Deleting, DecSteps, SameRetire

\* decrementOrc() protects at index 0 the object it owes a decrement.
LEMMA DecrementProtectGains ==
    ASSUME LocalsInv, NEW t \in Threads, DecrementProtect(t), HpInv(t),
           retTo[t] = "newidx" \/ (retTo[t] = "reset" /\ Undecided(t, 0))
               => hp'[t][0] = hp[t][0]
    PROVE  /\ \A i \in Idx, o \in Obj : Guarded(t, i, o)' => Guarded(t, i, o) \/ Gained(t, i, o)
           /\ \A o \in Obj : Guarded(t, 0, o)' => hp'[t][0] = o
           /\ \A i \in PtrIdx, o \in Obj : Guarded(t, i, o)' => Guarded(t, i, o)
<1>0. /\ ProgramType /\ LoopInv(t) /\ pc[t] = "decprotect" /\ hp \in [Threads -> [Idx -> Ptr \cup {Poison}]]
  BY DEF LocalsInv, TypeOK, DecrementProtect, HpType
<1>1. /\ pc'[t] = "decfaa" /\ op'[t] = op[t] /\ SameRetire(t) /\ dec' = dec /\ slot' = slot
      /\ Level(t)' = Level(t)
  BY <1>0, GotoLocals DEF DecrementProtect, SameRetire, gcVars, decVars, retVars, Level
<1>2. hp'[t][0] = dec[t][Level(t)].ptr
  BY <1>0, IndexFacts DEF DecrementProtect
<1>4. ASSUME NEW x \in Obj, x \in Temporary(t)'
      PROVE  hp'[t][0] = x /\ (x \in Temporary(t) \/ Owed(t, x) \/ OwedInside(t, x))
  <2>1. CASE x = Decremented(t)'
    <3>1. x = dec[t][Level(t)].ptr
      BY <1>1, <2>1, ValueAssumption DEF Decremented
    <3>2. Owed(t, x) \/ OwedInside(t, x)
      BY <1>0, <3>1 DEF Owed, OwedInside, Level
    <3> QED  BY <1>2, <3>1, <3>2
  <2>2. CASE x # Decremented(t)'
    <3>1. \/ retTo[t] = "newidx" /\ x = op[t].ptr
          \/ retTo[t] = "reset" /\ Undecided(t, 0) /\ x = dec[t][0].ptr
      BY <1>1, <1>4, <2>2, ValueAssumption DEF Temporary, Carried, Suspended, Undecided, Releasing, SameRetire
    <3>2. x \in Temporary(t)
      BY <3>1 DEF Temporary, Carried, Suspended
    <3>3. hp[t][0] = x
      BY <3>2, IndexFacts DEF HpInv, Guarded
    <3> QED  BY <3>1, <3>2, <3>3
  <2> QED  BY <2>1, <2>2
<1>5. ASSUME NEW x \in Obj, NEW i \in PtrIdx, Guarded(t, i, x)' PROVE Guarded(t, i, x)
  BY <1>1, <1>5, HazAssumption DEF Guarded, Cleared, PtrIdx
<1> QED  BY <1>0, <1>4, <1>5, HazAssumption DEF Guarded, Gained, PtrIdx

\* clearBitRetired() protects at index 0 the object in hand.
LEMMA ClearBitProtectGains ==
    ASSUME LocalsInv, NEW t \in Threads, ClearBitProtect(t), HpInv(t),
           retTo[t] = "newidx" \/ (retTo[t] = "reset" /\ Undecided(t, 0))
               => hp'[t][0] = hp[t][0]
    PROVE  /\ \A i \in Idx, o \in Obj : Guarded(t, i, o)' => Guarded(t, i, o) \/ Gained(t, i, o)
           /\ \A o \in Obj : Guarded(t, 0, o)' => hp'[t][0] = o
           /\ \A i \in PtrIdx, o \in Obj : Guarded(t, i, o)' => Guarded(t, i, o)
<1>0. /\ ProgramType /\ LoopInv(t) /\ pc[t] = "cbhp" /\ hp \in [Threads -> [Idx -> Ptr \cup {Poison}]]
  BY DEF LocalsInv, TypeOK, ClearBitProtect, HpType
<1>1. /\ pc'[t] = "cbfaa" /\ op'[t] = op[t] /\ SameRetire(t) /\ dec' = dec /\ slot' = slot
      /\ Level(t)' = Level(t)
  BY <1>0, GotoLocals DEF ClearBitProtect, SameRetire, gcVars, decVars, retVars, Level
<1>2. hp'[t][0] = ptr[t]
  BY <1>0, IndexFacts DEF ClearBitProtect
<1>4. ASSUME NEW x \in Obj, x \in Temporary(t)'
      PROVE  hp'[t][0] = x /\ (x \in Temporary(t) \/ x = ptr[t])
  <2>1. CASE x = Releasing(t)'
    BY <1>1, <1>2, <2>1 DEF Releasing, SameRetire
  <2>2. CASE x # Releasing(t)'
    <3>1. \/ retTo[t] = "newidx" /\ x = op[t].ptr
          \/ retTo[t] = "reset" /\ Undecided(t, 0) /\ x = dec[t][0].ptr
      BY <1>1, <1>4, <2>2, ValueAssumption DEF Temporary, Carried, Suspended, Undecided, Decremented, Deciding, SameRetire
    <3>2. x \in Temporary(t)
      BY <3>1 DEF Temporary, Carried, Suspended
    <3>3. hp[t][0] = x
      BY <3>2, IndexFacts DEF HpInv, Guarded
    <3> QED  BY <3>1, <3>2, <3>3
  <2> QED  BY <2>1, <2>2
<1>5. ASSUME NEW x \in Obj, NEW i \in PtrIdx, Guarded(t, i, x)' PROVE Guarded(t, i, x)
  BY <1>1, <1>5, HazAssumption DEF Guarded, Cleared, PtrIdx
<1> QED  BY <1>0, <1>4, <1>5, HazAssumption DEF Guarded, Gained, PtrIdx

\* A set that changes at one element.
Bit(b) == IF b THEN 1 ELSE 0

\* The cardinality of a set after one element has come or gone.
LEMMA OneChange ==
    ASSUME NEW S, NEW T, NEW x, IsFiniteSet(S), T \ {x} = S \ {x}
    PROVE  /\ IsFiniteSet(T)
           /\ Cardinality(S) \in Nat /\ Cardinality(T) \in Nat
           /\ Cardinality(T) = Cardinality(S) + Bit(x \in T) - Bit(x \in S)
<1> DEFINE R == S \ {x}
<1>1. IsFiniteSet(R) /\ Cardinality(R) = Cardinality(S) - Bit(x \in S) /\ Cardinality(S) \in Nat
  BY FS_RemoveElement, FS_CardinalityType DEF Bit
<1>2. Cardinality(R) \in Nat
  BY <1>1, FS_CardinalityType
<1>3. CASE x \in T
  <2>1. T = R \cup {x} /\ x \notin R
    BY <1>3
  <2>2. IsFiniteSet(T) /\ Cardinality(T) = Cardinality(R) + 1
    BY <1>1, <2>1, FS_AddElement
  <2> QED  BY <1>1, <1>2, <1>3, <2>2, FS_CardinalityType DEF Bit
<1>4. CASE x \notin T
  <2>1. T = R
    BY <1>4
  <2> QED  BY <1>1, <1>2, <1>4, <2>1 DEF Bit
<1> QED  BY <1>3, <1>4

\* What a thread contributes to the counts.
Share(t, o) == Bit(Early(t, o)) + Bit(Owed(t, o)) + Bit(OwedInside(t, o)) - Bit(Late(t, o))

\* The objects that t deletes.
Deletes(t, c) == Deleting(t) /\ ptr[t] = c

\* A step of t that changes the links at c at most.
LEMMA CountChange ==
    ASSUME CountInv, NEW t \in Threads, \A u \in Threads \ {t} : Wide(u),
           NEW c \in Cell,
           \A x \in Cell \ {c} : link'[x] = link[x] /\ (Deletes(t, x)' <=> Deletes(t, x)),
           NEW o \in Obj,
           orc'[o].cnt = orc[o].cnt + Bit(c \in Links(o)') - Bit(c \in Links(o))
                            + Share(t, o)' - Share(t, o)
    PROVE  /\ IsFiniteSet(Links(o)')
           /\ orc'[o].cnt = Cardinality(Links(o)') + Cardinality(Earlies(o)') + Cardinality(Oweds(o)')
                             + Cardinality(OwedsInside(o)') - Cardinality(Lates(o)')
<1>1. IsFiniteSet(Threads)
  BY NAssumption, FS_Interval DEF Threads
<1>2. \A u \in Threads \ {t}, x \in Cell : Deletes(u, x)' <=> Deletes(u, x)
  BY DEF Deletes, Deleting, Wide, Frame
<1>3. Links(o)' \ {c} = Links(o) \ {c}
  <2>1. ASSUME NEW x \in Cell \ {c} PROVE Gone(x)' <=> Gone(x)
    BY <1>2 DEF Gone, Deletes
  <2> QED  BY <2>1 DEF Links
<1>4. \A u \in Threads \ {t} : /\ Late(u, o)' <=> Late(u, o)
                               /\ Early(u, o)' <=> Early(u, o)
                               /\ Owed(u, o)' <=> Owed(u, o)
                               /\ OwedInside(u, o)' <=> OwedInside(u, o)
  BY DEF Late, Early, Owed, OwedInside, Wide, Frame
<1>5. /\ IsFiniteSet(Lates(o)) /\ IsFiniteSet(Earlies(o))
      /\ IsFiniteSet(Oweds(o)) /\ IsFiniteSet(OwedsInside(o))
  BY <1>1, FS_Subset DEF Lates, Earlies, Oweds, OwedsInside
<1>6. IsFiniteSet(Links(o)) /\
      orc[o].cnt = Cardinality(Links(o)) + Cardinality(Earlies(o)) + Cardinality(Oweds(o))
                    + Cardinality(OwedsInside(o)) - Cardinality(Lates(o))
  BY DEF CountInv
<1>7. /\ IsFiniteSet(Links(o)') /\ Cardinality(Links(o)) \in Nat /\ Cardinality(Links(o)') \in Nat
      /\ Cardinality(Links(o)') = Cardinality(Links(o)) + Bit(c \in Links(o)') - Bit(c \in Links(o))
  BY <1>3, <1>6, OneChange
<1>8. /\ Cardinality(Lates(o)) \in Nat /\ Cardinality(Lates(o)') \in Nat
      /\ Cardinality(Lates(o)') = Cardinality(Lates(o)) + Bit(Late(t, o)') - Bit(Late(t, o))
  <2>1. Lates(o)' \ {t} = Lates(o) \ {t}
    BY <1>4 DEF Lates
  <2>2. (t \in Lates(o) <=> Late(t, o)) /\ (t \in Lates(o)' <=> Late(t, o)')
    BY DEF Lates
  <2>3. Bit(t \in Lates(o)) = Bit(Late(t, o)) /\ Bit(t \in Lates(o)') = Bit(Late(t, o)')
    BY <2>2 DEF Bit
  <2> QED  BY <1>5, <2>1, <2>3, OneChange
<1>9. /\ Cardinality(Earlies(o)) \in Nat /\ Cardinality(Earlies(o)') \in Nat
      /\ Cardinality(Earlies(o)') = Cardinality(Earlies(o)) + Bit(Early(t, o)') - Bit(Early(t, o))
  <2>1. Earlies(o)' \ {t} = Earlies(o) \ {t}
    BY <1>4 DEF Earlies
  <2>2. (t \in Earlies(o) <=> Early(t, o)) /\ (t \in Earlies(o)' <=> Early(t, o)')
    BY DEF Earlies
  <2>3. Bit(t \in Earlies(o)) = Bit(Early(t, o)) /\ Bit(t \in Earlies(o)') = Bit(Early(t, o)')
    BY <2>2 DEF Bit
  <2> QED  BY <1>5, <2>1, <2>3, OneChange
<1>10. /\ Cardinality(Oweds(o)) \in Nat /\ Cardinality(Oweds(o)') \in Nat
       /\ Cardinality(Oweds(o)') = Cardinality(Oweds(o)) + Bit(Owed(t, o)') - Bit(Owed(t, o))
  <2>1. Oweds(o)' \ {t} = Oweds(o) \ {t}
    BY <1>4 DEF Oweds
  <2>2. (t \in Oweds(o) <=> Owed(t, o)) /\ (t \in Oweds(o)' <=> Owed(t, o)')
    BY DEF Oweds
  <2>3. Bit(t \in Oweds(o)) = Bit(Owed(t, o)) /\ Bit(t \in Oweds(o)') = Bit(Owed(t, o)')
    BY <2>2 DEF Bit
  <2> QED  BY <1>5, <2>1, <2>3, OneChange
<1>11. /\ Cardinality(OwedsInside(o)) \in Nat /\ Cardinality(OwedsInside(o)') \in Nat
       /\ Cardinality(OwedsInside(o)') =
            Cardinality(OwedsInside(o)) + Bit(OwedInside(t, o)') - Bit(OwedInside(t, o))
  <2>1. OwedsInside(o)' \ {t} = OwedsInside(o) \ {t}
    BY <1>4 DEF OwedsInside
  <2>2. (t \in OwedsInside(o) <=> OwedInside(t, o)) /\ (t \in OwedsInside(o)' <=> OwedInside(t, o)')
    BY DEF OwedsInside
  <2>3. Bit(t \in OwedsInside(o)) = Bit(OwedInside(t, o)) /\ Bit(t \in OwedsInside(o)') = Bit(OwedInside(t, o)')
    BY <2>2 DEF Bit
  <2> QED  BY <1>5, <2>1, <2>3, OneChange
<1>12. \A b \in BOOLEAN : Bit(b) \in {0, 1}
  BY DEF Bit
<1> QED
  <2>1. /\ Share(t, o)  = Bit(Early(t, o)) + Bit(Owed(t, o)) + Bit(OwedInside(t, o)) - Bit(Late(t, o))
        /\ Share(t, o)' = Bit(Early(t, o)') + Bit(Owed(t, o)') + Bit(OwedInside(t, o)') - Bit(Late(t, o)')
    BY DEF Share
  <2>2. /\ Bit(Early(t, o)) \in Int /\ Bit(Owed(t, o)) \in Int /\ Bit(OwedInside(t, o)) \in Int
        /\ Bit(Late(t, o)) \in Int /\ Bit(c \in Links(o)) \in Int
        /\ Bit(Early(t, o)') \in Int /\ Bit(Owed(t, o)') \in Int /\ Bit(OwedInside(t, o)') \in Int
        /\ Bit(Late(t, o)') \in Int /\ Bit(c \in Links(o)') \in Int
    BY DEF Bit
  <2> QED  BY <1>6, <1>7, <1>8, <1>9, <1>10, <1>11, <2>1, <2>2

\* The invariants of one thread.
ThreadInv(t) ==
    /\ t < maxThreads \/ pc[t] = "idle"
    /\ HpInv(t) /\ OperationInv(t) /\ RowInv(t) /\ WordOrderInv(t) /\ ScanInv(t)

\* The parts of the invariants, for citing.
LEMMA SafeFacts ==
    ASSUME RetireInv, SafeInv, NEW t \in Threads
    PROVE  /\ LocalsInv /\ WordInv /\ OneRetirer
           /\ TypeOK /\ ObjType /\ HpType /\ ProgramType /\ DecType /\ RetType /\ ScanType
           /\ LoopInv(t) /\ OperandInv(t)
           /\ CountInv /\ DownInv /\ DoomedInv /\ ThreadInv(t)
           /\ HpInv(t) /\ OperationInv(t)
  BY DEF RetireInv, SafeInv, LocalsInv, TypeOK, ThreadInv

\* An object that a thread relies on, or works on in retire(), exists and
\* nobody deletes it.
LEMMA GuardedLives ==
    ASSUME DoomedInv, NEW t \in Threads, NEW i \in Idx, NEW o \in Obj, Guarded(t, i, o)
    PROVE  ~Doomed(o) /\ o \in alive
  BY DEF DoomedInv, Doomed

\* A root, or the member of an object in an orc_ptr, is no link of a deleted
\* object.
LEMMA OwnedLives ==
    ASSUME DoomedInv, LocalsInv, NEW t \in Threads, NEW c \in Cell,
           c \in Obj => Owns(t, c)
    PROVE  ~Gone(c) /\ (c \in Obj => c \in alive /\ ~Doomed(c))
<1>1. c \in Obj => c \in alive /\ ~Doomed(c)
  BY GuardedLives, IndexFacts DEF Owns, Guarded
<1>2. ASSUME Gone(c) PROVE c \in Obj /\ Doomed(c)
  <2>1. PICK u \in Threads : Deleting(u) /\ ptr[u] = c
    BY <1>2 DEF Gone
  <2>2. c \in Obj
    BY <2>1 DEF LocalsInv, LoopInv, Deleting
  <2> QED  BY <2>1, <2>2 DEF Doomed
<1> QED  BY <1>1, <1>2

\* The object in the hand of t.
LEMMA HandLives ==
    ASSUME OneRetirer, NEW t \in Threads, ptr[t] \in Obj, pc[t] \notin GaveUp
    PROVE  /\ ptr[t] \in alive /\ orc[ptr[t]].ret
           /\ \A u \in Threads : pc[u] \notin GaveUp /\ ptr[u] = ptr[t] => u = t
<1>1. hand[t] = ptr[t]
  BY DEF hand, InHand, GaveUp
<1>2. ~Fresh(ptr[t], hand, handovers, rlist)
  BY <1>1 DEF Fresh, NotInHand
<1>3. ptr[t] \in alive /\ orc[ptr[t]].ret
  BY <1>2 DEF OneRetirer
<1>4. ASSUME NEW u \in Threads, pc[u] \notin GaveUp, ptr[u] = ptr[t] PROVE u = t
  <2>1. hand[u] = ptr[u]
    BY <1>4 DEF hand, InHand, GaveUp
  <2> QED  BY <1>1, <1>4, <2>1 DEF OneRetirer, Exclusive, HandsApart
<1> QED  BY <1>3, <1>4

\* Between operations a thread has no share and deletes nothing.
LEMMA IdleShares ==
    ASSUME NEW t \in Threads, LoopInv(t), pc[t] = "idle"
    PROVE  /\ ~Deleting(t)
           /\ \A o \in Obj : ~Late(t, o) /\ ~Early(t, o) /\ ~Owed(t, o) /\ ~OwedInside(t, o)
  BY IdleFacts DEF Deleting, Late, Early, Owed, OwedInside

\* A step that leaves the shares alone.
LEMMA SharesSame ==
    ASSUME NEW t \in Threads, SharesStay(t), NEW o \in Obj
    PROVE  Share(t, o)' = Share(t, o) /\ Share(t, o) \in Int
<1>1. /\ Bit(Early(t, o))' = Bit(Early(t, o)) /\ Bit(Owed(t, o))' = Bit(Owed(t, o))
      /\ Bit(OwedInside(t, o))' = Bit(OwedInside(t, o)) /\ Bit(Late(t, o))' = Bit(Late(t, o))
  BY DEF SharesStay, Bit
<1>2. /\ Bit(Early(t, o)) \in Int /\ Bit(Owed(t, o)) \in Int
      /\ Bit(OwedInside(t, o)) \in Int /\ Bit(Late(t, o)) \in Int
  BY DEF Bit
<1> QED  BY <1>1, <1>2 DEF Share

\* A step that leaves the links alone moves a share for every count.
LEMMA CountShares ==
    ASSUME CountInv, NEW t \in Threads, \A u \in Threads \ {t} : Wide(u),
           DeletingStays(t), link' = link,
           \A o \in Obj : /\ orc[o].cnt \in Int
                          /\ orc'[o].cnt = orc[o].cnt + Share(t, o)' - Share(t, o)
    PROVE  CountInv'
<1>1. ASSUME NEW o \in Obj
      PROVE  /\ IsFiniteSet(Links(o)')
             /\ orc'[o].cnt = Cardinality(Links(o)') + Cardinality(Earlies(o)') + Cardinality(Oweds(o)')
                             + Cardinality(OwedsInside(o)') - Cardinality(Lates(o)')
  <2>1. o \in Cell
    BY DEF Cell
  <2>2. \A x \in Cell : link'[x] = link[x] /\ (Deletes(t, x)' <=> Deletes(t, x))
    BY DEF Deletes, DeletingStays
  <2>3. Gone(o)' <=> Gone(o)
    <3>1. \A u \in Threads \ {t} : Deletes(u, o)' <=> Deletes(u, o)
      BY DEF Deletes, Deleting, Wide, Frame
    <3> QED  BY <2>1, <2>2, <3>1 DEF Gone, Deletes
  <2>4. Bit(o \in Links(o)') = Bit(o \in Links(o)) /\ Bit(o \in Links(o)) \in Int
    BY <2>1, <2>2, <2>3 DEF Links, Bit
  <2>5. Share(t, o)' \in Int /\ Share(t, o) \in Int
    BY DEF Share, Bit
  <2>6. orc'[o].cnt = orc[o].cnt + Bit(o \in Links(o)') - Bit(o \in Links(o))
                            + Share(t, o)' - Share(t, o)
    BY <2>4, <2>5
  <2> QED  BY <2>1, <2>2, <2>6, CountChange
<1> QED  BY <1>1 DEF CountInv

\* A step that changes no share, no link and no count keeps CountInv.
LEMMA CountSame ==
    ASSUME TypeOK, CountInv, NEW t \in Threads, \A u \in Threads \ {t} : Wide(u),
           SharesStay(t), DeletingStays(t), link' = link, CountsStay
    PROVE  CountInv'
<1>1. ASSUME NEW o \in Obj
      PROVE  orc[o].cnt \in Int /\ orc'[o].cnt = orc[o].cnt + Share(t, o)' - Share(t, o)
  BY SharesSame DEF CountsStay, TypeOK, ObjType, Word
<1> QED  BY <1>1, CountShares

\* The cells that a thread can reach are live.
LEMMA ReachLives ==
    ASSUME DoomedInv, LocalsInv, NEW t \in Threads, NEW c \in Reach(t)
    PROVE  c \in Cell /\ ~Gone(c) /\ (c \in Obj => Owns(t, c))
<1>1. c \in Cell
  BY HeldType DEF LocalsInv
<1>2. c \in Obj => Owns(t, c)
  BY ValueAssumption DEF Reach, Held, Owns
<1> QED  BY <1>1, <1>2, OwnedLives

\* A step that sets the link of a live cell c from e to d.
LEMMA LinkBits ==
    ASSUME TypeOK, NEW t \in Threads, \A u \in Threads \ {t} : Wide(u), DeletingStays(t),
           NEW c \in Cell, ~Gone(c), NEW d, link' = [link EXCEPT ![c] = d],
           NEW o \in Obj
    PROVE  /\ \A x \in Cell \ {c} : link'[x] = link[x] /\ (Deletes(t, x)' <=> Deletes(t, x))
           /\ Bit(c \in Links(o)') = Bit(o = d)
           /\ Bit(c \in Links(o)) = Bit(o = link[c])
<1>1. link \in [Cell -> Ptr \cup {Poison}]
  BY DEF TypeOK, ObjType
<1>2. \A x \in Cell : Deletes(t, x)' <=> Deletes(t, x)
  BY DEF Deletes, DeletingStays
<1>3. \A u \in Threads \ {t} : Deletes(u, c)' <=> Deletes(u, c)
  BY DEF Deletes, Deleting, Wide, Frame
<1>4. ~Gone(c)'
  BY <1>2, <1>3 DEF Gone, Deletes
<1> QED  BY <1>1, <1>2, <1>4 DEF Links, Bit

\* compare_exchange() owes the count of its two objects what it has done to
\* the links.
LEMMA CompareExchangeCounts ==
    ASSUME LocalsInv, CountInv, DoomedInv, NEW t \in Threads, CompareExchange(t),
           \A u \in Threads \ {t} : Wide(u)
    PROVE  CountInv' /\ DeletingStays(t)
<1>0. /\ TypeOK /\ ProgramType /\ LoopInv(t) /\ pc[t] = "idle"
      /\ dec \in [Threads -> [{0, 1} -> [ptr : Ptr, word : Word]]]
  BY DEF LocalsInv, TypeOK, DecType, CompareExchange, Start
<1>1. PICK c \in Reach(t), e \in Held(t) \cup {Null}, d \in Held(t) \cup {Null} :
        /\ e # Null \/ d # Null
        /\ link[c] = e
        /\ link' = [link EXCEPT ![c] = d]
        /\ dec' = [dec EXCEPT ![t][0].ptr = e]
        /\ Run(t, [NoOp EXCEPT !.kind = "cas", !.cell = c, !.new = d, !.old = e],
               IF d = Null THEN "decprotect" ELSE "inc")
  BY DEF CompareExchange
<1>2. ~retireStarted[t] /\ ~retireStarted'[t] /\ retTo'[t] = "idle"
  BY <1>0, IdleFacts DEF CompareExchange, retVars
<1>3. DeletingStays(t)
  BY <1>2 DEF DeletingStays, Deleting
<1>4. c \in Cell /\ ~Gone(c)
  BY ReachLives
<1>5. /\ pc'[t] = (IF d = Null THEN "decprotect" ELSE "inc")
      /\ op'[t].kind = "cas" /\ op'[t].new = d /\ op'[t].old = e
  BY <1>0, <1>1 DEF Run, ProgramType, NoOp
<1>6. dec'[t][0].ptr = e
  BY <1>0, <1>1
<1>7. ASSUME NEW o \in Obj
      PROVE  orc'[o].cnt = orc[o].cnt + Bit(c \in Links(o)') - Bit(c \in Links(o))
                            + Share(t, o)' - Share(t, o)
  <2>1. Share(t, o) = 0
    BY <1>0, IdleShares DEF Share, Bit
  <2>2. /\ ~Early(t, o)' /\ ~OwedInside(t, o)' /\ (Owed(t, o)' <=> o = e)
        /\ (Late(t, o)' <=> o = d)
    BY <1>1, <1>2, <1>5, <1>6, ValueAssumption DEF Early, OwedInside, Owed, Late
  <2>3. Share(t, o)' = Bit(o = e) - Bit(o = d)
    BY <2>2 DEF Share, Bit
  <2>4. Bit(c \in Links(o)') = Bit(o = d) /\ Bit(c \in Links(o)) = Bit(o = e)
    <3>1. link' = [link EXCEPT ![c] = d] /\ link[c] = e
      BY <1>1
    <3> QED  BY <1>0, <1>3, <1>4, <3>1, LinkBits DEF Bit
  <2>5. orc'[o] = orc[o] /\ orc[o].cnt \in Int
    BY <1>0, WordFacts DEF TypeOK, ObjType, CompareExchange
  <2> QED  BY <2>1, <2>3, <2>4, <2>5 DEF Bit
<1>8. \A x \in Cell \ {c} : link'[x] = link[x] /\ (Deletes(t, x)' <=> Deletes(t, x))
  <2>1. \A x \in Cell : Deletes(t, x)' <=> Deletes(t, x)
    BY <1>3 DEF Deletes, DeletingStays
  <2> QED  BY <1>0, <1>1, <2>1 DEF TypeOK, ObjType
<1>9. CountInv'
  <2>1. ASSUME NEW o \in Obj
        PROVE  /\ IsFiniteSet(Links(o)')
               /\ orc'[o].cnt = Cardinality(Links(o)') + Cardinality(Earlies(o)') + Cardinality(Oweds(o)')
                                 + Cardinality(OwedsInside(o)') - Cardinality(Lates(o)')
    BY <1>4, <1>7, <1>8, CountChange
  <2> QED  BY <2>1 DEF CountInv
<1> QED  BY <1>3, <1>9

\* poison() owes a decrement to the object it has unlinked.
LEMMA PoisonCellCounts ==
    ASSUME LocalsInv, CountInv, DoomedInv, NEW t \in Threads, PoisonCell(t),
           \A u \in Threads \ {t} : Wide(u)
    PROVE  CountInv' /\ DeletingStays(t)
<1>0. /\ TypeOK /\ ProgramType /\ LoopInv(t) /\ pc[t] = "idle"
      /\ dec \in [Threads -> [{0, 1} -> [ptr : Ptr, word : Word]]]
  BY DEF LocalsInv, TypeOK, DecType, PoisonCell, Start
<1>1. PICK c \in Held(t) :
         /\ link' = [link EXCEPT ![c] = Poison]
         /\ IF link[c] \in Obj
            THEN dec' = [dec EXCEPT ![t][0].ptr = link[c]] /\ Goto(t, "decprotect")
            ELSE UNCHANGED dec /\ Goto(t, "idle")
  BY DEF PoisonCell
<1>2. ~retireStarted[t] /\ ~retireStarted'[t] /\ retTo'[t] = "idle"
  BY <1>0, IdleFacts DEF PoisonCell, retVars
<1>3. DeletingStays(t)
  BY <1>2 DEF DeletingStays, Deleting
<1>4. c \in Cell /\ ~Gone(c)
  BY ReachLives DEF Reach
<1>5. /\ link[c] \in Obj => pc'[t] = "decprotect" /\ dec'[t][0].ptr = link[c]
      /\ link[c] \notin Obj => pc'[t] = "idle"
  BY <1>0, <1>1, GotoMoves DEF Moves
<1>6. ASSUME NEW o \in Obj
      PROVE  orc'[o].cnt = orc[o].cnt + Bit(c \in Links(o)') - Bit(c \in Links(o))
                            + Share(t, o)' - Share(t, o)
  <2>1. Share(t, o) = 0
    BY <1>0, IdleShares DEF Share, Bit
  <2>2. /\ ~Early(t, o)' /\ ~OwedInside(t, o)' /\ (Owed(t, o)' <=> o = link[c])
        /\ ~Late(t, o)'
    BY <1>2, <1>5 DEF Early, OwedInside, Owed, Late
  <2>3. Share(t, o)' = Bit(o = link[c])
    BY <2>2 DEF Share, Bit
  <2>4. Bit(c \in Links(o)') = Bit(o = Poison) /\ Bit(c \in Links(o)) = Bit(o = link[c])
    <3>1. link' = [link EXCEPT ![c] = Poison]
      BY <1>1
    <3> QED  BY <1>0, <1>3, <1>4, <3>1, LinkBits DEF Bit
  <2>5. orc'[o] = orc[o] /\ orc[o].cnt \in Int /\ o # Poison
    BY <1>0, WordFacts, ValueAssumption DEF TypeOK, ObjType, PoisonCell
  <2> QED  BY <2>1, <2>3, <2>4, <2>5 DEF Bit
<1>7. \A x \in Cell \ {c} : link'[x] = link[x] /\ (Deletes(t, x)' <=> Deletes(t, x))
  <2>1. \A x \in Cell : Deletes(t, x)' <=> Deletes(t, x)
    BY <1>3 DEF Deletes, DeletingStays
  <2> QED  BY <1>0, <1>1, <2>1 DEF TypeOK, ObjType
<1>8. CountInv'
  <2>1. ASSUME NEW o \in Obj
        PROVE  /\ IsFiniteSet(Links(o)')
               /\ orc'[o].cnt = Cardinality(Links(o)') + Cardinality(Earlies(o)') + Cardinality(Oweds(o)')
                                 + Cardinality(OwedsInside(o)') - Cardinality(Lates(o)')
    BY <1>4, <1>6, <1>7, CountChange
  <2> QED  BY <2>1 DEF CountInv
<1> QED  BY <1>3, <1>8

\* An operation at one of these steps is not inside retire().
LEMMA OuterFacts ==
    ASSUME NEW t \in Threads, LoopInv(t),
           pc[t] \in {"idle", "read", "publish", "newidx", "protect", "clear", "clearcas",
                      "inc", "inccas", "xchg", "sweep", "down"}
    PROVE  ~retireStarted[t] /\ retTo[t] = "idle" /\ ~Deleting(t)
  BY DEF LoopInv, LoopSteps, DecSteps, Deleting

\* The exchange of store() uses its early increment for the new link and owes
\* a decrement to the old object.
LEMMA ExchangeCounts ==
    ASSUME LocalsInv, CountInv, DoomedInv, NEW t \in Threads, OperationInv(t), Exchange(t),
           \A u \in Threads \ {t} : Wide(u)
    PROVE  CountInv' /\ DeletingStays(t) /\ GuardsShrink(t)
<1>0. /\ TypeOK /\ ProgramType /\ LoopInv(t) /\ pc[t] = "xchg"
      /\ dec \in [Threads -> [{0, 1} -> [ptr : Ptr, word : Word]]]
      /\ OperandInv(t)
  BY DEF LocalsInv, TypeOK, DecType, Exchange
<1> DEFINE c == op[t].cell
           d == op[t].new
<1>1. /\ link' = [link EXCEPT ![c] = d]
      /\ IF link[c] \in Obj
         THEN dec' = [dec EXCEPT ![t][0].ptr = link[c]] /\ Goto(t, "decprotect")
         ELSE UNCHANGED dec /\ Goto(t, "idle")
  BY DEF Exchange
<1>2. /\ ~retireStarted[t] /\ retTo[t] = "idle" /\ SameRetire(t)
      /\ ~retireStarted'[t] /\ retTo'[t] = "idle"
  BY <1>0, OuterFacts DEF Exchange, retVars, SameRetire
<1>3. DeletingStays(t)
  BY <1>2 DEF DeletingStays, Deleting
<1>4. c \in Cell /\ ~Gone(c) /\ op[t].kind = "store"
  <2>1. c \in Cell /\ (c \in Obj => Owns(t, c)) /\ op[t].kind = "store"
    BY <1>0 DEF OperandInv, Ready, OperationInv
  <2> QED  BY <2>1, OwnedLives
<1>5. /\ link[c] \in Obj => Moves(t, "decprotect") /\ dec'[t][0].ptr = link[c]
      /\ link[c] \notin Obj => Moves(t, "idle")
  BY <1>0, <1>1, GotoMoves
<1>5a. slot'[t] = slot[t]
  BY DEF Exchange
<1> HIDE DEF c, d
<1>6. ASSUME NEW o \in Obj
      PROVE  orc'[o].cnt = orc[o].cnt + Bit(c \in Links(o)') - Bit(c \in Links(o))
                            + Share(t, o)' - Share(t, o)
  <2>1. Share(t, o) = Bit(o = d)
    <3>1. ~Late(t, o) /\ ~Owed(t, o) /\ ~OwedInside(t, o) /\ (Early(t, o) <=> o = d)
      BY <1>0, <1>2, <1>4 DEF Early, OwedInside, Owed, Late, d
    <3> QED  BY <3>1 DEF Share, Bit
  <2>2. /\ ~Early(t, o)' /\ ~OwedInside(t, o)' /\ (Owed(t, o)' <=> o = link[c])
        /\ ~Late(t, o)'
    BY <1>2, <1>5 DEF Early, OwedInside, Owed, Late, Moves
  <2>3. Share(t, o)' = Bit(o = link[c])
    BY <2>2 DEF Share, Bit
  <2>4. Bit(c \in Links(o)') = Bit(o = d) /\ Bit(c \in Links(o)) = Bit(o = link[c])
    <3>1. link' = [link EXCEPT ![c] = d]
      BY <1>1
    <3> QED  BY <1>0, <1>3, <1>4, <3>1, LinkBits DEF Bit
  <2>5. orc'[o] = orc[o] /\ orc[o].cnt \in Int
    BY <1>0, WordFacts DEF TypeOK, ObjType, Exchange
  <2> QED  BY <2>1, <2>3, <2>4, <2>5 DEF Bit
<1>7. \A x \in Cell \ {c} : link'[x] = link[x] /\ (Deletes(t, x)' <=> Deletes(t, x))
  <2>1. \A x \in Cell : Deletes(t, x)' <=> Deletes(t, x)
    BY <1>3 DEF Deletes, DeletingStays
  <2> QED  BY <1>0, <1>1, <2>1 DEF TypeOK, ObjType
<1>8. CountInv'
  <2>1. ASSUME NEW o \in Obj
        PROVE  /\ IsFiniteSet(Links(o)')
               /\ orc'[o].cnt = Cardinality(Links(o)') + Cardinality(Earlies(o)') + Cardinality(Oweds(o)')
                                 + Cardinality(OwedsInside(o)') - Cardinality(Lates(o)')
    BY <1>4, <1>6, <1>7, CountChange
  <2> QED  BY <2>1 DEF CountInv
<1>9. GuardsShrink(t)
  BY <1>0, <1>2, <1>5, <1>5a, MoveGuards DEF Deciding
<1> QED  BY <1>3, <1>8, <1>9

\* incrementOrc() is early in store() and late in compare_exchange().
LEMMA IncrementOrcCounts ==
    ASSUME LocalsInv, CountInv, NEW t \in Threads, OperationInv(t), IncrementOrc(t),
           \A u \in Threads \ {t} : Wide(u)
    PROVE  CountInv' /\ DeletingStays(t) /\ GuardsShrink(t)
<1>0. /\ TypeOK /\ ProgramType /\ LoopInv(t) /\ pc[t] = "inc"
      /\ op[t].new \in Obj /\ op[t].kind \in {"store", "cas"}
      /\ orc \in [Obj -> Word]
  BY DEF LocalsInv, TypeOK, ObjType, IncrementOrc, OperandInv, Ready, OperationInv
<1>1. /\ ~retireStarted[t] /\ retTo[t] = "idle" /\ SameRetire(t)
      /\ ~retireStarted'[t] /\ retTo'[t] = "idle"
  BY <1>0, OuterFacts DEF IncrementOrc, retVars, SameRetire
<1>2. Moves(t, "inccas") \/ Moves(t, AfterInc(t))
  BY <1>0, GotoMoves DEF IncrementOrc
<1>3. slot'[t] = slot[t] /\ dec' = dec /\ link' = link
  BY DEF IncrementOrc, decVars
<1>4. DeletingStays(t)
  BY <1>1 DEF DeletingStays, Deleting
<1>5. GuardsShrink(t)
  BY <1>0, <1>1, <1>2, <1>3, MoveGuards DEF Deciding, AfterInc
<1>6. ASSUME NEW o \in Obj
      PROVE  orc'[o].cnt = orc[o].cnt + Bit(o = op[t].new) /\ orc[o].cnt \in Int
  <2>1. orc[o] \in Word /\ orc[o].cnt \in Int
    BY <1>0, WordFacts
  <2>2. orc' = [orc EXCEPT ![op[t].new] = [orc[op[t].new] EXCEPT !.cnt = @ + 1]]
    BY DEF IncrementOrc
  <2> QED  BY <1>0, <2>1, <2>2 DEF Word, Bit
<1>7. ASSUME NEW o \in Obj
      PROVE  Share(t, o)' - Share(t, o) = Bit(o = op[t].new)
  <2>1. CASE op[t].kind = "store"
    <3>1. ~Early(t, o) /\ ~Owed(t, o) /\ ~OwedInside(t, o) /\ ~Late(t, o)
      BY <1>0, <1>1, <2>1 DEF Early, OwedInside, Owed, Late
    <3>2. (Early(t, o)' <=> o = op[t].new) /\ ~Owed(t, o)' /\ ~OwedInside(t, o)' /\ ~Late(t, o)'
      BY <1>1, <1>2, <2>1 DEF Early, OwedInside, Owed, Late, AfterInc, Moves
    <3> QED  BY <3>1, <3>2 DEF Share, Bit
  <2>2. CASE op[t].kind = "cas"
    <3>1. /\ ~Early(t, o) /\ ~OwedInside(t, o) /\ (Late(t, o) <=> o = op[t].new)
          /\ (Owed(t, o) <=> dec[t][0].ptr = o /\ op[t].old # Null)
      BY <1>0, <1>1, <2>2 DEF Early, OwedInside, Owed, Late
    <3>2. /\ ~Early(t, o)' /\ ~OwedInside(t, o)' /\ ~Late(t, o)'
          /\ (Owed(t, o)' <=> dec[t][0].ptr = o /\ op[t].old # Null)
      BY <1>1, <1>2, <1>3, <2>2 DEF Early, OwedInside, Owed, Late, AfterInc, Moves
    <3> QED  BY <3>1, <3>2 DEF Share, Bit
  <2> QED  BY <1>0, <2>1, <2>2
<1>8. CountInv'
  <2>1. \A o \in Obj : Share(t, o)' \in Int /\ Share(t, o) \in Int
    BY DEF Share, Bit
  <2>2. \A o \in Obj : /\ orc[o].cnt \in Int
                       /\ orc'[o].cnt = orc[o].cnt + Share(t, o)' - Share(t, o)
    BY <1>6, <1>7, <2>1 DEF Bit
  <2> QED  BY <1>3, <1>4, <2>2, CountShares
<1> QED  BY <1>4, <1>5, <1>8

\* decrementOrc() pays what was owed.
LEMMA DecrementOrcCounts ==
    ASSUME LocalsInv, CountInv, NEW t \in Threads, DecrementOrc(t),
           \A u \in Threads \ {t} : Wide(u)
    PROVE  CountInv' /\ DeletingStays(t) /\ GuardsShrink(t)
<1> DEFINE L == Level(t)
           x == dec[t][Level(t)].ptr
           w == [orc[x] EXCEPT !.cnt = @ - 1, !.seq = @ + 1]
           d == [ptr |-> x, word |-> w]
<1>0. /\ TypeOK /\ ProgramType /\ LoopInv(t) /\ pc[t] = "decfaa"
      /\ x \in Obj /\ orc \in [Obj -> Word] /\ L \in {0, 1}
      /\ dec \in [Threads -> [{0, 1} -> [ptr : Ptr, word : Word]]]
  BY LocalTypes DEF LocalsInv, TypeOK, ObjType, DecType, DecrementOrc, OperandInv, Ready, DecSteps
<1>1. /\ slot'[t] = slot[t] /\ link' = link /\ SameRetire(t) /\ Level(t)' = L
      /\ orc' = [orc EXCEPT ![x] = w]
  BY DEF DecrementOrc, retVars, SameRetire, Level
<1>2. \/ /\ \E l \in {"retireOne", "deccas"} : Moves(t, l)
         /\ dec' = [dec EXCEPT ![t][L] = d]
      \/ /\ Moves(t, AfterDec(t))
         /\ dec' = [dec EXCEPT ![t][L] = NoDec]
  BY <1>0, GotoMoves DEF DecrementOrc, DecrementTest
<1>3. AfterDec(t) = IF retireStarted[t] THEN "free" ELSE "idle"
  BY DEF AfterDec
<1>4. dec'[t][0] = dec[t][0] \/ (retTo[t] = "idle" /\ ~retireStarted[t])
  BY <1>0, <1>2 DEF Level, LoopInv
<1>5. DeletingStays(t)
  <2>1. \E l \in DecSteps \cup {IF retireStarted[t] THEN "free" ELSE "idle"} : Moves(t, l)
    BY <1>2, <1>3 DEF DecSteps
  <2> QED  BY <1>0, <1>1, <2>1, MoveDeleting DEF DecSteps
<1> HIDE DEF w, L
<1>6. GuardsShrink(t)
  <2>1. CASE Moves(t, AfterDec(t))
    BY <1>0, <1>1, <1>3, <1>4, <2>1, MoveGuards DEF Deciding
  <2>2. CASE /\ \E l \in {"retireOne", "deccas"} : Moves(t, l)
             /\ dec' = [dec EXCEPT ![t][L] = d]
    <3>1. /\ pc'[t] \in {"retireOne", "deccas"} /\ op'[t] = op[t]
          /\ dec'[t][L].ptr = x
      BY <1>0, <2>2 DEF Moves
    <3>2. ASSUME NEW o \in Obj, o \in Temporary(t)' PROVE o \in Temporary(t)
      <4>1. CASE o = Decremented(t)'
        <5>1. o = x
          BY <1>1, <3>1, <4>1, <3>2, ValueAssumption DEF Decremented
        <5> QED  BY <1>0, <5>1 DEF Decremented, Temporary, L
      <4>2. CASE o # Decremented(t)'
        <5>1. o = Carried(t)' \/ o = Suspended(t)'
          BY <3>1, <3>2, <4>2, ValueAssumption DEF Temporary, Releasing
        <5>2. CASE o = Carried(t)'
          BY <1>1, <3>1, <5>2, ValueAssumption DEF Carried, SameRetire, Temporary
        <5>3. CASE o = Suspended(t)'
          BY <1>1, <1>4, <3>1, <5>3, ValueAssumption DEF Suspended, Undecided, SameRetire, Temporary
        <5> QED  BY <5>1, <5>2, <5>3
      <4> QED  BY <4>1, <4>2
    <3>3. ASSUME NEW o \in Obj, NEW i \in PtrIdx, Guarded(t, i, o)' PROVE Guarded(t, i, o)
      BY <1>1, <3>1, <3>3, HazAssumption DEF Guarded, Cleared, PtrIdx
    <3> QED  BY <3>2, <3>3 DEF GuardsShrink, Guarded
  <2> QED  BY <1>2, <2>1, <2>2
<1>7. ASSUME NEW o \in Obj
      PROVE  orc'[o].cnt = orc[o].cnt - Bit(o = x) /\ orc[o].cnt \in Int
  <2>1. orc[o] \in Word /\ orc[o].cnt \in Int
    BY <1>0, WordFacts
  <2> QED  BY <1>0, <1>1, <2>1 DEF Word, Bit, w
<1>8. ASSUME NEW o \in Obj
      PROVE  Share(t, o)' - Share(t, o) = - Bit(o = x)
  <2>0. pc'[t] \notin ShareSteps /\ pc'[t] \in {"retireOne", "deccas", "free", "idle"}
    BY <1>2, <1>3 DEF Moves, ShareSteps
  <2>1. CASE retireStarted[t]
    <3>1. /\ ~Late(t, o) /\ (OwedInside(t, o) <=> o = x)
          /\ (Early(t, o) <=> retTo[t] = "xchg" /\ op[t].kind = "store" /\ op[t].new = o)
          /\ (Owed(t, o) <=> retTo[t] = "decprotect" /\ dec[t][0].ptr = o)
      BY <1>0, <2>1 DEF Early, OwedInside, Owed, Late, Level
    <3>2. op'[t] = op[t]
      BY <1>2, <1>3, <2>1 DEF Moves
    <3>3. /\ ~Late(t, o)' /\ ~OwedInside(t, o)'
          /\ (Early(t, o)' <=> retTo[t] = "xchg" /\ op[t].kind = "store" /\ op[t].new = o)
          /\ (Owed(t, o)' <=> retTo[t] = "decprotect" /\ dec[t][0].ptr = o)
      BY <1>1, <1>4, <2>0, <2>1, <3>2 DEF Early, OwedInside, Owed, Late, SameRetire, ShareSteps
    <3> QED  BY <3>1, <3>3 DEF Share, Bit
  <2>2. CASE ~retireStarted[t]
    <3>1. retTo[t] = "idle" /\ retTo'[t] = "idle"
      BY <1>0, <1>1, <2>2 DEF LoopInv, SameRetire
    <3>2. ~Late(t, o) /\ ~OwedInside(t, o) /\ ~Early(t, o) /\ (Owed(t, o) <=> o = x)
      BY <1>0, <2>2, <3>1 DEF Early, OwedInside, Owed, Late, Level
    <3>3. ~Late(t, o)' /\ ~OwedInside(t, o)' /\ ~Early(t, o)' /\ ~Owed(t, o)'
      BY <2>0, <3>1 DEF Early, OwedInside, Owed, Late, ShareSteps
    <3> QED  BY <3>2, <3>3 DEF Share, Bit
  <2> QED  BY <2>1, <2>2
<1>9. CountInv'
  <2>1. \A o \in Obj : Share(t, o)' \in Int /\ Share(t, o) \in Int
    BY DEF Share, Bit
  <2>2. \A o \in Obj : /\ orc[o].cnt \in Int
                       /\ orc'[o].cnt = orc[o].cnt + Share(t, o)' - Share(t, o)
    BY <1>7, <1>8, <2>1 DEF Bit
  <2> QED  BY <1>1, <1>5, <2>2, CountShares
<1> QED  BY <1>5, <1>6, <1>9

\* The deleter owes a decrement to what its object links to.
LEMMA DestroyCounts ==
    ASSUME LocalsInv, OneRetirer, CountInv, NEW t \in Threads, Destroy(t),
           \A u \in Threads \ {t} : Wide(u)
    PROVE  CountInv' /\ GuardsShrink(t) /\ Deleting(t)' /\ ptr'[t] = ptr[t]
<1> DEFINE c == ptr[t]
<1>0. /\ TypeOK /\ ProgramType /\ LoopInv(t) /\ pc[t] = "destroy" /\ retireStarted[t]
      /\ c \in Obj /\ c \in Cell
      /\ dec \in [Threads -> [{0, 1} -> [ptr : Ptr, word : Word]]]
  BY DEF LocalsInv, TypeOK, DecType, Destroy, LoopInv, LoopSteps, Cell
<1>1. slot'[t] = slot[t] /\ link' = link /\ orc' = orc /\ SameRetire(t)
  BY DEF Destroy, retVars, SameRetire, objVars
<1>2. /\ link[c] \in Obj => Moves(t, "decprotect") /\ dec' = [dec EXCEPT ![t][1].ptr = link[c]]
      /\ link[c] \notin Obj => Moves(t, "free") /\ dec' = dec
  BY <1>0, GotoMoves DEF Destroy
<1>3. dec'[t][0] = dec[t][0] /\ (link[c] \in Obj => dec'[t][1].ptr = link[c])
  BY <1>0, <1>2
<1>4. GuardsShrink(t)
  BY <1>0, <1>1, <1>2, <1>3, MoveGuards DEF Deciding
<1>5. Deleting(t)' /\ ptr'[t] = c
  BY <1>0, <1>1, <1>2 DEF Deleting, SameRetire, Moves, DecSteps
<1>6. ~Deleting(t) /\ ~Gone(c)
  <2>1. ~Deleting(t)
    BY <1>0 DEF Deleting, DecSteps
  <2>2. ASSUME NEW u \in Threads, Deleting(u), ptr[u] = c PROVE u = t
    BY <1>0, <2>2, HandLives DEF Deleting, GaveUp, DecSteps
  <2> QED  BY <2>1, <2>2 DEF Gone
<1>7. ASSUME NEW o \in Obj PROVE Share(t, o)' = Share(t, o) + Bit(o = link[c])
  <2>1. /\ ~Late(t, o) /\ ~OwedInside(t, o)
        /\ (Early(t, o) <=> retTo[t] = "xchg" /\ op[t].kind = "store" /\ op[t].new = o)
        /\ (Owed(t, o) <=> retTo[t] = "decprotect" /\ dec[t][0].ptr = o)
    BY <1>0 DEF Early, OwedInside, Owed, Late
  <2>2. /\ ~Late(t, o)' /\ (OwedInside(t, o)' <=> o = link[c])
        /\ (Early(t, o)' <=> retTo[t] = "xchg" /\ op[t].kind = "store" /\ op[t].new = o)
        /\ (Owed(t, o)' <=> retTo[t] = "decprotect" /\ dec[t][0].ptr = o)
    BY <1>0, <1>1, <1>2, <1>3 DEF Early, OwedInside, Owed, Late, SameRetire, Moves
  <2> QED  BY <2>1, <2>2 DEF Share, Bit
<1>8. ASSUME NEW o \in Obj
      PROVE  orc'[o].cnt = orc[o].cnt + Bit(c \in Links(o)') - Bit(c \in Links(o))
                            + Share(t, o)' - Share(t, o)
  <2>1. c \notin Links(o)' /\ (c \in Links(o) <=> o = link[c])
    BY <1>0, <1>5, <1>6 DEF Links, Gone
  <2>2. Share(t, o) \in Int
    BY DEF Share, Bit
  <2>3. orc'[o] = orc[o] /\ orc[o].cnt \in Int
    BY <1>0, <1>1, WordFacts DEF TypeOK, ObjType
  <2> QED  BY <1>7, <2>1, <2>2, <2>3 DEF Bit
<1>9. \A x \in Cell \ {c} : link'[x] = link[x] /\ (Deletes(t, x)' <=> Deletes(t, x))
  BY <1>1, <1>5, <1>6 DEF Deletes
<1>10. CountInv'
  <2>1. ASSUME NEW o \in Obj
        PROVE  /\ IsFiniteSet(Links(o)')
               /\ orc'[o].cnt = Cardinality(Links(o)') + Cardinality(Earlies(o)') + Cardinality(Oweds(o)')
                                 + Cardinality(OwedsInside(o)') - Cardinality(Lates(o)')
    BY <1>0, <1>8, <1>9, CountChange
  <2> QED  BY <2>1 DEF CountInv
<1> QED  BY <1>4, <1>5, <1>10

\* An object is freed with no link to it and without a count.
LEMMA FreeObjCounts ==
    ASSUME RetireInv, SafeInv, NEW t \in Threads, FreeObj(t),
           \A u \in Threads \ {t} : Wide(u)
    PROVE  CountInv' /\ GuardsShrink(t) /\ ~Deleting(t)' /\ (GoesOn(t) \/ Comes(t))
<1>a. PICK c \in Obj : c = ptr[t]
  BY SafeFacts DEF FreeObj, LoopInv, LoopSteps
<1>0. /\ TypeOK /\ ProgramType /\ RetType /\ ScanType /\ LoopInv(t) /\ OneRetirer
      /\ CountInv /\ DoomedInv
      /\ pc[t] = "free" /\ retireStarted[t] /\ c = ptr[t] /\ c \in Cell
      /\ orc \in [Obj -> Word] /\ link \in [Cell -> Ptr \cup {Poison}]
  BY <1>a, SafeFacts DEF FreeObj, LoopInv, LoopSteps, Cell, ObjType
<1>1. /\ slot'[t] = slot[t] /\ dec'[t] = dec[t]
      /\ orc' = [orc EXCEPT ![c] = FreeWord] /\ link' = [link EXCEPT ![c] = Null]
  BY <1>a DEF FreeObj, decVars
<1>2. GoesOn(t) \/ Comes(t)
  BY <1>0, ContinueCases DEF FreeObj, Ptr
<1>3. GuardsShrink(t) /\ SharesStay(t)
  BY <1>0, <1>1, <1>2, ContinueStill DEF LoopSteps
<1>4. Deleting(t) /\ ~Deleting(t)'
  BY <1>0, <1>2 DEF Deleting, GoesOn, Comes, Moves, DecSteps
<1>5. Gone(c) /\ ~Gone(c)'
  <2>1. ASSUME NEW u \in Threads \ {t}, Deleting(u), ptr[u] = c PROVE FALSE
    BY <1>0, <2>1, HandLives DEF Deleting, GaveUp, DecSteps
  <2>2. \A u \in Threads \ {t} : ~(Deleting(u)' /\ ptr'[u] = c)
    BY <2>1 DEF Deleting, Wide, Frame
  <2> QED  BY <1>0, <1>4, <2>2 DEF Gone
<1>6. orc[c].cnt = 0
  BY <1>0, <1>4 DEF DoomedInv, Doomed
<1>7. ASSUME NEW o \in Obj
      PROVE  orc'[o].cnt = orc[o].cnt + Bit(c \in Links(o)') - Bit(c \in Links(o))
                            + Share(t, o)' - Share(t, o)
  <2>1. c \notin Links(o)' /\ c \notin Links(o)
    BY <1>0, <1>1, <1>5, ValueAssumption DEF Links
  <2>2. Share(t, o)' = Share(t, o) /\ Share(t, o) \in Int
    BY <1>3, SharesSame
  <2>3. orc'[o].cnt = orc[o].cnt /\ orc[o].cnt \in Int
    BY <1>0, <1>1, <1>6, WordFacts DEF FreeWord, NewWord
  <2> QED  BY <2>1, <2>2, <2>3 DEF Bit
<1>8. \A x \in Cell \ {c} : link'[x] = link[x] /\ (Deletes(t, x)' <=> Deletes(t, x))
  BY <1>0, <1>1, <1>4 DEF Deletes
<1>9. CountInv'
  <2>1. ASSUME NEW o \in Obj
        PROVE  /\ IsFiniteSet(Links(o)')
               /\ orc'[o].cnt = Cardinality(Links(o)') + Cardinality(Earlies(o)') + Cardinality(Oweds(o)')
                                 + Cardinality(OwedsInside(o)') - Cardinality(Lates(o)')
    BY <1>0, <1>7, <1>8, CountChange
  <2> QED  BY <2>1 DEF CountInv
<1> QED  BY <1>2, <1>3, <1>4, <1>9

\* A new object has no link and no count.
LEMMA MakeOrcCounts ==
    ASSUME RetireInv, SafeInv, NEW t \in Threads, MakeOrc(t),
           \A u \in Threads \ {t} : Wide(u)
    PROVE  CountInv' /\ SharesStay(t) /\ DeletingStays(t) /\ link' = link
<1>0. /\ TypeOK /\ LocalsInv /\ CountInv /\ DoomedInv
      /\ orc \in [Obj -> Word] /\ link \in [Cell -> Ptr \cup {Poison}]
  BY SafeFacts DEF ObjType
<1>1. PICK x \in Obj \ alive : /\ orc' = [orc EXCEPT ![x] = NewWord]
                               /\ link' = [link EXCEPT ![x] = Null]
  BY DEF MakeOrc
<1>2. x \in Cell /\ link[x] = Null /\ orc[x].cnt = 0
  BY <1>0 DEF DoomedInv, Doomed, Cell
<1>3. link' = link
  BY <1>0, <1>1, <1>2
<1>4. SharesStay(t) /\ DeletingStays(t)
  BY <1>0, BeginStill DEF Begin, MakeOrc, CompareExchange, PoisonCell, Start, Run
<1>5. ASSUME NEW o \in Obj
      PROVE  orc[o].cnt \in Int /\ orc'[o].cnt = orc[o].cnt + Share(t, o)' - Share(t, o)
  <2>1. orc'[o].cnt = orc[o].cnt /\ orc[o].cnt \in Int
    BY <1>0, <1>1, <1>2, WordFacts DEF NewWord
  <2> QED  BY <1>4, <2>1, SharesSame
<1> QED  BY <1>0, <1>3, <1>4, <1>5, CountShares

\* Every step keeps the sum that a count is.
LEMMA CountStep ==
    ASSUME RetireInv, SafeInv, NEW t \in Threads, Begin(t) \/ Call(t)
    PROVE  CountInv'
<1>0. /\ TypeOK /\ LocalsInv /\ CountInv /\ DoomedInv /\ LoopInv(t) /\ OneRetirer
      /\ OperationInv(t) /\ HpInv(t)
      /\ \A u \in Threads \ {t} : Wide(u)
  BY SafeFacts, WideFrame
<1>1. CASE MakeOrc(t)
  BY <1>0, <1>1, MakeOrcCounts
<1>2. CASE CompareExchange(t)
  BY <1>0, <1>2, CompareExchangeCounts
<1>3. CASE PoisonCell(t)
  BY <1>0, <1>3, PoisonCellCounts
<1>4. CASE Begin(t) /\ ~LinkSteps(t)
  <2>1. link' = link /\ CountsStay
    BY <1>0, <1>4, WhoWrites, WhoCounts DEF CountSteps, LinkSteps, Begin, IncrementOrc, DecrementOrc,
       Register, MakeOrc, Load, Assign, Store, CompareExchange, PoisonCell,
       CopyPtr, DropPtr, Shutdown, CountsStay, objVars
  <2>2. SharesStay(t) /\ DeletingStays(t)
    BY <1>0, <1>4, BeginStill DEF LinkSteps
  <2> QED  BY <1>0, <2>1, <2>2, CountSame
<1>5. CASE Exchange(t)
  BY <1>0, <1>5, ExchangeCounts
<1>6. CASE IncrementOrc(t)
  BY <1>0, <1>6, IncrementOrcCounts
<1>7. CASE DecrementOrc(t)
  BY <1>0, <1>7, DecrementOrcCounts
<1>8. CASE Destroy(t)
  BY <1>0, <1>8, DestroyCounts
<1>9. CASE FreeObj(t)
  BY <1>0, <1>9, FreeObjCounts
<1>10. CASE GetProtected(t) \/ ProtectPtr(t) \/ DecrementProtect(t) \/ ClearBitProtect(t)
  <2>1. link' = link /\ orc' = orc
    BY <1>10 DEF GetProtected, ProtectPtr, DecrementProtect, ClearBitProtect, objVars
  <2>2. SharesStay(t) /\ DeletingStays(t)
    <3>1. CASE GetProtected(t)
      BY <1>0, <3>1, GetProtectedGains
    <3>2. CASE ProtectPtr(t)
      BY <1>0, <3>2, ProtectPtrGains
    <3>3. CASE DecrementProtect(t)
      BY <1>0, <3>3, ProtectShares
    <3>4. CASE ClearBitProtect(t)
      BY <1>0, <3>4, ProtectShares
    <3> QED  BY <1>10, <3>1, <3>2, <3>3, <3>4
  <2> QED  BY <1>0, <2>1, <2>2, CountSame DEF CountsStay
<1>11. CASE Call(t) /\ ~BusySteps(t)
  <2>1. Still(t)
    BY <1>0, <1>11, CallStill
  <2>2. link' = link /\ alive' = alive
    BY <1>11 DEF BusySteps, GuardSteps, Call, GetProtected, Publish, GetNewIdx, ProtectPtr, Clear, ClearCas,
       IncrementOrc, IncrementCas, Exchange, DecrementProtect, DecrementOrc, ResetRetcnt,
       DecrementCas, RetireOne, Seek, SeekHP, TakeHandover, RetireSelf, RetireLoad,
       ClearBitProtect, ClearBit, ClearBitCas, ClearBitOk, ClearBitFail, ScanThreads,
       ScanHPs, Scan, HandOver, CheckWord, Destroy, FreeObj, Sweep, objVars
  <2>3. CountsStay
    BY <1>0, <1>11, WhoCounts DEF BusySteps, GuardSteps, CountSteps
  <2> QED  BY <1>0, <2>1, <2>2, <2>3, CountSame DEF Still
<1> QED  BY <1>1, <1>2, <1>3, <1>4, <1>5, <1>6, <1>7, <1>8, <1>9, <1>10, <1>11
        DEF LinkSteps, BusySteps, GuardSteps, Call, Begin

\* hp[t][0] stays where t relies on it across a retire().
OwnHpStays(t) ==
    retTo[t] = "newidx" \/ (retTo[t] = "reset" /\ Undecided(t, 0))
        => hp'[t][0] = hp[t][0]

\* What a step of t relies on at an index, it relied on before or has just
\* protected, and its hp says so.
LEMMA GuardStep ==
    ASSUME RetireInv, SafeInv, NEW t \in Threads, Begin(t) \/ Call(t), OwnHpStays(t),
           NEW i \in Idx, NEW o \in Obj, Guarded(t, i, o)'
    PROVE  /\ Guarded(t, i, o) \/ Gained(t, i, o)
           /\ hp'[t][i] = o /\ (i < maxHPs \/ i = 0)
<1>0. /\ TypeOK /\ LocalsInv /\ CountInv /\ DoomedInv /\ LoopInv(t) /\ OneRetirer
      /\ OperationInv(t) /\ HpInv(t) /\ ProgramType
      /\ \A u \in Threads \ {t} : Wide(u)
      /\ hp \in [Threads -> [Idx -> Ptr \cup {Poison}]]
  BY SafeFacts, WideFrame DEF HpType
<1> DEFINE A == \A j \in Idx, x \in Obj : Guarded(t, j, x)' => Guarded(t, j, x) \/ Gained(t, j, x)
           Z == \A x \in Obj : Guarded(t, 0, x)' => hp'[t][0] = x
<1>1. CASE ProtectPtr(t)
  BY <1>0, <1>1, ProtectPtrGains
<1>2. CASE MakeOrc(t) \/ GetProtected(t) \/ DecrementProtect(t) \/ ClearBitProtect(t)
  <2>1. A /\ Z
    <3>1. CASE MakeOrc(t)
      BY <1>0, <3>1, MakeOrcGains
    <3>2. CASE GetProtected(t)
      <4>1. hp' = hp
        BY <3>2 DEF GetProtected, hpVars
      <4> QED  BY <1>0, <3>2, <4>1, GetProtectedGains
    <3>3. CASE DecrementProtect(t)
      BY <1>0, <3>3, DecrementProtectGains DEF OwnHpStays
    <3>4. CASE ClearBitProtect(t)
      BY <1>0, <3>4, ClearBitProtectGains DEF OwnHpStays
    <3> QED  BY <1>2, <3>1, <3>2, <3>3, <3>4
  <2>2. CASE i = 0
    BY <2>1, <2>2
  <2>3. CASE i # 0
    <3>1. hp'[t][i] = hp[t][i]
      BY <1>0, <1>2, <2>3 DEF MakeOrc, GetProtected, DecrementProtect, ClearBitProtect, hpVars
    <3>2. Guarded(t, i, o)
      <4>1. i \in PtrIdx
        BY <2>3 DEF Idx, PtrIdx
      <4> QED  BY <1>0, <1>2, <4>1, MakeOrcGains, GetProtectedGains, DecrementProtectGains,
                  ClearBitProtectGains DEF OwnHpStays
    <3> QED  BY <1>0, <3>1, <3>2 DEF HpInv
  <2> QED  BY <2>2, <2>3
<1>3. CASE ~GuardSteps(t)
  <2>1. GuardsShrink(t)
    <3>1. CASE Begin(t)
      BY <1>0, <1>3, <3>1, BeginGuards
    <3>2. CASE Call(t) /\ ~BusySteps(t)
      BY <1>0, <3>2, CallStill DEF Still
    <3>3. CASE IncrementOrc(t) \/ Exchange(t) \/ DecrementOrc(t) \/ Destroy(t) \/ FreeObj(t)
      BY <1>0, <3>3, IncrementOrcCounts, ExchangeCounts, DecrementOrcCounts, DestroyCounts, FreeObjCounts
    <3> QED  BY <1>3, <3>1, <3>2, <3>3 DEF BusySteps
  <2>2. Guarded(t, i, o)
    BY <2>1 DEF GuardsShrink
  <2>3. hp[t][i] = o /\ (i < maxHPs \/ i = 0)
    BY <1>0, <2>2 DEF HpInv
  <2>4. hp'[t][i] = hp[t][i]
    <3>1. CASE ~HpSteps(t)
      BY <3>1, WhoWrites
    <3>2. CASE i # 0 /\ (Publish(t) \/ ClearBitOk(t) \/ ClearBitFail(t))
      BY <1>0, <3>2 DEF Publish, ClearBitOk, ClearBitFail
    <3>3. CASE i = 0 /\ Publish(t)
      <4>1. pc[t] = "publish" /\ pc'[t] = "read" /\ retTo'[t] = retTo[t]
        BY <1>0, <3>3, GotoMoves DEF Publish, Moves, gcVars, retVars
      <4>2. retTo[t] = "idle"
        BY <1>0, <4>1, OuterFacts
      <4>3. o \in Temporary(t)'
        BY <3>3, HazAssumption DEF Guarded, PtrIdx
      <4> QED  BY <4>1, <4>2, <4>3, ValueAssumption DEF Temporary, Carried, Decremented, Suspended, Releasing, Deciding
    <3>4. CASE i = 0 /\ (ClearBitOk(t) \/ ClearBitFail(t))
      <4>1. pc[t] \in {"cbok", "cbfail"}
        BY <3>4 DEF ClearBitOk, ClearBitFail
      <4>2. o \in Temporary(t)
        BY <2>2, <3>4, HazAssumption DEF Guarded, PtrIdx
      <4>3. retTo[t] = "newidx" \/ (retTo[t] = "reset" /\ Undecided(t, 0))
        BY <4>1, <4>2, ValueAssumption DEF Temporary, Carried, Decremented, Suspended, Releasing, Deciding
      <4> QED  BY <3>4, <4>3 DEF OwnHpStays
    <3> QED  BY <1>3, <3>1, <3>2, <3>3, <3>4 DEF HpSteps, GuardSteps
  <2> QED  BY <2>2, <2>3, <2>4
<1> QED  BY <1>1, <1>2, <1>3 DEF GuardSteps

\* Indices and threads stay in use.
LEMMA Grows ==
    ASSUME TypeOK, NEW t \in Threads, Begin(t) \/ Call(t)
    PROVE  /\ \A i \in Idx : i < maxHPs => i < maxHPs'
           /\ \A u \in Threads : u < maxThreads => u < maxThreads'
<1>0. maxHPs \in Nat /\ maxThreads \in Nat /\ PtrIdx \subseteq Nat /\ Idx \subseteq Nat /\ Threads \subseteq Nat
  BY HazAssumption, NAssumption DEF TypeOK, HpType, PtrIdx, Idx, Threads
<1>1. \A i \in Idx : i < maxHPs => i < maxHPs'
  <2>1. CASE GetNewIdx(t)
    BY <1>0, <2>1 DEF GetNewIdx
  <2>2. CASE ~GetNewIdx(t)
    BY <2>2, WhoWrites
  <2> QED  BY <2>1, <2>2
<1>2. \A u \in Threads : u < maxThreads => u < maxThreads'
  <2>1. CASE Register(t)
    BY <1>0, <2>1 DEF Register
  <2>2. CASE ~Register(t)
    BY <2>2, WhoWrites
  <2> QED  BY <2>1, <2>2
<1> QED  BY <1>1, <1>2

\* A thread that is not registered does nothing.
LEMMA UsedStep ==
    ASSUME RetireInv, SafeInv, NEW t \in Threads, Begin(t) \/ Call(t), NEW u \in Threads
    PROVE  u < maxThreads' \/ pc'[u] = "idle"
<1>0. /\ TypeOK /\ ProgramType /\ HpInv(t)
      /\ u < maxThreads \/ pc[u] = "idle"
      /\ u # t => Wide(u)
      /\ u < maxThreads => u < maxThreads'
  BY SafeFacts, WideFrame, Grows DEF ThreadInv
<1>1. CASE u # t
  BY <1>0, <1>1 DEF Wide, Frame
<1>2. CASE u = t /\ Call(t)
  <2>1. pc[t] # "idle"
    BY <1>2 DEF Call, GetProtected, Publish, GetNewIdx, ProtectPtr, Clear, ClearCas,
       IncrementOrc, IncrementCas, Exchange, DecrementProtect, DecrementOrc, ResetRetcnt,
       DecrementCas, RetireOne, Seek, SeekHP, TakeHandover, RetireSelf, RetireLoad,
       ClearBitProtect, ClearBit, ClearBitCas, ClearBitOk, ClearBitFail, ScanThreads,
       ScanHPs, Scan, HandOver, CheckWord, Destroy, FreeObj, Sweep
  <2> QED  BY <1>0, <1>2, <2>1
<1>3. CASE u = t /\ Begin(t)
  <2>1. CASE Register(t)
    BY <1>0, <1>3, <2>1 DEF Register
  <2>2. CASE DropPtr(t)
    <3>1. PICK i \in PtrIdx : slot[t][i].ptr # Null
      BY <2>2 DEF DropPtr
    <3>2. slot[t][i].ptr \in Obj /\ i \in Idx
      BY <1>0, <3>1, IndexFacts DEF ProgramType, Ptr
    <3>3. t < maxThreads
      BY <1>0, <3>1, <3>2 DEF HpInv, Guarded
    <3> QED  BY <1>0, <1>3, <3>3
  <2>3. CASE ~Register(t) /\ ~DropPtr(t)
    <3>1. t < maxThreads
      BY <1>3, <2>3 DEF Begin, MakeOrc, Load, Assign, Store, CompareExchange, PoisonCell, CopyPtr,
         Shutdown, Start
    <3> QED  BY <1>0, <1>3, <3>1
  <2> QED  BY <2>1, <2>2, <2>3
<1> QED  BY <1>1, <1>2, <1>3

\* Every thread goes on finding its objects in its hps.
LEMMA HpStep ==
    ASSUME RetireInv, SafeInv, NEW t \in Threads, Begin(t) \/ Call(t), OwnHpStays(t),
           NEW u \in Threads
    PROVE  HpInv(u)'
<1>0. /\ HpInv(u) /\ HpInv(t) /\ (t < maxThreads \/ pc[t] = "idle")
      /\ u # t => Wide(u)
      /\ \A i \in Idx : i < maxHPs => i < maxHPs'
      /\ u < maxThreads => u < maxThreads'
  BY SafeFacts, WideFrame, Grows DEF ThreadInv
<1>1. CASE u # t
  <2>1. ASSUME NEW i \in Idx, NEW o \in Obj, Guarded(u, i, o)' PROVE Guarded(u, i, o)
    BY <1>0, <1>1, <2>1 DEF Guarded, Temporary, Carried, Decremented, Suspended, Releasing, Cleared,
       Undecided, Level, Wide, Frame
  <2> QED  BY <1>0, <1>1, <2>1 DEF HpInv, Wide
<1>2. CASE u = t
  <2>1. ASSUME NEW i \in Idx, NEW o \in Obj, Guarded(t, i, o)'
        PROVE  hp'[t][i] = o /\ (i < maxHPs' \/ i = 0) /\ t < maxThreads
    <3>1. /\ Guarded(t, i, o) \/ Gained(t, i, o)
          /\ hp'[t][i] = o /\ (i < maxHPs \/ i = 0)
      BY <2>1, GuardStep
    <3>2. t < maxThreads
      BY <1>0, <3>1 DEF HpInv, Gained, MakeOrc, Start
    <3> QED  BY <1>0, <3>1, <3>2
  <2> QED  BY <1>0, <1>2, <2>1 DEF HpInv
<1> QED  BY <1>1, <1>2

\* OperationInv of another thread.
LEMMA OperationFrame ==
    ASSUME TypeOK, NEW t \in Threads, Begin(t) \/ Call(t), NEW u \in Threads \ {t},
           OperationInv(u)
    PROVE  OperationInv(u)'
<1>1. Wide(u) /\ (\A i \in Idx : i < maxHPs => i < maxHPs') /\ PtrIdx \subseteq Idx
  BY WideFrame, Grows, IndexFacts
<1>2. /\ pc'[u] = pc[u] /\ op'[u] = op[u] /\ retTo'[u] = retTo[u] /\ slot'[u] = slot[u]
      /\ hp'[u] = hp[u] /\ dec'[u] = dec[u] /\ retireStarted'[u] = retireStarted[u]
  BY <1>1 DEF Wide, Frame
<1>3. /\ \A o : Owns(u, o)' <=> Owns(u, o)
      /\ \A i \in PtrIdx : NewIdx(u, i)' <=> NewIdx(u, i)
      /\ Undecided(u, Level(u))' <=> Undecided(u, Level(u))
  BY <1>2 DEF Owns, NewIdx, FreeIdx, Undecided, Level
<1> QED  BY <1>1, <1>2, <1>3 DEF OperationInv

\* The steps at which OperationInv says something.
OperationSteps == {"read", "publish", "newidx", "protect", "clear", "clearcas",
                   "inc", "inccas", "xchg", "deccas"}

\* OperationInv after a jump to a step it says nothing about.
LEMMA MoveOperation ==
    ASSUME NEW t \in Threads, NEW l, l \notin OperationSteps,
           Moves(t, l), SameRetire(t), slot'[t] = slot[t],
           LoopInv(t), l = "idle" => ~retireStarted[t] /\ pc[t] # "self",
           OperationInv(t)
    PROVE  OperationInv(t)'
<1>1. pc'[t] = l /\ retTo'[t] = retTo[t] /\ (l = "idle" => retTo[t] = "idle")
      /\ (l # "idle" => op'[t] = op[t])
  BY DEF Moves, SameRetire, LoopInv
<1>2. \A o : Owns(t, o)' <=> Owns(t, o)
  BY DEF Owns
<1> QED  BY <1>1, <1>2 DEF OperationInv, OperationSteps

\* OperationInv after retire() has gone on or has returned.
LEMMA ContinueOperation ==
    ASSUME NEW t \in Threads, GoesOn(t) \/ Comes(t), slot'[t] = slot[t],
           LoopInv(t), OperationInv(t)
    PROVE  OperationInv(t)'
<1>1. \A o : Owns(t, o)' <=> Owns(t, o)
  BY DEF Owns
<1>2. CASE GoesOn(t)
  BY <1>1, <1>2 DEF GoesOn, Moves, OperationInv
<1>3. CASE Comes(t)
  <2>1. pc'[t] = retTo[t] /\ retTo'[t] = "idle" /\ (retTo[t] # "idle" => op'[t] = op[t])
        /\ retTo[t] \in Returns
    BY <1>3 DEF Comes, Moves, LoopInv
  <2> QED  BY <1>1, <2>1 DEF OperationInv, Returns
<1> QED  BY <1>2, <1>3

\* OperationInv when an operation calls retire().
LEMMA EnterOperation ==
    ASSUME NEW t \in Threads, NEW p, NEW l, Enters(t, p, l), slot'[t] = slot[t],
           l = "xchg" => pc[t] \in {"inc", "inccas"} /\ op[t].kind = "store",
           l = "newidx" => op[t].kind = "assign",
           OperationInv(t)
    PROVE  OperationInv(t)'
<1>1. \A o : Owns(t, o)' <=> Owns(t, o)
  BY DEF Owns
<1>2. pc'[t] = "self" /\ op'[t] = op[t] /\ retTo'[t] = l
  BY DEF Enters, Moves
<1> QED  BY <1>1, <1>2 DEF OperationInv

\* The first step of an operation finds its operands in the orc_ptrs of t.
LEMMA BeginOperation ==
    ASSUME LocalsInv, NEW t \in Threads, Begin(t), OperationInv(t)
    PROVE  OperationInv(t)'
<1>0. /\ ProgramType /\ LoopInv(t) /\ NoOp \in Operation
      /\ slot[t] \in [PtrIdx -> [ptr : Ptr, lnk : BOOLEAN]]
  BY NoOpType DEF LocalsInv, TypeOK, ProgramType
<1>1. CASE Register(t)
  BY <1>1 DEF Register, gcVars, decVars, retVars, OperationInv, Owns, Level, Undecided, NewIdx, FreeIdx
<1>2. CASE ~Register(t)
  <2>1. pc[t] = "idle" /\ Kept(t)
    BY <1>2, UnchangedKept DEF Begin, MakeOrc, Load, Assign, Store, CopyPtr, DropPtr, Shutdown, Start,
       CompareExchange, PoisonCell, gcVars
  <2>2. ~retireStarted'[t] /\ retTo'[t] = "idle"
    BY <1>0, <2>1, IdleFacts DEF Kept
  <2>3. ASSUME pc'[t] \in {"idle", "sweep", "down", "decprotect"} PROVE OperationInv(t)'
    BY <2>2, <2>3 DEF OperationInv
  <2>4. CASE MakeOrc(t)
    <3>1. pc'[t] = "newidx" /\ op'[t].kind = "none"
      BY <1>0, <2>4 DEF MakeOrc, Run, ProgramType, NoOp
    <3> QED  BY <2>2, <3>1 DEF OperationInv
  <2>5. CASE Load(t) \/ Assign(t) \/ Store(t) \/ CompareExchange(t)
    <3>1. PICK c \in Reach(t) : op'[t].cell = c
      <4>1. CASE Load(t)
        BY <1>0, <4>1 DEF Load, Run, ProgramType, NoOp
      <4>2. CASE Assign(t)
        BY <1>0, <4>2 DEF Assign, Run, ProgramType, NoOp
      <4>3. CASE Store(t)
        BY <1>0, <4>3 DEF Store, Run, ProgramType, NoOp
      <4>4. CASE CompareExchange(t)
        BY <1>0, <4>4 DEF CompareExchange, Run, ProgramType, NoOp
      <4> QED  BY <2>5, <4>1, <4>2, <4>3, <4>4
    <3>2. slot'[t] = slot[t]
      BY <2>5 DEF Load, Assign, Store, CompareExchange
    <3>3. \A o : Owns(t, o)' <=> Owns(t, o)
      BY <3>2 DEF Owns
    <3>4. c \in Obj => Owns(t, c)
      BY ValueAssumption DEF Reach, Held, Owns
    <3>5. CASE Load(t)
      <4>1. /\ pc'[t] = "read" /\ op'[t].kind = "load" /\ op'[t].old = Null /\ op'[t].ptr = Null
        BY <1>0, <3>5 DEF Load, Run, ProgramType, NoOp
      <4> QED  BY <2>2, <3>1, <3>3, <3>4, <4>1, ValueAssumption DEF OperationInv
    <3>6. CASE Assign(t)
      <4>1. PICK i \in PtrIdx :
               /\ pc'[t] = "read" /\ op'[t].kind = "assign" /\ op'[t].ptr = Null
               /\ op'[t].from = i
               /\ op'[t].old \in {slot[t][i].ptr, Null}
        BY <1>0, <3>6 DEF Assign, Run, ProgramType, NoOp
      <4> QED  BY <2>2, <3>1, <3>2, <3>3, <3>4, <4>1, ValueAssumption DEF OperationInv
    <3>7. CASE Store(t)
      <4>1. /\ op'[t].kind = "store"
            /\ pc'[t] = "xchg" \/ (pc'[t] = "inc" /\ op'[t].new \in Held(t))
        BY <1>0, <3>7 DEF Store, Run, ProgramType, NoOp
      <4>2. op'[t].new \in Held(t) => Owns(t, op'[t].new)
        BY DEF Held, Owns
      <4> QED  BY <2>2, <3>1, <3>2, <3>3, <3>4, <4>1, <4>2, ValueAssumption DEF OperationInv
    <3>8. CASE CompareExchange(t)
      <4>1. /\ op'[t].kind = "cas"
            /\ \/ pc'[t] = "decprotect"
               \/ pc'[t] = "inc" /\ op'[t].new \in Held(t)
        BY <1>0, <3>8 DEF CompareExchange, Run, ProgramType, NoOp
      <4>2. op'[t].new \in Held(t) => Owns(t, op'[t].new)
        BY DEF Held, Owns
      <4> QED  BY <2>2, <3>1, <3>2, <3>3, <3>4, <4>1, <4>2, ValueAssumption DEF OperationInv
    <3> QED  BY <2>5, <3>5, <3>6, <3>7, <3>8
  <2>6. CASE PoisonCell(t) \/ Shutdown(t)
    <3>1. pc'[t] \in {"idle", "sweep", "down", "decprotect"}
      BY <1>0, <2>6 DEF PoisonCell, Shutdown, Goto, ProgramType
    <3> QED  BY <2>3, <3>1
  <2>7. CASE CopyPtr(t)
    <3>1. PICK i \in PtrIdx : /\ pc'[t] = "newidx" /\ op'[t].kind = "copy"
                              /\ op'[t].ptr = slot[t][i].ptr /\ op'[t].from = i + 1
      BY <1>0, <2>7 DEF CopyPtr, Run, ProgramType, NoOp
    <3>2. slot'[t] = slot[t] /\ op'[t].from - 1 = i
      BY <2>7, <3>1, IndexFacts DEF CopyPtr
    <3> QED  BY <2>2, <3>1, <3>2 DEF OperationInv
  <2>8. CASE DropPtr(t)
    <3>1. pc'[t] = "idle" \/ (pc'[t] = "clear" /\ op'[t].from \in PtrIdx /\ op'[t].kind = "none")
      <4>1. PICK i \in PtrIdx :
              \/ UNCHANGED <<pc, op>>
              \/ Run(t, [NoOp EXCEPT !.old = slot[t][i].ptr, !.from = i], "clear")
        BY <2>8 DEF DropPtr
      <4>2. \/ pc'[t] = "idle"
            \/ pc'[t] = "clear" /\ op'[t].old = slot[t][i].ptr /\ op'[t].from = i /\ op'[t].kind = "none"
        BY <1>0, <2>1, <4>1 DEF Run, ProgramType, NoOp
      <4> QED  BY <4>2
    <3> QED  BY <2>2, <3>1 DEF OperationInv
  <2> QED  BY <1>2, <2>4, <2>5, <2>6, <2>7, <2>8 DEF Begin
<1> QED  BY <1>1, <1>2

\* The other steps of an operation do not lose them.
LEMMA CallOperation ==
    ASSUME LocalsInv, NEW t \in Threads, Call(t), OperationInv(t)
    PROVE  OperationInv(t)'
<1>0. /\ TypeOK /\ ProgramType /\ RetType /\ ScanType /\ DecType /\ LoopInv(t) /\ OperandInv(t)
      /\ ptr[t] \in Ptr /\ op[t].old \in Ptr /\ op[t].new \in Ptr
      /\ \A u \in Threads, i \in Idx : handovers[u][i] \in Ptr
      /\ hp \in [Threads -> [Idx -> Ptr \cup {Poison}]]
      /\ dec \in [Threads -> [{0, 1} -> [ptr : Ptr, word : Word]]]
  BY LocalTypes DEF LocalsInv, TypeOK, HpType, DecType
<1>1. CASE GetProtected(t)
  <2>1. pc[t] = "read" /\ Kept(t)
    BY <1>1, UnchangedKept DEF GetProtected, gcVars
  <2>2. retTo'[t] = "idle" /\ ~retireStarted'[t]
    BY <1>0, <2>1, OuterFacts DEF Kept
  <2>3. CASE Run(t, [op[t] EXCEPT !.ptr = link[op[t].cell]], "publish") /\ UNCHANGED slot
    <3>1. /\ pc'[t] = "publish" /\ op'[t].kind = op[t].kind /\ op'[t].cell = op[t].cell
          /\ op'[t].old = op[t].old /\ op'[t].from = op[t].from
      BY <1>0, <2>3, LocalTypes DEF Run, ProgramType, Operation
    <3> QED  BY <2>1, <2>2, <2>3, <3>1 DEF OperationInv, Owns
  <2>4. CASE Loaded(t)
    <3>1. pc'[t] = (IF op[t].old = Null THEN "newidx" ELSE "clear") /\ op'[t] = op[t]
      BY <1>0, <2>4, GotoMoves DEF Loaded, Moves
    <3> QED  BY <2>1, <2>2, <3>1 DEF OperationInv
  <2> QED  BY <1>1, <2>3, <2>4 DEF GetProtected
<1>2. CASE Publish(t)
  <2>1. /\ pc[t] = "publish" /\ pc'[t] = "read" /\ op'[t] = op[t] /\ retTo'[t] = retTo[t]
        /\ slot'[t] = slot[t] /\ hp'[t][0] = op[t].ptr
    BY <1>0, <1>2, GotoMoves, IndexFacts DEF Publish, Moves, gcVars, retVars
  <2>2. retTo[t] = "idle"
    BY <1>0, <2>1, OuterFacts
  <2> QED  BY <2>1, <2>2 DEF OperationInv, Owns
<1>3. CASE GetNewIdx(t)
  <2>1. /\ pc[t] = "newidx" /\ pc'[t] = "protect" /\ op'[t] = op[t] /\ retTo'[t] = retTo[t]
        /\ slot'[t] = slot[t]
    BY <1>0, <1>3, GotoMoves DEF GetNewIdx, Moves, gcVars, retVars
  <2>2. retTo[t] = "idle"
    BY <1>0, <2>1, OuterFacts
  <2>3. ASSUME NEW i \in PtrIdx, NewIdx(t, i)' PROVE i < maxHPs'
    <3>1. NewIdx(t, i)
      BY <2>1, <2>3 DEF NewIdx, FreeIdx
    <3>2. PICK idx \in PtrIdx :
            /\ NewIdx(t, idx)
            /\ maxHPs' = IF maxHPs <= idx THEN idx + 1 ELSE maxHPs
      BY <1>3 DEF GetNewIdx
    <3>3. i <= idx /\ idx <= i
      BY <3>1, <3>2 DEF NewIdx
    <3>4. i \in Nat /\ idx \in Nat /\ maxHPs \in Nat
      BY <1>0, HazAssumption DEF PtrIdx, TypeOK, HpType
    <3> QED  BY <3>2, <3>3, <3>4
  <2> QED  BY <2>1, <2>2, <2>3 DEF OperationInv
<1>4. CASE ProtectPtr(t)
  <2>1. pc[t] = "protect" /\ pc'[t] = "idle" /\ retTo'[t] = retTo[t]
    BY <1>0, <1>4, GotoMoves DEF ProtectPtr, Moves, gcVars, retVars
  <2>2. retTo[t] = "idle"
    BY <1>0, <2>1, OuterFacts
  <2> QED  BY <2>1, <2>2 DEF OperationInv
<1>5. CASE Clear(t) \/ ClearCas(t)
  <2>1. pc[t] \in {"clear", "clearcas"} /\ slot'[t] = slot[t]
    BY <1>5 DEF Clear, ClearCas
  <2>2. ~retireStarted[t] /\ retTo[t] = "idle"
    BY <1>0, <2>1, OuterFacts
  <2>3. \/ Moves(t, "clearcas") /\ SameRetire(t)
        \/ Moves(t, AfterClear(t)) /\ SameRetire(t)
        \/ Enters(t, op[t].old, AfterClear(t))
    BY <1>0, <1>5, GotoMoves, CasCases DEF Clear, ClearCas, retVars, SameRetire
  <2>4. CASE Moves(t, "clearcas") /\ SameRetire(t)
    BY <2>1, <2>2, <2>4 DEF OperationInv, Moves, SameRetire
  <2>5. CASE Moves(t, AfterClear(t)) /\ SameRetire(t)
    BY <2>1, <2>2, <2>5 DEF OperationInv, Moves, SameRetire, AfterClear
  <2>6. CASE Enters(t, op[t].old, AfterClear(t))
    BY <2>1, <2>6, EnterOperation DEF AfterClear
  <2> QED  BY <2>3, <2>4, <2>5, <2>6
<1>6. CASE IncrementOrc(t) \/ IncrementCas(t)
  <2>1. pc[t] \in {"inc", "inccas"} /\ slot'[t] = slot[t]
    BY <1>6 DEF IncrementOrc, IncrementCas
  <2>2. ~retireStarted[t] /\ retTo[t] = "idle"
    BY <1>0, <2>1, OuterFacts
  <2>3. \/ Moves(t, "inccas") /\ SameRetire(t)
        \/ Moves(t, AfterInc(t)) /\ SameRetire(t)
        \/ Enters(t, op[t].new, AfterInc(t))
    BY <1>0, <1>6, GotoMoves, CasCases DEF IncrementOrc, IncrementCas, retVars, SameRetire
  <2>4. CASE Moves(t, "inccas") /\ SameRetire(t)
    BY <2>1, <2>2, <2>4 DEF OperationInv, Moves, SameRetire, Owns
  <2>5. CASE Moves(t, AfterInc(t)) /\ SameRetire(t)
    BY <2>1, <2>2, <2>5 DEF OperationInv, Moves, SameRetire, AfterInc, Owns
  <2>6. CASE Enters(t, op[t].new, AfterInc(t))
    BY <2>1, <2>6, EnterOperation DEF AfterInc
  <2> QED  BY <2>3, <2>4, <2>5, <2>6
<1>7. CASE Exchange(t) \/ DecrementProtect(t)
  <2>1. /\ pc[t] = "xchg" => ~retireStarted[t]
        /\ pc[t] \in {"xchg", "decprotect"} /\ slot'[t] = slot[t] /\ SameRetire(t)
    BY <1>0, <1>7, OuterFacts DEF Exchange, DecrementProtect, SameRetire, gcVars, retVars
  <2>2. \/ Moves(t, "decprotect") \/ Moves(t, "decfaa")
        \/ pc[t] = "xchg" /\ Moves(t, "idle")
    BY <1>0, <1>7, GotoMoves DEF Exchange, DecrementProtect
  <2> QED  BY <1>0, <2>1, <2>2, MoveOperation DEF OperationSteps
<1>8. CASE DecrementOrc(t) \/ ResetRetcnt(t)
  <2>1. slot'[t] = slot[t] /\ SameRetire(t) /\ pc[t] \in {"decfaa", "reset"}
    BY <1>8 DEF DecrementOrc, ResetRetcnt, SameRetire, retVars
  <2>2. Level(t) \in {0, 1} /\ AfterDec(t) = (IF retireStarted[t] THEN "free" ELSE "idle")
        /\ Level(t)' = Level(t)
    BY <2>1 DEF Level, AfterDec, SameRetire
  <2>3. \/ Moves(t, "retireOne")
        \/ \E d : DecrementTest(t, d)
    BY <1>0, <1>8, GotoMoves DEF DecrementOrc, ResetRetcnt
  <2>4. CASE Moves(t, "retireOne")
    BY <1>0, <2>1, <2>4, MoveOperation DEF OperationSteps
  <2>5. ASSUME NEW d, DecrementTest(t, d) PROVE OperationInv(t)'
    <3>1. CASE IsZero(d.word)
      <4>1. dec' = [dec EXCEPT ![t][Level(t)] = d] /\ Moves(t, "deccas")
        BY <1>0, <2>5, <3>1, GotoMoves DEF DecrementTest
      <4>2. dec'[t][Level(t)] = d
        BY <1>0, <2>2, <4>1
      <4>3. Undecided(t, Level(t))'
        BY <2>2, <3>1, <4>2 DEF Undecided
      <4>4. pc'[t] = "deccas" /\ op'[t] = op[t] /\ retTo'[t] = retTo[t]
        BY <2>1, <4>1 DEF Moves, SameRetire
      <4>5. \A o : Owns(t, o)' <=> Owns(t, o)
        BY <2>1 DEF Owns
      <4> QED  BY <4>3, <4>4, <4>5 DEF OperationInv
    <3>2. CASE ~IsZero(d.word)
      <4>1. Moves(t, AfterDec(t))
        BY <1>0, <2>5, <3>2, GotoMoves DEF DecrementTest
      <4> QED  BY <1>0, <2>1, <2>2, <4>1, MoveOperation DEF OperationSteps
    <3> QED  BY <3>1, <3>2
  <2> QED  BY <2>3, <2>4, <2>5
<1>9. CASE DecrementCas(t)
  <2>1. pc[t] = "deccas" /\ slot'[t] = slot[t] /\ dec[t][Level(t)].ptr \in Ptr
    BY <1>0, <1>9, LocalTypes DEF DecrementCas
  <2>2. \/ Moves(t, AfterDec(t)) /\ SameRetire(t)
        \/ Enters(t, dec[t][Level(t)].ptr, AfterDec(t))
    BY <1>0, <1>9, <2>1, CasCases DEF DecrementCas
  <2>3. AfterDec(t) = IF retireStarted[t] THEN "free" ELSE "idle"
    BY DEF AfterDec
  <2> QED  BY <1>0, <2>1, <2>2, <2>3, MoveOperation, EnterOperation DEF OperationSteps
<1>10. CASE TakeHandover(t) \/ Sweep(t)
  <2>1. pc[t] \in {"take", "sweep"} /\ slot'[t] = slot[t]
    BY <1>10 DEF TakeHandover, Sweep
  <2>2. PICK p \in Ptr, l \in {"reset", "sweep", "down"} :
            (Moves(t, l) /\ SameRetire(t)) \/ Enters(t, p, l)
    <3>1. PICK q \in scan[t] \cup left, l \in {"reset", "sweep", "down"} :
             Retire(t, handovers[q[1]][q[2]], l)
      BY <1>10 DEF TakeHandover, Sweep
    <3>2. handovers[q[1]][q[2]] \in Ptr
      BY <1>0, <3>1 DEF ScanType, Place
    <3> QED  BY <1>0, <3>1, <3>2, RetireCases
  <2> QED  BY <1>0, <2>1, <2>2, MoveOperation, EnterOperation DEF OperationSteps
<1>11. CASE RetireSelf(t) \/ ClearBitFail(t) \/ HandOver(t) \/ FreeObj(t)
  <2>1. slot'[t] = slot[t]
    BY <1>11 DEF RetireSelf, ClearBitFail, HandOver, FreeObj
  <2>2. \E p \in Ptr : Continue(t, p)
    <3>1. CASE RetireSelf(t)
      BY <1>0, <3>1 DEF RetireSelf, OwnHp
    <3>2. CASE ClearBitFail(t) \/ FreeObj(t)
      BY <3>2 DEF ClearBitFail, FreeObj, Ptr
    <3>3. CASE HandOver(t)
      <4>1. PICK q \in scan[t] : Continue(t, handovers[q[1]][q[2]])
        BY <3>3 DEF HandOver
      <4>2. handovers[q[1]][q[2]] \in Ptr
        BY <1>0, <4>1 DEF ScanType, Place
      <4> QED  BY <4>1, <4>2
    <3> QED  BY <1>11, <3>1, <3>2, <3>3
  <2>3. GoesOn(t) \/ Comes(t)
    BY <1>0, <2>2, ContinueCases
  <2> QED  BY <1>0, <2>1, <2>3, ContinueOperation
<1>12. CASE \/ RetireOne(t) \/ Seek(t) \/ SeekHP(t)
            \/ RetireLoad(t) \/ ClearBitProtect(t) \/ ClearBit(t) \/ ClearBitCas(t) \/ ClearBitOk(t)
            \/ ScanThreads(t) \/ ScanHPs(t) \/ Scan(t) \/ CheckWord(t) \/ Destroy(t)
  <2>1. SameRetire(t) /\ slot'[t] = slot[t]
    BY <1>12 DEF RetireOne, Seek, SeekHP, RetireLoad, ClearBitProtect, ClearBit, ClearBitCas,
       ClearBitOk, ScanThreads, ScanHPs, Scan, CheckWord, Destroy, SameRetire, retVars, gcVars
  <2>2. \E l \in {"reset", "seek", "seekhp", "take", "check", "threads", "cbhp", "cbfaa", "cbcas",
                   "cbfail", "cbok", "load", "hps", "scan", "hand", "destroy", "decprotect", "free"} :
            Moves(t, l)
    BY <1>0, <1>12, GotoMoves DEF RetireOne, Seek, SeekHP, SeekNext, RetireLoad, ClearBitProtect,
       ClearBit, ClearBitCas, ClearBitOk, ScanThreads, ScanHPs, Scan, CheckWord, Destroy, TryHandover
  <2> QED  BY <1>0, <2>1, <2>2, MoveOperation DEF OperationSteps
<1> QED  BY <1>1, <1>2, <1>3, <1>4, <1>5, <1>6, <1>7, <1>8, <1>9, <1>10, <1>11, <1>12 DEF Call

\* An object with a count of zero that no compare_exchange() has linked
\* without counting has no link, and nobody has one to it in mind.
LEMMA Uncounted ==
    ASSUME CountInv, NEW o \in Obj, orc[o].cnt = 0, \A u \in Threads : ~Late(u, o)
    PROVE  /\ \A c \in Cell : link[c] = o => Gone(c)
           /\ \A u \in Threads : ~Owed(u, o) /\ ~OwedInside(u, o)
<1>1. IsFiniteSet(Threads)
  BY NAssumption, FS_Interval DEF Threads
<1>2. /\ IsFiniteSet(Lates(o)) /\ IsFiniteSet(Earlies(o))
      /\ IsFiniteSet(Oweds(o)) /\ IsFiniteSet(OwedsInside(o)) /\ IsFiniteSet(Links(o))
  BY <1>1, FS_Subset DEF Lates, Earlies, Oweds, OwedsInside, CountInv
<1>3. Cardinality(Lates(o)) = 0
  <2>1. Lates(o) = {}
    BY DEF Lates
  <2> QED  BY <2>1, FS_EmptySet
<1>4. /\ Cardinality(Links(o)) \in Nat /\ Cardinality(Earlies(o)) \in Nat
      /\ Cardinality(Oweds(o)) \in Nat /\ Cardinality(OwedsInside(o)) \in Nat
  BY <1>2, FS_CardinalityType
<1>5. 0 = Cardinality(Links(o)) + Cardinality(Earlies(o)) + Cardinality(Oweds(o))
           + Cardinality(OwedsInside(o)) - 0
  BY <1>3 DEF CountInv
<1>6. Cardinality(Links(o)) = 0 /\ Cardinality(Oweds(o)) = 0 /\ Cardinality(OwedsInside(o)) = 0
  <2> DEFINE j == Cardinality(Links(o))
             k == Cardinality(Earlies(o))
             m == Cardinality(Oweds(o))
             n == Cardinality(OwedsInside(o))
  <2>1. j \in Nat /\ k \in Nat /\ m \in Nat /\ n \in Nat
    BY <1>4
  <2>2. 0 = j + k + m + n - 0
    BY <1>5
  <2> HIDE DEF j, k, m, n
  <2>3. j = 0 /\ m = 0 /\ n = 0
    BY <2>1, <2>2
  <2> QED  BY <2>3 DEF j, m, n
<1>7. Links(o) = {} /\ Oweds(o) = {} /\ OwedsInside(o) = {}
  BY <1>2, <1>6, FS_EmptySet
<1> QED  BY <1>7 DEF Links, Oweds, OwedsInside

\* A compare_exchange() holds the object that it has linked.
LEMMA LateOwns ==
    ASSUME NEW u \in Threads, OperationInv(u), NEW o, Late(u, o)
    PROVE  Owns(u, o)
  BY DEF OperationInv, Late

\* The step of an operation at "inc".
LEMMA IncNext ==
    ASSUME NEW t \in Threads, Begin(t) \/ Call(t), pc[t] = "inc"
    PROVE  IncrementOrc(t)
  BY DEF Begin, Register, MakeOrc, Load, Assign, Store, CompareExchange, PoisonCell, CopyPtr, DropPtr,
         Shutdown, Start, Call, GetProtected, Publish, GetNewIdx, ProtectPtr, Clear, ClearCas,
         IncrementCas, Exchange, DecrementProtect, DecrementOrc, ResetRetcnt,
         DecrementCas, RetireOne, Seek, SeekHP, TakeHandover, RetireSelf, RetireLoad,
         ClearBitProtect, ClearBit, ClearBitCas, ClearBitOk, ClearBitFail, ScanThreads,
         ScanHPs, Scan, HandOver, CheckWord, Destroy, FreeObj, Sweep

\* Only compare_exchange() links before it counts.
LEMMA LateStep ==
    ASSUME RetireInv, SafeInv, NEW t \in Threads, Begin(t) \/ Call(t),
           NEW o \in Obj, Late(t, o)'
    PROVE  \E i \in PtrIdx : slot[t][i].ptr = o /\ slot'[t][i].ptr = o
<1>0. /\ TypeOK /\ LocalsInv /\ DoomedInv /\ LoopInv(t) /\ OneRetirer /\ CountInv
      /\ OperationInv(t) /\ HpInv(t) /\ ProgramType /\ OperationInv(t)'
      /\ \A u \in Threads \ {t} : Wide(u)
  BY SafeFacts, WideFrame, BeginOperation, CallOperation
<1>1. pc'[t] = "inc" /\ op'[t].kind = "cas"
  BY DEF Late
<1>2. CASE CompareExchange(t)
  <2>1. slot'[t] = slot[t]
    BY <1>2 DEF CompareExchange
  <2>2. \E i \in PtrIdx : slot'[t][i].ptr = o
    BY <1>0, <1>1 DEF OperationInv, Late, Owns
  <2> QED  BY <2>1, <2>2
<1>3. CASE ~CompareExchange(t)
  <2>1. Late(t, o)
    <3>1. CASE Begin(t)
      <4>1. ~PoisonCell(t)
        BY <1>0, <1>1, GotoMoves DEF PoisonCell, Moves
      <4> QED  BY <1>0, <1>3, <3>1, <4>1, BeginStill DEF SharesStay
    <3>2. CASE Call(t) /\ ~BusySteps(t)
      BY <1>0, <3>2, CallStill DEF Still, SharesStay
    <3>3. CASE GetProtected(t) \/ ProtectPtr(t) \/ DecrementProtect(t) \/ ClearBitProtect(t)
      BY <1>0, <3>3, GetProtectedGains, ProtectPtrGains, ProtectShares DEF SharesStay
    <3>4. CASE IncrementOrc(t) \/ Exchange(t) \/ DecrementOrc(t) \/ Destroy(t)
      <4>1. pc'[t] # "inc"
        BY <1>0, <3>4, GotoMoves DEF IncrementOrc, Exchange, DecrementOrc, Destroy, DecrementTest,
           AfterDec, AfterInc, Moves
      <4> QED  BY <1>1, <4>1
    <3>5. CASE FreeObj(t)
      <4>1. pc'[t] = "load" \/ pc'[t] \in Returns
        BY <1>0, <3>5, FreeObjCounts DEF GoesOn, Comes, Moves, LoopInv
      <4> QED  BY <1>1, <4>1 DEF Returns
    <3> QED  BY <3>1, <3>2, <3>3, <3>4, <3>5 DEF BusySteps, GuardSteps, Begin
  <2>2. pc[t] = "inc"
    BY <2>1 DEF Late
  <2>3. IncrementOrc(t)
    BY <2>2, IncNext
  <2>4. pc'[t] # "inc"
    BY <1>0, <2>3, GotoMoves DEF IncrementOrc, AfterInc, Moves
  <2> QED  BY <1>1, <2>4
<1> QED  BY <1>2, <1>3

\* What a thread begins to delete it has found unprotected before.
LEMMA DeletingStep ==
    ASSUME RetireInv, SafeInv, NEW t \in Threads, Begin(t) \/ Call(t), Deleting(t)'
    PROVE  (Deleting(t) \/ pc[t] = "destroy") /\ ptr'[t] = ptr[t]
<1>0. /\ TypeOK /\ LocalsInv /\ DoomedInv /\ LoopInv(t) /\ OneRetirer /\ CountInv
      /\ OperationInv(t) /\ HpInv(t) /\ ProgramType
      /\ \A u \in Threads \ {t} : Wide(u)
  BY SafeFacts, WideFrame
<1>1. CASE FreeObj(t)
  BY <1>0, <1>1, FreeObjCounts
<1>2. CASE Destroy(t)
  BY <1>0, <1>2, DestroyCounts DEF Destroy
<1>3. CASE ~FreeObj(t) /\ ~Destroy(t)
  <2>1. DeletingStays(t)
    <3>1. CASE Begin(t)
      BY <1>0, <3>1, BeginStill, CompareExchangeCounts, PoisonCellCounts
    <3>2. CASE Call(t) /\ ~BusySteps(t)
      BY <1>0, <3>2, CallStill DEF Still
    <3>3. CASE GetProtected(t) \/ ProtectPtr(t) \/ DecrementProtect(t) \/ ClearBitProtect(t)
      BY <1>0, <3>3, GetProtectedGains, ProtectPtrGains, ProtectShares
    <3>4. CASE IncrementOrc(t) \/ Exchange(t) \/ DecrementOrc(t)
      BY <1>0, <3>4, ExchangeCounts, IncrementOrcCounts, DecrementOrcCounts
    <3> QED  BY <1>3, <3>1, <3>2, <3>3, <3>4 DEF BusySteps, GuardSteps, Begin
  <2> QED  BY <2>1 DEF DeletingStays
<1> QED  BY <1>1, <1>2, <1>3

\* The steps of which RowInv or WordOrderInv says something.
RowSteps == {"load", "cbhp", "cbfaa", "cbcas", "cbok", "cbfail", "threads", "check", "hps", "scan", "destroy"}

\* A scan is its own, but for the indices that it visits.
LEMMA RowFrame ==
    ASSUME NEW u \in Threads, Wide(u), RowInv(u), pc[u] = "scan" => maxHPs' = maxHPs
    PROVE  RowInv(u)'
  BY DEF RowInv, Wide, Frame

\* What leads to the steps of the loop in retire().
LEMMA LoopCases ==
    ASSUME LocalsInv, NEW t \in Threads, Begin(t) \/ Call(t), pc'[t] \in RowSteps
    PROVE  \/ pc'[t] = "load" /\ scan'[t] = {}
           \/ RetireLoad(t) \/ ClearBitProtect(t) \/ ClearBit(t) \/ ClearBitCas(t) \/ ClearBitOk(t)
           \/ ScanThreads(t) \/ ScanHPs(t) \/ Scan(t) \/ CheckWord(t)
<1>0. /\ TypeOK /\ ProgramType /\ RetType /\ ScanType /\ LoopInv(t)
      /\ op[t].old \in Ptr /\ op[t].new \in Ptr /\ ptr[t] \in Ptr
      /\ dec[t][Level(t)].ptr \in Ptr
      /\ \A u \in Threads, i \in Idx : handovers[u][i] \in Ptr
  BY LocalTypes DEF LocalsInv, TypeOK
<1>1. CASE Begin(t)
  <2>1. CASE Register(t)
    BY <2>1 DEF Register, RowSteps
  <2>2. CASE ~Register(t)
    <3>1. pc'[t] \in {"newidx", "read", "idle", "clear", "sweep", "down", "inc", "xchg", "decprotect"}
      <4>1. CASE MakeOrc(t) \/ Load(t) \/ Assign(t) \/ CopyPtr(t)
        BY <1>0, <4>1 DEF MakeOrc, Load, Assign, CopyPtr, Run, ProgramType
      <4>2. CASE DropPtr(t) \/ Shutdown(t) \/ PoisonCell(t)
        BY <1>0, <4>2 DEF DropPtr, Shutdown, PoisonCell, Run, Goto, ProgramType
      <4>3. CASE Store(t) \/ CompareExchange(t)
        BY <1>0, <4>3 DEF Store, CompareExchange, Run, ProgramType
      <4> QED  BY <1>1, <2>2, <4>1, <4>2, <4>3 DEF Begin
    <3> QED  BY <3>1 DEF RowSteps
  <2> QED  BY <2>1, <2>2
<1>2. CASE RetireSelf(t) \/ ClearBitFail(t) \/ HandOver(t) \/ FreeObj(t)
  <2>2. \E p \in Ptr : Continue(t, p)
    <3>1. CASE RetireSelf(t)
      BY <1>0, <3>1 DEF RetireSelf, OwnHp
    <3>2. CASE ClearBitFail(t) \/ FreeObj(t)
      BY <3>2 DEF ClearBitFail, FreeObj, Ptr
    <3>3. CASE HandOver(t)
      <4>1. PICK q \in scan[t] : Continue(t, handovers[q[1]][q[2]])
        BY <3>3 DEF HandOver
      <4>2. handovers[q[1]][q[2]] \in Ptr
        BY <1>0, <4>1 DEF ScanType, Place
      <4> QED  BY <4>1, <4>2
    <3> QED  BY <1>2, <3>1, <3>2, <3>3
  <2>3. scan'[t] = {} /\ (GoesOn(t) \/ Comes(t))
    BY <1>0, <2>2, ContinueCases
  <2>4. pc'[t] = "load" \/ pc'[t] \in Returns
    BY <1>0, <2>3 DEF GoesOn, Comes, Moves, LoopInv
  <2> QED  BY <2>3, <2>4 DEF RowSteps, Returns
<1>3. CASE ClearCas(t) \/ IncrementCas(t) \/ DecrementCas(t) \/ TakeHandover(t) \/ Sweep(t)
  <2>1. \E l \in {"self", "newidx", "idle", "xchg", "decprotect", "free", "reset", "sweep", "down"} : Moves(t, l)
    <3>1. CASE ClearCas(t) \/ IncrementCas(t)
      BY <1>0, <3>1, CasCases DEF ClearCas, IncrementCas, Enters, AfterClear, AfterInc
    <3>2. CASE DecrementCas(t)
      BY <1>0, <3>2, CasCases DEF DecrementCas, Enters, AfterDec
    <3>3. CASE TakeHandover(t) \/ Sweep(t)
      <4>1. PICK q \in scan[t] \cup left, l \in {"reset", "sweep", "down"} :
               Retire(t, handovers[q[1]][q[2]], l)
        BY <3>3 DEF TakeHandover, Sweep
      <4>2. handovers[q[1]][q[2]] \in Ptr
        BY <1>0, <4>1 DEF ScanType, Place
      <4> QED  BY <1>0, <4>1, <4>2, RetireCases DEF Enters
    <3> QED  BY <1>3, <3>1, <3>2, <3>3
  <2> QED  BY <2>1 DEF Moves, RowSteps
<1>4. CASE \/ GetProtected(t) \/ Publish(t) \/ GetNewIdx(t) \/ ProtectPtr(t) \/ Clear(t)
           \/ IncrementOrc(t) \/ Exchange(t) \/ DecrementProtect(t)
           \/ RetireOne(t) \/ Seek(t) \/ SeekHP(t) \/ Destroy(t)
  <2>1. pc'[t] \in {"publish", "newidx", "clear", "read", "protect", "idle", "clearcas", "inccas",
                    "xchg", "decprotect", "decfaa", "reset", "seek", "seekhp", "take", "free"}
    BY <1>0, <1>4 DEF GetProtected, Loaded, Publish, GetNewIdx, ProtectPtr, Clear,
        IncrementOrc, Exchange, DecrementProtect, RetireOne, Seek, SeekHP, SeekNext, Destroy,
        Run, Goto, ProgramType, AfterClear, AfterInc
  <2> QED  BY <2>1 DEF RowSteps
<1>5. CASE DecrementOrc(t) \/ ResetRetcnt(t)
  <2>1. pc'[t] \in {"retireOne", "deccas", "free", "idle"}
    BY <1>0, <1>5 DEF DecrementOrc, ResetRetcnt, DecrementTest, Goto, ProgramType, AfterDec
  <2> QED  BY <2>1 DEF RowSteps
<1> QED  BY <1>1, <1>2, <1>3, <1>4, <1>5 DEF Call

\* A scan visits the places in order.
LEMMA RowStep ==
    ASSUME RetireInv, SafeInv, NEW t \in Threads, Begin(t) \/ Call(t), ScansCover
    PROVE  RowInv(t)'
<1>0. /\ TypeOK /\ ProgramType /\ ScanType /\ LocalsInv /\ RowInv(t)
      /\ scan \in [Threads -> SUBSET Place]
      /\ maxHPs \in Nat
  BY SafeFacts, HazAssumption DEF ThreadInv, ScanType, TypeOK, HpType
<1>1. CASE pc'[t] \notin RowSteps
  BY <1>1 DEF RowInv, RowSteps
<1>2. CASE pc'[t] = "load" /\ scan'[t] = {}
  BY <1>2 DEF RowInv
<1>3. CASE RetireLoad(t) \/ ClearBitProtect(t) \/ ClearBit(t) \/ ClearBitCas(t) \/ ClearBitOk(t) \/ CheckWord(t)
  <2>1. scan'[t] = scan[t] /\ pc[t] \in {"load", "cbhp", "cbfaa", "cbcas", "cbok", "check"}
        /\ pc'[t] \in {"threads", "check", "cbhp", "cbfaa", "cbcas", "cbfail", "cbok", "load", "destroy"}
    BY <1>0, <1>3 DEF RetireLoad, ClearBitProtect, ClearBit, ClearBitCas, ClearBitOk, CheckWord,
       gcVars, Goto, ProgramType, TryHandover
  <2> QED  BY <1>0, <2>1 DEF RowInv
<1>4. CASE ScanThreads(t)
  <2>1. pc'[t] = "hps" /\ scan'[t] = {p \in Place : p[1] < maxThreads}
    BY <1>0, <1>4 DEF ScanThreads, Goto, ProgramType
  <2> QED  BY <2>1 DEF RowInv, Place
<1>5. CASE ScanHPs(t)
  <2>1. /\ pc[t] = "hps" /\ pc'[t] = "scan" /\ maxHPs' = maxHPs
        /\ scan'[t] = {p \in scan[t] : p[2] < maxHPs}
    BY <1>0, <1>5 DEF ScanHPs, Goto, ProgramType, ScansCover, hpVars
  <2> QED  BY <1>0, <2>1 DEF RowInv
<1>6. CASE Scan(t)
  <2>1. PICK p \in scan[t] :
           /\ First(p, scan[t])
           /\ \/ pc'[t] = "hand"
              \/ /\ pc'[t] \in {"check", "scan"} /\ (pc'[t] = "check" => scan[t] = {p})
                 /\ scan'[t] = scan[t] \ {p}
    BY <1>0, <1>6 DEF Scan, Goto, ProgramType
  <2>2. pc[t] = "scan" /\ maxHPs' = maxHPs
    BY <1>6 DEF Scan, hpVars
  <2>3. CASE pc'[t] = "scan" /\ scan'[t] = scan[t] \ {p}
    <3>1. ASSUME NEW q \in scan'[t], NEW i \in Idx, q[2] <= i, i < maxHPs
          PROVE  <<q[1], i>> \in scan'[t]
      <4>1. q \in scan[t] /\ q # p /\ <<q[1], i>> \in scan[t]
        BY <1>0, <2>2, <2>3, <3>1 DEF RowInv
      <4>2. p \in Place /\ q \in Place
        BY <1>0, <2>1, <4>1
      <4>3. p[1] \in Int /\ p[2] \in Int /\ q[1] \in Int /\ q[2] \in Int /\ i \in Int
        BY <4>2, NAssumption, HazAssumption DEF Place, Threads, Idx
      <4>4. p = <<p[1], p[2]>> /\ q = <<q[1], q[2]>>
        BY <4>2 DEF Place
      <4>5. <<q[1], i>> # p
        BY <2>1, <3>1, <4>1, <4>3, <4>4 DEF First, Before
      <4> QED  BY <2>3, <4>1, <4>5
    <3> QED  BY <2>2, <2>3, <3>1 DEF RowInv
  <2>4. CASE pc'[t] = "check" /\ scan'[t] = scan[t] \ {p}
    BY <2>1, <2>4 DEF RowInv
  <2>5. CASE pc'[t] = "hand"
    BY <2>5 DEF RowInv
  <2> QED  BY <2>1, <2>3, <2>4, <2>5
<1> QED  BY <1>0, <1>1, <1>2, <1>3, <1>4, <1>5, <1>6, LoopCases

\* What the steps of others do to the word of an object in retire().
LEMMA HandWord ==
    ASSUME RetireInv, SafeInv, NEW t \in Threads, Begin(t) \/ Call(t),
           NEW u \in Threads \ {t}, ptr[u] \in Obj, pc[u] \notin GaveUp,
           NEW w, w = orc[ptr[u]], NEW v, v = orc'[ptr[u]]
    PROVE  /\ w \in Word /\ v \in Word
           /\ \/ v.cnt = w.cnt /\ v.seq = w.seq
              \/ v.cnt = w.cnt + 1 /\ v.seq = w.seq
              \/ v.cnt = w.cnt - 1 /\ v.seq = w.seq + 1
<1>0. /\ TypeOK /\ ProgramType /\ LocalsInv /\ LoopInv(t) /\ OneRetirer
      /\ orc \in [Obj -> Word] /\ OperandInv(t)
      /\ w.cnt \in Int /\ w.seq \in Nat
  BY SafeFacts, WordFacts DEF ObjType
<1>1. /\ ptr[u] \in alive
      /\ pc[t] \notin GaveUp => ptr[t] # ptr[u]
  BY <1>0, HandLives
<1>2. v \in Word
  <2>1. TypeOK'
    BY <1>0, LocalsStep DEF LocalsInv, Next
  <2> QED  BY <2>1 DEF TypeOK, ObjType
<1>3. CASE ~CountSteps(t)
  BY <1>0, <1>2, <1>3, WhoCounts DEF CountsStay
<1>4. CASE MakeOrc(t)
  BY <1>0, <1>1, <1>2, <1>4 DEF MakeOrc
<1>5. CASE FreeObj(t)
  BY <1>0, <1>1, <1>2, <1>5 DEF FreeObj, GaveUp
<1>6. CASE IncrementOrc(t)
  <2>1. orc' = [orc EXCEPT ![op[t].new] = [orc[op[t].new] EXCEPT !.cnt = @ + 1]]
    BY <1>6 DEF IncrementOrc
  <2> QED  BY <1>0, <1>2, <2>1 DEF Word
<1>7. CASE DecrementOrc(t)
  <2>1. PICK x \in Obj : orc' = [orc EXCEPT ![x] = [orc[x] EXCEPT !.cnt = @ - 1, !.seq = @ + 1]]
    BY <1>0, <1>7 DEF DecrementOrc, OperandInv, Ready, DecSteps
  <2> QED  BY <1>0, <1>2, <2>1 DEF Word
<1> QED  BY <1>0, <1>2, <1>3, <1>4, <1>5, <1>6, <1>7 DEF CountSteps

\* The others move the word of an object in a scan forward.
LEMMA WordOrderFrame ==
    ASSUME RetireInv, SafeInv, NEW t \in Threads, Begin(t) \/ Call(t),
           NEW u \in Threads \ {t}
    PROVE  WordOrderInv(u)'
<1>0. /\ Wide(u) /\ LoopInv(u) /\ WordOrderInv(u) /\ lorc[u] \in Word
  BY SafeFacts, WideFrame DEF ThreadInv, ScanType
<1>1. pc'[u] = pc[u] /\ ptr'[u] = ptr[u] /\ lorc'[u] = lorc[u]
  BY <1>0 DEF Wide, Frame
<1>2. CASE pc[u] \notin Scanning
  BY <1>0, <1>1, <1>2 DEF WordOrderInv
<1>3. CASE pc[u] \in Scanning
  <2>1. ptr[u] \in Obj /\ pc[u] \notin GaveUp
    BY <1>0, <1>3 DEF LoopInv, LoopSteps, Scanning, GaveUp
  <2> DEFINE w == orc[ptr[u]]
             v == orc'[ptr[u]]
             z == lorc[u]
  <2>2. w.seq >= z.seq /\ (w.seq = z.seq => w.cnt >= z.cnt) /\ z.cnt = 0
    BY <1>0, <1>3 DEF WordOrderInv
  <2>3. /\ w \in Word /\ v \in Word
        /\ \/ v.cnt = w.cnt /\ v.seq = w.seq
           \/ v.cnt = w.cnt + 1 /\ v.seq = w.seq
           \/ v.cnt = w.cnt - 1 /\ v.seq = w.seq + 1
    BY <2>1, HandWord
  <2>4. w.cnt \in Int /\ w.seq \in Int /\ z.cnt \in Int /\ z.seq \in Int
    BY <1>0, <2>3 DEF Word
  <2>5. v.seq >= z.seq /\ (v.seq = z.seq => v.cnt >= z.cnt)
    <3> HIDE DEF w, v, z
    <3> QED  BY <2>2, <2>3, <2>4
  <2> QED  BY <1>1, <1>3, <2>2, <2>5 DEF WordOrderInv
<1> QED  BY <1>2, <1>3

\* A scan starts with the word as it is.
LEMMA WordOrderStep ==
    ASSUME RetireInv, SafeInv, NEW t \in Threads, Begin(t) \/ Call(t)
    PROVE  WordOrderInv(t)'
<1>0. /\ TypeOK /\ ProgramType /\ ScanType /\ LocalsInv /\ LoopInv(t) /\ WordOrderInv(t)
      /\ orc \in [Obj -> Word] /\ lorc \in [Threads -> Word]
  BY SafeFacts DEF ThreadInv, ObjType, ScanType
<1>1. CASE pc'[t] \notin Scanning \cup {"cbcas"}
  BY <1>1 DEF WordOrderInv
<1>2. CASE RetireLoad(t)
  <2>1. /\ lorc'[t] = orc[ptr[t]] /\ orc' = orc /\ ptr' = ptr
        /\ pc'[t] \in Scanning => orc[ptr[t]].cnt = 0
        /\ pc'[t] # "cbcas"
    BY <1>0, <1>2 DEF RetireLoad, objVars, retVars, Goto, ProgramType, TryHandover, IsCounterZero, Scanning
  <2>2. ptr[t] \in Obj
    BY <1>0, <1>2 DEF RetireLoad, LoopInv, LoopSteps
  <2>3. orc[ptr[t]].seq \in Int /\ orc[ptr[t]].cnt \in Int
    <3>1. orc[ptr[t]] \in Word
      BY <1>0, <2>2
    <3> QED  BY <3>1 DEF Word
  <2> QED  BY <2>1, <2>3 DEF WordOrderInv
<1>3. CASE ClearBit(t)
  <2>1. /\ pc'[t] \in {"cbcas", "cbfail"} /\ (pc'[t] = "cbcas" => lorc'[t].cnt = 0)
    BY <1>0, <1>3 DEF ClearBit, Goto, ProgramType, IsZero
  <2> QED  BY <2>1 DEF WordOrderInv, Scanning
<1>4. CASE ClearBitCas(t)
  <2>1. CASE orc[ptr[t]] = lorc[t]
    <3>1. pc[t] = "cbcas" /\ ptr' = ptr /\ ptr[t] \in Obj /\ lorc[t].cnt = 0
      BY <1>0, <1>4 DEF ClearBitCas, LoopInv, LoopSteps, retVars, WordOrderInv
    <3>2. /\ orc' = [orc EXCEPT ![ptr[t]].ret = TRUE]
          /\ lorc' = [lorc EXCEPT ![t].ret = TRUE]
      BY <1>4, <2>1 DEF ClearBitCas
    <3>3. orc'[ptr[t]] = lorc'[t] /\ lorc'[t].cnt = lorc[t].cnt /\ lorc'[t] \in Word
      BY <1>0, <2>1, <3>1, <3>2 DEF Word
    <3>4. lorc'[t].seq \in Int /\ lorc'[t].cnt \in Int
      BY <3>3 DEF Word
    <3> QED  BY <3>1, <3>3, <3>4 DEF WordOrderInv
  <2>2. CASE orc[ptr[t]] # lorc[t]
    <3>1. pc'[t] = "cbfail"
      BY <1>0, <1>4, <2>2 DEF ClearBitCas, Goto, ProgramType
    <3> QED  BY <3>1 DEF WordOrderInv, Scanning
  <2> QED  BY <2>1, <2>2
<1>5. CASE ClearBitOk(t) \/ ScanThreads(t) \/ ScanHPs(t) \/ Scan(t)
  <2>1. /\ pc[t] \in Scanning /\ pc'[t] # "cbcas"
        /\ orc' = orc /\ ptr' = ptr /\ lorc' = lorc
    BY <1>0, <1>5 DEF ClearBitOk, ScanThreads, ScanHPs, Scan, Goto, ProgramType, TryHandover, Scanning,
       objVars, retVars
  <2> QED  BY <1>0, <2>1 DEF WordOrderInv
<1>6. CASE CheckWord(t) \/ ClearBitProtect(t)
  <2>1. pc'[t] \in {"destroy", "load", "cbhp", "cbfaa"}
    BY <1>0, <1>6 DEF CheckWord, ClearBitProtect, Goto, ProgramType
  <2> QED  BY <2>1 DEF WordOrderInv, Scanning
<1> QED  BY <1>0, <1>1, <1>2, <1>3, <1>4, <1>5, <1>6, LoopCases DEF Scanning, RowSteps

\* While t runs alone in the destructor nothing is protected or linked late.
LEMMA DownQuiet ==
    ASSUME LocalsInv', DownInv', inDestructor', NEW o \in Obj
    PROVE  \A u \in Threads : /\ ~Late(u, o)'
                              /\ pc'[u] \in Scanning => \A v \in Threads, i \in Idx : ~Guarded(v, i, o)'
<1>1. \A u \in Threads : pc'[u] = "idle" \/ pc'[u] \in {"sweep", "down"} \/ retTo'[u] \in {"sweep", "down"}
  BY DEF DownInv
<1>2. \A u \in Threads : LoopInv(u)'
  BY DEF LocalsInv
<1>3. ASSUME NEW u \in Threads PROVE ~Late(u, o)'
  BY <1>1, <1>2 DEF LoopInv, Late, LoopSteps, DecSteps
<1>4. ASSUME NEW u \in Threads, pc'[u] \in Scanning, NEW v \in Threads, NEW i \in Idx, Guarded(v, i, o)'
      PROVE  FALSE
  <2>1. pc'[v] = "idle" \/ v = u
    BY <1>4 DEF DownInv, Scanning
  <2>2. retTo'[u] \in {"sweep", "down"}
    BY <1>1, <1>4 DEF Scanning
  <2>3. pc'[v] = "idle" => retTo'[v] = "idle"
    BY <1>2 DEF LoopInv, LoopSteps, DecSteps
  <2>4. o \notin Temporary(v)'
    BY <1>4, <2>1, <2>2, <2>3, ValueAssumption DEF Temporary, Carried, Decremented, Suspended, Releasing,
       Deciding, Scanning
  <2>5. \A j \in PtrIdx : slot'[v][j].ptr # o
    BY ValueAssumption DEF DownInv, Held
  <2>6. pc'[v] \notin {"clear", "clearcas"}
    BY <1>4, <2>1 DEF Scanning
  <2> QED  BY <1>4, <2>4, <2>5, <2>6 DEF Guarded, Cleared
<1> QED  BY <1>3, <1>4

\* What a step of t makes of the guards for an object that it must not touch.
LEMMA NoGain ==
    ASSUME RetireInv, SafeInv, NEW t \in Threads, Begin(t) \/ Call(t), NEW o \in Obj,
           o \in alive \/ ~MakeOrc(t), orc[o].cnt = 0, \A u \in Threads : ~Late(u, o),
           ~(pc[t] = "cbhp" /\ ptr[t] = o),
           NEW i \in Idx, Gained(t, i, o)
    PROVE  \E j \in Idx : j < i /\ i < maxHPs /\ Guarded(t, j, o)
<1>0. /\ CountInv /\ DoomedInv /\ LocalsInv /\ OperationInv(t) /\ OperandInv(t)
  BY SafeFacts
<1>1. ASSUME pc[t] = "read", link[op[t].cell] = o PROVE FALSE
  <2>1. op[t].cell \in Cell /\ (op[t].cell \in Obj => Owns(t, op[t].cell))
    BY <1>0, <1>1 DEF OperandInv, Ready, OperationInv
  <2>2. ~Gone(op[t].cell)
    BY <1>0, <2>1, OwnedLives
  <2> QED  BY <1>0, <1>1, <2>1, <2>2, Uncounted
<1>2. ~Owed(t, o) /\ ~OwedInside(t, o)
  BY <1>0, Uncounted
<1> QED  BY <1>1, <1>2 DEF Gained

\* Another thread protects the object of a scan only from a place that the
\* scan has still to visit, as long as the word stays.
LEMMA ScanFrame ==
    ASSUME RetireInv, SafeInv, RetireInv', NEW t \in Threads, Begin(t) \/ Call(t), OwnHpStays(t),
           NEW u \in Threads \ {t}
    PROVE  ScanInv(u)'
<1>0. /\ Wide(u) /\ LoopInv(u) /\ WordOrderInv(u) /\ ScanInv(u) /\ RowInv(u)
      /\ lorc[u] \in Word /\ ScanType /\ OneRetirer /\ OneRetirer'
      /\ TypeOK /\ HpType
      /\ \A v \in Threads \ {t} : Wide(v)
      /\ \A v \in Threads : OperationInv(v)
  BY SafeFacts, WideFrame DEF ThreadInv, ScanType, RetireInv
<1>1. pc'[u] = pc[u] /\ ptr'[u] = ptr[u] /\ lorc'[u] = lorc[u] /\ scan'[u] = scan[u]
  BY <1>0 DEF Wide, Frame
<1>2. SUFFICES ASSUME pc[u] \in {"hps", "scan", "check"}, orc'[ptr[u]] = lorc[u]
               PROVE  ScanInv(u)'
  BY <1>1 DEF ScanInv
<1>3. PICK o \in Obj : o = ptr[u]
  BY <1>0, <1>2 DEF LoopInv, LoopSteps
<1>4. pc[u] \notin GaveUp /\ pc[u] \in Scanning /\ pc[u] \notin DecSteps
  BY <1>2 DEF GaveUp, Scanning, DecSteps
<1>5. orc[o].ret /\ o \in alive
  BY <1>0, <1>3, <1>4, HandLives
<1>6. orc'[o].ret
  <2>1. hand'[u] = o
    BY <1>1, <1>3, <1>4 DEF hand, InHand, GaveUp
  <2>2. ~Fresh(o, hand', handovers', rlist')
    BY <2>1 DEF Fresh, NotInHand
  <2> QED  BY <1>0, <2>2 DEF OneRetirer
<1>7. orc'[o] = orc[o] /\ orc[o].cnt = 0
  <2> DEFINE w == orc[o]
             v == orc'[o]
             z == lorc[u]
  <2>1. w.seq >= z.seq /\ (w.seq = z.seq => w.cnt >= z.cnt) /\ z.cnt = 0 /\ v = z
    BY <1>0, <1>2, <1>3, <1>4 DEF WordOrderInv
  <2>2. /\ w \in Word /\ v \in Word
        /\ \/ v.cnt = w.cnt /\ v.seq = w.seq
           \/ v.cnt = w.cnt + 1 /\ v.seq = w.seq
           \/ v.cnt = w.cnt - 1 /\ v.seq = w.seq + 1
    BY <1>3, <1>4, HandWord
  <2>3. w.ret = TRUE /\ v.ret = TRUE
    BY <1>5, <1>6, <2>2 DEF Word
  <2> HIDE DEF w, v, z
  <2>4. w.cnt \in Int /\ w.seq \in Int /\ v.cnt \in Int /\ v.seq \in Int
    BY <2>2 DEF Word
  <2>5. v.cnt = w.cnt /\ v.seq = w.seq
    BY <2>1, <2>2, <2>4
  <2>6. v = w
    BY <2>2, <2>3, <2>5 DEF Word
  <2> QED  BY <2>1, <2>6 DEF w, v
<1>8. \/ Anchored(u, o)
      \/ /\ \A v \in Threads : ~Late(v, o)
         /\ \A v \in Threads, i \in Idx : Guarded(v, i, o) => <<v, i>> \in scan[u]
  BY <1>0, <1>2, <1>3, <1>7 DEF ScanInv
<1>9. CASE Anchored(u, o)
  <2>1. PICK v \in Threads, i \in PtrIdx : Late(v, o) /\ slot[v][i].ptr = o /\ <<v, i>> \in scan[u]
    BY <1>9 DEF Anchored
  <2>2. v # t
    <3>1. ASSUME v = t PROVE FALSE
      <4>1. pc[t] = "inc" /\ op[t].new = o
        BY <2>1, <3>1 DEF Late
      <4>2. IncrementOrc(t)
        BY <4>1, IncNext
      <4>3. orc'[o].cnt = orc[o].cnt + 1
        <5>1. orc \in [Obj -> Word]
          BY <1>0 DEF TypeOK, ObjType
        <5>2. orc' = [orc EXCEPT ![o] = [orc[o] EXCEPT !.cnt = @ + 1]]
          BY <4>1, <4>2 DEF IncrementOrc
        <5> QED  BY <5>1, <5>2 DEF Word
      <4> QED  BY <1>7, <4>3
    <3> QED  BY <3>1
  <2>3. Late(v, o)' /\ slot'[v][i].ptr = o
    BY <1>0, <2>1, <2>2 DEF Wide, Frame, Late
  <2>4. Anchored(u, o)'
    BY <1>1, <2>1, <2>3 DEF Anchored
  <2> QED  BY <1>1, <1>3, <2>4 DEF ScanInv
<1>10. CASE /\ \A v \in Threads : ~Late(v, o)
            /\ \A v \in Threads, i \in Idx : Guarded(v, i, o) => <<v, i>> \in scan[u]
  <2>1. CASE Late(t, o)'
    <3>1. PICK i \in PtrIdx : slot[t][i].ptr = o /\ slot'[t][i].ptr = o
      BY <2>1, LateStep
    <3>2. Guarded(t, i, o) /\ i \in Idx
      BY <3>1, IndexFacts DEF Guarded
    <3>3. Anchored(u, o)'
      BY <1>1, <1>10, <2>1, <3>1, <3>2 DEF Anchored
    <3> QED  BY <1>1, <1>3, <3>3 DEF ScanInv
  <2>2. CASE ~Late(t, o)'
    <3>1. \A v \in Threads : ~Late(v, o)'
      BY <1>0, <1>10, <2>2 DEF Late, Wide, Frame
    <3>2. ASSUME NEW v \in Threads, NEW i \in Idx, Guarded(v, i, o)' PROVE <<v, i>> \in scan[u]
      <4>1. CASE v # t
        <5>1. Guarded(v, i, o)
          BY <1>0, <3>2, <4>1 DEF Guarded, Temporary, Carried, Decremented, Suspended, Releasing, Cleared,
             Undecided, Level, Wide, Frame
        <5> QED  BY <1>10, <5>1
      <4>2. CASE v = t
        <5>1. Guarded(t, i, o) \/ Gained(t, i, o)
          BY <3>2, <4>2, GuardStep
        <5>2. CASE Guarded(t, i, o)
          BY <1>10, <4>2, <5>2
        <5>3. CASE Gained(t, i, o)
          <6>1. ~(pc[t] = "cbhp" /\ ptr[t] = o)
            BY <1>0, <1>3, <1>4, HandLives DEF GaveUp
          <6>2. PICK j \in Idx : j < i /\ i < maxHPs /\ Guarded(t, j, o)
            BY <1>5, <1>7, <1>10, <5>3, <6>1, NoGain
          <6>3. <<t, j>> \in scan[u]
            BY <1>10, <6>2
          <6>4. j <= i
            BY <6>2, HazAssumption DEF Idx
          <6>5. scan[u] # {} => pc[u] \in {"hps", "scan"}
            BY <1>0, <1>2 DEF RowInv
          <6> QED  BY <1>0, <4>2, <6>2, <6>3, <6>4, <6>5 DEF RowInv
        <5> QED  BY <5>1, <5>2, <5>3
      <4> QED  BY <4>1, <4>2
    <3>3. \A v \in Threads, i \in Idx : Guarded(v, i, o)' => <<v, i>> \in scan'[u]
      BY <1>1, <3>2
    <3> QED  BY <1>1, <1>3, <3>1, <3>3 DEF ScanInv
  <2> QED  BY <2>1, <2>2
<1> QED  BY <1>8, <1>9, <1>10

\* The steps of tryHandover() touch nothing that others rely on.
LEMMA ScanStill ==
    ASSUME RetireInv, SafeInv, NEW t \in Threads,
           ScanThreads(t) \/ ScanHPs(t) \/ Scan(t) \/ CheckWord(t)
    PROVE  /\ \A u \in Threads, i \in Idx, o \in Obj : Guarded(u, i, o)' => Guarded(u, i, o)
           /\ \A u \in Threads, o \in Obj : Late(u, o)' <=> Late(u, o)
           /\ slot' = slot /\ hp' = hp /\ maxHPs' = maxHPs /\ maxThreads' = maxThreads
           /\ orc' = orc /\ ptr' = ptr
<1>1. Call(t) /\ ~BusySteps(t)
  <2>1. pc[t] \in {"threads", "hps", "scan", "check"}
    BY DEF ScanThreads, ScanHPs, Scan, CheckWord
  <2>2. pc[t] \notin {"idle", "read", "protect", "decprotect", "cbhp", "inc", "xchg", "decfaa", "destroy", "free"}
    BY <2>1
  <2>3. ~BusySteps(t)
    BY <2>2 DEF BusySteps, GuardSteps, MakeOrc, Start, GetProtected, ProtectPtr, DecrementProtect,
       ClearBitProtect, IncrementOrc, Exchange, DecrementOrc, Destroy, FreeObj
  <2> QED  BY <2>3 DEF Call
<1>2. LocalsInv /\ OperationInv(t) /\ \A u \in Threads \ {t} : Wide(u)
  BY <1>1, SafeFacts, WideFrame
<1>3. Still(t)
  BY <1>1, <1>2, CallStill
<1>4. slot' = slot /\ hp' = hp /\ maxHPs' = maxHPs /\ maxThreads' = maxThreads /\ orc' = orc /\ ptr' = ptr
  BY DEF ScanThreads, ScanHPs, Scan, CheckWord, objVars, hpVars, retVars
<1>5. ASSUME NEW u \in Threads \ {t}, NEW o \in Obj
      PROVE  /\ \A i \in Idx : Guarded(u, i, o)' => Guarded(u, i, o)
             /\ Late(u, o)' <=> Late(u, o)
  BY <1>2 DEF Guarded, Temporary, Carried, Decremented, Suspended, Releasing, Cleared,
     Undecided, Level, Wide, Frame, Late
<1>6. ASSUME NEW o \in Obj
      PROVE  /\ \A i \in Idx : Guarded(t, i, o)' => Guarded(t, i, o)
             /\ Late(t, o)' <=> Late(t, o)
  BY <1>3 DEF Still, GuardsShrink, SharesStay
<1> QED  BY <1>4, <1>5, <1>6

\* A scan leaves out no place that protects its object.
LEMMA ScanStep ==
    ASSUME RetireInv, SafeInv, RetireInv', DownInv', NEW t \in Threads, Begin(t) \/ Call(t), ScansCover
    PROVE  ScanInv(t)'
<1>0. /\ LoopInv(t) /\ WordOrderInv(t) /\ ScanInv(t) /\ RowInv(t) /\ TypeOK /\ ProgramType /\ ScanType
      /\ LocalsInv /\ LocalsInv' /\ LoopInv(t)'
      /\ \A v \in Threads : HpInv(v) /\ OperationInv(v)
      /\ scan \in [Threads -> SUBSET Place] /\ maxHPs \in Nat
  BY SafeFacts, HazAssumption DEF ThreadInv, ScanType, TypeOK, HpType, RetireInv, LocalsInv
<1>1. SUFFICES ASSUME pc'[t] \in {"hps", "scan", "check"}, orc'[ptr'[t]] = lorc'[t]
               PROVE  ScanInv(t)'
  BY DEF ScanInv
<1>2. PICK o \in Obj : o = ptr'[t]
  BY <1>0, <1>1 DEF LoopInv, LoopSteps
<1>3. SUFFICES \/ Anchored(t, o)'
               \/ /\ \A u \in Threads : ~Late(u, o)'
                  /\ \A u \in Threads, i \in Idx : Guarded(u, i, o)' => <<u, i>> \in scan'[t]
  BY <1>2 DEF ScanInv
<1>4. CASE inDestructor'
  BY <1>0, <1>1, <1>4, DownQuiet DEF Scanning
<1>5. CASE ~inDestructor'
  <2>1. ScanThreads(t) \/ ScanHPs(t) \/ Scan(t)
    <3>1. ~inDestructor
      BY <1>5, WhoWrites DEF Shutdown
    <3>2. \/ RetireLoad(t) \/ ClearBitProtect(t) \/ ClearBit(t) \/ ClearBitCas(t) \/ ClearBitOk(t)
          \/ ScanThreads(t) \/ ScanHPs(t) \/ Scan(t) \/ CheckWord(t)
      BY <1>0, <1>1, LoopCases DEF RowSteps
    <3>3. CASE RetireLoad(t) \/ ClearBitProtect(t) \/ ClearBit(t) \/ ClearBitCas(t) \/ ClearBitOk(t) \/ CheckWord(t)
      <4>1. pc'[t] \in {"threads", "cbhp", "cbfaa", "cbcas", "cbfail", "cbok", "load", "destroy"}
        BY <1>0, <3>1, <3>3 DEF RetireLoad, ClearBitProtect, ClearBit, ClearBitCas, ClearBitOk, CheckWord,
           Goto, ProgramType, TryHandover
      <4> QED  BY <1>1, <4>1
    <3> QED  BY <3>2, <3>3
  <2>2. /\ \A u \in Threads, i \in Idx : Guarded(u, i, o)' => Guarded(u, i, o)
        /\ \A u \in Threads : Late(u, o)' <=> Late(u, o)
        /\ slot' = slot /\ hp' = hp /\ maxHPs' = maxHPs /\ maxThreads' = maxThreads
        /\ orc' = orc /\ ptr' = ptr
    BY <2>1, ScanStill
  <2>3. CASE ScanThreads(t)
    <3>1. scan'[t] = {p \in Place : p[1] < maxThreads}
      BY <1>0, <2>3 DEF ScanThreads
    <3>2. ASSUME NEW u \in Threads, NEW i \in Idx, Guarded(u, i, o) PROVE <<u, i>> \in scan'[t]
      BY <1>0, <3>1, <3>2 DEF HpInv, Place
    <3>3. CASE \E u \in Threads : Late(u, o)
      <4>1. PICK u \in Threads : Late(u, o)
        BY <3>3
      <4>2. PICK i \in PtrIdx : slot[u][i].ptr = o
        BY <1>0, <4>1, LateOwns DEF Owns
      <4>3. i \in Idx /\ Guarded(u, i, o)
        BY <4>2, IndexFacts DEF Guarded
      <4>4. Anchored(t, o)'
        BY <2>2, <3>2, <4>1, <4>2, <4>3 DEF Anchored
      <4> QED  BY <4>4
    <3>4. CASE \A u \in Threads : ~Late(u, o)
      BY <2>2, <3>2, <3>4
    <3> QED  BY <3>3, <3>4
  <2>4. CASE ScanHPs(t) \/ Scan(t)
    <3>1. /\ pc[t] \in {"hps", "scan"} /\ lorc' = lorc
          /\ pc[t] = "hps" => ScanHPs(t)
      BY <2>4 DEF ScanHPs, Scan
    <3>2. \/ Anchored(t, o)
          \/ /\ \A u \in Threads : ~Late(u, o)
             /\ \A u \in Threads, i \in Idx : Guarded(u, i, o) => <<u, i>> \in scan[t]
      BY <1>0, <1>1, <1>2, <2>2, <3>1 DEF ScanInv
    <3>3. ASSUME NEW u \in Threads, NEW i \in Idx, Guarded(u, i, o), <<u, i>> \in scan[t]
          PROVE  <<u, i>> \in scan'[t]
      <4>1. hp[u][i] = o /\ (i < maxHPs \/ i = 0)
        BY <1>0, <3>3 DEF HpInv
      <4>2. CASE ScanHPs(t)
        <5>1. maxHPs > 0 /\ scan'[t] = {p \in scan[t] : p[2] < maxHPs}
          BY <1>0, <4>2 DEF ScanHPs, ScansCover
        <5> QED  BY <1>0, <3>3, <4>1, <5>1
      <4>3. CASE Scan(t)
        <5>1. PICK p \in scan[t] : \/ hp[p[1]][p[2]] = o /\ pc'[t] = "hand"
                                   \/ hp[p[1]][p[2]] # o /\ scan'[t] = scan[t] \ {p}
          BY <1>0, <1>2, <2>2, <4>3 DEF Scan, Goto, ProgramType
        <5> QED  BY <1>1, <3>3, <4>1, <5>1
      <4> QED  BY <2>4, <4>2, <4>3
    <3>4. CASE Anchored(t, o)
      <4>1. PICK u \in Threads, i \in PtrIdx : Late(u, o) /\ slot[u][i].ptr = o /\ <<u, i>> \in scan[t]
        BY <3>4 DEF Anchored
      <4>2. i \in Idx /\ Guarded(u, i, o)
        BY <4>1, IndexFacts DEF Guarded
      <4>3. Anchored(t, o)'
        BY <2>2, <3>3, <4>1, <4>2 DEF Anchored
      <4> QED  BY <4>3
    <3>5. CASE /\ \A u \in Threads : ~Late(u, o)
               /\ \A u \in Threads, i \in Idx : Guarded(u, i, o) => <<u, i>> \in scan[t]
      BY <2>2, <3>3, <3>5
    <3> QED  BY <3>2, <3>4, <3>5
  <2> QED  BY <2>1, <2>3, <2>4
<1> QED  BY <1>4, <1>5

\* Only the check of the word at the end of a scan leads to the deleter.
LEMMA DestroyStep ==
    ASSUME RetireInv, SafeInv, NEW t \in Threads, Begin(t) \/ Call(t), pc'[t] = "destroy"
    PROVE  /\ CheckWord(t) /\ pc[t] = "check" /\ ptr' = ptr /\ ptr[t] \in Obj
           /\ orc[ptr[t]] = lorc[t] /\ lorc[t].cnt = 0 /\ scan[t] = {}
<1>0. /\ LocalsInv /\ ProgramType /\ LoopInv(t) /\ WordOrderInv(t) /\ RowInv(t)
  BY SafeFacts DEF ThreadInv
<1>1. \/ RetireLoad(t) \/ ClearBitProtect(t) \/ ClearBit(t) \/ ClearBitCas(t) \/ ClearBitOk(t)
      \/ ScanThreads(t) \/ ScanHPs(t) \/ Scan(t) \/ CheckWord(t)
  BY <1>0, LoopCases DEF RowSteps
<1>2. CASE \/ RetireLoad(t) \/ ClearBitProtect(t) \/ ClearBit(t) \/ ClearBitCas(t) \/ ClearBitOk(t)
           \/ ScanThreads(t) \/ ScanHPs(t) \/ Scan(t)
  BY <1>0, <1>2 DEF RetireLoad, ClearBitProtect, ClearBit, ClearBitCas, ClearBitOk, ScanThreads,
     ScanHPs, Scan, Goto, ProgramType, TryHandover
<1>3. CASE CheckWord(t)
  <2>1. pc[t] = "check" /\ ptr' = ptr /\ orc[ptr[t]] = lorc[t]
    BY <1>0, <1>3 DEF CheckWord, Goto, ProgramType
  <2> QED  BY <1>0, <1>3, <2>1 DEF LoopInv, LoopSteps, WordOrderInv, Scanning, RowInv
<1> QED  BY <1>1, <1>2, <1>3

\* An object ceases to exist at the end of its deleter, with no link left.
LEMMA DeadStep ==
    ASSUME RetireInv, SafeInv, NEW t \in Threads, Begin(t) \/ Call(t),
           NEW o \in Obj, o \notin alive'
    PROVE  /\ o \in alive => Deleting(t) /\ ptr[t] = o
           /\ link'[o] = Null
<1>0. /\ LocalsInv /\ DoomedInv /\ OperationInv(t) /\ OperandInv(t) /\ LoopInv(t) /\ o \in Cell
      /\ link \in [Cell -> Ptr \cup {Poison}]
  BY SafeFacts DEF ObjType, Cell
<1>1. CASE FreeObj(t)
  <2>1. pc[t] = "free" /\ retireStarted[t] /\ ptr[t] \in Obj
    BY <1>0, <1>1 DEF FreeObj, LoopInv, LoopSteps
  <2>2. o = ptr[t] \/ o \notin alive
    BY <1>1 DEF FreeObj
  <2>3. link' = [link EXCEPT ![ptr[t]] = Null]
    BY <1>1 DEF FreeObj
  <2> QED  BY <1>0, <2>1, <2>2, <2>3 DEF Deleting, DoomedInv, Doomed
<1>2. CASE MakeOrc(t)
  <2>1. PICK x \in Obj \ alive : alive' = alive \cup {x} /\ link' = [link EXCEPT ![x] = Null]
    BY <1>2 DEF MakeOrc
  <2> QED  BY <1>0, <2>1 DEF DoomedInv, Doomed
<1>3. CASE ~FreeObj(t) /\ ~MakeOrc(t)
  <2>1. o \notin alive /\ link[o] = Null
    BY <1>0, <1>3, WhoWrites DEF DoomedInv, Doomed
  <2>2. o \notin Reach(t) /\ ~Owns(t, o)
    <3>1. ~Owns(t, o)
      BY <1>0, <2>1, GuardedLives, IndexFacts DEF Owns, Guarded
    <3> QED  BY <1>0, <3>1, ReachLives
  <2>3. link'[o] = link[o]
    <3>1. CASE CompareExchange(t)
      <4>1. PICK c \in Reach(t), d \in Held(t) \cup {Null} : link' = [link EXCEPT ![c] = d]
        BY <3>1 DEF CompareExchange
      <4> QED  BY <1>0, <2>2, <4>1
    <3>2. CASE PoisonCell(t)
      <4>1. PICK c \in Held(t) : link' = [link EXCEPT ![c] = Poison]
        BY <3>2 DEF PoisonCell
      <4>2. c # o
        BY <2>2, <4>1 DEF Reach
      <4> QED  BY <1>0, <4>1, <4>2
    <3>3. CASE Exchange(t)
      <4>1. pc[t] = "xchg" /\ link' = [link EXCEPT ![op[t].cell] = op[t].new]
        BY <3>3 DEF Exchange
      <4>2. op[t].cell # o
        BY <1>0, <2>2, <4>1 DEF OperationInv
      <4> QED  BY <1>0, <4>1, <4>2
    <3>4. CASE ~LinkSteps(t)
      BY <3>4, WhoWrites
    <3> QED  BY <1>3, <3>1, <3>2, <3>3, <3>4 DEF LinkSteps
  <2> QED  BY <2>1, <2>3
<1> QED  BY <1>1, <1>2, <1>3

\* Nobody counts up or down on a doomed object.
LEMMA DoomedCount ==
    ASSUME RetireInv, SafeInv, NEW t \in Threads, Begin(t) \/ Call(t), NEW o \in Obj, Doomed(o)
    PROVE  orc'[o].cnt = 0
<1>0. /\ LocalsInv /\ TypeOK /\ DoomedInv /\ OperationInv(t) /\ OperandInv(t) /\ LoopInv(t)
      /\ orc \in [Obj -> Word] /\ orc[o].cnt = 0
      /\ \A i \in Idx : ~Guarded(t, i, o)
  BY SafeFacts DEF ObjType, DoomedInv
<1>1. CASE MakeOrc(t) \/ FreeObj(t)
  <2>1. NewWord.cnt = 0 /\ FreeWord.cnt = 0
    BY DEF NewWord, FreeWord
  <2>2. \E x \in Obj, w \in {NewWord, FreeWord} : orc' = [orc EXCEPT ![x] = w]
    BY <1>0, <1>1 DEF MakeOrc, FreeObj, LoopInv, LoopSteps
  <2> QED  BY <1>0, <2>1, <2>2
<1>2. CASE IncrementOrc(t)
  <2>1. op[t].new # o
    BY <1>0, <1>2, IndexFacts DEF IncrementOrc, OperationInv, Owns, Guarded
  <2>2. orc' = [orc EXCEPT ![op[t].new] = [orc[op[t].new] EXCEPT !.cnt = @ + 1]]
    BY <1>2 DEF IncrementOrc
  <2> QED  BY <1>0, <2>1, <2>2
<1>3. CASE DecrementOrc(t)
  <2>1. dec[t][Level(t)].ptr # o
    BY <1>0, <1>3, IndexFacts DEF DecrementOrc, Guarded, Temporary, Decremented
  <2>2. orc' = [orc EXCEPT ![dec[t][Level(t)].ptr] =
                    [orc[dec[t][Level(t)].ptr] EXCEPT !.cnt = @ - 1, !.seq = @ + 1]]
    BY <1>3 DEF DecrementOrc
  <2> QED  BY <1>0, <2>1, <2>2
<1>4. CASE ~CountSteps(t)
  BY <1>0, <1>4, WhoCounts DEF CountsStay
<1> QED  BY <1>1, <1>2, <1>3, <1>4 DEF CountSteps

\* What nobody may reach stays out of reach.
LEMMA DoomedStep ==
    ASSUME RetireInv, SafeInv, NEW t \in Threads, Begin(t) \/ Call(t), OwnHpStays(t)
    PROVE  DoomedInv'
<1>0. /\ LocalsInv /\ OneRetirer /\ DoomedInv /\ ScanInv(t) /\ ProgramType
      /\ \A u \in Threads : LoopInv(u) /\ OperationInv(u)
      /\ \A u \in Threads \ {t} : Wide(u)
  BY SafeFacts, WideFrame DEF ThreadInv
<1>1. SUFFICES ASSUME NEW o \in Obj, Doomed(o)'
               PROVE  orc'[o].cnt = 0 /\ \A u \in Threads, i \in Idx : ~Guarded(u, i, o)'
  BY DeadStep DEF DoomedInv
<1>2. CASE Doomed(o)
  <2>1. orc'[o].cnt = 0
    BY <1>2, DoomedCount
  <2>2. ASSUME NEW u \in Threads \ {t}, NEW i \in Idx PROVE ~Guarded(u, i, o)'
    <3>1. ~Guarded(u, i, o)
      BY <1>0, <1>2 DEF DoomedInv
    <3> QED  BY <1>0, <3>1 DEF Guarded, Temporary, Carried, Decremented, Suspended, Releasing, Cleared,
             Undecided, Level, Wide, Frame
  <2>3. ASSUME NEW i \in Idx, Guarded(t, i, o)' PROVE FALSE
    <3>1. orc[o].cnt = 0 /\ (\A u \in Threads, j \in Idx : ~Guarded(u, j, o))
      BY <1>0, <1>2 DEF DoomedInv
    <3>2. \A u \in Threads : ~Late(u, o)
      BY <1>0, <3>1, LateOwns, IndexFacts DEF Owns, Guarded
    <3>3. ~(pc[t] = "cbhp" /\ ptr[t] = o)
      <4>1. SUFFICES ASSUME pc[t] = "cbhp", ptr[t] = o PROVE FALSE
        OBVIOUS
      <4>2. /\ o \in alive
            /\ \A u \in Threads : pc[u] \notin GaveUp /\ ptr[u] = o => u = t
        BY <1>0, <4>1, HandLives DEF GaveUp
      <4>3. PICK u \in Threads : ptr[u] = o /\ (Deleting(u) \/ pc[u] = "destroy")
        BY <1>2, <4>2 DEF Doomed
      <4>4. pc[u] \notin GaveUp \cup {"cbhp"}
        BY <4>3 DEF Deleting, DecSteps, GaveUp
      <4> QED  BY <4>1, <4>2, <4>3, <4>4
    <3>4. o \in alive \/ ~MakeOrc(t)
      <4>1. SUFFICES ASSUME MakeOrc(t), o \notin alive PROVE FALSE
        OBVIOUS
      <4>2. pc[t] = "idle" /\ pc'[t] = "newidx" /\ ~Deleting(t)'
        <5>1. pc[t] = "idle" /\ pc'[t] = "newidx"
          BY <1>0, <4>1 DEF MakeOrc, Start, Run, ProgramType
        <5> QED  BY <5>1 DEF Deleting, DecSteps
      <4>3. o \in alive'
        BY <2>3, <3>1, <4>1, <4>2, GuardStep DEF Gained
      <4>4. PICK u \in Threads : ptr'[u] = o /\ (Deleting(u)' \/ pc'[u] = "destroy")
        BY <1>1, <4>3 DEF Doomed
      <4>5. u # t
        BY <4>2, <4>4
      <4>6. ptr[u] = o /\ pc[u] \in DecSteps \cup {"free", "destroy"}
        BY <1>0, <4>4, <4>5 DEF Wide, Frame, Deleting
      <4> QED  BY <1>0, <4>1, <4>6, HandLives DEF GaveUp, DecSteps
    <3>5. Gained(t, i, o)
      BY <2>3, <3>1, GuardStep
    <3> QED  BY <3>1, <3>2, <3>3, <3>4, <3>5, NoGain
  <2> QED  BY <2>1, <2>2, <2>3
<1>3. CASE ~Doomed(o)
  <2>1. o \in alive /\ o \in alive'
    BY <1>3, DeadStep DEF Doomed
  <2>2. PICK u \in Threads : ptr'[u] = o /\ (Deleting(u)' \/ pc'[u] = "destroy")
    BY <1>1, <2>1 DEF Doomed
  <2>3. u = t
    BY <1>0, <1>3, <2>2 DEF Doomed, Deleting, Wide, Frame
  <2>4. pc'[t] = "destroy"
    BY <1>3, <2>2, <2>3, DeletingStep DEF Doomed
  <2>5. /\ CheckWord(t) /\ pc[t] = "check" /\ ptr[t] = o
        /\ orc[o] = lorc[t] /\ lorc[t].cnt = 0 /\ scan[t] = {}
    BY <2>2, <2>3, <2>4, DestroyStep
  <2>6. ~Anchored(t, o)
    BY <2>5 DEF Anchored
  <2>7. \A v \in Threads, i \in Idx : ~Guarded(v, i, o)
    BY <1>0, <2>5, <2>6 DEF ScanInv
  <2>8. /\ \A v \in Threads, i \in Idx : Guarded(v, i, o)' => Guarded(v, i, o)
        /\ orc' = orc
    BY <2>5, ScanStill
  <2> QED  BY <2>5, <2>7, <2>8
<1> QED  BY <1>2, <1>3

\* Every step of a thread under the two conditions keeps SafeInv.
LEMMA SafeStep ==
    ASSUME RetireInv, SafeInv, NEW t \in Threads, Begin(t) \/ Call(t), ScansCover, Hp0Stays
    PROVE  SafeInv'
<1>1. RetireInv'
  BY RetireStepInv
<1>2. OwnHpStays(t)
  BY DEF OwnHpStays, Hp0Stays
<1>3. CountInv' /\ DownInv' /\ DoomedInv'
  BY <1>2, SafeFacts, CountStep, DownStep, DoomedStep
<1>4. TypeOK /\ LocalsInv /\ \A u \in Threads : OperationInv(u) /\ RowInv(u)
  BY SafeFacts DEF ThreadInv, RetireInv, LocalsInv, SafeInv
<1>5. ASSUME NEW u \in Threads
      PROVE  (u < maxThreads' \/ pc'[u] = "idle") /\ HpInv(u)'
  BY <1>2, UsedStep, HpStep
<1>6. /\ OperationInv(t)' /\ RowInv(t)' /\ WordOrderInv(t)' /\ ScanInv(t)'
  BY <1>1, <1>3, <1>4, BeginOperation, CallOperation, RowStep, WordOrderStep, ScanStep
<1>7. ASSUME NEW u \in Threads \ {t}
      PROVE  /\ OperationInv(u)' /\ RowInv(u)' /\ WordOrderInv(u)' /\ ScanInv(u)'
  <2>1. Wide(u) /\ (pc[u] = "scan" => maxHPs' = maxHPs)
    BY <1>4, WideFrame DEF ScansCover
  <2> QED  BY <1>1, <1>2, <1>4, <2>1, OperationFrame, RowFrame, WordOrderFrame, ScanFrame
<1> QED  BY <1>3, <1>5, <1>6, <1>7 DEF SafeInv

\* A step that changes nothing keeps it.
LEMMA SafeStutter ==
    ASSUME SafeInv, UNCHANGED vars
    PROVE  SafeInv'
<1> USE DEF vars, objVars, hpVars, gcVars, decVars, retVars, endVars
<1>1. /\ \A u \in Threads, i \in Idx, o \in Obj : Guarded(u, i, o)' <=> Guarded(u, i, o)
      /\ \A u \in Threads : Deleting(u)' <=> Deleting(u)
      /\ \A u \in Threads, o \in Obj :
           /\ Late(u, o)' <=> Late(u, o)
           /\ Early(u, o)' <=> Early(u, o)
           /\ Owed(u, o)' <=> Owed(u, o)
           /\ OwedInside(u, o)' <=> OwedInside(u, o)
  BY DEF Guarded, Temporary, Carried, Decremented, Suspended, Releasing, Cleared, Undecided, Level,
     Deleting, Late, Early, Owed, OwedInside
<1>2. CountInv'
  <2>1. ASSUME NEW o \in Obj
        PROVE  /\ Links(o)' = Links(o) /\ Lates(o)' = Lates(o) /\ Earlies(o)' = Earlies(o)
               /\ Oweds(o)' = Oweds(o) /\ OwedsInside(o)' = OwedsInside(o)
    BY <1>1 DEF Links, Gone, Lates, Earlies, Oweds, OwedsInside
  <2> QED  BY <2>1 DEF CountInv, SafeInv
<1>3. DownInv'
  BY DEF DownInv, Held, SafeInv
<1>4. DoomedInv'
  BY <1>1 DEF DoomedInv, Doomed, SafeInv
<1>5. ASSUME NEW u \in Threads
      PROVE  /\ u < maxThreads' \/ pc'[u] = "idle"
             /\ HpInv(u)' /\ OperationInv(u)' /\ RowInv(u)' /\ WordOrderInv(u)' /\ ScanInv(u)'
  <2>1. HpInv(u)' /\ RowInv(u)' /\ WordOrderInv(u)' /\ (u < maxThreads' \/ pc'[u] = "idle")
    BY <1>1 DEF HpInv, RowInv, WordOrderInv, SafeInv
  <2>2. OperationInv(u)'
    <3>1. OperationInv(u)
      BY DEF SafeInv
    <3>2. /\ \A o : Owns(u, o)' <=> Owns(u, o)
          /\ \A i \in PtrIdx : NewIdx(u, i)' <=> NewIdx(u, i)
          /\ Undecided(u, Level(u))' <=> Undecided(u, Level(u))
      BY DEF Owns, NewIdx, FreeIdx, Undecided, Level
    <3> QED  BY <3>1, <3>2 DEF OperationInv
  <2>3. ScanInv(u)'
    <3>1. ScanInv(u)
      BY DEF SafeInv
    <3>2. \A o : Anchored(u, o)' <=> Anchored(u, o)
      BY DEF Anchored, Late
    <3>3. \A v \in Threads : Late(v, ptr[u])' <=> Late(v, ptr[u])
      BY DEF Late
    <3>4. \A v \in Threads, i \in Idx : Guarded(v, i, ptr[u])' <=> Guarded(v, i, ptr[u])
      BY DEF Guarded, Temporary, Carried, Decremented, Suspended, Releasing, Cleared, Undecided, Level
    <3> QED  BY <3>1, <3>2, <3>3, <3>4 DEF ScanInv
  <2> QED  BY <2>1, <2>2, <2>3
<1> QED  BY <1>2, <1>3, <1>4, <1>5 DEF SafeInv

\* The initial states have it.
LEMMA InitSafe ==
    ASSUME Init
    PROVE  SafeInv
<1>0. /\ \A t \in Threads : pc[t] = "idle" /\ retTo[t] = "idle" /\ ~retireStarted[t]
      /\ \A t \in Threads, i \in PtrIdx : slot[t][i].ptr = Null
      /\ link = InitLink /\ ~inDestructor
      /\ alive = {o \in Obj : \E c \in Cell : InitLink[c] = o}
  BY DEF Init, NoPtr
<1>1. ASSUME NEW t \in Threads, NEW o \in Obj
      PROVE  /\ ~Late(t, o) /\ ~Early(t, o) /\ ~Owed(t, o) /\ ~OwedInside(t, o) /\ ~Deleting(t)
             /\ \A i \in Idx : ~Guarded(t, i, o)
  BY <1>0, ValueAssumption DEF Late, Early, Owed, OwedInside, Deleting, Guarded, Temporary, Carried,
     Decremented, Suspended, Releasing, Deciding, Cleared
<1>2. ASSUME NEW o \in Obj
      PROVE  Links(o) = LinksTo(InitLink, o) /\ IsFiniteSet(Links(o))
  BY <1>0, <1>1, LinkAssumption DEF Links, LinksTo, Gone
<1>3. ASSUME NEW o \in Obj
      PROVE  orc[o].cnt = Cardinality(Links(o))
  <2>1. CASE o \in alive
    <3>1. orc[o] = [NewWord EXCEPT !.cnt = Cardinality(LinksTo(InitLink, o))]
      BY <2>1 DEF Init
    <3> QED  BY <1>2, <3>1 DEF NewWord
  <2>2. CASE o \notin alive
    <3>1. Links(o) = {}
      BY <1>0, <1>2, <2>2 DEF LinksTo
    <3>2. orc[o] = FreeWord
      BY <2>2 DEF Init
    <3> QED  BY <3>1, <3>2, FS_EmptySet DEF FreeWord, NewWord
  <2> QED  BY <2>1, <2>2
<1>4. CountInv
  <2>1. ASSUME NEW o \in Obj
        PROVE  Cardinality(Lates(o)) = 0 /\ Cardinality(Earlies(o)) = 0 /\ Cardinality(Oweds(o)) = 0
               /\ Cardinality(OwedsInside(o)) = 0
    <3>1. Lates(o) = {} /\ Earlies(o) = {} /\ Oweds(o) = {} /\ OwedsInside(o) = {}
      BY <1>1 DEF Lates, Earlies, Oweds, OwedsInside
    <3> QED  BY <3>1, FS_EmptySet
  <2>2. ASSUME NEW o \in Obj PROVE Cardinality(Links(o)) \in Int
    BY <1>2, FS_CardinalityType
  <2> QED  BY <1>2, <1>3, <2>1, <2>2 DEF CountInv
<1>5. DownInv
  BY <1>0 DEF DownInv
<1>6. DoomedInv
  <2>1. ASSUME NEW o \in Obj, Doomed(o) PROVE orc[o].cnt = 0 /\ link[o] = Null
    <3>1. o \notin alive
      BY <1>0, <1>1, <2>1 DEF Doomed
    <3>2. Links(o) = {}
      BY <1>0, <1>2, <3>1 DEF LinksTo
    <3> QED  BY <1>0, <1>3, <3>1, <3>2, FS_EmptySet, LinkAssumption
  <2> QED  BY <1>1, <2>1 DEF DoomedInv
<1>7. ASSUME NEW t \in Threads
      PROVE  HpInv(t) /\ OperationInv(t) /\ RowInv(t) /\ WordOrderInv(t) /\ ScanInv(t)
  BY <1>0, <1>1 DEF HpInv, OperationInv, RowInv, WordOrderInv, Scanning, ScanInv
<1> QED  BY <1>0, <1>4, <1>5, <1>6, <1>7 DEF SafeInv

\* What the invariant says of the next step of a thread, and of its orc_ptrs.
LEMMA SafeAccesses ==
    ASSUME RetireInv, SafeInv
    PROVE  NoUseAfterFree
<1>1. SUFFICES ASSUME NEW t \in Threads, NEW o \in Obj PROVE (o \in Accesses(t) \cup Held(t)) => o \in alive
  <2>1. ASSUME NEW t \in Threads PROVE Accesses(t) \subseteq Obj /\ Held(t) \subseteq Obj
    <3>1. /\ LocalsInv /\ LoopInv(t) /\ OperandInv(t)
      BY SafeFacts
    <3>2. Held(t) \subseteq Obj
      BY <3>1, HeldType DEF LocalsInv
    <3>a. SUFFICES ASSUME NEW o \in Accesses(t) PROVE o \in Obj
      BY <3>2
    <3>3. CASE pc[t] \in {"read", "xchg"}
      BY <3>3 DEF Accesses
    <3>4. CASE pc[t] \in {"inc", "inccas"}
      BY <3>1, <3>4 DEF Accesses, OperandInv, Ready
    <3>5. CASE pc[t] \in {"clear", "clearcas"}
      BY <3>1, <3>5 DEF Accesses, OperandInv, Ready
    <3>6. CASE pc[t] \in {"decfaa", "deccas"}
      BY <3>1, <3>6 DEF Accesses, OperandInv, Ready, DecSteps
    <3>7. CASE pc[t] \in {"load", "cbfaa", "cbcas", "check", "destroy", "free"}
      BY <3>1, <3>7 DEF Accesses, LoopInv, LoopSteps
    <3>8. CASE pc[t] \notin {"read", "xchg", "inc", "inccas", "clear", "clearcas", "decfaa", "deccas",
                             "load", "cbfaa", "cbcas", "check", "destroy", "free"}
      BY <3>8 DEF Accesses
    <3> QED  BY <3>3, <3>4, <3>5, <3>6, <3>7, <3>8
  <2> QED  BY <1>1, <2>1 DEF NoUseAfterFree
<1>2. /\ DoomedInv /\ OperationInv(t) /\ LocalsInv /\ OneRetirer /\ OperandInv(t) /\ 0 \in Idx
      /\ PtrIdx \subseteq Idx
  BY SafeFacts, IndexFacts
<1>3. Owns(t, o) => o \in alive
  BY <1>2, GuardedLives DEF Owns, Guarded
<1>4. o \in Temporary(t) => o \in alive
  BY <1>2, GuardedLives DEF Guarded
<1>5. o \in Held(t) => o \in alive
  BY <1>3 DEF Held, Owns
<1>6. CASE pc[t] \in {"read", "xchg"}
  BY <1>2, <1>3, <1>5, <1>6 DEF Accesses, OperationInv
<1>7. CASE pc[t] \in {"inc", "inccas"}
  BY <1>2, <1>3, <1>5, <1>7 DEF Accesses, OperationInv
<1>8. CASE pc[t] \in {"clear", "clearcas"}
  <2>1. op[t].from \in PtrIdx
    BY <1>2, <1>8 DEF OperationInv
  <2>2. op[t].old = o => Guarded(t, op[t].from, o)
    BY <1>8, <2>1 DEF Guarded, Cleared
  <2> QED  BY <1>2, <1>5, <1>8, <2>1, <2>2, GuardedLives DEF Accesses
<1>9. CASE pc[t] \in {"decfaa", "deccas"}
  <2>1. dec[t][Level(t)].ptr = o => o \in Temporary(t)
    BY <1>2, <1>9 DEF Temporary, Decremented, Deciding, OperationInv
  <2> QED  BY <1>4, <1>5, <1>9, <2>1 DEF Accesses
<1>10. CASE pc[t] = "cbcas"
  <2>1. ptr[t] = o => o \in Temporary(t)
    BY <1>10 DEF Temporary, Releasing
  <2> QED  BY <1>4, <1>5, <1>10, <2>1 DEF Accesses
<1>11. CASE pc[t] \in {"load", "cbfaa", "check", "destroy", "free"}
  BY <1>2, <1>5, <1>11, HandLives DEF Accesses, GaveUp
<1>12. CASE pc[t] \notin {"read", "xchg", "inc", "inccas", "clear", "clearcas", "decfaa", "deccas",
                          "load", "cbfaa", "cbcas", "check", "destroy", "free"}
  BY <1>5, <1>12 DEF Accesses
<1> QED  BY <1>6, <1>7, <1>8, <1>9, <1>10, <1>11, <1>12

\* ... and what it says of the counts between operations.
LEMMA SafeCounts ==
    ASSUME RetireInv, SafeInv
    PROVE  CountIsLinks
<1>1. SUFFICES ASSUME Quiet, NEW o \in alive
               PROVE  orc[o].cnt = Cardinality({c \in Root \cup alive : link[c] = o})
  BY DEF CountIsLinks
<1>2. /\ CountInv /\ DoomedInv /\ alive \subseteq Obj
      /\ \A t \in Threads : LoopInv(t) /\ pc[t] = "idle"
  BY <1>1 DEF RetireInv, LocalsInv, TypeOK, ObjType, SafeInv, Quiet
<1>3. \A t \in Threads : ~Deleting(t) /\ ~Late(t, o) /\ ~Early(t, o) /\ ~Owed(t, o) /\ ~OwedInside(t, o)
  BY <1>2, IdleShares
<1>4. Links(o) = {c \in Root \cup alive : link[c] = o}
  BY <1>2, <1>3, ValueAssumption DEF Links, Gone, Cell, DoomedInv, Doomed
<1>5. Cardinality(Lates(o)) = 0 /\ Cardinality(Earlies(o)) = 0 /\ Cardinality(Oweds(o)) = 0
      /\ Cardinality(OwedsInside(o)) = 0
  <2>1. Lates(o) = {} /\ Earlies(o) = {} /\ Oweds(o) = {} /\ OwedsInside(o) = {}
    BY <1>3 DEF Lates, Earlies, Oweds, OwedsInside
  <2> QED  BY <2>1, FS_EmptySet
<1>6. Cardinality(Links(o)) \in Int
  BY <1>2, FS_CardinalityType DEF CountInv
<1>7. orc[o].cnt = Cardinality(Links(o)) + Cardinality(Earlies(o)) + Cardinality(Oweds(o))
                    + Cardinality(OwedsInside(o)) - Cardinality(Lates(o))
  BY <1>2 DEF CountInv
<1>8. orc[o].cnt = Cardinality(Links(o))
  BY <1>5, <1>6, <1>7
<1> QED  BY <1>4, <1>8

\* The invariant holds as long as the two conditions do.
THEOREM SafeInvariant == Spec /\ [][ScansCover /\ Hp0Stays]_vars => [](RetireInv /\ SafeInv)
<1>1. Init => RetireInv /\ SafeInv
  BY InitRetire, InitSafe
<1>2. ASSUME RetireInv, SafeInv, [Next]_vars, [ScansCover /\ Hp0Stays]_vars
      PROVE  RetireInv' /\ SafeInv'
  <2>1. CASE UNCHANGED vars
    BY <1>2, <2>1, RetireStutter, SafeStutter
  <2>2. ASSUME NEW t \in Threads, Begin(t) \/ Call(t), ScansCover, Hp0Stays
        PROVE  RetireInv' /\ SafeInv'
    BY <1>2, <2>2, RetireStepInv, SafeStep
  <2> QED  BY <1>2, <2>1, <2>2 DEF Next, Down
<1> QED  BY <1>1, <1>2, PTL DEF Spec

\* For any number of threads, objects and hazardous pointers and for every
\* program: under the two conditions no step of OrcGC touches an object that
\* was deleted, and no orc_ptr points to one.
THEOREM SafeReclamation == Spec /\ [][ScansCover /\ Hp0Stays]_vars => []NoUseAfterFree
<1>1. RetireInv /\ SafeInv => NoUseAfterFree
  BY SafeAccesses
<1> QED  BY <1>1, SafeInvariant, PTL

\* Under the same conditions the count of an object is, between operations,
\* the number of links to it.
THEOREM CountsAreLinks == Spec /\ [][ScansCover /\ Hp0Stays]_vars => []CountIsLinks
<1>1. RetireInv /\ SafeInv => CountIsLinks
  BY SafeCounts
<1> QED  BY <1>1, SafeInvariant, PTL

\* Every step that respects the two conditions keeps the invariant.
THEOREM StepsKeepSafe == Spec => SafeKept
<1>1. RetireInv /\ [Next]_vars => [SafeInv /\ ScansCover /\ Hp0Stays => SafeInv']_vars
  <2>1. SUFFICES ASSUME RetireInv, Next, SafeInv, ScansCover, Hp0Stays PROVE SafeInv' \/ UNCHANGED vars
    OBVIOUS
  <2> QED  BY <2>1, SafeStep DEF Next, Down
<1> QED  BY <1>1, RetireInvariant, PTL DEF Spec, SafeKept

\* A thread that does not come to a retireOne() and assigns to no orc_ptr
\* that it would have to clear().
LEMMA PlainStep ==
    ASSUME LocalsInv, NoAssign, NEW t \in Threads, Begin(t) \/ Call(t), PlainInv(t),
           retcnt'[t] < MaxRetCnt
    PROVE  PlainInv(t)'
<1>0. /\ TypeOK /\ ProgramType /\ RetType /\ ScanType /\ LoopInv(t)
      /\ op[t].old \in Ptr /\ op[t].new \in Ptr /\ ptr[t] \in Ptr
      /\ dec[t][Level(t)].ptr \in Ptr
      /\ \A u \in Threads, i \in Idx : handovers[u][i] \in Ptr
      /\ op[t] \in Operation
  BY LocalTypes DEF LocalsInv, TypeOK, ProgramType
<1>1. CASE Begin(t)
  <2>1. pc[t] = "idle" \/ Shutdown(t)
    BY <1>1 DEF Begin, Register, MakeOrc, Load, Assign, Store, CompareExchange, PoisonCell, CopyPtr,
       DropPtr, Start
  <2>2. retTo' = retTo
    BY <1>1 DEF Begin, Register, MakeOrc, Load, Assign, Store, CompareExchange, PoisonCell, CopyPtr,
       DropPtr, Shutdown, gcVars, retVars
  <2>3. CASE Register(t)
    BY <2>2, <2>3 DEF Register, PlainInv
  <2>4. CASE MakeOrc(t) \/ Load(t) \/ CopyPtr(t)
    <3>1. pc'[t] \in {"newidx", "read"} /\ op'[t].kind \in {"none", "load", "copy"}
      <4>1. CASE MakeOrc(t)
        BY <1>0, <4>1 DEF MakeOrc, Run, ProgramType, NoOp
      <4>2. CASE Load(t)
        BY <1>0, <4>2 DEF Load, Run, ProgramType, NoOp
      <4>3. CASE CopyPtr(t)
        BY <1>0, <4>3 DEF CopyPtr, Run, ProgramType, NoOp
      <4> QED  BY <2>4, <4>1, <4>2, <4>3
    <3> QED  BY <2>2, <3>1 DEF PlainInv, RetireOneSteps
  <2>5. CASE Assign(t)
    <3>1. PICK name \in {"assign", "unmarked"}, c \in Reach(t), i \in PtrIdx :
              /\ Start(t, name)
              /\ Run(t, [NoOp EXCEPT !.kind = "assign", !.cell = c, !.from = i,
                           !.old = IF name = "assign" /\ ~slot[t][i].lnk
                                   THEN slot[t][i].ptr ELSE Null], "read")
      BY <2>5 DEF Assign
    <3>2. name # "assign"
      <4>1. Len(Program[t]) \in Nat /\ ops[t] \in Nat
        BY <1>0 DEF NoAssign, ProgramType
      <4>2. ops[t] + 1 \in 1 .. Len(Program[t]) /\ name \in Program[t][ops[t] + 1]
        BY <3>1, <4>1 DEF Start
      <4> QED  BY <4>2 DEF NoAssign
    <3>3. pc'[t] = "read" /\ op'[t].old = Null
      BY <1>0, <3>1, <3>2 DEF Run, ProgramType, NoOp
    <3> QED  BY <2>2, <3>3 DEF PlainInv, RetireOneSteps
  <2>6. CASE Store(t) \/ CompareExchange(t) \/ DropPtr(t)
    <3>1. pc'[t] \in {"inc", "xchg", "decprotect", "clear", "idle"}
          /\ (op'[t].kind \in {"store", "cas", "none"} \/ (op'[t] = op[t] /\ pc'[t] = "idle"))
      <4>1. CASE Store(t)
        BY <1>0, <4>1 DEF Store, Run, ProgramType, NoOp
      <4>2. CASE CompareExchange(t)
        BY <1>0, <4>2 DEF CompareExchange, Run, ProgramType, NoOp
      <4>3. CASE DropPtr(t)
        <5>1. pc[t] = "idle"
          BY <4>3 DEF DropPtr
        <5>2. PICK i \in PtrIdx : \/ UNCHANGED <<pc, op>>
                                 \/ Run(t, [NoOp EXCEPT !.old = slot[t][i].ptr, !.from = i], "clear")
          BY <4>3 DEF DropPtr
        <5>3. CASE Run(t, [NoOp EXCEPT !.old = slot[t][i].ptr, !.from = i], "clear")
          BY <1>0, <5>3 DEF Run, ProgramType, NoOp
        <5> QED  BY <5>1, <5>2, <5>3
      <4> QED  BY <2>6, <4>1, <4>2, <4>3
    <3> QED  BY <2>2, <3>1 DEF PlainInv, RetireOneSteps
  <2>7. CASE PoisonCell(t) \/ Shutdown(t)
    <3>1. /\ pc'[t] \in {"decprotect", "idle", "sweep", "down"}
          /\ op'[t] = op[t] \/ op'[t] = NoOp
      BY <1>0, <2>7 DEF PoisonCell, Shutdown, Goto, ProgramType
    <3> QED  BY <2>2, <3>1 DEF PlainInv, RetireOneSteps, NoOp
  <2> QED  BY <1>1, <2>3, <2>4, <2>5, <2>6, <2>7 DEF Begin
<1>2. CASE RetireSelf(t) \/ ClearBitFail(t) \/ HandOver(t) \/ FreeObj(t)
  <2>2. \E p \in Ptr : Continue(t, p)
    <3>1. CASE RetireSelf(t)
      BY <1>0, <3>1 DEF RetireSelf, OwnHp
    <3>2. CASE ClearBitFail(t) \/ FreeObj(t)
      BY <3>2 DEF ClearBitFail, FreeObj, Ptr
    <3>3. CASE HandOver(t)
      <4>1. PICK q \in scan[t] : Continue(t, handovers[q[1]][q[2]])
        BY <3>3 DEF HandOver
      <4>2. handovers[q[1]][q[2]] \in Ptr
        BY <1>0, <4>1 DEF ScanType, Place
      <4> QED  BY <4>1, <4>2
    <3> QED  BY <1>2, <3>1, <3>2, <3>3
  <2>3. GoesOn(t) \/ Comes(t)
    BY <1>0, <2>2, ContinueCases
  <2>4. /\ pc'[t] = "load" \/ (pc'[t] = retTo[t] /\ retTo[t] \in Returns)
        /\ retTo'[t] \in {retTo[t], "idle"}
        /\ op'[t] = op[t] \/ op'[t] = NoOp
    BY <1>0, <2>3 DEF GoesOn, Comes, Moves, LoopInv
  <2> QED  BY <2>4 DEF PlainInv, RetireOneSteps, Returns, NoOp
<1>3. CASE ClearCas(t) \/ IncrementCas(t) \/ DecrementCas(t) \/ Sweep(t)
  <2>1. \E l \in {"idle", "xchg", "decprotect", "free", "sweep", "down"}, p \in Ptr :
           Enters(t, p, l) \/ (Moves(t, l) /\ retTo'[t] = retTo[t])
    <3>1. CASE ClearCas(t) \/ IncrementCas(t)
      BY <1>0, <3>1, CasCases DEF ClearCas, IncrementCas, AfterClear, AfterInc, PlainInv, SameRetire
    <3>2. CASE DecrementCas(t)
      BY <1>0, <3>2, CasCases DEF DecrementCas, AfterDec, SameRetire
    <3>3. CASE Sweep(t)
      <4>1. PICK q \in left, l \in {"sweep", "down"} : Retire(t, handovers[q[1]][q[2]], l)
        BY <3>3 DEF Sweep
      <4>2. handovers[q[1]][q[2]] \in Ptr
        BY <1>0, <4>1 DEF ScanType, Place
      <4> QED  BY <1>0, <4>1, <4>2, RetireCases DEF SameRetire
    <3> QED  BY <1>3, <3>1, <3>2, <3>3
  <2> QED  BY <2>1 DEF Enters, Moves, PlainInv, RetireOneSteps, NoOp
<1>4. CASE DecrementOrc(t)
  <2>1. retcnt[t] + 1 # MaxRetCnt
    BY <1>0, <1>4 DEF DecrementOrc, TypeOK, DecType
  <2>2. /\ pc'[t] \in {"deccas", "free", "idle"} /\ (op'[t] = op[t] \/ op'[t] = NoOp)
        /\ retTo' = retTo
    BY <1>0, <1>4, <2>1 DEF DecrementOrc, DecrementTest, Goto, ProgramType, AfterDec, retVars
  <2> QED  BY <2>2 DEF PlainInv, RetireOneSteps, NoOp
<1>5. CASE ResetRetcnt(t) \/ RetireOne(t) \/ Seek(t) \/ SeekHP(t) \/ TakeHandover(t)
  BY <1>5 DEF ResetRetcnt, RetireOne, Seek, SeekHP, TakeHandover, PlainInv, RetireOneSteps
<1>6. CASE GetProtected(t)
  <2>1. \/ pc'[t] = "publish" /\ op'[t].kind = op[t].kind /\ op'[t].old = op[t].old
        \/ pc'[t] = "newidx" /\ op'[t] = op[t]
        \/ pc'[t] = "clear" /\ op'[t] = op[t] /\ op[t].old # Null
    <3>1. CASE Loaded(t)
      BY <1>0, <3>1 DEF Loaded, Goto, ProgramType
    <3>2. CASE Run(t, [op[t] EXCEPT !.ptr = link[op[t].cell]], "publish")
      BY <1>0, <3>2 DEF Run, ProgramType, Operation
    <3> QED  BY <1>6, <3>1, <3>2 DEF GetProtected
  <2>2. retTo' = retTo
    BY <1>6 DEF GetProtected, gcVars, retVars
  <2> QED  BY <2>1, <2>2 DEF PlainInv, RetireOneSteps
<1>7. CASE \/ Publish(t) \/ GetNewIdx(t) \/ ProtectPtr(t) \/ Clear(t)
           \/ IncrementOrc(t) \/ Exchange(t) \/ DecrementProtect(t)
           \/ RetireLoad(t) \/ ClearBitProtect(t) \/ ClearBit(t) \/ ClearBitCas(t)
           \/ ClearBitOk(t) \/ ScanThreads(t) \/ ScanHPs(t) \/ Scan(t) \/ CheckWord(t) \/ Destroy(t)
  <2>1. /\ pc'[t] \notin RetireOneSteps /\ (op'[t] = op[t] \/ op'[t] = NoOp)
        /\ pc'[t] \in {"clear", "clearcas"} => pc[t] = "clear" /\ op'[t] = op[t]
    BY <1>0, <1>7 DEF Publish, GetNewIdx, ProtectPtr, Clear,
        IncrementOrc, Exchange, DecrementProtect, Destroy,
        RetireLoad, ClearBitProtect, ClearBit, ClearBitCas, ClearBitOk, ScanThreads,
        ScanHPs, Scan, CheckWord, TryHandover, Goto, ProgramType, AfterClear, AfterInc, RetireOneSteps
  <2>2. retTo' = retTo
    BY <1>7 DEF Publish, GetNewIdx, ProtectPtr, Clear,
        IncrementOrc, Exchange, DecrementProtect, Destroy,
        RetireLoad, ClearBitProtect, ClearBit, ClearBitCas, ClearBitOk, ScanThreads,
        ScanHPs, Scan, CheckWord, gcVars, retVars
  <2> QED  BY <2>1, <2>2 DEF PlainInv, NoOp
<1> QED  BY <1>1, <1>2, <1>3, <1>4, <1>5, <1>6, <1>7 DEF Call

\* In such a run the conditions hold.
LEMMA PlainRunStep ==
    ASSUME LocalsInv, NoAssign, PlainRun, [Next]_vars, FewDecrements'
    PROVE  PlainRun' /\ [ScansCover /\ Hp0Stays]_vars
<1>1. CASE UNCHANGED vars
  BY <1>1 DEF PlainRun, PlainInv, vars, hpVars, gcVars, retVars
<1>2. ASSUME NEW t \in Threads, Begin(t) \/ Call(t)
      PROVE  PlainRun' /\ ScansCover /\ Hp0Stays
  <2>1. maxHPs' = maxHPs
    <3>1. CASE GetNewIdx(t)
      <4>1. \A i \in PtrIdx : ~(MaxHaz <= i)
        BY HazAssumption DEF PtrIdx
      <4> QED  BY <3>1, <4>1 DEF GetNewIdx, PlainRun
    <3>2. CASE ~GetNewIdx(t)
      BY <1>2, <3>2, WhoWrites
    <3> QED  BY <3>1, <3>2
  <2>2. ASSUME NEW u \in Threads PROVE PlainInv(u)'
    <3>1. CASE u = t
      BY <1>2, <3>1, PlainStep DEF PlainRun, FewDecrements
    <3>2. CASE u # t
      <4>1. Wide(u)
        BY <1>2, <3>2, WideFrame DEF LocalsInv
      <4> QED  BY <4>1 DEF Wide, Frame, PlainRun, PlainInv
    <3> QED  BY <3>1, <3>2
  <2>3. ScansCover
    BY <2>1, HazAssumption DEF ScansCover, PlainRun
  <2>4. Hp0Stays
    BY DEF Hp0Stays, PlainRun, PlainInv
  <2> QED  BY <2>1, <2>2, <2>3, <2>4 DEF PlainRun
<1> QED  BY <1>1, <1>2 DEF Next, Down

\* With every index in use from the start and no such assignment, no object
\* is used after it was deleted before the first retireOne().
THEOREM SafeBeforeRetireOne ==
    ASSUME NoAssign, InitMaxHPs = MaxHaz
    PROVE  Spec /\ []FewDecrements => []NoUseAfterFree
<1>1. Init => PlainRun
  BY DEF Init, PlainRun, PlainInv, RetireOneSteps, NoOp
<1>2. LocalsInv /\ PlainRun /\ [Next]_vars /\ FewDecrements' => PlainRun' /\ [ScansCover /\ Hp0Stays]_vars
  BY PlainRunStep
<1>3. Spec /\ []FewDecrements => [][ScansCover /\ Hp0Stays]_vars
  BY <1>1, <1>2, LocalsInvariant, PTL DEF Spec
<1> QED  BY <1>3, SafeReclamation, PTL
=============================================================================
