------------------------------- MODULE OrcGC --------------------------------
(***************************************************************************)
(* The OrcGC reclamation scheme of trackers/OrcPTP.hpp: the pass-the-      *)
(* pointer engine (class PassThePointerOrcGC) and the operations of        *)
(* orc_atomic and orc_ptr that drive it.                                   *)
(*                                                                         *)
(* Every tracked object has a word _orc: the number of hard links to it, a *)
(* bit BRETIRED and a sequence number that decrementOrc() increments.  The *)
(* thread that sets BRETIRED with a CAS on a word whose count is zero owns *)
(* the retirement of the object.  It deletes the object if no hazardous    *)
(* pointer (hp) protects it, and otherwise leaves it in the handover entry *)
(* beside the hp, taking over whatever object was there.                   *)
(*                                                                         *)
(* Every access to a shared atomic is a step of its own; what no other     *)
(* thread can see is joined to the step before it.  The steps follow a     *)
(* sequentially consistent order.  A thread is a program that calls        *)
(* make_orc, load, store, compare_exchange and poison on the cells it can  *)
(* reach, and copies and drops orc_ptrs, in any order.                     *)
(***************************************************************************)
EXTENDS Integers, Sequences, FiniteSets

CONSTANTS N,          \* how many threads there are: tids 0 .. N-1
          Obj,        \* addresses of tracked objects, used again when freed
          Root,       \* orc_atomic variables that belong to no object
          Null,       \* nullptr
          Poison,     \* the address of g_poisoned
          MaxHaz,     \* MAX_HAZ: entries of a row of hp and of handovers
          MaxRetCnt,  \* MAX_RETCNT: decrements between two retireOne()
          InitMaxHPs, \* maxHPs at the start
          InitLink,   \* the links at the start: a structure already built
          Program     \* bound: operation k of t is any one of Program[t][k]

Threads == 0 .. N-1
Idx == 0 .. MaxHaz-1
PtrIdx == 1 .. MaxHaz-1    \* indices of orc_ptrs; 0 is for temporaries
Place == Threads \X Idx    \* an entry of hp, or of handovers

\* An object has one orc_atomic member, which is named by the object.
Cell == Root \cup Obj

LinksTo(lk, o) == {c \in Cell : lk[c] = o}

ASSUME NAssumption == N \in Nat \ {0}
ASSUME HazAssumption ==
    /\ MaxHaz \in Nat /\ MaxHaz > 1
    /\ InitMaxHPs \in 0 .. MaxHaz
ASSUME ValueAssumption ==
    /\ Null \notin Obj /\ Poison \notin Obj /\ Null # Poison
    /\ Root \cap Obj = {}
ASSUME LinkAssumption ==
    /\ InitLink \in [Cell -> Obj \cup {Null}]
    /\ \A o \in Obj : InitLink[o] # Null => \E c \in Cell : InitLink[c] = o
    /\ \A o \in Obj : IsFiniteSet(LinksTo(InitLink, o))

VARIABLES
    alive,         \* the addresses that hold an object
    orc,           \* the word _orc of every object
    link,          \* the content of every orc_atomic
    hp,            \* hp[t][i]: hazardous pointer i of thread t
    handovers,     \* handovers[t][i]: the object left beside hp[t][i]
    maxHPs,        \* indices from maxHPs on were never used
    maxThreads,    \* ThreadRegistry::getMaxThreads()
    pc,            \* the next step of a thread
    op,            \* the operation it executes, with its locals
    slot,          \* slot[t][i]: the orc_ptr of t whose idx is i
    ops,           \* how many operations it has started
    dec,           \* dec[t][l]: the decrementOrc() it executes
    retcnt,        \* tl[t].retcnt
    seen,          \* local of retireOne(): the handover it has read
    ptr,           \* local of retire(): the object in hand
    lorc,          \* the copy of a word in retire(), incrementOrc(), clear()
    again,         \* clearBitRetired() was called after the scan
    rlist,         \* the part of tl[t].recursiveList not yet taken
    retireStarted, \* tl[t].retireStarted
    retTo,         \* where retire() returns to
    scan,          \* the places that a scan has still to visit
    inDestructor,  \* ~PassThePointerOrcGC() has started
    left           \* the places it has still to visit

objVars == <<alive, orc, link>>
hpVars  == <<hp, handovers, maxHPs, maxThreads>>
decVars == <<dec, retcnt, seen>>
retVars == <<ptr, again, rlist, retireStarted, retTo>>
endVars == <<inDestructor, left>>
gcVars  == <<decVars, retVars, lorc, scan, endVars>>
vars    == <<objVars, hpVars, pc, op, slot, ops, gcVars>>

\* The word: count (relative to ORC_ZERO), BRETIRED and sequence number.
Word == [cnt : Int, ret : BOOLEAN, seq : Nat]
NewWord == [cnt |-> 0, ret |-> FALSE, seq |-> 0]

\* The memory of a deleted object keeps BRETIRED until it is used again.
FreeWord == [NewWord EXCEPT !.ret = TRUE]

IsZero(w) == w.cnt = 0 /\ ~w.ret        \* ocnt(w) == ORC_ZERO
IsCounterZero(w) == w.cnt = 0           \* isCounterZero(w)

Ptr == Obj \cup {Null}

\* The locals of an operation: the cell, the new and the old value, and
\* the pointer on its way to an orc_ptr whose index is to be >= from.
Operation == [kind : {"none", "load", "assign", "store", "cas", "copy"},
              cell : Cell \cup {Null},
              new : Ptr, old : Ptr,
              ptr : Ptr \cup {Poison}, lnk : BOOLEAN, from : Nat]
NoOp  == [kind |-> "none", cell |-> Null, new |-> Null, old |-> Null,
          ptr |-> Null, lnk |-> TRUE, from |-> 1]
NoPtr == [ptr |-> Null, lnk |-> TRUE]
NoDec == [ptr |-> Null, word |-> NewWord]

Labels == {"idle", "read", "publish", "newidx", "protect", "clear", "clearcas",
           "inc", "inccas", "xchg", "decprotect", "decfaa", "deccas", "reset",
           "retireOne", "seek", "seekhp", "take", "self", "load",
           "cbhp", "cbfaa", "cbcas", "cbok", "cbfail",
           "threads", "hps", "scan", "hand", "check", "destroy", "free",
           "sweep", "down"}

ObjType ==
    /\ alive \in SUBSET Obj
    /\ orc \in [Obj -> Word]
    /\ link \in [Cell -> Ptr \cup {Poison}]
HpType ==
    /\ hp \in [Threads -> [Idx -> Ptr \cup {Poison}]]
    /\ handovers \in [Threads -> [Idx -> Ptr]]
    /\ maxHPs \in 0 .. MaxHaz
    /\ maxThreads \in 0 .. N
ProgramType ==
    /\ pc \in [Threads -> Labels]
    /\ op \in [Threads -> Operation]
    /\ slot \in [Threads -> [PtrIdx -> [ptr : Ptr, lnk : BOOLEAN]]]
    /\ ops \in [Threads -> Nat]
DecType ==
    /\ dec \in [Threads -> [{0, 1} -> [ptr : Ptr, word : Word]]]
    /\ retcnt \in [Threads -> Nat]
    /\ seen \in [Threads -> Ptr]
RetType ==
    /\ ptr \in [Threads -> Ptr]
    /\ again \in [Threads -> BOOLEAN]
    /\ rlist \in [Threads -> Seq(Obj)]
    /\ retireStarted \in [Threads -> BOOLEAN]
    /\ retTo \in [Threads -> Labels]
ScanType ==
    /\ lorc \in [Threads -> Word]
    /\ scan \in [Threads -> SUBSET Place]
    /\ inDestructor \in BOOLEAN
    /\ left \in SUBSET Place

TypeOK == ObjType /\ HpType /\ ProgramType /\ DecType /\ RetType /\ ScanType

Init ==
    /\ alive = {o \in Obj : \E c \in Cell : InitLink[c] = o}
    /\ orc = [o \in Obj |-> IF o \in alive
                             THEN [NewWord EXCEPT !.cnt = Cardinality(LinksTo(InitLink, o))]
                             ELSE FreeWord]
    /\ link = InitLink
    /\ hp = [t \in Threads |-> [i \in Idx |-> Null]]
    /\ handovers = [t \in Threads |-> [i \in Idx |-> Null]]
    /\ maxHPs = InitMaxHPs
    /\ maxThreads = 0
    /\ pc = [t \in Threads |-> "idle"]
    /\ op = [t \in Threads |-> NoOp]
    /\ slot = [t \in Threads |-> [i \in PtrIdx |-> NoPtr]]
    /\ ops = [t \in Threads |-> 0]
    /\ dec = [t \in Threads |-> [l \in {0, 1} |-> NoDec]]
    /\ retcnt = [t \in Threads |-> 0]
    /\ seen = [t \in Threads |-> Null]
    /\ ptr = [t \in Threads |-> Null]
    /\ lorc = [t \in Threads |-> NewWord]
    /\ again = [t \in Threads |-> FALSE]
    /\ rlist = [t \in Threads |-> <<>>]
    /\ retireStarted = [t \in Threads |-> FALSE]
    /\ retTo = [t \in Threads |-> "idle"]
    /\ scan = [t \in Threads |-> {}]
    /\ inDestructor = FALSE
    /\ left = {}

-----------------------------------------------------------------------------

\* Goto also forgets the locals of an operation that has returned.
Goto(t, l) ==
    /\ pc' = [pc EXCEPT ![t] = l]
    /\ op' = IF l = "idle" THEN [op EXCEPT ![t] = NoOp] ELSE op

\* Mutant: compare_exchange() forgets decrementOrc(expected).
AfterIncForgets(t) == IF op[t].kind = "store" THEN "xchg" ELSE "idle"

\* What follows incrementOrc(desired): the exchange in store(), and
\* decrementOrc(expected) in compare_exchange(), a no-op for nullptr.
AfterInc(t) ==
    IF op[t].kind = "store" THEN "xchg"
    ELSE IF op[t].old = Null THEN "idle" ELSE "decprotect"

\* What follows clear(): the destructor of an orc_ptr returns, an assignment
\* goes on with the pointer it has loaded.
AfterClear(t) == IF op[t].kind = "assign" THEN "newidx" ELSE "idle"

\* Level 1 is the decrementOrc() called by a destructor inside retire(),
\* level 0 that of an operation.
Level(t) == IF retireStarted[t] THEN 1 ELSE 0
AfterDec(t) == IF retireStarted[t] THEN "free" ELSE "idle"

\* The call retire(p): inside a retire() of the same thread it only adds p
\* to the recursiveList.
Retire(t, p, to) ==
    \/ /\ p = Null
       /\ Goto(t, to)
       /\ UNCHANGED retVars
    \/ /\ p # Null /\ retireStarted[t]
       /\ rlist' = [rlist EXCEPT ![t] = Append(@, p)]
       /\ Goto(t, to)
       /\ UNCHANGED <<ptr, again, retireStarted, retTo>>
    \/ /\ p # Null /\ ~retireStarted[t]
       /\ ptr' = [ptr EXCEPT ![t] = p]
       /\ retTo' = [retTo EXCEPT ![t] = to]
       /\ Goto(t, "self")
       /\ UNCHANGED <<again, rlist, retireStarted>>

\* Mutant: retire() ignores what recursive calls left in the list.
ContinueNoList(t, p) ==
    /\ lorc' = [lorc EXCEPT ![t] = NewWord]
    /\ scan' = [scan EXCEPT ![t] = {}]
    /\ again' = [again EXCEPT ![t] = FALSE]
    /\ ptr' = [ptr EXCEPT ![t] = p]
    /\ retireStarted' = [retireStarted EXCEPT ![t] = (p # Null)]
    /\ IF p # Null THEN Goto(t, "load") /\ UNCHANGED <<rlist, retTo>>
       ELSE /\ rlist' = [rlist EXCEPT ![t] = <<>>]
            /\ retTo' = [retTo EXCEPT ![t] = "idle"]
            /\ Goto(t, retTo[t])

\* The loops of retire(): go on with p, or if it is nullptr with the next
\* object of the recursiveList, or return if there is none.
Continue(t, p) ==
    /\ lorc' = [lorc EXCEPT ![t] = NewWord]
    /\ scan' = [scan EXCEPT ![t] = {}]
    /\ again' = [again EXCEPT ![t] = FALSE]
    /\ \/ /\ p # Null
          /\ ptr' = [ptr EXCEPT ![t] = p]
          /\ retireStarted' = [retireStarted EXCEPT ![t] = TRUE]
          /\ Goto(t, "load")
          /\ UNCHANGED <<rlist, retTo>>
       \/ /\ p = Null /\ rlist[t] # <<>>
          /\ ptr' = [ptr EXCEPT ![t] = Head(rlist[t])]
          /\ rlist' = [rlist EXCEPT ![t] = Tail(@)]
          /\ Goto(t, "load")
          /\ UNCHANGED <<retireStarted, retTo>>
       \/ /\ p = Null /\ rlist[t] = <<>>
          /\ ptr' = [ptr EXCEPT ![t] = Null]
          /\ retireStarted' = [retireStarted EXCEPT ![t] = FALSE]
          /\ retTo' = [retTo EXCEPT ![t] = "idle"]
          /\ Goto(t, retTo[t])
          /\ UNCHANGED rlist

\* The order in which scans visit the places: row by row.
Before(p, q) == p[1] < q[1] \/ (p[1] = q[1] /\ p[2] <= q[2])
First(p, S) == p \in S /\ \A q \in S : Before(p, q)

-----------------------------------------------------------------------------

\* The program.  A thread registers before its first operation.  It can
\* reach the roots and the members of the objects its orc_ptrs hold.
Register(t) ==
    /\ pc[t] = "idle" /\ ~inDestructor
    /\ maxThreads = t
    /\ maxThreads' = t + 1
    /\ UNCHANGED <<objVars, hp, handovers, maxHPs, pc, op, slot, ops, gcVars>>

Held(t) == {slot[t][i].ptr : i \in PtrIdx} \ {Null}
Reach(t) == Root \cup Held(t)

\* The entries of usedHaz that are 0; getNewIdx() takes the lowest.
FreeIdx(t, from) == {i \in PtrIdx : i >= from /\ slot[t][i].ptr = Null}
NewIdx(t, i) ==
    i \in FreeIdx(t, op[t].from) /\ \A j \in FreeIdx(t, op[t].from) : i <= j

Start(t, name) ==
    /\ pc[t] = "idle" /\ ~inDestructor /\ t < maxThreads
    /\ ops[t] < Len(Program[t])
    /\ name \in Program[t][ops[t] + 1]
    /\ ops' = [ops EXCEPT ![t] = @ + 1]

Run(t, operation, l) ==
    /\ op' = [op EXCEPT ![t] = operation]
    /\ pc' = [pc EXCEPT ![t] = l]

MakeOrc(t) ==
    /\ Start(t, "make") /\ FreeIdx(t, 1) # {}
    /\ \E o \in Obj \ alive :
         /\ alive' = alive \cup {o}
         /\ orc' = [orc EXCEPT ![o] = NewWord]
         /\ link' = [link EXCEPT ![o] = Null]
         /\ hp' = [hp EXCEPT ![t][0] = o]
         /\ Run(t, [NoOp EXCEPT !.ptr = o, !.lnk = FALSE], "newidx")
    /\ UNCHANGED <<handovers, maxHPs, maxThreads, slot, gcVars>>

Load(t) ==
    /\ Start(t, "load") /\ FreeIdx(t, 1) # {}
    /\ \E c \in Reach(t) :
         Run(t, [NoOp EXCEPT !.kind = "load", !.cell = c], "read")
    /\ UNCHANGED <<objVars, hpVars, slot, gcVars>>

\* A load() into an orc_ptr that holds an object and whose index no other
\* orc_ptr shares.  operator= ("assign") will call clear() for the old
\* object if it is not known to be linked, setUnmarked() never does.
Assign(t) ==
    /\ \E name \in {"assign", "unmarked"}, c \in Reach(t), i \in PtrIdx :
         /\ Start(t, name)
         /\ slot[t][i].ptr # Null
         /\ Run(t, [NoOp EXCEPT !.kind = "assign", !.cell = c, !.from = i,
                      !.old = IF name = "assign" /\ ~slot[t][i].lnk
                              THEN slot[t][i].ptr ELSE Null], "read")
    /\ UNCHANGED <<objVars, hpVars, slot, gcVars>>

\* store() of an object or, in a program, "reset" with nullptr.
Store(t) ==
    /\ \E c \in Reach(t) :
         \/ /\ Start(t, "store")
            /\ \E v \in Held(t) :
                 Run(t, [NoOp EXCEPT !.kind = "store", !.cell = c, !.new = v], "inc")
         \/ /\ Start(t, "reset")
            /\ Run(t, [NoOp EXCEPT !.kind = "store", !.cell = c], "xchg")
    /\ UNCHANGED <<objVars, hpVars, slot, gcVars>>

\* A compare_exchange() that succeeds; one that fails changes nothing, and
\* neither does one of nullptr by nullptr.
CompareExchange(t) ==
    /\ Start(t, "cas")
    /\ \E c \in Reach(t), e, d \in Held(t) \cup {Null} :
         /\ e # Null \/ d # Null
         /\ link[c] = e
         /\ link' = [link EXCEPT ![c] = d]
         /\ dec' = [dec EXCEPT ![t][0].ptr = e]
         /\ Run(t, [NoOp EXCEPT !.kind = "cas", !.cell = c, !.new = d, !.old = e],
                IF d = Null THEN "decprotect" ELSE "inc")
    /\ UNCHANGED <<alive, orc, hpVars, slot, retcnt, seen, retVars, lorc, scan, endVars>>

\* poison() of the member of an object.  It reads, then stores: the code
\* assumes that nobody else writes the member.
PoisonCell(t) ==
    /\ Start(t, "poison")
    /\ \E c \in Held(t) :
         /\ link' = [link EXCEPT ![c] = Poison]
         /\ IF link[c] \in Obj
            THEN dec' = [dec EXCEPT ![t][0].ptr = link[c]] /\ Goto(t, "decprotect")
            ELSE UNCHANGED dec /\ Goto(t, "idle")
    /\ UNCHANGED <<alive, orc, hpVars, slot, retcnt, seen, retVars, lorc, scan, endVars>>

\* A copy of an orc_ptr to a higher index: operator=(orc_ptr) and
\* setUnmarked() with other.idx < idx.
CopyPtr(t) ==
    /\ Start(t, "copy")
    /\ \E i \in PtrIdx :
         /\ slot[t][i].ptr # Null /\ FreeIdx(t, i + 1) # {}
         /\ Run(t, [NoOp EXCEPT !.kind = "copy", !.ptr = slot[t][i].ptr,
                                !.lnk = slot[t][i].lnk, !.from = i + 1], "newidx")
    /\ UNCHANGED <<objVars, hpVars, slot, gcVars>>

\* The destructor of an orc_ptr, clear(): a pointer that came from a load
\* (lnk) is just forgotten; hp keeps its value until it is overwritten.
DropPtr(t) ==
    /\ pc[t] = "idle" /\ ~inDestructor
    /\ \E i \in PtrIdx :
         /\ slot[t][i].ptr # Null
         /\ slot' = [slot EXCEPT ![t][i] = NoPtr]
         /\ IF slot[t][i].lnk THEN UNCHANGED <<pc, op>>
            ELSE Run(t, [NoOp EXCEPT !.old = slot[t][i].ptr, !.from = i], "clear")
    /\ UNCHANGED <<objVars, hpVars, ops, gcVars>>

-----------------------------------------------------------------------------

\* The value goes to a new orc_ptr, or to one that lets its object go.
Loaded(t) ==
    /\ slot' = IF op[t].kind = "assign" THEN [slot EXCEPT ![t][op[t].from] = NoPtr]
                                        ELSE slot
    /\ Goto(t, IF op[t].old = Null THEN "newidx" ELSE "clear")

\* Mutant: get_protected() does not read the cell again.
GetProtectedOnce(t) ==
    /\ pc[t] = "read"
    /\ LET pub == link[op[t].cell] IN
       IF op[t].ptr = Null /\ pub # Null
       THEN Run(t, [op[t] EXCEPT !.ptr = pub], "publish") /\ UNCHANGED slot
       ELSE Loaded(t)
    /\ UNCHANGED <<objVars, hpVars, ops, gcVars>>

\* get_protected(0, cell): read the cell, publish, until the value stays.
GetProtected(t) ==
    /\ pc[t] = "read"
    /\ LET pub == link[op[t].cell] IN
       IF pub # op[t].ptr
       THEN Run(t, [op[t] EXCEPT !.ptr = pub], "publish") /\ UNCHANGED slot
       ELSE Loaded(t)
    /\ UNCHANGED <<objVars, hpVars, ops, gcVars>>

Publish(t) ==
    /\ pc[t] = "publish"
    /\ hp' = [hp EXCEPT ![t][0] = op[t].ptr]
    /\ Goto(t, "read")
    /\ UNCHANGED <<objVars, handovers, maxHPs, maxThreads, slot, ops, gcVars>>

\* Mutant: an off-by-one in getNewIdx().
GetNewIdxOff(t) ==
    /\ pc[t] = "newidx"
    /\ \E idx \in PtrIdx :
         /\ NewIdx(t, idx)
         /\ maxHPs' = IF maxHPs <= idx + 1 THEN idx + 2 ELSE maxHPs
    /\ Goto(t, "protect")
    /\ UNCHANGED <<objVars, hp, handovers, maxThreads, slot, ops, gcVars>>

\* getNewIdx(): the CAS loop leaves maxHPs no smaller than idx + 1.
GetNewIdx(t) ==
    /\ pc[t] = "newidx"
    /\ \E idx \in PtrIdx :
         /\ NewIdx(t, idx)
         /\ maxHPs' = IF maxHPs <= idx THEN idx + 1 ELSE maxHPs
    /\ Goto(t, "protect")
    /\ UNCHANGED <<objVars, hp, handovers, maxThreads, slot, ops, gcVars>>

\* protect_ptr() and the end of the assignment.  An orc_ptr of nullptr or
\* poison is destroyed at once.
ProtectPtr(t) ==
    /\ pc[t] = "protect"
    /\ \E idx \in PtrIdx :
         /\ NewIdx(t, idx)
         /\ hp' = [hp EXCEPT ![t][idx] = op[t].ptr]
         /\ slot' = IF op[t].ptr \in Obj
                    THEN [slot EXCEPT ![t][idx] = [ptr |-> op[t].ptr, lnk |-> op[t].lnk]]
                    ELSE slot
    /\ Goto(t, "idle")
    /\ UNCHANGED <<objVars, handovers, maxHPs, maxThreads, ops, gcVars>>

\* Mutant: BRETIRED is set without the CAS.
SetRetired(t, o, w, to) ==
    /\ orc' = [orc EXCEPT ![o].ret = TRUE]
    /\ Retire(t, o, to)

\* The CAS that sets BRETIRED, and retire() if it succeeds.
CasRetired(t, o, w, to) ==
    IF orc[o] = w THEN /\ orc' = [orc EXCEPT ![o].ret = TRUE]
                       /\ Retire(t, o, to)
                  ELSE Goto(t, to) /\ UNCHANGED <<orc, retVars>>

\* clear() of a pointer that may never have been linked.
Clear(t) ==
    /\ pc[t] = "clear"
    /\ LET w == orc[op[t].old] IN
       IF IsZero(w) THEN lorc' = [lorc EXCEPT ![t] = w] /\ Goto(t, "clearcas")
                    ELSE UNCHANGED lorc /\ Goto(t, AfterClear(t))
    /\ UNCHANGED <<objVars, hpVars, slot, ops, decVars, retVars, scan, endVars>>

ClearCas(t) ==
    /\ pc[t] = "clearcas"
    /\ CasRetired(t, op[t].old, lorc[t], AfterClear(t))
    /\ lorc' = [lorc EXCEPT ![t] = NewWord]
    /\ UNCHANGED <<alive, link, hpVars, slot, ops, decVars, scan, endVars>>

\* incrementOrc(desired).
IncrementOrc(t) ==
    /\ pc[t] = "inc"
    /\ LET o == op[t].new
           w == [orc[o] EXCEPT !.cnt = @ + 1] IN
       /\ orc' = [orc EXCEPT ![o] = w]
       /\ IF IsZero(w) THEN lorc' = [lorc EXCEPT ![t] = w] /\ Goto(t, "inccas")
                       ELSE UNCHANGED lorc /\ Goto(t, AfterInc(t))
    /\ UNCHANGED <<alive, link, hpVars, slot, ops, decVars, retVars, scan, endVars>>

IncrementCas(t) ==
    /\ pc[t] = "inccas"
    /\ CasRetired(t, op[t].new, lorc[t], AfterInc(t))
    /\ lorc' = [lorc EXCEPT ![t] = NewWord]
    /\ UNCHANGED <<alive, link, hpVars, slot, ops, decVars, scan, endVars>>

\* The exchange of store().
Exchange(t) ==
    /\ pc[t] = "xchg"
    /\ LET old == link[op[t].cell] IN
       /\ link' = [link EXCEPT ![op[t].cell] = op[t].new]
       /\ IF old \in Obj
          THEN dec' = [dec EXCEPT ![t][0].ptr = old] /\ Goto(t, "decprotect")
          ELSE UNCHANGED dec /\ Goto(t, "idle")
    /\ UNCHANGED <<alive, orc, hpVars, slot, ops, retcnt, seen, retVars, lorc, scan, endVars>>

\* decrementOrc(): protect, decrement, every MAX_RETCNT times retireOne(),
\* and then the test of the count.
DecrementProtect(t) ==
    /\ pc[t] = "decprotect"
    /\ hp' = [hp EXCEPT ![t][0] = dec[t][Level(t)].ptr]
    /\ Goto(t, "decfaa")
    /\ UNCHANGED <<objVars, handovers, maxHPs, maxThreads, slot, ops, gcVars>>

DecrementTest(t, d) ==
    IF IsZero(d.word)
    THEN dec' = [dec EXCEPT ![t][Level(t)] = d] /\ Goto(t, "deccas")
    ELSE dec' = [dec EXCEPT ![t][Level(t)] = NoDec] /\ Goto(t, AfterDec(t))

DecrementOrc(t) ==
    /\ pc[t] = "decfaa"
    /\ LET o == dec[t][Level(t)].ptr
           w == [orc[o] EXCEPT !.cnt = @ - 1, !.seq = @ + 1]
           d == [ptr |-> o, word |-> w] IN
       /\ orc' = [orc EXCEPT ![o] = w]
       /\ retcnt' = [retcnt EXCEPT ![t] = @ + 1]
       /\ IF retcnt[t] + 1 = MaxRetCnt
          THEN dec' = [dec EXCEPT ![t][Level(t)] = d] /\ Goto(t, "retireOne")
          ELSE DecrementTest(t, d)
    /\ UNCHANGED <<alive, link, hpVars, slot, ops, seen, retVars, lorc, scan, endVars>>

ResetRetcnt(t) ==
    /\ pc[t] = "reset"
    /\ retcnt' = [retcnt EXCEPT ![t] = 0]
    /\ DecrementTest(t, dec[t][Level(t)])
    /\ UNCHANGED <<objVars, hpVars, slot, ops, seen, retVars, lorc, scan, endVars>>

DecrementCas(t) ==
    /\ pc[t] = "deccas"
    /\ LET d == dec[t][Level(t)] IN CasRetired(t, d.ptr, d.word, AfterDec(t))
    /\ dec' = [dec EXCEPT ![t][Level(t)] = NoDec]
    /\ UNCHANGED <<alive, link, hpVars, slot, ops, retcnt, seen, lorc, scan, endVars>>

-----------------------------------------------------------------------------

\* retireOne(): look for a handover that its hp no longer protects, first
\* in the thread's own row, and retire it.  The exchange may find another
\* object than the one seen, or none.  A row that is registered during the
\* search is left out.
RetireOne(t) ==
    /\ pc[t] = "retireOne"
    /\ scan' = [scan EXCEPT ![t] = {p \in Place : p[1] < maxThreads /\ p[2] < maxHPs}]
    /\ Goto(t, IF maxHPs = 0 THEN "reset" ELSE "seek")
    /\ UNCHANGED <<objVars, hpVars, slot, ops, decVars, retVars, lorc, endVars>>

OwnRowFirst(t, S) == LET own == {p \in S : p[1] = t} IN IF own = {} THEN S ELSE own

SeekNext(t, p) ==
    /\ scan' = [scan EXCEPT ![t] = @ \ {p}]
    /\ Goto(t, IF scan[t] = {p} THEN "reset" ELSE "seek")

Seek(t) ==
    /\ pc[t] = "seek"
    /\ \E p \in scan[t] :
         /\ First(p, OwnRowFirst(t, scan[t]))
         /\ seen' = [seen EXCEPT ![t] = handovers[p[1]][p[2]]]
         /\ IF handovers[p[1]][p[2]] # Null
            THEN Goto(t, "seekhp") /\ UNCHANGED scan
            ELSE SeekNext(t, p)
    /\ UNCHANGED <<objVars, hpVars, slot, ops, dec, retcnt, retVars, lorc, endVars>>

SeekHP(t) ==
    /\ pc[t] = "seekhp"
    /\ \E p \in scan[t] :
         /\ First(p, OwnRowFirst(t, scan[t]))
         /\ IF hp[p[1]][p[2]] # seen[t]
            THEN scan' = [scan EXCEPT ![t] = {p}] /\ Goto(t, "take")
            ELSE SeekNext(t, p)
    /\ seen' = [seen EXCEPT ![t] = Null]
    /\ UNCHANGED <<objVars, hpVars, slot, ops, dec, retcnt, retVars, lorc, endVars>>

\* Mutant: the handover is taken without being removed.
TakeCopy(t) ==
    /\ pc[t] = "take"
    /\ \E p \in scan[t] : Retire(t, handovers[p[1]][p[2]], "reset")
    /\ scan' = [scan EXCEPT ![t] = {}]
    /\ UNCHANGED <<objVars, hpVars, slot, ops, decVars, lorc, endVars>>

TakeHandover(t) ==
    /\ pc[t] = "take"
    /\ \E p \in scan[t] :
         /\ handovers' = [handovers EXCEPT ![p[1]][p[2]] = Null]
         /\ Retire(t, handovers[p[1]][p[2]], "reset")
    /\ scan' = [scan EXCEPT ![t] = {}]
    /\ UNCHANGED <<objVars, hp, maxHPs, maxThreads, slot, ops, decVars, lorc, endVars>>

-----------------------------------------------------------------------------

\* retire(): first hand the object over to an own hp that protects it.  Its
\* read of maxHPs is joined to the exchange: it covers every own orc_ptr.
OwnHp(t) == {i \in Idx : i < maxHPs /\ hp[t][i] = ptr[t]}

RetireSelf(t) ==
    /\ pc[t] = "self"
    /\ \/ /\ ~inDestructor
          /\ \E i \in OwnHp(t) :
               /\ \A j \in OwnHp(t) : i <= j
               /\ handovers' = [handovers EXCEPT ![t][i] = ptr[t]]
               /\ Continue(t, handovers[t][i])
       \/ /\ inDestructor \/ OwnHp(t) = {}
          /\ Continue(t, ptr[t])
          /\ UNCHANGED handovers
    /\ UNCHANGED <<objVars, hp, maxHPs, maxThreads, slot, ops, decVars, endVars>>

\* The head of the loop.  If the count is not zero the thread gives
\* BRETIRED up (clearBitRetired()), else it tries to hand the object over;
\* tryHandover() does nothing in the destructor.
TryHandover == IF inDestructor THEN "check" ELSE "threads"

RetireLoad(t) ==
    /\ pc[t] = "load"
    /\ lorc' = [lorc EXCEPT ![t] = orc[ptr[t]]]
    /\ Goto(t, IF IsCounterZero(orc[ptr[t]]) THEN TryHandover ELSE "cbhp")
    /\ UNCHANGED <<objVars, hpVars, slot, ops, decVars, retVars, scan, endVars>>

\* Mutant: clearBitRetired() does not look at the count again.
ClearBitNoTest(t) ==
    /\ pc[t] = "cbfaa"
    /\ orc' = [orc EXCEPT ![ptr[t]].ret = FALSE]
    /\ Goto(t, "cbfail")
    /\ UNCHANGED <<alive, link, hpVars, slot, ops, decVars, retVars, lorc, scan, endVars>>

\* clearBitRetired(): protect the object, give BRETIRED up, take it back
\* if the count is zero after all, and clear the hp.
ClearBitProtect(t) ==
    /\ pc[t] = "cbhp"
    /\ hp' = [hp EXCEPT ![t][0] = ptr[t]]
    /\ Goto(t, "cbfaa")
    /\ UNCHANGED <<objVars, handovers, maxHPs, maxThreads, slot, ops, gcVars>>

ClearBit(t) ==
    /\ pc[t] = "cbfaa"
    /\ LET w == [orc[ptr[t]] EXCEPT !.ret = FALSE] IN
       /\ orc' = [orc EXCEPT ![ptr[t]] = w]
       /\ lorc' = [lorc EXCEPT ![t] = w]
       /\ Goto(t, IF IsZero(w) THEN "cbcas" ELSE "cbfail")
    /\ UNCHANGED <<alive, link, hpVars, slot, ops, decVars, retVars, scan, endVars>>

ClearBitCas(t) ==
    /\ pc[t] = "cbcas"
    /\ IF orc[ptr[t]] = lorc[t]
       THEN /\ orc' = [orc EXCEPT ![ptr[t]].ret = TRUE]
            /\ lorc' = [lorc EXCEPT ![t].ret = TRUE]
            /\ Goto(t, "cbok")
       ELSE Goto(t, "cbfail") /\ UNCHANGED <<orc, lorc>>
    /\ UNCHANGED <<alive, link, hpVars, slot, ops, decVars, retVars, scan, endVars>>

\* With the bit back, the head of the loop goes on to tryHandover(), the
\* check after the scan starts the loop again.
ClearBitOk(t) ==
    /\ pc[t] = "cbok"
    /\ hp' = [hp EXCEPT ![t][0] = Null]
    /\ Goto(t, IF again[t] THEN "load" ELSE TryHandover)
    /\ again' = [again EXCEPT ![t] = FALSE]
    /\ UNCHANGED <<objVars, handovers, maxHPs, maxThreads, slot, ops, decVars, ptr,
                   lorc, rlist, retireStarted, retTo, scan, endVars>>

\* Mutant: when clearBitRetired() fails the loop goes on.
ClearBitLoop(t) ==
    /\ pc[t] = "cbfail"
    /\ hp' = [hp EXCEPT ![t][0] = Null]
    /\ Goto(t, "load")
    /\ UNCHANGED <<objVars, handovers, maxHPs, maxThreads, slot, ops, gcVars>>

ClearBitFail(t) ==
    /\ pc[t] = "cbfail"
    /\ hp' = [hp EXCEPT ![t][0] = Null]
    /\ Continue(t, Null)
    /\ UNCHANGED <<objVars, handovers, maxHPs, maxThreads, slot, ops, decVars, endVars>>

\* tryHandover(): look in every row for an hp that protects the object.
ScanThreads(t) ==
    /\ pc[t] = "threads"
    /\ scan' = [scan EXCEPT ![t] = {p \in Place : p[1] < maxThreads}]
    /\ Goto(t, "hps")
    /\ UNCHANGED <<objVars, hpVars, slot, ops, decVars, retVars, lorc, endVars>>

\* Mutant: the last index in use is left out of the scan.
ScanHPsShort(t) ==
    /\ pc[t] = "hps"
    /\ scan' = [scan EXCEPT ![t] = {p \in @ : p[2] + 1 < maxHPs}]
    /\ Goto(t, IF maxHPs < 2 THEN "check" ELSE "scan")
    /\ UNCHANGED <<objVars, hpVars, slot, ops, decVars, retVars, lorc, endVars>>

ScanHPs(t) ==
    /\ pc[t] = "hps"
    /\ scan' = [scan EXCEPT ![t] = {p \in @ : p[2] < maxHPs}]
    /\ Goto(t, IF maxHPs = 0 THEN "check" ELSE "scan")
    /\ UNCHANGED <<objVars, hpVars, slot, ops, decVars, retVars, lorc, endVars>>

Scan(t) ==
    /\ pc[t] = "scan"
    /\ \E p \in scan[t] :
         /\ First(p, scan[t])
         /\ IF hp[p[1]][p[2]] = ptr[t]
            THEN scan' = [scan EXCEPT ![t] = {p}] /\ Goto(t, "hand")
            ELSE /\ scan' = [scan EXCEPT ![t] = @ \ {p}]
                 /\ Goto(t, IF scan[t] = {p} THEN "check" ELSE "scan")
    /\ UNCHANGED <<objVars, hpVars, slot, ops, decVars, retVars, lorc, endVars>>

HandOver(t) ==
    /\ pc[t] = "hand"
    /\ \E p \in scan[t] :
         /\ handovers' = [handovers EXCEPT ![p[1]][p[2]] = ptr[t]]
         /\ Continue(t, handovers[p[1]][p[2]])
    /\ UNCHANGED <<objVars, hp, maxHPs, maxThreads, slot, ops, decVars, endVars>>

\* Nobody protects the object: if its word is still the one read before
\* the scan it is deleted, else the loop starts again.
CheckWord(t) ==
    /\ pc[t] = "check"
    /\ LET w == orc[ptr[t]] IN
       /\ Goto(t, IF w = lorc[t] THEN "destroy"
                  ELSE IF IsCounterZero(w) THEN "load" ELSE "cbhp")
       /\ again' = [again EXCEPT ![t] = ~IsCounterZero(w)]
    /\ lorc' = [lorc EXCEPT ![t] = NewWord]
    /\ UNCHANGED <<objVars, hpVars, slot, ops, decVars, ptr, rlist, retireStarted,
                   retTo, scan, endVars>>

\* Mutant: the links of a deleted object are not released.
DestroyLeaks(t) ==
    /\ pc[t] = "destroy"
    /\ Goto(t, "free")
    /\ UNCHANGED <<objVars, hpVars, slot, ops, decVars, retVars, lorc, scan, endVars>>

\* The deleter: ~orc_atomic() of the member decrements what it links to,
\* then the memory is freed.
Destroy(t) ==
    /\ pc[t] = "destroy"
    /\ IF link[ptr[t]] \in Obj
       THEN dec' = [dec EXCEPT ![t][1].ptr = link[ptr[t]]] /\ Goto(t, "decprotect")
       ELSE UNCHANGED dec /\ Goto(t, "free")
    /\ UNCHANGED <<objVars, hpVars, slot, ops, retcnt, seen, retVars, lorc, scan, endVars>>

FreeObj(t) ==
    /\ pc[t] = "free"
    /\ alive' = alive \ {ptr[t]}
    /\ orc' = [orc EXCEPT ![ptr[t]] = FreeWord]
    /\ link' = [link EXCEPT ![ptr[t]] = Null]
    /\ Continue(t, Null)
    /\ UNCHANGED <<hpVars, slot, ops, decVars, endVars>>

-----------------------------------------------------------------------------

\* Mutant: the destructor visits only the row of its own thread.
ShutdownOwnRow(t) ==
    /\ ~inDestructor /\ t < maxThreads
    /\ \A u \in Threads : pc[u] = "idle" /\ Held(u) = {}
    /\ inDestructor' = TRUE
    /\ left' = {p \in Place : p[1] = t /\ p[2] < maxHPs}
    /\ Goto(t, IF maxHPs > 0 THEN "sweep" ELSE "down")
    /\ UNCHANGED <<objVars, hpVars, slot, ops, decVars, retVars, lorc, scan>>

\* ~PassThePointerOrcGC(): the last thread, when the others have ended and
\* every orc_ptr is gone, retires what is left in the handovers.
Shutdown(t) ==
    /\ ~inDestructor /\ t < maxThreads
    /\ \A u \in Threads : pc[u] = "idle" /\ Held(u) = {}
    /\ inDestructor' = TRUE
    /\ left' = {p \in Place : p[1] < maxThreads /\ p[2] < maxHPs}
    /\ Goto(t, IF maxHPs > 0 THEN "sweep" ELSE "down")
    /\ UNCHANGED <<objVars, hpVars, slot, ops, decVars, retVars, lorc, scan>>

Sweep(t) ==
    /\ pc[t] = "sweep"
    /\ \E p \in left :
         /\ First(p, left)
         /\ left' = left \ {p}
         /\ handovers' = [handovers EXCEPT ![p[1]][p[2]] = Null]
         /\ Retire(t, handovers[p[1]][p[2]], IF left = {p} THEN "down" ELSE "sweep")
    /\ UNCHANGED <<objVars, hp, maxHPs, maxThreads, slot, ops, decVars, lorc, scan,
                   inDestructor>>

Down == (\E t \in Threads : pc[t] = "down") /\ UNCHANGED vars

Begin(t) ==
    \/ Register(t) \/ MakeOrc(t) \/ Load(t) \/ Assign(t) \/ Store(t)
    \/ CompareExchange(t) \/ PoisonCell(t) \/ CopyPtr(t) \/ DropPtr(t) \/ Shutdown(t)

\* The steps of a call that has begun.
Call(t) ==
    \/ GetProtected(t) \/ Publish(t) \/ GetNewIdx(t) \/ ProtectPtr(t)
    \/ Clear(t) \/ ClearCas(t)
    \/ IncrementOrc(t) \/ IncrementCas(t) \/ Exchange(t)
    \/ DecrementProtect(t) \/ DecrementOrc(t) \/ ResetRetcnt(t) \/ DecrementCas(t)
    \/ RetireOne(t) \/ Seek(t) \/ SeekHP(t) \/ TakeHandover(t)
    \/ RetireSelf(t) \/ RetireLoad(t)
    \/ ClearBitProtect(t) \/ ClearBit(t) \/ ClearBitCas(t)
    \/ ClearBitOk(t) \/ ClearBitFail(t)
    \/ ScanThreads(t) \/ ScanHPs(t) \/ Scan(t) \/ HandOver(t)
    \/ CheckWord(t) \/ Destroy(t) \/ FreeObj(t) \/ Sweep(t)

Next == (\E t \in Threads : Begin(t) \/ Call(t)) \/ Down

Spec == Init /\ [][Next]_vars

\* A thread inside a call is not suspended for ever.  Nothing obliges a
\* program to call an operation.
FairSpec == Spec /\ \A t \in Threads : WF_vars(Call(t))

-----------------------------------------------------------------------------

\* The objects whose members or word the next step of t reads or writes.
Accesses(t) ==
    CASE pc[t] \in {"read", "xchg"} -> {op[t].cell} \cap Obj
      [] pc[t] \in {"inc", "inccas"} -> {op[t].new}
      [] pc[t] \in {"clear", "clearcas"} -> {op[t].old}
      [] pc[t] \in {"decfaa", "deccas"} -> {dec[t][Level(t)].ptr}
      [] pc[t] \in {"load", "cbfaa", "cbcas", "check", "destroy", "free"} -> {ptr[t]}
      [] OTHER -> {}

\* No step touches an object that was deleted, and no orc_ptr points to
\* one: whatever the threads do with the links, an object is deleted only
\* when no thread can still reach it.
NoUseAfterFree ==
    \A t \in Threads : Accesses(t) \subseteq alive /\ Held(t) \subseteq alive

\* An object whose retirement is under way is in the hand of a thread in
\* retire() that has BRETIRED, in a recursiveList, or in handovers.
InHand(t) == IF pc[t] \in {"cbcas", "cbfail"} THEN Null ELSE ptr[t]

hand == [t \in Threads |-> InHand(t)]

\* x is in none of the hands h, of the handovers v, of the lists l.
NotInHand(x, h)  == \A t \in Threads : h[t] # x
NotInEntry(x, v) == \A t \in Threads, i \in Idx : v[t][i] # x
NotInList(x, l)  == \A t \in Threads : \A k \in DOMAIN l[t] : l[t][k] # x
Fresh(x, h, v, l) == NotInHand(x, h) /\ NotInEntry(x, v) /\ NotInList(x, l)

HandsApart(h) == \A t, u \in Threads : h[t] \in Obj /\ h[t] = h[u] => t = u
EntriesApart(v) ==
    \A t, u \in Threads, i, j \in Idx :
        v[t][i] \in Obj /\ v[t][i] = v[u][j] => t = u /\ i = j
ListsApart(l) ==
    \A t, u \in Threads : \A k \in DOMAIN l[t], m \in DOMAIN l[u] :
        l[t][k] = l[u][m] => t = u /\ k = m

\* No object is in two places.
Exclusive(h, v, l) ==
    /\ HandsApart(h) /\ EntriesApart(v) /\ ListsApart(l)
    /\ \A t \in Threads : h[t] \in Obj => NotInEntry(h[t], v) /\ NotInList(h[t], l)
    /\ \A t \in Threads, i \in Idx : v[t][i] \in Obj => NotInList(v[t][i], l)

\* BRETIRED makes retirement exclusive: an object is in one of the places at
\* most, and then it exists and its bit is set.  So it is never deleted twice,
\* and the fetch_add(-BRETIRED) of clearBitRetired() never borrows.
OneRetirer ==
    /\ Exclusive(hand, handovers, rlist)
    /\ \A o \in Obj : Fresh(o, hand, handovers, rlist) \/ (o \in alive /\ orc[o].ret)

\* The inductive invariant behind OneRetirer.  First, what a thread knows of
\* its locals: where its retire() stands and what it returns to, and that
\* the pointer it is about to follow is the address of an object.
LoopSteps == {"load", "cbhp", "cbfaa", "cbcas", "cbok", "cbfail",
              "threads", "hps", "scan", "hand", "check", "destroy", "free"}
DecSteps  == {"decprotect", "decfaa", "deccas", "reset",
              "retireOne", "seek", "seekhp", "take"}
Returns   == {"idle", "newidx", "xchg", "decprotect", "reset", "sweep", "down"}

LoopInv(t) ==
    /\ pc[t] \in LoopSteps => retireStarted[t]
    /\ retireStarted[t] => pc[t] \in LoopSteps \cup DecSteps
    /\ retireStarted[t] \/ pc[t] = "self" => ptr[t] \in Obj
    /\ ~retireStarted[t] => rlist[t] = <<>>
    /\ ~retireStarted[t] /\ pc[t] # "self" => ptr[t] = Null /\ retTo[t] = "idle"
    /\ retTo[t] \in Returns

\* Ready(t, l, v): step l can run, with the decrementOrc() of level v.
Ready(t, l, v) ==
    /\ l \in DecSteps => dec[t][v].ptr \in Obj
    /\ l \in {"read", "publish", "xchg"} => op[t].cell \in Cell
    /\ l \in {"inc", "inccas"} =>
         /\ op[t].new \in Obj
         /\ op[t].kind = "store" => op[t].cell \in Cell
         /\ op[t].kind # "store" /\ op[t].old # Null => dec[t][0].ptr \in Obj
    /\ l \in {"clear", "clearcas"} => op[t].old \in Obj

OperandInv(t) == Ready(t, pc[t], Level(t)) /\ Ready(t, retTo[t], 0)

\* Then, that a word read before a CAS had BRETIRED clear, and that freed
\* memory has it set, so that no such CAS succeeds on it.
WordInv ==
    /\ \A o \in Obj \ alive : orc[o].ret
    /\ \A t \in Threads :
         /\ pc[t] \in {"inccas", "clearcas", "cbcas"} => ~lorc[t].ret
         /\ pc[t] = "deccas" => ~dec[t][Level(t)].word.ret

LocalsInv == TypeOK /\ \A t \in Threads : LoopInv(t) /\ OperandInv(t)

RetireInv == LocalsInv /\ WordInv /\ OneRetirer

\* Between operations the count of an object is the number of links to it,
\* those of objects that wait for their deletion included.  During them it
\* is not: store() increments early, compare_exchange() increments late.
Quiet == \A t \in Threads : pc[t] = "idle"

CountIsLinks ==
    Quiet => \A o \in alive : orc[o].cnt = Cardinality({c \in Root \cup alive : link[c] = o})

\* Nothing is forgotten: between operations, an object that has no link
\* and no orc_ptr that would clear() it waits in a handover.
NothingForgotten ==
    Quiet => \A o \in alive :
        \/ orc[o].cnt # 0
        \/ \E t \in Threads, i \in PtrIdx : slot[t][i] = [ptr |-> o, lnk |-> FALSE]
        \/ \E t \in Threads, i \in Idx : handovers[t][i] = o

\* The destructor reclaims every object without a link.
AllReclaimed ==
    (\E t \in Threads : pc[t] = "down") => \A o \in alive : orc[o].cnt # 0

\* Why nothing is forgotten.  First, an object with BRETIRED has a retirer.
RetirerInv == \A o \in alive : orc[o].ret => ~Fresh(o, hand, handovers, rlist)

\* A thread with the object o, whose word shows a count of zero, in hand: it
\* has an orc_ptr for which it will call clear(), calls clear(), or has read
\* the word for the CAS that sets BRETIRED, perhaps before a retireOne().
Deciding == {"deccas", "retireOne", "seek", "seekhp", "take", "reset"}
Decides(t, l) ==
    \/ pc[t] \in Deciding /\ l = Level(t)
    \/ retTo[t] = "reset" /\ l = 0

Responsible(t, o) ==
    \/ \E i \in PtrIdx : slot[t][i] = [ptr |-> o, lnk |-> FALSE]
    \/ pc[t] \in {"newidx", "protect"} /\ op[t].ptr = o /\ ~op[t].lnk
    \/ pc[t] = "clear" /\ op[t].old = o
    \/ /\ lorc[t] = orc[o]
       /\ \/ pc[t] = "clearcas" /\ op[t].old = o
          \/ pc[t] = "inccas" /\ op[t].new = o
          \/ pc[t] = "cbcas" /\ ptr[t] = o
    \/ \E l \in {0, 1} : Decides(t, l) /\ dec[t][l] = [ptr |-> o, word |-> orc[o]]

ResponsibleInv == \A o \in alive : IsZero(orc[o]) => \E t \in Threads : Responsible(t, o)

\* An assignment will clear() the old object if it is not linked.  This is
\* where setUnmarked() differs.
ClearsOld(t) ==
    pc[t] \in {"read", "publish"} /\ op[t].kind = "assign" =>
        /\ op[t].from \in PtrIdx
        /\ ~slot[t][op[t].from].lnk => op[t].old = slot[t][op[t].from].ptr

KeptInv == RetirerInv /\ ResponsibleInv /\ \A t \in Threads : ClearsOld(t)

\* The programs whose assignments all do.
NoUnmarked == \A t \in Threads :
    /\ Program[t] \in Seq(SUBSET STRING)
    /\ \A k \in 1 .. Len(Program[t]) : "unmarked" \notin Program[t][k]

\* In the destructor one thread is left, with no orc_ptr.
DownInv ==
    inDestructor =>
        /\ \A t \in Threads : Held(t) = {}
        /\ \A t \in Threads : pc[t] = "idle" \/ pc[t] \in {"sweep", "down"} \/ retTo[t] \in {"sweep", "down"}
        /\ \A t, u \in Threads : pc[t] # "idle" /\ pc[u] # "idle" => t = u

\* The handovers in use are those that the destructor visits, and it has
\* emptied those behind it.
Used(p) == p[1] < maxThreads /\ p[2] < maxHPs
SweepInv ==
    /\ \A t \in Threads, i \in Idx :
         handovers[t][i] # Null => Used(<<t, i>>) /\ (inDestructor => <<t, i>> \in left)
    /\ \A t \in Threads :
         /\ pc[t] # "idle" \/ Held(t) # {} => t < maxThreads
         /\ pc[t] = "hps" => \A p \in scan[t] : p[1] < maxThreads
         /\ pc[t] \in {"scan", "hand"} => \A p \in scan[t] : Used(p)
         /\ inDestructor => pc[t] \notin {"threads", "hps", "scan", "hand"}
         /\ \A l \in {"sweep", "down"} : l \in {pc[t], retTo[t]} => inDestructor
         /\ "down" \in {pc[t], retTo[t]} => left = {}

\* A thread that calls retire() comes back if the others make finitely many
\* calls, as in every Program: what they link or hand over while its loop
\* runs can restart the loop, but not for ever.  The comment on retire()
\* promises more, a bound whatever the others do, which the loop has not.
RetireEnds == \A t \in Threads : pc[t] = "self" ~> ptr[t] = Null

=============================================================================
