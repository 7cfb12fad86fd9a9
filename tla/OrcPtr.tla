------------------------------- MODULE OrcPtr -------------------------------
(***************************************************************************)
(* The orc_ptrs of one thread (struct orc_ptr of trackers/OrcPTP.hpp) and  *)
(* their shares of the thread's row of hazardous pointers.                 *)
(*                                                                         *)
(* An orc_ptr holds a pointer and the index of an hp that protects it.     *)
(* Several orc_ptrs may share an index; usedHaz counts them.  An orc_ptr   *)
(* that was moved from has index 0 and must not be read.  Each member      *)
(* function is one action: other threads see only what it stores in hp,    *)
(* and that is one store, besides the one of a load in hp[0], which is an  *)
(* action of its own.  What retire() does to hp[0] is left to OrcGC.       *)
(***************************************************************************)
EXTENDS Integers, FiniteSets

CONSTANTS Var,      \* the orc_ptr variables of the program
          Obj,      \* addresses of tracked objects
          Null,     \* nullptr
          NoTemp,   \* there is no orc_unsafe_internal_ptr
          MaxHaz,   \* MAX_HAZ
          Ops       \* bound: the operations the program uses

Idx == 0 .. MaxHaz-1
PtrIdx == 1 .. MaxHaz-1

ASSUME HazAssumption == MaxHaz \in Nat /\ MaxHaz > 1
ASSUME VarAssumption == IsFiniteSet(Var)
ASSUME ValueAssumption == Null \notin Obj /\ NoTemp \notin Obj /\ Null # NoTemp

VARIABLES live,      \* the variables that are in scope
          ref,       \* the orc_ptr of a variable: ptr, idx and lnk
          temp,      \* the result of a load() on its way to an orc_ptr
          hp,        \* the thread's row of hp
          usedHaz,   \* tl[tid].usedHaz
          status,    \* of objects: see Status
          failed     \* getNewIdx() has found no index

vars == <<live, ref, temp, hp, usedHaz, status, failed>>

\* A "new" object was never linked.  A "retired" one was given to retire().
Status == {"free", "new", "linked", "retired"}
Ptr == Obj \cup {Null}
OrcPtr == [ptr : Ptr, idx : Idx, lnk : BOOLEAN]
NoPtr == [ptr |-> Null, idx |-> 0, lnk |-> TRUE]

TypeOK ==
    /\ live \in SUBSET Var
    /\ ref \in [Var -> OrcPtr]
    /\ temp \in Ptr \cup {NoTemp}
    /\ hp \in [Idx -> Ptr]
    /\ usedHaz \in [Idx -> Nat]
    /\ status \in [Obj -> Status]
    /\ failed \in BOOLEAN

Init ==
    /\ live = {}
    /\ ref = [v \in Var |-> NoPtr]
    /\ temp = NoTemp
    /\ hp = [i \in Idx |-> Null]
    /\ usedHaz = [i \in Idx |-> 0]
    /\ status = [o \in Obj |-> "free"]
    /\ failed = FALSE

-----------------------------------------------------------------------------

\* The variables that may be read: in scope and not moved from.
Held == {v \in live : ref[v].idx # 0}

\* Mutant: cleanIdx() does not leave index 0 alone.
CleanAll(v) == [usedHaz EXCEPT ![ref[v].idx] = @ - 1]

\* usedHaz after cleanIdx(), for a variable whose index is not reused.
Clean(v) == IF ref[v].idx = 0 THEN usedHaz
                              ELSE [usedHaz EXCEPT ![ref[v].idx] = @ - 1]

\* clear(): the last orc_ptr with its index retires an object that is not
\* known to be linked, if it has no link and is not under retirement.
Cleared(v) ==
    IF /\ ref[v].idx # 0 /\ usedHaz[ref[v].idx] = 1
       /\ ~ref[v].lnk /\ ref[v].ptr \in Obj /\ status[ref[v].ptr] = "new"
    THEN [status EXCEPT ![ref[v].ptr] = "retired"]
    ELSE status

\* Mutant: the index is reused although others share it.
SoleAlways(v) == ref[v].idx # 0

\* The index of v is v's own: usedHaz[idx] == 1.
Sole(v) == usedHaz[ref[v].idx] = 1

\* v gets pointer p with index i.
Set(v, p, i, l) == ref' = [ref EXCEPT ![v] = [ptr |-> p, idx |-> i, lnk |-> l]]

\* v gets p and keeps its index.
Keep(v, p, l) ==
    /\ Set(v, p, ref[v].idx, l)
    /\ hp' = [hp EXCEPT ![ref[v].idx] = p]
    /\ UNCHANGED <<usedHaz, failed>>

\* v gets p and the lowest free index from `from' on: getNewIdx() after
\* cleanIdx() has left u in usedHaz, and protect_ptr() if `protect'.
\* Without a free index the assertion of getNewIdx() ends the program.
Take(v, u, from, p, l, protect) ==
    \/ \E i \in PtrIdx :
         /\ i >= from /\ u[i] = 0
         /\ \A j \in PtrIdx : from <= j /\ j < i => u[j] # 0
         /\ usedHaz' = [u EXCEPT ![i] = @ + 1]
         /\ Set(v, p, i, l)
         /\ hp' = IF protect THEN [hp EXCEPT ![i] = p] ELSE hp
         /\ UNCHANGED failed
    \/ /\ \A i \in PtrIdx : i >= from => u[i] # 0
       /\ failed' = TRUE
       /\ UNCHANGED <<usedHaz, ref, hp>>

Start(name) == ~failed /\ name \in Ops

\* No load() is under way: the result is moved to an orc_ptr at once.
Call(name) == Start(name) /\ temp = NoTemp

-----------------------------------------------------------------------------

\* orc_ptr().
Construct(v) ==
    /\ Call("construct") /\ v \notin live
    /\ live' = live \cup {v}
    /\ Take(v, usedHaz, 1, Null, TRUE, FALSE)
    /\ UNCHANGED <<temp, status>>

\* make_orc(): its orc_ptr with index 0 is moved to one with a new index.
MakeOrc(v) ==
    /\ Call("make") /\ v \notin live
    /\ live' = live \cup {v}
    /\ \E o \in Obj :
         /\ status[o] = "free"
         /\ status' = [status EXCEPT ![o] = "new"]
         /\ Take(v, usedHaz, 1, o, FALSE, TRUE)
    /\ UNCHANGED temp

\* load() of an object, or of nullptr: get_protected() with index 0.
Load ==
    /\ \/ /\ Call("load")
          /\ \E o \in Obj : status[o] = "linked" /\ temp' = o /\ hp' = [hp EXCEPT ![0] = o]
       \/ /\ Call("loadnull")
          /\ temp' = Null /\ UNCHANGED hp
    /\ UNCHANGED <<live, ref, usedHaz, status, failed>>

\* orc_ptr(const orc_unsafe_internal_ptr&).
ConstructLoaded(v) ==
    /\ temp # NoTemp /\ Start("load") /\ v \notin live
    /\ live' = live \cup {v}
    /\ temp' = NoTemp
    /\ Take(v, usedHaz, 1, temp, TRUE, TRUE)
    /\ UNCHANGED status

\* operator=(orc_unsafe_internal_ptr&&).
AssignLoaded(v) ==
    /\ temp # NoTemp /\ Start("load") /\ v \in live
    /\ temp' = NoTemp
    /\ IF Sole(v) THEN Keep(v, temp, TRUE) ELSE Take(v, Clean(v), 1, temp, TRUE, TRUE)
    /\ status' = Cleared(v)
    /\ UNCHANGED live

\* setUnmarked(orc_unsafe_internal_ptr&&), without clear() if v keeps its
\* index.
UnmarkLoaded(v) ==
    /\ temp # NoTemp /\ Start("unmark") /\ v \in live
    /\ temp' = NoTemp
    /\ IF Sole(v) THEN Keep(v, temp, TRUE) /\ UNCHANGED status
       ELSE Take(v, Clean(v), 1, temp, TRUE, TRUE) /\ status' = Cleared(v)
    /\ UNCHANGED live

\* orc_ptr(const orc_ptr&): share the index.
Copy(v, w) ==
    /\ Call("copy") /\ v \notin live /\ w \in Held
    /\ live' = live \cup {v}
    /\ usedHaz' = [usedHaz EXCEPT ![ref[w].idx] = @ + 1]
    /\ ref' = [ref EXCEPT ![v] = ref[w]]
    /\ UNCHANGED <<temp, hp, status, failed>>

\* Mutant: the orc_ptr that was moved from keeps its index.
MoveKeeps(v, w) ==
    /\ Call("move") /\ v \notin live /\ w \in Held
    /\ live' = live \cup {v}
    /\ ref' = [ref EXCEPT ![v] = ref[w]]
    /\ UNCHANGED <<temp, hp, usedHaz, status, failed>>

\* orc_ptr(orc_ptr&&): steal the index.
Move(v, w) ==
    /\ Call("move") /\ v \notin live /\ w \in Held
    /\ live' = live \cup {v}
    /\ ref' = [ref EXCEPT ![v] = ref[w], ![w].idx = 0]
    /\ UNCHANGED <<temp, hp, usedHaz, status, failed>>

\* Mutant: any free index will do for a copy.
AboveAny(w) == 1

\* A copy goes to a higher index, as scans go from low to high.
Above(w) == ref[w].idx + 1

\* What operator=(const orc_ptr&) and operator=(orc_ptr&&) share: if w has
\* the lower index its pointer is copied to the index of v, or to a new one.
CopyUp(v, w) ==
    /\ ref[w].idx < ref[v].idx
    /\ IF Sole(v) THEN Keep(v, ref[w].ptr, ref[w].lnk)
       ELSE Take(v, Clean(v), Above(w), ref[w].ptr, ref[w].lnk, TRUE)

\* operator=(const orc_ptr&) and setUnmarked(orc_ptr&).
Assign(v, w) ==
    /\ Call("assign") /\ v \in live /\ w \in Held
    /\ \/ CopyUp(v, w)
       \/ /\ ref[w].idx >= ref[v].idx
          /\ usedHaz' = [Clean(v) EXCEPT ![ref[w].idx] = @ + 1]
          /\ ref' = [ref EXCEPT ![v] = ref[w]]
          /\ UNCHANGED <<hp, failed>>
    /\ status' = Cleared(v)
    /\ UNCHANGED <<live, temp>>

\* Mutant: the old object is not cleared.
MoveAssignNoClear(v, w) ==
    /\ Call("moveassign") /\ v # w /\ v \in live /\ w \in Held
    /\ \/ CopyUp(v, w)
       \/ /\ ref[w].idx >= ref[v].idx
          /\ usedHaz' = Clean(v)
          /\ ref' = [ref EXCEPT ![v] = ref[w], ![w].idx = 0]
          /\ UNCHANGED <<hp, failed>>
    /\ UNCHANGED <<live, temp, status>>

\* operator=(orc_ptr&&), of another orc_ptr.
MoveAssign(v, w) ==
    /\ Call("moveassign") /\ v # w /\ v \in live /\ w \in Held
    /\ \/ CopyUp(v, w)
       \/ /\ ref[w].idx >= ref[v].idx
          /\ usedHaz' = Clean(v)
          /\ ref' = [ref EXCEPT ![v] = ref[w], ![w].idx = 0]
          /\ UNCHANGED <<hp, failed>>
    /\ status' = Cleared(v)
    /\ UNCHANGED <<live, temp>>

\* swapPtrs(): lnk stays behind.  The data structures swap loaded pointers.
SwapPtrs(v, w) ==
    /\ Call("swap") \/ (Call("swapalike") /\ ref[v].lnk = ref[w].lnk)
    /\ v # w /\ v \in Held /\ w \in Held
    /\ ref' = [ref EXCEPT ![v] = [ref[w] EXCEPT !.lnk = ref[v].lnk],
                          ![w] = [ref[v] EXCEPT !.lnk = ref[w].lnk]]
    /\ UNCHANGED <<live, temp, hp, usedHaz, status, failed>>

\* ~orc_ptr().
Destroy(v) ==
    /\ ~failed /\ temp = NoTemp /\ v \in live
    /\ live' = live \ {v}
    /\ ref' = [ref EXCEPT ![v] = NoPtr]
    /\ usedHaz' = Clean(v)
    /\ status' = Cleared(v)
    /\ UNCHANGED <<temp, hp, failed>>

-----------------------------------------------------------------------------

\* A store() or a compare_exchange() that links the object of v.
Link(v) ==
    /\ Call("make") /\ v \in Held
    /\ ref[v].ptr \in Obj /\ status[ref[v].ptr] = "new"
    /\ status' = [status EXCEPT ![ref[v].ptr] = "linked"]
    /\ UNCHANGED <<live, ref, temp, hp, usedHaz, failed>>

\* What other threads may do at any time: create and link an object; unlink
\* and delete one, or delete a retired one, when no hp of the thread has it.
Publish(o) ==
    /\ ~failed /\ status[o] = "free"
    /\ status' = [status EXCEPT ![o] = "linked"]
    /\ UNCHANGED <<live, ref, temp, hp, usedHaz, failed>>

Reclaim(o) ==
    /\ ~failed
    /\ status[o] \in {"linked", "retired"} /\ \A i \in Idx : hp[i] # o
    /\ status' = [status EXCEPT ![o] = "free"]
    /\ UNCHANGED <<live, ref, temp, hp, usedHaz, failed>>

Stopped == failed /\ UNCHANGED vars

One(v) ==
    \/ Construct(v) \/ MakeOrc(v) \/ ConstructLoaded(v) \/ AssignLoaded(v)
    \/ UnmarkLoaded(v) \/ Destroy(v) \/ Link(v)
Two(v, w) ==
    Copy(v, w) \/ Move(v, w) \/ Assign(v, w) \/ MoveAssign(v, w) \/ SwapPtrs(v, w)

Next ==
    \/ \E v \in Var : One(v)
    \/ \E v, w \in Var : Two(v, w)
    \/ Load
    \/ \E o \in Obj : Publish(o) \/ Reclaim(o)
    \/ Stopped

Spec == Init /\ [][Next]_vars

-----------------------------------------------------------------------------

Users(i) == {v \in live : ref[v].idx = i}

\* usedHaz counts the orc_ptrs that share an index, through every copy, move
\* and assignment: no index is freed too early, and none leaks.
UsedIsCount == \A i \in PtrIdx : usedHaz[i] = Cardinality(Users(i))

\* The hp at the index of an orc_ptr holds its pointer, so that its object
\* is not deleted, whatever happens to the orc_ptrs it shares the index with.
HeldIsSafe ==
    \A v \in Held : ref[v].ptr \in Obj =>
        hp[ref[v].idx] = ref[v].ptr /\ status[ref[v].ptr] # "free"

\* The inductive invariant behind UsedIsCount and HeldIsSafe: index 0 is
\* never counted, a variable out of scope has no index, and the object of
\* a load that has not reached its orc_ptr is safe in hp[0].
ScopeInv == usedHaz[0] = 0 /\ \A v \in Var \ live : ref[v].idx = 0
TempIsSafe == temp \in Obj => hp[0] = temp /\ status[temp] # "free"

PtrInv == TypeOK /\ UsedIsCount /\ HeldIsSafe /\ ScopeInv /\ TempIsSafe

\* "Only called when the ptr comes from an already published pointer in a
\* lower index" (protect_ptr()): an hp that changes gets the result of a
\* load, a new object, or a copy from below, which an upward scan finds.
CopiesGoUp ==
    [][\A i \in PtrIdx : hp'[i] # hp[i] =>
         \/ hp'[i] = Null \/ hp'[i] = temp \/ status[hp'[i]] = "free"
         \/ \E j \in Idx : j < i /\ hp[j] = hp'[i]]_vars

\* clear() will see the new object o when the orc_ptr v goes.
Watches(v, o) == v \in Held /\ ref[v].ptr = o /\ ~ref[v].lnk
Watched(o) == status[o] = "new" /\ \E v \in Var : Watches(v, o)

\* A new object is linked or retired before the last orc_ptr that would clear
\* it goes: only setUnmarked() of a load may forget it.
OnlyUnmarkForgets ==
    [][\A o \in Obj : Watched(o) /\ status'[o] = "new" /\ ~failed' =>
         Watched(o)' \/ \E v \in Var : UnmarkLoaded(v)]_vars

\* A thread runs out of indices only if it has more orc_ptrs than indices.
EnoughIndices == failed => Cardinality(live) > MaxHaz - 1

=============================================================================
