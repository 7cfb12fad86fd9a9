----------------------------- MODULE MCOrcGCCases ----------------------------
(***************************************************************************)
(* Instances of OrcGC that are each built for one hazard, with larger      *)
(* structures or more threads than MCOrcGC and with narrower programs.     *)
(***************************************************************************)
EXTENDS Integers, Sequences, FiniteSets, TLC

CONSTANTS Cases, o1, o2, o3, r1, r2, r3, Null, Poison

VARIABLES case, alive, orc, link, hp, handovers, maxHPs, maxThreads, pc, op, slot,
          ops, dec, retcnt, seen, ptr, lorc, again, rlist, retireStarted, retTo,
          scan, inDestructor, left
vars == <<case, alive, orc, link, hp, handovers, maxHPs, maxThreads, pc, op, slot,
          ops, dec, retcnt, seen, ptr, lorc, again, rlist, retireStarted, retTo,
          scan, inDestructor, left>>

\* The link graph l over the cells cs; every other member is nullptr.
Linked(cs, l) == [c \in cs |-> IF c \in DOMAIN l THEN l[c] ELSE Null]
Times(n, S) == [k \in 1 .. n |-> S]

\* Thread 0 empties three roots that thread 1 loads, each into an orc_ptr.
WriterReader == [t \in 0 .. 1 |-> Times(3, {IF t = 0 THEN "reset" ELSE "load"})]
ThreeRoots == Linked({o1, o2, o3, r1, r2, r3}, (r1 :> o1) @@ (r2 :> o2) @@ (r3 :> o3))
Readers == INSTANCE OrcGC WITH
    N <- 2, Obj <- {o1, o2, o3}, Root <- {r1, r2, r3}, MaxHaz <- 4, MaxRetCnt <- 3,
    InitMaxHPs <- 4, InitLink <- ThreeRoots, Program <- WriterReader

\* Both threads walk down a list of three objects and cut it.
WalkAndCut == [t \in 0 .. 1 |->
    Times(2, {"load", "unmarked", "reset", "poison"})
        \o <<IF t = 0 THEN {"reset", "poison"} ELSE {"load", "unmarked", "reset"}>>]
List == Linked({o1, o2, o3, r1}, (r1 :> o1) @@ (o1 :> o2) @@ (o2 :> o3))
Chain == INSTANCE OrcGC WITH
    N <- 2, Obj <- {o1, o2, o3}, Root <- {r1}, MaxHaz <- 3, MaxRetCnt <- 3,
    InitMaxHPs <- 3, InitLink <- List, Program <- WalkAndCut

\* Three threads: the third can act between the scan of one and the
\* hand-over of another.
AnyCall == {"make", "load", "store", "reset", "cas", "poison", "copy", "assign"}
AnyThree == [t \in 0 .. 2 |-> Times(IF t = 0 THEN 2 ELSE 1, AnyCall)]
OneNode == Linked({o1, o2, r1}, r1 :> o1)
Three == INSTANCE OrcGC WITH
    N <- 3, Obj <- {o1, o2}, Root <- {r1}, MaxHaz <- 3, MaxRetCnt <- 2,
    InitMaxHPs <- 3, InitLink <- OneNode, Program <- AnyThree

\* Thread 2 links an object that thread 0 is about to delete, and unlinks
\* it when thread 1 has loaded it.
Relinking == [t \in 0 .. 2 |->
    CASE t = 0 -> <<{"reset"}, {"reset"}>>
      [] t = 1 -> <<{"load"}>>
      [] t = 2 -> <<{"load"}, {"store"}, {"reset"}, {"make"}>>]
TwoRoots == Linked({o1, o2, o3, r1, r2}, (r1 :> o1) @@ (r2 :> o2))
Relink == INSTANCE OrcGC WITH
    N <- 3, Obj <- {o1, o2, o3}, Root <- {r1, r2}, MaxHaz <- 2, MaxRetCnt <- 9,
    InitMaxHPs <- 2, InitLink <- TwoRoots, Program <- Relinking

Init ==
    /\ case \in Cases
    /\ CASE case = "readers" -> Readers!Init
         [] case = "chain" -> Chain!Init
         [] case = "three" -> Three!Init
         [] case = "relink" -> Relink!Init
Next ==
    \/ case = "readers" /\ Readers!Next /\ UNCHANGED case
    \/ case = "chain" /\ Chain!Next /\ UNCHANGED case
    \/ case = "three" /\ Three!Next /\ UNCHANGED case
    \/ case = "relink" /\ Relink!Next /\ UNCHANGED case
Spec == Init /\ [][Next]_vars

\* Addresses and roots are interchangeable: only Init names particular ones.
Symmetry == Permutations({o1, o2, o3}) \cup Permutations({r1, r2, r3})

\* No step touches an object that was deleted, and no orc_ptr points to one,
\* in any of the cases (OrcGC!NoUseAfterFree).
NoUseAfterFree ==
    CASE case = "readers" -> Readers!NoUseAfterFree
      [] case = "chain" -> Chain!NoUseAfterFree
      [] case = "three" -> Three!NoUseAfterFree
      [] case = "relink" -> Relink!NoUseAfterFree

\* An object under retirement is in one hand, list or handover, and its
\* BRETIRED is set (OrcGC!OneRetirer).
OneRetirer ==
    CASE case = "readers" -> Readers!OneRetirer
      [] case = "chain" -> Chain!OneRetirer
      [] case = "three" -> Three!OneRetirer
      [] case = "relink" -> Relink!OneRetirer

\* Between operations the count of an object is the number of links to it
\* (OrcGC!CountIsLinks).
CountIsLinks ==
    CASE case = "readers" -> Readers!CountIsLinks
      [] case = "chain" -> Chain!CountIsLinks
      [] case = "three" -> Three!CountIsLinks
      [] case = "relink" -> Relink!CountIsLinks

\* Between operations an object without a link waits in a handover or for
\* the clear() of its orc_ptr (OrcGC!NothingForgotten).
NothingForgotten ==
    CASE case = "readers" -> Readers!NothingForgotten
      [] case = "chain" -> Chain!NothingForgotten
      [] case = "three" -> Three!NothingForgotten
      [] case = "relink" -> Relink!NothingForgotten

\* The destructor reclaims every object without a link (OrcGC!AllReclaimed).
AllReclaimed ==
    CASE case = "readers" -> Readers!AllReclaimed
      [] case = "chain" -> Chain!AllReclaimed
      [] case = "three" -> Three!AllReclaimed
      [] case = "relink" -> Relink!AllReclaimed

=============================================================================
