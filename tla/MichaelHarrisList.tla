------------------------- MODULE MichaelHarrisList --------------------------
(***************************************************************************)
(* lists/MichaelHarrisLinkedListSet.hpp and                                *)
(* lists/MichaelHarrisLinkedListSetOrcGC.hpp.                              *)
(***************************************************************************)
EXTENDS ListSet

kHp0 == 0     \* protects next
kHp1 == 1     \* protects curr
kHp2 == 2     \* protects prev

Add(t) == CallOf(t, "add", "find")
Remove(t) == CallOf(t, "remove", "find")
Contains(t) == CallOf(t, "contains", "find")

\* curr becomes a; the hp moves with it.
Advance(t, prev, a) ==
    /\ loc' = [loc EXCEPT ![t].prev = prev, ![t].curr = a]
    /\ Goto(t, IF a = root.tail THEN "absent" ELSE "find_next")

(* find(). *)

Find(t) ==
    LET a == node[root.head].next.to
    IN  /\ At(t, "find") /\ Advance(t, root.head, a)
        /\ Protect(t, kHp1, a)
        /\ UNCHANGED <<heap, monitor>>

FindNext(t) ==
    LET next == node[loc[t].curr].next
    IN  /\ At(t, "find_next") /\ Set(t, "next", next)
        /\ Goto(t, IF next.mark THEN "find_unlink"
                   ELSE IF node[loc[t].curr].key < call[t].arg THEN "find_move"
                   ELSE IF Has(t, loc[t].curr) THEN "found" ELSE "absent")
        /\ Protect(t, kHp0, next.to)
        /\ UNCHANGED <<heap, monitor>>

\* Mutant: the hp of prev stays where it was.
FindMoveNoPrev(t) ==
    /\ At(t, "find_move") /\ Advance(t, loc[t].curr, loc[t].next.to)
    /\ IF orc THEN UNCHANGED mm ELSE CopiesUp(t, <<kHp0, kHp1>>)
    /\ UNCHANGED <<heap, monitor>>

\* curr goes to hp 2, and next to hp 1.
FindMove(t) ==
    /\ At(t, "find_move") /\ Advance(t, loc[t].curr, loc[t].next.to)
    /\ IF orc THEN UNCHANGED mm ELSE CopiesUp(t, <<kHp0, kHp1, kHp2>>)
    /\ UNCHANGED <<heap, monitor>>

FindUnlink(t) ==
    CasNext(t, "find_unlink", loc[t].prev, Link(loc[t].curr), Link(loc[t].next.to),
            "find_retire", "find_same")

FindSame(t) ==
    /\ Step(t, "find_same",
            IF node[loc[t].prev].next = Link(loc[t].next.to) THEN "find_skip" ELSE "find")
    /\ UNCHANGED <<heap, mm>>

FindRetire(t) ==
    /\ Step(t, "find_retire", "find_skip")
    /\ IF orc THEN UNCHANGED mm ELSE Protections(hp, {loc[t].curr})
    /\ UNCHANGED heap

FindSkip(t) ==
    /\ At(t, "find_skip") /\ Advance(t, loc[t].prev, loc[t].next.to)
    /\ IF orc THEN UNCHANGED mm ELSE CopiesUp(t, <<kHp0, kHp1>>)
    /\ UNCHANGED <<heap, monitor>>

(* What the callers of find() do. *)

\* add() makes its node once, and deletes it if the key is there.
AddLink(t) ==
    /\ At(t, "absent") /\ call[t].op = "add" /\ Goto(t, "add_cas")
    /\ \E a \in IF loc[t].new = Null THEN Free(Live) ELSE {loc[t].new} :
         /\ node' = [node EXCEPT ![a] = NewNode(call[t].arg, loc[t].curr)]
         /\ Set(t, "new", a)
         /\ IF loc[t].new = Null THEN Allocate({a}) ELSE UNCHANGED mm
    /\ UNCHANGED <<root, monitor>>

AddCas(t) ==
    CasNext(t, "add_cas", loc[t].prev, Link(loc[t].curr), Link(loc[t].new), "added", "find")

\* Mutant: the mark is set with a store, not a CAS.
MarkStores(t) ==
    /\ call[t].op = "remove" /\ Step(t, "found", "unlink")
    /\ node' = [node EXCEPT ![loc[t].curr].next = Marked(loc[t].next)]
    /\ UNCHANGED <<root, mm>>

Mark(t) ==
    /\ At(t, "found") /\ call[t].op = "remove"
    /\ CasNext(t, "found", loc[t].curr, loc[t].next, Marked(loc[t].next), "unlink", "find")

\* Mutant: the node is retired by who has marked it, whoever unlinks it.
UnlinkRetires(t) ==
    CasNext(t, "unlink", loc[t].prev, Link(loc[t].curr), loc[t].next, "retire", "retire")

Unlink(t) ==
    CasNext(t, "unlink", loc[t].prev, Link(loc[t].curr), loc[t].next, "retire", "removed")

\* clear(), and then delete of a node that was never linked, or retire().
End(t, from, result, R) ==
    /\ At(t, from) /\ Return(t, result)
    /\ Release(t, R)
    /\ UNCHANGED heap
EndAdd(t) ==
    \/ End(t, "added", True, {})
    \/ call[t].op = "add" /\ End(t, "found", False, {loc[t].new} \ {Null})
EndRemove(t) ==
    \/ End(t, "retire", True, {loc[t].curr})
    \/ End(t, "removed", True, {})
    \/ call[t].op = "remove" /\ End(t, "absent", False, {})
EndContains(t) ==
    /\ call[t].op = "contains"
    /\ End(t, "found", True, {}) \/ End(t, "absent", False, {})

FindSteps(t) ==
    \/ Find(t) \/ FindNext(t) \/ FindMove(t) \/ FindUnlink(t) \/ FindSame(t) \/ FindRetire(t)
    \/ FindSkip(t)
AddSteps(t) == AddLink(t) \/ AddCas(t) \/ EndAdd(t)
RemoveSteps(t) == Mark(t) \/ Unlink(t) \/ EndRemove(t)
Internal(t) == FindSteps(t) \/ AddSteps(t) \/ RemoveSteps(t) \/ EndContains(t)

Next == \E t \in Threads :
    (Add(t) \/ Remove(t) \/ Contains(t) \/ Internal(t)) /\ UNCHANGED fixed

Access(t) ==
    CASE pc[t] \in {"find_next", "find_move"} -> {loc[t].curr}
      [] pc[t] \in {"find_unlink", "find_same", "add_cas", "unlink"} -> {loc[t].prev}
      [] pc[t] = "found" /\ call[t].op = "remove" -> {loc[t].curr}
      [] OTHER -> {}
=============================================================================
