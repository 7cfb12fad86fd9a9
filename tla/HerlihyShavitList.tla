-------------------------- MODULE HerlihyShavitList -------------------------
(***************************************************************************)
(* lists/HerlihyShavitHarrisLinkedListSetOrcGC.hpp.  The link of a node    *)
(* that find() has unlinked is poisoned, and contains() may be at it.      *)
(***************************************************************************)
EXTENDS ListSet

\* pred is prev, and succ is next.
Add(t) == orc /\ CallOf(t, "add", "find")
Remove(t) == orc /\ CallOf(t, "remove", "find")
Contains(t) == orc /\ CallOf(t, "contains", "start")

\* pred and curr; what follows when curr is the tail, and when it is not.
Curr(t, pred, a, end, on) ==
    /\ loc' = [loc EXCEPT ![t].prev = pred, ![t].curr = a]
    /\ Goto(t, IF a = root.tail THEN end ELSE on)

(* find(). *)

Find(t) ==
    At(t, "find") /\ Curr(t, root.head, node[root.head].next.to, "found", "succ") /\ Quiet

Succ(t) ==
    LET n == node[loc[t].curr]
    IN  /\ At(t, "succ")
        /\ IF n.next = PoisonLink THEN Goto(t, "find") /\ UNCHANGED loc
           ELSE IF n.next.mark THEN Goto(t, "snip") /\ Set(t, "next", n.next)
           ELSE IF n.key >= call[t].arg THEN Goto(t, "found") /\ UNCHANGED loc
           ELSE Curr(t, loc[t].curr, n.next.to, "found", "succ")
        /\ Quiet

Snip(t) ==
    CasNext(t, "snip", loc[t].prev, Link(loc[t].curr), Link(loc[t].next.to), "poison", "find")

PoisonNext(t) ==
    /\ At(t, "poison") /\ Curr(t, loc[t].prev, loc[t].next.to, "found", "succ")
    /\ node' = [node EXCEPT ![loc[t].curr].next = PoisonLink]
    /\ UNCHANGED <<root, mm, monitor>>

(* The callers of find(). *)

End(t, result) == Return(t, result) /\ UNCHANGED <<heap, mm>>

AddLink(t) ==
    \E a \in Free(Live) :
        /\ At(t, "found") /\ call[t].op = "add" /\ ~Has(t, loc[t].curr)
        /\ Goto(t, "add_cas") /\ Set(t, "new", a)
        /\ Allocate({a})
        /\ node' = [node EXCEPT ![a] = NewNode(call[t].arg, loc[t].curr)]
        /\ UNCHANGED <<root, monitor>>
\* A node that has not been linked is deleted at once.
AddCas(t) ==
    LET linked == node[loc[t].prev].next = Link(loc[t].curr)
    IN  /\ At(t, "add_cas") /\ Goto(t, IF linked THEN "added" ELSE "find")
        /\ node' = IF linked THEN [node EXCEPT ![loc[t].prev].next = Link(loc[t].new)] ELSE node
        /\ Set(t, "new", Null)
        /\ UNCHANGED <<root, mm, monitor>>
EndAdd(t) ==
    \/ At(t, "added") /\ End(t, True)
    \/ At(t, "found") /\ call[t].op = "add" /\ Has(t, loc[t].curr) /\ End(t, False)

RemoveNext(t) ==
    LET next == node[loc[t].curr].next
    IN  /\ At(t, "found") /\ call[t].op = "remove" /\ Has(t, loc[t].curr)
        /\ Set(t, "next", next) /\ Goto(t, IF next.mark THEN "find" ELSE "mark")
        /\ Quiet
Mark(t) == CasNext(t, "mark", loc[t].curr, loc[t].next, Marked(loc[t].next), "unlink", "find")
Unlink(t) ==
    CasNext(t, "unlink", loc[t].prev, Link(loc[t].curr), loc[t].next, "removed", "removed")
EndRemove(t) ==
    \/ At(t, "removed") /\ End(t, True)
    \/ At(t, "found") /\ call[t].op = "remove" /\ ~Has(t, loc[t].curr) /\ End(t, False)

(* contains(). *)

ContainsHead(t) ==
    /\ At(t, "start")
    /\ Curr(t, root.head, node[root.head].next.to, "contains_end", "contains_succ")
    /\ Quiet
\* curr, or the first time its successor, is read; the tail ends the search.
ContainsSucc(t) ==
    /\ At(t, "contains_succ") /\ Set(t, "next", node[loc[t].curr].next)
    /\ Goto(t, IF node[loc[t].curr].key < call[t].arg THEN "contains_walk" ELSE "contains_end")
    /\ Quiet
ContainsWalk(t) ==
    /\ At(t, "contains_walk")
    /\ IF loc[t].next = PoisonLink THEN Goto(t, "start") /\ UNCHANGED loc
       ELSE Curr(t, loc[t].prev, loc[t].next.to, "contains_end", "contains_succ")
    /\ Quiet
EndContains(t) ==
    At(t, "contains_end") /\ End(t, Bool(Has(t, loc[t].curr) /\ ~loc[t].next.mark))

Internal(t) ==
    \/ Find(t) \/ Succ(t) \/ Snip(t) \/ PoisonNext(t)
    \/ AddLink(t) \/ AddCas(t) \/ EndAdd(t)
    \/ RemoveNext(t) \/ Mark(t) \/ Unlink(t) \/ EndRemove(t)
    \/ ContainsHead(t) \/ ContainsSucc(t) \/ ContainsWalk(t) \/ EndContains(t)

Next == \E t \in Threads :
    (Add(t) \/ Remove(t) \/ Contains(t) \/ Internal(t)) /\ UNCHANGED fixed

Access(t) ==
    CASE pc[t] \in {"succ", "mark", "poison", "contains_succ"} -> {loc[t].curr}
      [] pc[t] = "found" -> {loc[t].curr}
      [] pc[t] \in {"snip", "add_cas", "unlink"} -> {loc[t].prev}
      [] OTHER -> {}
=============================================================================
