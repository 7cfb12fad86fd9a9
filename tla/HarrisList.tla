----------------------------- MODULE HarrisList -----------------------------
(***************************************************************************)
(* lists/HarrisOriginalLinkedListSetOrcGC.hpp.  search() unlinks a chain   *)
(* of marked nodes with one CAS.                                           *)
(***************************************************************************)
EXTENDS ListSet

\* left_node is prev, right_node is curr, and left_node_next is next;
\* right_node_next of remove() is next too.
Add(t) ==
    \E a \in Free(Live) :
        /\ orc
        /\ Call(t, "add", "search", [Locals EXCEPT !.new = a])
        /\ Allocate({a})
        /\ node' = [node EXCEPT ![a] = NewNode(call'[t].arg, Null)]
        /\ UNCHANGED root
Remove(t) == orc /\ CallOf(t, "remove", "search")
Contains(t) == orc /\ CallOf(t, "contains", "search")

(* search(). *)

Right(t, a) == Goto(t, IF a = root.tail THEN "adjacent" ELSE "walk")

Search(t) ==
    LET next == node[root.head].next
    IN  /\ At(t, "search") /\ Right(t, next.to)
        /\ loc' = [loc EXCEPT ![t].prev = root.head, ![t].next = next, ![t].curr = next.to]
        /\ Quiet

\* Over marked nodes and smaller keys.
Walk(t) ==
    LET n == node[loc[t].curr]
    IN  /\ At(t, "walk")
        /\ IF n.next.mark THEN Set(t, "curr", n.next.to) /\ Right(t, n.next.to)
           ELSE IF n.key < call[t].arg
           THEN /\ loc' = [loc EXCEPT ![t].prev = loc[t].curr, ![t].next = n.next,
                                      ![t].curr = n.next.to]
                /\ Right(t, n.next.to)
           ELSE Goto(t, "adjacent") /\ UNCHANGED loc
        /\ Quiet

Adjacent(t) ==
    /\ Step(t, "adjacent", IF loc[t].next.to # loc[t].curr THEN "search_cas"
                           ELSE IF loc[t].curr = root.tail THEN loc[t].then ELSE "check")
    /\ UNCHANGED <<heap, mm>>

SearchCas(t) ==
    CasNext(t, "search_cas", loc[t].prev, loc[t].next, Link(loc[t].curr),
            IF loc[t].curr = root.tail THEN loc[t].then ELSE "check", "search")

\* right_node must not have been marked meanwhile.  (The else that follows
\* this test belongs to it, whatever its indentation says.)
Check(t) ==
    /\ Step(t, "check", IF node[loc[t].curr].next.mark THEN "search" ELSE loc[t].then)
    /\ UNCHANGED <<heap, mm>>

(* What the callers of search() do. *)

End(t, result) == Return(t, result) /\ UNCHANGED <<heap, mm>>

AddLink(t) ==
    /\ Step(t, "found", "add_cas") /\ call[t].op = "add" /\ ~Has(t, loc[t].curr)
    /\ node' = [node EXCEPT ![loc[t].new].next = Link(loc[t].curr)]
    /\ UNCHANGED <<root, mm>>
AddCas(t) ==
    CasNext(t, "add_cas", loc[t].prev, Link(loc[t].curr), Link(loc[t].new), "added", "search")
EndAdd(t) ==
    \/ At(t, "added") /\ End(t, True)
    \/ At(t, "found") /\ call[t].op = "add" /\ Has(t, loc[t].curr) /\ End(t, False)

RemoveNext(t) ==
    LET next == node[loc[t].curr].next
    IN  /\ At(t, "found") /\ call[t].op = "remove" /\ Has(t, loc[t].curr)
        /\ Set(t, "next", next) /\ Goto(t, IF next.mark THEN "search" ELSE "mark")
        /\ Quiet
Mark(t) == CasNext(t, "mark", loc[t].curr, loc[t].next, Marked(loc[t].next), "unlink", "search")
Unlink(t) ==
    CasNext(t, "unlink", loc[t].prev, Link(loc[t].curr), loc[t].next, "removed", "tidy")
\* The search that unlinks the node that the CAS has not.
Tidy(t) == At(t, "tidy") /\ Goto(t, "search") /\ Set(t, "then", "removed") /\ Quiet
EndRemove(t) ==
    \/ At(t, "removed") /\ End(t, True)
    \/ At(t, "found") /\ call[t].op = "remove" /\ ~Has(t, loc[t].curr) /\ End(t, False)

EndContains(t) ==
    At(t, "found") /\ call[t].op = "contains" /\ End(t, Bool(Has(t, loc[t].curr)))

Internal(t) ==
    \/ Search(t) \/ Walk(t) \/ Adjacent(t) \/ SearchCas(t) \/ Check(t)
    \/ AddLink(t) \/ AddCas(t) \/ EndAdd(t)
    \/ RemoveNext(t) \/ Mark(t) \/ Unlink(t) \/ Tidy(t) \/ EndRemove(t)
    \/ EndContains(t)

Next == \E t \in Threads :
    (Add(t) \/ Remove(t) \/ Contains(t) \/ Internal(t)) /\ UNCHANGED fixed

Access(t) ==
    CASE pc[t] \in {"walk", "check", "mark"} -> {loc[t].curr}
      [] pc[t] = "found" -> {loc[t].curr}
      [] pc[t] \in {"search_cas", "add_cas", "unlink"} -> {loc[t].prev}
      [] OTHER -> {}
=============================================================================
