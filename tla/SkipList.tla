------------------------------ MODULE SkipList ------------------------------
(***************************************************************************)
(* skiplists/HerlihyShavitLockFreeSkipListOrcGC.hpp and its older form     *)
(* HerlihyShavitLockFreeSkipListOrcGCOrig.hpp: sorted lists, one for each  *)
(* level, of which the bottom one has all nodes.  The first poisons the    *)
(* link of a node that find() has unlinked on a level.                     *)
(***************************************************************************)
EXTENDS LockFree

CONSTANTS MaxLevel,   \* MAX_LEVEL
          Filled      \* bound: the keys that have been added at the start, in order

Level == 0 .. MaxLevel
Link(a) == [to |-> a, mark |-> FALSE]
Marked(l) == [l EXCEPT !.mark = TRUE]
PoisonLink == [to |-> Poison, mark |-> TRUE]
NewNode(k, hgt, succs) ==
    [key |-> k, topLevel |-> hgt,
     next |-> [l \in Level |-> Link(IF l <= hgt THEN succs[l] ELSE Null)]]

\* root.poisons tells the two files apart.
HeadNode == 1
TailNode == 2
Links(a) == {node[a].next[l].to : l \in Level}
NoNodes == [l \in Level |-> Null]
Locals == [level |-> 0, at |-> 0, pred |-> Null, curr |-> Null, succ |-> Link(Null), preds |-> NoNodes,
           succs |-> NoNodes, new |-> Null, top |-> 0, victim |-> Null, then |-> "found"]
Held(t) == IF At(t, "idle") THEN {}
           ELSE {loc[t].pred, loc[t].curr, loc[t].succ.to, loc[t].new, loc[t].victim}
                \cup {loc[t].preds[l] : l \in Level} \cup {loc[t].succs[l] : l \in Level}
Live == Reach({root.head, root.tail} \cup UNION {Held(t) : t \in Threads}, Links)

\* The constructor, and addAll() of Filled with nodes of the bottom level
\* and of all levels in turn.
Init ==
    LET n == Len(Filled)
        Top(a) == IF a % 2 = 0 THEN 0 ELSE MaxLevel
        Next(a, l) == CHOOSE b \in 2 .. n+2 :
                        LET after == {c \in 3 .. n+2 : c > a /\ Top(c) >= l}
                        IN  IF after = {} THEN b = TailNode
                            ELSE b \in after /\ \A c \in after : b <= c
    IN  /\ orc = TRUE
        /\ Start({Filled[i] : i \in 1 .. n})
        /\ mem = [a \in Addr |-> IF a <= n + 2 THEN "used" ELSE "none"]
        /\ \E p \in {TRUE, FALSE} : root = [head |-> HeadNode, tail |-> TailNode, poisons |-> p]
        /\ node = [a \in Addr |->
             CASE a = HeadNode -> NewNode(Null, MaxLevel, [l \in Level |-> Next(a, l)])
               [] a \in 3 .. n+2 -> NewNode(Filled[a-2], Top(a), [l \in Level |-> Next(a, l)])
               [] OTHER -> NewNode(Null, MaxLevel, NoNodes)]

Set(t, x, v) == loc' = [loc EXCEPT ![t][x] = v]
Quiet == UNCHANGED <<heap, mm, monitor>>
SetNext(a, l, v) == node' = [node EXCEPT ![a].next[l] = v]
\* A CAS of the link of node a on level l: what it does, and where t goes.
CasNext(t, from, a, l, old, new, success, failure) ==
    /\ Step(t, from, IF node[a].next[l] = old THEN success ELSE failure)
    /\ IF node[a].next[l] = old THEN SetNext(a, l, new) ELSE UNCHANGED node
    /\ UNCHANGED <<root, mm>>
Has(t, a) == a # root.tail /\ node[a].key = call[t].arg

-----------------------------------------------------------------------------

\* add() takes a random level.
Add(t) == \E hgt \in Level :
    Call(t, "add", "find", [Locals EXCEPT !.top = hgt, !.then = "add"]) /\ UNCHANGED <<heap, mm>>
Remove(t) ==
    Call(t, "remove", "find", [Locals EXCEPT !.then = "remove"]) /\ UNCHANGED <<heap, mm>>
Contains(t) == Call(t, "contains", "start", Locals) /\ UNCHANGED <<heap, mm>>

(* find(); then t goes to loc[t].then. *)

Find(t) ==
    /\ At(t, "find") /\ Goto(t, "find_level")
    /\ loc' = [loc EXCEPT ![t].pred = root.head, ![t].level = MaxLevel]
    /\ Quiet

\* t has pred and curr on its level.
Descend(t, pred, curr) ==
    LET l == loc[t].level
    IN  /\ loc' = [loc EXCEPT ![t].pred = pred, ![t].curr = curr, ![t].preds[l] = pred,
                              ![t].succs[l] = curr, ![t].level = IF l = 0 THEN 0 ELSE l - 1]
        /\ Goto(t, IF l = 0 THEN loc[t].then ELSE "find_level")
\* curr becomes a.
Walk(t, pred, a) ==
    IF a = root.tail THEN Descend(t, pred, a)
    ELSE /\ loc' = [loc EXCEPT ![t].pred = pred, ![t].curr = a]
         /\ Goto(t, "find_succ")

FindLevel(t) ==
    LET next == node[loc[t].pred].next[loc[t].level]
    IN  /\ At(t, "find_level")
        /\ IF next.mark THEN Goto(t, "find") /\ UNCHANGED loc ELSE Walk(t, loc[t].pred, next.to)
        /\ Quiet

FindSucc(t) ==
    LET n == node[loc[t].curr]
        succ == n.next[loc[t].level]
    IN  /\ At(t, "find_succ")
        /\ IF succ = PoisonLink THEN Goto(t, "find") /\ UNCHANGED loc
           ELSE IF succ.mark THEN Goto(t, "snip") /\ Set(t, "succ", succ)
           ELSE IF n.key < call[t].arg THEN Walk(t, loc[t].curr, succ.to)
           ELSE Descend(t, loc[t].pred, loc[t].curr)
        /\ Quiet

Snip(t) ==
    CasNext(t, "snip", loc[t].pred, loc[t].level, Link(loc[t].curr), Link(loc[t].succ.to),
            IF root.poisons THEN "poison" ELSE "find_reload", "find")

PoisonNext(t) ==
    /\ Step(t, "poison", "find_reload")
    /\ SetNext(loc[t].curr, loc[t].level, PoisonLink)
    /\ UNCHANGED <<root, mm>>

\* The older form takes the node, whatever the mark of the link.
FindReload(t) ==
    LET next == node[loc[t].pred].next[loc[t].level]
    IN  /\ At(t, "find_reload")
        /\ IF next.mark /\ root.poisons THEN Goto(t, "find") /\ UNCHANGED loc
           ELSE Walk(t, loc[t].pred, next.to)
        /\ Quiet

-----------------------------------------------------------------------------

End(t, r) == Return(t, r) /\ UNCHANGED <<heap, mm>>

AddNode(t) ==
    /\ At(t, "add") /\ ~Has(t, loc[t].succs[0]) /\ Goto(t, "add_cas")
    /\ \E a \in Free(Live) :
         /\ Allocate({a})
         /\ node' = [node EXCEPT ![a] = NewNode(call[t].arg, loc[t].top, loc[t].succs)]
         /\ Set(t, "new", a)
    /\ UNCHANGED <<root, monitor>>

\* add() goes on with level l; find() comes back there.
Above(t, l) ==
    LET to == IF l > loc[t].top THEN "added" ELSE IF root.poisons THEN "add_next" ELSE "add_link"
    IN  loc' = [loc EXCEPT ![t].at = l, ![t].then = to] /\ Goto(t, to)

\* The key is in the set when its node is on the bottom level.
AddCas(t) ==
    /\ At(t, "add_cas")
    /\ IF node[loc[t].preds[0]].next[0] = Link(loc[t].succs[0])
       THEN SetNext(loc[t].preds[0], 0, Link(loc[t].new)) /\ Above(t, 1)
       ELSE Goto(t, "find") /\ Set(t, "new", Null) /\ UNCHANGED node
    /\ UNCHANGED <<root, mm, monitor>>

\* Is the node being removed?  If not, its link must be that of the last find().
AddNext(t) ==
    LET next == node[loc[t].new].next[loc[t].at]
    IN  /\ At(t, "add_next") /\ Set(t, "succ", next)
        /\ Goto(t, IF next.mark THEN "add_poison" ELSE "add_fix")
        /\ Quiet
AddFix(t) ==
    CasNext(t, "add_fix", loc[t].new, loc[t].at, loc[t].succ, Link(loc[t].succs[loc[t].at]),
            "add_link", "add_poison")
AddPoison(t) ==
    /\ At(t, "add_poison") /\ Above(t, loc[t].at + 1)
    /\ SetNext(loc[t].new, loc[t].at, PoisonLink)
    /\ UNCHANGED <<root, mm, monitor>>
AddLink(t) ==
    LET l == loc[t].at
    IN  /\ At(t, "add_link")
        /\ IF node[loc[t].preds[l]].next[l] = Link(loc[t].succs[l])
           THEN SetNext(loc[t].preds[l], l, Link(loc[t].new)) /\ Above(t, l + 1)
           ELSE Goto(t, "find") /\ UNCHANGED <<node, loc>>
        /\ UNCHANGED <<root, mm, monitor>>
EndAdd(t) ==
    \/ At(t, "added") /\ End(t, True)
    \/ At(t, "add") /\ Has(t, loc[t].succs[0]) /\ End(t, False)

-----------------------------------------------------------------------------

\* The upper levels are marked first, from the top.
Below(t, l) == Goto(t, IF l = 0 THEN "rem_bottom" ELSE "rem_load")
RemNode(t) ==
    LET a == loc[t].succs[0]
    IN  /\ At(t, "remove") /\ Has(t, a) /\ Below(t, node[a].topLevel)
        /\ loc' = [loc EXCEPT ![t].victim = a, ![t].at = node[a].topLevel]
        /\ Quiet
RemLoad(t) ==
    LET succ == node[loc[t].victim].next[loc[t].at]
    IN  /\ At(t, "rem_load")
        /\ IF succ.mark THEN Set(t, "at", loc[t].at - 1) /\ Below(t, loc[t].at - 1)
                        ELSE Set(t, "succ", succ) /\ Goto(t, "rem_mark")
        /\ Quiet
RemMark(t) ==
    CasNext(t, "rem_mark", loc[t].victim, loc[t].at, loc[t].succ, Marked(loc[t].succ),
            "rem_load", "rem_load")
RemBottom(t) ==
    /\ At(t, "rem_bottom") /\ Goto(t, "rem_cas")
    /\ Set(t, "succ", node[loc[t].victim].next[0])
    /\ Quiet
\* Who marks the bottom level has removed the node.
RemCas(t) ==
    LET old == Link(loc[t].succ.to)
        mine == node[loc[t].victim].next[0] = old
    IN  /\ At(t, "rem_cas") /\ Goto(t, IF mine THEN "find" ELSE "rem_again")
        /\ loc' = [loc EXCEPT ![t].then = IF mine THEN "removed" ELSE @]
        /\ IF mine THEN SetNext(loc[t].victim, 0, Marked(old)) ELSE UNCHANGED node
        /\ UNCHANGED <<root, mm, monitor>>
RemAgain(t) ==
    LET succ == node[loc[t].victim].next[0]
    IN  /\ At(t, "rem_again") /\ Set(t, "succ", succ)
        /\ Goto(t, IF succ.mark THEN "rem_lost" ELSE "rem_cas")
        /\ Quiet
EndRemove(t) ==
    \/ At(t, "removed") /\ End(t, True)
    \/ At(t, "rem_lost") /\ End(t, False)
    \/ At(t, "remove") /\ ~Has(t, loc[t].succs[0]) /\ End(t, False)

-----------------------------------------------------------------------------

(* contains(). *)

Start_(t) ==
    /\ At(t, "start") /\ Goto(t, "con_level")
    /\ loc' = [loc EXCEPT ![t].pred = root.head, ![t].level = MaxLevel]
    /\ Quiet

Lower(t, x) ==
    /\ loc' = [loc EXCEPT ![t] = [x EXCEPT !.level = IF @ = 0 THEN 0 ELSE @ - 1]]
    /\ Goto(t, IF x.level = 0 THEN "con_end" ELSE "con_level")
Skip(t, pred, a) ==
    LET x == [loc[t] EXCEPT !.pred = pred, !.curr = a]
    IN  IF a = root.tail THEN Lower(t, x) ELSE loc' = [loc EXCEPT ![t] = x] /\ Goto(t, "con_succ")

ConLevel(t) ==
    LET next == node[loc[t].pred].next[loc[t].level]
    IN  /\ At(t, "con_level")
        /\ IF next = PoisonLink THEN Goto(t, "start") /\ UNCHANGED loc
                                ELSE Skip(t, loc[t].pred, next.to)
        /\ Quiet
ConSucc(t) ==
    LET n == node[loc[t].curr]
        succ == n.next[loc[t].level]
    IN  /\ At(t, "con_succ")
        /\ IF succ = PoisonLink THEN Goto(t, "start") /\ UNCHANGED loc
           ELSE IF succ.mark THEN Skip(t, loc[t].pred, succ.to)
           ELSE IF n.key < call[t].arg THEN Skip(t, loc[t].curr, succ.to)
           ELSE Lower(t, loc[t])
        /\ Quiet
EndContains(t) == At(t, "con_end") /\ End(t, Bool(Has(t, loc[t].curr)))

FindSteps(t) ==
    Find(t) \/ FindLevel(t) \/ FindSucc(t) \/ Snip(t) \/ PoisonNext(t) \/ FindReload(t)
AddSteps(t) ==
    AddNode(t) \/ AddCas(t) \/ AddNext(t) \/ AddFix(t) \/ AddPoison(t) \/ AddLink(t) \/ EndAdd(t)
RemoveSteps(t) ==
    RemNode(t) \/ RemLoad(t) \/ RemMark(t) \/ RemBottom(t) \/ RemCas(t) \/ RemAgain(t) \/ EndRemove(t)
ContainsSteps(t) == Start_(t) \/ ConLevel(t) \/ ConSucc(t) \/ EndContains(t)
Internal(t) == FindSteps(t) \/ AddSteps(t) \/ RemoveSteps(t) \/ ContainsSteps(t)

Next == \E t \in Threads :
    (Add(t) \/ Remove(t) \/ Contains(t) \/ Internal(t)) /\ UNCHANGED fixed

Access(t) ==
    CASE pc[t] \in {"find_level", "snip", "find_reload", "con_level"} -> {loc[t].pred}
      [] pc[t] \in {"find_succ", "poison", "con_succ"} -> {loc[t].curr}
      [] pc[t] = "add_cas" -> {loc[t].preds[0]}
      [] pc[t] = "add_link" -> {loc[t].preds[loc[t].at]}
      [] pc[t] \in {"add_next", "add_fix", "add_poison"} -> {loc[t].new}
      [] pc[t] \in {"rem_load", "rem_mark", "rem_bottom", "rem_cas", "rem_again"} -> {loc[t].victim}
      [] OTHER -> {}

\* The keys on the bottom level that are not marked.
Contents ==
    LET C[a \in Addr] ==
          IF a = root.tail THEN {}
          ELSE C[node[a].next[0].to]
               \cup IF a = root.head \/ node[a].next[0].mark THEN {} ELSE {node[a].key}
    IN  C[root.head]
=============================================================================
