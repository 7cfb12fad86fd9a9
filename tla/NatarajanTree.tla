---------------------------- MODULE NatarajanTree ----------------------------
(***************************************************************************)
(* trees/NatarajanTree.hpp and trees/NatarajanTreeOrcGC.hpp: a binary      *)
(* search tree whose keys are in its leaves.  A deletion flags the link of *)
(* its leaf, tags the link of the sibling, and makes the sibling the child *)
(* of the ancestor.                                                        *)
(*                                                                         *)
(* What hp.protect() publishes in the manual variant is a pointer with its *)
(* flag and tag, which no retire() compares equal: nothing rests on these  *)
(* hps, and the memory of a node is not used again here.                   *)
(***************************************************************************)
EXTENDS LockFree

CONSTANT Filled     \* bound: the keys that have been added at the start, in order

Edge(a) == [to |-> a, flg |-> FALSE, tag |-> FALSE]
mixPtrFlgTg(a, f, g) == [to |-> a, flg |-> f, tag |-> g]
NewLeaf(k) == [level |-> -1, key |-> k, left |-> Edge(Null), right |-> Edge(Null)]
NewInternal(lev, k, l, r) == [level |-> lev, key |-> k, left |-> Edge(l), right |-> Edge(r)]

\* The keys are above infK, which is 0 like the key of every sentinel.
infK == 0
RootNode == 1     \* r
RootChild == 2    \* s
Dead == [level |-> -1, key |-> infK, left |-> Edge(Null), right |-> Edge(Null)]

\* The constructor, and addAll() of Filled in ascending order: the leaf of
\* the key number j is 5+j, and the inner nodes follow.
Init ==
    LET n == Len(Filled)
        Inner(j) == 5 + n + j
        Below(j) == IF j = n THEN 5 + n ELSE Inner(j + 1)
    IN  /\ Start({Filled[j] : j \in 1 .. n})
        /\ mem = [a \in Addr |-> IF a <= 5 + 2*n THEN "used" ELSE "none"]
        /\ root = [r |-> RootNode, s |-> RootChild]
        /\ node = [a \in Addr |->
             CASE a = RootNode  -> NewInternal(2, infK, RootChild, 5)
               [] a = RootChild -> NewInternal(1, infK, IF n = 0 THEN 3 ELSE Inner(1), 4)
               [] a = 3 -> NewInternal(0, infK, Null, Null)
               [] a = 4 -> NewInternal(1, infK, Null, Null)
               [] a = 5 -> NewInternal(2, infK, Null, Null)
               [] a \in 6 .. 5+n -> NewLeaf(Filled[a-5])
               [] n > 0 /\ a = Inner(1) -> NewInternal(0, infK, Below(1), 3)
               [] a \in Inner(2) .. Inner(n) ->
                    NewInternal(-1, Filled[a-5-n], 4 + a-5-n, Below(a-5-n))
               [] OTHER -> Dead]

Links(a) == {node[a].left.to, node[a].right.to}
Locals == [anc |-> Null, succ |-> Edge(Null), parent |-> Edge(Null), leaf |-> Edge(Null),
           field |-> Edge(Null), curr |-> Edge(Null), target |-> Edge(Null), side |-> "left",
           child |-> Null, sibling |-> Edge(Null), new |-> Null, inner |-> Null,
           injecting |-> TRUE]
Held(t) == IF At(t, "idle") THEN {}
           ELSE {loc[t].anc, loc[t].succ.to, loc[t].parent.to, loc[t].leaf.to, loc[t].field.to,
                 loc[t].curr.to, loc[t].target.to, loc[t].child, loc[t].sibling.to,
                 loc[t].new, loc[t].inner}
Live == Reach({root.r, root.s} \cup UNION {Held(t) : t \in Threads}, Links)
Fresh == IF orc THEN Free(Live) ELSE {a \in Free(Live) : mem[a] = "none"}

\* The order of keys, with the sentinels above all.
nodeLess(k, a) == node[a].level # -1 \/ k < node[a].key
nodeEqual(k, a) == node[a].level = -1 /\ k = node[a].key
keyLess(k, a) == IF orc THEN k < node[a].key ELSE nodeLess(k, a)
keyEqual(k, a) == IF orc THEN k = node[a].key ELSE nodeEqual(k, a)
Side(t, a) == IF nodeLess(call[t].arg, a) THEN "left" ELSE "right"
Other(s) == IF s = "left" THEN "right" ELSE "left"
Child(a, s) == IF s = "left" THEN node[a].left ELSE node[a].right
SetChild(a, s, e) ==
    IF s = "left" THEN [node EXCEPT ![a].left = e] ELSE [node EXCEPT ![a].right = e]
CasChild(a, s, old, new) == node' = IF Child(a, s) = old THEN SetChild(a, s, new) ELSE node
Found(t) == nodeEqual(call[t].arg, loc[t].leaf.to)
Bare(e) == Edge(e.to)

\* The hps of t are those of the nodes of row; what they publish.
Hold(t, row) ==
    IF orc THEN UNCHANGED mm
    ELSE Protections([s \in Slot |-> IF s[1] = t THEN row[s[2]] ELSE hp[s]], {})
Row(t) == [i \in 0 .. HPs-1 |-> hp[<<t, i>>]]
\* A pointer with a flag or a tag is not that of a node.
Published(e) == IF e.flg \/ e.tag THEN Poison ELSE e.to

Quiet == UNCHANGED <<heap, mm, monitor>>
Branch(t, from, to) == Step(t, from, to) /\ UNCHANGED <<heap, mm>>

-----------------------------------------------------------------------------

Contains(t) == Call(t, "contains", "seek", Locals) /\ UNCHANGED <<heap, mm>>
Remove(t) == Call(t, "remove", "seek", Locals) /\ UNCHANGED <<heap, mm>>
\* insert(), put() and replace() make the leaf at once.
WithLeaf(t, op) ==
    \E a \in Fresh :
        /\ Call(t, op, "seek", [Locals EXCEPT !.new = a])
        /\ Allocate({a})
        /\ node' = [node EXCEPT ![a] = NewLeaf(call'[t].arg)]
        /\ UNCHANGED root
Insert(t) == WithLeaf(t, "add")
Put(t) == ~orc /\ WithLeaf(t, "put")
Replace(t) == WithLeaf(t, "replace")

(* seek().  r->left is s throughout. *)

Seek(t) ==
    /\ At(t, "seek") /\ Goto(t, "seek_field")
    /\ loc' = [loc EXCEPT ![t].anc = root.r, ![t].succ = Edge(root.s),
                          ![t].parent = Edge(root.s), ![t].leaf = node[root.s].left]
    /\ Hold(t, [Row(t) EXCEPT ![1] = root.s, ![2] = root.s, ![3] = Published(node[root.s].left)])
    /\ UNCHANGED <<heap, monitor>>

SeekField(t) ==
    LET e == node[root.s].left
    IN  /\ At(t, "seek_field") /\ Goto(t, "seek_child")
        /\ loc' = [loc EXCEPT ![t].field = e]
        /\ Hold(t, [Row(t) EXCEPT ![3] = Published(e)])
        /\ UNCHANGED <<heap, monitor>>

\* What seek() keeps when it has found the leaf, and while it goes on to e.
Arrive(t, x, e) ==
    /\ Goto(t, IF e.to = Null THEN "found" ELSE "seek_down")
    /\ loc' = [loc EXCEPT ![t] = IF e.to = Null
                                 THEN [x EXCEPT !.field = Edge(Null), !.curr = Edge(Null)]
                                 ELSE [x EXCEPT !.curr = e]]

SeekChild(t) ==
    LET e == node[loc[t].leaf.to].left
    IN  /\ At(t, "seek_child") /\ Arrive(t, loc[t], e)
        /\ Hold(t, [Row(t) EXCEPT ![4] = Published(e)])
        /\ UNCHANGED <<heap, monitor>>

\* One round of the loop: the four nodes move down, and so do their hps.
SeekDown(t) ==
    LET me == loc[t]
        e == Child(me.curr.to, IF keyLess(call[t].arg, me.curr.to) THEN "left" ELSE "right")
        h == Row(t)
        swapped == IF me.field.tag THEN h ELSE [h EXCEPT ![0] = h[1], ![1] = h[3], ![3] = h[0]]
    IN  /\ At(t, "seek_down")
        /\ Arrive(t, [me EXCEPT !.anc = IF me.field.tag THEN @ ELSE me.parent.to,
                                !.succ = IF me.field.tag THEN @ ELSE me.leaf,
                                !.parent = me.leaf, !.leaf = me.curr, !.field = me.curr], e)
        /\ Hold(t, [swapped EXCEPT ![2] = swapped[3], ![3] = swapped[4], ![4] = Published(e)])
        /\ UNCHANGED <<heap, monitor>>

-----------------------------------------------------------------------------

(* cleanup(); then t goes to "cleaned". *)

\* The side of the link that is flagged, and of the one that moves up.
CleanChild(t) ==
    LET p == loc[t].parent.to
        e == Child(p, Side(t, p))
    IN  /\ At(t, "cleanup")
        /\ Goto(t, IF e.flg THEN "tag" ELSE "clean_sibling")
        /\ loc' = [loc EXCEPT ![t].child = e.to,
                              ![t].side = IF e.flg THEN Other(Side(t, p)) ELSE Side(t, p)]
        /\ Quiet

CleanSibling(t) ==
    /\ At(t, "clean_sibling") /\ Goto(t, "tag")
    /\ loc' = [loc EXCEPT ![t].child = Child(loc[t].parent.to, Other(loc[t].side)).to]
    /\ Quiet

\* Mutant: the sibling's link is not tagged.
TagNot(t) == Step(t, "tag", "clean_read") /\ UNCHANGED <<heap, mm>>

\* The CAS that succeeds; those that fail change nothing.
Tag(t) ==
    LET p == loc[t].parent.to
    IN  /\ Step(t, "tag", "clean_read")
        /\ node' = SetChild(p, loc[t].side, [Child(p, loc[t].side) EXCEPT !.tag = TRUE])
        /\ UNCHANGED <<root, mm>>

CleanRead(t) ==
    /\ At(t, "clean_read") /\ Goto(t, "splice")
    /\ loc' = [loc EXCEPT ![t].sibling = Child(loc[t].parent.to, loc[t].side)]
    /\ Quiet

\* Where t goes with the result r.  A deletion is over when its own
\* cleanup() has removed the leaf.
Splice(t) ==
    LET a == loc[t].anc
        e == loc[t].sibling
        ok == Child(a, Side(t, a)) = Bare(loc[t].succ)
    IN  /\ At(t, "splice")
        /\ Goto(t, IF ok /\ call[t].op = "remove" /\ ~loc[t].injecting THEN "done" ELSE "seek")
        /\ loc' = [loc EXCEPT ![t].child = Null, ![t].sibling = Edge(Null), ![t].side = "left"]
        /\ CasChild(a, Side(t, a), Bare(loc[t].succ), mixPtrFlgTg(e.to, e.flg, FALSE))
        /\ IF orc \/ ~ok THEN UNCHANGED mm
           ELSE Protections(hp, {loc[t].child, loc[t].succ.to})
        /\ UNCHANGED <<root, monitor>>

-----------------------------------------------------------------------------

\* Whether a deletion has flagged or tagged the link of parent to leaf, when
\* a CAS of it has failed: then t helps it.
HelpDelete(t) ==
    LET p == loc[t].parent.to
        e == Child(p, Side(t, p))
    IN  Branch(t, "help", IF e.to = loc[t].leaf.to /\ (e.flg \/ e.tag) THEN "cleanup" ELSE "seek")

\* t has done from in an operation of ops.
In(t, from, ops) == At(t, from) /\ call[t].op \in ops
End(t, r, R) == Return(t, r) /\ Release(t, R) /\ UNCHANGED heap

EndGet(t) ==
    In(t, "found", {"contains"}) /\ End(t, Bool(keyEqual(call[t].arg, loc[t].leaf.to)), {})

\* insert() and put().
MakeInner(t) ==
    LET b == loc[t].leaf.to
        k == call[t].arg
        left == nodeLess(k, b)
    IN  /\ In(t, "found", {"add", "put"}) /\ ~Found(t)
        /\ Goto(t, "link")
        /\ \E a \in Fresh :
             /\ Allocate({a})
             /\ loc' = [loc EXCEPT ![t].inner = a]
             /\ node' = [node EXCEPT ![a] =
                   NewInternal(node[b].level,
                               IF node[b].level # -1 THEN infK
                               ELSE IF k < node[b].key THEN node[b].key ELSE k,
                               IF left THEN loc[t].new ELSE b,
                               IF left THEN b ELSE loc[t].new)]
        /\ UNCHANGED <<root, monitor>>

\* newInternal is deleted when it has not been linked.
Link(t) ==
    LET p == loc[t].parent.to
        ok == Child(p, Side(t, p)) = Bare(loc[t].leaf)
    IN  /\ At(t, "link") /\ Goto(t, IF ok THEN "done" ELSE "help")
        /\ CasChild(p, Side(t, p), Bare(loc[t].leaf), Edge(loc[t].inner))
        /\ loc' = [loc EXCEPT ![t].inner = Null]
        /\ IF orc \/ ok THEN UNCHANGED mm ELSE Protections(hp, {loc[t].inner})
        /\ UNCHANGED <<root, monitor>>

\* put() and replace() of a key that is there.  The OrcGC variant compares
\* the link with leaf as it was read, flag and tag included.
Exchange(t) ==
    LET p == loc[t].parent.to
        old == IF orc THEN loc[t].leaf ELSE Bare(loc[t].leaf)
        ok == Child(p, Side(t, p)) = old
    IN  /\ In(t, "found", {"put", "replace"}) /\ Found(t)
        /\ Step(t, "found", IF ok THEN "exchanged" ELSE "seek")
        /\ CasChild(p, Side(t, p), old, Edge(loc[t].new))
        /\ IF orc \/ ~ok THEN UNCHANGED mm ELSE Protections(hp, {loc[t].leaf.to})
        /\ UNCHANGED root

EndInsert(t) ==
    \/ In(t, "found", {"add"}) /\ Found(t) /\ End(t, False, {loc[t].new})
    \/ In(t, "done", {"add"}) /\ End(t, True, {})
EndPut(t) ==
    \/ At(t, "exchanged") /\ End(t, True, {})
    \/ In(t, "done", {"put"}) /\ End(t, False, {})
    \/ In(t, "found", {"replace"}) /\ ~Found(t) /\ End(t, False, {loc[t].new})

(* innerRemove(). *)

Inject(t) ==
    LET p == loc[t].parent.to
        old == Bare(loc[t].leaf)
        ok == Child(p, Side(t, p)) = old
    IN  /\ In(t, "found", {"remove"}) /\ loc[t].injecting /\ Found(t)
        /\ Goto(t, IF ok THEN "cleanup" ELSE "help")
        /\ CasChild(p, Side(t, p), old, mixPtrFlgTg(old.to, TRUE, FALSE))
        /\ loc' = [loc EXCEPT ![t].target = loc[t].leaf, ![t].injecting = ~ok]
        /\ UNCHANGED <<root, mm, monitor>>

\* The leaf that t has flagged may be there still.  The OrcGC variant
\* compares it with leaf as it was read, flag and tag included.
Again(t) ==
    /\ In(t, "found", {"remove"}) /\ ~loc[t].injecting
    /\ Branch(t, "found",
              IF (IF orc THEN loc[t].leaf # Bare(loc[t].target)
                         ELSE loc[t].leaf.to # loc[t].target.to)
              THEN "done" ELSE "cleanup")

EndRemove(t) ==
    \/ In(t, "done", {"remove"}) /\ End(t, True, {})
    \/ In(t, "found", {"remove"}) /\ loc[t].injecting /\ ~Found(t) /\ End(t, False, {})

SeekSteps(t) == Seek(t) \/ SeekField(t) \/ SeekChild(t) \/ SeekDown(t)
Cleanup(t) == CleanChild(t) \/ CleanSibling(t) \/ Tag(t) \/ CleanRead(t) \/ Splice(t)
InsertSteps(t) == MakeInner(t) \/ Link(t) \/ HelpDelete(t) \/ EndInsert(t)
ReplaceSteps(t) == Exchange(t) \/ EndPut(t)
RemoveSteps(t) == Inject(t) \/ Again(t) \/ EndRemove(t)
Internal(t) ==
    SeekSteps(t) \/ Cleanup(t) \/ EndGet(t) \/ InsertSteps(t) \/ ReplaceSteps(t) \/ RemoveSteps(t)

Next == \E t \in Threads :
    (Contains(t) \/ Remove(t) \/ Insert(t) \/ Put(t) \/ Replace(t) \/ Internal(t))
    /\ UNCHANGED fixed

Access(t) ==
    CASE pc[t] = "seek_child" -> {loc[t].leaf.to}
      [] pc[t] = "seek_down" -> {loc[t].curr.to}
      [] pc[t] \in {"cleanup", "clean_sibling", "tag", "clean_read", "help", "link"} ->
           {loc[t].parent.to}
      [] pc[t] = "splice" -> {loc[t].anc}
      [] pc[t] = "found" -> {loc[t].parent.to, loc[t].leaf.to}
      [] OTHER -> {}

\* The keys of the leaves.
Contents ==
    {node[a].key : a \in {b \in Reach({root.r}, Links) :
                            node[b].level = -1 /\ node[b].left.to = Null}}
=============================================================================
