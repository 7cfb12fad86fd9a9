------------------------------- MODULE TBKPList ------------------------------
(***************************************************************************)
(* lists/TBKPLinkedListSetOrcGC.hpp, the wait-free list of Timnat,         *)
(* Braginsky, Kogan and Petrank: a thread announces its operation, with a  *)
(* phase, in state, and helps every announced one whose phase is not above *)
(* its own.  A link is a triplet with a version, so no two of the same     *)
(* node are equal.  All N threads are registered: getMaxThreads() = N.     *)
(***************************************************************************)
EXTENDS LockFree

CONSTANT Filled     \* bound: the keys thread 0 has added at the start, in ascending order

Link(a, v) == [to |-> a, mark |-> FALSE, version |-> v]
NewNode(k, l) == [key |-> k, next |-> l, d |-> FALSE]
NoWindow == [pred |-> Null, curr |-> Null]
\* id tells the descriptors of a thread apart that can still be compared.
OpDesc(ph, ty, a, w, i) == [phase |-> ph, type |-> ty, node |-> a, window |-> w, id |-> i]
OPDESC_END == OpDesc(0, "success", Null, NoWindow, 0)
PendingTypes == {"insertOp", "search_delete", "execute_delete", "containsOp"}

Links(a) == {node[a].next.to}
Locals == [phase |-> 0, i |-> 0, ph |-> 0, op |-> OPDESC_END, pred |-> Null, curr |-> Null,
           succ |-> Null, next |-> Null, version |-> 0, cas |-> Link(Null, 0),
           snip |-> FALSE, then |-> "help"]
Refers(d) == {d.node, d.window.pred, d.window.curr}
Held(t) == IF At(t, "idle") THEN {}
           ELSE Refers(loc[t].op) \cup {loc[t].pred, loc[t].curr, loc[t].succ, loc[t].next,
                                        loc[t].cas.to}
Live == Reach({root.head, root.tail} \cup UNION {Refers(root.state[t]) : t \in Threads}
                \cup UNION {Held(t) : t \in Threads}, Links)

\* The constructor, and addAll() of Filled by thread 0.
Init ==
    LET n == Len(Filled)
        After(a) == IF a = n + 2 \/ (a = 1 /\ n = 0) THEN Link(2, 1)
                    ELSE Link(IF a = 1 THEN 3 ELSE a + 1, 2)
    IN  /\ orc = TRUE
        /\ Start({Filled[i] : i \in 1 .. n})
        /\ mem = [a \in Addr |-> IF a <= n + 2 THEN "used" ELSE "none"]
        /\ node = [a \in Addr |->
                     CASE a = 1 -> NewNode(Null, After(a))
                       [] a \in 3 .. n+2 -> NewNode(Filled[a-2], After(a))
                       [] OTHER -> NewNode(Null, Link(Null, 0))]
        /\ root = [head |-> 1, tail |-> 2, currentMaxPhase |-> n,
                   state |-> [t \in Threads |->
                                IF t = 0 /\ n > 0 THEN OpDesc(n-1, "success", n+2, NoWindow, 0)
                                ELSE OPDESC_END]]

Quiet == UNCHANGED <<heap, mm, monitor>>
\* t goes to l, with v as its local x.
Set(t, l, x, v) == Goto(t, l) /\ loc' = [loc EXCEPT ![t][x] = v] /\ Quiet
Read(t, from, x, v, to) == At(t, from) /\ Set(t, to, x, v)
\* A CAS of the link of node a with a triplet it had; ok: where it succeeds.
CasLink(t, from, a, new, success, failure) ==
    LET ok == node[a].next = loc[t].cas
    IN  /\ At(t, from) /\ Goto(t, IF ok THEN success ELSE failure)
        /\ node' = IF ok THEN [node EXCEPT ![a].next = new] ELSE node
        /\ loc' = [loc EXCEPT ![t].cas = Link(Null, 0), ![t].snip = ok]
        /\ UNCHANGED <<root, mm, monitor>>

\* A new descriptor for state[i].
NewOp(i, ph, ty, a, w) ==
    LET used == {root.state[i].id} \cup {loc[u].op.id : u \in {v \in Threads : ~At(v, "idle")}}
    IN  OpDesc(ph, ty, a, w, CHOOSE k \in 0 .. N+1 : k \notin used /\ \A j \in 0 .. k-1 : j \in used)

\* The end of a round of help(): op and the orc_ptrs of the helper go.
Helped(t) ==
    /\ loc' = [loc EXCEPT ![t] = [Locals EXCEPT !.phase = loc[t].phase, !.i = loc[t].i + 1]]
    /\ Goto(t, IF loc[t].i + 1 < N THEN "help" ELSE "result")

\* A CAS of state[i] from op to a new descriptor of type ty; l: where t
\* goes then, "helped" if it returns to help().
CasState(t, ty, w, success, failure) ==
    LET i == loc[t].i
        ok == root.state[i] = loc[t].op
        l == IF ok THEN success ELSE failure
    IN  /\ root' = IF ok THEN [root EXCEPT !.state[i] = NewOp(i, loc[t].ph, ty, loc[t].op.node, w)]
                   ELSE root
        /\ IF l = "helped" THEN Helped(t) ELSE Goto(t, l) /\ UNCHANGED loc
        /\ UNCHANGED <<node, mm, monitor>>

-----------------------------------------------------------------------------

Add(t) == Call(t, "add", "phase", Locals) /\ UNCHANGED <<heap, mm>>
Remove(t) == Call(t, "remove", "phase", Locals) /\ UNCHANGED <<heap, mm>>
Contains(t) == Call(t, "contains", "phase", Locals) /\ UNCHANGED <<heap, mm>>

\* maxPhase().
Phase(t) == Read(t, "phase", "phase", root.currentMaxPhase, "phase_cas")
PhaseCas(t) ==
    /\ Step(t, "phase_cas", "announce")
    /\ CasRoot("currentMaxPhase", loc[t].phase, loc[t].phase + 1)
    /\ UNCHANGED <<node, mm>>

TypeOf(op) == CASE op = "add" -> "insertOp" [] op = "remove" -> "search_delete"
                [] op = "contains" -> "containsOp"
Announce(t) ==
    /\ Step(t, "announce", "help")
    /\ \E a \in Free(Live) :
         /\ Allocate({a})
         /\ node' = [node EXCEPT ![a] = NewNode(call[t].arg, Link(Null, 0))]
         /\ root' = [root EXCEPT !.state[t] =
                       NewOp(t, loc[t].phase, TypeOf(call[t].op), a, NoWindow)]

\* help().
Help(t) ==
    LET desc == root.state[loc[t].i]
    IN  /\ At(t, "help")
        /\ IF desc.phase <= loc[t].phase /\ desc.type \in PendingTypes
           THEN Set(t, CASE desc.type = "insertOp" -> "ins" [] desc.type = "containsOp" -> "con"
                         [] OTHER -> "del", "ph", desc.phase)
           ELSE Helped(t) /\ Quiet

\* A helper takes the descriptor of its operation, or returns if that is done.
Take(t, from, types, to, then) ==
    LET op == root.state[loc[t].i]
    IN  /\ At(t, from)
        /\ IF op.type \in types /\ op.phase = loc[t].ph
           THEN /\ Goto(t, to)
                /\ loc' = [loc EXCEPT ![t] = [Locals EXCEPT !.phase = loc[t].phase, !.i = loc[t].i,
                                                !.ph = loc[t].ph, !.op = op, !.then = then]]
           ELSE Helped(t)
        /\ Quiet

-----------------------------------------------------------------------------

(* search(); then t goes to loc[t].then. *)

Key(t) == node[loc[t].op.node].key

\* curr becomes a.
Walk(t, pred, a) ==
    /\ loc' = [loc EXCEPT ![t].pred = pred, ![t].curr = a, ![t].succ = Null, ![t].snip = FALSE]
    /\ Goto(t, IF a = root.tail THEN loc[t].then ELSE "s_next")

Search(t) == At(t, "search") /\ Walk(t, root.head, node[root.head].next.to) /\ Quiet

SearchNext(t) ==
    LET l == node[loc[t].curr].next
    IN  /\ At(t, "s_next")
        /\ IF l.mark THEN Goto(t, "s_load") /\ loc' = [loc EXCEPT ![t].succ = l.to]
           ELSE IF Key(t) <= node[loc[t].curr].key THEN Goto(t, loc[t].then) /\ UNCHANGED loc
           ELSE Walk(t, loc[t].curr, l.to)
        /\ Quiet

SearchLoad(t) ==
    LET l == node[loc[t].pred].next
        ok == l.to = loc[t].curr /\ ~l.mark
    IN  /\ At(t, "s_load") /\ Goto(t, IF ok THEN "s_snip" ELSE "s_pending")
        /\ loc' = [loc EXCEPT ![t].cas = IF ok THEN l ELSE @, ![t].snip = FALSE]
        /\ Quiet
SearchSnip(t) ==
    CasLink(t, "s_snip", loc[t].pred, Link(loc[t].succ, loc[t].cas.version + 1),
            "s_pending", "s_pending")

\* isSearchStillPending().  Who executes a removal goes on in any case.
SearchPending(t) ==
    LET d == root.state[loc[t].i]
        l == loc[t].then
    IN  /\ At(t, "s_pending")
        /\ IF d.type \in PendingTypes /\ d.phase = loc[t].ph
           THEN IF loc[t].snip THEN Walk(t, loc[t].pred, loc[t].succ)
                ELSE Goto(t, "search") /\ UNCHANGED loc
           ELSE IF l \in {"ins_found", "con_found"} THEN Helped(t)
           ELSE Goto(t, IF l = "del_found" THEN "del" ELSE l) /\ UNCHANGED loc
        /\ Quiet

Found(t) == loc[t].curr # root.tail /\ node[loc[t].curr].key = Key(t)

-----------------------------------------------------------------------------

(* helpInsert(). *)

Ins(t) == Take(t, "ins", {"insertOp"}, "ins_next", "ins_found")
InsNext(t) == Read(t, "ins_next", "next", node[loc[t].op.node].next.to, "search")

\* The node is in the list if it is found, and was in it if it is marked.
InsFound(t) ==
    LET was == node[loc[t].op.node].next.mark
    IN  /\ At(t, "ins_found")
        /\ Goto(t, IF Found(t)
                   THEN IF loc[t].curr = loc[t].op.node \/ was THEN "ins_success" ELSE "ins_failure"
                   ELSE IF was THEN "ins_marked" ELSE "ins_version")
        /\ UNCHANGED loc /\ Quiet
InsSuccess(t) == At(t, "ins_success") /\ CasState(t, "success", NoWindow, "helped", "ins")
InsFailure(t) == At(t, "ins_failure") /\ CasState(t, "failure", NoWindow, "helped", "ins")
InsMarked(t) == At(t, "ins_marked") /\ CasState(t, "success", NoWindow, "helped", "ins_version")

\* The next descriptor differs from op in nothing but its address.
InsVersion(t) == Read(t, "ins_version", "version", node[loc[t].pred].next.version, "ins_new")
InsNew(t) == At(t, "ins_new") /\ CasState(t, "insertOp", NoWindow, "ins_load", "ins")

InsLoad(t) ==
    LET l == node[loc[t].op.node].next
        ok == l.to = loc[t].next /\ ~l.mark /\ l.to # loc[t].curr
    IN  Read(t, "ins_load", "cas", IF ok THEN l ELSE loc[t].cas, IF ok THEN "ins_set" ELSE "ins_ref")
InsSet(t) ==
    CasLink(t, "ins_set", loc[t].op.node, Link(loc[t].curr, loc[t].cas.version + 1),
            "ins_ref", "ins_ref")
InsRef(t) == Read(t, "ins_ref", "succ", node[loc[t].op.node].next.to, "ins_pred")
InsPred(t) ==
    LET l == node[loc[t].pred].next
        ok == l.to = loc[t].succ /\ ~l.mark /\ l.version = loc[t].version
    IN  Read(t, "ins_pred", "cas", IF ok THEN l ELSE loc[t].cas, IF ok THEN "ins_cas" ELSE "ins")
InsCas(t) ==
    CasLink(t, "ins_cas", loc[t].pred, Link(loc[t].op.node, loc[t].version + 1),
            "ins_success", "ins")

-----------------------------------------------------------------------------

(* helpRemove() and helpContains(). *)

Del(t) ==
    \/ Take(t, "del", {"search_delete"}, "search", "del_found")
          /\ root.state[loc[t].i].type # "execute_delete"
    \/ Take(t, "del", {"execute_delete"}, "exe_next", "exe_found")
          /\ root.state[loc[t].i].type = "execute_delete"

\* The code does not ask whether curr is the tail: that has key T{}.
DelFound(t) ==
    /\ At(t, "del_found")
    /\ IF node[loc[t].curr].key # Key(t) THEN CasState(t, "failure", NoWindow, "helped", "del")
       ELSE CasState(t, "execute_delete", [pred |-> loc[t].pred, curr |-> loc[t].curr], "del", "del")

ExeNext(t) == 
    LET a == loc[t].op.window.curr
    IN  /\ At(t, "exe_next") /\ Goto(t, "exe_load")
        /\ loc' = [loc EXCEPT ![t].curr = a, ![t].next = node[a].next.to]
        /\ Quiet
ExeLoad(t) ==
    LET l == node[loc[t].curr].next
    IN  Read(t, "exe_load", "cas", IF l.mark THEN loc[t].cas ELSE l,
             IF l.to # loc[t].next THEN "del" ELSE IF l.mark THEN "search" ELSE "exe_mark")
ExeMark(t) ==
    CasLink(t, "exe_mark", loc[t].curr,
            [Link(loc[t].next, loc[t].cas.version + 1) EXCEPT !.mark = TRUE], "search", "del")
ExeFound(t) ==
    At(t, "exe_found") /\ CasState(t, "determine_delete", loc[t].op.window, "helped", "helped")

Con(t) == Take(t, "con", {"containsOp"}, "search", "con_found")
ConFound(t) ==
    /\ At(t, "con_found")
    /\ CasState(t, IF Found(t) THEN "success" ELSE "failure", NoWindow, "helped", "helped")

-----------------------------------------------------------------------------

\* The end of add(), remove() and contains(): of all who have removed a
\* node, the one that sets d has.
Result(t) ==
    LET op == root.state[t]
    IN  /\ At(t, "result")
        /\ IF call[t].op = "remove" /\ op.type = "determine_delete"
           THEN Set(t, "take", "curr", op.window.curr)
           ELSE Return(t, Bool(call[t].op # "remove" /\ op.type = "success"))
                  /\ UNCHANGED <<heap, mm>>
TakeNode(t) ==
    /\ At(t, "take") /\ Return(t, Bool(~node[loc[t].curr].d))
    /\ node' = [node EXCEPT ![loc[t].curr].d = TRUE]
    /\ UNCHANGED <<root, mm>>

Internal(t) ==
    \/ Phase(t) \/ PhaseCas(t) \/ Announce(t) \/ Help(t)
    \/ Search(t) \/ SearchNext(t) \/ SearchLoad(t) \/ SearchSnip(t) \/ SearchPending(t)
    \/ Ins(t) \/ InsNext(t) \/ InsFound(t) \/ InsSuccess(t) \/ InsFailure(t) \/ InsMarked(t)
    \/ InsVersion(t) \/ InsNew(t) \/ InsLoad(t) \/ InsSet(t) \/ InsRef(t) \/ InsPred(t) \/ InsCas(t)
    \/ Del(t) \/ DelFound(t) \/ ExeNext(t) \/ ExeLoad(t) \/ ExeMark(t) \/ ExeFound(t)
    \/ Con(t) \/ ConFound(t)
    \/ Result(t) \/ TakeNode(t)

Next == \E t \in Threads :
    (Add(t) \/ Remove(t) \/ Contains(t) \/ Internal(t)) /\ UNCHANGED fixed

Access(t) ==
    CASE pc[t] \in {"s_next", "exe_load", "exe_mark", "take"} -> {loc[t].curr}
      [] pc[t] \in {"s_load", "s_snip", "ins_version", "ins_pred", "ins_cas"} -> {loc[t].pred}
      [] pc[t] \in {"ins_next", "ins_found", "ins_load", "ins_set", "ins_ref"} -> {loc[t].op.node}
      [] pc[t] = "exe_next" -> {loc[t].op.window.curr}
      [] OTHER -> {}

\* The keys of the nodes that are not marked.
Contents ==
    LET C[a \in Addr] ==
          IF a = root.tail THEN {}
          ELSE C[node[a].next.to]
               \cup IF a = root.head \/ node[a].next.mark THEN {} ELSE {node[a].key}
    IN  C[root.head]
=============================================================================
