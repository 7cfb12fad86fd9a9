----------------------------- MODULE OrcGCSafety -----------------------------
(***************************************************************************)
(* Why OrcGC deletes no object that a thread can still reach, and the two  *)
(* conditions this rests on.                                               *)
(***************************************************************************)
EXTENDS OrcGC

\* A scan sees every place: no index is taken for the first time while it
\* runs, or after it has read a maxHPs of 0.
ScansCover == \A t \in Threads :
    /\ pc[t] = "hps"  => maxHPs > 0
    /\ pc[t] = "scan" => maxHPs' = maxHPs

\* A decrement that has found the count zero but has not tried to set
\* BRETIRED.
Undecided(t, l) == IsZero(dec[t][l].word)

\* A retire() inside an assignment, or inside retireOne() when the
\* decrement has found a count of zero, leaves hp[t][0] alone.
Hp0Stays == \A t \in Threads :
    (retTo[t] = "newidx" \/ (retTo[t] = "reset" /\ Undecided(t, 0)))
        => hp'[t][0] = hp[t][0]

-----------------------------------------------------------------------------

\* What a thread relies on its hps for.  hp[t][0]: the pointer it has
\* loaded or made, ...
Carried(t) ==
    IF \/ (pc[t] \in {"newidx", "protect"} /\ op[t].kind # "copy")
       \/ (pc[t] \in {"clear", "clearcas"} /\ op[t].kind = "assign")
       \/ retTo[t] = "newidx"
    THEN op[t].ptr ELSE Null

\* ... the object whose count it has decremented or is about to, ...
Decremented(t) ==
    IF pc[t] = "decfaa" \/ (pc[t] \in Deciding /\ Undecided(t, Level(t)))
    THEN dec[t][Level(t)].ptr ELSE Null

\* ... the same while a retireOne() retires another object, ...
Suspended(t) ==
    IF retTo[t] = "reset" /\ Undecided(t, 0) THEN dec[t][0].ptr ELSE Null

\* ... and the object whose BRETIRED it is giving up.
Releasing(t) == IF pc[t] \in {"cbfaa", "cbcas"} THEN ptr[t] ELSE Null

Temporary(t) == {Carried(t), Decremented(t), Suspended(t), Releasing(t)}

\* The others: the object of the orc_ptr, which clear() may have emptied.
Cleared(t, i) == pc[t] \in {"clear", "clearcas"} /\ i = op[t].from

Guarded(t, i, o) ==
    \/ i = 0 /\ o \in Temporary(t)
    \/ i \in PtrIdx /\ (slot[t][i].ptr = o \/ (Cleared(t, i) /\ op[t].old = o))

-----------------------------------------------------------------------------

\* The calls that have changed a link and not the count, or the count and
\* not yet the link.
Late(t, o) == pc[t] = "inc" /\ op[t].kind = "cas" /\ op[t].new = o
Early(t, o) ==
    /\ pc[t] \in {"inccas", "xchg"} \/ retTo[t] = "xchg"
    /\ op[t].kind = "store" /\ op[t].new = o
Owed(t, o) ==
    /\ dec[t][0].ptr = o
    /\ \/ pc[t] \in {"decprotect", "decfaa"} /\ ~retireStarted[t]
       \/ pc[t] \in {"inc", "inccas"} /\ op[t].kind = "cas" /\ op[t].old # Null
       \/ retTo[t] = "decprotect"
OwedInside(t, o) ==
    /\ dec[t][1].ptr = o
    /\ pc[t] \in {"decprotect", "decfaa"} /\ retireStarted[t]

\* t is inside the deleter of ptr[t]: its member is no link any more.
Deleting(t) == retireStarted[t] /\ pc[t] \in DecSteps \cup {"free"}
Gone(c) == \E t \in Threads : Deleting(t) /\ ptr[t] = c

Links(o) == {c \in Cell : link[c] = o /\ ~Gone(c)}
Lates(o) == {t \in Threads : Late(t, o)}
Earlies(o) == {t \in Threads : Early(t, o)}
Oweds(o) == {t \in Threads : Owed(t, o)}
OwedsInside(o) == {t \in Threads : OwedInside(t, o)}

CountInv == \A o \in Obj :
    /\ IsFiniteSet(Links(o))
    /\ orc[o].cnt = Cardinality(Links(o)) + Cardinality(Earlies(o)) + Cardinality(Oweds(o))
                    + Cardinality(OwedsInside(o)) - Cardinality(Lates(o))

-----------------------------------------------------------------------------

\* The hp that a thread relies on holds the object, at an index that scans
\* visit.
HpInv(t) == \A i \in Idx, o \in Obj :
    Guarded(t, i, o) => hp[t][i] = o /\ (i < maxHPs \/ i = 0) /\ t < maxThreads

\* What the steps of an operation find in its locals: its cell is a root or
\* the member of an object in an orc_ptr, and so are the object it links,
\* the source of a copy and the old object of an assignment.
Owns(t, o) == \E i \in PtrIdx : slot[t][i].ptr = o

OperationInv(t) ==
    /\ (pc[t] \in {"read", "publish", "inc", "inccas", "xchg"} \/ retTo[t] = "xchg") =>
         (op[t].cell \in Obj => Owns(t, op[t].cell))
    /\ pc[t] \in {"read", "publish"} =>
         /\ op[t].kind \in {"load", "assign"}
         /\ op[t].old # Null =>
              /\ op[t].kind = "assign" /\ op[t].from \in PtrIdx
              /\ slot[t][op[t].from].ptr = op[t].old
    /\ pc[t] = "read" /\ op[t].ptr \in Obj => hp[t][0] = op[t].ptr
    /\ pc[t] \in {"newidx", "protect"} /\ op[t].kind = "copy" =>
         op[t].from - 1 \in PtrIdx /\ slot[t][op[t].from - 1].ptr = op[t].ptr
    /\ pc[t] = "protect" => \A i \in PtrIdx : NewIdx(t, i) => i < maxHPs
    /\ pc[t] \in {"clear", "clearcas"} => op[t].from \in PtrIdx
    /\ pc[t] \in {"inc", "inccas"} => op[t].kind \in {"store", "cas"} /\ Owns(t, op[t].new)
    /\ (pc[t] = "xchg" \/ retTo[t] = "xchg") => op[t].kind = "store"
    /\ retTo[t] = "newidx" => op[t].kind = "assign"
    /\ pc[t] = "deccas" => Undecided(t, Level(t))

\* A scan goes through each row to the end.
RowInv(t) ==
    /\ pc[t] \in {"load", "cbhp", "cbfaa", "cbcas", "cbok", "cbfail", "threads", "check"} =>
         scan[t] = {}
    /\ pc[t] = "hps" => \A p \in scan[t], i \in Idx : <<p[1], i>> \in scan[t]
    /\ pc[t] = "scan" => \A p \in scan[t], i \in Idx :
                            p[2] <= i /\ i < maxHPs => <<p[1], i>> \in scan[t]

\* The word in hand had a count of zero; the word of the object has moved
\* on from it, if it has moved.
Scanning == {"cbok", "threads", "hps", "scan", "check"}
WordOrderInv(t) ==
    /\ pc[t] \in Scanning \cup {"cbcas"} => lorc[t].cnt = 0
    /\ pc[t] \in Scanning =>
         LET w == orc[ptr[t]] IN
         w.seq >= lorc[t].seq /\ (w.seq = lorc[t].seq => w.cnt >= lorc[t].cnt)

\* The objects that nobody may reach: those that do not exist and those
\* that a thread is deleting.
Doomed(o) ==
    \/ o \notin alive
    \/ \E t \in Threads : ptr[t] = o /\ (Deleting(t) \/ pc[t] = "destroy")

DoomedInv == \A o \in Obj : Doomed(o) =>
    /\ orc[o].cnt = 0
    /\ o \notin alive => link[o] = Null
    /\ \A t \in Threads, i \in Idx : ~Guarded(t, i, o)

\* While the word of the object stays as it was before the scan, a place
\* that the scan will not visit protects it, or a call has linked it
\* without counting, only if such a call protects it at a place that the
\* scan will visit.
Anchored(t, o) == \E u \in Threads, i \in PtrIdx :
    Late(u, o) /\ slot[u][i].ptr = o /\ <<u, i>> \in scan[t]
ScanInv(t) ==
    pc[t] \in {"hps", "scan", "check"} /\ orc[ptr[t]] = lorc[t] =>
      LET o == ptr[t] IN
      \/ Anchored(t, o)
      \/ /\ \A u \in Threads : ~Late(u, o)
         /\ \A u \in Threads, i \in Idx : Guarded(u, i, o) => <<u, i>> \in scan[t]

SafeInv ==
    /\ CountInv /\ DownInv /\ DoomedInv
    /\ \A t \in Threads :
         /\ t < maxThreads \/ pc[t] = "idle"
         /\ HpInv(t) /\ OperationInv(t) /\ RowInv(t) /\ WordOrderInv(t) /\ ScanInv(t)

\* Every step under the two conditions keeps the invariant.
SafeKept == [][SafeInv /\ ScansCover /\ Hp0Stays => SafeInv']_vars

-----------------------------------------------------------------------------

\* When the conditions cannot fail: every index is in use from the start, no
\* program assigns to an orc_ptr that holds an object it may have to clear(),
\* and no thread has come to its first retireOne().
NoAssign == \A t \in Threads :
    /\ Program[t] \in Seq(SUBSET STRING)
    /\ \A k \in 1 .. Len(Program[t]) : "assign" \notin Program[t][k]
FewDecrements == \A t \in Threads : retcnt[t] < MaxRetCnt

\* What such a thread never does.
RetireOneSteps == {"retireOne", "seek", "seekhp", "take", "reset"}
PlainInv(t) ==
    /\ pc[t] \notin RetireOneSteps /\ retTo[t] \notin {"newidx", "reset"}
    /\ op[t].kind = "assign" => op[t].old = Null
    /\ pc[t] \in {"clear", "clearcas"} => op[t].kind # "assign"
PlainRun == maxHPs = MaxHaz /\ \A t \in Threads : PlainInv(t)
=============================================================================
