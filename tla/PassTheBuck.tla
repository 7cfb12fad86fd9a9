----------------------------- MODULE PassTheBuck -----------------------------
(***************************************************************************)
(* trackers/PassTheBuck.hpp: liberate() looks at every hp once.  It leaves *)
(* an object that the hp holds in its handover, and takes what is there    *)
(* otherwise; what it has in the end it deletes.  A handover has a version *)
(* that every DCAS increments.                                             *)
(***************************************************************************)
EXTENDS ReclaimerClient

NoValue == [val |-> Null, ver |-> 0]
\* kept: handovers.  scan[t]: the locals of liberate().
NoScan == [vs |-> {}, it |-> 0, ihp |-> 0, attempts |-> 0, h |-> NoValue, v |-> Null]

Init ==
    /\ InitClient
    /\ kept = [s \in Slot |-> NoValue]
    /\ scan = [t \in Threads |-> NoScan]

Quiet == UNCHANGED <<mm, program, kept>>
Here(t) == <<scan[t].it, scan[t].ihp>>
Set(t, f, x, to) == scan' = [scan EXCEPT ![t][f] = x] /\ Goto(t, to) /\ Quiet

Clear(t) ==
    \/ At(t, "idle") /\ Goto(t, "clear") /\ Quiet /\ UNCHANGED scan
    \/ /\ At(t, "clear") /\ ClearHp(t, scan[t].ihp)
       /\ IF scan[t].ihp + 1 < HPs
          THEN scan' = [scan EXCEPT ![t].ihp = @ + 1] /\ UNCHANGED pc
          ELSE scan' = [scan EXCEPT ![t] = NoScan] /\ Goto(t, "idle")

ClearOne(t) == \E i \in Index : At(t, "idle") /\ ClearHp(t, i) /\ UNCHANGED <<pc, scan>>

Retire(t) ==
    /\ At(t, "retire") /\ Goto(t, "version")
    /\ Protections(hp, {loc[t].ptr})
    /\ scan' = [scan EXCEPT ![t].vs = {loc[t].ptr}]
    /\ loc' = [loc EXCEPT ![t] = NoLocals]
    /\ UNCHANGED <<link, valid, kept>>

\* getAtomicH() reads the version, the value, and the version again.
Version(t) == At(t, "version") /\ Set(t, "h", [val |-> Null, ver |-> kept[Here(t)].ver], "value")
Value(t) == At(t, "value") /\ Set(t, "h", [scan[t].h EXCEPT !.val = kept[Here(t)].val], "same")
Same(t) ==
    /\ At(t, "same")
    /\ Goto(t, IF kept[Here(t)].ver # scan[t].h.ver THEN "version"
               ELSE IF scan[t].attempts = 0 THEN "look" ELSE "retry")
    /\ Quiet /\ UNCHANGED scan

\* liberate() goes on with the next hp, and has vs.
Forward(t, vs) ==
    LET next == Following(scan[t].it, scan[t].ihp)
    IN  /\ scan' = [scan EXCEPT ![t] = [NoScan EXCEPT !.vs = vs, !.it = next[1], !.ihp = next[2]]]
        /\ Goto(t, IF next[1] < N THEN "version" ELSE IF vs = {} THEN "end" ELSE "delete")

Look(t) ==
    LET v == hp[Here(t)]
        s == scan[t]
    IN  /\ At(t, "look")
        /\ IF v \in s.vs THEN scan' = [scan EXCEPT ![t].v = v] /\ Goto(t, "give")
           ELSE IF s.h.val # Null /\ s.h.val # v THEN Goto(t, "get") /\ UNCHANGED scan
           ELSE Forward(t, s.vs)
        /\ Quiet

\* A new version: one that no liberator has read, the next one in the code.
Newer(s) == CHOOSE k \in 0 .. N+1 :
    /\ k # kept[s].ver
    /\ \A t \in Threads : Here(t) = s => scan[t].h.ver # k
DCAS(t, v, yes, no) ==
    LET s == Here(t)
    IN  /\ IF kept[s] = scan[t].h
           THEN kept' = [kept EXCEPT ![s] = [val |-> v, ver |-> Newer(s)]] /\ yes
           ELSE UNCHANGED kept /\ no
        /\ UNCHANGED <<mm, program>>

Give(t) ==
    LET s == scan[t]
    IN  /\ At(t, "give")
        /\ DCAS(t, s.v, Forward(t, (s.vs \ {s.v}) \cup ({s.h.val} \ {Null})),
                IF s.attempts = 2 THEN Forward(t, s.vs)
                ELSE scan' = [scan EXCEPT ![t].attempts = @ + 1] /\ Goto(t, "version"))
Retry(t) ==
    LET s == scan[t]
    IN  /\ At(t, "retry")
        /\ IF (s.attempts = 2 /\ s.h.val # Null) \/ s.v # hp[Here(t)] THEN Forward(t, s.vs)
           ELSE Goto(t, "give") /\ UNCHANGED scan
        /\ Quiet
Get(t) ==
    /\ At(t, "get")
    /\ DCAS(t, Null, Forward(t, scan[t].vs \cup {scan[t].h.val}), Forward(t, scan[t].vs))

\* deleteAll().
DeleteAll(t) ==
    /\ At(t, "delete")
    /\ \E a \in scan[t].vs :
         /\ Delete({a})
         /\ scan' = [scan EXCEPT ![t] = [NoScan EXCEPT !.vs = scan[t].vs \ {a}]]
         /\ Goto(t, IF scan[t].vs = {a} THEN "idle" ELSE "delete")
    /\ UNCHANGED <<program, kept>>
End(t) == At(t, "end") /\ Goto(t, "idle") /\ scan' = [scan EXCEPT ![t] = NoScan] /\ Quiet

Scan(t) ==
    \/ Retire(t) \/ Version(t) \/ Value(t) \/ Same(t) \/ Look(t) \/ Give(t) \/ Retry(t) \/ Get(t)
    \/ DeleteAll(t) \/ End(t)
Next == \E t \in Threads : Client(t) \/ Clear(t) \/ ClearOne(t) \/ Scan(t)
Spec == Init /\ [][Next]_vars

\* Where the retired object a is: in a guard or in the hands of a thread.
Places == [a \in Addr |-> {s \in Slot : kept[s].val = a} \cup {t \in Threads : a \in scan[t].vs}]
\* It is neither lost nor deleted twice.
OnePlace == OneOf(Places)
=============================================================================
