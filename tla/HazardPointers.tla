--------------------------- MODULE HazardPointers ---------------------------
(***************************************************************************)
(* trackers/HazardPointers.hpp: retire() puts the object into the list of  *)
(* its thread, and then deletes every object of the list which it does not *)
(* find in any hp.  HP_THRESHOLD_R is 0, so each retire() does.            *)
(***************************************************************************)
EXTENDS ReclaimerClient

\* kept[t]: retiredList of t; scan[t]: the object and the hp to look at next.
NoScan == [iret |-> 1, it |-> 0, ihp |-> 0]

Init ==
    /\ InitClient
    /\ kept = [t \in Threads |-> <<>>]
    /\ scan = [t \in Threads |-> NoScan]

Clear(t) ==
    \/ At(t, "idle") /\ Goto(t, "clear") /\ UNCHANGED <<mm, program, reclaimer>>
    \/ /\ At(t, "clear") /\ ClearHp(t, scan[t].ihp)
       /\ IF scan[t].ihp + 1 < HPs
          THEN scan' = [scan EXCEPT ![t].ihp = @ + 1] /\ UNCHANGED pc
          ELSE scan' = [scan EXCEPT ![t] = NoScan] /\ Goto(t, "idle")

Obj(t) == kept[t][scan[t].iret]

\* The loop of retire() goes on with object iret, or ends.
Round(t, list, iret) ==
    /\ scan' = [scan EXCEPT ![t] = IF iret <= Len(list) THEN [NoScan EXCEPT !.iret = iret]
                                   ELSE NoScan]
    /\ Goto(t, IF iret <= Len(list) THEN "look" ELSE "idle")

Retire(t) ==
    LET list == Append(kept[t], loc[t].ptr)
    IN  /\ At(t, "retire") /\ Round(t, list, 1)
        /\ Protections(hp, {loc[t].ptr})
        /\ kept' = [kept EXCEPT ![t] = list]
        /\ loc' = [loc EXCEPT ![t] = NoLocals]
        /\ UNCHANGED <<link, valid>>

\* Mutants: the hps of the last thread are left out; an object that is in
\* use is looked for again at once.
LookShort(t) ==
    LET s == <<scan[t].it, scan[t].ihp>>
        next == Following(scan[t].it, scan[t].ihp)
    IN  /\ At(t, "look")
        /\ IF hp[s] = Obj(t) THEN Round(t, kept[t], scan[t].iret + 1)
           ELSE /\ Goto(t, IF next[1] < N - 1 THEN "look" ELSE "delete")
                /\ scan' = [scan EXCEPT ![t].it = next[1], ![t].ihp = next[2]]
        /\ UNCHANGED <<mm, program, kept>>
LookAgain(t) ==
    LET s == <<scan[t].it, scan[t].ihp>>
        next == Following(scan[t].it, scan[t].ihp)
    IN  /\ At(t, "look")
        /\ IF hp[s] = Obj(t) THEN Round(t, kept[t], scan[t].iret)
           ELSE /\ Goto(t, IF next[1] < N THEN "look" ELSE "delete")
                /\ scan' = [scan EXCEPT ![t].it = next[1], ![t].ihp = next[2]]
        /\ UNCHANGED <<mm, program, kept>>

Look(t) ==
    LET s == <<scan[t].it, scan[t].ihp>>
        next == Following(scan[t].it, scan[t].ihp)
    IN  /\ At(t, "look")
        /\ IF hp[s] = Obj(t) THEN Round(t, kept[t], scan[t].iret + 1)
           ELSE /\ Goto(t, IF next[1] < N THEN "look" ELSE "delete")
                /\ scan' = [scan EXCEPT ![t].it = next[1], ![t].ihp = next[2]]
        /\ UNCHANGED <<mm, program, kept>>

DeleteObj(t) ==
    LET i == scan[t].iret
        list == [j \in 1 .. Len(kept[t]) - 1 |-> kept[t][IF j < i THEN j ELSE j + 1]]
    IN  /\ At(t, "delete") /\ Round(t, list, i)
        /\ Delete({Obj(t)})
        /\ kept' = [kept EXCEPT ![t] = list]
        /\ UNCHANGED program

Scan(t) == Retire(t) \/ Look(t) \/ DeleteObj(t)
Next == \E t \in Threads : Client(t) \/ Clear(t) \/ Scan(t)
Spec == Init /\ [][Next]_vars

\* Where the retired object a is: thread and place in its list.
Places == [a \in Addr |-> {p \in UNION {{t} \X DOMAIN kept[t] : t \in Threads} :
                             kept[p[1]][p[2]] = a}]
\* A retired object is in one list: it is neither lost nor deleted twice.
OnePlace == OneOf(Places)
=============================================================================
