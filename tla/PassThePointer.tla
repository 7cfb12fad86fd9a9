--------------------------- MODULE PassThePointer ---------------------------
(***************************************************************************)
(* trackers/PassThePointer.hpp: retire() hands the object over to an hp    *)
(* that holds it, takes what was handed over there before, and goes on     *)
(* with that; what no hp holds it deletes.                                 *)
(***************************************************************************)
EXTENDS ReclaimerClient

\* kept: handovers.  scan[t]: the object in the hand of t, the hp to look
\* at next, and the next and the last hp whose handover clear() takes.
NoScan == [ptr |-> Null, it |-> 0, ihp |-> 0, take |-> 0, last |-> HPs - 1]

Init ==
    /\ InitClient
    /\ kept = [s \in Slot |-> Null]
    /\ scan = [t \in Threads |-> NoScan]

Quiet == UNCHANGED <<mm, program, kept>>

\* clear() sets all hps of the thread to null before it takes the handovers.
Clear(t) ==
    \/ At(t, "idle") /\ Goto(t, "clear") /\ Quiet /\ UNCHANGED scan
    \/ /\ At(t, "clear") /\ ClearHp(t, scan[t].ihp)
       /\ IF scan[t].ihp + 1 < HPs
          THEN scan' = [scan EXCEPT ![t].ihp = @ + 1] /\ UNCHANGED pc
          ELSE scan' = [scan EXCEPT ![t] = NoScan] /\ Goto(t, "take")

ClearOne(t) == \E i \in Index :
    /\ At(t, "idle") /\ Goto(t, "take") /\ ClearHp(t, i)
    /\ scan' = [scan EXCEPT ![t].take = i, ![t].last = i]

\* clear() goes on with hp i, or ends.
TakeNext(t, i) ==
    LET last == scan[t].last
    IN  /\ scan' = [scan EXCEPT ![t] = IF i <= last THEN [NoScan EXCEPT !.take = i, !.last = last]
                                       ELSE NoScan]
        /\ Goto(t, IF i <= last THEN "take" ELSE "idle")
TakeLook(t) ==
    /\ At(t, "take")
    /\ IF kept[<<t, scan[t].take>>] # Null THEN Goto(t, "take_exchange") /\ UNCHANGED scan
       ELSE TakeNext(t, scan[t].take + 1)
    /\ Quiet
\* The rows before that of t have been passed by who handed the object over.
Take(t) ==
    LET s == <<t, scan[t].take>>
    IN  /\ At(t, "take_exchange")
        /\ IF kept[s] = Null THEN TakeNext(t, scan[t].take + 1)
           ELSE /\ Goto(t, "look")
                /\ scan' = [scan EXCEPT ![t] = [scan[t] EXCEPT !.ptr = kept[s], !.it = t,
                                                               !.ihp = 0, !.take = @ + 1]]
        /\ kept' = [kept EXCEPT ![s] = Null]
        /\ UNCHANGED <<mm, program>>

Retire(t) ==
    /\ At(t, "retire") /\ Goto(t, "look")
    /\ Protections(hp, {loc[t].ptr})
    /\ scan' = [scan EXCEPT ![t] = [NoScan EXCEPT !.ptr = loc[t].ptr, !.take = HPs]]
    /\ loc' = [loc EXCEPT ![t] = NoLocals]
    /\ UNCHANGED <<link, valid, kept>>

(* handoverOrDelete(). *)

Here(t) == <<scan[t].it, scan[t].ihp>>
Forward(t) ==
    LET next == Following(scan[t].it, scan[t].ihp)
    IN  /\ scan' = [scan EXCEPT ![t].it = next[1], ![t].ihp = next[2]]
        /\ Goto(t, IF next[1] < N THEN "look" ELSE "delete")
Look(t) ==
    /\ At(t, "look")
    /\ IF hp[Here(t)] = scan[t].ptr THEN Goto(t, "handover") /\ UNCHANGED scan ELSE Forward(t)
    /\ Quiet
\* Mutant: what was handed over before is dropped.
HandoverDrops(t) ==
    /\ At(t, "handover")
    /\ kept' = [kept EXCEPT ![Here(t)] = scan[t].ptr]
    /\ TakeNext(t, scan[t].take)
    /\ UNCHANGED <<mm, program>>

Handover(t) ==
    LET old == kept[Here(t)]
    IN  /\ At(t, "handover")
        /\ kept' = [kept EXCEPT ![Here(t)] = scan[t].ptr]
        /\ IF old = Null THEN TakeNext(t, scan[t].take)
           ELSE scan' = [scan EXCEPT ![t].ptr = old] /\ Goto(t, "look_again")
        /\ UNCHANGED <<mm, program>>
LookAgain(t) ==
    /\ At(t, "look_again")
    /\ IF hp[Here(t)] = scan[t].ptr THEN Goto(t, "look") /\ UNCHANGED scan ELSE Forward(t)
    /\ Quiet
DeleteObj(t) ==
    /\ At(t, "delete") /\ TakeNext(t, scan[t].take)
    /\ Delete({scan[t].ptr})
    /\ UNCHANGED <<program, kept>>

Scan(t) ==
    \/ Retire(t) \/ Look(t) \/ Handover(t) \/ LookAgain(t) \/ DeleteObj(t)
    \/ TakeLook(t) \/ Take(t)
Next == \E t \in Threads : Client(t) \/ Clear(t) \/ ClearOne(t) \/ Scan(t)
Spec == Init /\ [][Next]_vars

\* Where the retired object a is: in a handover or in the hands of a thread.
Places == [a \in Addr |-> {s \in Slot : kept[s] = a} \cup {t \in Threads : scan[t].ptr = a}]
\* It is neither lost nor deleted twice.
OnePlace == OneOf(Places)
=============================================================================
