---------------------------- MODULE MCReclaimers ----------------------------
(***************************************************************************)
(* Instances of the three manual reclaimers for TLC: few threads with many *)
(* objects, several hps per thread, and (PassThePointer, where a handover  *)
(* may go from thread to thread) a third thread.                           *)
(***************************************************************************)
EXTENDS Integers, Sequences, FiniteSets

CONSTANTS Cases, Links

VARIABLES case, hp, mem, since, link, kept, valid, pc, loc, scan
vars == <<case, hp, mem, since, link, kept, valid, pc, loc, scan>>

Both == {0, 1}
HP == INSTANCE HazardPointers WITH N <- 2, HPs <- 1, Addrs <- 3, Readers <- Both, Writers <- Both
HP2 == INSTANCE HazardPointers WITH N <- 2, HPs <- 2, Addrs <- 2, Readers <- {0}, Writers <- Both
PTP == INSTANCE PassThePointer WITH N <- 2, HPs <- 1, Addrs <- 3, Readers <- Both, Writers <- Both
PTP2 == INSTANCE PassThePointer WITH N <- 2, HPs <- 2, Addrs <- 2, Readers <- {0}, Writers <- Both
PTP3 == INSTANCE PassThePointer WITH N <- 3, HPs <- 1, Addrs <- 2, Readers <- Both, Writers <- {2}
PTB == INSTANCE PassTheBuck WITH N <- 2, HPs <- 1, Addrs <- 2, Readers <- Both, Writers <- Both

Init ==
    /\ case \in Cases
    /\ CASE case = "hp"   -> HP!Init
         [] case = "hp2"  -> HP2!Init
         [] case = "ptp"  -> PTP!Init
         [] case = "ptp2" -> PTP2!Init
         [] case = "ptp3" -> PTP3!Init
         [] case = "ptb"  -> PTB!Init
Next ==
    /\ UNCHANGED case
    /\ \/ case = "hp" /\ HP!Next
       \/ case = "hp2" /\ HP2!Next
       \/ case = "ptp" /\ PTP!Next
       \/ case = "ptp2" /\ PTP2!Next
       \/ case = "ptp3" /\ PTP3!Next
       \/ case = "ptb" /\ PTB!Next
Spec == Init /\ [][Next]_vars

Scan(t) ==
    /\ t \in DOMAIN pc /\ UNCHANGED case
    /\ CASE case = "hp"   -> HP!Scan(t)
         [] case = "hp2"  -> HP2!Scan(t)
         [] case = "ptp"  -> PTP!Scan(t)
         [] case = "ptp2" -> PTP2!Scan(t)
         [] case = "ptp3" -> PTP3!Scan(t)
         [] case = "ptb"  -> PTB!Scan(t)
-----------------------------------------------------------------------------

\* What a thread has protected, and not released since, is not deleted.
NoUseAfterFree == HP!NoUseAfterFree

\* A retired object is in one list, in one handover or in the hands of one
\* thread: it is neither lost nor deleted twice.
OnePlace ==
    CASE case = "hp"   -> HP!OnePlace
      [] case = "hp2"  -> HP2!OnePlace
      [] case = "ptp"  -> PTP!OnePlace
      [] case = "ptp2" -> PTP2!OnePlace
      [] case = "ptp3" -> PTP3!OnePlace
      [] case = "ptb"  -> PTB!OnePlace

\* The reclaimers implement what the data structures rely on.
Padded(f, S, x) == [s \in S |-> IF s \in DOMAIN f THEN f[s] ELSE x]
R == INSTANCE Reclaimer WITH N <- 3, HPs <- 2, Addrs <- 3,
        hp <- Padded(hp, (0 .. 2) \X (0 .. 1), 0),
        mem <- Padded(mem, 1 .. 3, "none"),
        since <- Padded(since, 1 .. 3, {})
Promise == R!Spec

\* Of the threads that keep on reclaiming, always one ends its call.
NonBlocking ==
    \A t \in 0 .. 2 : []<><<Scan(t)>>_vars =>
        []<><<\E u \in DOMAIN pc : pc[u] # "idle" /\ pc'[u] = "idle">>_vars
=============================================================================
