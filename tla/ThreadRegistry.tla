--------------------------- MODULE ThreadRegistry ---------------------------
(***************************************************************************)
(* The registry of threads of common/ThreadRegistry.hpp: every thread that *)
(* calls ThreadRegistry::getTID() takes a free entry of usedTID[] with a   *)
(* CAS and raises maxTid until it covers the entry; its destructor frees   *)
(* the entry.  All the reclamation schemes index their arrays by the tid   *)
(* and scan the rows 0 .. getMaxThreads()-1, so they rely on tids being    *)
(* unique among live threads and on maxTid covering each of them.          *)
(*                                                                         *)
(* Every access to a shared atomic is an action of its own.  An element of *)
(* Threads stands for a live C++ thread; when one dies another may be born *)
(* in its place, so |Threads| bounds the threads alive at the same time.   *)
(***************************************************************************)
EXTENDS Integers, FiniteSets

CONSTANTS Threads,   \* the threads that may be alive at the same time
          N          \* REGISTRY_MAX_THREADS

(***************************************************************************)
(* The registry holds N entries: no more than N threads may be alive.      *)
(***************************************************************************)
ASSUME NAssumption == N \in Nat \ {0}
ASSUME ThreadsAssumption == IsFiniteSet(Threads) /\ Cardinality(Threads) <= N

NotAssigned == -1    \* ThreadCheckInCheckOut::NOT_ASSIGNED

VARIABLES usedTID,   \* usedTID[i]: entry i belongs to a live thread
          maxTid,    \* highest tid ever in use, plus one (-1 before any)
          tid,       \* tid[t]: the thread-local tl_tcico.tid of t
          pc,        \* where t is in register_thread_new()
          slot,      \* t's loop variable, the entry it is looking at
          curMax     \* t's local copy of maxTid

vars == <<usedTID, maxTid, tid, pc, slot, curMax>>

Slots == 0 .. N-1

TypeOK ==
    /\ usedTID \in [Slots -> BOOLEAN]
    /\ maxTid \in {-1} \cup 1 .. N
    /\ tid \in [Threads -> {NotAssigned} \cup Slots]
    /\ pc \in [Threads -> {"unborn", "load", "cas", "max", "casmax", "live", "full"}]
    /\ slot \in [Threads -> 0 .. N]
    /\ curMax \in [Threads -> {-1} \cup 1 .. N]

Init ==
    /\ usedTID = [i \in Slots |-> FALSE]
    /\ maxTid = -1
    /\ tid = [t \in Threads |-> NotAssigned]
    /\ pc = [t \in Threads |-> "unborn"]
    /\ slot = [t \in Threads |-> 0]
    /\ curMax = [t \in Threads |-> -1]

-----------------------------------------------------------------------------

(***************************************************************************)
(* getTID() of a thread that has no tid yet: enter register_thread_new().  *)
(* A thread that has one returns it and changes nothing.                   *)
(***************************************************************************)
GetTID(t) ==
    /\ pc[t] = "unborn"
    /\ tid[t] = NotAssigned
    /\ pc' = [pc EXCEPT ![t] = "load"]
    /\ slot' = [slot EXCEPT ![t] = 0]
    /\ UNCHANGED <<usedTID, maxTid, tid, curMax>>

\* Mutant: a thread that finds an entry used starts again.
NextSlotRestart(t) ==
    /\ slot' = [slot EXCEPT ![t] = 0]
    /\ pc' = [pc EXCEPT ![t] = "load"]

(***************************************************************************)
(* `continue' of the for loop: the next entry, or the error at its end.    *)
(***************************************************************************)
NextSlot(t) ==
    /\ slot' = [slot EXCEPT ![t] = @ + 1]
    /\ pc' = [pc EXCEPT ![t] = IF slot[t] + 1 < N THEN "load" ELSE "full"]

LoadUsed(t) ==
    /\ pc[t] = "load"
    /\ \/ /\ usedTID[slot[t]]
          /\ NextSlot(t)
       \/ /\ ~usedTID[slot[t]]
          /\ pc' = [pc EXCEPT ![t] = "cas"]
          /\ UNCHANGED slot
    /\ UNCHANGED <<usedTID, maxTid, tid, curMax>>

\* Mutant: the entry is taken with a store, not a CAS.
StoreUsed(t) ==
    /\ pc[t] = "cas"
    /\ usedTID' = [usedTID EXCEPT ![slot[t]] = TRUE]
    /\ pc' = [pc EXCEPT ![t] = "max"]
    /\ UNCHANGED <<maxTid, tid, slot, curMax>>

CasUsed(t) ==
    /\ pc[t] = "cas"
    /\ \/ /\ usedTID[slot[t]]
          /\ NextSlot(t)
          /\ UNCHANGED usedTID
       \/ /\ ~usedTID[slot[t]]
          /\ usedTID' = [usedTID EXCEPT ![slot[t]] = TRUE]
          /\ pc' = [pc EXCEPT ![t] = "max"]
          /\ UNCHANGED slot
    /\ UNCHANGED <<maxTid, tid, curMax>>

\* Mutant: an off-by-one in the test of the while loop.
LoadMaxOff(t) ==
    /\ pc[t] = "max"
    /\ curMax' = [curMax EXCEPT ![t] = maxTid]
    /\ \/ /\ maxTid < slot[t]
          /\ pc' = [pc EXCEPT ![t] = "casmax"]
          /\ UNCHANGED tid
       \/ /\ maxTid >= slot[t]
          /\ tid' = [tid EXCEPT ![t] = slot[t]]
          /\ pc' = [pc EXCEPT ![t] = "live"]
    /\ UNCHANGED <<usedTID, maxTid, slot>>

(***************************************************************************)
(* curMax = maxTid.load(), the test of the while loop, and after the loop  *)
(* the assignment of the thread-local tid.                                 *)
(***************************************************************************)
LoadMax(t) ==
    /\ pc[t] = "max"
    /\ curMax' = [curMax EXCEPT ![t] = maxTid]
    /\ \/ /\ maxTid <= slot[t]
          /\ pc' = [pc EXCEPT ![t] = "casmax"]
          /\ UNCHANGED tid
       \/ /\ maxTid > slot[t]
          /\ tid' = [tid EXCEPT ![t] = slot[t]]
          /\ pc' = [pc EXCEPT ![t] = "live"]
    /\ UNCHANGED <<usedTID, maxTid, slot>>

\* Mutant: maxTid is set with a store, not a CAS.
StoreMax(t) ==
    /\ pc[t] = "casmax"
    /\ maxTid' = slot[t] + 1
    /\ pc' = [pc EXCEPT ![t] = "max"]
    /\ UNCHANGED <<usedTID, tid, slot, curMax>>

\* Mutant: an off-by-one in the new value.
CasMaxOff(t) ==
    /\ pc[t] = "casmax"
    /\ maxTid' = IF maxTid = curMax[t] THEN slot[t] + 2 ELSE maxTid
    /\ pc' = [pc EXCEPT ![t] = "max"]
    /\ UNCHANGED <<usedTID, tid, slot, curMax>>

CasMax(t) ==
    /\ pc[t] = "casmax"
    /\ maxTid' = IF maxTid = curMax[t] THEN slot[t] + 1 ELSE maxTid
    /\ pc' = [pc EXCEPT ![t] = "max"]
    /\ UNCHANGED <<usedTID, tid, slot, curMax>>

\* Mutant: the entry of a thread that ends stays in use.
DeregisterLeaks(t) ==
    /\ pc[t] = "live"
    /\ tid' = [tid EXCEPT ![t] = NotAssigned]
    /\ pc' = [pc EXCEPT ![t] = "unborn"]
    /\ slot' = [slot EXCEPT ![t] = 0]
    /\ UNCHANGED <<usedTID, maxTid, curMax>>

(***************************************************************************)
(* The thread ends: ~ThreadCheckInCheckOut() frees the entry.              *)
(***************************************************************************)
Deregister(t) ==
    /\ pc[t] = "live"
    /\ usedTID' = [usedTID EXCEPT ![tid[t]] = FALSE]
    /\ tid' = [tid EXCEPT ![t] = NotAssigned]
    /\ pc' = [pc EXCEPT ![t] = "unborn"]
    /\ slot' = [slot EXCEPT ![t] = 0]
    /\ UNCHANGED <<maxTid, curMax>>

Register(t) == LoadUsed(t) \/ CasUsed(t) \/ LoadMax(t) \/ CasMax(t)

Next == \E t \in Threads : GetTID(t) \/ Register(t) \/ Deregister(t)

Spec == Init /\ [][Next]_vars

(***************************************************************************)
(* A thread inside register_thread_new() is not suspended for ever.        *)
(* Nothing obliges a thread to start or to end.                            *)
(***************************************************************************)
FairSpec == Spec /\ \A t \in Threads : WF_vars(Register(t))

-----------------------------------------------------------------------------

(***************************************************************************)
(* t owns entry slot[t]: its CAS on usedTID succeeded.                     *)
(***************************************************************************)
Owns(t) == pc[t] \in {"max", "casmax", "live"}

(***************************************************************************)
(* Two live threads never have the same tid, whatever the interleaving of  *)
(* their load and CAS on usedTID with threads that end.                    *)
(***************************************************************************)
UniqueTid ==
    \A t, u \in Threads :
        t # u /\ tid[t] # NotAssigned => tid[t] # tid[u]

(***************************************************************************)
(* A tid that getTID() returned is in 0 .. getMaxThreads()-1 from then on: *)
(* a scan of the rows that starts later does not miss the thread, even     *)
(* when two registrations race in the CAS loop on maxTid.                  *)
(***************************************************************************)
MaxCoversLive == \A t \in Threads : tid[t] < maxTid \/ tid[t] = NotAssigned

(***************************************************************************)
(* The assert(false) of register_thread_new() is out of reach as long as   *)
(* at most N threads are alive, although a thread that scans usedTID may   *)
(* pass an entry that is freed right behind it.                            *)
(***************************************************************************)
NeverFull == \A t \in Threads : pc[t] # "full"

(***************************************************************************)
(* Why NeverFull holds: the threads that own or look at an entry from k on *)
(* are at most the N-k entries from k on.                                  *)
(***************************************************************************)
AtOrBeyond(k) == {t \in Threads : pc[t] # "unborn" /\ slot[t] >= k}

Crowd == \A k \in 0 .. N : Cardinality(AtOrBeyond(k)) <= N - k

(***************************************************************************)
(* maxTid never decreases, so a row that a scan had to visit once has to   *)
(* be visited for ever: handovers left there by a dead thread are found.   *)
(***************************************************************************)
MaxNeverShrinks == [][maxTid' >= maxTid]_vars

(***************************************************************************)
(* register_thread_new() is wait-free: a thread that entered it gets a tid *)
(* whatever the others do, as the comment on it promises.                  *)
(***************************************************************************)
RegistrationEnds == \A t \in Threads : pc[t] = "load" ~> pc[t] = "live"

(***************************************************************************)
(* The inductive invariant behind UniqueTid, MaxCoversLive and NeverFull:  *)
(* what a thread knows of its own locals, that no entry has two owners,    *)
(* and that an entry is TRUE only while it has one.                        *)
(***************************************************************************)
LocalInv(t) ==
    /\ pc[t] \in {"load", "cas", "max", "casmax", "live"} => slot[t] < N
    /\ Owns(t) => usedTID[slot[t]]
    /\ IF pc[t] = "live" THEN tid[t] = slot[t] /\ slot[t] < maxTid
                         ELSE tid[t] = NotAssigned
    /\ pc[t] = "full" => slot[t] = N
    /\ pc[t] = "casmax" => curMax[t] <= slot[t]

OneOwner ==
    \A t, u \in Threads : t # u /\ Owns(t) /\ Owns(u) => slot[t] # slot[u]

HasOwner ==
    \A i \in Slots : usedTID[i] => \E t \in Threads : Owns(t) /\ slot[t] = i

OwnInv == (\A t \in Threads : LocalInv(t)) /\ OneOwner /\ HasOwner

RegistryInv == TypeOK /\ OwnInv /\ Crowd

=============================================================================
