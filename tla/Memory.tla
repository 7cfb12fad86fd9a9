------------------------------- MODULE Memory -------------------------------
(***************************************************************************)
(* Memory under a manual reclaimer (trackers/HazardPointers.hpp,           *)
(* PassThePointer.hpp, PassTheBuck.hpp): a thread publishes the addresses  *)
(* it is about to use in its hps, and hands what it has unlinked to        *)
(* retire().  The state of the memory is what the reclaimers promise of    *)
(* it: the module Reclaimer says what that is, and the modules of the      *)
(* three reclaimers show that they keep it.                                *)
(***************************************************************************)
EXTENDS Integers, Sequences, FiniteSets

CONSTANTS N,          \* how many threads are registered
          HPs,        \* maxHPs: the hps of a thread
          Addrs       \* bound: the addresses are 1 .. Addrs

ASSUME MemoryAssumption ==
    /\ N \in Nat \ {0}
    /\ HPs \in Nat \ {0}
    /\ Addrs \in Nat \ {0}

VARIABLES
    hp,         \* hp[s]: what the hp s, of a thread and an index, holds
    mem,        \* the state of the memory at each address
    since       \* since[a]: the hps that have held a ever since it was retired

mm == <<hp, mem, since>>

Threads == 0 .. N-1
Addr == 1 .. Addrs
Index == 0 .. HPs-1
Slot == Threads \X Index
Null == 0

InitMemory ==
    /\ hp = [s \in Slot |-> Null]
    /\ mem = [a \in Addr |-> "none"]
    /\ since = [a \in Addr |-> {}]

\* hp becomes h, and the nodes in R are retired.
Protections(h, R) ==
    /\ hp' = h
    /\ mem' = [a \in Addr |-> IF a \notin R THEN mem[a]
                              ELSE IF mem[a] = "used" THEN "retired" ELSE "twice"]
    /\ since' = [a \in Addr |-> {s \in Slot : h[s] = a /\ (a \in R \/ s \in since[a])}]

\* A store of v to an hp.
Publish(t, i, v) == Protections([hp EXCEPT ![<<t, i>>] = v], {})

\* protectPtrRelease() of what hp i holds into hp j, a higher one: who reads
\* the hps in their order finds it in one of the two.
CopyUp(t, i, j) ==
    /\ i < j
    /\ hp' = [hp EXCEPT ![<<t, j>>] = hp[<<t, i>>]]
    /\ since' = [a \in Addr |-> IF <<t, i>> \in since[a] THEN since[a] \cup {<<t, j>>}
                                ELSE since[a] \ {<<t, j>>}]
    /\ UNCHANGED mem

\* new.
Allocate(A) ==
    /\ mem' = [a \in Addr |-> IF a \in A THEN "used" ELSE mem[a]]
    /\ since' = [a \in Addr |-> IF a \in A THEN {} ELSE since[a]]
    /\ UNCHANGED hp

\* delete.
Delete(A) ==
    /\ mem' = [a \in Addr |-> IF a \in A THEN "none" ELSE mem[a]]
    /\ UNCHANGED <<hp, since>>
=============================================================================
