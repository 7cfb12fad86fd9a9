------------------------------ MODULE Reclaimer ------------------------------
(***************************************************************************)
(* What a manual reclaimer promises: it deletes retired objects only, each *)
(* once, and none that an hp has held ever since it was retired.  It is    *)
(* what the lock-free data structures rest on, see LockFree.               *)
(***************************************************************************)
EXTENDS Memory

Store == \E s \in Slot, v \in Addr \cup {Null} : Publish(s[1], s[2], v)
Copy == \E t \in Threads, i, j \in Index : CopyUp(t, i, j)
New == \E a \in Addr : mem[a] = "none" /\ Allocate({a})
Retire == \E a \in Addr : mem[a] = "used" /\ Protections(hp, {a})
Reclaim == \E a \in Addr : mem[a] = "retired" /\ since[a] = {} /\ Delete({a})

Next == Store \/ Copy \/ New \/ Retire \/ Reclaim
Spec == InitMemory /\ [][Next]_mm
=============================================================================
