------------------------------ MODULE MCOrcGC -------------------------------
(* Instances of OrcGC: the structures the runs start from, the operations  *)
(* each thread uses and how many of them.                                  *)
EXTENDS OrcGCSafety

CONSTANTS o1, o2, o3, r1, r2, r3    \* the objects and the roots

\* The link graph l at the start; every other member is nullptr.
Linked(l) == [c \in Cell |-> IF c \in DOMAIN l THEN l[c] ELSE Null]

OneNode    == Linked([c \in {r1} |-> o1])
ThreeRoots == Linked([c \in {r1, r2, r3} |->
                        IF c = r1 THEN o1 ELSE IF c = r2 THEN o2 ELSE o3])
RootsAndLink == [ThreeRoots EXCEPT ![o1] = o3]

\* Programs of n operations, each of them one of S.
Times(n, S) == [k \in 1 .. n |-> S]

\* Threads that may do anything.
AnyCall == {"make", "load", "store", "reset", "cas", "poison", "copy", "assign"}
Everything == [t \in Threads |-> Times(2, AnyCall) \o IF t = 0 THEN <<>> ELSE <<{"load", "reset", "cas"}>>]

\* Thread 0 empties roots that the others load, each into an orc_ptr.
WriterReader ==
    [t \in Threads |-> IF t = 0 THEN Times(3, {"reset"})
                       ELSE Times(3, {"load"})]

\* Thread 1 moves a link to an object that thread 0 unlinks elsewhere.
MoveLink ==
    [t \in Threads |->
        IF t = 0 THEN Times(2, {"reset"})
                 ELSE <<{"load"}, {"store"}, {"reset"}, {"load"}, {"reset"}>>]

=============================================================================
