------------------------------ MODULE MCOrcPtr ------------------------------
(* Instances of OrcPtr.  Variables and objects are interchangeable.        *)
EXTENDS OrcPtr, TLC

Symmetry == Permutations(Var) \cup Permutations(Obj)

=============================================================================
