------------------------------ MODULE MCFacade ------------------------------
(* Model values for the runs of Facade.                                      *)
EXTENDS Facade, TLC

CONSTANTS r1, r2, k1, k2

Symmetry == Permutations(Requests) \cup Permutations(Closers)

=============================================================================
