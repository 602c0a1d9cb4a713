---------------------- MODULE MCBackendSessionProofs ----------------------
(* Model-checking instance used to check, before proving it, that the    *)
(* strengthened invariant IInv of BackendSessionProofs holds.             *)
EXTENDS BackendSessionProofs, TLC

CONSTANTS b1, b2

MCBackends == {b1, b2}

Symmetry == Permutations(MCBackends)

=============================================================================
