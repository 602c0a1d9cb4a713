------------------------- MODULE MCBackendSession -------------------------
(* Model-checking instance of BackendSession: two backends, so that one   *)
(* backend's calls interleave with the other's, and three registrations,  *)
(* enough for a re-registration after a lost reply and a restart.          *)
EXTENDS BackendSession, TLC

CONSTANTS b1, b2

MCBackends == {b1, b2}

Symmetry == Permutations(MCBackends)

=============================================================================
