---------------------- MODULE MCLbReservationProofs ----------------------
(* The instance of MCLbReservation, with the inductive invariant of the   *)
(* proofs in scope so that TLC checks it before it is proved.             *)
EXTENDS MCLbReservation, LbReservationProofs

=============================================================================
