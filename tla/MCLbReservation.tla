------------------------- MODULE MCLbReservation --------------------------
(* Model-checking instance of LbReservation: two objects asking for the   *)
(* same LB name with different expiries, so that one's lost reply blocks  *)
(* the other's reservation until expiry; a clock that runs past both.     *)
EXTENDS LbReservation, TLC

CONSTANTS o1, o2, w1

MCObjs == {o1, o2}
MCLbName == [o \in MCObjs |-> "test"]
MCUntil == (o1 :> 1) @@ (o2 :> 2)
MCWorkers == {w1}
MCFills == {"f50"}

(* 129.57.29.231 as control-plane address; the control plane may report  *)
(* no sync address, 10.0.0.1, or a full-length IPv6 literal.              *)
MCCpAddr == [kind |-> "v4", len |-> 13]
MCSyncReplies == {[kind |-> "none", len |-> 0], [kind |-> "v4", len |-> 8],
                  [kind |-> "v6", len |-> 39]}

=============================================================================
