------------------------ MODULE ReservationContract ------------------------
(***************************************************************************)
(* What a reservation client promises, stated from spec.md (3, 4.2, 8.3,   *)
(* 8.8) without the code: the control plane grants LB ids as leases on a  *)
(* name, a fresh id each time, only for an expiry not yet past and only   *)
(* while no live lease holds the name; a lease ends by Free or expiry.    *)
(* An object's granted state (the flag and the LB id) changes only when   *)
(* a grant to it succeeds, and then to exactly the id granted; a failed   *)
(* call, including one whose grant the control plane applied but whose    *)
(* reply was lost, leaves it intact.                                       *)
(*                                                                         *)
(* LbReservation implements this specification under the mapping given   *)
(* there (ReservationContractSpec).                                        *)
(***************************************************************************)
EXTENDS Naturals

CONSTANTS
    Objs,      \* reservation objects
    Names,     \* LB names
    LbName,    \* LbName[o]: the name object o asks for
    Until,     \* Until[o]: the expiry second object o asks for
    Ids,       \* LB ids the control plane may grant
    MaxTime    \* bound on the wall clock

VARIABLES
    now,       \* wall-clock second
    granted,   \* granted[o]: a reservation by o has succeeded
    held,      \* held[o]: the LB id o stored (0 before any)
    issued,    \* ids the control plane has granted so far
    live,      \* ids whose lease has not ended
    nameOf     \* nameOf[i]: the name lease i was granted for

cvars == <<now, granted, held, issued, live, nameOf>>

NoId == 0

Init ==
    /\ now = 0
    /\ granted = [o \in Objs |-> FALSE]
    /\ held = [o \in Objs |-> NoId]
    /\ issued = {}
    /\ live = {}
    /\ nameOf = [i \in Ids |-> "-"]

(* A grant of a fresh id i to object o; the reply reaches o, or is lost   *)
(* and o keeps what it had.                                                *)
Grant(o, i) ==
    /\ i \in Ids \ issued
    /\ now <= Until[o]
    /\ \A j \in live : nameOf[j] # LbName[o]
    /\ issued' = issued \cup {i}
    /\ live' = live \cup {i}
    /\ nameOf' = [nameOf EXCEPT ![i] = LbName[o]]
    /\ \/ /\ granted' = [granted EXCEPT ![o] = TRUE]
          /\ held' = [held EXCEPT ![o] = i]
       \/ UNCHANGED <<granted, held>>
    /\ UNCHANGED now

(* A lease ends, by Free or by expiry; no object's granted state changes. *)
Release(i) ==
    /\ i \in live
    /\ live' = live \ {i}
    /\ UNCHANGED <<now, granted, held, issued, nameOf>>

Tick ==
    /\ now < MaxTime
    /\ now' = now + 1
    /\ UNCHANGED <<granted, held, issued, live, nameOf>>

Next ==
    \/ \E o \in Objs, i \in Ids : Grant(o, i)
    \/ \E i \in Ids : Release(i)
    \/ Tick

SafetySpec == Init /\ [][Next]_cvars

Spec == SafetySpec /\ WF_cvars(Tick)

=============================================================================
