--------------------------- MODULE LbReservation ---------------------------
(***************************************************************************)
(* The reservation client of lb_cplane.cc: LbReservation objects calling  *)
(* ReserveLoadBalancer, FreeLoadBalancer and LoadBalancerStatus on the    *)
(* control plane, and the local predicates reservationElapsed() and       *)
(* reserved() over the wall clock.                                         *)
(*                                                                         *)
(* Each object is built by the constructor with a control-plane address,  *)
(* an LB name and an expiry second (until); those never change.  Every    *)
(* call is one blocking gRPC exchange; the object changes its fields only *)
(* when status.ok().                                                       *)
(*                                                                         *)
(* The control plane is not in this repository.  Its reservation table is *)
(* modelled from spec.md (4.2, 6, 9): a reservation has a fresh LB id, the *)
(* name and expiry of the request and the sync address the control plane  *)
(* reports; a name held by a live reservation cannot be reserved again; a *)
(* request whose expiry is already past is refused; a reservation ends by *)
(* Free or by expiry.  The workers of an LB are the backends' records,     *)
(* which here change by environment steps (module BackendSession models    *)
(* how).                                                                   *)
(*                                                                         *)
(* An address is abstracted to its family and its length in characters,   *)
(* the two things the code looks at.                                       *)
(***************************************************************************)
EXTENDS Naturals

CONSTANTS
    Objs,        \* LbReservation objects
    LbName,      \* LbName[o]: the name object o was constructed with
    Until,       \* Until[o]: untilSeconds of object o
    CpAddr,      \* the control-plane address every object was given
    SyncReplies, \* sync addresses the control plane may report
    Workers,     \* names of the backends that may join an LB
    Fills,       \* abstract worker statistics values
    MaxLbs,      \* bound on the reservations the control plane grants
    MaxTime      \* bound on the wall clock, in seconds

Addrs == [kind : {"none", "v4", "v6", "host"}, len : Nat]

ASSUME ObjsAssumption == Objs # {}
ASSUME UntilAssumption == Until \in [Objs -> Nat]
ASSUME CpAddrAssumption == CpAddr \in Addrs /\ CpAddr.len > 0
ASSUME SyncRepliesAssumption == SyncReplies \subseteq Addrs
ASSUME MaxLbsAssumption == MaxLbs \in Nat
ASSUME MaxTimeAssumption == MaxTime \in Nat

VARIABLES
    now,           \* wall clock: tv_sec of clock_gettime(CLOCK_REALTIME)
    isReserved,    \* LbReservation::isReserved, per object
    lbId,          \* LbReservation::lbId, per object (0: empty string)
    syncIpAddress, \* LbReservation::syncIpAddress, per object
    clientStats,   \* LbReservation::clientStats, per object
    lbs,           \* control plane: LB id -> reservation
    workers,       \* control plane: LB id -> worker name -> statistics
    nextLb,        \* control plane: next fresh LB id
    callerStats    \* the map a caller passes to static LoadBalancerStatus

vars == <<now, isReserved, lbId, syncIpAddress, clientStats, lbs, workers, nextLb,
          callerStats>>

-----------------------------------------------------------------------------
NoLb == 0                                  \* the empty lbId string
LbIds == 1..MaxLbs
NoAddr == [kind |-> "none", len |-> 0]     \* the empty address string
NoStats == "absent"                        \* no entry under this key

(* A reservation in the control plane's table. *)
LbStates == {"unused", "held", "freed", "expired"}
Reservations == [state : LbStates, name : {LbName[o] : o \in Objs} \cup {"-"},
                 until : Nat, sync : SyncReplies \cup {NoAddr}]
Unused == [state |-> "unused", name |-> "-", until |-> 0, sync |-> NoAddr]

TypeOK ==
    /\ now \in 0..MaxTime
    /\ isReserved \in [Objs -> BOOLEAN]
    /\ lbId \in [Objs -> {NoLb} \cup LbIds]
    /\ syncIpAddress \in [Objs -> SyncReplies \cup {NoAddr, CpAddr}]
    /\ clientStats \in [Objs -> [Workers -> Fills \cup {NoStats}]]
    /\ lbs \in [LbIds -> Reservations]
    /\ workers \in [LbIds -> [Workers -> Fills \cup {NoStats}]]
    /\ nextLb \in 1..(MaxLbs + 1)
    /\ callerStats \in [Workers -> Fills \cup {NoStats}]

-----------------------------------------------------------------------------
(* reservationElapsed(): now.tv_sec > untilSeconds. *)
ReservationElapsed(o) == now > Until[o]

(* reserved(): isReserved && !reservationElapsed(). *)
Reserved(o) == isReserved[o] /\ ~ReservationElapsed(o)

(* Mutant: the earlier revision, which stored the reply as it came.       *)
SyncFallbackOld(syncIP) == syncIP

(* The sync-address work-around of ReserveLoadBalancer: an empty reply,   *)
(* or any reply shorter than 16 characters, is replaced by cpAddr.        *)
SyncFallback(syncIP) ==
    IF syncIP.len = 0 \/ syncIP.len < 16 THEN CpAddr ELSE syncIP

(* The control plane's answer to a reservation request (spec-modelled).   *)
(* It issues ids in order and never reuses one (i = nextLb).  spec.md     *)
(* promises fresh ids only for sessions, so this is an assumption about   *)
(* the control plane: with id reuse a stale lbId could name another       *)
(* object's later lease, a case this model does not reach.                *)
CpReserve(o, i, s) ==
    /\ i = nextLb
    /\ nextLb <= MaxLbs
    /\ now <= Until[o]
    /\ \A j \in LbIds : ~(lbs[j].state = "held" /\ lbs[j].name = LbName[o])
    /\ lbs' = [lbs EXCEPT ![i] = [state |-> "held", name |-> LbName[o],
                                  until |-> Until[o], sync |-> s]]
    /\ nextLb' = nextLb + 1

-----------------------------------------------------------------------------
(* Objects as constructed: nothing reserved, every string empty.           *)
Init ==
    /\ now = 0
    /\ isReserved = [o \in Objs |-> FALSE]
    /\ lbId = [o \in Objs |-> NoLb]
    /\ syncIpAddress = [o \in Objs |-> NoAddr]
    /\ clientStats = [o \in Objs |-> [w \in Workers |-> NoStats]]
    /\ lbs = [i \in LbIds |-> Unused]
    /\ workers = [i \in LbIds |-> [w \in Workers |-> NoStats]]
    /\ nextLb = 1
    /\ callerStats = [w \in Workers |-> NoStats]

(* Mutant: the (empty) reply of a failed call is stored, as if the early  *)
(* return on !status.ok() were missing.                                    *)
ReserveIgnoresStatus(o) ==
    /\ UNCHANGED <<now, workers, clientStats, callerStats>>
    /\ \/ /\ UNCHANGED <<lbs, nextLb>>
          /\ isReserved' = [isReserved EXCEPT ![o] = TRUE]
          /\ lbId' = [lbId EXCEPT ![o] = NoLb]
          /\ syncIpAddress' = [syncIpAddress EXCEPT ![o] = SyncFallback(NoAddr)]
       \/ \E i \in LbIds, s \in SyncReplies :
             /\ CpReserve(o, i, s)
             /\ isReserved' = [isReserved EXCEPT ![o] = TRUE]
             /\ lbId' = [lbId EXCEPT ![o] = i]
             /\ syncIpAddress' = [syncIpAddress EXCEPT ![o] = SyncFallback(s)]

(* Mutant: an off-by-one in the id stored, the counter after the grant.  *)
ReserveStoresNextId(o) ==
    /\ UNCHANGED <<now, workers, clientStats, callerStats>>
    /\ \E i \in LbIds, s \in SyncReplies :
          /\ CpReserve(o, i, s)
          /\ \/ /\ isReserved' = [isReserved EXCEPT ![o] = TRUE]
                /\ lbId' = [lbId EXCEPT ![o] = i + 1]
                /\ syncIpAddress' = [syncIpAddress EXCEPT ![o] = SyncFallback(s)]
             \/ UNCHANGED <<isReserved, lbId, syncIpAddress>>

(* ReserveLoadBalancer(): the control plane grants reservation i and the  *)
(* reply either arrives, and the object stores lbId, the sync address and *)
(* isReserved = true, or is lost, and the object returns 1 unchanged.  A  *)
(* call the control plane refuses changes nothing (a stuttering step).    *)
ReserveLoadBalancer(o) ==
    /\ UNCHANGED <<now, workers, clientStats, callerStats>>
    /\ \E i \in LbIds, s \in SyncReplies :
          /\ CpReserve(o, i, s)
          /\ \/ /\ isReserved' = [isReserved EXCEPT ![o] = TRUE]
                /\ lbId' = [lbId EXCEPT ![o] = i]
                /\ syncIpAddress' = [syncIpAddress EXCEPT ![o] = SyncFallback(s)]
             \/ UNCHANGED <<isReserved, lbId, syncIpAddress>>

(* FreeLoadBalancer() const: sends lbId, whatever it holds; the control  *)
(* plane releases the reservation if it is held and otherwise answers     *)
(* without a change (spec 4.2: idempotent).  The object never changes.    *)
FreeLoadBalancer(o) ==
    /\ lbs' = IF lbId[o] # NoLb /\ lbs[lbId[o]].state = "held"
                 THEN [lbs EXCEPT ![lbId[o]].state = "freed"]
                 ELSE lbs
    /\ UNCHANGED <<now, isReserved, lbId, syncIpAddress, clientStats, workers, nextLb,
                   callerStats>>

(* The loop over reply.workers: each worker of the reply overwrites its  *)
(* own entry of the map (creating it if absent); other entries stay.      *)
StoreWorkers(stats, snap) ==
    [w \in Workers |-> IF snap[w] # NoStats THEN snap[w] ELSE stats[w]]

(* LoadBalancerStatus(): sends lbId; the control plane answers only for a *)
(* held LB; on success the reply's workers are stored into clientStats.   *)
LoadBalancerStatus(o) ==
    /\ lbId[o] # NoLb
    /\ lbs[lbId[o]].state = "held"
    /\ clientStats' = [clientStats EXCEPT ![o] = StoreWorkers(@, workers[lbId[o]])]
    /\ UNCHANGED <<now, isReserved, lbId, syncIpAddress, lbs, workers, nextLb, callerStats>>

(* static FreeLoadBalancer(cpIP, cpPort, lbId, adminToken): the caller   *)
(* names an LB by its id (from a URI, say); the control plane releases it *)
(* if it is held.  No reservation object is told.                         *)
StaticFreeLoadBalancer(i) ==
    /\ lbs' = IF lbs[i].state = "held" THEN [lbs EXCEPT ![i].state = "freed"] ELSE lbs
    /\ UNCHANGED <<now, isReserved, lbId, syncIpAddress, clientStats, workers, nextLb,
                   callerStats>>

(* static LoadBalancerStatus(cpIP, cpPort, lbId, adminToken, stats): the  *)
(* same loop as the instance method, into the caller's map.                *)
StaticLoadBalancerStatus(i) ==
    /\ lbs[i].state = "held"
    /\ callerStats' = StoreWorkers(callerStats, workers[i])
    /\ UNCHANGED <<now, isReserved, lbId, syncIpAddress, clientStats, lbs, workers, nextLb>>

(* The wall clock advances one second.                                     *)
Tick ==
    /\ now < MaxTime
    /\ now' = now + 1
    /\ UNCHANGED <<isReserved, lbId, syncIpAddress, clientStats, lbs, workers, nextLb,
                   callerStats>>

(* The control plane ends a reservation at its expiry.  The request gave  *)
(* nanos = 0, so once the clock's second reaches until the instant has    *)
(* passed (spec-modelled).                                                 *)
CpExpire(i) ==
    /\ lbs[i].state = "held"
    /\ now >= lbs[i].until
    /\ lbs' = [lbs EXCEPT ![i].state = "expired"]
    /\ UNCHANGED <<now, isReserved, lbId, syncIpAddress, clientStats, workers, nextLb,
                   callerStats>>

(* A backend of a held LB reports statistics, or leaves (spec-modelled).  *)
WorkerChange(i, w, f) ==
    /\ lbs[i].state = "held"
    /\ workers' = [workers EXCEPT ![i][w] = f]
    /\ UNCHANGED <<now, isReserved, lbId, syncIpAddress, clientStats, lbs, nextLb,
                   callerStats>>

Next ==
    \/ \E o \in Objs :
          \/ ReserveLoadBalancer(o)
          \/ FreeLoadBalancer(o)
          \/ LoadBalancerStatus(o)
    \/ \E i \in LbIds :
          \/ StaticFreeLoadBalancer(i)
          \/ StaticLoadBalancerStatus(i)
    \/ Tick
    \/ \E i \in LbIds : CpExpire(i)
    \/ \E i \in LbIds, w \in Workers, f \in Fills \cup {NoStats} : WorkerChange(i, w, f)

(* The wall clock is not under the program's control: it keeps advancing. *)
Spec == Init /\ [][Next]_vars /\ WF_vars(Tick)

-----------------------------------------------------------------------------
(* A reservation the object holds was granted by the control plane for    *)
(* this object's own name and expiry: ReserveLoadBalancer stores lbId and *)
(* sets isReserved only from the reply of a successful call, whatever     *)
(* lost replies, refusals and other objects' reservations came before.    *)
HeldIsIssued ==
    \A o \in Objs : isReserved[o] =>
        /\ lbId[o] \in LbIds
        /\ lbs[lbId[o]].state # "unused"
        /\ lbs[lbId[o]].name = LbName[o]
        /\ lbs[lbId[o]].until = Until[o]

(* A reserved object's sync address is the one of its own grant, or      *)
(* cpAddr put in its place by the work-around of ReserveLoadBalancer, and  *)
(* never empty (spec 4.2, 8.5): lost replies, other objects' grants and   *)
(* re-reservations never leave it paired with another grant's address.    *)
SyncOfOwnGrant ==
    \A o \in Objs : isReserved[o] =>
        /\ lbId[o] \in LbIds
        /\ syncIpAddress[o] \in {lbs[lbId[o]].sync, CpAddr}
        /\ syncIpAddress[o].len > 0

(* reserved() is false once the object's reservation has been freed      *)
(* (spec 9: validity is released by Free).  FreeLoadBalancer does not      *)
(* clear isReserved.                                                       *)
NotReservedAfterFree ==
    \A o \in Objs : Reserved(o) => lbs[lbId[o]].state # "freed"

(* reserved() is false once the control plane's reservation has expired   *)
(* (spec 3: valid only while the current time is before the expiry        *)
(* instant).  reservationElapsed() compares whole seconds with ">".        *)
NotReservedAfterExpiry ==
    \A o \in Objs : Reserved(o) => lbs[lbId[o]].state # "expired"

(* The stored sync address is the one the control plane reported whenever *)
(* that is a well-formed IPv4 or IPv6 literal (spec 4.2: only an empty or *)
(* malformed address is replaced; spec 8.6 expects 10.0.0.1 to be kept).   *)
SyncFromReply ==
    \A o \in Objs :
        isReserved[o] /\ lbs[lbId[o]].sync.kind \in {"v4", "v6"}
            => syncIpAddress[o] = lbs[lbId[o]].sync

-----------------------------------------------------------------------------
(* The reservation contract of spec.md under the mapping: the flag and id *)
(* an object stores are its granted state; the control plane's granted   *)
(* entries are the issued ids, its held entries the live leases.          *)
C == INSTANCE ReservationContract
        WITH Names <- {LbName[o] : o \in Objs}, Ids <- LbIds,
             granted <- isReserved, held <- lbId,
             issued <- {i \in LbIds : lbs[i].state # "unused"},
             live <- {i \in LbIds : lbs[i].state = "held"},
             nameOf <- [i \in LbIds |-> lbs[i].name]

(* The objects and the control plane implement the reservation contract: *)
(* ReserveLoadBalancer changes an object's lbId and isReserved only on a  *)
(* successful reply and then to the fresh id just granted; Free, Status   *)
(* and the control plane's expiry never touch them; a lost reply is a     *)
(* grant the object does not see.                                          *)
ReservationContractSpec == C!Spec

=============================================================================
