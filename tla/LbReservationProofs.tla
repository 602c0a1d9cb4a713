------------------------ MODULE LbReservationProofs ------------------------
(***************************************************************************)
(* Proofs about LbReservation for every set of objects, names, expiries,  *)
(* sync replies and bounds.                                                *)
(*                                                                         *)
(* HeldIsIssued is not inductive by itself: a Reserve by one object        *)
(* writes the control plane's entry nextLb, and the invariant needs that   *)
(* entry to be nobody's lbId yet.  RInv adds that every id an object holds *)
(* is below nextLb, and that exactly the entries from nextLb on are        *)
(* unused.                                                                 *)
(***************************************************************************)
EXTENDS LbReservation, TLAPS

(* Every id an object holds was issued before nextLb.                      *)
LbIdsIssued == \A o \in Objs : lbId[o] \in 0..(nextLb - 1)

(* The control plane's entries from nextLb on are the ungranted ones.     *)
UnusedAboveNext == \A j \in LbIds : lbs[j].state = "unused" <=> j >= nextLb

RInv ==
    /\ TypeOK
    /\ LbIdsIssued
    /\ UnusedAboveNext
    /\ HeldIsIssued
    /\ SyncOfOwnGrant

USE ObjsAssumption, UntilAssumption, CpAddrAssumption, SyncRepliesAssumption,
    MaxLbsAssumption, MaxTimeAssumption

-----------------------------------------------------------------------------
(* What the sync-address work-around returns: the reply's address or     *)
(* cpAddr, never an empty one.                                             *)
LEMMA SyncFallbackNonEmpty ==
    ASSUME NEW s \in SyncReplies
    PROVE  /\ SyncFallback(s) \in {s, CpAddr}
           /\ SyncFallback(s).len > 0
BY DEF SyncFallback, Addrs

(* The effect of a grant on the control plane's table.                     *)
LEMMA CpReserveEffect ==
    ASSUME TypeOK, NEW o \in Objs, NEW i \in LbIds, NEW s \in SyncReplies,
           CpReserve(o, i, s)
    PROVE  /\ i = nextLb
           /\ nextLb' = nextLb + 1
           /\ lbs'[i].state = "held"
           /\ lbs'[i].name = LbName[o]
           /\ lbs'[i].until = Until[o]
           /\ lbs'[i].sync = s
           /\ \A j \in LbIds \ {i} : lbs'[j] = lbs[j]
           /\ lbs' \in [LbIds -> Reservations]
<1>1. lbs' = [lbs EXCEPT ![i] = [state |-> "held", name |-> LbName[o],
                                 until |-> Until[o], sync |-> s]]
    BY DEF CpReserve
<1>2. [state |-> "held", name |-> LbName[o], until |-> Until[o], sync |-> s]
         \in Reservations
    BY DEF Reservations, LbStates
<1>3. QED
    BY <1>1, <1>2 DEF CpReserve, TypeOK

-----------------------------------------------------------------------------
(* Type correctness.                                                       *)

LEMMA InitTypeOK == Init => TypeOK
BY DEF Init, TypeOK, Unused, Reservations, LbStates, LbIds, NoLb

LEMMA NextTypeOK == TypeOK /\ [Next]_vars => TypeOK'
<1> SUFFICES ASSUME TypeOK, [Next]_vars PROVE TypeOK'
    OBVIOUS
<1>1. ASSUME NEW o \in Objs, ReserveLoadBalancer(o) PROVE TypeOK'
    <2>1. PICK i \in LbIds, s \in SyncReplies :
             /\ CpReserve(o, i, s)
             /\ \/ /\ isReserved' = [isReserved EXCEPT ![o] = TRUE]
                   /\ lbId' = [lbId EXCEPT ![o] = i]
                   /\ syncIpAddress' = [syncIpAddress EXCEPT ![o] = SyncFallback(s)]
                \/ UNCHANGED <<isReserved, lbId, syncIpAddress>>
        BY <1>1 DEF ReserveLoadBalancer
    <2>2. lbs' \in [LbIds -> Reservations] /\ nextLb' \in 1..(MaxLbs + 1)
        <3>1. lbs' \in [LbIds -> Reservations]
            BY <2>1, CpReserveEffect
        <3>2. nextLb' \in 1..(MaxLbs + 1)
            BY <2>1 DEF CpReserve, TypeOK
        <3>3. QED
            BY <3>1, <3>2
    <2>3. SyncFallback(s) \in SyncReplies \cup {NoAddr, CpAddr}
        BY SyncFallbackNonEmpty
    <2>4. /\ isReserved' \in [Objs -> BOOLEAN]
          /\ lbId' \in [Objs -> {NoLb} \cup LbIds]
          /\ syncIpAddress' \in [Objs -> SyncReplies \cup {NoAddr, CpAddr}]
        BY <2>1, <2>3 DEF TypeOK
    <2>5. QED
        BY <1>1, <2>2, <2>4 DEF ReserveLoadBalancer, TypeOK
<1>2. ASSUME NEW o \in Objs, FreeLoadBalancer(o) PROVE TypeOK'
    <2>1. CASE lbId[o] # NoLb /\ lbs[lbId[o]].state = "held"
        <3>1. lbId[o] \in LbIds
            BY <2>1 DEF TypeOK, NoLb, LbIds
        <3>2. lbs' = [lbs EXCEPT ![lbId[o]].state = "freed"]
            BY <1>2, <2>1 DEF FreeLoadBalancer
        <3>3. lbs' \in [LbIds -> Reservations]
            BY <3>1, <3>2 DEF TypeOK, Reservations, LbStates
        <3>4. QED
            BY <1>2, <3>3 DEF FreeLoadBalancer, TypeOK
    <2>2. CASE ~(lbId[o] # NoLb /\ lbs[lbId[o]].state = "held")
        BY <1>2, <2>2 DEF FreeLoadBalancer, TypeOK
    <2>3. QED
        BY <2>1, <2>2
<1>3. ASSUME NEW o \in Objs, LoadBalancerStatus(o) PROVE TypeOK'
    BY <1>3 DEF LoadBalancerStatus, StoreWorkers, TypeOK
<1>4. CASE Tick
    BY <1>4 DEF Tick, TypeOK
<1>5. ASSUME NEW i \in LbIds, CpExpire(i) PROVE TypeOK'
    BY <1>5 DEF CpExpire, TypeOK, Reservations, LbStates
<1>6. ASSUME NEW i \in LbIds, NEW w \in Workers, NEW f \in Fills \cup {NoStats},
             WorkerChange(i, w, f)
      PROVE TypeOK'
    BY <1>6 DEF WorkerChange, TypeOK
<1>7. CASE UNCHANGED vars
    BY <1>7 DEF vars, TypeOK
<1>8. ASSUME NEW i \in LbIds, StaticFreeLoadBalancer(i) PROVE TypeOK'
    BY <1>8 DEF StaticFreeLoadBalancer, TypeOK, Reservations, LbStates
<1>9. ASSUME NEW i \in LbIds, StaticLoadBalancerStatus(i) PROVE TypeOK'
    BY <1>9 DEF StaticLoadBalancerStatus, StoreWorkers, TypeOK
<1>10. QED
    BY <1>1, <1>2, <1>3, <1>4, <1>5, <1>6, <1>7, <1>8, <1>9 DEF Next

(* The type invariant holds in every reachable state.                      *)
THEOREM ReservationTypeCorrect == Spec => []TypeOK
BY InitTypeOK, NextTypeOK, PTL DEF Spec

-----------------------------------------------------------------------------
(* The inductive invariant, one lemma per action.                          *)

LEMMA InitRInv == Init => RInv
<1> SUFFICES ASSUME Init PROVE RInv
    OBVIOUS
<1>1. TypeOK
    BY InitTypeOK
<1>2. LbIdsIssued /\ UnusedAboveNext
    BY DEF Init, LbIdsIssued, UnusedAboveNext, Unused, NoLb, LbIds
<1>3. HeldIsIssued /\ SyncOfOwnGrant
    BY DEF Init, HeldIsIssued, SyncOfOwnGrant
<1>4. QED
    BY <1>1, <1>2, <1>3 DEF RInv

(* A step that leaves the objects and the control plane's table alone.    *)
LEMMA TableUnchangedRInv ==
    ASSUME RInv, TypeOK',
           UNCHANGED <<isReserved, lbId, syncIpAddress, lbs, nextLb>>
    PROVE  RInv'
BY DEF RInv, LbIdsIssued, UnusedAboveNext, HeldIsIssued, SyncOfOwnGrant

(* A step that only moves held reservations to another state that is not *)
(* "unused", keeping their name and expiry.                                *)
LEMMA StateChangeRInv ==
    ASSUME RInv, TypeOK', NEW k \in LbIds, NEW st \in LbStates \ {"unused"},
           lbs[k].state = "held",
           lbs' = [lbs EXCEPT ![k].state = st],
           UNCHANGED <<isReserved, lbId, syncIpAddress, nextLb>>
    PROVE  RInv'
<1>1. \A j \in LbIds : /\ lbs'[j].name = lbs[j].name
                       /\ lbs'[j].until = lbs[j].until
                       /\ lbs'[j].sync = lbs[j].sync
                       /\ (lbs'[j].state = "unused" <=> lbs[j].state = "unused")
    BY DEF RInv, TypeOK, Reservations
<1>2. UnusedAboveNext'
    BY <1>1 DEF RInv, UnusedAboveNext
<1>3. HeldIsIssued'
    BY <1>1 DEF RInv, HeldIsIssued
<1>4. SyncOfOwnGrant'
    BY <1>1 DEF RInv, SyncOfOwnGrant
<1>5. QED
    BY <1>2, <1>3, <1>4 DEF RInv, LbIdsIssued

LEMMA ReserveRInv ==
    ASSUME RInv, NEW o \in Objs, ReserveLoadBalancer(o) PROVE RInv'
<1>1. TypeOK'
    BY NextTypeOK DEF RInv, Next
<1>2. PICK i \in LbIds, s \in SyncReplies :
         /\ CpReserve(o, i, s)
         /\ \/ /\ isReserved' = [isReserved EXCEPT ![o] = TRUE]
               /\ lbId' = [lbId EXCEPT ![o] = i]
               /\ syncIpAddress' = [syncIpAddress EXCEPT ![o] = SyncFallback(s)]
            \/ UNCHANGED <<isReserved, lbId, syncIpAddress>>
    BY DEF ReserveLoadBalancer
<1>3. /\ i = nextLb
      /\ nextLb' = nextLb + 1
      /\ lbs'[i].state = "held"
      /\ lbs'[i].name = LbName[o]
      /\ lbs'[i].until = Until[o]
      /\ lbs'[i].sync = s
      /\ \A j \in LbIds \ {i} : lbs'[j] = lbs[j]
    BY <1>2, CpReserveEffect DEF RInv
(* The fresh entry is nobody's lbId before the step.                       *)
<1>4. \A p \in Objs : lbId[p] # i
    BY <1>3 DEF RInv, LbIdsIssued, TypeOK
<1>5. UnusedAboveNext'
    BY <1>3 DEF RInv, UnusedAboveNext, TypeOK, LbIds
<1>6. CASE /\ isReserved' = [isReserved EXCEPT ![o] = TRUE]
           /\ lbId' = [lbId EXCEPT ![o] = i]
           /\ syncIpAddress' = [syncIpAddress EXCEPT ![o] = SyncFallback(s)]
    <2>1. LbIdsIssued'
        BY <1>3, <1>6 DEF RInv, LbIdsIssued, TypeOK, LbIds
    <2>2. HeldIsIssued'
        <3>1. ASSUME NEW p \in Objs, isReserved'[p]
              PROVE  /\ lbId'[p] \in LbIds
                     /\ lbs'[lbId'[p]].state # "unused"
                     /\ lbs'[lbId'[p]].name = LbName[p]
                     /\ lbs'[lbId'[p]].until = Until[p]
            <4>1. CASE p = o
                BY <4>1, <1>3, <1>6 DEF RInv, TypeOK
            <4>2. CASE p # o
                <5>1. isReserved[p] /\ lbId'[p] = lbId[p]
                    BY <3>1, <4>2, <1>6 DEF RInv, TypeOK
                <5>2. lbId[p] \in LbIds \ {i}
                    BY <5>1, <1>4 DEF RInv, HeldIsIssued
                <5>3. QED
                    BY <5>1, <5>2, <1>3 DEF RInv, HeldIsIssued
            <4>3. QED
                BY <4>1, <4>2
        <3>2. QED
            BY <3>1 DEF HeldIsIssued
    <2>3. SyncOfOwnGrant'
        <3>1. ASSUME NEW p \in Objs, isReserved'[p]
              PROVE  /\ lbId'[p] \in LbIds
                     /\ syncIpAddress'[p] \in {lbs'[lbId'[p]].sync, CpAddr}
                     /\ syncIpAddress'[p].len > 0
            <4>1. CASE p = o
                BY <4>1, <1>3, <1>6, SyncFallbackNonEmpty DEF RInv, TypeOK
            <4>2. CASE p # o
                <5>1. /\ isReserved[p]
                      /\ lbId'[p] = lbId[p]
                      /\ syncIpAddress'[p] = syncIpAddress[p]
                    BY <3>1, <4>2, <1>6 DEF RInv, TypeOK
                <5>2. lbId[p] \in LbIds \ {i}
                    BY <5>1, <1>4 DEF RInv, HeldIsIssued
                <5>3. QED
                    BY <5>1, <5>2, <1>3 DEF RInv, SyncOfOwnGrant
            <4>3. QED
                BY <4>1, <4>2
        <3>2. QED
            BY <3>1 DEF SyncOfOwnGrant
    <2>4. QED
        BY <1>1, <1>5, <2>1, <2>2, <2>3 DEF RInv
<1>7. CASE UNCHANGED <<isReserved, lbId, syncIpAddress>>
    <2>1. LbIdsIssued'
        BY <1>3, <1>7 DEF RInv, LbIdsIssued, TypeOK
    <2>2. HeldIsIssued'
        <3>1. ASSUME NEW p \in Objs, isReserved[p] PROVE lbId[p] \in LbIds \ {i}
            BY <3>1, <1>4 DEF RInv, HeldIsIssued
        <3>2. QED
            BY <3>1, <1>3, <1>7 DEF RInv, HeldIsIssued
    <2>3. SyncOfOwnGrant'
        <3>1. ASSUME NEW p \in Objs, isReserved[p] PROVE lbId[p] \in LbIds \ {i}
            BY <3>1, <1>4 DEF RInv, HeldIsIssued
        <3>2. QED
            BY <3>1, <1>3, <1>7 DEF RInv, SyncOfOwnGrant
    <2>4. QED
        BY <1>1, <1>5, <2>1, <2>2, <2>3 DEF RInv
<1>8. QED
    BY <1>2, <1>6, <1>7

LEMMA NextRInv == RInv /\ [Next]_vars => RInv'
<1> SUFFICES ASSUME RInv, [Next]_vars PROVE RInv'
    OBVIOUS
<1>1. TypeOK'
    BY NextTypeOK DEF RInv
<1>2. ASSUME NEW o \in Objs, ReserveLoadBalancer(o) PROVE RInv'
    BY <1>2, ReserveRInv
<1>3. ASSUME NEW o \in Objs, FreeLoadBalancer(o) PROVE RInv'
    <2>1. CASE lbId[o] # NoLb /\ lbs[lbId[o]].state = "held"
        <3>1. lbId[o] \in LbIds
            BY <2>1 DEF RInv, TypeOK, NoLb, LbIds
        <3>2. "freed" \in LbStates \ {"unused"}
            BY DEF LbStates
        <3>3. QED
            BY <1>1, <1>3, <2>1, <3>1, <3>2, StateChangeRInv DEF FreeLoadBalancer
    <2>2. CASE ~(lbId[o] # NoLb /\ lbs[lbId[o]].state = "held")
        BY <1>1, <1>3, <2>2, TableUnchangedRInv DEF FreeLoadBalancer
    <2>3. QED
        BY <2>1, <2>2
<1>4. ASSUME NEW o \in Objs, LoadBalancerStatus(o) PROVE RInv'
    BY <1>1, <1>4, TableUnchangedRInv DEF LoadBalancerStatus
<1>5. CASE Tick
    BY <1>1, <1>5, TableUnchangedRInv DEF Tick
<1>6. ASSUME NEW i \in LbIds, CpExpire(i) PROVE RInv'
    <2>1. "expired" \in LbStates \ {"unused"}
        BY DEF LbStates
    <2>2. QED
        BY <1>1, <1>6, <2>1, StateChangeRInv DEF CpExpire
<1>7. ASSUME NEW i \in LbIds, NEW w \in Workers, NEW f \in Fills \cup {NoStats},
             WorkerChange(i, w, f)
      PROVE RInv'
    BY <1>1, <1>7, TableUnchangedRInv DEF WorkerChange
<1>8. CASE UNCHANGED vars
    BY <1>1, <1>8, TableUnchangedRInv DEF vars
<1>9. ASSUME NEW i \in LbIds, StaticFreeLoadBalancer(i) PROVE RInv'
    <2>1. CASE lbs[i].state = "held"
        <3>1. "freed" \in LbStates \ {"unused"}
            BY DEF LbStates
        <3>2. QED
            BY <1>1, <1>9, <2>1, <3>1, StateChangeRInv DEF StaticFreeLoadBalancer
    <2>2. CASE lbs[i].state # "held"
        BY <1>1, <1>9, <2>2, TableUnchangedRInv DEF StaticFreeLoadBalancer
    <2>3. QED
        BY <2>1, <2>2
<1>10. ASSUME NEW i \in LbIds, StaticLoadBalancerStatus(i) PROVE RInv'
    BY <1>1, <1>10, TableUnchangedRInv DEF StaticLoadBalancerStatus
<1>11. QED
    BY <1>2, <1>3, <1>4, <1>5, <1>6, <1>7, <1>8, <1>9, <1>10 DEF Next

(* Whatever the interleaving of reservations, lost replies, frees and     *)
(* expiries, an object that holds a reservation holds one the control     *)
(* plane granted for its own name and expiry (ReserveLoadBalancer stores  *)
(* only a successful reply).                                               *)
THEOREM ReservationsIssued == Spec => []HeldIsIssued
<1>1. RInv => HeldIsIssued
    BY DEF RInv
<1>2. QED
    BY <1>1, InitRInv, NextRInv, PTL DEF Spec

(* A reserved object's sync address is its own grant's, or cpAddr put in  *)
(* its place by the sync-address work-around of ReserveLoadBalancer, and   *)
(* never empty, whatever lost replies and other grants came in between.   *)
THEOREM SyncAddressOfOwnGrant == Spec => []SyncOfOwnGrant
<1>1. RInv => SyncOfOwnGrant
    BY DEF RInv
<1>2. QED
    BY <1>1, InitRInv, NextRInv, PTL DEF Spec

(* The strengthened invariant holds in every reachable state: held ids   *)
(* lie below nextLb, exactly the entries from nextLb on are unused, and   *)
(* each reserved object's id and sync address are those of its own grant. *)
THEOREM ReservationInductive == Spec => []RInv
BY InitRInv, NextRInv, PTL DEF Spec

-----------------------------------------------------------------------------
(* Refinement of the reservation contract: the initial states map to its  *)
(* initial state, and every step to a contract step or a stutter.          *)

LEMMA InitContract == Init => C!Init
<1> SUFFICES ASSUME Init PROVE C!Init
    OBVIOUS
<1>1. {i \in LbIds : lbs[i].state # "unused"} = {}
    BY DEF Init, Unused
<1>2. {i \in LbIds : lbs[i].state = "held"} = {}
    BY DEF Init, Unused
<1>3. [i \in LbIds |-> lbs[i].name] = [i \in LbIds |-> "-"]
    BY DEF Init, Unused
<1>4. QED
    BY <1>1, <1>2, <1>3 DEF Init, C!Init, C!NoId, NoLb

(* A control-plane step that ends held lease k (Free or expiry) is the    *)
(* contract's Release(k).                                                  *)
LEMMA EndLeaseContract ==
    ASSUME TypeOK, NEW k \in LbIds, NEW st \in {"freed", "expired"},
           lbs[k].state = "held",
           lbs' = [lbs EXCEPT ![k].state = st],
           UNCHANGED <<now, isReserved, lbId>>
    PROVE  C!Release(k)
<1>1. \A j \in LbIds : /\ lbs'[j].name = lbs[j].name
                       /\ (lbs'[j].state = "unused" <=> lbs[j].state = "unused")
                       /\ (lbs'[j].state = "held" <=> lbs[j].state = "held" /\ j # k)
    BY DEF TypeOK, Reservations
<1>2. {i \in LbIds : lbs'[i].state = "held"}
        = {i \in LbIds : lbs[i].state = "held"} \ {k}
    BY <1>1
<1>3. {i \in LbIds : lbs'[i].state # "unused"} = {i \in LbIds : lbs[i].state # "unused"}
    BY <1>1
<1>4. [i \in LbIds |-> lbs'[i].name] = [i \in LbIds |-> lbs[i].name]
    BY <1>1
<1>5. QED
    BY <1>2, <1>3, <1>4 DEF C!Release

(* A grant is the contract's Grant of the same object and id.              *)
LEMMA ReserveContract ==
    ASSUME RInv, NEW o \in Objs, ReserveLoadBalancer(o)
    PROVE  \E i \in LbIds : C!Grant(o, i)
<1>1. PICK i \in LbIds, s \in SyncReplies :
         /\ CpReserve(o, i, s)
         /\ \/ /\ isReserved' = [isReserved EXCEPT ![o] = TRUE]
               /\ lbId' = [lbId EXCEPT ![o] = i]
               /\ syncIpAddress' = [syncIpAddress EXCEPT ![o] = SyncFallback(s)]
            \/ UNCHANGED <<isReserved, lbId, syncIpAddress>>
    BY DEF ReserveLoadBalancer
<1>2. /\ i = nextLb
      /\ lbs'[i].state = "held"
      /\ lbs'[i].name = LbName[o]
      /\ \A j \in LbIds \ {i} : lbs'[j] = lbs[j]
    BY <1>1, CpReserveEffect DEF RInv
<1>3. lbs[i].state = "unused"
    BY <1>2 DEF RInv, UnusedAboveNext, LbIds
<1>4. i \notin {j \in LbIds : lbs[j].state # "unused"}
    BY <1>3
<1>5. /\ now <= Until[o]
      /\ \A j \in {k \in LbIds : lbs[k].state = "held"} : lbs[j].name # LbName[o]
    BY <1>1 DEF CpReserve
<1>6. {j \in LbIds : lbs'[j].state # "unused"}
        = {j \in LbIds : lbs[j].state # "unused"} \cup {i}
    BY <1>2
<1>7. {j \in LbIds : lbs'[j].state = "held"}
        = {j \in LbIds : lbs[j].state = "held"} \cup {i}
    BY <1>2
<1>8. [j \in LbIds |-> lbs'[j].name]
        = [[j \in LbIds |-> lbs[j].name] EXCEPT ![i] = LbName[o]]
    BY <1>2
<1>9. UNCHANGED now
    BY DEF ReserveLoadBalancer
<1>10. C!Grant(o, i)
    BY <1>1, <1>4, <1>5, <1>6, <1>7, <1>8, <1>9 DEF C!Grant
<1>11. QED
    BY <1>10

LEMMA NextContract == RInv /\ [Next]_vars => [C!Next]_C!cvars
<1> SUFFICES ASSUME RInv, [Next]_vars PROVE [C!Next]_C!cvars
    OBVIOUS
<1>1. ASSUME NEW o \in Objs, ReserveLoadBalancer(o) PROVE C!Next
    BY <1>1, ReserveContract DEF C!Next
<1>2. ASSUME NEW o \in Objs, FreeLoadBalancer(o) PROVE [C!Next]_C!cvars
    <2>1. CASE lbId[o] # NoLb /\ lbs[lbId[o]].state = "held"
        <3>1. PICK k \in LbIds : k = lbId[o]
            BY <2>1 DEF RInv, TypeOK, NoLb, LbIds
        <3>2. /\ lbs[k].state = "held"
              /\ lbs' = [lbs EXCEPT ![k].state = "freed"]
              /\ UNCHANGED <<now, isReserved, lbId>>
            BY <1>2, <2>1, <3>1 DEF FreeLoadBalancer
        <3>3. C!Release(k)
            BY <3>2, EndLeaseContract DEF RInv
        <3>4. QED
            BY <3>3 DEF C!Next
    <2>2. CASE ~(lbId[o] # NoLb /\ lbs[lbId[o]].state = "held")
        BY <1>2, <2>2 DEF FreeLoadBalancer, C!cvars
    <2>3. QED
        BY <2>1, <2>2
<1>3. ASSUME NEW o \in Objs, LoadBalancerStatus(o) PROVE UNCHANGED C!cvars
    BY <1>3 DEF LoadBalancerStatus, C!cvars
<1>4. CASE Tick
    BY <1>4 DEF Tick, C!Tick, C!Next
<1>5. ASSUME NEW i \in LbIds, CpExpire(i) PROVE C!Next
    <2>1. C!Release(i)
        BY <1>5, EndLeaseContract DEF CpExpire, RInv
    <2>2. QED
        BY <2>1 DEF C!Next
<1>6. ASSUME NEW i \in LbIds, NEW w \in Workers, NEW f \in Fills \cup {NoStats},
             WorkerChange(i, w, f)
      PROVE UNCHANGED C!cvars
    BY <1>6 DEF WorkerChange, C!cvars
<1>7. CASE UNCHANGED vars
    BY <1>7 DEF vars, C!cvars
<1>8. ASSUME NEW i \in LbIds, StaticFreeLoadBalancer(i) PROVE [C!Next]_C!cvars
    <2>1. CASE lbs[i].state = "held"
        <3>1. C!Release(i)
            BY <1>8, <2>1, EndLeaseContract DEF StaticFreeLoadBalancer, RInv
        <3>2. QED
            BY <3>1 DEF C!Next
    <2>2. CASE lbs[i].state # "held"
        BY <1>8, <2>2 DEF StaticFreeLoadBalancer, C!cvars
    <2>3. QED
        BY <2>1, <2>2
<1>9. ASSUME NEW i \in LbIds, StaticLoadBalancerStatus(i) PROVE UNCHANGED C!cvars
    BY <1>9 DEF StaticLoadBalancerStatus, C!cvars
<1>10. QED
    BY <1>1, <1>2, <1>3, <1>4, <1>5, <1>6, <1>7, <1>8, <1>9 DEF Next

(* The reservation objects and the control plane implement the contract  *)
(* of spec.md: an object's lbId and isReserved change only when its own  *)
(* ReserveLoadBalancer succeeds, and then to the fresh id the control     *)
(* plane has just granted for a name no live lease holds.                 *)
THEOREM ReservationRefinesContract == Spec => C!SafetySpec
<1>1. Spec => []RInv
    BY InitRInv, NextRInv, PTL DEF Spec
<1>2. QED
    BY <1>1, InitContract, NextContract, PTL DEF Spec, C!SafetySpec

=============================================================================
