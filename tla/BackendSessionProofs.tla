------------------------ MODULE BackendSessionProofs ------------------------
(***************************************************************************)
(* Proofs about BackendSession for every set of backends and every bound  *)
(* on the registrations.                                                   *)
(*                                                                         *)
(* ClientViewMatchesServer is not inductive by itself: a successful        *)
(* SendState or Deregister by backend b changes the record that holds b's  *)
(* session, and the invariant needs that record to be b's own and the      *)
(* token b sends to be the one issued with it.  IInv adds what makes that  *)
(* so: every issued id is below nextSid (so a fresh id is held by nobody), *)
(* a client's token is the one issued with its id, and a live record that *)
(* holds a client's session id is that client's record.                    *)
(***************************************************************************)
EXTENDS BackendSession, TLAPS

(* Every id a record or a client holds was issued before nextSid.          *)
SidsIssued ==
    /\ \A n \in Backends : srv[n].live => srv[n].sid \in 1..(nextSid - 1)
    /\ \A b \in Backends : sessionId[b] \in 0..(nextSid - 1)

(* A client's token is the one issued with its session id.                 *)
TokenWithSession ==
    \A b \in Backends : sessionToken[b] = TokenOf(sessionId[b])

(* A live record holding a client's session id is that client's record.    *)
SidOwnedByName ==
    \A n, b \in Backends : srv[n].live /\ srv[n].sid = sessionId[b] => n = b

IInv ==
    /\ TypeOK
    /\ SidsIssued
    /\ TokenWithSession
    /\ SidOwnedByName
    /\ ClientViewMatchesServer

USE BackendsAssumption, MaxSessionsAssumption, AlwaysReadyAssumption

-----------------------------------------------------------------------------
(* Type correctness.                                                       *)

LEMMA InitTypeOK == Init => TypeOK
BY DEF Init, TypeOK, NoRecord, Records, SessionVals, NoSession, Ops, NoReport

LEMMA NextTypeOK == TypeOK /\ [Next]_vars => TypeOK'
<1> SUFFICES ASSUME TypeOK, [Next]_vars PROVE TypeOK'
    OBVIOUS
<1>1. CASE UNCHANGED vars
    BY <1>1 DEF vars, TypeOK
<1>2. ASSUME NEW b \in Backends, Construct(b) PROVE TypeOK'
    BY <1>2 DEF Construct, ServerUnchanged, TypeOK, SessionVals, NoSession, Ops
<1>3. ASSUME NEW b \in Backends, NEW ready \in BOOLEAN, Update(b, ready)
      PROVE TypeOK'
    BY <1>3 DEF Update, UpdateCaller, UpdateForced, TypeOK
<1>4. ASSUME NEW b \in Backends, Register(b) PROVE TypeOK'
    <2>1. CASE ServerUnchanged /\ Returned(b, "Register", FALSE)
                /\ UNCHANGED <<sessionId, sessionToken, isReady>>
        BY <2>1 DEF ServerUnchanged, Returned, TypeOK, Ops
    <2>2. CASE ServerRegister(b) /\ UNCHANGED isReady
        <3>3. PICK delivered \in BOOLEAN :
                 /\ Returned(b, "Register", delivered)
                 /\ IF delivered
                       THEN /\ sessionId' = [sessionId EXCEPT ![b] = nextSid]
                            /\ sessionToken' = [sessionToken EXCEPT ![b] = TokenOf(nextSid)]
                       ELSE UNCHANGED <<sessionId, sessionToken>>
            BY <1>4, <2>2 DEF Register
        <3>4. nextSid \in SessionIds
            BY <2>2 DEF ServerRegister, TypeOK, SessionIds
        <3>5. srv' \in [Backends -> Records] /\ nextSid' \in 1..(MaxSessions + 1)
              /\ reportedReady' \in [Backends -> SUBSET BOOLEAN]
            BY <2>2, <3>4 DEF ServerRegister, NewBackEnd, TypeOK, Records, SessionVals,
                              NoSession, NoReport
        <3>6. sessionId' \in [Backends -> SessionVals] /\ sessionToken' \in [Backends -> SessionVals]
            BY <3>3, <3>4 DEF TypeOK, SessionVals, TokenOf
        <3>7. lastCall' \in [Backends -> [op : Ops, ok : BOOLEAN]]
            BY <3>3 DEF Returned, TypeOK, Ops
        <3>8. QED
            BY <2>2, <3>5, <3>6, <3>7 DEF TypeOK
    <2>3. QED
        BY <1>4, <2>1, <2>2 DEF Register
<1>5. ASSUME NEW b \in Backends, SendState(b) PROVE TypeOK'
    <2> DEFINE req == [token |-> sessionToken[b], sessionId |-> sessionId[b],
                       isReady |-> isReady[b]]
    <2>1. CASE ServerUnchanged /\ Returned(b, "SendState", FALSE)
        BY <1>5, <2>1 DEF SendState, ServerUnchanged, Returned, TypeOK, Ops
    <2>2. ASSUME NEW n \in SessionOf(req.sessionId), ServerSendState(n, req),
                 NEW delivered \in BOOLEAN, Returned(b, "SendState", delivered)
          PROVE TypeOK'
        <3>1. n \in Backends
            BY DEF SessionOf
        <3>2. srv' \in [Backends -> Records]
            BY <2>2, <3>1 DEF ServerSendState, UpdateBackEnd, TypeOK, Records
        <3>3. QED
            BY <1>5, <2>2, <3>1, <3>2 DEF SendState, ServerSendState, Returned, TypeOK, Ops
    <2>3. QED
        BY <1>5, <2>1, <2>2 DEF SendState
<1>6. ASSUME NEW b \in Backends, Deregister(b) PROVE TypeOK'
    <2> DEFINE req == [token |-> sessionToken[b], sessionId |-> sessionId[b]]
    <2>1. CASE ServerUnchanged /\ Returned(b, "Deregister", FALSE)
        BY <1>6, <2>1 DEF Deregister, ServerUnchanged, Returned, TypeOK, Ops
    <2>2. ASSUME NEW n \in SessionOf(req.sessionId), ServerDeregister(n, req),
                 NEW delivered \in BOOLEAN, Returned(b, "Deregister", delivered)
          PROVE TypeOK'
        <3>1. n \in Backends
            BY DEF SessionOf
        <3>2. srv' \in [Backends -> Records]
            BY <2>2, <3>1 DEF ServerDeregister, NoRecord, TypeOK, Records, SessionVals, NoSession
        <3>3. QED
            BY <1>6, <2>2, <3>1, <3>2 DEF Deregister, ServerDeregister, Returned, TypeOK,
                                          Ops, NoReport
    <2>3. QED
        BY <1>6, <2>1, <2>2 DEF Deregister
<1>7. QED
    BY <1>1, <1>2, <1>3, <1>4, <1>5, <1>6 DEF Next

(* The type invariant holds in every reachable state.                      *)
THEOREM TypeCorrect == Spec => []TypeOK
BY InitTypeOK, NextTypeOK, PTL DEF Spec

-----------------------------------------------------------------------------
(* The inductive invariant, one lemma per action.                          *)

LEMMA InitIInv == Init => IInv
<1> SUFFICES ASSUME Init PROVE IInv
    OBVIOUS
<1>1. TypeOK
    BY InitTypeOK
<1>2. SidsIssued /\ TokenWithSession /\ SidOwnedByName
    BY DEF Init, SidsIssued, TokenWithSession, SidOwnedByName, NoRecord, NoSession, TokenOf
<1>3. ClientViewMatchesServer
    BY DEF Init, ClientViewMatchesServer
<1>4. QED
    BY <1>1, <1>2, <1>3 DEF IInv

LEMMA ConstructIInv ==
    ASSUME IInv, NEW b \in Backends, Construct(b) PROVE IInv'
<1>1. TypeOK'
    BY NextTypeOK DEF IInv, Next
<1>2. SidsIssued'
    BY DEF IInv, TypeOK, SidsIssued, Construct, ServerUnchanged, NoSession
<1>3. TokenWithSession'
    BY DEF IInv, TypeOK, TokenWithSession, Construct, NoSession, TokenOf
<1>4. SidOwnedByName'
    BY DEF IInv, TypeOK, SidsIssued, SidOwnedByName, Construct, ServerUnchanged, NoSession
<1>5. ClientViewMatchesServer'
    BY DEF IInv, TypeOK, ClientViewMatchesServer, Construct, ServerUnchanged, SessionOf
<1>6. QED
    BY <1>1, <1>2, <1>3, <1>4, <1>5 DEF IInv

LEMMA UpdateIInv ==
    ASSUME IInv, NEW b \in Backends, NEW ready \in BOOLEAN, Update(b, ready)
    PROVE IInv'
<1>1. TypeOK'
    BY NextTypeOK DEF IInv, Next
<1>2. UNCHANGED <<sessionId, sessionToken, srv, nextSid, lastCall>>
    BY DEF Update
<1>3. QED
    BY <1>1, <1>2 DEF IInv, SidsIssued, TokenWithSession, SidOwnedByName,
                      ClientViewMatchesServer, SessionOf

LEMMA RegisterIInv ==
    ASSUME IInv, NEW b \in Backends, Register(b) PROVE IInv'
<1>1. TypeOK'
    BY NextTypeOK DEF IInv, Next
<1>2. CASE ServerUnchanged /\ Returned(b, "Register", FALSE)
           /\ UNCHANGED <<sessionId, sessionToken>>
    <2>1. SidsIssued' /\ TokenWithSession' /\ SidOwnedByName'
        BY <1>2 DEF IInv, SidsIssued, TokenWithSession, SidOwnedByName, ServerUnchanged
    <2>2. ClientViewMatchesServer'
        BY <1>2 DEF IInv, TypeOK, ClientViewMatchesServer, ServerUnchanged, Returned,
                    SessionOf
    <2>3. QED
        BY <1>1, <2>1, <2>2 DEF IInv
<1>3. CASE ServerRegister(b)
    <2>1. PICK delivered \in BOOLEAN :
             /\ Returned(b, "Register", delivered)
             /\ IF delivered
                   THEN /\ sessionId' = [sessionId EXCEPT ![b] = nextSid]
                        /\ sessionToken' = [sessionToken EXCEPT ![b] = TokenOf(nextSid)]
                   ELSE UNCHANGED <<sessionId, sessionToken>>
        BY <1>3 DEF Register
    <2>2. PICK garbage \in BOOLEAN : srv' = [srv EXCEPT ![b] = NewBackEnd(nextSid, garbage)]
        BY <1>3 DEF ServerRegister
    <2>3. /\ nextSid' = nextSid + 1
          /\ nextSid \in 1..MaxSessions
          /\ srv'[b].live /\ srv'[b].sid = nextSid
          /\ \A n \in Backends \ {b} : srv'[n] = srv[n]
        BY <1>3, <2>2 DEF ServerRegister, NewBackEnd, IInv, TypeOK
    (* Every id held before this step is below the fresh one.             *)
    <2>4. /\ \A n \in Backends : srv[n].live => srv[n].sid < nextSid
          /\ \A c \in Backends : sessionId[c] < nextSid
        BY DEF IInv, SidsIssued, TypeOK
    <2>5. \A c \in Backends : sessionId'[c] = nextSid \/ sessionId'[c] = sessionId[c]
        BY <2>1 DEF IInv, TypeOK
    <2>6. \A c \in Backends : sessionId'[c] = nextSid => c = b
        BY <2>1, <2>4 DEF IInv, TypeOK
    <2>7. SidsIssued'
        <3>1. ASSUME NEW n \in Backends, srv'[n].live PROVE srv'[n].sid \in 1..(nextSid' - 1)
            <4>1. CASE n = b
                BY <4>1, <2>3
            <4>2. CASE n # b
                BY <4>2, <2>3, <3>1 DEF IInv, SidsIssued
            <4>3. QED
                BY <4>1, <4>2
        <3>2. ASSUME NEW c \in Backends PROVE sessionId'[c] \in 0..(nextSid' - 1)
            BY <2>3, <2>5 DEF IInv, SidsIssued
        <3>3. QED
            BY <3>1, <3>2 DEF SidsIssued
    <2>8. TokenWithSession'
        BY <2>1 DEF TokenWithSession, IInv, TypeOK
    <2>9. SidOwnedByName'
        <3> SUFFICES ASSUME NEW n \in Backends, NEW c \in Backends,
                            srv'[n].live, srv'[n].sid = sessionId'[c]
                     PROVE  n = c
            BY DEF SidOwnedByName
        <3>1. CASE n = b
            BY <3>1, <2>3, <2>6
        <3>2. CASE n # b
            <4>1. srv[n].live /\ srv[n].sid < nextSid /\ srv'[n].sid = srv[n].sid
                BY <3>2, <2>3, <2>4
            <4>2. sessionId'[c] = sessionId[c]
                <5>1. srv[n].sid \in Nat /\ nextSid \in Nat
                    BY <2>3 DEF IInv, TypeOK, Records, SessionVals, SessionIds, NoSession
                <5>2. sessionId'[c] # nextSid
                    BY <4>1, <5>1
                <5>3. QED
                    BY <5>2, <2>5
            <4>3. QED
                BY <4>1, <4>2, <2>3, <3>2 DEF IInv, SidOwnedByName
        <3>3. QED
            BY <3>1, <3>2
    <2>10. ClientViewMatchesServer'
        <3> SUFFICES ASSUME NEW c \in Backends
                     PROVE  ClientViewMatchesServer!(c)'
            BY DEF ClientViewMatchesServer
        <3>1. CASE c = b
            BY <3>1, <2>1, <2>3 DEF Returned, IInv, TypeOK, TokenOf
        <3>2. CASE c # b
            <4>1. lastCall'[c] = lastCall[c] /\ sessionId'[c] = sessionId[c]
                  /\ sessionToken'[c] = sessionToken[c] /\ srv'[c] = srv[c]
                BY <3>2, <2>1, <2>3 DEF Returned, IInv, TypeOK
            <4>2. SessionOf(sessionId[c])' = SessionOf(sessionId[c])
                <5>1. ~(srv'[b].live /\ srv'[b].sid = sessionId[c])
                    BY <2>3, <2>4
                <5>2. \A n \in Backends \ {b} :
                         (srv'[n].live /\ srv'[n].sid = sessionId[c])
                         <=> (srv[n].live /\ srv[n].sid = sessionId[c])
                    BY <2>3
                <5>3. ~(srv[b].live /\ srv[b].sid = sessionId[c])
                    BY <3>2 DEF IInv, SidOwnedByName
                <5>4. QED
                    BY <4>1, <5>1, <5>2, <5>3 DEF SessionOf
            <4>3. QED
                BY <4>1, <4>2 DEF ClientViewMatchesServer, IInv
        <3>3. QED
            BY <3>1, <3>2
    <2>11. QED
        BY <1>1, <2>7, <2>8, <2>9, <2>10 DEF IInv
<1>4. QED
    BY <1>2, <1>3 DEF Register

(* The record a client's SendState or Deregister reaches is its own.      *)
LEMMA ReachesOwnRecord ==
    ASSUME IInv, NEW b \in Backends, NEW n \in SessionOf(sessionId[b])
    PROVE  /\ n = b
           /\ srv[b].live /\ srv[b].sid = sessionId[b]
           /\ sessionToken[b] = TokenOf(srv[b].sid)
<1>1. n \in Backends /\ srv[n].live /\ srv[n].sid = sessionId[b]
    BY DEF SessionOf
<1>2. n = b
    BY <1>1 DEF IInv, SidOwnedByName
<1>3. QED
    BY <1>1, <1>2 DEF IInv, TokenWithSession

LEMMA SendStateIInv ==
    ASSUME IInv, NEW b \in Backends, SendState(b) PROVE IInv'
<1> DEFINE req == [token |-> sessionToken[b], sessionId |-> sessionId[b],
                   isReady |-> isReady[b]]
<1>1. TypeOK'
    BY NextTypeOK DEF IInv, Next
<1>2. UNCHANGED <<sessionId, sessionToken, nextSid>>
    BY DEF SendState, ServerUnchanged, ServerSendState
<1>3. CASE ServerUnchanged /\ Returned(b, "SendState", FALSE)
    BY <1>1, <1>2, <1>3 DEF IInv, SidsIssued, TokenWithSession, SidOwnedByName,
                            ClientViewMatchesServer, ServerUnchanged, Returned, TypeOK,
                            SessionOf
<1>4. ASSUME NEW n \in SessionOf(req.sessionId), ServerSendState(n, req),
             NEW delivered \in BOOLEAN, Returned(b, "SendState", delivered)
      PROVE IInv'
    <2>1. n = b /\ srv[b].live /\ srv[b].sid = sessionId[b]
          /\ sessionToken[b] = TokenOf(srv[b].sid)
        BY ReachesOwnRecord
    (* BackEnd::update leaves the record live under the same session.     *)
    <2>2. /\ srv'[b].live /\ srv'[b].sid = srv[b].sid
          /\ \A m \in Backends \ {b} : srv'[m] = srv[m]
        BY <1>4, <2>1 DEF ServerSendState, UpdateBackEnd, IInv, TypeOK, Records
    <2>3. \A m \in Backends : (srv'[m].live <=> srv[m].live) /\ srv'[m].sid = srv[m].sid
        BY <2>1, <2>2
    <2>4. \A s : SessionOf(s)' = SessionOf(s)
        BY <2>3 DEF SessionOf
    <2>5. SidsIssued' /\ TokenWithSession' /\ SidOwnedByName'
        BY <1>2, <2>3 DEF IInv, SidsIssued, TokenWithSession, SidOwnedByName
    <2>6. ClientViewMatchesServer'
        <3> SUFFICES ASSUME NEW c \in Backends
                     PROVE  ClientViewMatchesServer!(c)'
            BY DEF ClientViewMatchesServer
        <3>1. CASE c = b
            BY <3>1, <1>2, <1>4, <2>1, <2>2 DEF Returned, IInv, TypeOK
        <3>2. CASE c # b
            BY <3>2, <1>2, <1>4, <2>2, <2>4 DEF Returned, IInv, TypeOK,
                                                ClientViewMatchesServer
        <3>3. QED
            BY <3>1, <3>2
    <2>7. QED
        BY <1>1, <2>5, <2>6 DEF IInv
<1>5. QED
    BY <1>3, <1>4 DEF SendState

LEMMA DeregisterIInv ==
    ASSUME IInv, NEW b \in Backends, Deregister(b) PROVE IInv'
<1> DEFINE req == [token |-> sessionToken[b], sessionId |-> sessionId[b]]
<1>1. TypeOK'
    BY NextTypeOK DEF IInv, Next
<1>2. UNCHANGED <<sessionId, sessionToken, nextSid>>
    BY DEF Deregister, ServerUnchanged, ServerDeregister
<1>3. CASE ServerUnchanged /\ Returned(b, "Deregister", FALSE)
    BY <1>1, <1>2, <1>3 DEF IInv, SidsIssued, TokenWithSession, SidOwnedByName,
                            ClientViewMatchesServer, ServerUnchanged, Returned, TypeOK,
                            SessionOf
<1>4. ASSUME NEW n \in SessionOf(req.sessionId), ServerDeregister(n, req),
             NEW delivered \in BOOLEAN, Returned(b, "Deregister", delivered)
      PROVE IInv'
    <2>1. n = b /\ srv[b].live /\ srv[b].sid = sessionId[b]
        BY ReachesOwnRecord
    (* The record is removed; every other record stays as it was.         *)
    <2>2. ~srv'[b].live /\ \A m \in Backends \ {b} : srv'[m] = srv[m]
        BY <1>4, <2>1 DEF ServerDeregister, NoRecord, IInv, TypeOK
    <2>3. \A s : SessionOf(s)' \subseteq SessionOf(s)
        BY <2>2 DEF SessionOf
    <2>4. SessionOf(sessionId[b])' = {}
        <3> SUFFICES ASSUME NEW m \in Backends, srv'[m].live, srv'[m].sid = sessionId[b]
                     PROVE  FALSE
            BY <1>2 DEF SessionOf
        <3>1. m # b
            BY <2>2, Zenon
        <3>2. srv[m].live /\ srv[m].sid = sessionId[b]
            BY <3>1, <2>2
        <3>3. QED
            BY <3>1, <3>2 DEF IInv, SidOwnedByName
    <2>5. SidsIssued' /\ TokenWithSession' /\ SidOwnedByName'
        BY <1>2, <2>2 DEF IInv, SidsIssued, TokenWithSession, SidOwnedByName
    <2>6. ClientViewMatchesServer'
        <3> SUFFICES ASSUME NEW c \in Backends
                     PROVE  ClientViewMatchesServer!(c)'
            BY DEF ClientViewMatchesServer
        <3>1. CASE c = b
            BY <3>1, <1>2, <1>4, <2>4 DEF Returned, IInv, TypeOK
        <3>2. CASE c # b
            <4>1. lastCall'[c] = lastCall[c] /\ srv'[c] = srv[c]
                BY <3>2, <1>4, <2>2 DEF Returned, IInv, TypeOK
            <4>2. QED
                BY <4>1, <1>2, <2>3 DEF IInv, ClientViewMatchesServer
        <3>3. QED
            BY <3>1, <3>2
    <2>7. QED
        BY <1>1, <2>5, <2>6 DEF IInv
<1>5. QED
    BY <1>3, <1>4 DEF Deregister

LEMMA NextIInv == IInv /\ [Next]_vars => IInv'
<1> SUFFICES ASSUME IInv, [Next]_vars PROVE IInv'
    OBVIOUS
<1>1. CASE UNCHANGED vars
    BY <1>1 DEF vars, IInv, TypeOK, SidsIssued, TokenWithSession, SidOwnedByName,
                ClientViewMatchesServer, SessionOf
<1>2. QED
    BY <1>1, ConstructIInv, UpdateIInv, RegisterIInv, SendStateIInv, DeregisterIInv
       DEF Next

(* Session agreement holds in every reachable state: whenever a client's  *)
(* last Register or SendState returned 0 the control plane holds its       *)
(* session, and whenever its last Deregister returned 0 no record does.    *)
THEOREM SessionAgreement == Spec => []ClientViewMatchesServer
<1>1. IInv => ClientViewMatchesServer
    BY DEF IInv
<1>2. QED
    BY <1>1, InitIInv, NextIInv, PTL DEF Spec

-----------------------------------------------------------------------------
(* The strengthened invariant holds in every reachable state: every id is  *)
(* issued below nextSid, a client's token goes with its id, and a live    *)
(* record holding a client's id is that client's, whatever lost replies,  *)
(* restarts and re-registrations came before.                              *)
THEOREM SessionInductive == Spec => []IInv
BY InitIInv, NextIInv, PTL DEF Spec

(* A client's SendState or Deregister changes no record but its own.       *)
LEMMA OwnRecordStep ==
    ASSUME IInv, NEW b \in Backends, SendState(b) \/ Deregister(b)
    PROVE  \A m \in Backends \ {b} : srv'[m] = srv[m]
<1>1. CASE SendState(b)
    <2> DEFINE req == [token |-> sessionToken[b], sessionId |-> sessionId[b],
                       isReady |-> isReady[b]]
    <2>1. CASE ServerUnchanged
        BY <2>1 DEF ServerUnchanged
    <2>2. ASSUME NEW n \in SessionOf(req.sessionId), ServerSendState(n, req)
          PROVE  \A m \in Backends \ {b} : srv'[m] = srv[m]
        <3>1. n = b
            BY ReachesOwnRecord
        <3>2. QED
            BY <2>2, <3>1 DEF ServerSendState, IInv, TypeOK
    <2>3. QED
        BY <1>1, <2>1, <2>2 DEF SendState
<1>2. CASE Deregister(b)
    <2> DEFINE req == [token |-> sessionToken[b], sessionId |-> sessionId[b]]
    <2>1. CASE ServerUnchanged
        BY <2>1 DEF ServerUnchanged
    <2>2. ASSUME NEW n \in SessionOf(req.sessionId), ServerDeregister(n, req)
          PROVE  \A m \in Backends \ {b} : srv'[m] = srv[m]
        <3>1. n = b
            BY ReachesOwnRecord
        <3>2. QED
            BY <2>2, <3>1 DEF ServerDeregister, IInv, TypeOK
    <2>3. QED
        BY <1>2, <2>1, <2>2 DEF Deregister
<1>3. QED
    BY <1>1, <1>2

(* Sessions are isolated in every behaviour: no backend's SendState or     *)
(* Deregister ever updates or removes another backend's record.            *)
THEOREM RecordsIsolated == Spec => OwnRecordOnly
<1>1. IInv /\ [Next]_vars =>
        [\A b \in Backends :
            SendState(b) \/ Deregister(b) => \A n \in Backends \ {b} : srv'[n] = srv[n]]_vars
    BY OwnRecordStep
<1>2. QED
    BY <1>1, SessionInductive, PTL DEF Spec, OwnRecordOnly

-----------------------------------------------------------------------------
(* Refinement of the session contract: the initial state maps to its      *)
(* initial state, and every step to a contract step or a stutter.          *)

(* The contract's current session per name, as the record table shows it. *)
CurrentMap == [n \in Backends |-> IF srv[n].live THEN srv[n].sid ELSE NoSession]

LEMMA InitSessionContract == Init => SC!Init
<1> SUFFICES ASSUME Init PROVE SC!Init
    OBVIOUS
<1>1. 1..(nextSid - 1) = {}
    BY DEF Init
<1>2. CurrentMap = [b \in Backends |-> SC!NoSid]
    BY DEF Init, CurrentMap, NoRecord, NoSession, SC!NoSid
<1>3. sessionId = [b \in Backends |-> SC!NoSid]
    BY DEF Init, NoSession, SC!NoSid
<1>4. QED
    BY <1>1, <1>2, <1>3 DEF SC!Init, CurrentMap

(* A registration the control plane applies is the contract's Open of the *)
(* same backend with a fresh id, the one in nextSid.                       *)
LEMMA RegisterSessionContract ==
    ASSUME IInv, NEW b \in Backends, Register(b), ServerRegister(b)
    PROVE  \E s \in SessionIds : SC!Open(b, s)
<1>1. PICK delivered \in BOOLEAN :
         IF delivered THEN sessionId' = [sessionId EXCEPT ![b] = nextSid]
                      ELSE UNCHANGED sessionId
    BY DEF Register
<1>2. PICK garbage \in BOOLEAN : srv' = [srv EXCEPT ![b] = NewBackEnd(nextSid, garbage)]
    BY DEF ServerRegister
<1>3. nextSid \in SessionIds /\ nextSid' = nextSid + 1
    BY DEF ServerRegister, IInv, TypeOK, SessionIds
<1>4. nextSid \in SessionIds \ 1..(nextSid - 1)
    BY <1>3
<1>5. 1..(nextSid' - 1) = 1..(nextSid - 1) \cup {nextSid}
    BY <1>3 DEF SessionIds
<1>6. CurrentMap' = [CurrentMap EXCEPT ![b] = nextSid]
    BY <1>2 DEF CurrentMap, NewBackEnd, IInv, TypeOK
<1>7. sessionId' = [sessionId EXCEPT ![b] = nextSid] \/ UNCHANGED sessionId
    BY <1>1
<1>8. PICK s \in SessionIds : s = nextSid
    BY <1>3
<1>9. SC!Open(b, s)
    BY <1>4, <1>5, <1>6, <1>7, <1>8 DEF SC!Open, CurrentMap
<1>10. QED
    BY <1>8, <1>9

(* A Deregister the control plane applies is the contract's Close: the    *)
(* record removed is the caller's own current session.                     *)
LEMMA DeregisterSessionContract ==
    ASSUME IInv, NEW b \in Backends, NEW n \in SessionOf(sessionId[b]),
           ServerDeregister(n, [token |-> sessionToken[b], sessionId |-> sessionId[b]]),
           UNCHANGED sessionId
    PROVE  SC!Close(b)
<1>1. n = b /\ srv[b].live /\ srv[b].sid = sessionId[b]
    BY ReachesOwnRecord
<1>2. sessionId[b] # NoSession
    BY <1>1 DEF IInv, SidsIssued, NoSession
<1>3. srv' = [srv EXCEPT ![b] = NoRecord] /\ UNCHANGED nextSid
    BY <1>1 DEF ServerDeregister
<1>4. CurrentMap[b] = sessionId[b]
    BY <1>1 DEF CurrentMap
<1>5. CurrentMap' = [CurrentMap EXCEPT ![b] = NoSession]
    BY <1>3 DEF CurrentMap, NoRecord, IInv, TypeOK
<1>6. QED
    BY <1>2, <1>3, <1>4, <1>5 DEF SC!Close, CurrentMap, NoSession, SC!NoSid

(* A step that leaves every record live under its session, the counter   *)
(* and the clients' ids as they were is a stutter of the contract.         *)
LEMMA SessionsKeptContract ==
    ASSUME UNCHANGED <<sessionId, nextSid>>,
           \A m \in Backends : (srv'[m].live <=> srv[m].live) /\ srv'[m].sid = srv[m].sid
    PROVE  UNCHANGED SC!cvars
<1>1. CurrentMap' = CurrentMap
    BY DEF CurrentMap
<1>2. QED
    BY <1>1 DEF SC!cvars, CurrentMap

LEMMA NextSessionContract == IInv /\ [Next]_vars => [SC!Next]_SC!cvars
<1> SUFFICES ASSUME IInv, [Next]_vars PROVE [SC!Next]_SC!cvars
    OBVIOUS
<1>1. CASE UNCHANGED vars
    BY <1>1, SessionsKeptContract DEF vars
<1>2. ASSUME NEW b \in Backends, Construct(b) PROVE SC!Next
    <2>1. SC!Restart(b)
        BY <1>2 DEF Construct, ServerUnchanged, SC!Restart, NoSession, SC!NoSid
    <2>2. QED
        BY <2>1 DEF SC!Next
<1>3. ASSUME NEW b \in Backends, NEW ready \in BOOLEAN, Update(b, ready)
      PROVE UNCHANGED SC!cvars
    BY <1>3, SessionsKeptContract DEF Update
<1>4. ASSUME NEW b \in Backends, Register(b) PROVE [SC!Next]_SC!cvars
    <2>1. CASE ServerUnchanged /\ UNCHANGED <<sessionId, sessionToken>>
        BY <2>1, SessionsKeptContract DEF ServerUnchanged
    <2>2. CASE ServerRegister(b)
        <3>3. \E s \in SessionIds : SC!Open(b, s)
            BY <1>4, <2>2, RegisterSessionContract
        <3>4. SC!Next
            BY <3>3 DEF SC!Next
        <3>5. QED
            BY <3>4
    <2>3. QED
        BY <1>4, <2>1, <2>2 DEF Register
<1>5. ASSUME NEW b \in Backends, SendState(b) PROVE UNCHANGED SC!cvars
    <2> DEFINE req == [token |-> sessionToken[b], sessionId |-> sessionId[b],
                       isReady |-> isReady[b]]
    <2>1. UNCHANGED <<sessionId, nextSid>>
        BY <1>5 DEF SendState, ServerUnchanged, ServerSendState
    <2>2. CASE ServerUnchanged
        BY <2>1, <2>2, SessionsKeptContract DEF ServerUnchanged
    <2>3. ASSUME NEW n \in SessionOf(req.sessionId), ServerSendState(n, req)
          PROVE UNCHANGED SC!cvars
        <3>1. n = b /\ srv[b].live
            BY ReachesOwnRecord
        <3>2. \A m \in Backends : (srv'[m].live <=> srv[m].live) /\ srv'[m].sid = srv[m].sid
            BY <2>3, <3>1 DEF ServerSendState, UpdateBackEnd, IInv, TypeOK, Records
        <3>3. QED
            BY <2>1, <3>2, SessionsKeptContract
    <2>4. QED
        BY <1>5, <2>2, <2>3 DEF SendState
<1>6. ASSUME NEW b \in Backends, Deregister(b) PROVE [SC!Next]_SC!cvars
    <2> DEFINE req == [token |-> sessionToken[b], sessionId |-> sessionId[b]]
    <2>1. UNCHANGED <<sessionId, nextSid>>
        BY <1>6 DEF Deregister, ServerUnchanged, ServerDeregister
    <2>2. CASE ServerUnchanged
        BY <2>1, <2>2, SessionsKeptContract DEF ServerUnchanged
    <2>3. ASSUME NEW n \in SessionOf(req.sessionId), ServerDeregister(n, req)
          PROVE SC!Next
        <3>1. SC!Close(b)
            BY <2>1, <2>3, DeregisterSessionContract
        <3>2. QED
            BY <3>1 DEF SC!Next
    <2>4. QED
        BY <1>6, <2>2, <2>3 DEF Deregister
<1>7. QED
    BY <1>1, <1>2, <1>3, <1>4, <1>5, <1>6 DEF Next

(* The backend clients and the control plane's table implement the       *)
(* session contract of spec.md: Register stores only the fresh id of the  *)
(* registration whose reply arrived, SendState and update change no        *)
(* session, Deregister ends only the caller's own current session, and a  *)
(* restart only clears the client's credentials.                           *)
THEOREM SessionRefinesContract == Spec => SessionContractSpec
BY SessionInductive, InitSessionContract, NextSessionContract, PTL
   DEF Spec, SessionContractSpec, SC!Spec

=============================================================================
