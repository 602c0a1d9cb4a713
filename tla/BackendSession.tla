--------------------------- MODULE BackendSession ---------------------------
(***************************************************************************)
(* The backend session protocol of lb_cplane.cc: the client class          *)
(* LbControlPlaneClient (Register, SendState, Deregister, update, and the  *)
(* constructor, which a restarted backend process runs again), and the     *)
(* control plane's table of BackEnd records that those calls change.       *)
(*                                                                         *)
(* Every client call is one blocking gRPC exchange with no deadline and no *)
(* retry.  Its outcome is one of three: the server never applies it (the   *)
(* channel is down or the server refuses it); the server applies it and    *)
(* the reply arrives; the server applies it and the reply is lost.  In the *)
(* last two the server's step has happened; the client acts on its own     *)
(* fields only when status.ok().                                           *)
(*                                                                         *)
(* The control plane itself is not in this repository: its table is       *)
(* modelled from spec.md (section 9: a mapping from backend name to its    *)
(* record, insert on Register, update on SendState, remove on Deregister,  *)
(* a fresh session id per registration).  The record it stores, and the    *)
(* way SendState updates it, are the BackEnd class of lb_cplane.cc.        *)
(*                                                                         *)
(* Data is abstracted to what the properties tell apart: tokens, lbId,     *)
(* weight, endpoint, fill and PID error are constants of a client and are  *)
(* left out; a session id or session token is a number, 0 standing for the *)
(* empty string the fields hold before a Register succeeds.                *)
(***************************************************************************)
EXTENDS Naturals

CONSTANTS
    Backends,     \* names of the backend processes (one client object each)
    MaxSessions,  \* bound on the registrations the control plane accepts
    AlwaysReady   \* TRUE: update() forces isReady (earlier revision)

ASSUME BackendsAssumption == Backends # {}
ASSUME MaxSessionsAssumption == MaxSessions \in Nat \ {0}
ASSUME AlwaysReadyAssumption == AlwaysReady \in BOOLEAN

VARIABLES
    sessionId,      \* LbControlPlaneClient::sessionId, per backend
    sessionToken,   \* LbControlPlaneClient::sessionToken, per backend
    isReady,        \* LbControlPlaneClient::isReady, per backend
    srv,            \* control plane: backend name -> BackEnd record
    nextSid,        \* control plane: next fresh session id
    lastCall,       \* history: each client's last RPC and its return value
    reportedReady   \* history: readiness of the last SendState applied to a record

vars == <<sessionId, sessionToken, isReady, srv, nextSid, lastCall, reportedReady>>

-----------------------------------------------------------------------------
NoSession == 0                        \* the empty std::string
SessionIds == 1..MaxSessions
SessionVals == {NoSession} \cup SessionIds

(* The token the control plane hands out with session id s. *)
TokenOf(s) == s

Ops == {"none", "Register", "SendState", "Deregister"}
(* The readiness of the last applied SendState, as a set: {} when none.  *)
NoReport == {}

(* A BackEnd record: "sid" is the id the control plane issued (its lookup  *)
(* key); sessionId and isReady are the fields of class BackEnd.            *)
Records == [live : BOOLEAN, sid : SessionVals, sessionId : SessionVals,
            isReady : BOOLEAN]
NoRecord == [live |-> FALSE, sid |-> NoSession, sessionId |-> NoSession,
             isReady |-> FALSE]

TypeOK ==
    /\ sessionId \in [Backends -> SessionVals]
    /\ sessionToken \in [Backends -> SessionVals]
    /\ isReady \in [Backends -> BOOLEAN]
    /\ srv \in [Backends -> Records]
    /\ nextSid \in 1..(MaxSessions + 1)
    /\ lastCall \in [Backends -> [op : Ops, ok : BOOLEAN]]
    /\ reportedReady \in [Backends -> SUBSET BOOLEAN]

-----------------------------------------------------------------------------
(* BackEnd::BackEnd(req): copies the request's identity and endpoint,      *)
(* leaves sessionId empty and isReady uninitialized; reading it later      *)
(* yields whatever the storage held, so it is any Boolean.                 *)
NewBackEnd(s, garbage) ==
    [live |-> TRUE, sid |-> s, sessionId |-> NoSession, isReady |-> garbage]

(* BackEnd::update(state): the timestamp and local receipt time are        *)
(* recorded (abstracted here), sessionId is overwritten by the request's;  *)
(* fill, PID error and readiness are not stored.                           *)
UpdateBackEnd(r, req) == [r EXCEPT !.sessionId = req.sessionId]

(* The names whose live record holds session s (spec-modelled lookup).    *)
SessionOf(s) == {n \in Backends : srv[n].live /\ srv[n].sid = s}

(* Mutant: an off-by-one in the bound on registrations.                   *)
ServerRegisterPastBound(b) ==
    /\ nextSid <= MaxSessions + 1
    /\ \E garbage \in BOOLEAN :
          srv' = [srv EXCEPT ![b] = NewBackEnd(nextSid, garbage)]
    /\ nextSid' = nextSid + 1
    /\ reportedReady' = [reportedReady EXCEPT ![b] = NoReport]

(* Control plane side of Register: a fresh id and a new record that       *)
(* replaces any earlier record under the same name.                       *)
ServerRegister(b) ==
    /\ nextSid <= MaxSessions
    /\ \E garbage \in BOOLEAN :
          srv' = [srv EXCEPT ![b] = NewBackEnd(nextSid, garbage)]
    /\ nextSid' = nextSid + 1
    /\ reportedReady' = [reportedReady EXCEPT ![b] = NoReport]

(* Control plane side of SendState: the record holding the session, when  *)
(* the token matches, is updated by BackEnd::update.                       *)
ServerSendState(n, req) ==
    /\ req.token = TokenOf(srv[n].sid)
    /\ srv' = [srv EXCEPT ![n] = UpdateBackEnd(@, req)]
    /\ reportedReady' = [reportedReady EXCEPT ![n] = {req.isReady}]
    /\ UNCHANGED nextSid

(* Control plane side of Deregister: the record is removed.               *)
ServerDeregister(n, req) ==
    /\ req.token = TokenOf(srv[n].sid)
    /\ srv' = [srv EXCEPT ![n] = NoRecord]
    /\ reportedReady' = [reportedReady EXCEPT ![n] = NoReport]
    /\ UNCHANGED nextSid

ServerUnchanged == UNCHANGED <<srv, nextSid, reportedReady>>

Returned(b, op, ok) == lastCall' = [lastCall EXCEPT ![b] = [op |-> op, ok |-> ok]]

-----------------------------------------------------------------------------
Init ==
    /\ sessionId = [b \in Backends |-> NoSession]
    /\ sessionToken = [b \in Backends |-> NoSession]
    /\ isReady = [b \in Backends |-> TRUE]
    /\ srv = [n \in Backends |-> NoRecord]
    /\ nextSid = 1
    /\ lastCall = [b \in Backends |-> [op |-> "none", ok |-> FALSE]]
    /\ reportedReady = [n \in Backends |-> NoReport]

(* LbControlPlaneClient constructor: a backend process starts (again)      *)
(* with a fresh client object; the control plane keeps whatever record a  *)
(* previous incarnation left.                                              *)
Construct(b) ==
    /\ sessionId' = [sessionId EXCEPT ![b] = NoSession]
    /\ sessionToken' = [sessionToken EXCEPT ![b] = NoSession]
    /\ isReady' = [isReady EXCEPT ![b] = TRUE]
    /\ lastCall' = [lastCall EXCEPT ![b] = [op |-> "none", ok |-> FALSE]]
    /\ ServerUnchanged

(* update(fill, pidErr, ready) of the current revision.                    *)
UpdateCaller(b, ready) == isReady' = [isReady EXCEPT ![b] = ready]

(* update(fill, pidErr) of the earlier revision: always ready.             *)
UpdateForced(b, ready) == isReady' = [isReady EXCEPT ![b] = TRUE]

Update(b, ready) ==
    /\ IF AlwaysReady THEN UpdateForced(b, ready) ELSE UpdateCaller(b, ready)
    /\ UNCHANGED <<sessionId, sessionToken, srv, nextSid, lastCall, reportedReady>>

(* Mutant: Register() stores the reply's token but keeps the old session *)
(* id (a dropped assignment).                                              *)
RegisterKeepsSessionId(b) ==
    /\ UNCHANGED isReady
    /\ \/ /\ ServerUnchanged
          /\ Returned(b, "Register", FALSE)
          /\ UNCHANGED <<sessionId, sessionToken>>
       \/ /\ ServerRegister(b)
          /\ \E delivered \in BOOLEAN :
                /\ Returned(b, "Register", delivered)
                /\ UNCHANGED sessionId
                /\ IF delivered
                      THEN sessionToken' = [sessionToken EXCEPT ![b] = TokenOf(nextSid)]
                      ELSE UNCHANGED sessionToken

(* Mutant: an off-by-one in the reply field stored, the id the control   *)
(* plane will issue next instead of the one it just issued.               *)
RegisterStoresNextSid(b) ==
    /\ UNCHANGED isReady
    /\ \/ /\ ServerUnchanged
          /\ Returned(b, "Register", FALSE)
          /\ UNCHANGED <<sessionId, sessionToken>>
       \/ /\ ServerRegister(b)
          /\ \E delivered \in BOOLEAN :
                /\ Returned(b, "Register", delivered)
                /\ IF delivered
                      THEN /\ sessionId' = [sessionId EXCEPT ![b] = nextSid + 1]
                           /\ sessionToken' = [sessionToken EXCEPT ![b] = TokenOf(nextSid + 1)]
                      ELSE UNCHANGED <<sessionId, sessionToken>>

(* Register(): on !status.ok() return 1 with the session fields untouched; *)
(* else store the reply's session id and token.                            *)
Register(b) ==
    /\ UNCHANGED isReady
    /\ \/ /\ ServerUnchanged
          /\ Returned(b, "Register", FALSE)
          /\ UNCHANGED <<sessionId, sessionToken>>
       \/ /\ ServerRegister(b)
          /\ \E delivered \in BOOLEAN :
                /\ Returned(b, "Register", delivered)
                /\ IF delivered
                      THEN /\ sessionId' = [sessionId EXCEPT ![b] = nextSid]
                           /\ sessionToken' = [sessionToken EXCEPT ![b] = TokenOf(nextSid)]
                      ELSE UNCHANGED <<sessionId, sessionToken>>

(* SendState(): sends the stored token and session id, a timestamp, fill, *)
(* PID error and isReady, whatever the fields hold; no state changes on    *)
(* the client.  It succeeds only if the control plane applied it and the  *)
(* reply arrived.                                                          *)
SendState(b) ==
    LET req == [token |-> sessionToken[b], sessionId |-> sessionId[b],
                isReady |-> isReady[b]]
    IN /\ UNCHANGED <<sessionId, sessionToken, isReady>>
       /\ \/ /\ ServerUnchanged
             /\ Returned(b, "SendState", FALSE)
          \/ \E n \in SessionOf(req.sessionId) :
                /\ ServerSendState(n, req)
                /\ \E delivered \in BOOLEAN : Returned(b, "SendState", delivered)

(* Deregister(): sends the stored token and session id; the client's own  *)
(* session fields are left as they are whatever the outcome.              *)
Deregister(b) ==
    LET req == [token |-> sessionToken[b], sessionId |-> sessionId[b]]
    IN /\ UNCHANGED <<sessionId, sessionToken, isReady>>
       /\ \/ /\ ServerUnchanged
             /\ Returned(b, "Deregister", FALSE)
          \/ \E n \in SessionOf(req.sessionId) :
                /\ ServerDeregister(n, req)
                /\ \E delivered \in BOOLEAN : Returned(b, "Deregister", delivered)

Next ==
    \E b \in Backends :
        \/ Construct(b)
        \/ \E ready \in BOOLEAN : Update(b, ready)
        \/ Register(b)
        \/ SendState(b)
        \/ Deregister(b)

Spec == Init /\ [][Next]_vars

-----------------------------------------------------------------------------
(* Session agreement (spec 4.1 and test 7): when a client's last call      *)
(* returned 0, its view of its session is the control plane's.  After a   *)
(* successful Register or SendState the control plane holds a record for  *)
(* this backend under exactly the session id and token the client will    *)
(* send next; after a successful Deregister no record holds that session. *)
(* A lost Register reply, a restart, or a record replaced by a later      *)
(* registration must never leave a client that believes in a session the *)
(* control plane does not have.                                           *)
ClientViewMatchesServer ==
    \A b \in Backends :
        /\ lastCall[b].ok /\ lastCall[b].op \in {"Register", "SendState"}
              => /\ srv[b].live
                 /\ srv[b].sid = sessionId[b]
                 /\ sessionToken[b] = TokenOf(srv[b].sid)
        /\ lastCall[b].ok /\ lastCall[b].op = "Deregister"
              => SessionOf(sessionId[b]) = {}

(* Sessions are isolated (spec 9: the control plane finds a record by the  *)
(* session id and token the request carries): a backend's SendState or    *)
(* Deregister never updates or removes the record of another backend.     *)
(* LbControlPlaneClient sends whatever its fields hold; stale ids after a *)
(* lost Register reply, a restart or a re-registration must never make    *)
(* them name another backend's session.                                    *)
OwnRecordOnly ==
    [][\A b \in Backends :
          SendState(b) \/ Deregister(b) => \A n \in Backends \ {b} : srv'[n] = srv[n]]_vars

(* Spec 8.2 and 7(b): SendState before a successful Register must fail     *)
(* fast without contacting the control plane.  LbControlPlaneClient::      *)
(* SendState has no such check: it sends the empty session id and token.  *)
SendStateNeedsRegistration ==
    [][\A b \in Backends : SendState(b) => sessionId[b] # NoSession]_vars

(* Spec 3 (Session Record): the record keeps the readiness flag the       *)
(* backend last reported.  BackEnd::update never assigns isReady, and the *)
(* constructor leaves it uninitialized.                                    *)
RecordReadyReflectsReport ==
    \A n \in Backends :
        srv[n].live => reportedReady[n] \subseteq {srv[n].isReady}

-----------------------------------------------------------------------------
(* The session contract of spec.md under the mapping: the ids below       *)
(* nextSid are the issued ones, a live record's id is its name's current  *)
(* session, and a client's sessionId field is its credentials.            *)
SC == INSTANCE SessionContract
        WITH Ids <- SessionIds,
             issued <- 1..(nextSid - 1),
             current <- [n \in Backends |-> IF srv[n].live THEN srv[n].sid ELSE NoSession],
             cred <- sessionId

(* The clients and the control plane implement the session contract:     *)
(* Register stores only the fresh id of the registration whose reply it   *)
(* received; SendState and update never change a session; a Deregister    *)
(* removes a record only when it is the caller's own current session; a   *)
(* restart clears the credentials and leaves the control plane as it was. *)
SessionContractSpec == SC!Spec

=============================================================================
