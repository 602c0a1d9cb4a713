-------------------------- MODULE SessionContract --------------------------
(***************************************************************************)
(* What the backend session protocol promises, stated from spec.md (3,    *)
(* 4.1, 5, 9) without the code.  The control plane keeps at most one      *)
(* session per backend name; a registration assigns a fresh session id    *)
(* and replaces the name's session; the client holds credentials only     *)
(* from a Register whose reply it received, and a failed call leaves them *)
(* as they were; a Deregister ends a session only when it is the caller's *)
(* own current one; telemetry (SendState) changes no session; a restarted *)
(* process starts with no credentials and the control plane keeps the old *)
(* session.                                                                *)
(*                                                                         *)
(* BackendSession implements this specification under the mapping given  *)
(* there (SessionContractSpec).                                            *)
(***************************************************************************)
EXTENDS Naturals

CONSTANTS
    Backends,   \* backend names, one client each
    Ids         \* session ids the control plane may assign

VARIABLES
    issued,     \* ids assigned so far
    current,    \* current[b]: the control plane's session for name b
    cred        \* cred[b]: the session id the client of b holds

cvars == <<issued, current, cred>>

NoSid == 0      \* no session / no credentials

Init ==
    /\ issued = {}
    /\ current = [b \in Backends |-> NoSid]
    /\ cred = [b \in Backends |-> NoSid]

(* A registration of b with a fresh id; the reply reaches the client, or  *)
(* is lost and the client keeps what it had.                              *)
Open(b, s) ==
    /\ s \in Ids \ issued
    /\ issued' = issued \cup {s}
    /\ current' = [current EXCEPT ![b] = s]
    /\ \/ cred' = [cred EXCEPT ![b] = s]
       \/ UNCHANGED cred

(* A Deregister that the control plane applies: only the caller's own     *)
(* current session ends.                                                   *)
Close(b) ==
    /\ cred[b] # NoSid
    /\ current[b] = cred[b]
    /\ current' = [current EXCEPT ![b] = NoSid]
    /\ UNCHANGED <<issued, cred>>

(* The backend process restarts with a fresh client.                       *)
Restart(b) ==
    /\ cred' = [cred EXCEPT ![b] = NoSid]
    /\ UNCHANGED <<issued, current>>

Next ==
    \E b \in Backends :
        \/ \E s \in Ids : Open(b, s)
        \/ Close(b)
        \/ Restart(b)

Spec == Init /\ [][Next]_cvars

=============================================================================
