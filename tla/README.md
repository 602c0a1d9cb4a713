# TLA+ models of the ersap-grpc load-balancer control-plane client

This directory holds TLA+ models of the C++ client library in `src/`.
They cover `lb_cplane.h` and the implementation file (in this tree it is
stored as `src/CMakeLists.txt`, with an earlier revision in
`src/unnamed/part_000`). Alongside the models are the TLC configurations
that check them and the TLAPS proofs of their main invariants.

## The system

The library is the client side of two protocols. Both talk to an external
control plane (the "CP").

| Part | Code | State | Operations |
|---|---|---|---|
| Backend Session Client | `LbControlPlaneClient` (h 192-284, cc 349-519) | `sessionId`, `sessionToken`, `isReady`, `fillPercent`, `pidError` | constructor, `update`, `Register`, `SendState`, `Deregister`, getters |
| Session Record | `BackEnd` (h 100-187, cc 226-345) | identity, endpoint, `sessionId`, `time`, `localTime`, `isReady`, `isActive` | constructor, `update`, `setIsActive` (run by the CP) |
| Control-plane session table | not in this repository (spec.md §9) | name -> `BackEnd` | the CP's Register / SendState / Deregister handlers and its liveness sweep |
| Reservation Client | `LbReservation` instance methods (cc 537-686, 1059-1085) | `instanceToken`, `lbId`, sync/data addresses, `syncUdpPort`, `isReserved`, `untilSeconds`, `clientStats` | `ReserveLoadBalancer`, `FreeLoadBalancer`, `LoadBalancerStatus`, `reservationElapsed`, `reserved` |
| Static one-shot operations | `LbReservation::ReserveLoadBalancer/FreeLoadBalancer/LoadBalancerStatus/GetLbUri` (cc 775-1055) | none kept: each returns a URI or an error string | open a channel, do one RPC, format the result |
| Address Resolver | `is_ipv4`, `is_ipv6`, `resolve_host` (cc 694-755) | none | classify an address literal; resolve a host name |

How the parts interact:
- A reservation produces a URI, and the URI's parameters configure the
  backends.
- Each backend runs one `LbControlPlaneClient`. It registers, reports its
  state with `SendState`, and deregisters at shutdown.
- The CP keeps one `BackEnd` record per registered name.
- `LoadBalancerStatus` reads those records back into the reservation's
  `clientStats` map.

Every call is one blocking gRPC exchange, with no deadline and no retry.
The client's own state changes only when `status.ok()`.

The behaviours that make this hard to test, each listed under "hazards" in
`PROJECT.json`:
- **Lost replies.** The CP applies a Register but its reply is lost. The
  client then keeps old credentials while the CP holds a new session.
- **Calls out of protocol order.** `SendState` before `Register` is sent
  with empty credentials. `Free` and `Status` before `Reserve` are also
  sent.
- **Restarts.** A backend restarts without calling `Deregister`. Its old
  record stays in the table.
- **Stale local state.** `Deregister` does not clear the credentials.
  `FreeLoadBalancer` does not clear `isReserved`.
- **An uninitialized field.** `BackEnd::isReady` is never assigned.
- **Boundary and address handling.** `reservationElapsed` compares with
  strict `>`. `syncUdpPort` is truncated to 16 bits. A sync address
  shorter than 16 characters is replaced by a fallback. `resolve_host`
  keeps the last address it sees. `url[256]` can overflow.

## Modules

### `BackendSession` — session client and CP session table

This module models the session client, the CP table and the records in it.

| TLA+ | Code |
|---|---|
| `sessionId`, `sessionToken`, `isReady` (per backend) | the fields of `LbControlPlaneClient` |
| `srv` (name -> record), `nextSid` | the CP's table and its fresh-id source (spec-modelled) |
| `Construct(b)` | the constructor. A restarted process builds a new client; the CP keeps its record. |
| `Update(b, ready)` | `update`. Constant `AlwaysReady` selects the earlier revision, which forced `isReady = true`. |
| `Register(b)`, `SendState(b)`, `Deregister(b)` | the three RPC methods |
| `NewBackEnd`, `UpdateBackEnd` | `BackEnd`'s constructor and `update`, as the CP runs them |

Each RPC action has three outcomes:
1. The CP does not apply the call (a refused call or a channel error).
2. The CP applies it and the reply arrives.
3. The CP applies it and the reply is lost.

The client changes its fields only in outcome 2, exactly as the code tests
`status.ok()`. `BackEnd::isReady` is uninitialized in the code, so the
model gives it a nondeterministic Boolean.

History variables record facts the properties need:
- `lastCall` holds each client's last RPC and whether it returned ok.
- `reportedReady` holds the readiness the last applied SendState carried.

Data is abstracted:
- A session id is a number, and its token is a function of the id.
- `0` is the empty string the fields hold before a successful Register.
- Weight, endpoint, fill and PID error never influence control flow, so
  they are left out.

Properties:
- `TypeOK`.
- `ClientViewMatchesServer`. If a client's last call was a successful
  Register or SendState, the CP holds a live record under its name, with
  the session id and token the client holds. If its last call was a
  successful Deregister, no live record has its session id. Breaking this
  takes a lost reply, a restart or a re-registration, interleaved between
  two backends.
- `OwnRecordOnly` (action property). A backend's SendState or Deregister
  never updates or removes another backend's record. The client sends
  whatever its fields hold, and the CP looks the record up by that
  session id and token. Stale ids after a lost reply, a restart or a
  re-registration must never name another backend's session.
- `SessionContractSpec` (refinement). The clients and the CP table
  implement `SessionContract`; see the next section.
- `SendStateNeedsRegistration` (action property). A SendState step is only
  taken with a session id. This is spec §4.1/§8.2.
- `RecordReadyReflectsReport`. A live record's readiness is the one the
  backend last reported. This is spec §3.

### `SessionContract`: what the session protocol promises

This is an abstract specification written from spec.md alone (§3, §4.1,
§5, §9), with no reference to the code. Its state:
- the session ids issued so far;
- `current`, the CP's session per backend name;
- `cred`, the id each client holds.

Its actions:
- `Open(b, s)` assigns a fresh id `s` to name `b` and replaces its
  session. The client receives it, or the reply is lost and the client
  keeps what it had.
- `Close(b)` ends `b`'s session, only when it is the caller's own current
  one.
- `Restart(b)` clears the client's credentials and leaves the CP as it
  was.

`BackendSession` instantiates it as `SC` with this mapping:

| Contract | BackendSession |
|---|---|
| `issued` | `1..(nextSid - 1)` |
| `current` | each live record's `sid`, 0 for a name with no live record |
| `cred` | `sessionId` |

Each step maps as follows:
- A Register that the CP applies maps to `Open`.
- A Deregister that the CP applies maps to `Close`.
- The constructor maps to `Restart`.
- SendState, `update` and refused calls are stutters. `BackEnd::update`
  leaves the record live under the same session.

Tokens are left out of the contract. `TokenWithSession` ties them to the
id.

`SessionContractSpec == SC!Spec` is checked by TLC in `session_safety` and
proved by TLAPS.

### `LbReservation`: the reservation client and the CP's reservation table

| TLA+ | Code |
|---|---|
| `isReserved`, `lbId`, `syncIpAddress`, `clientStats` (per object) | the fields of `LbReservation`. `Init` is the constructor. |
| `now` | `clock_gettime(CLOCK_REALTIME).tv_sec`, which `reservationElapsed` reads |
| `ReserveLoadBalancer(o)` | the instance method, with the sync-address work-around `SyncFallback`. The reply may arrive or be lost. A refusal is a stuttering step. |
| `FreeLoadBalancer(o)` | the const method. It sends whatever `lbId` holds and never changes the object. |
| `LoadBalancerStatus(o)`, `StoreWorkers` | the instance method and its loop over `reply.workers`: each worker of the reply overwrites its own `clientStats` entry. Other entries stay. |
| `StaticFreeLoadBalancer(i)` | the static `FreeLoadBalancer(cpIP, cpPort, lbId, token)`. It frees an LB by id, and no object is told. |
| `StaticLoadBalancerStatus(i)`, `callerStats` | the static `LoadBalancerStatus`, which runs the same loop into a map the caller owns |
| `ReservationElapsed`, `Reserved` | `reservationElapsed()` (`now > untilSeconds`) and `reserved()` |
| `lbs`, `nextLb`, `workers`, `CpReserve`, `CpExpire`, `WorkerChange`, `Tick` | the CP's table and the clock (spec-modelled) |

How data is abstracted:
- An address is its family and its length, which is all the code's
  `size() < 16` test looks at.
- An LB id is a number, with `0` for the empty string.
- The CP's expiry is enabled once `now >= until`. The request carries
  `nanos = 0`, so the instant `until.0` has passed during the second
  `until`.

Properties:
- `HeldIsIssued`. An object with `isReserved` holds an id the CP granted
  for its own name and expiry.
- `SyncOfOwnGrant`. A reserved object's sync address is its own grant's
  reply, or `cpAddr` put in its place by the work-around, and is never
  empty. It must survive lost replies, grants to the other object and
  re-reservations.
- `ReservationContractSpec` (refinement). The objects and the CP implement
  `ReservationContract`; see the next section.
- `NotReservedAfterFree`, `NotReservedAfterExpiry`, `SyncFromReply` state
  what spec §9, §3 and §4.2/8.6 say. The code violates all three; see the
  findings.

### `ReservationContract`: what a reservation client promises

This is an abstract specification written from spec.md alone (§3, §4.2,
§8.3, §8.8), with no reference to the code. Its state:
- the issued LB ids;
- the live leases, with the name each was granted for;
- per object, `granted` and `held`, the id the object stored.

Its actions:
- `Grant(o, i)` grants a fresh id, only for an expiry not yet past and a
  name no live lease holds. The object sees the grant, or the reply is lost
  and the object keeps what it had.
- `Release(i)` ends a lease, by Free or by expiry. No object's state
  changes.
- `Tick` advances the clock.

`LbReservation` instantiates it as `C` with this mapping:

| Contract | LbReservation |
|---|---|
| `granted`, `held` | `isReserved`, `lbId` |
| `issued` | the CP entries that are not `"unused"` |
| `live` | the entries that are `"held"` |
| `nameOf` | each entry's name |

Each step maps as follows:
- A grant maps to `Grant`.
- An instance or static Free of a held LB, and a CP expiry, map to
  `Release`.
- Everything else is a stutter.

`ReservationContractSpec == C!Spec` is checked by TLC. The contract's
fairness, `WF(Tick)`, is included in that check. The safety part is proved
by TLAPS.

What the refinement shows:
- An object's `lbId` and `isReserved` change only in a successful
  `ReserveLoadBalancer`, and then to the id the CP has just granted.
- Free, Status, the static calls and expiry never touch them.

### `UriBuild`: the static URI-producing calls

The module models `is_ipv4`, `is_ipv6`, `resolve_host`, the static
`ReserveLoadBalancer` and `GetLbUri`.

A string is abstracted to the class its regular expressions distinguish:
- `v4`;
- `v6full` (eight groups);
- `v6comp` (compressed, as `inet_ntop` prints most IPv6 addresses);
- `host`;
- empty.

Each string also keeps its length. `getaddrinfo`'s answer is a failure, or
a sequence of up to two printed addresses. For a numeric `cpIP` the answer
is that address itself.

How the code maps to the model:
- `resolve_host`'s loop is the fold `FoldLeft(ResolveStep, ...)`.
- The `cpIP` conversion is `CpAddress`.
- The sync work-around is `SyncAddress`.
- The `sprintf` of the result is `FormatUri`. It produces a record: the
  kind, the token, the CP address, the data family, the sync address, and
  whether anything was written to `std::cerr`.

`RefCp` and `RefSync` are the spec's own selection rule (spec §4.2 steps
1-3: the first address of each family). They serve as the reference.

Properties:
- `CpMatchesSpecWhenUnambiguous`. Given at most one address per family,
  the code's choice is the spec's.
- `SyncNeverEmpty`.
- `CpMatchesSpec`, `SyncMatchesSpec` and `NothingPrintedOnSuccess` state
  spec §4.2 step 2, scenario 8.6 and §7. The code violates all three.

## Runs

| Run | Expect | What it shows |
|---|---|---|
| `session_safety` | pass | Two backends, five registrations, lost replies, refusals and restarts keep `ClientViewMatchesServer` and `OwnRecordOnly`, and implement `SessionContract`. |
| `session_iinv` | pass | `IInv` holds with the earlier, always-ready `update`. |
| `sendstate_before_register` | violation | SendState from the initial state contacts the CP with empty credentials. |
| `record_readiness` | violation | After Register then SendState(ready) the record's `isReady` can be FALSE. It is never assigned. |
| `reservation_safety` | pass | Two objects, one name and two expiries, with lost replies, instance and static frees and polls, and expiries, keep `HeldIsIssued`, `SyncOfOwnGrant` and `RInv`, and implement `ReservationContract`, whose fair clock makes every reservation lapse. |
| `reserved_after_free` | violation | Reserve, then Free: `reserved()` is still true. |
| `reserved_after_expiry` | violation | Reserve, then a tick to `now = until`, then the CP expires the reservation while `reserved()` is true. |
| `sync_fallback` | violation | The CP reports `10.0.0.1` (8 chars) and the object stores `cpAddr`. |
| `uri_selection` | pass | All 400 input combinations give the spec's CP address when unambiguous and always name a sync address. |
| `resolver_order` | violation | A host with two IPv4 addresses gets the last in the URI. |
| `static_sync_fallback` | violation | Spec scenario 8.6 gets `sync=<cpAddr>` instead of `sync=10.0.0.1`. |
| `resolver_error_output` | violation | The RPC succeeds, `getaddrinfo` fails, and `resolve_host` writes to `std::cerr` while a URI is returned. |

Bounds:
- **Two backends or two objects.** This is the least number for which one
  actor's calls interleave with another's. Symmetry over backend names is
  sound, because no definition singles one out.
- **`MaxSessions = 5` in `session_safety`.** Both backends can register,
  lose a reply, re-register and restart. The run takes seconds. Three
  backends with four sessions take about five minutes and are left out.
- **`MaxSessions = 3` in `session_iinv`.** This is enough for a
  registration, a re-registration after a lost reply, and one after a
  restart.
- **`MaxSessions = 2` in the two session violation runs.** Each
  counterexample needs at most one registration; the second session only
  lets TLC try a re-registration as well.
- **Reservations.** Both objects ask for the same LB name, so a lost
  reply's orphan reservation blocks the other object. The expiries are 1
  and 2, with `MaxTime = 3`, so every expiry boundary is crossed.
  `MaxLbs = 3` allows a lost reply followed by two grants.
  The statistics are one abstract value. No control flow or property
  depends on their content, only on which entries exist; a second value
  made the run ten times longer.
- **URI inputs.** The sync replies include the longest IPv4 literal (15
  characters), which still falls under the 16-character test. Resolver
  answers of length 2 are enough to tell first from last.

Fairness:
- `LbReservation` assumes weak fairness of `Tick` only. Wall-clock time
  advances whatever the program does.
- No client call is fair. The clients are driven by external callers
  (spec §5), which may stop at any time.
- `UriBuild` is a pair of one-shot calls. Its run disables deadlock
  checking, because both calls return and the system really stops.

## Proofs

TLAPS checks every proof to the last step. Nothing is assumed beyond the
named `ASSUME`s on the constants.

`BackendSessionProofs` proves the following for every set of backends and
every `MaxSessions >= 1`:
- `TypeCorrect`: `Spec => []TypeOK`.
- `SessionAgreement`: `Spec => []ClientViewMatchesServer`.
- `SessionInductive`: `Spec => []IInv`, the strengthening below.
- `RecordsIsolated`: `Spec => OwnRecordOnly`. The action property follows
  from `IInv` in one step (`OwnRecordStep`): by `SidOwnedByName`, the
  record a SendState or Deregister reaches is the caller's own
  (`ReachesOwnRecord`).
- `SessionRefinesContract`: `Spec => SessionContractSpec`.

The refinement proof goes through these steps:
- `InitSessionContract`: the initial state maps to the contract's.
- `NextSessionContract`: under `IInv`, every step maps to a contract step
  or a stutter. It rests on three lemmas:
  - `RegisterSessionContract`: an applied Register is `Open` with the id
    in `nextSid`. `SidsIssued` makes that id fresh.
  - `DeregisterSessionContract`: an applied Deregister is `Close`.
    `SidOwnedByName` makes the removed record the caller's own, and
    `SidsIssued` makes the caller's id non-empty.
  - `SessionsKeptContract`: a step that keeps every record live under its
    session is a stutter.
- These are combined with `PTL`.

`ClientViewMatchesServer` is not inductive on its own. A fresh Register
could reuse an id a client holds, and a Deregister could remove a record
another client points at. The proof therefore uses the strengthening
`IInv` = `TypeOK /\ SidsIssued /\ TokenWithSession /\ SidOwnedByName /\
ClientViewMatchesServer`:
- `SidsIssued`: every id held by a client or a record is below `nextSid`.
- `TokenWithSession`: each client's token is the token of its id.
- `SidOwnedByName`: a live record of a client's id lies under that
  client's name.

`LbReservationProofs` proves the following for every set of objects,
names, expiries, sync replies and bounds:
- `ReservationTypeCorrect`: `Spec => []TypeOK`.
- `ReservationsIssued`: `Spec => []HeldIsIssued`.
- `SyncAddressOfOwnGrant`: `Spec => []SyncOfOwnGrant`.
- `ReservationRefinesContract`: `Spec => C!SafetySpec`, the safety part of
  the contract.
- `ReservationInductive`: `Spec => []RInv`.

Here the strengthening is `RInv`, which adds two facts:
- `LbIdsIssued`: every held id is below `nextLb`.
- `UnusedAboveNext`: exactly the CP entries from `nextLb` on are unused.

Together they make a grant by one object unable to touch a reservation
another object holds. The proof is split into lemmas:
- one for the grant's effect (`CpReserveEffect`);
- one for the sync work-around (`SyncFallbackNonEmpty`);
- a shared lemma for steps that only move a reservation out of "held";
- a shared lemma for steps that leave the table alone.

The refinement proof goes through these steps:
- `InitContract`: every initial state maps to the contract's.
- `NextContract`: under `RInv`, every step maps to a contract step or a
  stutter. `RInv`'s `UnusedAboveNext` is what makes the granted id fresh.
- `ReserveContract` covers a grant.
- `EndLeaseContract` covers each way a held lease ends.
- These are combined with the temporal rule `PTL`.

TLC checks both invariants first, `IInv` in `session_iinv` and `RInv` in
`reservation_safety`.

Out of TLAPS's reach, and left to TLC:
- The fairness part of the contract (every reservation lapses under a
  fair clock): liveness and `ENABLED`.
- The `UriBuild` properties. They rest on `FoldLeft` over sequences, and
  what a recursive fold computes for every input cannot be proved by
  induction with the installed provers.

## Not modelled

- gRPC transport and protobuf encoding. They are abstracted to the
  outcomes of a call.
- Logging to `std::cout`. It is modelled only for the one property (spec
  §7) that is about output.
- CMake build logic, at the top of `src/CMakeLists.txt`.
- The unused global counter.
- Getters, which change no state.
- The reservation the static `ReserveLoadBalancer` makes at the CP. Only
  its result string is modelled, in `UriBuild`.
- `instanceToken`, `syncUdpPort` and the data addresses of a reservation.
  They are assigned in the same block, from the same reply, as `lbId`, and
  no control flow reads them. `syncUdpPort`'s truncation to 16 bits bites
  only if the CP reports a port above 65535. A UDP port cannot be that
  large, and spec.md says nothing of the range.
- LB-id reuse by the CP. The modelled CP issues LB ids in order and never
  reuses one (`CpReserve`'s `i = nextLb`). spec.md promises fresh ids only
  for sessions, so this is an assumption about the CP, not a fact from
  the spec. `HeldIsIssued`, `SyncOfOwnGrant` and the reservation contract
  rest on it. If ids were reused, a stale `lbId` kept after a lost reply
  or an expiry could name a lease later granted to another object, and a
  `FreeLoadBalancer` through it would end that lease. This case is not
  checked.
- A clock that steps back. `reservationElapsed()` reads `CLOCK_REALTIME`,
  which NTP or an administrator can set back, and `reserved()` would then
  turn true again. The model's `Tick` only advances `now`, as spec 8.3
  assumes.
- The `url[256]` buffer bound. Token and message lengths have no bound in
  the spec or the code.
- `BackEnd`'s timestamps (`time`, `localTime`) and `isActive`. Only the
  CP's liveness sweep reads them or calls `setIsActive`. `isActive` is
  declared without an initializer (`src/lb_cplane.h:186`) and the
  constructor never sets it, so it is indeterminate until that sweep runs. That sweep is not
  in this repository, and spec.md gives it no timeout or rule.
- A composition of sessions with reservations. The only link between the
  two clients is the CP: the worker statistics that `LoadBalancerStatus`
  reads come from the CP's own records (the `BackEnd` class stores no fill
  level), so a composed model would be CP glue, not code. In
  `LbReservation` the workers of an LB are environment steps.

## Plan

The remaining parts of the code are either modelled or listed above with
the reason they are not. Possible further work:
- A proof of the `UriBuild` properties. This needs `resolve_host`'s loop
  written as a recursive function over the list index, and induction over
  its length. That induction is not available with the installed provers.
- A model of the CP's liveness sweep, should spec.md come to define it.

`PROJECT.json` holds at most twelve runs, so new questions will share runs
with existing ones.
