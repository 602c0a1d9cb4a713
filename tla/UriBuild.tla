----------------------------- MODULE UriBuild -----------------------------
(***************************************************************************)
(* The static one-shot calls of LbReservation that return a connection    *)
(* URI: ReserveLoadBalancer(cpIP, ...) and GetLbUri(cpIP, ...), with the  *)
(* helpers they use, is_ipv4, is_ipv6 and resolve_host.                    *)
(*                                                                         *)
(* Each call does one RPC (its status and reply are inputs here), then     *)
(* converts cpIP to an address literal, chooses the sync address and      *)
(* formats the URI or the error string.  The result is modelled by what   *)
(* the format string puts in it: the kind (ejfat URI or "error = ..."),    *)
(* whether the token is in it, the control-plane address, which of the    *)
(* reply's data addresses is used, and the sync address.                   *)
(*                                                                         *)
(* A string is abstracted to the class the code's regular expressions     *)
(* tell apart and its length:                                             *)
(*   "v4"     dotted quad, matched by is_ipv4;                             *)
(*   "v6full" eight colon groups, matched by is_ipv6;                      *)
(*   "v6comp" compressed IPv6 (2001:db8::1), as inet_ntop prints most     *)
(*            IPv6 addresses, matched by neither;                          *)
(*   "host"   a host name; "none" the empty string.                        *)
(* getaddrinfo's answer is a sequence of such literals, as inet_ntop      *)
(* prints them, or a failure.                                              *)
(***************************************************************************)
EXTENDS Naturals, Sequences, SequencesExt

CONSTANTS
    CpIPs,        \* cpIP arguments the caller may pass
    Pool,         \* literals getaddrinfo may return for a host name
    MaxAnswer,    \* bound on the length of getaddrinfo's answer
    SyncReplies   \* syncIpAddress values the control plane may report

Addrs == [cls : {"none", "v4", "v6full", "v6comp", "host"}, len : Nat, id : Nat]
NoAddr == [cls |-> "none", len |-> 0, id |-> 0]

ASSUME CpIPsAssumption == CpIPs \subseteq Addrs \ {NoAddr}
ASSUME PoolAssumption == Pool \subseteq Addrs
ASSUME MaxAnswerAssumption == MaxAnswer \in Nat
ASSUME SyncRepliesAssumption == SyncReplies \subseteq Addrs

(* getaddrinfo: a failure (status != 0), or the list of addresses.        *)
Answers == {[gai |-> "fail", list |-> <<>>]}
              \cup [gai : {"ok"}, list : SeqOf(Pool, MaxAnswer)]

(* What getaddrinfo answers for cpIP: for a host name, any answer; for a  *)
(* numeric literal, that address itself.                                 *)
ResolverAnswers(cpIP) ==
    IF cpIP.cls = "host" THEN Answers ELSE {[gai |-> "ok", list |-> <<cpIP>>]}

(* The inputs of one call: its arguments, the resolver's answer, and the  *)
(* RPC's status and reply (only the reply field the logic inspects).      *)
Inputs == {i \in [cpIP : CpIPs, useIPv6 : BOOLEAN, answer : Answers,
                  ok : BOOLEAN, sync : SyncReplies] :
              i.answer \in ResolverAnswers(i.cpIP)}

Results == [kind : {"uri", "error"}, token : BOOLEAN, cp : Addrs,
            data : {"v4", "v6", "-"}, sync : Addrs, printed : BOOLEAN]
NoResult == [kind |-> "none"]

VARIABLES
    in,      \* the inputs of the two calls
    outR,    \* the string static ReserveLoadBalancer returns
    outG     \* the string GetLbUri returns

vars == <<in, outR, outG>>

-----------------------------------------------------------------------------
(* is_ipv4: the dotted-quad regular expression. *)
is_ipv4(s) == s.cls = "v4"

(* is_ipv6: exactly eight groups of one to four hex digits; a compressed  *)
(* form does not match.                                                    *)
is_ipv6(s) == s.cls = "v6full"

(* One iteration of resolve_host's loop over the getaddrinfo list: the    *)
(* printed address overwrites ipv4 if is_ipv4 matches it and ipv6 if      *)
(* is_ipv6 does.                                                           *)
ResolveStep(acc, p) ==
    [acc EXCEPT !.ipv4 = IF is_ipv4(p) THEN p ELSE @,
                !.ipv6 = IF is_ipv6(p) THEN p ELSE @]

(* resolve_host: on a getaddrinfo error it writes to std::cerr and        *)
(* returns false with ipv4 and ipv6 untouched (empty).                     *)
resolve_host(answer) ==
    IF answer.gai = "fail"
    THEN [ran |-> FALSE, printed |-> TRUE, ipv4 |-> NoAddr, ipv6 |-> NoAddr]
    ELSE FoldLeft(ResolveStep,
                  [ran |-> TRUE, printed |-> FALSE, ipv4 |-> NoAddr, ipv6 |-> NoAddr],
                  answer.list)

(* Mutant: the two branches in the other order, IPv4 preferred even when *)
(* IPv6 was asked for.                                                     *)
CpAddressV4First(i) ==
    LET r == resolve_host(i.answer)
    IN  IF is_ipv4(i.cpIP) \/ is_ipv6(i.cpIP)
        THEN [addr |-> i.cpIP, printed |-> FALSE]
        ELSE [addr |-> IF r.ipv4 # NoAddr THEN r.ipv4
                       ELSE IF i.useIPv6 /\ r.ipv6 # NoAddr THEN r.ipv6
                       ELSE i.cpIP,
              printed |-> r.printed]

(* The conversion of cpIP shared by both static calls: a literal is kept; *)
(* otherwise the host is resolved and its IPv6 address used if asked for  *)
(* and found, else its IPv4 address if found, else cpIP itself.           *)
CpAddress(i) ==
    LET r == resolve_host(i.answer)
    IN  IF is_ipv4(i.cpIP) \/ is_ipv6(i.cpIP)
        THEN [addr |-> i.cpIP, printed |-> FALSE]
        ELSE [addr |-> IF i.useIPv6 /\ r.ipv6 # NoAddr THEN r.ipv6
                       ELSE IF r.ipv4 # NoAddr THEN r.ipv4
                       ELSE i.cpIP,
              printed |-> r.printed]

(* Mutant: the earlier revision's static call, without the work-around.  *)
SyncAddressOld(sync, ipAddr) == sync

(* The sync-address work-around: an empty reply or one shorter than 16    *)
(* characters is replaced by the converted control-plane address.         *)
SyncAddress(sync, ipAddr) ==
    IF sync.len = 0 \/ sync.len < 16 THEN ipAddr ELSE sync

(* The string a static call returns: "error = <message>" if the RPC       *)
(* failed, else the ejfat URI with or without the token.                  *)
FormatUri(i, withToken) ==
    LET cp == CpAddress(i)
    IN  IF ~i.ok
        THEN [kind |-> "error", token |-> FALSE, cp |-> NoAddr, data |-> "-",
              sync |-> NoAddr, printed |-> cp.printed]
        ELSE [kind |-> "uri", token |-> withToken, cp |-> cp.addr,
              data |-> IF i.useIPv6 THEN "v6" ELSE "v4",
              sync |-> SyncAddress(i.sync, cp.addr), printed |-> cp.printed]

-----------------------------------------------------------------------------
Init ==
    /\ in \in Inputs
    /\ outR = NoResult
    /\ outG = NoResult

(* static LbReservation::ReserveLoadBalancer: the URI with the token.     *)
StaticReserveLoadBalancer ==
    /\ outR = NoResult
    /\ outR' = FormatUri(in, TRUE)
    /\ UNCHANGED <<in, outG>>

(* LbReservation::GetLbUri: the same steps, the URI without the token.    *)
GetLbUri ==
    /\ outG = NoResult
    /\ outG' = FormatUri(in, FALSE)
    /\ UNCHANGED <<in, outR>>

Next == StaticReserveLoadBalancer \/ GetLbUri

Spec == Init /\ [][Next]_vars

-----------------------------------------------------------------------------
(* The reference selection of spec 4.2, written from the spec alone: a    *)
(* literal cpIP is used unchanged; otherwise the FIRST IPv4 and the FIRST *)
(* IPv6 literal of the resolver's answer are collected, the requested     *)
(* family is taken if available, else IPv4 if present.  The sync address *)
(* is replaced only when empty or malformed.                              *)
RefFirst(list, Test(_)) ==
    IF SelectInSeq(list, Test) = 0 THEN NoAddr ELSE list[SelectInSeq(list, Test)]

RefCp(i) ==
    LET f4 == RefFirst(i.answer.list, is_ipv4)
        f6 == RefFirst(i.answer.list, is_ipv6)
    IN  IF is_ipv4(i.cpIP) \/ is_ipv6(i.cpIP) THEN i.cpIP
        ELSE IF i.useIPv6 /\ f6 # NoAddr THEN f6
        ELSE IF f4 # NoAddr THEN f4
        ELSE i.cpIP

RefSync(sync, cp) == IF is_ipv4(sync) \/ is_ipv6(sync) THEN sync ELSE cp

(* The number of entries of a list a test matches. *)
Matches(list, Test(_)) == Len(SelectSeq(list, Test))

(* When the host resolves to at most one address of each family, the     *)
(* control-plane address both static calls put in the URI is the one the *)
(* spec's selection (4.2 steps 1-3) picks: the literal check, the family  *)
(* choice, the IPv4 fallback and resolve_host's loop agree with it.       *)
CpMatchesSpecWhenUnambiguous ==
    \A out \in {outR, outG} :
        /\ out.kind = "uri"
        /\ Matches(in.answer.list, is_ipv4) <= 1
        /\ Matches(in.answer.list, is_ipv6) <= 1
        => out.cp = RefCp(in)

(* Every URI names a sync address: an empty reply is replaced by the      *)
(* control-plane address (spec 8.5).                                       *)
SyncNeverEmpty ==
    \A out \in {outR, outG} : out.kind = "uri" => out.sync.len > 0

(* The control-plane address in the URI is the spec's selection whatever  *)
(* the resolver returns (spec 4.2 step 2: the first address of each       *)
(* family).  resolve_host keeps the last.                                  *)
CpMatchesSpec ==
    \A out \in {outR, outG} : out.kind = "uri" => out.cp = RefCp(in)

(* The sync address in the URI is the reported one unless that is empty  *)
(* or malformed (spec 4.2, scenario 8.6: sync=10.0.0.1:18000).             *)
SyncMatchesSpec ==
    \A out \in {outR, outG} : out.kind = "uri" => out.sync = RefSync(in.sync, out.cp)

(* A call that returns a URI has written nothing to an output stream      *)
(* (spec 7: the URI paths never emit anything on the success path).       *)
NothingPrintedOnSuccess ==
    \A out \in {outR, outG} : out.kind = "uri" => ~out.printed

=============================================================================
