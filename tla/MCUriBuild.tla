---------------------------- MODULE MCUriBuild ----------------------------
(* Model-checking instance of UriBuild.  The caller passes a host name or *)
(* a literal of each class; the resolver may return up to two of two      *)
(* IPv4 addresses, a full and a compressed IPv6 address; the control      *)
(* plane may report no sync address, an IPv4 literal of 8 or of 15        *)
(* characters (the longest an IPv4 literal can be), or a full IPv6 one.   *)
EXTENDS UriBuild

Host    == [cls |-> "host",   len |-> 16, id |-> 1]  \* ejfat-cp.jlab.org
V4a     == [cls |-> "v4",     len |-> 13, id |-> 2]  \* 129.57.29.231
V4b     == [cls |-> "v4",     len |-> 8,  id |-> 3]  \* 10.0.0.1
V4long  == [cls |-> "v4",     len |-> 15, id |-> 4]  \* 192.168.100.200
V6a     == [cls |-> "v6full", len |-> 39, id |-> 5]  \* 2001:0db8:85a3:0001:0002:8a2e:0370:7334
V6c     == [cls |-> "v6comp", len |-> 11, id |-> 6]  \* 2001:db8::1

MCCpIPs == {Host, V4a, V6a, V6c}
MCPool == {V4a, V4b, V6a, V6c}
MCSyncReplies == {NoAddr, V4b, V4long, V6a}

=============================================================================
