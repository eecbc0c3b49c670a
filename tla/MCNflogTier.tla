----------------------------- MODULE MCNflogTier -----------------------------
(* Instances of NflogTier for TLC. *)
EXTENDS NflogFresh, TLC

V4 == <<"iptables">>
V4V6 == <<"iptables", "ip6tables">>

OneUid  == {{10100}}
EachUid == {{10100}, {10200}}
Nested  == {{10200}, {10100, 10200}}

Alike == Permutations(Hosts)

NoConns == [c \in {} |-> "iptables"]
AllV4   == [c \in Conns |-> "iptables"]
AllV6   == [c \in Conns |-> "ip6tables"]
==============================================================================
