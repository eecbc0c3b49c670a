---------------------------- MODULE Capabilities ----------------------------
(***************************************************************************)
(* What a probe can find out about the target, and the choice of a capture *)
(* tier from it (src/apptap/capabilities.py).                              *)
(***************************************************************************)

Requests == {"AUTO", "NFLOG", "SOCKDIAG"}
Tiers    == {"NFLOG", "SOCKDIAG", "WHOLE_DEVICE"}

Capabilities ==
  [owner : BOOLEAN, connmark : BOOLEAN, nflog_target : BOOLEAN,
   nfnetlink_log : BOOLEAN, is_rooted : BOOLEAN]

rules_load(caps) == caps.is_rooted /\ caps.owner /\ caps.connmark /\ caps.nflog_target

nflog_usable(caps) == rules_load(caps) /\ caps.nfnetlink_log

(* The warnings, by what they tell the user. *)
Warnings == {"nflog_refused", "delivery_disabled", "sdk_note", "whole_device"}

select_tier(caps, requested) ==
  LET usable == requested # "SOCKDIAG" /\ nflog_usable(caps)
      refused == requested = "NFLOG" /\ ~usable
      disabled == requested = "AUTO" /\ rules_load(caps) /\ ~caps.nfnetlink_log
  IN [tier |-> IF usable THEN "NFLOG" ELSE "SOCKDIAG",
      warnings |-> {w \in {"nflog_refused"} : refused} \cup {w \in {"delivery_disabled"} : disabled}]
==============================================================================
