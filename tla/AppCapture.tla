------------------------------ MODULE AppCapture ------------------------------
(***************************************************************************)
(* What the caller of a CaptureSession is promised (the class docstring    *)
(* and the head of src/apptap/api.py, result.py): one capture at a time,   *)
(* for a scope that is settled when it begins; a capture, once begun, ends *)
(* with a report about that scope or with the session; and nothing passes  *)
(* for scoped that was not.  How the scope and the tier are found, what    *)
(* happens on the target and which of the steps may fail is left open: a   *)
(* start or a stop that fails changes nothing here.                        *)
(*                                                                         *)
(*   phase    whether a capture has begun, or the session is over          *)
(*   scope    the tier and the UIDs of the capture that has begun          *)
(*   report   what the last stop() returned                                *)
(***************************************************************************)
EXTENDS Capabilities

CONSTANT Uids

VARIABLES phase, scope, report

vars == <<phase, scope, report>>

NoScope  == [tier |-> "none", uids |-> {}]
NoReport == [tier |-> "none", uids |-> {}, warnings |-> {}]

Init == phase = "idle" /\ scope = NoScope /\ report = NoReport

(* Tier 2 only works for UIDs. *)
Begin ==
  /\ phase = "idle" /\ phase' = "capturing"
  /\ scope' \in [tier : {"NFLOG", "SOCKDIAG"}, uids : SUBSET Uids]
  /\ scope'.uids = {} => scope'.tier = "SOCKDIAG"
  /\ UNCHANGED report

Flagged(r) == r.tier = "WHOLE_DEVICE" /\ "whole_device" \in r.warnings

(* What a report about scope s may say.  A scoped capture may be flagged,  *)
(* too: the session remembers that an earlier start() found no UID.        *)
Reports(s) ==
  {r \in [tier : {s.tier, "WHOLE_DEVICE"}, uids : {s.uids}, warnings : SUBSET Warnings] :
     s.uids = {} \/ r.tier = "WHOLE_DEVICE" => Flagged(r)}

Report ==
  /\ phase = "capturing" /\ phase' \in {"idle", "ended"}
  /\ scope' = NoScope
  /\ report' \in Reports(scope)

End ==
  /\ phase # "ended" /\ phase' = "ended"
  /\ scope' = NoScope
  /\ UNCHANGED report

Next == Begin \/ Report \/ End

Spec == Init /\ [][Next]_vars
==============================================================================
