--------------------------- MODULE CaptureSession ---------------------------
(***************************************************************************)
(* One CaptureSession (src/apptap/api.py), the caller that drives it and   *)
(* what it leaves on the target.  A call is a sequence of steps, each of   *)
(* which may raise where the code can, and Ctrl-C may arrive before or in  *)
(* any of them.                                                            *)
(*                                                                         *)
(*   env       who calls, on what platform, and the tier asked for         *)
(*   pc        the step that runs next: of start, stop, __exit__, or       *)
(*             "body" (between calls), "raised" (a call raised), "ended"   *)
(*   exiting   whether stop was called by __exit__                         *)
(*   raised    the exception on its way out, if any                        *)
(*   uids, chosen, impl, warnings, whole_device, started, result           *)
(*             the fields of the session                                   *)
(*   rules     whether AppTap's chains are in the target's tables          *)
(*   readers   the tier objects whose tcpdump runs on the target           *)
(*                                                                         *)
(* built, errors and interrupts count towards the bounds; errors and       *)
(* interrupts, lost (the tier objects whose tcpdump the last signal did    *)
(* not reach) and captured (those whose start() came to its end) serve to  *)
(* state properties.                                                       *)
(***************************************************************************)
EXTENDS Capabilities, Naturals, FiniteSets

CONSTANTS Uids, UidSets,     \* what UID resolution may return; {} when it cannot
          Callers,           \* "with": the with statement; "capture": capture()
          Platforms,         \* executor.platform
          MaxStarts,         \* bound: tier objects built
          MaxErrors,         \* bound: exceptions other than Ctrl-C
          MaxInterrupts      \* bound: Ctrl-Cs

ASSUME CaptureSessionAssumption ==
  /\ UidSets \subseteq SUBSET Uids
  /\ Callers \subseteq {"with", "capture"}
  /\ Platforms \subseteq {"android", "linux"}
  /\ {MaxStarts, MaxErrors, MaxInterrupts} \subseteq Nat

VARIABLES env, pc, exiting, raised,
          uids, chosen, impl, warnings, whole_device, started, result,
          rules, readers, built, errors, interrupts, lost, captured

control == <<pc, exiting, raised>>
scope   == <<uids, chosen, warnings, whole_device>>
target  == <<rules, readers, lost>>
counts  == <<built, errors, interrupts>>
vars == <<env, control, scope, impl, started, result, target, counts, captured>>

InStart == {"resolve", "choose", "note", "tcpdump", "install", "launch", "thread", "begin"}
InStop  == {"halt", "collect", "undo", "finally"}
Steps   == InStart \cup InStop \cup {"exit"}

NoImpl   == [id |-> 0, tier |-> "SOCKDIAG", uids |-> {}, proc |-> FALSE]
NoResult == [tier |-> "none", uids |-> {}, warnings |-> {}]

Init ==
  /\ env \in [caller : Callers, platform : Platforms, requested : Requests]
  /\ pc = "body" /\ exiting = FALSE /\ raised = "none"
  /\ uids = {} /\ chosen = "SOCKDIAG" /\ impl = NoImpl
  /\ warnings = {} /\ whole_device = FALSE /\ started = FALSE
  /\ result = NoResult
  /\ rules = FALSE /\ readers = {} /\ lost = {}
  /\ built = 0 /\ errors = 0 /\ interrupts = 0 /\ captured = {}

------------------------------------------------------------------------------
Goto(step) == pc' = step

Error == errors < MaxErrors /\ errors' = errors + 1
Ctrl_C == interrupts < MaxInterrupts /\ interrupts' = interrupts + 1

(* An exception leaves start(), or stop() past its finally clause.  The    *)
(* session keeps its fields: _started in particular stays as it is.        *)
Leaves(exception) ==
  /\ raised' = exception
  /\ \/ exiting /\ exception = "error" /\ Goto("exit")
     \/ exiting /\ exception = "interrupt" /\ Goto("ended")
     \/ ~exiting /\ env.caller = "with" /\ Goto("raised")
     \/ ~exiting /\ env.caller = "capture" /\ Goto("ended")
  /\ UNCHANGED exiting

(* Mutant: stop() has no finally clause. *)
UnwindsAtOnce(exception) == Leaves(exception)

(* The same inside stop()'s try: the finally clause runs first. *)
Unwinds(exception) == raised' = exception /\ Goto("finally") /\ UNCHANGED exiting

Proceeds(step) == Goto(step) /\ UNCHANGED <<exiting, raised>>

(* tier.teardown: SockDiagTier inherits one that does nothing. *)
TeardownOf(i) == rules' = (rules /\ i.tier # "NFLOG")

------------------------------------------------------------------------------
(* start()                                                                 *)

Start ==
  /\ pc = "body" /\ ~started
  /\ built < MaxStarts
  /\ env.caller = "capture" => built = 0 /\ result = NoResult
  /\ pc' = "resolve" /\ raised' = "none" /\ exiting' = FALSE
  /\ UNCHANGED <<env, scope, impl, started, result, target, counts, captured>>

(* _resolve_uids: an exception counts as resolving to nothing. *)
ResolveUids ==
  /\ pc = "resolve"
  /\ \E found \in UidSets \cup {{}} : uids' = found
  /\ Proceeds("choose")
  /\ UNCHANGED <<env, chosen, warnings, whole_device, impl, started, result, target, counts, captured>>

(* Mutant: a probe that raises returns Tier 1 before the UIDs are looked at. *)
ChooseTierEarly ==
  /\ pc = "choose"
  /\ \/ /\ chosen' = "SOCKDIAG"
        /\ UNCHANGED <<warnings, whole_device>>
     \/ \E caps \in Capabilities :
          /\ warnings' = warnings \cup select_tier(caps, env.requested).warnings
                          \cup (IF uids = {} THEN {"whole_device"} ELSE {})
          /\ whole_device' = (whole_device \/ uids = {})
          /\ chosen' = IF uids = {} THEN "SOCKDIAG" ELSE select_tier(caps, env.requested).tier
  /\ Proceeds("note")
  /\ UNCHANGED <<env, uids, impl, started, result, target, counts, captured>>

(* _choose_tier: a probe that raises means Tier 1, without a word. *)
ChooseTier ==
  /\ pc = "choose"
  /\ \E choice \in {select_tier(caps, env.requested) : caps \in Capabilities}
                     \cup {[tier |-> "SOCKDIAG", warnings |-> {}]} :
       \/ /\ uids # {}
          /\ chosen' = choice.tier
          /\ warnings' = warnings \cup choice.warnings
          /\ UNCHANGED whole_device
       \/ /\ uids = {}
          /\ chosen' = "SOCKDIAG"
          /\ warnings' = warnings \cup choice.warnings \cup {"whole_device"}
          /\ whole_device' = TRUE
  /\ Proceeds("note")
  /\ UNCHANGED <<env, uids, impl, started, result, target, counts, captured>>

NoteAndroidVersion ==
  /\ pc = "note"
  /\ \/ UNCHANGED warnings
     \/ /\ chosen # "NFLOG" /\ env.platform = "android"
        /\ warnings' = warnings \cup {"sdk_note"}
  /\ Proceeds("tcpdump")
  /\ UNCHANGED <<env, uids, chosen, whole_device, impl, started, result, target, counts, captured>>

(* TcpdumpProvider.resolve, then the tier object replaces the last one. *)
BuildImpl ==
  /\ pc = "tcpdump"
  /\ built' = built + 1
  /\ impl' = [id |-> built + 1, tier |-> chosen, uids |-> uids, proc |-> FALSE]
  /\ Proceeds(IF chosen = "NFLOG" THEN "install" ELSE "launch")
  /\ UNCHANGED <<env, scope, started, result, target, errors, interrupts, captured>>

NoTcpdump ==
  /\ pc = "tcpdump"
  /\ Error /\ Leaves("error")
  /\ UNCHANGED <<env, scope, impl, started, result, target, built, interrupts, captured>>

InstallRules ==
  /\ pc = "install"
  /\ rules' = TRUE
  /\ Proceeds("launch")
  /\ UNCHANGED <<env, scope, impl, started, result, readers, lost, counts, captured>>

(* It raises after the heal, with any part of the rules in place. *)
InstallRaises ==
  /\ pc = "install"
  /\ Error /\ Leaves("error")
  /\ rules' \in BOOLEAN
  /\ UNCHANGED <<env, scope, impl, started, result, readers, lost, built, interrupts, captured>>

LaunchTcpdump ==
  /\ pc = "launch"
  /\ readers' = readers \cup {impl.id}
  /\ impl' = [impl EXCEPT !.proc = TRUE]
  /\ Proceeds(IF impl.tier = "NFLOG" THEN "begin" ELSE "thread")
  /\ UNCHANGED <<env, scope, started, result, rules, lost, counts, captured>>

StartThread ==
  /\ pc = "thread"
  /\ Proceeds("begin")
  /\ UNCHANGED <<env, scope, impl, started, result, target, counts, captured>>

(* The executor cannot run tcpdump, or no thread can be started. *)
LaunchRaises ==
  /\ pc \in {"launch", "thread"}
  /\ Error /\ Leaves("error")
  /\ UNCHANGED <<env, scope, impl, started, result, target, built, interrupts, captured>>

BeginCapture ==
  /\ pc = "begin"
  /\ started' = TRUE
  /\ captured' = captured \cup {impl.id}
  /\ Proceeds("body")
  /\ UNCHANGED <<env, scope, impl, result, target, counts>>

------------------------------------------------------------------------------
(* stop(), teardown() and __exit__                                         *)

Stop ==
  /\ pc = "body" /\ started
  /\ pc' = "halt" /\ raised' = "none" /\ exiting' = FALSE
  /\ UNCHANGED <<env, scope, impl, started, result, target, counts, captured>>

(* _stop_remote_tcpdump: on Android by name, whoever started it; elsewhere *)
(* through the process handle, if there is one, which may be that of a     *)
(* sudo that cannot be signalled.  What fails is suppressed.               *)
StopTcpdump ==
  /\ pc = "halt"
  /\ \/ /\ env.platform = "android"
        /\ readers' = {} /\ lost' = {}
     \/ /\ env.platform = "linux"
        /\ readers' = IF impl.proc THEN readers \ {impl.id} ELSE readers
        /\ lost' = lost \ {impl.id}
     \/ lost' = lost \cup {impl.id} /\ UNCHANGED readers
  /\ Proceeds("collect")
  /\ UNCHANGED <<env, scope, impl, started, result, rules, counts, captured>>

Collect ==
  /\ pc = "collect"
  /\ Proceeds(IF impl.tier = "NFLOG" THEN "undo" ELSE "finally")
  /\ UNCHANGED <<env, scope, impl, started, result, target, counts, captured>>

CollectRaises ==
  /\ pc = "collect"
  /\ Error /\ Unwinds("error")
  /\ UNCHANGED <<env, scope, impl, started, result, target, built, interrupts, captured>>

(* NflogTier.stop's own teardown. *)
UndoRules ==
  /\ pc = "undo"
  /\ TeardownOf(impl)
  /\ Proceeds("finally")
  /\ UNCHANGED <<env, scope, impl, started, result, readers, lost, counts, captured>>

(* Mutant: the result names the tier that was asked for. *)
FinishStopAsRequested ==
  /\ pc = "finally" /\ raised = "none"
  /\ TeardownOf(impl)
  /\ result' = [tier |-> env.requested, uids |-> impl.uids, warnings |-> warnings]
  /\ started' = FALSE
  /\ Proceeds(IF exiting \/ env.caller = "capture" THEN "ended" ELSE "body")
  /\ UNCHANGED <<env, scope, impl, readers, lost, counts, captured>>

(* The finally clause, and what follows it when nothing was raised. *)
FinishStop ==
  /\ pc = "finally" /\ raised = "none"
  /\ TeardownOf(impl)
  /\ result' = [tier |-> IF whole_device THEN "WHOLE_DEVICE" ELSE impl.tier,
                uids |-> impl.uids,
                warnings |-> warnings]
  /\ started' = FALSE
  /\ Proceeds(IF exiting \/ env.caller = "capture" THEN "ended" ELSE "body")
  /\ UNCHANGED <<env, scope, impl, readers, lost, counts, captured>>

(* Mutant: a stop() that raised counts as done, so it cannot be repeated.  *)
FailStopForgets ==
  /\ pc = "finally" /\ raised # "none"
  /\ TeardownOf(impl)
  /\ started' = FALSE
  /\ Leaves(raised)
  /\ UNCHANGED <<env, scope, impl, result, readers, lost, counts, captured>>

FailStop ==
  /\ pc = "finally" /\ raised # "none"
  /\ TeardownOf(impl)
  /\ Leaves(raised)
  /\ UNCHANGED <<env, scope, impl, started, result, readers, lost, counts, captured>>

(* teardown(), which the caller may call at any time. *)
Teardown ==
  /\ pc = "body" /\ env.caller = "with"
  /\ TeardownOf(impl)
  /\ UNCHANGED <<env, control, scope, impl, started, result, readers, lost, counts, captured>>

(* A with body handles what a call raised and goes on: it may start again. *)
Catch ==
  /\ pc = "raised"
  /\ Goto("body")
  /\ UNCHANGED <<env, exiting, raised, scope, impl, started, result, target, counts, captured>>

(* Mutant: __exit__ tears down without stopping. *)
ExitWithoutStop ==
  /\ pc \in {"body", "raised"} /\ env.caller = "with"
  /\ exiting' = TRUE /\ raised' = "none"
  /\ Goto("exit")
  /\ UNCHANGED <<env, scope, impl, started, result, target, counts, captured>>

Exit ==
  /\ pc \in {"body", "raised"} /\ env.caller = "with"
  /\ exiting' = TRUE /\ raised' = "none"
  /\ Goto(IF started THEN "halt" ELSE "exit")
  /\ UNCHANGED <<env, scope, impl, started, result, target, counts, captured>>

ExitTeardown ==
  /\ pc = "exit"
  /\ TeardownOf(impl)
  /\ Proceeds("ended")
  /\ UNCHANGED <<env, scope, impl, started, result, readers, lost, counts, captured>>

------------------------------------------------------------------------------
(* Ctrl-C.  It is no Exception: what suppresses errors does not hold it    *)
(* up, and __exit__ does not catch it.                                     *)

InterruptStart ==
  /\ pc \in InStart
  /\ Ctrl_C /\ Leaves("interrupt")
  /\ rules' \in IF pc = "install" THEN BOOLEAN ELSE {rules}
  /\ readers' \in {readers} \cup (IF pc = "launch" THEN {readers \cup {impl.id}} ELSE {})
  /\ UNCHANGED <<env, scope, impl, started, result, lost, built, errors, captured>>

InterruptStop ==
  /\ pc \in InStop
  /\ Ctrl_C
  /\ IF pc = "finally" THEN Leaves("interrupt") ELSE Unwinds("interrupt")
  /\ UNCHANGED <<env, scope, impl, started, result, target, built, errors, captured>>

InterruptExit ==
  /\ pc = "exit"
  /\ Ctrl_C
  /\ raised' = "interrupt" /\ Goto("ended")
  /\ UNCHANGED <<env, exiting, scope, impl, started, result, target, built, errors, captured>>

------------------------------------------------------------------------------
Next ==
  \/ Start \/ ResolveUids \/ ChooseTier \/ NoteAndroidVersion \/ BuildImpl \/ NoTcpdump
  \/ InstallRules \/ InstallRaises \/ LaunchTcpdump \/ StartThread \/ LaunchRaises
  \/ BeginCapture
  \/ Stop \/ StopTcpdump \/ Collect \/ CollectRaises \/ UndoRules \/ FinishStop \/ FailStop
  \/ Teardown \/ Catch \/ Exit \/ ExitTeardown
  \/ InterruptStart \/ InterruptStop \/ InterruptExit

Spec == Init /\ [][Next]_vars

------------------------------------------------------------------------------
Mishaps == errors + interrupts

TypeOK ==
  /\ env \in [caller : Callers, platform : Platforms, requested : Requests]
  /\ pc \in Steps \cup {"body", "raised", "ended"}
  /\ exiting \in BOOLEAN
  /\ raised \in {"none", "error", "interrupt"}
  /\ uids \subseteq Uids
  /\ chosen \in {"NFLOG", "SOCKDIAG"}
  /\ impl \in [id : Nat, tier : {"NFLOG", "SOCKDIAG"}, uids : SUBSET Uids, proc : BOOLEAN]
  /\ warnings \subseteq Warnings
  /\ whole_device \in BOOLEAN /\ started \in BOOLEAN
  /\ result \in [tier : Tiers \cup {"none"}, uids : SUBSET Uids, warnings : SUBSET Warnings]
  /\ rules \in BOOLEAN
  /\ {readers, captured, lost} \subseteq SUBSET Nat
  /\ {built, errors, interrupts} \subseteq Nat

(* api.py:11 "capture still proceeds whole-device (unfiltered) ... flagged *)
(* via result.tier == Tier.WHOLE_DEVICE and a warning": no result for a    *)
(* capture without UIDs passes for an app-scoped one, however often the    *)
(* session was started, failed and was started again before.               *)
WholeDeviceFlagged ==
  result # NoResult /\ result.uids = {} =>
    result.tier = "WHOLE_DEVICE" /\ "whole_device" \in result.warnings

(* Whatever one thing goes wrong, an exception anywhere or one Ctrl-C, the *)
(* end of a with statement, or of a capture() whose capture began, leaves  *)
(* no chain behind, if the last tier object built is the one that          *)
(* installed them: when start() raised with rules in place and is called   *)
(* again, the object that could remove them may be replaced by a           *)
(* SockDiagTier, which removes nothing.                                    *)
NoRulesAfterOneMishap ==
  (/\ pc = "ended" /\ Mishaps <= 1
   /\ env.caller = "with" \/ started \/ result # NoResult
   /\ impl.tier = "NFLOG")
    => ~rules

(* tiers/base.py:50 "robust to it already being gone ... Never raises":    *)
(* the caller is done with the session, and no Ctrl-C cut short the last   *)
(* call.  Whatever exceptions and Ctrl-Cs there were before, and however   *)
(* often stop() was repeated, the tcpdump of a capture that had begun then *)
(* runs on only if the last signal to it failed, which the code suppresses *)
(* (an earlier one may have failed: a repeated stop() makes up for it).    *)
CapturesAreStopped ==
  pc = "ended" /\ raised # "interrupt" => readers \cap captured \subseteq lost

(* result.py:44 "the mechanism actually used": a result says WHOLE_DEVICE  *)
(* only of a capture that was not scoped.  _whole_device is never reset,   *)
(* so in a session that is used again it may (a run shows it).             *)
TierAsUsed == result.tier = "WHOLE_DEVICE" => result.uids = {}

(* tiers/base.py:131 "Idempotent cleanup of anything start installed. Never *)
(* raises.": after __exit__ and at most one mishap neither the rules nor *)
(* a tcpdump are left.  A start() that is cut short after the launch       *)
(* leaves its tcpdump, and one that is repeated with another tier its      *)
(* rules (a run shows the first).                                          *)
TeardownUndoesStart ==
  pc = "ended" /\ env.caller = "with" /\ Mishaps <= 1 /\ lost = {} => ~rules /\ readers = {}

------------------------------------------------------------------------------
(* What the caller sees of it.                                             *)
Begun == started /\ pc # "ended"

Promise == INSTANCE AppCapture WITH
  phase  <- IF pc = "ended" THEN "ended" ELSE IF started THEN "capturing" ELSE "idle",
  scope  <- IF Begun THEN [tier |-> impl.tier, uids |-> impl.uids]
            ELSE [tier |-> "none", uids |-> {}],
  report <- result

(* api.py:37 "an app-scoped capture across an explicit start/stop          *)
(* lifecycle": through every exception, Ctrl-C, repeated start() and       *)
(* retried stop(), a capture that has begun keeps its scope, ends with a   *)
(* report about it or with the session, and is never reported twice, nor   *)
(* without its flag.                                                       *)
ImplementsAppCapture == Promise!Spec
==============================================================================
