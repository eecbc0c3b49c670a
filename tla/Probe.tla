-------------------------------- MODULE Probe --------------------------------
(***************************************************************************)
(* The capability probe (probe in src/apptap/capabilities.py, build_probe  *)
(* in netfilter.py) of sessions that share a target: each finds out how it *)
(* gets root (executors/), tries one rule per feature in the chain         *)
(* APPTAP_PROBE, removes the chain and looks for the delivery module.      *)
(*                                                                         *)
(*   executor, kernel, ways   how the target is reached, what it can       *)
(*              really do, and in which ways shell() can get uid 0 on it   *)
(*   strategy   AdbExecutor._strategy, which is never looked for again     *)
(*   probing    the command that runs next, or where it ended              *)
(*   raising    an exception waits for the finally clause                  *)
(*   caps       what has been found out, and then the result               *)
(*   chain      APPTAP_PROBE in the target's mangle table                  *)
(*   late       the commands that timed out and will yet run               *)
(*                                                                         *)
(* faults counts towards a bound.  clean (nothing went wrong in a probe,   *)
(* nobody else probed meanwhile, and it has root if there is a way) and    *)
(* messy (something went wrong since a clean probe began) serve to state   *)
(* properties.  A command that takes effect late goes wrong when it does.  *)
(***************************************************************************)
EXTENDS Capabilities, Naturals

CONSTANTS Sessions,
          Executors,         \* AdbExecutor ("adb") or LocalExecutor ("local")
          Kernels,           \* the targets, as [owner, connmark, nflog_target, nfnetlink_log]
          WaySets,           \* for each of them, the ways to root a target may have
          MaxProbeFaults     \* bound: commands that fail, time out or raise, crashes

AdbWays   == {"root", "su0", "magisk"}      \* tried in this order
LocalWays == {"root", "sudo"}               \* geteuid() == 0, sudo -n
Features == {"owner", "connmark", "nflog_target"}
Binaries == {"native", "bundled"}           \* what pkill is given to look for

ASSUME ProbeAssumption ==
  /\ Executors \subseteq {"adb", "local"}
  /\ Kernels \subseteq [Features \cup {"nfnetlink_log"} -> BOOLEAN]
  /\ DOMAIN WaySets = Executors
  /\ \A x \in Executors : WaySets[x] \subseteq SUBSET (IF x = "adb" THEN AdbWays ELSE LocalWays)
  /\ MaxProbeFaults \in Nat

VARIABLES executor, kernel, ways, strategy, probing, raising, caps, chain, late,
          faults, clean, messy

place     == <<executor, kernel, ways>>
probeVars == <<place, strategy, probing, raising, caps, chain, late, faults, clean, messy>>

(* The commands of build_probe, and _nfnetlink_log_present. *)
RuleCommands == {"create", "flush", "delete"} \cup Features
Commands == {"create", "owner", "connmark", "nflog_target", "flush", "delete", "ls", "cat"}
Probing  == AdbWays \cup Commands
Results  == {"ok", "absent", "failed"}
NoCaps   == [owner |-> FALSE, connmark |-> FALSE, nflog_target |-> FALSE,
             nfnetlink_log |-> FALSE, is_rooted |-> FALSE]
NoChain  == [exists |-> FALSE, rules |-> {}]

ProbeInit ==
  /\ executor \in Executors
  /\ kernel \in Kernels
  /\ ways \in WaySets[executor]
  /\ strategy = [s \in Sessions |-> "unknown"]
  /\ probing = [s \in Sessions |-> "new"]
  /\ raising = [s \in Sessions |-> FALSE]
  /\ caps = [s \in Sessions |-> NoCaps]
  /\ chain = NoChain /\ late = {}
  /\ faults = 0
  /\ clean = [s \in Sessions |-> FALSE] /\ messy = FALSE

------------------------------------------------------------------------------
(* Elevation.                                                              *)

(* shell() runs the command as uid 0. *)
Elevated(s) == IF executor = "adb" THEN strategy[s] \in ways ELSE ways # {}

is_rooted(s) == IF executor = "adb" THEN strategy[s] # "none" ELSE "root" \in ways

Proceed(s, step) == probing' = [probing EXCEPT ![s] = step]

Alone(s) == \A t \in Sessions \ {s} : probing[t] \notin Probing

Fault(s) ==
  /\ faults < MaxProbeFaults /\ faults' = faults + 1
  /\ clean' = [clean EXCEPT ![s] = FALSE]
  /\ messy' = TRUE

NoFault == UNCHANGED <<faults, clean, messy>>

(* The first command of an executor looks for the way to root: it is taken *)
(* to be one of the first probe.                                           *)
BeginProbe(s) ==
  /\ probing[s] \notin Probing
  /\ Proceed(s, IF executor = "adb" /\ strategy[s] = "unknown" THEN "root" ELSE "create")
  /\ raising' = [raising EXCEPT ![s] = FALSE]
  /\ caps' = [caps EXCEPT ![s] = NoCaps]
  /\ LET sound == Alone(s) /\ (strategy[s] = "none" => ways = {})
     IN /\ clean' = [t \in Sessions |-> IF t = s THEN sound
                                       ELSE clean[t] /\ probing[t] \notin Probing]
        /\ messy' = (messy /\ ~sound)
  /\ UNCHANGED <<place, strategy, chain, late, faults>>

(* _detect_strategy: a way that does not answer in time is no way. *)
TryWay(s, way, next) ==
  /\ probing[s] = way
  /\ \/ /\ way \in ways /\ NoFault
        /\ strategy' = [strategy EXCEPT ![s] = way]
        /\ Proceed(s, "create")
     \/ /\ (way \notin ways /\ NoFault) \/ Fault(s)
        /\ strategy' = [strategy EXCEPT ![s] = IF next = "create" THEN "none" ELSE @]
        /\ Proceed(s, next)
  /\ UNCHANGED <<place, raising, caps, chain, late>>

------------------------------------------------------------------------------
(* The commands.                                                           *)

Accepts(command) ==
  CASE command = "create" -> ~chain.exists
    [] command \in Features -> chain.exists /\ kernel[command]
    [] command = "flush" -> chain.exists
    [] command = "delete" -> chain.exists /\ chain.rules = {}

Effect(command) ==
  CASE command = "create" -> [exists |-> TRUE, rules |-> {}]
    [] command \in Features -> [chain EXCEPT !.rules = @ \cup {command}]
    [] command = "flush" -> [chain EXCEPT !.rules = {}]
    [] command = "delete" -> NoChain

Works(s, command) == Elevated(s) /\ Accepts(command)

Postpone(command) == late' = late \cup {[command |-> command, fault |-> faults]}

(* shell() of an iptables command: it succeeds; iptables says that what it *)
(* names is not there, or that it may not; or something else goes wrong,   *)
(* such as a time-out after which it may have run all the same, or, as     *)
(* only adb's end of it is killed, may run on the device at any later time.*)
Runs(s, command, result) ==
  \/ /\ result = IF Works(s, command) THEN "ok" ELSE IF Elevated(s) THEN "absent" ELSE "failed"
     /\ chain' = IF Works(s, command) THEN Effect(command) ELSE chain
     /\ NoFault /\ UNCHANGED late
  \/ /\ result = "failed"
     /\ Fault(s)
     /\ \/ UNCHANGED <<chain, late>>
        \/ Works(s, command) /\ chain' = Effect(command) /\ UNCHANGED late
        \/ executor = "adb" /\ Elevated(s) /\ Postpone(command) /\ UNCHANGED chain

(* Mutant: only the known complaints count as absence. *)
probe_feature_present_unless_absent(result) == result # "absent"

probe_feature_present(result) == result = "ok"

(* Mutant: a chain that is there already ends the set-up. *)
CreateOrGiveUp(s) ==
  /\ probing[s] = "create"
  /\ \E result \in Results :
       /\ Runs(s, "create", result)
       /\ Proceed(s, IF result = "ok" THEN "owner" ELSE "flush")
  /\ UNCHANGED <<place, strategy, raising, caps>>

Create(s) ==
  /\ probing[s] = "create"
  /\ \E result \in Results : Runs(s, "create", result)
  /\ Proceed(s, "owner")
  /\ UNCHANGED <<place, strategy, raising, caps>>

TryFeature(s, feature, next) ==
  /\ probing[s] = feature
  /\ \E result \in Results :
       /\ Runs(s, feature, result)
       /\ caps' = [caps EXCEPT ![s][feature] = probe_feature_present(result)]
  /\ Proceed(s, next)
  /\ UNCHANGED <<place, strategy, raising>>

(* An exception in the set-up: the finally clause still runs. *)
SetupRaises(s) ==
  /\ probing[s] \in {"create"} \cup Features
  /\ Fault(s)
  /\ raising' = [raising EXCEPT ![s] = TRUE]
  /\ Proceed(s, "flush")
  /\ UNCHANGED <<place, strategy, caps, chain, late>>

(* Mutant: the chain is not flushed before it is deleted. *)
FlushNothing(s) ==
  /\ probing[s] = "flush"
  /\ Proceed(s, "delete")
  /\ UNCHANGED <<place, strategy, raising, caps, chain, late, faults, clean, messy>>

(* Exceptions in the teardown are suppressed: the command did not run. *)
Flush(s) ==
  /\ probing[s] = "flush"
  /\ \E result \in Results : Runs(s, "flush", result)
  /\ Proceed(s, "delete")
  /\ UNCHANGED <<place, strategy, raising, caps>>

Delete(s) ==
  /\ probing[s] = "delete"
  /\ \E result \in Results : Runs(s, "delete", result)
  /\ Proceed(s, IF raising[s] THEN "raised" ELSE "ls")
  /\ UNCHANGED <<place, strategy, raising, caps>>

Found(s, there) ==
  /\ Proceed(s, "done")
  /\ caps' = [caps EXCEPT ![s].nfnetlink_log = there, ![s].is_rooted = is_rooted(s)]

(* _nfnetlink_log_present: ls, and cat if that does not succeed. *)
Ls(s) ==
  /\ probing[s] = "ls"
  /\ \/ kernel.nfnetlink_log /\ Found(s, TRUE) /\ NoFault
     \/ ~kernel.nfnetlink_log /\ Proceed(s, "cat") /\ UNCHANGED caps /\ NoFault
     \/ Fault(s) /\ Proceed(s, "cat") /\ UNCHANGED caps
  /\ UNCHANGED <<place, strategy, raising, chain, late>>

Cat(s) ==
  /\ probing[s] = "cat"
  /\ \/ Found(s, kernel.nfnetlink_log) /\ NoFault
     \/ Found(s, FALSE) /\ Fault(s)
  /\ UNCHANGED <<place, strategy, raising, chain, late>>

ModulesRaise(s) ==
  /\ probing[s] \in {"ls", "cat"}
  /\ Fault(s)
  /\ Proceed(s, "raised")
  /\ UNCHANGED <<place, strategy, raising, caps, chain, late>>

ProbeStep(s) ==
  \/ TryWay(s, "root", "su0") \/ TryWay(s, "su0", "magisk") \/ TryWay(s, "magisk", "create")
  \/ Create(s)
  \/ TryFeature(s, "owner", "connmark") \/ TryFeature(s, "connmark", "nflog_target")
  \/ TryFeature(s, "nflog_target", "flush")
  \/ SetupRaises(s) \/ Flush(s) \/ Delete(s) \/ Ls(s) \/ Cat(s) \/ ModulesRaise(s)

(* A command that timed out runs now.  One that adds to the chain may come *)
(* after the probe, or the next one, has removed it.                       *)
RunLate ==
  /\ \E l \in late :
       /\ l.command \in RuleCommands
       /\ late' = late \ {l}
       /\ IF Accepts(l.command)
          THEN /\ chain' = Effect(l.command)
               /\ clean' = [s \in Sessions |-> clean[s] /\ probing[s] \notin Probing]
               /\ messy' = (messy \/ l.command \notin {"flush", "delete"})
          ELSE UNCHANGED <<chain, clean, messy>>
  /\ UNCHANGED <<place, strategy, probing, raising, caps, faults>>

------------------------------------------------------------------------------
ProbeTypeOK ==
  /\ executor \in Executors /\ kernel \in Kernels /\ ways \in WaySets[executor]
  /\ strategy \in [Sessions -> {"unknown", "root", "su0", "magisk", "none"}]
  /\ probing \in [Sessions -> Probing \cup {"new", "done", "raised"}]
  /\ raising \in [Sessions -> BOOLEAN]
  /\ caps \in [Sessions -> Capabilities]
  /\ chain \in [exists : BOOLEAN, rules : SUBSET Features]
  /\ ~chain.exists => chain.rules = {}
  /\ late \subseteq [command : RuleCommands \cup Binaries, fault : Nat]
  /\ faults \in Nat
  /\ clean \in [Sessions -> BOOLEAN] /\ messy \in BOOLEAN

(* capabilities.py:35 "a feature confirmed against the running kernel":    *)
(* what a probe reports is really there, whatever goes wrong and whoever   *)
(* else probes, flushes and deletes the chain in between.                  *)
OnlyRealFeatures ==
  \A s \in Sessions : probing[s] = "done" =>
    /\ \A f \in Features : caps[s][f] => kernel[f] /\ ways # {}
    /\ caps[s].nfnetlink_log => kernel.nfnetlink_log
    /\ caps[s].is_rooted => ways # {}

(* A probe that nothing disturbed, no command of an earlier one that takes *)
(* effect late either, misses nothing, even when it finds the chain of one *)
(* that was, with rules in it.  That LocalExecutor.is_rooted does not      *)
(* count sudo is what the code does.                                       *)
CleanProbeIsExact ==
  \A s \in Sessions : probing[s] = "done" /\ clean[s] =>
    caps[s] = [owner |-> kernel.owner /\ ways # {},
               connmark |-> kernel.connmark /\ ways # {},
               nflog_target |-> kernel.nflog_target /\ ways # {},
               nfnetlink_log |-> kernel.nfnetlink_log,
               is_rooted |-> IF executor = "adb" THEN ways # {} ELSE "root" \in ways]

(* capabilities.py:74 "then always tears the probe chain down": when no    *)
(* probe runs, the chain is gone, also when probes overlapped, and after a *)
(* failure again once an undisturbed probe has been through and unless a   *)
(* -N or -A took effect late since it began (a late -F or -X does no harm).*)
ProbeChainRemoved ==
  (\A s \in Sessions : probing[s] \notin Probing) /\ ~messy => ~chain.exists
==============================================================================
