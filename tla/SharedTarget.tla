---------------------------- MODULE SharedTarget ----------------------------
(***************************************************************************)
(* Capture sessions that share a target, from the probe to the pcap: each  *)
(* probes, picks its tier, finds a tcpdump, records, stops and fetches.    *)
(* They share the probe chain, on Android also the files that tcpdump      *)
(* writes to and the name it is stopped by (api.py, tcpdump.py, tiers/).   *)
(*                                                                         *)
(*   native     whether the target has a tcpdump of its own                *)
(*   flow       where each session is                                      *)
(*   tier, binary, id   what it chose, and the number of its capture       *)
(*   writers    the tcpdumps that run                                      *)
(*   file       of each path: whether it exists, the captures whose        *)
(*              packets it holds, whether two tcpdumps wrote it at once    *)
(*   result     what stop() returned                                       *)
(*                                                                         *)
(* captures counts towards a bound.  recorded (captures with a packet),    *)
(* own (nothing went wrong since the launch, nobody else wrote the files)  *)
(* and bystander (no other session stopped since the launch) serve to      *)
(* state properties.                                                       *)
(***************************************************************************)
EXTENDS Probe, FiniteSets

CONSTANTS Asked,             \* the tiers sessions ask for
          MaxCaptures        \* bound: captures begun

ASSUME SharedTargetAssumption == Asked \subseteq Requests /\ MaxCaptures \in Nat

VARIABLES native, flow, tier, binary, id, writers, file, result,
          captures, recorded, own, bystander

choice   == <<native, tier, binary, id, captures>>
pcaps    == <<writers, file, recorded>>
history  == <<own, bystander>>
flowVars == <<choice, flow, pcaps, result, history>>
vars     == <<probeVars, flowVars>>

Flows == {"idle", "probe", "tcpdump", "launch", "capturing", "stopping", "killing", "pull", "finish"}

android == executor = "adb"

Device(t) == <<"device", t>>
Temp(s)   == <<"temp", s>>
Output(s) == <<"output", s>>
Paths == {Device(t) : t \in {"NFLOG", "SOCKDIAG"}} \cup {Temp(s) : s \in Sessions}
           \cup {Output(s) : s \in Sessions}
NoFile == [exists |-> FALSE, of |-> {}, torn |-> FALSE]

NoResult == [id |-> 0, path |-> FALSE, warned |-> FALSE]

Init ==
  /\ ProbeInit
  /\ native \in BOOLEAN
  /\ flow = [s \in Sessions |-> "idle"]
  /\ tier = [s \in Sessions |-> "SOCKDIAG"]
  /\ binary = [s \in Sessions |-> "native"]
  /\ id = [s \in Sessions |-> 0]
  /\ writers = {}
  /\ file = [p \in Paths |-> NoFile]
  /\ result = [s \in Sessions |-> NoResult]
  /\ captures = 0 /\ recorded = {}
  /\ own = [s \in Sessions |-> FALSE]
  /\ bystander = [s \in Sessions |-> FALSE]

------------------------------------------------------------------------------
Goto(s, step) == flow' = [flow EXCEPT ![s] = step]

(* A command of session s that fails unnoticed, times out or raises. *)
Fails(s) ==
  /\ faults < MaxProbeFaults /\ faults' = faults + 1
  /\ own' = [own EXCEPT ![s] = FALSE]
  /\ UNCHANGED <<place, strategy, probing, raising, caps, chain, clean, messy>>

(* The same, of one that leaves none behind that could run late. *)
Mishap(s) == Fails(s) /\ UNCHANGED late

Smooth == UNCHANGED <<probeVars, own>>

Start(s) ==
  /\ flow[s] = "idle"
  /\ captures < MaxCaptures /\ captures' = captures + 1
  /\ id' = [id EXCEPT ![s] = captures + 1]
  /\ Goto(s, "probe")
  /\ BeginProbe(s)
  /\ UNCHANGED <<native, tier, binary, pcaps, result, history>>

ProbeOn(s) ==
  /\ flow[s] = "probe"
  /\ ProbeStep(s)
  /\ UNCHANGED flowVars

(* Mutant: after a probe that raised the tier is the one asked for. *)
ChooseTierAsAsked(s) ==
  /\ flow[s] = "probe"
  /\ \/ /\ probing[s] = "done"
        /\ \E requested \in Asked :
             tier' = [tier EXCEPT ![s] = select_tier(caps[s], requested).tier]
     \/ /\ probing[s] = "raised"
        /\ \E requested \in Asked : tier' = [tier EXCEPT ![s] = requested]
  /\ Goto(s, "tcpdump")
  /\ UNCHANGED <<probeVars, native, binary, id, captures, pcaps, result, history>>

(* _choose_tier: a probe that raised means Tier 1, and so does, whatever   *)
(* the probe says, an app without UIDs.                                    *)
ChooseTier(s) ==
  /\ flow[s] = "probe"
  /\ \/ /\ probing[s] = "done"
        /\ \E requested \in Asked :
             tier' = [tier EXCEPT ![s] = select_tier(caps[s], requested).tier]
     \/ /\ probing[s] \in {"done", "raised"}
        /\ tier' = [tier EXCEPT ![s] = "SOCKDIAG"]
  /\ Goto(s, "tcpdump")
  /\ UNCHANGED <<probeVars, native, binary, id, captures, pcaps, result, history>>

(* TcpdumpProvider.resolve: the target's own; else, on Android, one that   *)
(* is pushed, which may fail; else start() raises.                         *)
ResolveTcpdump(s) ==
  /\ flow[s] = "tcpdump"
  /\ \/ native /\ Smooth
        /\ binary' = [binary EXCEPT ![s] = "native"] /\ Goto(s, "launch")
     \/ ~native /\ Smooth
        /\ binary' = [binary EXCEPT ![s] = "bundled"] /\ Goto(s, IF android THEN "launch" ELSE "idle")
     \/ native /\ Mishap(s)
        /\ binary' = [binary EXCEPT ![s] = "bundled"] /\ Goto(s, IF android THEN "launch" ELSE "idle")
     \/ ~native /\ Mishap(s)
        /\ UNCHANGED binary /\ Goto(s, "idle")
  /\ UNCHANGED <<native, tier, id, captures, pcaps, result, bystander>>

(* Where tcpdump writes: on Android to a path all sessions share. *)
WriteTo(s) ==
  IF android THEN Device(tier[s]) ELSE IF tier[s] = "NFLOG" THEN Output(s) ELSE Temp(s)

WritersOf(path) == {w \in writers : w.path = path}

(* Mutant: the pcap of an earlier capture is appended to. *)
LaunchAppending(s) ==
  /\ flow[s] = "launch" /\ Elevated(s)
  /\ writers' = writers \cup {[id |-> id[s], path |-> WriteTo(s), binary |-> binary[s]]}
  /\ file' = [file EXCEPT ![WriteTo(s)].exists = TRUE]
  /\ own' = [t \in Sessions |-> IF t = s THEN WritersOf(WriteTo(s)) \cup WritersOf(Output(s)) = {}
                               ELSE own[t] /\ WriteTo(t) # WriteTo(s)]
  /\ bystander' = [bystander EXCEPT ![s] = TRUE]
  /\ Goto(s, "capturing")
  /\ UNCHANGED <<probeVars, choice, result, recorded>>

(* tcpdump -w truncates the file, which another one may be writing. *)
Launch(s) ==
  /\ flow[s] = "launch" /\ Elevated(s)
  /\ writers' = writers \cup {[id |-> id[s], path |-> WriteTo(s), binary |-> binary[s]]}
  /\ file' = [file EXCEPT ![WriteTo(s)] =
                [exists |-> TRUE, of |-> {}, torn |-> WritersOf(WriteTo(s)) # {}]]
  /\ own' = [t \in Sessions |-> IF t = s THEN WritersOf(WriteTo(s)) \cup WritersOf(Output(s)) = {}
                               ELSE own[t] /\ WriteTo(t) # WriteTo(s)]
  /\ bystander' = [bystander EXCEPT ![s] = TRUE]
  /\ Goto(s, "capturing")
  /\ UNCHANGED <<probeVars, choice, result, recorded>>

(* Nobody looks whether tcpdump came up: without root, or for any other    *)
(* reason, it is gone before it opens the file.                            *)
LaunchInVain(s) ==
  /\ flow[s] = "launch"
  /\ \/ ~Elevated(s) /\ own' = [own EXCEPT ![s] = FALSE] /\ UNCHANGED probeVars
     \/ Elevated(s) /\ Mishap(s)
  /\ bystander' = [bystander EXCEPT ![s] = FALSE]
  /\ Goto(s, "capturing")
  /\ UNCHANGED <<choice, pcaps, result>>

(* A tcpdump writes a packet (-U: at once). *)
Record ==
  /\ \E w \in writers : file' = [file EXCEPT ![w.path].of = @ \cup {w.id}]
                        /\ recorded' = recorded \cup {w.id}
  /\ UNCHANGED <<probeVars, choice, flow, writers, result, history>>

Stop(s) ==
  /\ flow[s] = "capturing"
  /\ Goto(s, "stopping")
  /\ UNCHANGED <<probeVars, choice, pcaps, result, history>>

(* Mutant: pkill -x tcpdump. *)
NamedTcpdump(s) == {w \in writers : w.binary = "native"}

(* pkill -f matches command lines, so "tcpdump" also finds a bundled one. *)
Called(name) == {w \in writers : name \in {"native", w.binary}}
Named(s) == Called(binary[s])
Handle(s) == {w \in writers : w.id = id[s]}

(* A tcpdump runs as root, so that only root can signal it. *)
Signal(s, step) ==
  /\ \/ Elevated(s) /\ writers' = writers \ Named(s) /\ Smooth
     \/ ~Elevated(s) /\ UNCHANGED writers /\ Smooth
     \/ UNCHANGED writers /\ Fails(s)
        /\ (UNCHANGED late \/ (Elevated(s) /\ Postpone(binary[s])))
  /\ bystander' = [t \in Sessions |-> bystander[t] /\ t = s]
  /\ Goto(s, step)
  /\ UNCHANGED <<choice, file, result, recorded>>

(* _stop_android_tcpdump: pkill -INT, then pkill -9. *)
SignalInt(s)  == flow[s] = "stopping" /\ android /\ Signal(s, "killing")
SignalKill(s) == flow[s] = "killing" /\ Signal(s, "pull")

(* A pkill that timed out runs now, for a session that has long gone on.   *)
SignalLate ==
  /\ \E l \in late :
       /\ l.command \in Binaries
       /\ late' = late \ {l}
       /\ writers' = writers \ Called(l.command)
  /\ bystander' = [t \in Sessions |-> FALSE]
  /\ UNCHANGED <<place, strategy, probing, raising, caps, chain, faults, clean, messy>>
  /\ UNCHANGED <<choice, flow, file, recorded, result, own>>

(* Mutant: Linux too goes by the name. *)
TerminateByName(s) ==
  /\ flow[s] = "stopping" /\ ~android
  /\ writers' = writers \ Named(s)
  /\ Goto(s, "finish")
  /\ UNCHANGED <<probeVars, choice, file, result, recorded, history>>

(* _terminate_proc: the handle of a tcpdump under sudo is that of sudo,    *)
(* which belongs to root; that it cannot be signalled is suppressed.       *)
Terminate(s) ==
  /\ flow[s] = "stopping" /\ ~android
  /\ \/ writers' = writers \ Handle(s)
     \/ "root" \notin ways /\ UNCHANGED writers
  /\ Goto(s, "finish")
  /\ UNCHANGED <<probeVars, choice, file, result, recorded, history>>

Fetched(s) == IF tier[s] = "NFLOG" THEN Output(s) ELSE Temp(s)

(* pull_file, whose result is ignored: the file may be missing, too. *)
Pull(s) ==
  /\ flow[s] = "pull"
  /\ \/ /\ file[Device(tier[s])].exists
        /\ file' = [file EXCEPT ![Fetched(s)] = file[Device(tier[s])]]
        /\ Smooth
     \/ ~file[Device(tier[s])].exists /\ UNCHANGED file /\ Smooth
     \/ UNCHANGED file /\ Mishap(s)
  /\ Goto(s, "finish")
  /\ UNCHANGED <<choice, writers, recorded, result, bystander>>

Returns(s, path, warned) ==
  /\ result' = [result EXCEPT ![s] = [id |-> id[s], path |-> path, warned |-> warned]]
  /\ Goto(s, "idle")

(* _check_liveness: a file with no packets has a header, so it has a size. *)
FinishNflog(s) ==
  /\ flow[s] = "finish" /\ tier[s] = "NFLOG"
  /\ Returns(s, TRUE, ~file[Output(s)].exists)
  /\ UNCHANGED <<probeVars, choice, pcaps, history>>

(* _finalize: what the filter keeps of a capture counts as of it.  It      *)
(* raises, which is caught, when the capture is missing or torn, or when   *)
(* the poll thread, which was not joined in time, adds to the set it goes  *)
(* through.                                                                *)
FinishSockDiag(s) ==
  /\ flow[s] = "finish" /\ tier[s] = "SOCKDIAG"
  /\ \/ /\ file[Temp(s)].exists /\ Smooth
        /\ file' = [file EXCEPT ![Output(s)] = file[Temp(s)]]
        /\ Returns(s, TRUE, FALSE)
     \/ /\ (~file[Temp(s)].exists \/ file[Temp(s)].torn) /\ Smooth
        /\ UNCHANGED file
        /\ Returns(s, FALSE, TRUE)
     \/ Mishap(s) /\ UNCHANGED file /\ Returns(s, FALSE, TRUE)
  /\ UNCHANGED <<choice, writers, recorded, bystander>>

(* The process dies: what it left on the target stays. *)
Crash(s) ==
  /\ flow[s] # "idle"
  /\ Fault(s)
  /\ Goto(s, "idle")
  /\ probing' = [probing EXCEPT ![s] = "new"]
  /\ strategy' = [strategy EXCEPT ![s] = "unknown"]
  /\ own' = [own EXCEPT ![s] = FALSE]
  /\ UNCHANGED <<place, raising, caps, chain, late, choice, pcaps, result, bystander>>

------------------------------------------------------------------------------
Step(s) ==
  \/ Start(s) \/ ProbeOn(s) \/ ChooseTier(s) \/ ResolveTcpdump(s) \/ Launch(s) \/ LaunchInVain(s)
  \/ Stop(s) \/ SignalInt(s) \/ SignalKill(s) \/ Terminate(s) \/ Pull(s)
  \/ FinishNflog(s) \/ FinishSockDiag(s) \/ Crash(s)

Late == (RunLate /\ UNCHANGED flowVars) \/ SignalLate

Next == Record \/ Late \/ \E s \in Sessions : Step(s)

Spec == Init /\ [][Next]_vars

------------------------------------------------------------------------------
TypeOK ==
  /\ ProbeTypeOK
  /\ native \in BOOLEAN
  /\ flow \in [Sessions -> Flows]
  /\ tier \in [Sessions -> {"NFLOG", "SOCKDIAG"}]
  /\ binary \in [Sessions -> {"native", "bundled"}]
  /\ id \in [Sessions -> Nat] /\ captures \in Nat
  /\ writers \subseteq [id : Nat, path : Paths, binary : {"native", "bundled"}]
  /\ file \in [Paths -> [exists : BOOLEAN, of : SUBSET Nat, torn : BOOLEAN]]
  /\ \A p \in Paths : file[p].of \subseteq recorded
  /\ \A w \in writers : file[w.path].exists
  /\ result \in [Sessions -> [id : Nat, path : BOOLEAN, warned : BOOLEAN]]
  /\ recorded \subseteq Nat
  /\ {own, bystander} \subseteq [Sessions -> BOOLEAN]

(* capabilities.py:8 "only usable when the kernel can deliver NFLOG        *)
(* packets": a session takes Tier 2 only on a target that has all of it    *)
(* and on which it has root, however another's probe and its own mix.      *)
TierTwoIsDelivered ==
  \A s \in Sessions :
    flow[s] \notin {"idle", "probe"} /\ tier[s] = "NFLOG" =>
      /\ kernel = [f \in DOMAIN kernel |-> TRUE]
      /\ Elevated(s)

(* tiers/base.py:5 "finalizes an app-scoped pcap": when nothing went wrong *)
(* since its launch and no other tcpdump wrote its files, the pcap of      *)
(* a session holds what its own tcpdump recorded, all of it and nothing    *)
(* else, whatever earlier captures left on the device, beside the output   *)
(* and in it.                                                              *)
UndisturbedPcapIsOwn ==
  \A s \in Sessions :
    flow[s] = "idle" /\ own[s] /\ result[s].id = id[s] /\ Handle(s) = {} =>
      result[s].path /\ file[Output(s)].of = {id[s]} \cap recorded

(* nflog.py:8 "if it does not ..., stop flags an empty capture so the      *)
(* caller can fall back to Tier 1": a Tier 2 result whose pcap has no      *)
(* packet carries the warning.  The code asks for a size of 0, and a       *)
(* tcpdump that came up has written the header (a run shows it).           *)
EmptyCaptureIsTold ==
  \A s \in Sessions :
    (/\ flow[s] = "idle" /\ tier[s] = "NFLOG"
     /\ result[s].id = id[s] /\ file[Output(s)].of = {})
      => result[s].warned

(* base.py:56 "On Linux the handle is the process": there, a capture runs  *)
(* until its own session stops it.  On Android the stop of any session     *)
(* ends it, so only a capture beside which nobody stopped is safe.         *)
RunsUntilStopped ==
  \A s \in Sessions :
    flow[s] = "capturing" /\ (IF android THEN bystander[s] ELSE own[s]) => Handle(s) # {}

(* base.py:50 "Gracefully stop a running tcpdump": when no command failed, *)
(* a session that is through has no tcpdump left, under whichever name it  *)
(* was started; but on Linux without uid 0 it may.                         *)
StoppedCapturesEnd ==
  \A s \in Sessions :
    (/\ faults = 0 /\ flow[s] = "idle" /\ result[s].id = id[s]
     /\ android \/ "root" \in ways)
      => Handle(s) = {}
==============================================================================
