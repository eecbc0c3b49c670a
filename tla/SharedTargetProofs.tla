-------------------------- MODULE SharedTargetProofs --------------------------
(***************************************************************************)
(* Proofs about sessions that share a target: the types, that no probe     *)
(* reports what is not there, that Tier 2 is only taken where it works,    *)
(* whose packets a pcap holds, and how long a capture runs.                *)
(***************************************************************************)
EXTENDS SharedTarget, TLAPS

ChainOK == chain \in [exists : BOOLEAN, rules : SUBSET Features] /\ (~chain.exists => chain.rules = {})

TallyOK == faults \in Nat /\ clean \in [Sessions -> BOOLEAN] /\ messy \in BOOLEAN

LateOK == late \subseteq [command : RuleCommands \cup Binaries, fault : Nat]

(* An iptables command leaves a chain, or none.                            *)
LEMMA EffectType ==
  ASSUME ChainOK, NEW command \in RuleCommands, Accepts(command)
  PROVE  /\ Effect(command) \in [exists : BOOLEAN, rules : SUBSET Features]
         /\ ~Effect(command).exists => Effect(command).rules = {}
<1> USE DEF ChainOK, Accepts, Effect, Features, NoChain
<1>1. CASE command = "create"
  BY <1>1
<1>2. CASE command \in Features
  BY <1>2
<1>3. CASE command = "flush"
  BY <1>3
<1>4. CASE command = "delete"
  BY <1>4
<1> QED
  BY <1>1, <1>2, <1>3, <1>4 DEF RuleCommands

LEMMA FaultType ==
  ASSUME TallyOK, NEW s \in Sessions, Fault(s)
  PROVE  TallyOK'
BY DEF Fault, TallyOK

LEMMA NoFaultType ==
  ASSUME TallyOK, NoFault
  PROVE  TallyOK'
BY DEF NoFault, TallyOK

LEMMA PostponeType ==
  ASSUME LateOK, TallyOK, NEW command \in RuleCommands \cup Binaries, Postpone(command)
  PROVE  LateOK'
BY DEF LateOK, TallyOK, Postpone

LEMMA RunsType ==
  ASSUME ChainOK, LateOK, TallyOK, NEW s \in Sessions, NEW command \in RuleCommands,
         NEW outcome, Runs(s, command, outcome)
  PROVE  ChainOK' /\ LateOK' /\ TallyOK'
<1>1. TallyOK'
  BY FaultType, NoFaultType DEF Runs
<1>2. chain' = chain \/ (Accepts(command) /\ chain' = Effect(command))
  BY DEF Runs, Works
<1>3. ChainOK'
  BY <1>2, EffectType DEF ChainOK
<1>4. LateOK'
  BY PostponeType DEF Runs, LateOK
<1> QED
  BY <1>1, <1>3, <1>4

(* Whatever is found out of a feature is a fact or not.                    *)
LEMMA CapsType ==
  ASSUME caps \in [Sessions -> Capabilities], NEW s \in Sessions, NEW there \in BOOLEAN
  PROVE  /\ \A f \in Features : [caps EXCEPT ![s][f] = there] \in [Sessions -> Capabilities]
         /\ \A rooted \in BOOLEAN :
              [caps EXCEPT ![s].nfnetlink_log = there, ![s].is_rooted = rooted]
                \in [Sessions -> Capabilities]
         /\ [caps EXCEPT ![s] = NoCaps] \in [Sessions -> Capabilities]
<1>1. caps[s] \in Capabilities
  OBVIOUS
<1>2. \A f \in Features : [caps[s] EXCEPT ![f] = there] \in Capabilities
  BY <1>1 DEF Capabilities, Features
<1>3. \A rooted \in BOOLEAN : [caps[s] EXCEPT !.nfnetlink_log = there, !.is_rooted = rooted] \in Capabilities
  BY <1>1 DEF Capabilities
<1>4. NoCaps \in Capabilities
  BY DEF Capabilities, NoCaps
<1> QED
  BY <1>1, <1>2, <1>3, <1>4

Strategies == {"unknown", "root", "su0", "magisk", "none"}

PlaceOK == executor \in Executors /\ kernel \in Kernels /\ ways \in WaySets[executor]

FieldsOK ==
  /\ strategy \in [Sessions -> Strategies]
  /\ probing \in [Sessions -> Probing \cup {"new", "done", "raised"}]
  /\ raising \in [Sessions -> BOOLEAN]
  /\ caps \in [Sessions -> Capabilities]

LEMMA ProbeTypeParts == ProbeTypeOK <=> PlaceOK /\ FieldsOK /\ ChainOK /\ LateOK /\ TallyOK
BY DEF ProbeTypeOK, PlaceOK, FieldsOK, ChainOK, LateOK, TallyOK, Strategies

LEMMA ProbeTypePartsNext == ProbeTypeOK' <=> PlaceOK' /\ FieldsOK' /\ ChainOK' /\ LateOK' /\ TallyOK'
BY DEF ProbeTypeOK, PlaceOK, FieldsOK, ChainOK, LateOK, TallyOK, Strategies

LEMMA BeginProbeType ==
  ASSUME ProbeTypeOK, NEW s \in Sessions, BeginProbe(s)
  PROVE  ProbeTypeOK'
<1> USE DEF BeginProbe, Proceed
<1>1. PlaceOK' /\ ChainOK' /\ LateOK'
  BY ProbeTypeParts DEF PlaceOK, ChainOK, LateOK, place
<1>2. FieldsOK'
  <2>1. probing' \in [Sessions -> Probing \cup {"new", "done", "raised"}]
    BY ProbeTypeParts DEF FieldsOK, Probing, AdbWays, Commands
  <2>2. caps' \in [Sessions -> Capabilities]
    BY ProbeTypeParts, CapsType DEF FieldsOK
  <2> QED
    BY <2>1, <2>2, ProbeTypeParts DEF FieldsOK
<1>3. TallyOK'
  <2> DEFINE sound == Alone(s) /\ (strategy[s] = "none" => ways = {})
  <2>1. /\ clean' = [t \in Sessions |-> IF t = s THEN sound
                                       ELSE clean[t] /\ probing[t] \notin Probing]
        /\ messy' = (messy /\ ~sound) /\ faults' = faults
    OBVIOUS
  <2>2. sound \in BOOLEAN
    BY DEF Alone
  <2> HIDE DEF sound
  <2>3. \A t \in Sessions : (clean[t] /\ probing[t] \notin Probing) \in BOOLEAN
    OBVIOUS
  <2> QED
    BY <2>1, <2>2, <2>3, ProbeTypeParts DEF TallyOK
<1> QED
  BY <1>1, <1>2, <1>3, ProbeTypePartsNext

LEMMA ProbeStepType ==
  ASSUME ProbeTypeOK, NEW s \in Sessions, ProbeStep(s)
  PROVE  ProbeTypeOK'
<1> USE ProbeTypePartsNext DEF Proceed, Probing, AdbWays, Commands
<1>a. PlaceOK /\ FieldsOK /\ ChainOK /\ LateOK /\ TallyOK
  BY ProbeTypeParts
<1>b. PlaceOK'
  BY <1>a DEF PlaceOK, ProbeStep, TryWay, Create, TryFeature, SetupRaises, Flush, Delete, Ls, Cat,
              ModulesRaise, place
<1>c. ASSUME NEW step \in Probing \cup {"done", "raised"}, Proceed(s, step)
      PROVE  probing' \in [Sessions -> Probing \cup {"new", "done", "raised"}]
  BY <1>a, <1>c DEF FieldsOK
<1>1. ASSUME NEW way \in AdbWays, NEW next \in AdbWays \cup {"create"}, TryWay(s, way, next)
      PROVE  FieldsOK' /\ ChainOK' /\ LateOK' /\ TallyOK'
  <2>1. FieldsOK' /\ ChainOK' /\ LateOK'
    BY <1>1, <1>a DEF TryWay, FieldsOK, ChainOK, LateOK, Strategies
  <2>2. TallyOK'
    BY <1>1, <1>a, FaultType, NoFaultType DEF TryWay
  <2> QED
    BY <2>1, <2>2
<1>2. ASSUME NEW feature \in Features, NEW next \in Probing, TryFeature(s, feature, next)
      PROVE  FieldsOK' /\ ChainOK' /\ LateOK' /\ TallyOK'
  <2>1. PICK outcome \in Results :
          /\ Runs(s, feature, outcome)
          /\ caps' = [caps EXCEPT ![s][feature] = probe_feature_present(outcome)]
    BY <1>2 DEF TryFeature
  <2>2. ChainOK' /\ LateOK' /\ TallyOK'
    BY <2>1, <1>a, RunsType DEF RuleCommands
  <2>3. probe_feature_present(outcome) \in BOOLEAN
    BY DEF probe_feature_present
  <2>4. caps' \in [Sessions -> Capabilities]
    BY <2>1, <2>3, <1>a, CapsType DEF FieldsOK
  <2> QED
    BY <1>2, <2>2, <2>4, <1>a DEF TryFeature, FieldsOK
<1>3. CASE Create(s) \/ Flush(s) \/ Delete(s)
  <2>1. PICK command \in {"create", "flush", "delete"}, outcome \in Results :
          Runs(s, command, outcome)
    BY <1>3 DEF Create, Flush, Delete
  <2>2. ChainOK' /\ LateOK' /\ TallyOK'
    BY <2>1, <1>a, RunsType DEF RuleCommands
  <2>3. FieldsOK'
    BY <1>3, <1>a DEF Create, Flush, Delete, FieldsOK
  <2> QED
    BY <1>b, <2>2, <2>3
<1>4. CASE SetupRaises(s) \/ ModulesRaise(s)
  <2>1. FieldsOK' /\ ChainOK' /\ LateOK'
    BY <1>4, <1>a DEF SetupRaises, ModulesRaise, FieldsOK, ChainOK, LateOK
  <2>2. TallyOK'
    BY <1>4, <1>a, FaultType DEF SetupRaises, ModulesRaise
  <2> QED
    BY <1>b, <2>1, <2>2
<1>5. CASE Ls(s) \/ Cat(s)
  <2>1. ChainOK' /\ LateOK' /\ (Fault(s) \/ NoFault) /\ strategy' = strategy /\ raising' = raising
    BY <1>5, <1>a DEF Ls, Cat, ChainOK, LateOK
  <2>2. TallyOK'
    BY <2>1, <1>a, FaultType, NoFaultType
  <2>3. kernel.nfnetlink_log \in BOOLEAN
    BY <1>a, ProbeAssumption DEF PlaceOK, ProbeAssumption
  <2>4. is_rooted(s) \in BOOLEAN
    <3>1. CASE executor = "adb"
      BY <3>1 DEF is_rooted
    <3>2. CASE executor # "adb"
      BY <3>2 DEF is_rooted
    <3> QED
      BY <3>1, <3>2
  <2>5. ASSUME NEW there \in BOOLEAN, Found(s, there)
        PROVE  caps' \in [Sessions -> Capabilities]
    BY <2>4, <2>5, <1>a, CapsType DEF Found, FieldsOK
  <2>6. caps' \in [Sessions -> Capabilities]
    BY <1>5, <2>3, <2>5, <1>a DEF Ls, Cat, FieldsOK
  <2>7. probing' \in [Sessions -> Probing \cup {"new", "done", "raised"}]
    BY <1>5, <1>a DEF Ls, Cat, Found, FieldsOK
  <2> QED
    BY <1>b, <2>1, <2>2, <2>6, <2>7, <1>a DEF FieldsOK
<1> QED
  BY <1>b, <1>1, <1>2, <1>3, <1>4, <1>5 DEF ProbeStep, Features

------------------------------------------------------------------------------
(* The sessions' own variables.                                            *)
ChoiceOK ==
  /\ native \in BOOLEAN
  /\ flow \in [Sessions -> Flows]
  /\ tier \in [Sessions -> {"NFLOG", "SOCKDIAG"}]
  /\ binary \in [Sessions -> {"native", "bundled"}]
  /\ id \in [Sessions -> Nat] /\ captures \in Nat

PcapsOK ==
  /\ writers \subseteq [id : Nat, path : Paths, binary : {"native", "bundled"}]
  /\ file \in [Paths -> [exists : BOOLEAN, of : SUBSET Nat, torn : BOOLEAN]]
  /\ \A p \in Paths : file[p].of \subseteq recorded
  /\ \A w \in writers : file[w.path].exists
  /\ recorded \subseteq Nat

ResultOK == result \in [Sessions -> [id : Nat, path : BOOLEAN, warned : BOOLEAN]]

HistoryOK == own \in [Sessions -> BOOLEAN] /\ bystander \in [Sessions -> BOOLEAN]

LEMMA TypeParts == TypeOK <=> ProbeTypeOK /\ ChoiceOK /\ PcapsOK /\ ResultOK /\ HistoryOK
BY DEF TypeOK, ChoiceOK, PcapsOK, ResultOK, HistoryOK

LEMMA TypePartsNext ==
  TypeOK' <=> ProbeTypeOK' /\ ChoiceOK' /\ PcapsOK' /\ ResultOK' /\ HistoryOK'
BY DEF TypeOK, ChoiceOK, PcapsOK, ResultOK, HistoryOK

LEMMA SameProbe ==
  ASSUME ProbeTypeOK, UNCHANGED probeVars
  PROVE  ProbeTypeOK'
BY DEF ProbeTypeOK, probeVars, place

LEMMA FailsType ==
  ASSUME ProbeTypeOK, own \in [Sessions -> BOOLEAN], NEW s \in Sessions, Fails(s), LateOK'
  PROVE  ProbeTypeOK' /\ own' \in [Sessions -> BOOLEAN]
BY DEF ProbeTypeOK, Fails, LateOK, place

LEMMA MishapType ==
  ASSUME ProbeTypeOK, own \in [Sessions -> BOOLEAN], NEW s \in Sessions, Mishap(s)
  PROVE  ProbeTypeOK' /\ own' \in [Sessions -> BOOLEAN]
BY FailsType, ProbeTypeParts DEF Mishap, LateOK

LEMMA SmoothType ==
  ASSUME ProbeTypeOK, own \in [Sessions -> BOOLEAN], Smooth
  PROVE  ProbeTypeOK' /\ own' \in [Sessions -> BOOLEAN]
BY SameProbe DEF Smooth

LEMMA PathsAre ==
  ASSUME ChoiceOK, NEW s \in Sessions
  PROVE  /\ WriteTo(s) \in Paths /\ Fetched(s) \in Paths /\ Device(tier[s]) \in Paths
         /\ Output(s) \in Paths /\ Temp(s) \in Paths
BY DEF ChoiceOK, WriteTo, Fetched, Paths

(* A path may take over the content of another that exists.                *)
LEMMA CopyType ==
  ASSUME PcapsOK, NEW from \in Paths, NEW to \in Paths, file[from].exists,
         file' = [file EXCEPT ![to] = file[from]], UNCHANGED <<writers, recorded>>
  PROVE  PcapsOK'
BY DEF PcapsOK

LEMMA SamePcaps ==
  ASSUME PcapsOK, UNCHANGED <<writers, file, recorded>>
  PROVE  PcapsOK'
BY DEF PcapsOK

LEMMA FewerWriters ==
  ASSUME PcapsOK, writers' \subseteq writers, UNCHANGED <<file, recorded>>
  PROVE  PcapsOK'
BY DEF PcapsOK

LEMMA LaunchType ==
  ASSUME ChoiceOK, PcapsOK, HistoryOK, NEW s \in Sessions, Launch(s)
  PROVE  PcapsOK' /\ HistoryOK'
<1> DEFINE path == WriteTo(s)
           opened == [exists |-> TRUE, of |-> {}, torn |-> WritersOf(path) # {}]
           started == [id |-> id[s], path |-> path, binary |-> binary[s]]
<1>1. path \in Paths
  BY PathsAre
<1>2. opened \in [exists : BOOLEAN, of : SUBSET Nat, torn : BOOLEAN]
  OBVIOUS
<1>3. started \in [id : Nat, path : Paths, binary : {"native", "bundled"}]
  BY <1>1 DEF ChoiceOK
<1>4. /\ file' = [file EXCEPT ![path] = opened]
      /\ writers' = writers \cup {started}
      /\ recorded' = recorded
  BY DEF Launch
<1>5. started.path = path /\ opened.exists /\ opened.of = {}
  OBVIOUS
<1>6. PcapsOK'
  <2> HIDE DEF path, opened, started
  <2> QED
    BY <1>1, <1>2, <1>3, <1>4, <1>5 DEF PcapsOK
<1>7. own' \in [Sessions -> BOOLEAN]
  BY DEF Launch, HistoryOK
<1>8. bystander' \in [Sessions -> BOOLEAN]
  BY DEF Launch, HistoryOK
<1> QED
  BY <1>6, <1>7, <1>8 DEF HistoryOK

(* What a command that runs late changes.                                  *)
LEMMA LateFrame ==
  ASSUME Late
  PROVE  /\ UNCHANGED <<place, strategy, probing, raising, caps, faults>>
         /\ UNCHANGED <<choice, flow, file, recorded, result, own>>
         /\ writers' \subseteq writers
         /\ \/ UNCHANGED <<writers, bystander>>
            \/ late # {} /\ bystander' = [t \in Sessions |-> FALSE]
BY DEF Late, RunLate, SignalLate, flowVars, pcaps, history

LEMMA LateType ==
  ASSUME TypeOK, Late
  PROVE  TypeOK'
<1>a. ProbeTypeOK /\ ChoiceOK /\ PcapsOK /\ ResultOK /\ HistoryOK
  BY TypeParts
<1>b. PlaceOK /\ FieldsOK /\ ChainOK /\ LateOK /\ TallyOK
  BY <1>a, ProbeTypeParts
<1>1. PlaceOK' /\ FieldsOK' /\ ChoiceOK' /\ ResultOK' /\ HistoryOK'
  BY <1>a, <1>b, LateFrame DEF PlaceOK, FieldsOK, ChoiceOK, ResultOK, HistoryOK, place, choice
<1>2. PcapsOK'
  BY <1>a, LateFrame, FewerWriters
<1>3. LateOK'
  BY <1>b DEF Late, RunLate, SignalLate, LateOK
<1>4. ChainOK' /\ TallyOK'
  <2>1. CASE SignalLate
    BY <1>b, <2>1 DEF SignalLate, ChainOK, TallyOK
  <2>2. CASE RunLate
    <3>1. PICK l \in late :
            /\ l.command \in RuleCommands
            /\ IF Accepts(l.command)
               THEN /\ chain' = Effect(l.command)
                    /\ clean' = [s \in Sessions |-> clean[s] /\ probing[s] \notin Probing]
                    /\ messy' = (messy \/ l.command \notin {"flush", "delete"})
               ELSE UNCHANGED <<chain, clean, messy>>
      BY <2>2 DEF RunLate
    <3>2. CASE Accepts(l.command)
      <4> QED
        BY <1>b, <2>2, <3>1, <3>2, EffectType DEF RunLate, ChainOK, TallyOK
    <3>3. CASE ~Accepts(l.command)
      BY <1>b, <2>2, <3>1, <3>3 DEF RunLate, ChainOK, TallyOK
    <3> QED
      BY <3>2, <3>3
  <2> QED
    BY <2>1, <2>2 DEF Late
<1> QED
  BY <1>1, <1>2, <1>3, <1>4, TypePartsNext, ProbeTypePartsNext

LEMMA TypeStep ==
  ASSUME SharedTargetAssumption, TypeOK, [Next]_vars
  PROVE  TypeOK'
<1> USE TypePartsNext, SmoothType, MishapType DEF choice, pcaps, history, Flows, Goto
<1>a. ProbeTypeOK /\ ChoiceOK /\ PcapsOK /\ ResultOK /\ HistoryOK
  BY TypeParts
<1>1. ASSUME NEW s \in Sessions, Start(s) PROVE TypeOK'
  <2>1. ProbeTypeOK'
    BY <1>1, <1>a, BeginProbeType DEF Start
  <2>2. ChoiceOK'
    BY <1>1, <1>a DEF Start, ChoiceOK
  <2> QED
    BY <1>1, <1>a, <2>1, <2>2 DEF Start, PcapsOK, ResultOK, HistoryOK
<1>2. ASSUME NEW s \in Sessions, ProbeOn(s) PROVE TypeOK'
  BY <1>2, <1>a, ProbeStepType DEF ProbeOn, flowVars, ChoiceOK, PcapsOK, ResultOK, HistoryOK
<1>3. ASSUME NEW s \in Sessions, ChooseTier(s) PROVE TypeOK'
  <2>1. ASSUME NEW found \in Capabilities, NEW requested \in Requests
        PROVE  select_tier(found, requested).tier \in {"NFLOG", "SOCKDIAG"}
    BY DEF select_tier
  <2>2. caps[s] \in Capabilities /\ Asked \subseteq Requests
    BY <1>a DEF ProbeTypeOK, SharedTargetAssumption
  <2>3. tier' \in [Sessions -> {"NFLOG", "SOCKDIAG"}]
    BY <1>3, <1>a, <2>1, <2>2 DEF ChooseTier, ChoiceOK
  <2> QED
    BY <1>3, <1>a, <2>3, SameProbe DEF ChooseTier, ChoiceOK, PcapsOK, ResultOK, HistoryOK
<1>4. ASSUME NEW s \in Sessions, ResolveTcpdump(s) PROVE TypeOK'
  <2>1. ProbeTypeOK' /\ own' \in [Sessions -> BOOLEAN]
    BY <1>4, <1>a DEF ResolveTcpdump, HistoryOK
  <2>2. ChoiceOK'
    BY <1>4, <1>a DEF ResolveTcpdump, ChoiceOK
  <2> QED
    BY <1>4, <1>a, <2>1, <2>2 DEF ResolveTcpdump, PcapsOK, ResultOK, HistoryOK
<1>5. ASSUME NEW s \in Sessions, Launch(s) PROVE TypeOK'
  <2>1. ProbeTypeOK' /\ ChoiceOK' /\ ResultOK'
    BY <1>5, <1>a, SameProbe DEF Launch, ChoiceOK, ResultOK
  <2> QED
    BY <1>5, <1>a, <2>1, LaunchType
<1>6. ASSUME NEW s \in Sessions, LaunchInVain(s) PROVE TypeOK'
  <2>1. ProbeTypeOK' /\ own' \in [Sessions -> BOOLEAN]
    BY <1>6, <1>a, SameProbe DEF LaunchInVain, HistoryOK
  <2>2. ChoiceOK' /\ PcapsOK' /\ ResultOK' /\ bystander' \in [Sessions -> BOOLEAN]
    BY <1>6, <1>a DEF LaunchInVain, ChoiceOK, PcapsOK, ResultOK, HistoryOK
  <2> QED
    BY <2>1, <2>2 DEF HistoryOK
<1>7. CASE Record
  <2>1. PICK w \in writers : file' = [file EXCEPT ![w.path].of = @ \cup {w.id}]
                             /\ recorded' = recorded \cup {w.id}
    BY <1>7 DEF Record
  <2>2. w.path \in Paths /\ w.id \in Nat /\ writers' = writers
    BY <1>7, <1>a DEF Record, PcapsOK
  <2>3. PcapsOK'
    BY <1>a, <2>1, <2>2 DEF PcapsOK
  <2>4. ChoiceOK' /\ ResultOK' /\ HistoryOK'
    BY <1>7, <1>a DEF Record, ChoiceOK, ResultOK, HistoryOK
  <2> QED
    BY <1>7, <1>a, <2>3, <2>4, SameProbe DEF Record
<1>8. ASSUME NEW s \in Sessions, Stop(s) PROVE TypeOK'
  BY <1>8, <1>a, SameProbe DEF Stop, ChoiceOK, PcapsOK, ResultOK, HistoryOK
<1>9. ASSUME NEW s \in Sessions, NEW step \in {"killing", "pull"}, Signal(s, step) PROVE TypeOK'
  <2>5. LateOK'
    <3>1. binary[s] \in Binaries
      BY <1>a DEF ChoiceOK, Binaries
    <3> QED
      BY <1>9, <1>a, <3>1, ProbeTypeParts, PostponeType DEF Signal, Smooth, probeVars, LateOK
  <2>1. ProbeTypeOK' /\ own' \in [Sessions -> BOOLEAN]
    BY <1>9, <1>a, <2>5, FailsType DEF Signal, HistoryOK
  <2>2. bystander' \in [Sessions -> BOOLEAN]
    BY <1>9, <1>a DEF Signal, HistoryOK
  <2>3. ChoiceOK' /\ ResultOK'
    BY <1>9, <1>a DEF Signal, ChoiceOK, ResultOK
  <2>4. PcapsOK'
    BY <1>9, <1>a, FewerWriters DEF Signal
  <2> QED
    BY <2>1, <2>2, <2>3, <2>4 DEF HistoryOK
<1>10. ASSUME NEW s \in Sessions, Terminate(s) PROVE TypeOK'
  <2>1. PcapsOK'
    BY <1>10, <1>a, FewerWriters DEF Terminate
  <2> QED
    BY <1>10, <1>a, <2>1, SameProbe DEF Terminate, ChoiceOK, ResultOK, HistoryOK
<1>11. ASSUME NEW s \in Sessions, Pull(s) PROVE TypeOK'
  <2>1. PcapsOK'
    BY <1>11, <1>a, PathsAre, CopyType, SamePcaps DEF Pull
  <2>2. ProbeTypeOK' /\ own' \in [Sessions -> BOOLEAN]
    BY <1>11, <1>a DEF Pull, HistoryOK
  <2> QED
    BY <1>11, <1>a, <2>1, <2>2 DEF Pull, ChoiceOK, ResultOK, HistoryOK
<1>12. ASSUME NEW s \in Sessions, FinishNflog(s) PROVE TypeOK'
  <2>1. file[Output(s)].exists \in BOOLEAN
    BY <1>a, PathsAre DEF PcapsOK
  <2> QED
    BY <1>12, <1>a, <2>1, SameProbe, SamePcaps
       DEF FinishNflog, Returns, ChoiceOK, ResultOK, HistoryOK
<1>13. ASSUME NEW s \in Sessions, FinishSockDiag(s) PROVE TypeOK'
  <2>1. PcapsOK'
    BY <1>13, <1>a, PathsAre, CopyType, SamePcaps DEF FinishSockDiag
  <2>2. PICK path \in BOOLEAN, warned \in BOOLEAN : Returns(s, path, warned)
    BY <1>13 DEF FinishSockDiag
  <2>3. ResultOK' /\ ChoiceOK'
    BY <1>13, <1>a, <2>2 DEF FinishSockDiag, Returns, ResultOK, ChoiceOK
  <2>4. ProbeTypeOK' /\ own' \in [Sessions -> BOOLEAN] /\ bystander' = bystander
    BY <1>13, <1>a DEF FinishSockDiag, HistoryOK
  <2> QED
    BY <1>a, <2>1, <2>3, <2>4 DEF HistoryOK
<1>14. ASSUME NEW s \in Sessions, Crash(s) PROVE TypeOK'
  <2>1. TallyOK'
    BY <1>14, <1>a, ProbeTypeParts, FaultType DEF Crash
  <2>2. FieldsOK' /\ PlaceOK' /\ ChainOK' /\ LateOK'
    BY <1>14, <1>a, ProbeTypeParts DEF Crash, FieldsOK, PlaceOK, ChainOK, LateOK, Strategies, place
  <2> QED
    BY <1>14, <1>a, <2>1, <2>2, ProbeTypePartsNext, SamePcaps DEF Crash, ChoiceOK, ResultOK, HistoryOK
<1>15. CASE UNCHANGED vars
  BY <1>15, <1>a, SameProbe, SamePcaps DEF vars, flowVars, ChoiceOK, ResultOK, HistoryOK
<1> QED
  BY <1>1, <1>2, <1>3, <1>4, <1>5, <1>6, <1>7, <1>8, <1>9, <1>10, <1>11, <1>12, <1>13, <1>14, <1>15,
     LateType DEF Next, Step, SignalInt, SignalKill

(* Every variable stays within its type; a file that is written to exists, *)
(* and none holds a packet that was not recorded.                          *)
THEOREM TypeCorrect == Spec => []TypeOK
<1>1. Init => TypeOK
  <2> SUFFICES ASSUME Init PROVE TypeOK
    OBVIOUS
  <2>1. NoCaps \in Capabilities /\ NoFile \in [exists : BOOLEAN, of : SUBSET Nat, torn : BOOLEAN]
        /\ NoResult \in [id : Nat, path : BOOLEAN, warned : BOOLEAN]
    BY DEF NoCaps, Capabilities, NoFile, NoResult
  <2>2. ProbeTypeOK
    BY <2>1 DEF Init, ProbeInit, ProbeTypeOK, NoChain
  <2>3. ChoiceOK /\ ResultOK /\ HistoryOK
    BY <2>1 DEF Init, ChoiceOK, ResultOK, HistoryOK, Flows
  <2>4. PcapsOK
    BY <2>1 DEF Init, PcapsOK, NoFile
  <2> QED
    BY <2>2, <2>3, <2>4, TypeParts
<1>2. TypeOK /\ [Next]_vars => TypeOK'
  BY TypeStep, SharedTargetAssumption
<1> QED
  BY <1>1, <1>2, PTL DEF Spec

------------------------------------------------------------------------------
(* What a session holds to be there is there, all the time.                *)
Real(s) ==
  /\ \A f \in Features : caps[s][f] => kernel[f] /\ ways # {}
  /\ caps[s].nfnetlink_log => kernel.nfnetlink_log
  /\ caps[s].is_rooted => ways # {}

(* A way to root that was chosen works, and is known before any command.   *)
Rooted(s) ==
  /\ strategy[s] \in {"unknown", "none"} \cup ways
  /\ probing[s] \in Commands /\ executor = "adb" => strategy[s] # "unknown"
  /\ probing[s] = "done" /\ caps[s].is_rooted => Elevated(s)

RealInv == \A s \in Sessions : Real(s) /\ Rooted(s)

LEMMA RealStays ==
  ASSUME RealInv, UNCHANGED <<place, strategy, probing, caps>>
  PROVE  RealInv'
BY DEF RealInv, Real, Rooted, Elevated, place

(* It is enough to look at the session that takes the step.                *)
LEMMA RealOfOne ==
  ASSUME ProbeTypeOK, RealInv, NEW s \in Sessions, UNCHANGED place,
         \A t \in Sessions \ {s} :
           strategy'[t] = strategy[t] /\ probing'[t] = probing[t] /\ caps'[t] = caps[t],
         Real(s)', Rooted(s)'
  PROVE  RealInv'
<1>1. ASSUME NEW t \in Sessions \ {s} PROVE Real(t)' /\ Rooted(t)'
  BY <1>1 DEF RealInv, Real, Rooted, Elevated, place
<1> QED
  BY <1>1 DEF RealInv

LEMMA RealBegin ==
  ASSUME ProbeTypeOK, RealInv, NEW s \in Sessions, BeginProbe(s)
  PROVE  RealInv'
<1>1. caps'[s] = NoCaps /\ probing'[s] \in {"root", "create"}
      /\ (executor = "adb" /\ probing'[s] = "create" => strategy[s] # "unknown")
  BY DEF BeginProbe, Proceed, ProbeTypeOK
<1>2. Real(s)'
  BY <1>1 DEF Real, NoCaps, Features
<1>3. Rooted(s)'
  BY <1>1 DEF Rooted, RealInv, BeginProbe, Commands, NoCaps, place
<1> QED
  BY <1>1, <1>2, <1>3, RealOfOne DEF BeginProbe, Proceed, ProbeTypeOK

LEMMA RealProbe ==
  ASSUME ProbeTypeOK, RealInv, NEW s \in Sessions, ProbeStep(s)
  PROVE  RealInv'
<1> USE DEF Proceed, Commands
<1>a. Real(s) /\ Rooted(s)
  BY DEF RealInv
<1>b. /\ strategy \in [Sessions -> Strategies]
      /\ probing \in [Sessions -> Probing \cup {"new", "done", "raised"}]
      /\ caps \in [Sessions -> Capabilities]
      /\ caps[s] \in Capabilities
  BY ProbeTypeParts DEF FieldsOK
<1>c. UNCHANGED place
  BY DEF ProbeStep, TryWay, Create, TryFeature, SetupRaises, Flush, Delete, Ls, Cat, ModulesRaise
<1>d. Elevated(s) => ways # {}
  BY DEF Elevated
<1>1. ASSUME NEW way \in AdbWays, NEW next \in AdbWays \cup {"create"}, TryWay(s, way, next)
      PROVE  RealInv'
  <2>1. /\ caps' = caps /\ probing'[s] \in {next, "create"}
        /\ strategy'[s] \in {"none", strategy[s]} \cup (ways \cap {way})
        /\ probing'[s] = "create" => strategy'[s] # strategy[s] \/ strategy'[s] # "unknown"
    BY <1>1, <1>b DEF TryWay, AdbWays
  <2>2. Real(s)'
    BY <2>1, <1>a, <1>c DEF Real, place
  <2>3. probing'[s] = "create" => strategy'[s] # "unknown"
    BY <1>1, <1>b DEF TryWay, AdbWays
  <2>4. Rooted(s)'
    BY <2>1, <2>3, <1>1, <1>a, <1>c DEF Rooted, AdbWays, place
  <2> QED
    BY <1>1, <1>b, <1>c, <2>2, <2>4, RealOfOne DEF TryWay
<1>2. ASSUME NEW feature \in Features, NEW next \in Commands, TryFeature(s, feature, next)
      PROVE  RealInv'
  <2>1. PICK outcome \in Results :
          /\ Runs(s, feature, outcome)
          /\ caps' = [caps EXCEPT ![s][feature] = probe_feature_present(outcome)]
    BY <1>2 DEF TryFeature
  <2>2. probe_feature_present(outcome) => kernel[feature] /\ ways # {}
    BY <2>1, <1>d DEF probe_feature_present, Runs, Works, Accepts, Features
  <2>3. caps'[s] = [caps[s] EXCEPT ![feature] = probe_feature_present(outcome)]
    BY <2>1, <1>b
  <2>4. Real(s)'
    BY <2>2, <2>3, <1>a, <1>b, <1>c DEF Real, Features, Capabilities, place
  <2>5. Rooted(s)'
    BY <1>2, <1>a, <1>b, <1>c DEF TryFeature, Rooted, place, Features
  <2> QED
    BY <1>2, <1>b, <1>c, <2>1, <2>4, <2>5, RealOfOne DEF TryFeature
<1>3. CASE Create(s) \/ Flush(s) \/ Delete(s) \/ SetupRaises(s) \/ ModulesRaise(s)
  <2>1. caps' = caps /\ strategy' = strategy /\ probing[s] \in Commands
        /\ probing' = [probing EXCEPT ![s] = probing'[s]]
        /\ probing'[s] \in {"owner", "flush", "delete", "ls", "raised"}
    BY <1>3, <1>b DEF Create, Flush, Delete, SetupRaises, ModulesRaise, Features
  <2>2. Real(s)'
    BY <2>1, <1>a, <1>c DEF Real, place
  <2>3. Rooted(s)'
    BY <2>1, <1>a, <1>c DEF Rooted, place
  <2> QED
    BY <2>1, <2>2, <2>3, <1>b, <1>c, RealOfOne
<1>4. CASE Ls(s) \/ Cat(s)
  <2>1. strategy' = strategy /\ probing[s] \in Commands
        /\ (\A t \in Sessions \ {s} : probing'[t] = probing[t] /\ caps'[t] = caps[t])
    BY <1>4, <1>b DEF Ls, Cat, Found
  <2>2. \/ caps' = caps /\ probing'[s] = "cat"
        \/ /\ probing'[s] = "done"
           /\ \E there \in {FALSE, kernel.nfnetlink_log} :
                caps'[s] = [caps[s] EXCEPT !.nfnetlink_log = there, !.is_rooted = is_rooted(s)]
    BY <1>4, <1>b DEF Ls, Cat, Found
  <2>3. is_rooted(s) => Elevated(s)
    BY <2>1, <1>a DEF is_rooted, Rooted, Elevated
  <2>4. Real(s)'
    BY <2>2, <2>3, <1>a, <1>b, <1>c, <1>d DEF Real, Features, Capabilities, place
  <2>5. Elevated(s)' <=> Elevated(s)
    BY <2>1, <1>c DEF Elevated, place
  <2>6. Rooted(s)'
    BY <2>1, <2>2, <2>3, <2>5, <1>a, <1>b, <1>c DEF Rooted, Capabilities, place
  <2> QED
    BY <2>1, <2>4, <2>6, <1>c, RealOfOne
<1> QED
  BY <1>1, <1>2, <1>3, <1>4 DEF ProbeStep, Features, AdbWays

LEMMA RealInvStep ==
  ASSUME TypeOK, RealInv, [Next]_vars
  PROVE  RealInv'
<1>a. ProbeTypeOK
  BY TypeParts
<1>1. ASSUME NEW s \in Sessions, Start(s) PROVE RealInv'
  BY <1>1, <1>a, RealBegin DEF Start
<1>2. ASSUME NEW s \in Sessions, ProbeOn(s) PROVE RealInv'
  BY <1>2, <1>a, RealProbe DEF ProbeOn
<1>3. ASSUME NEW s \in Sessions, Crash(s) PROVE RealInv'
  <2>1. strategy'[s] = "unknown" /\ probing'[s] = "new" /\ caps' = caps /\ UNCHANGED place
    BY <1>3, <1>a DEF Crash, ProbeTypeOK
  <2>2. Real(s)' /\ Rooted(s)'
    BY <2>1 DEF RealInv, Real, Rooted, place, Commands
  <2> QED
    BY <1>3, <1>a, <2>1, <2>2, RealOfOne DEF Crash, ProbeTypeOK
<1>4. ASSUME NEW s \in Sessions,
             \/ ChooseTier(s) \/ ResolveTcpdump(s) \/ Launch(s) \/ LaunchInVain(s) \/ Stop(s)
             \/ SignalInt(s) \/ SignalKill(s) \/ Terminate(s) \/ Pull(s)
             \/ FinishNflog(s) \/ FinishSockDiag(s)
      PROVE  UNCHANGED <<place, strategy, probing, caps>>
  BY <1>4 DEF ChooseTier, ResolveTcpdump, Launch, LaunchInVain, Stop, SignalInt, SignalKill, Signal,
              Terminate, Pull, FinishNflog, FinishSockDiag, Smooth, Mishap, Fails, probeVars
<1>5. CASE Record \/ Late \/ UNCHANGED vars
  BY <1>5, RealStays, LateFrame DEF Record, vars, probeVars
<1> QED
  BY <1>1, <1>2, <1>3, <1>4, <1>5, RealStays DEF Next, Step

LEMMA RealInvHolds == Spec => []RealInv
<1>1. Init => RealInv
  BY DEF Init, ProbeInit, RealInv, Real, Rooted, NoCaps, Features, Commands
<1>2. TypeOK /\ RealInv /\ [Next]_vars => RealInv'
  BY RealInvStep
<1> QED
  BY <1>1, <1>2, TypeCorrect, PTL DEF Spec

(* No probe ever reports what the target does not have, however many       *)
(* probes share the chain and whatever goes wrong.                         *)
THEOREM ProbesReportTheReal == Spec => []OnlyRealFeatures
<1>1. RealInv => OnlyRealFeatures
  BY DEF RealInv, Real, OnlyRealFeatures
<1> QED
  BY <1>1, RealInvHolds, PTL

------------------------------------------------------------------------------
(* The session's side of Tier 2.                                           *)
Delivered(s) ==
  flow[s] \notin {"idle", "probe"} /\ tier[s] = "NFLOG" =>
    /\ kernel = [f \in DOMAIN kernel |-> TRUE]
    /\ Elevated(s)

(* A session whose own steps are not taken keeps what it has.              *)
LEMMA DeliveredStays ==
  ASSUME NEW s \in Sessions, Delivered(s), UNCHANGED place, strategy'[s] = strategy[s],
         tier'[s] = tier[s], flow'[s] \notin {"idle", "probe"} => flow[s] \notin {"idle", "probe"}
  PROVE  Delivered(s)'
BY DEF Delivered, Elevated, place

LEMMA ChosenIsDelivered ==
  ASSUME TypeOK, RealInv, NEW s \in Sessions, ChooseTier(s)
  PROVE  Delivered(s)'
<1>1. TypeOK /\ tier \in [Sessions -> {"NFLOG", "SOCKDIAG"}] /\ UNCHANGED probeVars
  BY TypeParts DEF ChoiceOK, ChooseTier
<1>2. tier'[s] = "NFLOG" => probing[s] = "done" /\ nflog_usable(caps[s])
  BY <1>1 DEF ChooseTier, select_tier
<1>3. nflog_usable(caps[s]) /\ probing[s] = "done" =>
        (\A f \in Features \cup {"nfnetlink_log"} : kernel[f]) /\ Elevated(s)
  BY DEF nflog_usable, rules_load, RealInv, Real, Rooted, Features
<1>4. kernel \in [Features \cup {"nfnetlink_log"} -> BOOLEAN]
  BY ProbeAssumption, TypeParts, ProbeTypeParts DEF ProbeAssumption, PlaceOK
<1>5. (\A f \in Features \cup {"nfnetlink_log"} : kernel[f]) =>
        kernel = [f \in DOMAIN kernel |-> TRUE]
  BY <1>4
<1> QED
  BY <1>1, <1>2, <1>3, <1>5 DEF Delivered, Elevated, probeVars, place

LEMMA DeliveredStep ==
  ASSUME TypeOK, RealInv, TierTwoIsDelivered, [Next]_vars
  PROVE  TierTwoIsDelivered'
<1> SUFFICES ASSUME NEW t \in Sessions PROVE Delivered(t)'
  BY DEF TierTwoIsDelivered, Delivered
<1> USE DEF Goto
<1>a. Delivered(t)
  BY DEF TierTwoIsDelivered, Delivered
<1>b. /\ flow \in [Sessions -> Flows] /\ tier \in [Sessions -> {"NFLOG", "SOCKDIAG"}]
      /\ strategy \in [Sessions -> Strategies]
  BY TypeParts, ProbeTypeParts DEF ChoiceOK, FieldsOK
<1>1. ASSUME NEW s \in Sessions, Start(s) PROVE Delivered(t)'
  BY <1>1, <1>a, <1>b, DeliveredStays DEF Start, BeginProbe
<1>2. ASSUME NEW s \in Sessions, ProbeOn(s) PROVE Delivered(t)'
  <2>1. UNCHANGED place /\ (t # s => strategy'[t] = strategy[t])
    BY <1>2, <1>b DEF ProbeOn, ProbeStep, TryWay, Create, TryFeature, SetupRaises, Flush, Delete,
                      Ls, Cat, ModulesRaise
  <2>2. UNCHANGED <<flow, tier>> /\ flow[s] = "probe"
    BY <1>2 DEF ProbeOn, flowVars, choice
  <2>3. CASE t = s
    BY <2>2, <2>3 DEF Delivered
  <2>4. CASE t # s
    BY <2>1, <2>2, <2>4, <1>a, DeliveredStays
  <2> QED
    BY <2>3, <2>4
<1>3. ASSUME NEW s \in Sessions, ChooseTier(s) PROVE Delivered(t)'
  <2>1. CASE t = s
    BY <1>3, <2>1, ChosenIsDelivered
  <2>2. CASE t # s
    <3>1. tier'[t] = tier[t] /\ flow'[t] = flow[t]
      BY <1>3, <2>2, <1>b DEF ChooseTier
    <3>2. UNCHANGED place /\ strategy'[t] = strategy[t]
      BY <1>3 DEF ChooseTier, probeVars
    <3> QED
      BY <3>1, <3>2, <1>a, DeliveredStays
  <2> QED
    BY <2>1, <2>2
<1>4. ASSUME NEW s \in Sessions,
             \/ ResolveTcpdump(s) \/ Launch(s) \/ LaunchInVain(s) \/ Stop(s)
             \/ SignalInt(s) \/ SignalKill(s) \/ Terminate(s) \/ Pull(s)
             \/ FinishNflog(s) \/ FinishSockDiag(s)
      PROVE  Delivered(t)'
  <2>1. UNCHANGED <<place, strategy, tier>> /\ flow[s] \notin {"idle", "probe"}
    BY <1>4 DEF ResolveTcpdump, Launch, LaunchInVain, Stop, SignalInt, SignalKill, Signal,
                Terminate, Pull, FinishNflog, FinishSockDiag, Smooth, Mishap, Fails, probeVars, choice
  <2>2. \E step : flow' = [flow EXCEPT ![s] = step]
    BY <1>4 DEF ResolveTcpdump, Launch, LaunchInVain, Stop, SignalInt, SignalKill, Signal,
                Terminate, Pull, FinishNflog, FinishSockDiag, Returns
  <2> QED
    BY <2>1, <2>2, <1>a, <1>b, DeliveredStays
<1>5. ASSUME NEW s \in Sessions, Crash(s) PROVE Delivered(t)'
  <2>1. CASE t = s
    BY <1>5, <2>1, <1>b DEF Crash, Delivered
  <2>2. CASE t # s
    BY <1>5, <2>2, <1>a, <1>b, DeliveredStays DEF Crash, choice
  <2> QED
    BY <2>1, <2>2
<1>6. CASE Record \/ Late \/ UNCHANGED vars
  BY <1>6, <1>a, DeliveredStays, LateFrame DEF Record, vars, flowVars, choice, probeVars
<1> QED
  BY <1>1, <1>2, <1>3, <1>4, <1>5, <1>6 DEF Next, Step

(* Tier 2 is only taken on a target that can deliver its packets and that  *)
(* the session has root on.                                                *)
THEOREM TierTwoDelivers == Spec => []TierTwoIsDelivered
<1>1. Init => TierTwoIsDelivered
  BY DEF Init, TierTwoIsDelivered
<1>2. TypeOK /\ RealInv /\ TierTwoIsDelivered /\ [Next]_vars => TierTwoIsDelivered'
  BY DeliveredStep
<1> QED
  BY <1>1, <1>2, TypeCorrect, RealInvHolds, PTL DEF Spec

------------------------------------------------------------------------------
(* Captures have numbers of their own; only Android kills by name and has  *)
(* commands that run late, and those had root.                             *)
NumberInv ==
  /\ \A s \in Sessions : id[s] <= captures /\ (flow[s] # "idle" => id[s] # 0)
  /\ \A s, t \in Sessions : s # t /\ id[s] = id[t] => id[s] = 0
  /\ \A s \in Sessions : flow[s] = "killing" => android
  /\ late # {} => android /\ ways # {}

(* Only commands that have root on Android are put off.                    *)
LEMMA LateOnAndroid ==
  ASSUME TypeOK, NumberInv, [Next]_vars
  PROVE  late' # {} => late # {} \/ (android /\ ways # {})
<1> USE DEF NumberInv, android
<1>1. ASSUME NEW s \in Sessions, NEW command, NEW outcome, Runs(s, command, outcome)
      PROVE  late' # {} => late # {} \/ (android /\ ways # {})
  BY <1>1 DEF Runs, Elevated
<1>2. ASSUME NEW s \in Sessions, ProbeStep(s) PROVE late' # {} => late # {} \/ (android /\ ways # {})
  <2>1. CASE Create(s) \/ Flush(s) \/ Delete(s)
    BY <1>1, <2>1 DEF Create, Flush, Delete
  <2>2. ASSUME NEW feature, NEW next, TryFeature(s, feature, next)
        PROVE  late' # {} => late # {} \/ (android /\ ways # {})
    BY <1>1, <2>2 DEF TryFeature
  <2>3. ASSUME NEW way, NEW next, TryWay(s, way, next) PROVE late' = late
    BY <2>3 DEF TryWay
  <2>4. CASE SetupRaises(s) \/ Ls(s) \/ Cat(s) \/ ModulesRaise(s)
    BY <2>4 DEF SetupRaises, Ls, Cat, ModulesRaise
  <2> QED
    BY <1>2, <2>1, <2>2, <2>3, <2>4 DEF ProbeStep
<1>3. ASSUME NEW s \in Sessions, SignalInt(s) \/ SignalKill(s)
      PROVE  late' # {} => late # {} \/ (android /\ ways # {})
  BY <1>3 DEF SignalInt, SignalKill, Signal, Smooth, probeVars, Elevated, NumberInv
<1>4. ASSUME NEW s \in Sessions,
             \/ Start(s) \/ ChooseTier(s) \/ ResolveTcpdump(s) \/ Launch(s) \/ LaunchInVain(s)
             \/ Stop(s) \/ Terminate(s) \/ Pull(s) \/ FinishNflog(s) \/ FinishSockDiag(s) \/ Crash(s)
      PROVE  late' = late
  BY <1>4 DEF Start, BeginProbe, ChooseTier, ResolveTcpdump, Launch, LaunchInVain, Stop, Terminate,
              Pull, FinishNflog, FinishSockDiag, Crash, Smooth, Mishap, probeVars
<1>5. CASE Late
  BY <1>5 DEF Late, RunLate, SignalLate
<1>6. CASE Record \/ UNCHANGED vars
  BY <1>6 DEF Record, vars, probeVars
<1> QED
  BY <1>2, <1>3, <1>4, <1>5, <1>6 DEF Next, Step, ProbeOn

LEMMA NumberInvStep ==
  ASSUME TypeOK, NumberInv, [Next]_vars
  PROVE  NumberInv'
<1> USE LateOnAndroid DEF Goto, NumberInv, android
<1>a. /\ flow \in [Sessions -> Flows] /\ id \in [Sessions -> Nat] /\ captures \in Nat
  BY TypeParts DEF ChoiceOK
<1>1. ASSUME NEW s \in Sessions, Start(s) PROVE NumberInv'
  BY <1>1, <1>a DEF Start, BeginProbe, place
<1>2. ASSUME NEW s \in Sessions, ProbeOn(s) PROVE NumberInv'
  <2>1. UNCHANGED <<place, flow, id, captures>>
    BY <1>2 DEF ProbeOn, flowVars, choice, ProbeStep, TryWay, Create, TryFeature, SetupRaises,
                Flush, Delete, Ls, Cat, ModulesRaise
  <2> QED
    BY <2>1 DEF place
<1>3. ASSUME NEW s \in Sessions,
             \/ ChooseTier(s) \/ ResolveTcpdump(s) \/ Launch(s) \/ LaunchInVain(s) \/ Stop(s)
             \/ SignalInt(s) \/ SignalKill(s) \/ Terminate(s) \/ Pull(s)
             \/ FinishNflog(s) \/ FinishSockDiag(s) \/ Crash(s)
      PROVE  NumberInv'
  <2>1. UNCHANGED <<place, id, captures>> /\ flow[s] # "idle"
    BY <1>3 DEF ChooseTier, ResolveTcpdump, Launch, LaunchInVain, Stop, SignalInt, SignalKill,
                Signal, Terminate, Pull, FinishNflog, FinishSockDiag, Crash, Smooth, Mishap, Fails,
                probeVars, choice
  <2>2. \E step : flow' = [flow EXCEPT ![s] = step] /\ (step = "killing" => android)
    BY <1>3 DEF ChooseTier, ResolveTcpdump, Launch, LaunchInVain, Stop, SignalInt, SignalKill,
                Signal, Terminate, Pull, FinishNflog, FinishSockDiag, Returns, Crash
  <2> QED
    BY <2>1, <2>2, <1>a DEF place
<1>4. CASE Record \/ Late \/ UNCHANGED vars
  <2>1. UNCHANGED <<place, flow, id, captures>>
    BY <1>4, LateFrame DEF Record, vars, flowVars, choice, probeVars
  <2> QED
    BY <2>1 DEF place
<1> QED
  BY <1>1, <1>2, <1>3, <1>4 DEF Next, Step

Running(s) ==
  flow[s] = "capturing" /\ (IF android THEN bystander[s] ELSE own[s]) => Handle(s) # {}

LEMMA RunningStays ==
  ASSUME NEW t \in Sessions, Running(t), executor' = executor, id'[t] = id[t],
         flow'[t] = "capturing" =>
           /\ flow[t] = "capturing"
           /\ own'[t] => own[t]
           /\ bystander'[t] => bystander[t]
           /\ Handle(t) \subseteq writers' \/ (android /\ ~bystander'[t])
  PROVE  Running(t)'
<1> SUFFICES ASSUME flow'[t] = "capturing", IF android THEN bystander'[t] ELSE own'[t]
             PROVE  Handle(t)' # {}
  BY DEF Running, android
<1>1. Handle(t) # {} /\ Handle(t) \subseteq writers'
  BY DEF Running, android
<1> QED
  BY <1>1 DEF Handle

LEMMA RunningStep ==
  ASSUME TypeOK, NumberInv, RunsUntilStopped, [Next]_vars
  PROVE  RunsUntilStopped'
<1> SUFFICES ASSUME NEW t \in Sessions PROVE Running(t)'
  BY DEF RunsUntilStopped, Running
<1> USE DEF Goto
<1>a. Running(t)
  BY DEF RunsUntilStopped, Running
<1>b. /\ flow \in [Sessions -> Flows] /\ id \in [Sessions -> Nat] /\ captures \in Nat
      /\ own \in [Sessions -> BOOLEAN] /\ bystander \in [Sessions -> BOOLEAN]
  BY TypeParts DEF ChoiceOK, HistoryOK
<1>c. Handle(t) \subseteq writers
  BY DEF Handle
<1>1. ASSUME NEW s \in Sessions, Start(s) PROVE Running(t)'
  <2>1. CASE t = s
    BY <1>1, <2>1, <1>b DEF Start, Running
  <2>2. CASE t # s
    BY <1>1, <2>2, <1>a, <1>b, <1>c, RunningStays DEF Start, BeginProbe, place, pcaps, history
  <2> QED
    BY <2>1, <2>2
<1>2. ASSUME NEW s \in Sessions, ProbeOn(s) PROVE Running(t)'
  <2>1. UNCHANGED <<place, flow, id, writers, own, bystander>>
    BY <1>2 DEF ProbeOn, flowVars, choice, pcaps, history, ProbeStep, TryWay, Create, TryFeature,
                SetupRaises, Flush, Delete, Ls, Cat, ModulesRaise
  <2> QED
    BY <2>1, <1>a, <1>c, RunningStays DEF place
<1>3. ASSUME NEW s \in Sessions, Launch(s) PROVE Running(t)'
  <2>1. UNCHANGED <<place, id>>
    BY <1>3 DEF Launch, choice, probeVars
  <2>2. CASE t = s
    <3>1. [id |-> id[s], path |-> WriteTo(s), binary |-> binary[s]] \in writers'
      BY <1>3 DEF Launch
    <3> QED
      BY <2>1, <2>2, <3>1 DEF Running, Handle
  <2>3. CASE t # s
    <3>1. flow'[t] = flow[t] /\ bystander'[t] = bystander[t] /\ (own'[t] => own[t])
      BY <1>3, <2>3, <1>b DEF Launch
    <3>2. writers \subseteq writers'
      BY <1>3 DEF Launch
    <3> QED
      BY <2>1, <3>1, <3>2, <1>a, <1>c, RunningStays DEF place
  <2> QED
    BY <2>2, <2>3
<1>4. ASSUME NEW s \in Sessions, LaunchInVain(s) PROVE Running(t)'
  <2>1. /\ UNCHANGED <<place, id, writers>>
        /\ own' = [own EXCEPT ![s] = FALSE] /\ bystander' = [bystander EXCEPT ![s] = FALSE]
        /\ flow' = [flow EXCEPT ![s] = "capturing"]
    BY <1>4 DEF LaunchInVain, Mishap, Fails, choice, pcaps, probeVars
  <2>2. CASE t = s
    BY <2>1, <2>2, <1>b DEF Running
  <2>3. CASE t # s
    BY <2>1, <2>3, <1>a, <1>b, <1>c, RunningStays DEF place
  <2> QED
    BY <2>2, <2>3
<1>5. ASSUME NEW s \in Sessions, SignalInt(s) \/ SignalKill(s) PROVE Running(t)'
  <2>1. android /\ UNCHANGED <<place, id>>
    BY <1>5 DEF SignalInt, SignalKill, Signal, Smooth, Mishap, Fails, NumberInv, choice, probeVars
  <2>2. CASE t = s
    BY <1>5, <2>2, <1>b DEF SignalInt, SignalKill, Signal, Running
  <2>3. CASE t # s
    <3>1. ~bystander'[t] /\ flow'[t] = flow[t]
      BY <1>5, <2>3, <1>b DEF SignalInt, SignalKill, Signal
    <3>2. android'
      BY <2>1 DEF android, place
    <3> QED
      BY <3>1, <3>2 DEF Running
  <2> QED
    BY <2>2, <2>3
<1>6. ASSUME NEW s \in Sessions, Terminate(s) PROVE Running(t)'
  <2>1. CASE t = s
    BY <1>6, <2>1, <1>b DEF Terminate, Running
  <2>2. CASE t # s
    <3>1. flow'[t] = flow[t] /\ UNCHANGED <<place, id, own, bystander>>
      BY <1>6, <2>2, <1>b DEF Terminate, choice, history, probeVars
    <3>2. flow[t] = "capturing" => id[t] # id[s]
      BY <2>2 DEF NumberInv
    <3>3. flow[t] = "capturing" => Handle(t) \subseteq writers'
      BY <1>6, <3>2 DEF Terminate, Handle
    <3> QED
      BY <3>1, <3>3, <1>a, RunningStays DEF place
  <2> QED
    BY <2>1, <2>2
<1>7. ASSUME NEW s \in Sessions,
             \/ ChooseTier(s) \/ ResolveTcpdump(s) \/ Stop(s) \/ Pull(s)
             \/ FinishNflog(s) \/ FinishSockDiag(s) \/ Crash(s)
      PROVE  Running(t)'
  <2>1. /\ UNCHANGED <<place, id, writers, bystander>>
        /\ own' = own \/ own' = [own EXCEPT ![s] = FALSE]
    BY <1>7 DEF ChooseTier, ResolveTcpdump, Stop, Pull, FinishNflog, FinishSockDiag, Crash,
                Smooth, Mishap, Fails, probeVars, choice, pcaps, history
  <2>2. \E step : flow' = [flow EXCEPT ![s] = step] /\ step # "capturing"
    BY <1>7 DEF ChooseTier, ResolveTcpdump, Stop, Pull, FinishNflog, FinishSockDiag, Returns, Crash
  <2> QED
    BY <2>1, <2>2, <1>a, <1>b, <1>c, RunningStays DEF place
<1>8. CASE Record \/ UNCHANGED vars
  <2>1. UNCHANGED <<place, flow, id, writers, own, bystander>>
    BY <1>8 DEF Record, vars, flowVars, choice, pcaps, history, probeVars
  <2> QED
    BY <2>1, <1>a, <1>c, RunningStays DEF place
<1>9. CASE Late
  <2>1. /\ UNCHANGED <<place, flow, id, own>>
        /\ UNCHANGED <<writers, bystander>> \/ (android /\ ~bystander'[t])
    BY <1>9, LateFrame DEF choice, NumberInv
  <2> QED
    BY <2>1, <1>a, <1>c, RunningStays DEF place
<1> QED
  BY <1>1, <1>2, <1>3, <1>4, <1>5, <1>6, <1>7, <1>8, <1>9 DEF Next, Step

(* A capture runs until its session stops it: on Linux whatever other      *)
(* sessions do, on Android as long as none of them stops.                  *)
THEOREM CapturesRunUntilStopped == Spec => []RunsUntilStopped
<1>1. Init => NumberInv /\ RunsUntilStopped
  BY DEF Init, ProbeInit, NumberInv, RunsUntilStopped
<1>2. TypeOK /\ NumberInv /\ RunsUntilStopped /\ [Next]_vars => NumberInv' /\ RunsUntilStopped'
  BY NumberInvStep, RunningStep
<1> QED
  BY <1>1, <1>2, TypeCorrect, PTL DEF Spec

------------------------------------------------------------------------------
(* Which tcpdump is whose: each is called what its session takes it for,   *)
(* and is gone when a session that nothing hindered has told it to stop.   *)
Unhindered == faults = 0 /\ (android \/ "root" \in ways)

Through(s) == flow[s] \in {"killing", "pull", "finish"} \/ (flow[s] = "idle" /\ result[s].id = id[s])

Kept(s) ==
  /\ flow[s] # "idle" => result[s].id # id[s]
  /\ result[s].id <= id[s]
  /\ \A w \in Handle(s) : w.binary = binary[s] /\ flow[s] \notin {"probe", "tcpdump", "launch"}
  /\ Handle(s) # {} /\ flow[s] \in {"capturing", "stopping", "killing"} => Elevated(s)
  /\ Unhindered /\ Through(s) => Handle(s) = {}

WritersInv ==
  /\ \A w \in writers : w.id # 0 /\ w.id <= captures
  /\ \A s \in Sessions : Kept(s)

(* A session leaves the others' own variables alone.                       *)
LEMMA OtherFields ==
  ASSUME TypeOK, NEW s \in Sessions, Step(s), NEW t \in Sessions \ {s}
  PROVE  /\ UNCHANGED place
         /\ flow'[t] = flow[t] /\ id'[t] = id[t] /\ tier'[t] = tier[t]
         /\ binary'[t] = binary[t] /\ result'[t] = result[t]
<1> USE DEF Goto
<1>a. /\ flow \in [Sessions -> Flows] /\ id \in [Sessions -> Nat]
      /\ binary \in [Sessions -> {"native", "bundled"}]
      /\ tier \in [Sessions -> {"NFLOG", "SOCKDIAG"}]
      /\ result \in [Sessions -> [id : Nat, path : BOOLEAN, warned : BOOLEAN]]
  BY TypeParts DEF ChoiceOK, ResultOK
<1>1. UNCHANGED place
  BY DEF Step, Start, BeginProbe, ProbeOn, ProbeStep, TryWay, Create, TryFeature, SetupRaises, Flush,
         Delete, Ls, Cat, ModulesRaise, ChooseTier, ResolveTcpdump, Launch, LaunchInVain, Stop,
         SignalInt, SignalKill, Signal, Terminate, Pull, FinishNflog, FinishSockDiag, Crash,
         Smooth, Mishap, Fails, probeVars
<1>2. flow'[t] = flow[t]
  BY <1>a DEF Step, Start, ProbeOn, flowVars, ChooseTier, ResolveTcpdump, Launch, LaunchInVain, Stop,
         SignalInt, SignalKill, Signal, Terminate, Pull, FinishNflog, FinishSockDiag, Returns, Crash
<1>3. id'[t] = id[t] /\ binary'[t] = binary[t] /\ tier'[t] = tier[t]
  BY <1>a DEF Step, Start, ProbeOn, flowVars, ChooseTier, ResolveTcpdump, Launch, LaunchInVain, Stop,
         SignalInt, SignalKill, Signal, Terminate, Pull, FinishNflog, FinishSockDiag, Crash, choice
<1>4. result'[t] = result[t]
  BY <1>a DEF Step, Start, ProbeOn, flowVars, ChooseTier, ResolveTcpdump, Launch, LaunchInVain, Stop,
         SignalInt, SignalKill, Signal, Terminate, Pull, FinishNflog, FinishSockDiag, Returns, Crash
<1> QED
  BY <1>1, <1>2, <1>3, <1>4

(* A step of another session, or of none.                                  *)
LEMMA KeptStays ==
  ASSUME TypeOK, NEW t \in Sessions, Kept(t), UNCHANGED place, faults' = 0 => faults = 0, strategy'[t] = strategy[t],
         flow'[t] = flow[t], id'[t] = id[t], binary'[t] = binary[t], result'[t] = result[t],
         \A w \in writers' : w.id = id[t] => w \in writers
  PROVE  Kept(t)'
<1>1. Handle(t)' \subseteq Handle(t)
  BY DEF Handle
<1>2. (Unhindered /\ Through(t))' => Unhindered /\ Through(t)
  BY DEF Unhindered, Through, android, place
<1>3. Elevated(t)' <=> Elevated(t)
  BY DEF Elevated, place
<1> QED
  BY <1>1, <1>2, <1>3 DEF Kept

LEMMA OthersKept ==
  ASSUME TypeOK, NumberInv, WritersInv, NEW s \in Sessions, Step(s), NEW t \in Sessions \ {s}
  PROVE  Kept(t)'
<1> USE DEF Goto
<1>a. /\ flow \in [Sessions -> Flows] /\ id \in [Sessions -> Nat] /\ captures \in Nat
      /\ binary \in [Sessions -> {"native", "bundled"}] /\ faults \in Nat
      /\ result \in [Sessions -> [id : Nat, path : BOOLEAN, warned : BOOLEAN]]
  BY TypeParts, ProbeTypeParts DEF ChoiceOK, ResultOK, TallyOK
<1>1. /\ UNCHANGED place /\ flow'[t] = flow[t] /\ id'[t] = id[t]
      /\ binary'[t] = binary[t] /\ result'[t] = result[t]
  BY OtherFields
<1>2. faults' = 0 => faults = 0
  <2>1. faults' = faults \/ faults' = faults + 1
    <3>1. ASSUME ProbeStep(s) PROVE faults' = faults \/ faults' = faults + 1
      BY <3>1 DEF ProbeStep, TryWay, Create, TryFeature, SetupRaises, Flush,
             Delete, Ls, Cat, ModulesRaise, Runs, Fault, NoFault
    <3> QED
      BY <3>1 DEF Step, Start, BeginProbe, ProbeOn, ChooseTier, ResolveTcpdump, Launch, LaunchInVain,
             Stop, SignalInt, SignalKill, Signal, Terminate, Pull, FinishNflog, FinishSockDiag, Crash,
             Smooth, Mishap, Fails, Fault, probeVars
  <2> QED
    BY <2>1, <1>a
<1>3. \A w \in writers' : w.id = id[t] => w \in writers
  <2>1. CASE Launch(s)
    <3>1. id[s] # id[t]
      BY <2>1 DEF Launch, NumberInv
    <3> QED
      BY <2>1, <3>1 DEF Launch
  <2>2. CASE ~Launch(s)
    BY <2>2 DEF Step, Start, ProbeOn, flowVars, ChooseTier, ResolveTcpdump, LaunchInVain, Stop,
         SignalInt, SignalKill, Signal, Terminate, Pull, FinishNflog, FinishSockDiag, Crash, pcaps
  <2> QED
    BY <2>1, <2>2
<1>4. strategy'[t] = strategy[t]
  <2>1. strategy \in [Sessions -> Strategies]
    BY TypeParts, ProbeTypeParts DEF FieldsOK
  <2>2. ASSUME ProbeStep(s) PROVE strategy'[t] = strategy[t]
    BY <2>1, <2>2 DEF ProbeStep, TryWay, Create, TryFeature, SetupRaises, Flush, Delete, Ls, Cat,
           ModulesRaise
  <2> QED
    BY <2>1, <2>2 DEF Step, Start, BeginProbe, ProbeOn, ChooseTier, ResolveTcpdump, Launch,
           LaunchInVain, Stop, SignalInt, SignalKill, Signal, Terminate, Pull, FinishNflog,
           FinishSockDiag, Crash, Smooth, Mishap, Fails, probeVars
<1> QED
  BY <1>1, <1>2, <1>3, <1>4, KeptStays DEF WritersInv

LEMMA OwnKept ==
  ASSUME TypeOK, NumberInv, WritersInv, NEW s \in Sessions, Step(s)
  PROVE  Kept(s)'
<1> USE DEF Goto
<1>a. /\ flow \in [Sessions -> Flows] /\ id \in [Sessions -> Nat] /\ captures \in Nat
      /\ binary \in [Sessions -> {"native", "bundled"}] /\ faults \in Nat
      /\ result \in [Sessions -> [id : Nat, path : BOOLEAN, warned : BOOLEAN]]
  BY TypeParts, ProbeTypeParts DEF ChoiceOK, ResultOK, TallyOK
<1>b. Kept(s) /\ id[s] <= captures
  BY DEF WritersInv, NumberInv
<1>1. CASE Start(s)
  <2>1. id'[s] = captures + 1 /\ flow'[s] = "probe" /\ result' = result /\ writers' = writers
    BY <1>1, <1>a DEF Start, pcaps
  <2>2. Handle(s)' = {}
    BY <2>1, <1>a DEF Handle, WritersInv
  <2>3. result[s].id <= captures /\ result[s].id \in Nat
    BY <1>a, <1>b DEF Kept
  <2>4. result'[s].id # id'[s] /\ result'[s].id <= id'[s]
    BY <2>1, <2>3, <1>a
  <2> QED
    BY <2>2, <2>4 DEF Kept
<1>2. CASE ProbeOn(s) \/ ChooseTier(s)
  <2>1. /\ UNCHANGED <<id, binary, result, writers>>
        /\ flow[s] = "probe" /\ flow'[s] \in {"probe", "tcpdump"}
    BY <1>2, <1>a DEF ProbeOn, flowVars, ChooseTier, choice, pcaps
  <2> QED
    BY <2>1, <1>b DEF Kept, Handle, Through
<1>3. CASE ResolveTcpdump(s)
  <2>1. /\ UNCHANGED <<id, result, writers>>
        /\ flow[s] = "tcpdump" /\ flow'[s] \in {"launch", "idle"}
    BY <1>3, <1>a DEF ResolveTcpdump, pcaps
  <2>2. Handle(s)' = {}
    BY <2>1, <1>b DEF Kept, Handle
  <2> QED
    BY <2>1, <2>2, <1>b DEF Kept
<1>4. CASE Launch(s)
  <2>1. /\ UNCHANGED <<id, binary, result>> /\ flow[s] = "launch" /\ flow'[s] = "capturing"
        /\ writers' = writers \cup {[id |-> id[s], path |-> WriteTo(s), binary |-> binary[s]]}
    BY <1>4, <1>a DEF Launch, choice
  <2>2. \A w \in Handle(s)' : w.binary = binary[s]
    BY <2>1, <1>b DEF Kept, Handle
  <2>3. Elevated(s)'
    BY <1>4 DEF Launch, Elevated, probeVars, place
  <2> QED
    BY <2>1, <2>2, <2>3, <1>b DEF Kept, Through
<1>5. CASE LaunchInVain(s) \/ Stop(s)
  <2>1. /\ UNCHANGED <<id, binary, result, writers>>
        /\ \/ flow[s] = "launch" /\ flow'[s] = "capturing"
           \/ flow[s] = "capturing" /\ flow'[s] = "stopping"
    BY <1>5, <1>a DEF LaunchInVain, Stop, choice, pcaps
  <2>2. Elevated(s)' <=> Elevated(s)
    BY <1>5 DEF LaunchInVain, Stop, Mishap, Fails, Elevated, probeVars, place
  <2> QED
    BY <2>1, <2>2, <1>b DEF Kept, Handle, Through
<1>6. CASE SignalInt(s) \/ SignalKill(s)
  <2>1. /\ UNCHANGED <<id, binary, result>> /\ writers' \subseteq writers
        /\ flow[s] \in {"stopping", "killing"} /\ flow'[s] \in {"killing", "pull"}
    BY <1>6, <1>a DEF SignalInt, SignalKill, Signal, choice
  <2>2. faults' = 0 => writers' = writers \ Named(s) \/ (~Elevated(s) /\ writers' = writers)
    BY <1>6, <1>a DEF SignalInt, SignalKill, Signal, Mishap, Fails
  <2>3. Handle(s) \subseteq Named(s)
    BY <1>b DEF Kept, Named, Called, Handle
  <2>4. faults' = 0 => Handle(s)' = {}
    BY <2>1, <2>2, <2>3, <1>b DEF Handle, Kept
  <2>5. Elevated(s)' <=> Elevated(s)
    BY <1>6 DEF SignalInt, SignalKill, Signal, Smooth, Mishap, Fails, Elevated, probeVars, place
  <2> QED
    BY <2>1, <2>4, <2>5, <1>b DEF Kept, Handle, Unhindered
<1>7. CASE Terminate(s)
  <2>1. /\ UNCHANGED <<id, binary, result, place>> /\ writers' \subseteq writers
        /\ flow[s] = "stopping" /\ flow'[s] = "finish"
    BY <1>7, <1>a DEF Terminate, choice, probeVars
  <2>2. Unhindered' => Handle(s)' = {}
    BY <1>7, <2>1 DEF Terminate, Unhindered, Handle, android, place
  <2> QED
    BY <2>1, <2>2, <1>b DEF Kept, Handle
<1>8. CASE Pull(s)
  <2>1. /\ UNCHANGED <<id, binary, result, writers, place>> /\ flow[s] = "pull" /\ flow'[s] = "finish"
        /\ faults' = 0 => faults = 0
    BY <1>8, <1>a DEF Pull, choice, Smooth, Mishap, Fails, probeVars
  <2> QED
    BY <2>1, <1>b DEF Kept, Handle, Through, Unhindered, android, place
<1>9. CASE FinishNflog(s) \/ FinishSockDiag(s)
  <2>1. /\ UNCHANGED <<id, binary, writers, place>> /\ (faults' = 0 => faults = 0)
        /\ flow[s] = "finish" /\ flow'[s] = "idle" /\ result'[s].id = id[s]
    BY <1>9, <1>a DEF FinishNflog, FinishSockDiag, Returns, Smooth, Mishap, Fails, choice, pcaps,
                      probeVars
  <2>2. Unhindered' => Handle(s)' = {}
    BY <2>1, <1>b DEF Kept, Handle, Through, Unhindered, android, place
  <2> QED
    BY <2>1, <2>2, <1>a, <1>b DEF Kept, Handle
<1>10. CASE Crash(s)
  <2>1. UNCHANGED <<id, binary, result, writers>> /\ flow[s] # "idle" /\ flow'[s] = "idle"
    BY <1>10, <1>a DEF Crash, choice, pcaps
  <2>2. result'[s].id # id'[s] /\ ~Through(s)'
    BY <2>1, <1>b DEF Kept, Through
  <2> QED
    BY <2>1, <2>2, <1>b DEF Kept, Handle
<1> QED
  BY <1>1, <1>2, <1>3, <1>4, <1>5, <1>6, <1>7, <1>8, <1>9, <1>10 DEF Step

LEMMA WritersInvStep ==
  ASSUME TypeOK, NumberInv, WritersInv, [Next]_vars
  PROVE  WritersInv'
<1>1. ASSUME NEW s \in Sessions, Step(s) PROVE \A t \in Sessions : Kept(t)'
  BY <1>1, OthersKept, OwnKept
<1>2. CASE Record \/ Late \/ UNCHANGED vars
  <2>1. /\ UNCHANGED <<place, faults, strategy, flow, id, binary, result, captures>>
        /\ writers' \subseteq writers
    BY <1>2, LateFrame DEF Record, vars, flowVars, choice, pcaps, probeVars
  <2> QED
    BY <2>1, KeptStays DEF WritersInv
<1>3. \A w \in writers' : w.id # 0 /\ w.id <= captures'
  <2>1. id \in [Sessions -> Nat] /\ captures \in Nat /\ (\A w \in writers : w.id \in Nat)
    BY TypeParts DEF ChoiceOK, PcapsOK
  <2>2. captures' \in {captures, captures + 1}
    BY DEF Next, Step, Record, Start, ProbeOn, flowVars, ChooseTier, ResolveTcpdump, Launch,
           LaunchInVain, Stop, SignalInt, SignalKill, Signal, Terminate, Pull, FinishNflog,
           FinishSockDiag, Crash, Late, RunLate, SignalLate, choice, vars
  <2>3. ASSUME NEW w \in writers', w \notin writers PROVE w.id # 0 /\ w.id <= captures /\ w.id \in Nat
    <3>1. PICK s \in Sessions : Launch(s)
      BY <2>3 DEF Next, Step, Record, Start, ProbeOn, flowVars, ChooseTier, ResolveTcpdump,
             LaunchInVain, Stop, SignalInt, SignalKill, Signal, Terminate, Pull, FinishNflog,
             FinishSockDiag, Crash, Late, RunLate, SignalLate, pcaps, vars
    <3>2. w.id = id[s] /\ flow[s] = "launch"
      BY <2>3, <3>1 DEF Launch
    <3> QED
      BY <2>1, <3>2 DEF NumberInv
  <2>4. ASSUME NEW w \in writers' PROVE w.id # 0 /\ w.id <= captures /\ w.id \in Nat
    <3>1. CASE w \in writers
      BY <2>1, <3>1 DEF WritersInv
    <3>2. CASE w \notin writers
      BY <2>1, <2>3, <2>4, <3>2
    <3> QED
      BY <3>1, <3>2
  <2>5. captures <= captures' /\ captures' \in Nat
    BY <2>1, <2>2
  <2> QED
    BY <2>1, <2>4, <2>5
<1> QED
  BY <1>1, <1>2, <1>3 DEF WritersInv, Next

(* A session that is through leaves no tcpdump, when no command failed and *)
(* the stop could reach it.                                                *)
THEOREM StopsReach == Spec => []StoppedCapturesEnd
<1>1. Init => NumberInv /\ WritersInv
  BY DEF Init, ProbeInit, NumberInv, WritersInv, Kept, Handle, NoResult
<1>2. TypeOK /\ NumberInv /\ WritersInv /\ [Next]_vars => NumberInv' /\ WritersInv'
  BY NumberInvStep, WritersInvStep
<1>3. WritersInv => StoppedCapturesEnd
  BY DEF WritersInv, Kept, Unhindered, Through, StoppedCapturesEnd
<1> QED
  BY <1>1, <1>2, <1>3, TypeCorrect, PTL DEF Spec

------------------------------------------------------------------------------
(* Whose packets a pcap holds, from the launch to the result.              *)
Past(s) ==
  \/ flow[s] \in {"capturing", "stopping", "killing", "pull", "finish"}
  \/ flow[s] = "idle" /\ result[s].id = id[s]

Whole(s, path) == file[path].exists /\ ~file[path].torn /\ file[path].of = {id[s]} \cap recorded

(* Its packets are in the file they are written to until that is fetched,  *)
(* then where it was fetched to, and in the output when stop() returns.    *)
HasItsOwn(s) ==
  /\ flow[s] \in {"capturing", "stopping", "killing", "pull"} => Whole(s, WriteTo(s))
  /\ flow[s] = "finish" => Whole(s, Fetched(s))
  /\ flow[s] = "idle" /\ Handle(s) = {} => result[s].path /\ Whole(s, Output(s))

Undisturbed(s) ==
  own[s] /\ Past(s) =>
    /\ \A w \in writers : w.id = id[s] <=> w.path = WriteTo(s)
    /\ \A w \in writers : w.path = Output(s) => w.id = id[s]
    /\ android /\ flow[s] \in {"killing", "pull", "finish", "idle"} => Handle(s) = {}
    /\ HasItsOwn(s)

(* On Android all write to the device; who has recorded was launched.      *)
RecordInv ==
  /\ android => \A w \in writers : \E t \in {"NFLOG", "SOCKDIAG"} : w.path = Device(t)
  /\ \A n \in recorded : n <= captures
  /\ \A s \in Sessions : flow[s] \in {"probe", "tcpdump", "launch"} => id[s] \notin recorded
  /\ \A s \in Sessions : flow[s] = "pull" => android

LEMMA PathsDiffer ==
  ASSUME NEW s \in Sessions, NEW t \in Sessions
  PROVE  /\ Output(s) # Temp(t)
         /\ \A x : Device(x) # Output(t) /\ Device(x) # Temp(t)
         /\ s # t => Output(s) # Output(t) /\ Temp(s) # Temp(t)
<1>1. "device" # "temp" /\ "device" # "output" /\ "temp" # "output"
  OBVIOUS
<1> QED
  BY <1>1 DEF Device, Output, Temp

(* What a session writes is its own, or the device's.                      *)
LEMMA ForeignPaths ==
  ASSUME NEW s \in Sessions, NEW t \in Sessions \ {s}
  PROVE  /\ WriteTo(s) \notin {Output(t), Temp(t)}
         /\ Fetched(s) \notin {WriteTo(t), Output(t), Temp(t)}
         /\ Output(s) \notin {WriteTo(t), Output(t), Temp(t)}
<1>1. WriteTo(s) \in {Device(tier[s]), Output(s), Temp(s)}
  BY DEF WriteTo
<1>2. WriteTo(t) \in {Device(tier[t]), Output(t), Temp(t)}
  BY DEF WriteTo
<1>3. Fetched(s) \in {Output(s), Temp(s)}
  BY DEF Fetched
<1> QED
  BY <1>1, <1>2, <1>3, PathsDiffer

LEMMA RecordInvStep ==
  ASSUME TypeOK, NumberInv, WritersInv, RecordInv, [Next]_vars
  PROVE  RecordInv'
<1> USE DEF Goto, android
<1>a. /\ flow \in [Sessions -> Flows] /\ id \in [Sessions -> Nat] /\ captures \in Nat
      /\ tier \in [Sessions -> {"NFLOG", "SOCKDIAG"}] /\ recorded \subseteq Nat
  BY TypeParts DEF ChoiceOK, PcapsOK
<1>b. \A n \in recorded : n <= captures /\ n \in Nat
  BY <1>a DEF RecordInv
<1>1. ASSUME NEW s \in Sessions, Start(s) PROVE RecordInv'
  <2>1. UNCHANGED <<executor, writers, recorded>> /\ captures' = captures + 1
        /\ id' = [id EXCEPT ![s] = captures + 1] /\ flow' = [flow EXCEPT ![s] = "probe"]
    BY <1>1 DEF Start, BeginProbe, place, pcaps
  <2>2. captures + 1 \notin recorded /\ \A n \in recorded : n <= captures + 1
    BY <1>a, <1>b
  <2> QED
    BY <2>1, <2>2, <1>a DEF RecordInv
<1>2. ASSUME NEW s \in Sessions, ProbeOn(s) PROVE RecordInv'
  <2>1. UNCHANGED <<executor, writers, recorded, captures, id, flow>>
    BY <1>2 DEF ProbeOn, flowVars, choice, pcaps, ProbeStep, TryWay, Create, TryFeature, SetupRaises,
                Flush, Delete, Ls, Cat, ModulesRaise, place
  <2> QED
    BY <2>1 DEF RecordInv
<1>3. ASSUME NEW s \in Sessions, Launch(s) PROVE RecordInv'
  <2>1. UNCHANGED <<executor, recorded, captures, id>> /\ flow' = [flow EXCEPT ![s] = "capturing"]
        /\ writers' = writers \cup {[id |-> id[s], path |-> WriteTo(s), binary |-> binary[s]]}
    BY <1>3 DEF Launch, choice, probeVars, place
  <2>2. android => \E t \in {"NFLOG", "SOCKDIAG"} : WriteTo(s) = Device(t)
    BY <1>a DEF WriteTo
  <2>3. android' => \A w \in writers' : \E t \in {"NFLOG", "SOCKDIAG"} : w.path = Device(t)
    BY <2>1, <2>2 DEF RecordInv
  <2>4. \A t \in Sessions : flow'[t] \in {"probe", "tcpdump", "launch", "pull"} => flow'[t] = flow[t]
    BY <2>1, <1>a
  <2> QED
    BY <2>1, <2>3, <2>4 DEF RecordInv, Device
<1>4. ASSUME NEW s \in Sessions,
             \/ ChooseTier(s) \/ ResolveTcpdump(s) \/ LaunchInVain(s) \/ Stop(s)
             \/ SignalInt(s) \/ SignalKill(s) \/ Terminate(s) \/ Pull(s)
             \/ FinishNflog(s) \/ FinishSockDiag(s) \/ Crash(s)
      PROVE  RecordInv'
  <2>1. UNCHANGED <<executor, recorded, captures, id>> /\ writers' \subseteq writers
    BY <1>4 DEF ChooseTier, ResolveTcpdump, LaunchInVain, Stop, SignalInt, SignalKill, Signal,
                Terminate, Pull, FinishNflog, FinishSockDiag, Crash, Smooth, Mishap, Fails, probeVars,
                place, choice, pcaps
  <2>2. \E step \in Flows :
          /\ flow' = [flow EXCEPT ![s] = step]
          /\ step \in {"probe", "tcpdump", "launch"} => flow[s] \in {"probe", "tcpdump"}
          /\ step = "pull" => flow[s] = "killing"
    BY <1>4 DEF Flows, ChooseTier, ResolveTcpdump, LaunchInVain, Stop, SignalInt, SignalKill, Signal,
                Terminate, Pull, FinishNflog, FinishSockDiag, Returns, Crash
  <2> QED
    BY <2>1, <2>2, <1>a DEF RecordInv, NumberInv
<1>5. CASE Record
  <2>1. PICK w \in writers : recorded' = recorded \cup {w.id}
    BY <1>5 DEF Record
  <2>2. UNCHANGED <<executor, writers, captures, id, flow>>
    BY <1>5 DEF Record, probeVars, place, choice
  <2>3. w.id <= captures
    BY DEF WritersInv
  <2>4. \A s \in Sessions : flow[s] \in {"probe", "tcpdump", "launch"} => id[s] # w.id
    BY DEF WritersInv, Kept, Handle
  <2> QED
    BY <2>1, <2>2, <2>3, <2>4 DEF RecordInv
<1>6. CASE Late \/ UNCHANGED vars
  <2>1. /\ UNCHANGED <<executor, recorded, captures, id, flow>>
        /\ writers' \subseteq writers
    BY <1>6, LateFrame DEF vars, flowVars, choice, pcaps, probeVars, place
  <2> QED
    BY <2>1 DEF RecordInv
<1> QED
  BY <1>1, <1>2, <1>3, <1>4, <1>5, <1>6 DEF Next, Step

(* A step of another session leaves the pcap alone, or disturbs it.        *)
LEMMA UndisturbedStays ==
  ASSUME NEW t \in Sessions, Undisturbed(t), UNCHANGED <<place, recorded>>,
         flow'[t] = flow[t], id'[t] = id[t], tier'[t] = tier[t], result'[t] = result[t],
         own'[t] =>
           /\ own[t]
           /\ \A p \in {WriteTo(t), Output(t), Temp(t)} : file'[p] = file[p]
           /\ \A w \in writers' :
                w \in writers \/ (w.id # id[t] /\ w.path \notin {WriteTo(t), Output(t)}),
         android \/ Handle(t) \subseteq writers'
  PROVE  Undisturbed(t)'
<1>1. SUFFICES ASSUME own'[t], Past(t)' PROVE Undisturbed(t)'
  BY DEF Undisturbed
<1>2. Past(t) /\ own[t]
  BY <1>1 DEF Past
<1>3. /\ WriteTo(t)' = WriteTo(t) /\ Output(t)' = Output(t) /\ Fetched(t)' = Fetched(t)
      /\ android' = android
  BY DEF WriteTo, Output, Temp, Device, Fetched, android, place
<1>4. \A p \in {WriteTo(t), Output(t), Fetched(t)} : Whole(t, p) => Whole(t, p)'
  BY <1>1 DEF Whole, Fetched
<1>5. Handle(t)' \subseteq Handle(t) /\ (~android => Handle(t)' = Handle(t))
  BY <1>1 DEF Handle
<1>6. /\ \A w \in writers : w.id = id[t] <=> w.path = WriteTo(t)
      /\ \A w \in writers : w.path = Output(t) => w.id = id[t]
      /\ android /\ flow[t] \in {"killing", "pull", "finish", "idle"} => Handle(t) = {}
      /\ HasItsOwn(t)
  BY <1>2 DEF Undisturbed
<1>7. /\ \A w \in writers' : w.id = id'[t] <=> w.path = WriteTo(t)'
      /\ \A w \in writers' : w.path = Output(t)' => w.id = id'[t]
  BY <1>1, <1>3, <1>6
<1>8. android' /\ flow'[t] \in {"killing", "pull", "finish", "idle"} => Handle(t)' = {}
  BY <1>3, <1>5, <1>6
<1>9. HasItsOwn(t)'
  <2>1. flow[t] = "idle" /\ Handle(t)' = {} => Handle(t) = {}
    BY <1>5, <1>6
  <2> QED
    BY <2>1, <1>3, <1>4, <1>6 DEF HasItsOwn
<1> QED
  BY <1>7, <1>8, <1>9 DEF Undisturbed

LEMMA OthersUndisturbed ==
  ASSUME TypeOK, NumberInv, WritersInv, NEW s \in Sessions, Step(s),
         NEW t \in Sessions \ {s}, Undisturbed(t)
  PROVE  Undisturbed(t)'
<1>a. file \in [Paths -> [exists : BOOLEAN, of : SUBSET Nat, torn : BOOLEAN]]
      /\ own \in [Sessions -> BOOLEAN]
  BY TypeParts DEF PcapsOK, HistoryOK
<1>1. /\ UNCHANGED place /\ flow'[t] = flow[t] /\ id'[t] = id[t]
      /\ tier'[t] = tier[t] /\ result'[t] = result[t]
  BY OtherFields
<1>2. recorded' = recorded
  BY DEF Step, Start, ProbeOn, flowVars, ChooseTier, ResolveTcpdump, Launch, LaunchInVain, Stop,
         SignalInt, SignalKill, Signal, Terminate, Pull, FinishNflog, FinishSockDiag, Crash, pcaps
<1>3. ASSUME own'[t]
      PROVE  /\ own[t]
             /\ \A p \in {WriteTo(t), Output(t), Temp(t)} : file'[p] = file[p]
             /\ \A w \in writers' :
                  w \in writers \/ (w.id # id[t] /\ w.path \notin {WriteTo(t), Output(t)})
  <2>1. WriteTo(t) \in Paths /\ Output(t) \in Paths /\ Temp(t) \in Paths
    BY PathsAre, TypeParts
  <2>2. CASE Launch(s)
    <3>1. own[t] /\ WriteTo(s) \notin {WriteTo(t), Output(t), Temp(t)}
      BY <1>3, <2>2, ForeignPaths DEF Launch
    <3>2. \A p \in {WriteTo(t), Output(t), Temp(t)} : file'[p] = file[p]
      BY <2>1, <2>2, <3>1, <1>a DEF Launch
    <3>3. \A w \in writers' : w \in writers \/ (w.id = id[s] /\ w.path = WriteTo(s))
      BY <2>2 DEF Launch
    <3>4. id[s] # id[t]
      BY <2>2 DEF Launch, NumberInv
    <3> QED
      BY <3>1, <3>2, <3>3, <3>4
  <2>3. CASE ~Launch(s)
    <3>1. own[t] /\ writers' \subseteq writers
      BY <1>3, <1>a, <2>3 DEF Step, Start, ProbeOn, flowVars, ChooseTier, ResolveTcpdump, LaunchInVain,
             Stop, SignalInt, SignalKill, Signal, Terminate, Pull, FinishNflog, FinishSockDiag, Crash,
             Smooth, Mishap, Fails, pcaps, history
    <3>2. \/ file' = file
          \/ file' = [file EXCEPT ![Fetched(s)] = file[Device(tier[s])]]
          \/ file' = [file EXCEPT ![Output(s)] = file[Temp(s)]]
      BY <2>3 DEF Step, Start, ProbeOn, flowVars, ChooseTier, ResolveTcpdump, LaunchInVain,
             Stop, SignalInt, SignalKill, Signal, Terminate, Pull, FinishNflog, FinishSockDiag, Crash,
             pcaps
    <3> QED
      BY <3>1, <3>2, <2>1, <1>a, ForeignPaths
  <2> QED
    BY <2>2, <2>3
<1>4. android \/ Handle(t) \subseteq writers'
  <2>1. CASE SignalInt(s) \/ SignalKill(s)
    BY <2>1 DEF SignalInt, SignalKill, NumberInv
  <2>2. CASE Terminate(s)
    <3>1. \A w \in Handle(t) : w \in writers /\ w.id = id[t] /\ w.id # 0
      BY DEF Handle, WritersInv
    <3>2. \A w \in Handle(t) : w \notin Handle(s)
      BY <3>1 DEF Handle, NumberInv
    <3> QED
      BY <2>2, <3>1, <3>2 DEF Terminate
  <2>3. CASE ~(SignalInt(s) \/ SignalKill(s) \/ Terminate(s))
    BY <2>3 DEF Step, Start, ProbeOn, flowVars, ChooseTier, ResolveTcpdump, Launch, LaunchInVain,
         Stop, Pull, FinishNflog, FinishSockDiag, Crash, pcaps, Handle
  <2> QED
    BY <2>1, <2>2, <2>3
<1> QED
  BY <1>1, <1>2, <1>3, <1>4, UndisturbedStays

LEMMA OwnUndisturbed ==
  ASSUME TypeOK, NumberInv, WritersInv, RecordInv, NEW s \in Sessions, Step(s), Undisturbed(s)
  PROVE  Undisturbed(s)'
<1> USE DEF Goto
<1>a. /\ file \in [Paths -> [exists : BOOLEAN, of : SUBSET Nat, torn : BOOLEAN]]
      /\ own \in [Sessions -> BOOLEAN] /\ flow \in [Sessions -> Flows]
      /\ result \in [Sessions -> [id : Nat, path : BOOLEAN, warned : BOOLEAN]]
      /\ tier \in [Sessions -> {"NFLOG", "SOCKDIAG"}]
  BY TypeParts DEF ChoiceOK, PcapsOK, ResultOK, HistoryOK
<1>b. WriteTo(s) \in Paths /\ Output(s) \in Paths /\ Temp(s) \in Paths /\ Fetched(s) \in Paths
  BY PathsAre, TypeParts
<1>c. Kept(s)
  BY DEF WritersInv
<1>d. SUFFICES ASSUME own'[s], Past(s)' PROVE Undisturbed(s)'
  BY DEF Undisturbed
<1>1. CASE \/ Start(s) \/ ProbeOn(s) \/ ChooseTier(s) \/ ResolveTcpdump(s) \/ LaunchInVain(s) \/ Crash(s)
  <2>1. CASE LaunchInVain(s) \/ Crash(s)
    BY <1>d, <1>a, <2>1 DEF LaunchInVain, Crash, Mishap, Fails
  <2>2. CASE Start(s) \/ ProbeOn(s) \/ ChooseTier(s)
    BY <1>d, <1>a, <2>2 DEF Start, ProbeOn, ChooseTier, flowVars, Past
  <2>3. CASE ResolveTcpdump(s)
    <3>1. flow'[s] \in {"launch", "idle"} /\ flow[s] = "tcpdump" /\ UNCHANGED <<id, result>>
      BY <1>a, <2>3 DEF ResolveTcpdump
    <3> QED
      BY <1>c, <1>d, <3>1 DEF Past, Kept
  <2> QED
    BY <1>1, <2>1, <2>2, <2>3
<1>2. CASE Launch(s)
  <2>1. /\ UNCHANGED <<place, id, tier, recorded>>
        /\ writers' = writers \cup {[id |-> id[s], path |-> WriteTo(s), binary |-> binary[s]]}
        /\ flow[s] = "launch" /\ flow'[s] = "capturing"
    BY <1>2, <1>a DEF Launch, choice, probeVars
  <2>2. WritersOf(WriteTo(s)) = {} /\ WritersOf(Output(s)) = {}
    BY <1>2, <1>a, <1>d DEF Launch
  <2>3. /\ file'[WriteTo(s)].exists /\ ~file'[WriteTo(s)].torn
        /\ file'[WriteTo(s)].of = {}
    BY <1>2, <1>a, <1>b, <2>2 DEF Launch
  <2>4. WriteTo(s)' = WriteTo(s) /\ Output(s)' = Output(s)
    BY <2>1 DEF WriteTo, Output, Temp, Device, android, place
  <2>5. id[s] \notin recorded /\ Handle(s) = {}
    BY <1>c, <2>1 DEF RecordInv, Kept
  <2>6. /\ \A w \in writers' : w.id = id'[s] <=> w.path = WriteTo(s)
        /\ \A w \in writers' : w.path = Output(s) => w.id = id'[s]
    BY <2>1, <2>2, <2>5 DEF WritersOf, Handle
  <2>7. HasItsOwn(s)'
    BY <2>1, <2>3, <2>4, <2>5 DEF HasItsOwn, Whole
  <2> QED
    BY <2>1, <2>4, <2>6, <2>7 DEF Undisturbed
<1>3. CASE Stop(s) \/ SignalInt(s) \/ SignalKill(s) \/ Terminate(s)
  <2>1. /\ UNCHANGED <<place, strategy, id, tier, recorded, file>> /\ writers' \subseteq writers
        /\ own[s] /\ flow[s] \in {"capturing", "stopping", "killing"}
        /\ flow'[s] \in {"stopping", "killing", "pull", "finish"}
    BY <1>3, <1>a, <1>d DEF Stop, SignalInt, SignalKill, Signal, Terminate, Smooth, Mishap, Fails, choice,
           pcaps, history, probeVars
  <2>2. /\ WriteTo(s)' = WriteTo(s) /\ Output(s)' = Output(s) /\ Fetched(s)' = Fetched(s)
        /\ android' = android
    BY <2>1 DEF WriteTo, Output, Temp, Device, Fetched, android, place
  <2>3. /\ \A w \in writers : w.id = id[s] <=> w.path = WriteTo(s)
        /\ \A w \in writers : w.path = Output(s) => w.id = id[s]
        /\ Whole(s, WriteTo(s))
        /\ android /\ flow[s] = "killing" => Handle(s) = {}
    BY <2>1 DEF Undisturbed, Past, HasItsOwn
  <2>4. Whole(s, WriteTo(s))'
    BY <2>1, <2>2, <2>3 DEF Whole
  <2>5. flow'[s] = "finish" => ~android
    BY <1>3, <1>a DEF Stop, SignalInt, SignalKill, Signal, Terminate
  <2>6. ~android => Fetched(s) = WriteTo(s)
    BY DEF Fetched, WriteTo
  <2>7. HasItsOwn(s)'
    BY <2>1, <2>2, <2>4, <2>5, <2>6 DEF HasItsOwn
  <2>8. android /\ flow'[s] \in {"killing", "pull"} => Handle(s)' = {}
    <3>1. CASE SignalInt(s)
      <4>1. writers' = writers \ Named(s) \/ ~Elevated(s)
        BY <1>a, <1>d, <3>1 DEF SignalInt, Signal, Mishap, Fails
      <4>2. Handle(s) \subseteq Named(s)
        BY <1>c DEF Kept, Named, Called, Handle
      <4>3. ~Elevated(s) => Handle(s) = {}
        BY <1>c, <3>1 DEF SignalInt, Kept
      <4> QED
        BY <2>1, <4>1, <4>2, <4>3 DEF Handle
    <3>2. CASE SignalKill(s)
      BY <2>1, <2>3, <3>2 DEF SignalKill, Handle
    <3>3. CASE Stop(s) \/ Terminate(s)
      BY <1>a, <3>3 DEF Stop, Terminate
    <3> QED
      BY <1>3, <3>1, <3>2, <3>3
  <2> QED
    BY <2>1, <2>2, <2>3, <2>5, <2>7, <2>8 DEF Undisturbed
<1>4. CASE Pull(s)
  <2>1. /\ UNCHANGED <<place, id, tier, recorded, writers>> /\ android
        /\ own[s] /\ flow[s] = "pull" /\ flow'[s] = "finish"
    BY <1>4, <1>a, <1>d DEF Pull, Smooth, Mishap, Fails, choice, probeVars, RecordInv
  <2>2. /\ WriteTo(s)' = WriteTo(s) /\ Output(s)' = Output(s) /\ Fetched(s)' = Fetched(s)
        /\ android' = android /\ WriteTo(s) = Device(tier[s])
    BY <2>1 DEF WriteTo, Output, Temp, Device, Fetched, android, place
  <2>3. /\ \A w \in writers : w.id = id[s] <=> w.path = WriteTo(s)
        /\ \A w \in writers : w.path = Output(s) => w.id = id[s]
        /\ Whole(s, WriteTo(s)) /\ Handle(s) = {}
    BY <2>1 DEF Undisturbed, Past, HasItsOwn
  <2>4. file' = [file EXCEPT ![Fetched(s)] = file[WriteTo(s)]]
    BY <1>4, <1>a, <1>d, <2>2, <2>3 DEF Pull, Mishap, Fails, Whole
  <2>5. Whole(s, Fetched(s))'
    BY <1>a, <1>b, <2>1, <2>2, <2>3, <2>4 DEF Whole
  <2>6. HasItsOwn(s)' /\ Handle(s)' = {}
    BY <2>1, <2>2, <2>3, <2>5 DEF HasItsOwn, Handle
  <2> QED
    BY <2>1, <2>2, <2>3, <2>6 DEF Undisturbed
<1>5. CASE FinishNflog(s) \/ FinishSockDiag(s)
  <2>1. /\ UNCHANGED <<place, id, tier, recorded, writers>>
        /\ own[s] /\ flow[s] = "finish" /\ flow'[s] = "idle"
    BY <1>5, <1>a, <1>d DEF FinishNflog, FinishSockDiag, Returns, Smooth, Mishap, Fails, choice, pcaps,
           history, probeVars
  <2>2. /\ WriteTo(s)' = WriteTo(s) /\ Output(s)' = Output(s) /\ android' = android
    BY <2>1 DEF WriteTo, Output, Temp, Device, android, place
  <2>3. /\ \A w \in writers : w.id = id[s] <=> w.path = WriteTo(s)
        /\ \A w \in writers : w.path = Output(s) => w.id = id[s]
        /\ Whole(s, Fetched(s))
        /\ android => Handle(s) = {}
    BY <2>1 DEF Undisturbed, Past, HasItsOwn
  <2>4. result'[s].path /\ Whole(s, Output(s))'
    <3>1. CASE FinishNflog(s)
      <4>1. Fetched(s) = Output(s) /\ file' = file
        BY <3>1 DEF FinishNflog, Fetched, pcaps
      <4>2. result'[s].path
        BY <1>a, <3>1 DEF FinishNflog, Returns
      <4> QED
        BY <2>1, <2>2, <2>3, <4>1, <4>2 DEF Whole
    <3>2. CASE FinishSockDiag(s)
      <4>1. Fetched(s) = Temp(s)
        BY <3>2 DEF FinishSockDiag, Fetched
      <4>2. file' = [file EXCEPT ![Output(s)] = file[Temp(s)]] /\ result'[s].path
        BY <1>a, <1>d, <2>3, <3>2, <4>1 DEF FinishSockDiag, Returns, Whole, Mishap, Fails
      <4> QED
        BY <1>a, <1>b, <2>1, <2>2, <2>3, <4>1, <4>2 DEF Whole
    <3> QED
      BY <1>5, <3>1, <3>2
  <2>5. HasItsOwn(s)' /\ (android => Handle(s)' = {})
    BY <2>1, <2>3, <2>4 DEF HasItsOwn, Handle
  <2> QED
    BY <2>1, <2>2, <2>3, <2>5 DEF Undisturbed
<1> QED
  BY <1>1, <1>2, <1>3, <1>4, <1>5 DEF Step

LEMMA RecordUndisturbed ==
  ASSUME TypeOK, RecordInv, Record, NEW s \in Sessions, Undisturbed(s)
  PROVE  Undisturbed(s)'
<1>a. /\ file \in [Paths -> [exists : BOOLEAN, of : SUBSET Nat, torn : BOOLEAN]]
      /\ tier \in [Sessions -> {"NFLOG", "SOCKDIAG"}]
      /\ writers \subseteq [id : Nat, path : Paths, binary : {"native", "bundled"}]
  BY TypeParts DEF ChoiceOK, PcapsOK
<1>b. WriteTo(s) \in Paths /\ Output(s) \in Paths /\ Temp(s) \in Paths /\ Fetched(s) \in Paths
  BY PathsAre, TypeParts
<1>1. SUFFICES ASSUME own'[s], Past(s)' PROVE Undisturbed(s)'
  BY DEF Undisturbed
<1>2. PICK w \in writers : /\ file' = [file EXCEPT ![w.path].of = @ \cup {w.id}]
                           /\ recorded' = recorded \cup {w.id}
  BY DEF Record
<1>3. UNCHANGED <<place, flow, id, tier, result, own, writers>>
  BY DEF Record, choice, history, probeVars
<1>4. /\ WriteTo(s)' = WriteTo(s) /\ Output(s)' = Output(s) /\ Fetched(s)' = Fetched(s)
      /\ android' = android /\ Handle(s)' = Handle(s)
  BY <1>3 DEF WriteTo, Output, Temp, Device, Fetched, Handle, android, place
<1>5. /\ \A v \in writers : v.id = id[s] <=> v.path = WriteTo(s)
      /\ \A v \in writers : v.path = Output(s) => v.id = id[s]
      /\ android /\ flow[s] \in {"killing", "pull", "finish", "idle"} => Handle(s) = {}
      /\ HasItsOwn(s)
  BY <1>1, <1>3 DEF Undisturbed, Past
<1>6. ASSUME NEW p \in Paths, Whole(s, p), w.id = id[s] <=> w.path = p
      PROVE  Whole(s, p)'
  <2>1. CASE w.path = p
    BY <1>2, <1>3, <1>6, <1>a, <2>1 DEF Whole
  <2>2. CASE w.path # p
    <3>1. file'[p] = file[p]
      BY <1>2, <1>6, <1>a, <2>2
    <3>2. {id[s]} \cap recorded' = {id[s]} \cap recorded
      BY <1>2, <1>6, <2>2
    <3> QED
      BY <1>3, <1>6, <3>1, <3>2 DEF Whole
  <2> QED
    BY <2>1, <2>2
<1>7. Whole(s, WriteTo(s)) => Whole(s, WriteTo(s))'
  BY <1>4, <1>5, <1>6, <1>b
<1>8. flow[s] = "finish" /\ Whole(s, Fetched(s)) => Whole(s, Fetched(s))'
  <2>1. CASE android
    <3>1. w.id # id[s] \/ flow[s] # "finish"
      BY <1>5, <2>1 DEF Handle
    <3>2. w.path # Fetched(s)
      BY <2>1, PathsDiffer DEF RecordInv, Fetched
    <3> QED
      BY <3>1, <3>2, <1>4, <1>6, <1>b
  <2>2. CASE ~android
    <3>1. Fetched(s) = WriteTo(s)
      BY <2>2 DEF Fetched, WriteTo
    <3> QED
      BY <3>1, <1>4, <1>7
  <2> QED
    BY <2>1, <2>2
<1>9. Handle(s) = {} /\ Whole(s, Output(s)) => Whole(s, Output(s))'
  <2>1. Handle(s) = {} => w.id # id[s] /\ w.path # Output(s)
    BY <1>5 DEF Handle
  <2> QED
    BY <2>1, <1>4, <1>6, <1>b
<1>10. HasItsOwn(s)'
  BY <1>3, <1>4, <1>5, <1>7, <1>8, <1>9 DEF HasItsOwn
<1> QED
  BY <1>3, <1>4, <1>5, <1>10 DEF Undisturbed

(* Whatever lay on the device, beside the output and in it: the pcap of a  *)
(* capture that nothing disturbed holds what its own tcpdump recorded.     *)
THEOREM UndisturbedPcaps == Spec => []UndisturbedPcapIsOwn
<1> DEFINE FileInv == RecordInv /\ \A s \in Sessions : Undisturbed(s)
<1>1. Init => NumberInv /\ WritersInv /\ FileInv
  BY DEF Init, ProbeInit, NumberInv, WritersInv, Kept, Handle, NoResult, RecordInv, Undisturbed
<1>2. ASSUME TypeOK, NumberInv, WritersInv, FileInv, [Next]_vars
      PROVE  NumberInv' /\ WritersInv' /\ FileInv'
  <2>1. NumberInv' /\ WritersInv' /\ RecordInv'
    BY <1>2, NumberInvStep, WritersInvStep, RecordInvStep
  <2>2. ASSUME NEW s \in Sessions, Step(s), NEW t \in Sessions PROVE Undisturbed(t)'
    BY <1>2, <2>2, OthersUndisturbed, OwnUndisturbed
  <2>3. ASSUME Record, NEW t \in Sessions PROVE Undisturbed(t)'
    BY <1>2, <2>3, RecordUndisturbed
  <2>4. ASSUME UNCHANGED vars, NEW t \in Sessions PROVE Undisturbed(t)'
    <3>1. UNCHANGED <<place, flow, id, tier, result, own, writers, file, recorded>>
      BY <2>4 DEF vars, flowVars, choice, pcaps, history, probeVars
    <3> QED
      BY <1>2, <3>1, UndisturbedStays DEF Handle
  <2>5. ASSUME Late, NEW t \in Sessions PROVE Undisturbed(t)'
    <3>1. UNCHANGED <<place, flow, id, tier, result, own, file, recorded>>
      BY <2>5, LateFrame DEF choice
    <3>2. writers' \subseteq writers /\ (android \/ writers' = writers)
      BY <1>2, <2>5, LateFrame DEF NumberInv
    <3> QED
      BY <1>2, <3>1, <3>2, UndisturbedStays DEF Handle
  <2> QED
    BY <1>2, <2>1, <2>2, <2>3, <2>4, <2>5 DEF Next
<1>3. FileInv => UndisturbedPcapIsOwn
  BY DEF UndisturbedPcapIsOwn, Undisturbed, Past, HasItsOwn, Whole
<1> HIDE DEF FileInv
<1> QED
  BY <1>1, <1>2, <1>3, TypeCorrect, PTL DEF Spec
==============================================================================
