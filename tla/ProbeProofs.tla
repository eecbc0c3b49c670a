------------------------------ MODULE ProbeProofs ------------------------------
(***************************************************************************)
(* Proofs about the chain that all probes share: whoever else uses it and  *)
(* whatever an earlier probe left in it, it is gone in the end, and a      *)
(* probe that nothing disturbed is exact.                                  *)
(***************************************************************************)
EXTENDS SharedTargetProofs

(* Of the session variables, only these steps touch the probe's.           *)
LEMMA ProbeFrame ==
  ASSUME [Next]_vars
  PROVE  \/ \E s \in Sessions : BeginProbe(s) \/ ProbeStep(s) \/ Crash(s)
         \/ RunLate
         \/ UNCHANGED <<place, strategy, probing, raising, caps, chain, clean, messy>>
<1> DEFINE Same == UNCHANGED <<place, strategy, probing, raising, caps, chain, clean, messy>>
<1>1. ASSUME NEW s \in Sessions, Start(s) PROVE BeginProbe(s)
  BY <1>1 DEF Start
<1>2. ASSUME NEW s \in Sessions, ProbeOn(s) PROVE ProbeStep(s)
  BY <1>2 DEF ProbeOn
<1>3. ASSUME NEW s \in Sessions,
             \/ ChooseTier(s) \/ ResolveTcpdump(s) \/ Launch(s) \/ LaunchInVain(s) \/ Stop(s)
             \/ SignalInt(s) \/ SignalKill(s) \/ Terminate(s) \/ Pull(s)
             \/ FinishNflog(s) \/ FinishSockDiag(s)
      PROVE  Same
  BY <1>3 DEF ChooseTier, ResolveTcpdump, Launch, LaunchInVain, Stop, SignalInt, SignalKill, Signal,
              Terminate, Pull, FinishNflog, FinishSockDiag, Smooth, Mishap, Fails, probeVars
<1>4. CASE Record \/ SignalLate \/ UNCHANGED vars
  BY <1>4 DEF Record, SignalLate, vars, probeVars
<1> HIDE DEF Same
<1>5. CASE \E s \in Sessions : Step(s)
  <2>1. PICK s \in Sessions : Step(s)
    BY <1>5
  <2>2. Same \/ BeginProbe(s) \/ ProbeStep(s) \/ Crash(s)
    BY <2>1, <1>1, <1>2, <1>3 DEF Step
  <2> QED
    BY <2>2 DEF Same
<1>6. CASE Same
  BY <1>6 DEF Same
<1> QED
  BY <1>4, <1>5, <1>6 DEF Next, Late

LEMMA WaysAre ==
  ASSUME ProbeTypeOK
  PROVE  /\ executor = "adb" => ways \subseteq AdbWays
         /\ executor # "adb" => ways \subseteq LocalWays
<1>1. executor \in Executors /\ ways \in WaySets[executor]
  BY DEF ProbeTypeOK
<1>2. WaySets[executor] \subseteq SUBSET (IF executor = "adb" THEN AdbWays ELSE LocalWays)
  BY <1>1, ProbeAssumption DEF ProbeAssumption
<1> QED
  BY <1>1, <1>2

LEMMA ElevatedNeedsAWay ==
  ASSUME NEW s \in Sessions, Elevated(s)
  PROVE  ways # {}
BY DEF Elevated

(* Without a fault a command does what it does.                            *)
LEMMA RunsSmoothly ==
  ASSUME NEW s \in Sessions, NEW command, NEW outcome, Runs(s, command, outcome)
  PROVE  /\ chain' = chain \/ (Works(s, command) /\ chain' = Effect(command))
         /\ \/ NoFault /\ chain' = IF Works(s, command) THEN Effect(command) ELSE chain
            \/ Fault(s)
BY DEF Runs

------------------------------------------------------------------------------
(* Who will remove the chain.                                              *)
Before(way) == CASE way = "root" -> {} [] way = "su0" -> {"root"} [] OTHER -> {"root", "su0"}
TriedBefore(way, next) ==
  \/ way = "root" /\ next = "su0"
  \/ way = "su0" /\ next = "magisk"
  \/ way = "magisk" /\ next = "create"

(* A session that has root, or will find a way if there is one.            *)
Able(s) ==
  IF probing[s] \in AdbWays THEN executor = "adb" /\ Before(probing[s]) \cap ways = {}
                            ELSE Elevated(s)

TearsDown(s) == probing[s] \in AdbWays \cup {"create"} \cup Features \cup {"flush"} /\ Able(s)
Deletes(s)   == probing[s] = "delete" /\ Able(s)

ChainInv ==
  /\ ways = {} => ~chain.exists
  /\ ~messy /\ chain.exists =>
       \E s \in Sessions : TearsDown(s) \/ (chain.rules = {} /\ Deletes(s))

LEMMA ChainStays ==
  ASSUME ChainInv, UNCHANGED <<place, strategy, probing, chain, messy>>
  PROVE  ChainInv'
<1>1. ways' = ways /\ \A s \in Sessions : (TearsDown(s)' <=> TearsDown(s)) /\ (Deletes(s)' <=> Deletes(s))
  BY DEF TearsDown, Deletes, Able, Elevated, place
<1> QED
  BY <1>1 DEF ChainInv

(* Either the session that takes the step will do it, or another as before.*)
LEMMA ChainOfOne ==
  ASSUME ProbeTypeOK, ChainInv, NEW s \in Sessions, UNCHANGED place,
         \A t \in Sessions \ {s} : strategy'[t] = strategy[t] /\ probing'[t] = probing[t],
         ways = {} => ~chain'.exists,
         ~messy' /\ chain'.exists =>
           \/ TearsDown(s)' \/ (chain'.rules = {} /\ Deletes(s)')
           \/ ~messy /\ chain' = chain /\ ~TearsDown(s) /\ ~(chain.rules = {} /\ Deletes(s))
  PROVE  ChainInv'
<1>1. \A t \in Sessions \ {s} : (TearsDown(t)' <=> TearsDown(t)) /\ (Deletes(t)' <=> Deletes(t))
  BY DEF TearsDown, Deletes, Able, Elevated, place
<1>2. ways' = ways
  BY DEF place
<1>3. ASSUME ~messy', chain'.exists
      PROVE  \E t \in Sessions : TearsDown(t)' \/ (chain'.rules = {} /\ Deletes(t)')
  <2>1. CASE TearsDown(s)' \/ (chain'.rules = {} /\ Deletes(s)')
    BY <2>1
  <2>2. CASE ~messy /\ chain' = chain /\ ~TearsDown(s) /\ ~(chain.rules = {} /\ Deletes(s))
    <3>1. PICK t \in Sessions : TearsDown(t) \/ (chain.rules = {} /\ Deletes(t))
      BY <1>3, <2>2 DEF ChainInv
    <3> QED
      BY <1>1, <2>2, <3>1
  <2> QED
    BY <1>3, <2>1, <2>2
<1> QED
  BY <1>2, <1>3 DEF ChainInv

LEMMA ChainBegin ==
  ASSUME ProbeTypeOK, RealInv, ChainInv, NEW s \in Sessions, BeginProbe(s)
  PROVE  ChainInv'
<1>1. /\ UNCHANGED <<place, strategy, chain>>
      /\ \A t \in Sessions \ {s} : probing'[t] = probing[t]
      /\ probing[s] \notin Probing
      /\ probing'[s] = IF executor = "adb" /\ strategy[s] = "unknown" THEN "root" ELSE "create"
      /\ messy' = (messy /\ ~(Alone(s) /\ (strategy[s] = "none" => ways = {})))
  BY DEF BeginProbe, Proceed, ProbeTypeOK
<1>2. ~TearsDown(s) /\ ~Deletes(s)
  BY <1>1 DEF TearsDown, Deletes, Probing, Commands, Features
<1>3. ASSUME messy, ~messy', chain.exists PROVE TearsDown(s)'
  <2>1. ways # {} /\ strategy[s] # "none"
    BY <1>1, <1>3 DEF ChainInv
  <2>2. strategy[s] = "unknown" \/ strategy[s] \in ways
    BY <2>1 DEF RealInv, Rooted
  <2>3. CASE probing'[s] = "root"
    BY <1>1, <2>3 DEF TearsDown, Able, AdbWays, Before, place
  <2>4. CASE probing'[s] = "create"
    BY <1>1, <2>1, <2>2, <2>4 DEF TearsDown, Able, AdbWays, Elevated, place
  <2> QED
    BY <1>1, <2>3, <2>4
<1> QED
  BY <1>1, <1>2, <1>3, ChainOfOne DEF ChainInv

LEMMA ChainProbe ==
  ASSUME ProbeTypeOK, ChainInv, NEW s \in Sessions, ProbeStep(s)
  PROVE  ChainInv'
<1> USE DEF Proceed
<1>a. /\ strategy \in [Sessions -> Strategies] /\ messy \in BOOLEAN
      /\ probing \in [Sessions -> Probing \cup {"new", "done", "raised"}]
  BY ProbeTypeParts DEF FieldsOK, TallyOK
<1>b. /\ UNCHANGED place
      /\ \A t \in Sessions \ {s} : strategy'[t] = strategy[t] /\ probing'[t] = probing[t]
  BY <1>a DEF ProbeStep, TryWay, Create, TryFeature, SetupRaises, Flush, Delete, Ls, Cat,
         ModulesRaise, Found
<1>c. Fault(s) => messy'
  BY DEF Fault
<1>d. ASSUME NEW command, NEW outcome, Runs(s, command, outcome)
      PROVE  /\ ways = {} => ~chain'.exists
             /\ ~messy' => /\ ~messy
                           /\ chain' = IF Works(s, command) THEN Effect(command) ELSE chain
  <2>1. Works(s, command) => ways # {}
    BY ElevatedNeedsAWay DEF Works
  <2> QED
    BY <1>c, <1>d, <2>1, RunsSmoothly DEF ChainInv, NoFault
<1>e. strategy'[s] = strategy[s] => (Elevated(s)' <=> Elevated(s))
  BY <1>b DEF Elevated, place
<1>1. ASSUME NEW way \in AdbWays, NEW next \in AdbWays \cup {"create"}, TryWay(s, way, next),
             TriedBefore(way, next)
      PROVE  ChainInv'
  <2>1. chain' = chain /\ probing[s] = way /\ (~messy' => ~messy)
    BY <1>1 DEF TryWay, Fault, NoFault
  <2>2. ASSUME ~messy', chain.exists, TearsDown(s) PROVE TearsDown(s)'
    <3>1. executor = "adb" /\ Before(way) \cap ways = {} /\ ways # {}
      BY <2>1, <2>2, <1>1 DEF TearsDown, Able, ChainInv
    <3>2. CASE way \in ways
      <4>1. strategy'[s] = way /\ probing'[s] = "create"
        BY <1>1, <1>a, <2>2, <3>2, <1>c DEF TryWay
      <4> QED
        BY <1>b, <3>1, <3>2, <4>1 DEF TearsDown, Able, Elevated, AdbWays, place
    <3>3. CASE way \notin ways
      <4>1. probing'[s] = next
        BY <1>1, <1>a, <3>3 DEF TryWay
      <4>2. way # "magisk"
        BY <3>1, <3>3, WaysAre DEF Before, AdbWays
      <4>3. next \in AdbWays /\ Before(next) \cap ways = {}
        BY <1>1, <3>1, <3>3, <4>2 DEF Before, AdbWays, TriedBefore
      <4> QED
        BY <1>b, <3>1, <4>1, <4>3 DEF TearsDown, Able, place
    <3> QED
      BY <3>2, <3>3
  <2>3. ~Deletes(s)
    BY <2>1 DEF Deletes, AdbWays
  <2> QED
    BY <1>b, <2>1, <2>2, <2>3, ChainOfOne DEF ChainInv
<1>2. ASSUME NEW command \in {"create"} \cup Features, NEW outcome, Runs(s, command, outcome),
             probing[s] = command, probing'[s] \in Features \cup {"flush"}, strategy' = strategy
      PROVE  ChainInv'
  <2>1. Elevated(s) <=> TearsDown(s)'
    BY <1>2, <1>e DEF TearsDown, Able, AdbWays, Features
  <2>2. Elevated(s) <=> TearsDown(s)
    BY <1>2 DEF TearsDown, Able, AdbWays, Features
  <2>3. ~Deletes(s)
    BY <1>2 DEF Deletes, Features
  <2>4. ~Elevated(s) => ~Works(s, command)
    BY DEF Works
  <2> QED
    BY <1>2, <1>b, <1>d, <2>1, <2>2, <2>3, <2>4, ChainOfOne
<1>3. CASE Flush(s)
  <2>1. PICK outcome \in Results : Runs(s, "flush", outcome)
    BY <1>3 DEF Flush
  <2>2. probing[s] = "flush" /\ probing'[s] = "delete" /\ strategy' = strategy
    BY <1>3, <1>a DEF Flush
  <2>3. CASE Works(s, "flush")
    <3>1. Effect("flush").rules = {} /\ Deletes(s)'
      <4>1. Effect("flush") = [chain EXCEPT !.rules = {}]
        BY DEF Effect, Features
      <4>2. chain \in [exists : BOOLEAN, rules : SUBSET Features]
        BY ProbeTypeParts DEF ChainOK
      <4>3. Deletes(s)'
        BY <2>2, <2>3, <1>e DEF Deletes, Able, AdbWays, Works
      <4> QED
        BY <4>1, <4>2, <4>3
    <3> QED
      BY <1>b, <1>d, <2>1, <2>3, <3>1, ChainOfOne
  <2>4. CASE ~Works(s, "flush")
    <3>1. chain.exists => ~TearsDown(s) /\ ~Deletes(s)
      BY <2>2, <2>4 DEF TearsDown, Deletes, Able, AdbWays, Works, Accepts, Features
    <3> QED
      BY <1>b, <1>d, <2>1, <2>4, <3>1, ChainOfOne
  <2> QED
    BY <2>3, <2>4
<1>4. CASE Delete(s)
  <2>1. PICK outcome \in Results : Runs(s, "delete", outcome)
    BY <1>4 DEF Delete
  <2>2. probing[s] = "delete"
    BY <1>4 DEF Delete
  <2>3. Works(s, "delete") => ~Effect("delete").exists
    BY DEF Effect, Features, NoChain
  <2>4. ~Works(s, "delete") /\ chain.exists => ~TearsDown(s) /\ ~(chain.rules = {} /\ Deletes(s))
    BY <2>2 DEF TearsDown, Deletes, Able, AdbWays, Works, Accepts, Features
  <2> QED
    BY <1>b, <1>d, <2>1, <2>3, <2>4, ChainOfOne
<1>5. CASE Ls(s) \/ Cat(s) \/ ModulesRaise(s) \/ SetupRaises(s)
  <2>1. chain' = chain /\ (messy' \/ (~messy' /\ ~messy /\ probing[s] \in {"ls", "cat"}))
    <3>1. CASE SetupRaises(s) \/ ModulesRaise(s)
      BY <3>1, <1>c DEF SetupRaises, ModulesRaise
    <3>2. CASE Ls(s) \/ Cat(s)
      <4>1. chain' = chain /\ probing[s] \in {"ls", "cat"} /\ (NoFault \/ Fault(s))
        BY <3>2 DEF Ls, Cat
      <4> QED
        BY <4>1, <1>a, <1>c DEF NoFault
    <3> QED
      BY <1>5, <3>1, <3>2
  <2>2. probing[s] \in {"ls", "cat"} => ~TearsDown(s) /\ ~Deletes(s)
    BY DEF TearsDown, Deletes, AdbWays, Features
  <2> QED
    BY <1>b, <2>1, <2>2, ChainOfOne DEF ChainInv
<1>6. CASE Create(s)
  <2>1. PICK outcome \in Results : Runs(s, "create", outcome)
    BY <1>6 DEF Create
  <2>2. probing[s] = "create" /\ probing'[s] = "owner" /\ strategy' = strategy
    BY <1>6, <1>a DEF Create
  <2> QED
    BY <1>2, <2>1, <2>2 DEF Features
<1>7. ASSUME NEW feature \in Features, NEW next \in Features \cup {"flush"}, TryFeature(s, feature, next)
      PROVE  ChainInv'
  <2>1. PICK outcome \in Results : Runs(s, feature, outcome)
    BY <1>7 DEF TryFeature
  <2>2. probing[s] = feature /\ probing'[s] = next /\ strategy' = strategy
    BY <1>7, <1>a DEF TryFeature
  <2> QED
    BY <1>2, <1>7, <2>1, <2>2
<1>8. CASE TryWay(s, "root", "su0") \/ TryWay(s, "su0", "magisk") \/ TryWay(s, "magisk", "create")
  <2>1. /\ "root" \in AdbWays /\ "su0" \in AdbWays /\ "magisk" \in AdbWays
        /\ "su0" \in AdbWays \cup {"create"} /\ "magisk" \in AdbWays \cup {"create"}
        /\ "create" \in AdbWays \cup {"create"}
    BY DEF AdbWays
  <2>5. /\ TriedBefore("root", "su0") /\ TriedBefore("su0", "magisk")
        /\ TriedBefore("magisk", "create")
    BY DEF TriedBefore
  <2>2. TryWay(s, "root", "su0") => ChainInv'
    BY <1>1, <2>1, <2>5
  <2>3. TryWay(s, "su0", "magisk") => ChainInv'
    BY <1>1, <2>1, <2>5
  <2>4. TryWay(s, "magisk", "create") => ChainInv'
    BY <1>1, <2>1, <2>5
  <2> QED
    BY <1>8, <2>2, <2>3, <2>4
<1>9. CASE \/ TryFeature(s, "owner", "connmark") \/ TryFeature(s, "connmark", "nflog_target")
           \/ TryFeature(s, "nflog_target", "flush")
  BY <1>9, <1>7 DEF Features
<1> QED
  BY <1>3, <1>4, <1>5, <1>6, <1>8, <1>9 DEF ProbeStep

(* A late -F or -X does what the session that tears down would do.         *)
LEMMA ChainLate ==
  ASSUME ProbeTypeOK, NumberInv, ChainInv, RunLate
  PROVE  ChainInv'
<1>1. PICK l \in late :
        /\ l.command \in RuleCommands
        /\ IF Accepts(l.command)
           THEN /\ chain' = Effect(l.command)
                /\ messy' = (messy \/ l.command \notin {"flush", "delete"})
           ELSE UNCHANGED <<chain, messy>>
  BY DEF RunLate
<1>2. UNCHANGED <<place, strategy, probing>>
  BY DEF RunLate
<1>3. CASE ~Accepts(l.command)
  BY <1>1, <1>2, <1>3, ChainStays
<1>4. CASE Accepts(l.command)
  <2>1. ways' = ways /\ \A s \in Sessions : (TearsDown(s)' <=> TearsDown(s)) /\ (Deletes(s)' <=> Deletes(s))
    BY <1>2 DEF TearsDown, Deletes, Able, Elevated, place
  <2>2. ways' # {}
    BY <1>1, <2>1 DEF NumberInv
  <2>3. CASE l.command \notin {"flush", "delete"}
    BY <1>1, <1>4, <2>2, <2>3 DEF ChainInv
  <2>4. CASE l.command = "delete"
    <3>1. ~chain'.exists
      BY <1>1, <1>4, <2>4 DEF Effect, NoChain, Features
    <3> QED
      BY <3>1, <2>2 DEF ChainInv
  <2>5. CASE l.command = "flush"
    <3>1. chain.exists /\ chain'.rules = {}
      <4>1. chain \in [exists : BOOLEAN, rules : SUBSET Features]
        BY ProbeTypeParts DEF ChainOK
      <4>2. chain' = [chain EXCEPT !.rules = {}]
        BY <1>1, <1>4, <2>5 DEF Effect, Features
      <4>3. chain.exists
        BY <1>4, <2>5 DEF Accepts, Features
      <4> QED
        BY <4>1, <4>2, <4>3
    <3>2. messy' = messy
      BY <1>1, <1>4, <2>5, ProbeTypeParts DEF TallyOK
    <3> QED
      BY <3>1, <3>2, <2>1, <2>2 DEF ChainInv
  <2> QED
    BY <2>3, <2>4, <2>5
<1> QED
  BY <1>3, <1>4

LEMMA ChainInvStep ==
  ASSUME TypeOK, NumberInv, RealInv, ChainInv, [Next]_vars
  PROVE  ChainInv'
<1>a. ProbeTypeOK
  BY TypeParts
<1>1. ASSUME NEW s \in Sessions, Crash(s) PROVE ChainInv'
  BY <1>1 DEF Crash, Fault, ChainInv, place
<1> QED
  BY <1>a, <1>1, ProbeFrame, ChainBegin, ChainProbe, ChainLate, ChainStays

(* When no probe runs, and none failed and no -N or -A took effect late    *)
(* since an undisturbed one began, the chain is gone: of probes that       *)
(* overlap, the last removes it, and a late -F or -X does not keep it from *)
(* that.                                                                   *)
THEOREM ChainIsRemoved == Spec => []ProbeChainRemoved
<1>1. Init => NumberInv /\ ChainInv
  BY DEF Init, ProbeInit, NumberInv, ChainInv, NoChain
<1>2. TypeOK /\ RealInv /\ NumberInv /\ ChainInv /\ [Next]_vars => NumberInv' /\ ChainInv'
  BY NumberInvStep, ChainInvStep
<1>3. ChainInv => ProbeChainRemoved
  BY DEF ChainInv, ProbeChainRemoved, TearsDown, Deletes, Probing, Commands, Features
<1> QED
  BY <1>1, <1>2, <1>3, TypeCorrect, RealInvHolds, PTL DEF Spec
------------------------------------------------------------------------------
(* What a probe that nothing disturbed knows at each of its commands.      *)
Knows(s) ==
  executor = "adb" => IF ways = {} THEN strategy[s] = "none" ELSE strategy[s] \in ways

Tried(command) ==
  CASE command = "connmark" -> {"owner"}
    [] command = "nflog_target" -> {"owner", "connmark"}
    [] command \in {"flush", "delete", "ls", "cat", "done"} -> Features
    [] OTHER -> {}

RootFound == IF executor = "adb" THEN ways # {} ELSE "root" \in ways

Exact(s) ==
  clean[s] =>
    /\ probing[s] \in Probing => Alone(s)
    /\ probing[s] \in AdbWays => executor = "adb" /\ Before(probing[s]) \cap ways = {}
    /\ probing[s] \in Commands => Knows(s)
    /\ probing[s] \in Features /\ ways # {} => chain.exists
    /\ \A f \in Tried(probing[s]) : caps[s][f] <=> kernel[f] /\ ways # {}
    /\ probing[s] = "cat" => ~kernel.nfnetlink_log
    /\ probing[s] = "done" => /\ caps[s].nfnetlink_log <=> kernel.nfnetlink_log
                              /\ caps[s].is_rooted <=> RootFound

LEMMA ExactStays ==
  ASSUME UNCHANGED <<place, strategy, probing, caps, chain, clean>>, NEW s \in Sessions, Exact(s)
  PROVE  Exact(s)'
<1>1. ways' = ways /\ kernel' = kernel /\ executor' = executor
  BY DEF place
<1> QED
  BY <1>1 DEF Exact, Alone, Knows, RootFound

(* The step of another session ends an exact probe, or finds it done.      *)
LEMMA ExactOther ==
  ASSUME NEW s \in Sessions, Exact(s), UNCHANGED place,
         probing'[s] = probing[s], caps'[s] = caps[s], clean'[s] => clean[s],
         probing[s] \in Probing => ~clean'[s]
  PROVE  Exact(s)'
<1>1. ways' = ways /\ kernel' = kernel /\ executor' = executor
  BY DEF place
<1>2. probing[s] \notin Probing =>
        /\ probing[s] \notin AdbWays /\ probing[s] \notin Commands
        /\ probing[s] \notin Features /\ probing[s] # "cat"
  BY DEF Probing, Commands, Features
<1> QED
  BY <1>1, <1>2 DEF Exact, RootFound

LEMMA ProbeStepFrame ==
  ASSUME ProbeTypeOK, NEW s \in Sessions, ProbeStep(s)
  PROVE  /\ UNCHANGED place
         /\ probing[s] \in Probing
         /\ clean' = clean \/ (clean' = [clean EXCEPT ![s] = FALSE])
         /\ \A t \in Sessions \ {s} :
              /\ strategy'[t] = strategy[t] /\ probing'[t] = probing[t]
              /\ caps'[t] = caps[t] /\ clean'[t] = clean[t]
<1> USE DEF Proceed
<1>a. /\ strategy \in [Sessions -> Strategies] /\ clean \in [Sessions -> BOOLEAN]
      /\ probing \in [Sessions -> Probing \cup {"new", "done", "raised"}]
      /\ caps \in [Sessions -> Capabilities]
  BY ProbeTypeParts DEF FieldsOK, TallyOK
<1>1. UNCHANGED place /\ probing[s] \in Probing
  BY DEF ProbeStep, TryWay, Create, TryFeature, SetupRaises, Flush, Delete, Ls, Cat, ModulesRaise,
         Probing, Commands, AdbWays, Features
<1>2. clean' = clean \/ (clean' = [clean EXCEPT ![s] = FALSE])
  BY DEF ProbeStep, TryWay, Create, TryFeature, SetupRaises, Flush, Delete, Ls, Cat, ModulesRaise,
         Runs, NoFault, Fault
<1>3. \A t \in Sessions \ {s} :
        strategy'[t] = strategy[t] /\ probing'[t] = probing[t] /\ caps'[t] = caps[t]
  BY <1>a DEF ProbeStep, TryWay, Create, TryFeature, SetupRaises, Flush, Delete, Ls, Cat,
              ModulesRaise, Found
<1> QED
  BY <1>a, <1>1, <1>2, <1>3

LEMMA ExactBegin ==
  ASSUME ProbeTypeOK, RealInv, NEW s \in Sessions, BeginProbe(s), \A t \in Sessions : Exact(t)
  PROVE  \A t \in Sessions : Exact(t)'
<1>1. /\ UNCHANGED <<place, strategy>>
      /\ \A t \in Sessions \ {s} :
           /\ probing'[t] = probing[t] /\ caps'[t] = caps[t]
           /\ clean'[t] <=> clean[t] /\ probing[t] \notin Probing
      /\ probing'[s] = IF executor = "adb" /\ strategy[s] = "unknown" THEN "root" ELSE "create"
      /\ clean'[s] <=> Alone(s) /\ (strategy[s] = "none" => ways = {})
  BY ProbeTypeParts DEF BeginProbe, Proceed, FieldsOK, TallyOK
<1>2. ASSUME NEW t \in Sessions \ {s} PROVE Exact(t)'
  BY <1>1, <1>2, ExactOther
<1>3. Exact(s)'
  <2>1. SUFFICES ASSUME clean'[s] PROVE Exact(s)'
    BY DEF Exact
  <2>2. Alone(s)'
    BY <1>1, <2>1 DEF Alone
  <2>3. CASE probing'[s] = "root"
    BY <1>1, <2>2, <2>3 DEF Exact, Before, AdbWays, Commands, Features, Tried, place
  <2>4. CASE probing'[s] = "create"
    <3>1. executor = "adb" => strategy[s] \in {"none"} \cup ways
      BY <1>1, <2>4 DEF RealInv, Rooted
    <3>2. Knows(s)'
      BY <1>1, <2>1, <3>1 DEF Knows, place
    <3> QED
      BY <2>2, <2>4, <3>2 DEF Exact, AdbWays, Features, Tried
  <2> QED
    BY <1>1, <2>3, <2>4
<1> QED
  BY <1>2, <1>3

LEMMA ExactProbe ==
  ASSUME ProbeTypeOK, NEW s \in Sessions, ProbeStep(s), Exact(s)
  PROVE  Exact(s)'
<1> USE DEF Proceed
<1>a. /\ strategy \in [Sessions -> Strategies] /\ clean \in [Sessions -> BOOLEAN]
      /\ probing \in [Sessions -> Probing \cup {"new", "done", "raised"}]
      /\ caps \in [Sessions -> Capabilities]
  BY ProbeTypeParts DEF FieldsOK, TallyOK
<1>b. SUFFICES ASSUME clean'[s] PROVE Exact(s)'
  BY DEF Exact
<1>c. ~Fault(s)
  BY <1>a, <1>b DEF Fault
<1>d. clean[s] /\ UNCHANGED place /\ probing[s] \in Probing
  BY <1>a, <1>b, ProbeStepFrame
<1>e. Alone(s)'
  BY <1>d, ProbeStepFrame DEF Exact, Alone
<1>f. strategy' = strategy /\ Knows(s) => Knows(s)' /\ (Elevated(s) <=> ways # {})
  <2>1. strategy' = strategy /\ Knows(s) => Knows(s)'
    BY <1>d DEF Knows, place
  <2>2. Knows(s) => (Elevated(s) <=> ways # {})
    BY DEF Knows, Elevated
  <2> QED
    BY <2>1, <2>2
<1>g. ASSUME NEW command, NEW outcome, Runs(s, command, outcome)
      PROVE  /\ outcome = IF Works(s, command) THEN "ok" ELSE IF Elevated(s) THEN "absent" ELSE "failed"
             /\ chain' = IF Works(s, command) THEN Effect(command) ELSE chain
  BY <1>c, <1>g DEF Runs
<1>1. ASSUME NEW way \in AdbWays, NEW next \in AdbWays \cup {"create"}, TryWay(s, way, next),
             TriedBefore(way, next)
      PROVE  Exact(s)'
  <2>1. probing[s] = way /\ executor = "adb" /\ Before(way) \cap ways = {}
    BY <1>1, <1>d DEF TryWay, Exact
  <2>2. CASE way \in ways
    <3>1. strategy'[s] = way /\ probing'[s] = "create"
      BY <1>1, <1>a, <1>c, <2>2 DEF TryWay
    <3>2. Knows(s)'
      BY <1>d, <2>2, <3>1 DEF Knows, place
    <3> QED
      BY <1>e, <3>1, <3>2 DEF Exact, AdbWays, Features, Tried
  <2>3. CASE way \notin ways
    <3>1. probing'[s] = next /\ (next = "create" => strategy'[s] = "none")
      BY <1>1, <1>a, <2>3 DEF TryWay
    <3>2. CASE next = "create"
      <4>1. ways = {}
        BY <1>1, <2>1, <2>3, <3>2, WaysAre DEF Before, AdbWays, TriedBefore
      <4>2. Knows(s)'
        BY <1>d, <3>1, <3>2, <4>1 DEF Knows, place
      <4> QED
        BY <1>e, <3>1, <3>2, <4>2 DEF Exact, AdbWays, Features, Tried
    <3>3. CASE next \in AdbWays
      <4>1. Before(next) \cap ways = {}
        BY <1>1, <2>1, <2>3, <3>3 DEF Before, AdbWays, TriedBefore
      <4> QED
        BY <1>d, <1>e, <2>1, <3>1, <3>3, <4>1 DEF Exact, AdbWays, Commands, Features, Tried, place
    <3> QED
      BY <3>2, <3>3
  <2> QED
    BY <2>2, <2>3
<1>2. CASE Create(s)
  <2>1. PICK outcome \in Results : Runs(s, "create", outcome)
    BY <1>2 DEF Create
  <2>2. probing[s] = "create" /\ probing'[s] = "owner" /\ strategy' = strategy
    BY <1>2, <1>a DEF Create
  <2>3. Knows(s)' /\ (Elevated(s) <=> ways # {})
    BY <1>d, <1>f, <2>2 DEF Exact, Commands
  <2>4. ways # {} => chain'.exists
    <3>1. Accepts("create") <=> ~chain.exists
      BY DEF Accepts, Features
    <3>2. Effect("create") = [exists |-> TRUE, rules |-> {}]
      BY DEF Effect, Features
    <3> QED
      BY <1>g, <2>1, <2>3, <3>1, <3>2 DEF Works
  <2> QED
    BY <1>d, <1>e, <2>2, <2>3, <2>4 DEF Exact, AdbWays, Features, Tried, place
<1>3. ASSUME NEW feature \in Features, NEW next \in Features \cup {"flush"},
             TryFeature(s, feature, next), Tried(next) = Tried(feature) \cup {feature}
      PROVE  Exact(s)'
  <2>1. PICK outcome \in Results :
          /\ Runs(s, feature, outcome)
          /\ caps' = [caps EXCEPT ![s][feature] = probe_feature_present(outcome)]
    BY <1>3 DEF TryFeature
  <2>2. probing[s] = feature /\ probing'[s] = next /\ strategy' = strategy
    BY <1>3, <1>a DEF TryFeature
  <2>3. Knows(s)' /\ (Elevated(s) <=> ways # {}) /\ (ways # {} => chain.exists)
    BY <1>d, <1>f, <2>2 DEF Exact, Commands, Features
  <2>4. Works(s, feature) <=> kernel[feature] /\ ways # {}
    BY <2>3 DEF Works, Accepts, Features
  <2>5. probe_feature_present(outcome) <=> kernel[feature] /\ ways # {}
    BY <1>g, <2>1, <2>4 DEF probe_feature_present
  <2>6. \A f \in Features : caps'[s][f] = IF f = feature THEN probe_feature_present(outcome) ELSE caps[s][f]
    <3>1. caps[s] \in Capabilities
      BY <1>a
    <3>2. Features \subseteq DOMAIN caps[s]
      BY <3>1 DEF Capabilities, Features
    <3> QED
      BY <1>a, <2>1, <3>2
  <2>7. Tried(next) \subseteq Features
    BY <1>3 DEF Tried, Features
  <2>8. \A f \in Tried(next) : caps'[s][f] <=> kernel[f] /\ ways # {}
    BY <1>3, <1>d, <2>2, <2>5, <2>6, <2>7 DEF Exact
  <2>9. ways # {} => chain'.exists
    <3>1. Effect(feature) = [chain EXCEPT !.rules = @ \cup {feature}]
      BY <1>3 DEF Effect, Features
    <3>2. chain \in [exists : BOOLEAN, rules : SUBSET Features]
      BY ProbeTypeParts DEF ChainOK
    <3>3. Effect(feature).exists = chain.exists
      BY <3>1, <3>2
    <3> QED
      BY <1>g, <2>1, <2>3, <3>3
  <2> QED
    BY <1>3, <1>d, <1>e, <2>2, <2>3, <2>8, <2>9 DEF Exact, AdbWays, Features, place
<1>4. CASE Flush(s) \/ Delete(s)
  <2>1. /\ probing[s] \in {"flush", "delete"} /\ strategy' = strategy /\ caps' = caps
        /\ probing'[s] \in {"delete", "ls", "raised"}
    BY <1>4, <1>a DEF Flush, Delete
  <2>2. Knows(s)' /\ \A f \in Features : caps[s][f] <=> kernel[f] /\ ways # {}
    BY <1>d, <1>f, <2>1 DEF Exact, Commands, Tried
  <2> QED
    BY <1>d, <1>e, <2>1, <2>2 DEF Exact, AdbWays, Features, Tried, place
<1>5. CASE Ls(s) \/ Cat(s)
  <2>1. /\ probing[s] \in {"ls", "cat"} /\ strategy' = strategy
        /\ \/ probing[s] = "ls" /\ probing'[s] = "cat" /\ caps' = caps /\ ~kernel.nfnetlink_log
           \/ /\ Found(s, kernel.nfnetlink_log) \/ (Found(s, TRUE) /\ kernel.nfnetlink_log)
    BY <1>5, <1>a, <1>c DEF Ls, Cat
  <2>2. /\ Knows(s) /\ Knows(s)'
        /\ \A f \in Features : caps[s][f] <=> kernel[f] /\ ways # {}
    BY <1>d, <1>f, <2>1 DEF Exact, Commands, Tried
  <2>3. CASE probing'[s] = "cat" /\ caps' = caps /\ ~kernel.nfnetlink_log
    BY <1>d, <1>e, <2>2, <2>3 DEF Exact, AdbWays, Features, Tried, place
  <2>4. ASSUME NEW there, Found(s, there), there <=> kernel.nfnetlink_log PROVE Exact(s)'
    <3>1. is_rooted(s) <=> RootFound
      <4>1. "none" \notin ways \/ executor # "adb"
        BY WaysAre DEF AdbWays
      <4> QED
        BY <2>2, <4>1 DEF is_rooted, Knows, RootFound
    <3>2. probing'[s] = "done" /\ caps'[s] = [caps[s] EXCEPT !.nfnetlink_log = there, !.is_rooted = is_rooted(s)]
      BY <1>a, <2>4 DEF Found
    <3>3. caps[s] \in Capabilities
      BY <1>a
    <3>4. /\ \A f \in Features : caps'[s][f] = caps[s][f]
          /\ caps'[s].nfnetlink_log = there /\ caps'[s].is_rooted = is_rooted(s)
      BY <3>2, <3>3 DEF Capabilities, Features
    <3>5. \A f \in Features : caps'[s][f] <=> kernel'[f] /\ ways' # {}
      BY <1>d, <2>2, <3>4 DEF place
    <3>6. (caps'[s].nfnetlink_log <=> kernel'.nfnetlink_log) /\ (caps'[s].is_rooted <=> RootFound')
      BY <1>d, <2>4, <3>1, <3>4 DEF place, RootFound
    <3> QED
      BY <1>e, <3>2, <3>5, <3>6 DEF Exact, AdbWays, Features, Tried, Commands, Probing
  <2> QED
    BY <2>1, <2>3, <2>4
<1>6. CASE SetupRaises(s) \/ ModulesRaise(s)
  BY <1>6, <1>c DEF SetupRaises, ModulesRaise
<1>7. CASE TryWay(s, "root", "su0") \/ TryWay(s, "su0", "magisk") \/ TryWay(s, "magisk", "create")
  <2>1. /\ "root" \in AdbWays /\ "su0" \in AdbWays /\ "magisk" \in AdbWays
        /\ "su0" \in AdbWays \cup {"create"} /\ "magisk" \in AdbWays \cup {"create"}
        /\ "create" \in AdbWays \cup {"create"}
    BY DEF AdbWays
  <2>2. /\ TriedBefore("root", "su0") /\ TriedBefore("su0", "magisk")
        /\ TriedBefore("magisk", "create")
    BY DEF TriedBefore
  <2> QED
    BY <1>1, <1>7, <2>1, <2>2
<1>8. CASE \/ TryFeature(s, "owner", "connmark") \/ TryFeature(s, "connmark", "nflog_target")
           \/ TryFeature(s, "nflog_target", "flush")
  <2>1. /\ "owner" \in Features /\ "connmark" \in Features /\ "nflog_target" \in Features
        /\ "connmark" \in Features \cup {"flush"} /\ "nflog_target" \in Features \cup {"flush"}
        /\ "flush" \in Features \cup {"flush"}
    BY DEF Features
  <2>2. /\ Tried("connmark") = Tried("owner") \cup {"owner"}
        /\ Tried("nflog_target") = Tried("connmark") \cup {"connmark"}
        /\ Tried("flush") = Tried("nflog_target") \cup {"nflog_target"}
    BY DEF Tried, Features
  <2> QED
    BY <1>3, <1>8, <2>1, <2>2
<1> QED
  BY <1>2, <1>4, <1>5, <1>6, <1>7, <1>8 DEF ProbeStep

(* A command that takes effect late ends every exact probe it meets.       *)
LEMMA ExactLate ==
  ASSUME ProbeTypeOK, RunLate, NEW s \in Sessions, Exact(s)
  PROVE  Exact(s)'
<1>1. UNCHANGED <<place, strategy, probing, caps>>
  BY DEF RunLate
<1>2. \/ UNCHANGED <<chain, clean>>
      \/ clean' = [t \in Sessions |-> clean[t] /\ probing[t] \notin Probing]
  BY DEF RunLate
<1>3. CASE UNCHANGED <<chain, clean>>
  BY <1>1, <1>3, ExactStays
<1>4. CASE clean' = [t \in Sessions |-> clean[t] /\ probing[t] \notin Probing]
  <2>1. SUFFICES ASSUME clean'[s] PROVE Exact(s)'
    BY DEF Exact
  <2>2. clean[s] /\ probing[s] \notin Probing
    BY <1>4, <2>1
  <2>3. ways' = ways /\ kernel' = kernel /\ executor' = executor
    BY <1>1 DEF place
  <2> QED
    BY <1>1, <2>2, <2>3 DEF Exact, RootFound, Probing, Commands, Features
<1> QED
  BY <1>2, <1>3, <1>4

LEMMA ExactStep ==
  ASSUME TypeOK, RealInv, [Next]_vars, \A t \in Sessions : Exact(t)
  PROVE  \A t \in Sessions : Exact(t)'
<1>a. ProbeTypeOK
  BY TypeParts
<1>b. probing \in [Sessions -> Probing \cup {"new", "done", "raised"}] /\ clean \in [Sessions -> BOOLEAN]
  BY <1>a, ProbeTypeParts DEF FieldsOK, TallyOK
<1>1. ASSUME NEW s \in Sessions, ProbeStep(s), NEW t \in Sessions \ {s} PROVE Exact(t)'
  <2>1. /\ UNCHANGED place /\ probing'[t] = probing[t] /\ caps'[t] = caps[t] /\ clean'[t] = clean[t]
        /\ probing[s] \in Probing
    BY <1>a, <1>1, ProbeStepFrame
  <2>2. probing[t] \in Probing => ~clean[t]
    BY <2>1 DEF Exact, Alone
  <2> QED
    BY <2>1, <2>2, ExactOther
<1>2. ASSUME NEW s \in Sessions, Crash(s) PROVE \A t \in Sessions : Exact(t)'
  <2>1. /\ UNCHANGED <<place, caps, chain>> /\ ~clean'[s]
        /\ \A t \in Sessions \ {s} :
             clean'[t] = clean[t] /\ probing'[t] = probing[t] /\ strategy'[t] = strategy[t]
        /\ probing'[s] = "new"
    <3>1. strategy' = [strategy EXCEPT ![s] = "unknown"]
      BY <1>2 DEF Crash
    <3>2. strategy \in [Sessions -> Strategies]
      BY <1>a, ProbeTypeParts DEF FieldsOK
    <3> QED
      BY <1>2, <1>b, <3>1, <3>2 DEF Crash, Fault
  <2>2. Exact(s)'
    BY <2>1 DEF Exact
  <2>3. ASSUME NEW t \in Sessions \ {s} PROVE Exact(t)'
    <3>1. Alone(t) => Alone(t)'
      BY <2>1 DEF Alone, Probing, Commands, AdbWays
    <3>2. ways' = ways /\ kernel' = kernel /\ executor' = executor
      BY <2>1 DEF place
    <3> QED
      BY <2>1, <3>1, <3>2 DEF Exact, Knows, RootFound
  <2> QED
    BY <2>2, <2>3
<1> QED
  BY <1>a, <1>1, <1>2, ProbeFrame, ExactBegin, ExactProbe, ExactLate, ExactStays

(* A probe that nothing disturbed, no command of another that takes effect *)
(* late either, has found everything there is, whatever others left behind.*)
THEOREM UndisturbedProbes == Spec => []CleanProbeIsExact
<1> DEFINE ExactInv == \A s \in Sessions : Exact(s)
<1>1. Init => ExactInv
  BY DEF Init, ProbeInit, Exact
<1>2. TypeOK /\ RealInv /\ ExactInv /\ [Next]_vars => ExactInv'
  BY ExactStep
<1>3. TypeOK /\ ExactInv => CleanProbeIsExact
  <2> SUFFICES ASSUME TypeOK, ExactInv, NEW s \in Sessions, probing[s] = "done", clean[s]
               PROVE  caps[s] = [owner |-> kernel.owner /\ ways # {},
                                 connmark |-> kernel.connmark /\ ways # {},
                                 nflog_target |-> kernel.nflog_target /\ ways # {},
                                 nfnetlink_log |-> kernel.nfnetlink_log,
                                 is_rooted |-> IF executor = "adb" THEN ways # {} ELSE "root" \in ways]
    BY DEF CleanProbeIsExact
  <2>1. caps[s] \in Capabilities /\ kernel \in [Features \cup {"nfnetlink_log"} -> BOOLEAN]
    BY TypeParts, ProbeTypeParts, ProbeAssumption DEF FieldsOK, PlaceOK, ProbeAssumption
  <2>2. /\ \A f \in Features : caps[s][f] <=> kernel[f] /\ ways # {}
        /\ caps[s].nfnetlink_log <=> kernel.nfnetlink_log
        /\ caps[s].is_rooted <=> RootFound
    BY DEF Exact, Tried
  <2>3. /\ caps[s].owner = (kernel.owner /\ ways # {})
        /\ caps[s].connmark = (kernel.connmark /\ ways # {})
        /\ caps[s].nflog_target = (kernel.nflog_target /\ ways # {})
        /\ caps[s].nfnetlink_log = kernel.nfnetlink_log
        /\ caps[s].is_rooted = RootFound
    BY <2>1, <2>2 DEF Capabilities, Features, RootFound
  <2> QED
    BY <2>1, <2>3 DEF Capabilities, RootFound
<1> QED
  BY <1>1, <1>2, <1>3, TypeCorrect, RealInvHolds, PTL DEF Spec
==============================================================================
