------------------------- MODULE UidResolutionProofs -------------------------
(***************************************************************************)
(* Proofs about UID resolution: its types, and that whatever processes     *)
(* start and end and whichever commands fail, the scope it returns is the  *)
(* app's.                                                                  *)
(***************************************************************************)
EXTENDS UidResolution, TLAPS

(* The steps that end a strategy, by what becomes of pc and uids.          *)
LEMMA AnswerType ==
  ASSUME UidResolutionAssumption, NEW found \in SUBSET Nat, Answer(found)
  PROVE  pc' = "done" /\ uids' \in SUBSET Nat
BY DEF Answer, UidResolutionAssumption

LEMMA BaseIsType ==
  ASSUME UidResolutionAssumption, NEW found \in SUBSET Nat, BaseIs(found)
  PROVE  pc' \in {"scan", "done"} /\ uids' \in SUBSET Nat
BY AnswerType DEF BaseIs

LEMMA TryType ==
  ASSUME UidResolutionAssumption, uids \subseteq Nat, NEW step \in Steps, Try(step)
  PROVE  pc' \in {"scan", "done", step} /\ uids' \in SUBSET Nat
BY BaseIsType DEF Try, Steps

LEMMA FirstByPackageIs == FirstByPackage \in {"pidof", "done"}
BY DEF FirstByPackage

LEMMA TypeStep ==
  ASSUME UidResolutionAssumption, TypeOK, [Next]_vars
  PROVE  TypeOK'
<1> USE DEF TypeOK, call, target, Steps
<1>a. AppUid \in Nat /\ \A p \in Processes : p.uid \in Nat
  BY DEF UidResolutionAssumption
<1>b. \A p \in Pids : proc[p] # NoProcess => {proc[p].uid} \in SUBSET Nat
  BY <1>a
<1>c. Fails => faults' \in Nat
  BY DEF Fails
<1>1. CASE ReadTargetStatus
  <2>1. pc' \in {"scan", "done", "pidof"} /\ uids' \in SUBSET Nat
    <3>1. pid \in Pids
      BY <1>1 DEF ReadTargetStatus, ReadStatus
    <3>2. CASE BaseIs({proc[pid].uid}) /\ proc[pid] # NoProcess
      BY <3>1, <3>2, <1>b, BaseIsType
    <3>3. CASE Try(FirstByPackage)
      BY <3>3, FirstByPackageIs, TryType
    <3> QED
      BY <1>1, <3>2, <3>3 DEF ReadTargetStatus, ReadStatus
  <2> QED
    BY <1>1, <2>1, <1>c DEF ReadTargetStatus, ReadStatus
<1>2. CASE Pidof
  BY <1>2, <1>c DEF Pidof
<1>3. CASE ReadPidofStatus
  <2>1. pc' \in {"scan", "done", "dumpsys"} /\ uids' \in SUBSET Nat
    <3>1. pid \in Pids
      BY <1>3 DEF ReadPidofStatus, ReadStatus
    <3>2. CASE BaseIs({proc[pid].uid}) /\ proc[pid] # NoProcess
      BY <3>1, <3>2, <1>b, BaseIsType
    <3>3. CASE Try("dumpsys")
      BY <3>3, TryType
    <3> QED
      BY <1>3, <3>2, <3>3 DEF ReadPidofStatus, ReadStatus
  <2> QED
    BY <1>3, <2>1, <1>c DEF ReadPidofStatus, ReadStatus
<1>4. CASE Dumpsys
  <2>1. BaseIs({AppUid}) \/ Try("stat")
    BY <1>4 DEF Dumpsys
  <2>2. pc' \in {"scan", "done", "stat"} /\ uids' \in SUBSET Nat
    BY <2>1, <1>a, BaseIsType, TryType
  <2> QED
    BY <1>4, <2>2, <1>c DEF Dumpsys
<1>5. CASE Stat
  <2>1. BaseIs({AppUid}) \/ BaseIs({})
    BY <1>5 DEF Stat
  <2>2. pc' \in {"scan", "done"} /\ uids' \in SUBSET Nat
    BY <2>1, <1>a, BaseIsType
  <2> QED
    BY <1>5, <2>2, <1>c DEF Stat
<1>6. CASE Scan
  <2>1. pc' = "done" /\ uids' \in SUBSET Nat
    BY <1>6, AnswerType DEF Scan
  <2> QED
    BY <1>6, <2>1 DEF Scan
<1>7. CASE Raise
  BY <1>7, <1>c DEF Raise
<1>8. ASSUME NEW p \in Pids, StartProcess(p) PROVE TypeOK'
  BY <1>8 DEF StartProcess
<1>9. ASSUME NEW p \in Pids, EndProcess(p) PROVE TypeOK'
  BY <1>9 DEF EndProcess
<1>10. CASE UNCHANGED vars
  BY <1>10 DEF vars
<1> QED
  BY <1>1, <1>2, <1>3, <1>4, <1>5, <1>6, <1>7, <1>8, <1>9, <1>10 DEF Next, Resolve

(* Every variable stays within its type, for every table of processes.     *)
THEOREM TypeCorrect == Spec => []TypeOK
<1>1. Init => TypeOK
  <2> SUFFICES ASSUME Init PROVE TypeOK
    OBVIOUS
  <2>1. request.pid \in Pids \cup {NoPid}
    BY DEF Init
  <2>2. pc \in {"target", "pidof", "done"} /\ (pc = "target" => pid \in Pids)
    BY <2>1, FirstByPackageIs DEF Init
  <2>3. pid \in Pids \cup {NoPid} /\ steady \subseteq Pids
    BY <2>1 DEF Init
  <2> QED
    BY <2>2, <2>3 DEF Init, TypeOK, Steps
<1>2. TypeOK /\ [Next]_vars => TypeOK'
  BY TypeStep, UidResolutionAssumption
<1> QED
  BY <1>1, <1>2, PTL DEF Spec

------------------------------------------------------------------------------
(* A scope is empty, or has one of the app's UIDs.                         *)
Scoped(found) == found = {} \/ \E uid \in found : uid \in AppUids

(* Why the scope is the app's: the process whose status is read next is    *)
(* the app's or gone, or the pid was reused.                               *)
ScopeInv ==
  \/ reused
  \/ /\ pc \notin {"scan", "done"} => uids = {}
     /\ pc = "scan" => uids \subseteq AppUids
     /\ pc = "done" => uids \subseteq AppUids \cup {AidDns} /\ Scoped(uids)
     /\ pc \in {"target", "status"} => proc[pid] = NoProcess \/ proc[pid].package = App

LEMMA AnswerScope ==
  ASSUME NEW found \in SUBSET AppUids, Answer(found)
  PROVE  pc' = "done" /\ uids' \subseteq AppUids \cup {AidDns} /\ Scoped(uids')
BY DEF Answer, Scoped

LEMMA BaseIsScope ==
  ASSUME NEW found \in SUBSET AppUids, BaseIs(found)
  PROVE  ScopeInv'
<1>1. CASE pc' = "scan" /\ uids' = found
  BY <1>1 DEF ScopeInv
<1>2. CASE Answer(found)
  BY <1>2, AnswerScope DEF ScopeInv
<1> QED
  BY <1>1, <1>2 DEF BaseIs

LEMMA TryScope ==
  ASSUME ScopeInv, pc \notin {"scan", "done"}, reused' = reused,
         NEW step \in {"pidof", "dumpsys", "stat", "done"}, Try(step)
  PROVE  ScopeInv'
<1>1. CASE step = "done"
  BY <1>1, BaseIsScope DEF Try
<1>2. CASE step # "done"
  BY <1>2 DEF Try, ScopeInv
<1> QED
  BY <1>1, <1>2

LEMMA ScopeInvStep ==
  ASSUME UidResolutionAssumption, TypeOK, ScopeInv, [Next]_vars
  PROVE  ScopeInv'
<1> USE DEF call, target
<1>a. AppUid \in AppUids
  BY DEF AppUids
<1>b. ASSUME NEW p \in Pids, proc[p] # NoProcess, proc[p].package = App
      PROVE  proc[p].uid \in AppUids
  BY <1>b DEF AppUids, TypeOK
<1>c. SUFFICES ASSUME ~reused' PROVE ScopeInv'
  BY DEF ScopeInv
<1>1. ASSUME NEW from \in {"target", "status"}, NEW next \in {"pidof", "dumpsys", "done"},
             ReadStatus(from, next)
      PROVE  ScopeInv'
  <2>1. pc = from /\ pid \in Pids /\ ~reused /\ reused' = reused
    BY <1>1, <1>c DEF ReadStatus, TypeOK
  <2>2. CASE proc[pid] # NoProcess /\ BaseIs({proc[pid].uid})
    <3>1. proc[pid].package = App
      BY <2>1, <2>2 DEF ScopeInv
    <3> QED
      BY <2>1, <2>2, <3>1, <1>b, BaseIsScope
  <2>3. CASE Try(next)
    BY <2>1, <2>3, TryScope
  <2> QED
    BY <1>1, <2>2, <2>3 DEF ReadStatus
<1>2. CASE ReadTargetStatus
  BY <1>2, <1>1, FirstByPackageIs DEF ReadTargetStatus
<1>3. CASE Pidof
  <2>1. CASE pc' = "dumpsys"
    BY <1>3, <2>1 DEF Pidof, ScopeInv
  <2>2. ASSUME NEW p \in Pids, proc[p].cmdline = App, pid' = p, pc' = "status", uids' = uids
        PROVE  ScopeInv'
    <3>1. proc[p] = NoProcess \/ proc[p].package = App
      BY <2>2 DEF UidResolutionAssumption, TypeOK
    <3> QED
      BY <1>3, <2>2, <3>1 DEF Pidof, ScopeInv
  <2> QED
    BY <1>3, <2>1, <2>2 DEF Pidof
<1>4. CASE ReadPidofStatus
  BY <1>4, <1>1 DEF ReadPidofStatus
<1>5. CASE Dumpsys
  BY <1>5, <1>a, BaseIsScope, TryScope DEF Dumpsys
<1>6. CASE Stat
  BY <1>6, <1>a, BaseIsScope DEF Stat
<1>7. CASE Scan
  <2>1. uids \in SUBSET AppUids
    BY <1>7, <1>c DEF Scan, ScopeInv
  <2> QED
    BY <1>7, <2>1, AnswerScope DEF Scan, ScopeInv
<1>8. CASE Raise
  BY <1>8 DEF Raise, ScopeInv, Scoped
<1>9. ASSUME NEW p \in Pids, StartProcess(p) PROVE ScopeInv'
  <2>1. pc \in {"target", "status"} => p # pid
    BY <1>9, <1>c DEF StartProcess
  <2>2. pc \in {"target", "status"} => proc'[pid] = proc[pid]
    BY <1>9, <2>1 DEF StartProcess, TypeOK
  <2> QED
    BY <1>9, <1>c, <2>2 DEF StartProcess, ScopeInv
<1>10. ASSUME NEW p \in Pids, EndProcess(p) PROVE ScopeInv'
  <2>1. pc \in {"target", "status"} => proc'[pid] \in {proc[pid], NoProcess}
    BY <1>10 DEF EndProcess, TypeOK
  <2> QED
    BY <1>10, <2>1 DEF EndProcess, ScopeInv
<1>11. CASE UNCHANGED vars
  BY <1>11 DEF vars, ScopeInv
<1> QED
  BY <1>2, <1>3, <1>4, <1>5, <1>6, <1>7, <1>8, <1>9, <1>10, <1>11 DEF Next, Resolve

LEMMA ScopeInvHolds == Spec => []ScopeInv
<1>1. Init => ScopeInv
  <2> SUFFICES ASSUME Init PROVE ScopeInv
    OBVIOUS
  <2>1. pc \in {"target", "pidof", "done"} /\ uids = {}
    BY FirstByPackageIs DEF Init
  <2>2. pc = "target" => proc[pid].package = App
    BY FirstByPackageIs DEF Init
  <2> QED
    BY <2>1, <2>2 DEF ScopeInv, Scoped, Init
<1>2. TypeOK /\ ScopeInv /\ [Next]_vars => ScopeInv'
  BY ScopeInvStep, UidResolutionAssumption
<1> QED
  BY <1>1, <1>2, TypeCorrect, PTL DEF Spec

(* No UID of another app gets into the scope, whatever starts, ends and    *)
(* fails between the commands (a pid that is reused aside).                *)
THEOREM ScopeIsTheApps == Spec => []OnlyTheAppsUids
<1>1. ScopeInv => OnlyTheAppsUids
  BY DEF ScopeInv, OnlyTheAppsUids
<1> QED
  BY <1>1, ScopeInvHolds, PTL

(* An app that is not resolved never gives the DNS resolver alone.         *)
THEOREM DnsNeverAlone == Spec => []NeverDnsAlone
<1>1. ScopeInv => NeverDnsAlone
  BY UidResolutionAssumption DEF ScopeInv, NeverDnsAlone, Scoped, UidResolutionAssumption
<1> QED
  BY <1>1, ScopeInvHolds, PTL

------------------------------------------------------------------------------
(* The case InstalledIsResolved is about, and what holds on the way there. *)
Findable == ByPackage /\ installed /\ request.pid = NoPid /\ faults = 0 /\ ~reused

FoundInv ==
  Findable =>
    /\ pc # "target"
    /\ pc = "status" => proc[pid] = NoProcess \/ proc[pid].uid = AppUid
    /\ pc \in {"scan", "done"} => AppUid \in uids

LEMMA BaseIsFound ==
  ASSUME NEW found, BaseIs(found)
  PROVE  pc' \in {"scan", "done"} /\ found \subseteq uids'
BY DEF BaseIs, Answer

LEMMA FoundInvStep ==
  ASSUME UidResolutionAssumption, TypeOK, FoundInv, [Next]_vars
  PROVE  FoundInv'
<1> USE DEF call, target
<1>a. SUFFICES ASSUME Findable' PROVE FoundInv'
  BY DEF FoundInv
<1>b. Findable /\ ~Fails
  <2>1. request' = request /\ installed' = installed /\ ~reused
    <3>1. CASE Resolve
      <4>1. UNCHANGED <<call, target>>
        BY <3>1 DEF Resolve, ReadTargetStatus, ReadPidofStatus, ReadStatus, Pidof, Dumpsys,
                    Stat, Scan, Raise
      <4> QED
        BY <4>1, <1>a DEF Findable
    <3>2. ASSUME NEW p \in Pids, StartProcess(p)
          PROVE  request' = request /\ installed' = installed /\ ~reused
      BY <3>2, <1>a DEF StartProcess, Findable
    <3>3. ASSUME NEW p \in Pids, EndProcess(p)
          PROVE  request' = request /\ installed' = installed /\ ~reused
      BY <3>3, <1>a DEF EndProcess, Findable
    <3>4. CASE UNCHANGED vars
      BY <3>4, <1>a DEF vars, Findable
    <3> QED
      BY <3>1, <3>2, <3>3, <3>4 DEF Next
  <2>2. faults \in Nat /\ (Fails \/ faults' = faults)
    BY DEF TypeOK, Next, Resolve, vars, ReadTargetStatus, ReadPidofStatus, ReadStatus, Pidof,
           Dumpsys, Stat, Scan, Raise, StartProcess, EndProcess
  <2>3. faults' = 0 /\ ~Fails
    BY <1>a, <2>2 DEF Findable, Fails
  <2> QED
    BY <1>a, <2>1, <2>2, <2>3 DEF Findable, ByPackage, platform
<1>c. pc # "target" /\ (pc = "status" => proc[pid] = NoProcess \/ proc[pid].uid = AppUid)
      /\ (pc \in {"scan", "done"} => AppUid \in uids)
  BY <1>b DEF FoundInv
<1>1. CASE ReadTargetStatus
  BY <1>1, <1>c DEF ReadTargetStatus, ReadStatus
<1>2. CASE Pidof
  <2>1. CASE pc' = "dumpsys"
    BY <2>1 DEF FoundInv
  <2>2. ASSUME NEW p \in Pids, proc[p].cmdline = App, pid' = p, pc' = "status"
        PROVE  FoundInv'
    <3>1. proc[p] = NoProcess \/ proc[p].uid = AppUid
      BY <2>2 DEF UidResolutionAssumption, TypeOK
    <3> QED
      BY <1>2, <2>2, <3>1 DEF Pidof, FoundInv
  <2> QED
    BY <1>2, <2>1, <2>2 DEF Pidof
<1>3. CASE ReadPidofStatus
  <2>1. CASE proc[pid] # NoProcess /\ BaseIs({proc[pid].uid})
    <3>1. proc[pid].uid = AppUid
      BY <1>3, <2>1, <1>c DEF ReadPidofStatus, ReadStatus
    <3> QED
      BY <2>1, <3>1, BaseIsFound DEF FoundInv
  <2>2. CASE Try("dumpsys")
    BY <2>2 DEF Try, FoundInv
  <2> QED
    BY <1>3, <2>1, <2>2 DEF ReadPidofStatus, ReadStatus
<1>4. CASE Dumpsys
  <2>1. CASE BaseIs({AppUid})
    BY <2>1, BaseIsFound DEF FoundInv
  <2>2. CASE Try("stat")
    BY <2>2 DEF Try, FoundInv
  <2> QED
    BY <1>4, <2>1, <2>2 DEF Dumpsys
<1>5. CASE Stat
  <2>1. BaseIs({AppUid})
    BY <1>5, <1>b DEF Stat, Findable
  <2> QED
    BY <2>1, BaseIsFound DEF FoundInv
<1>6. CASE Scan
  BY <1>6, <1>c DEF Scan, Answer, FoundInv
<1>7. CASE Raise
  BY <1>7, <1>b DEF Raise
<1>8. ASSUME NEW p \in Pids, StartProcess(p) PROVE FoundInv'
  <2>1. pc = "status" => p # pid
    BY <1>8, <1>a DEF StartProcess, Findable
  <2>2. pc = "status" => proc'[pid] = proc[pid]
    BY <1>8, <2>1 DEF StartProcess, TypeOK
  <2> QED
    BY <1>8, <1>c, <2>2 DEF StartProcess, FoundInv
<1>9. ASSUME NEW p \in Pids, EndProcess(p) PROVE FoundInv'
  <2>1. pc = "status" => proc'[pid] \in {proc[pid], NoProcess}
    BY <1>9 DEF EndProcess, TypeOK
  <2> QED
    BY <1>9, <1>c, <2>1 DEF EndProcess, FoundInv
<1>10. CASE UNCHANGED vars
  BY <1>10, <1>c DEF vars, FoundInv
<1> QED
  BY <1>1, <1>2, <1>3, <1>4, <1>5, <1>6, <1>7, <1>8, <1>9, <1>10 DEF Next, Resolve

(* An installed package is resolved to its appId, whichever of its         *)
(* processes come and go, when no command fails.                           *)
THEOREM InstalledResolves == Spec => []InstalledIsResolved
<1>1. Init => FoundInv
  <2> SUFFICES ASSUME Init, Findable PROVE FoundInv
    BY DEF FoundInv
  <2>1. pc = "pidof"
    BY DEF Init, Findable, FirstByPackage
  <2> QED
    BY <2>1 DEF FoundInv
<1>2. TypeOK /\ FoundInv /\ [Next]_vars => FoundInv'
  BY FoundInvStep, UidResolutionAssumption
<1>3. FoundInv => InstalledIsResolved
  BY DEF FoundInv, Findable, InstalledIsResolved
<1> QED
  BY <1>1, <1>2, <1>3, TypeCorrect, PTL DEF Spec
==============================================================================
