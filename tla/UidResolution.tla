---------------------------- MODULE UidResolution ----------------------------
(***************************************************************************)
(* resolve_uids (src/apptap/uid.py): one shell command after the other on  *)
(* a target whose processes start and end in between.                      *)
(*                                                                         *)
(*   request    the arguments: target.pid, whether target.package is App,  *)
(*              the breadth and the executor                               *)
(*   installed  whether App is installed on the target                     *)
(*   proc       the target's process table                                 *)
(*   pc, pid, uids   the command that runs next, pids[0] of pidof, and the *)
(*              set that is collected and returned                         *)
(*                                                                         *)
(* churn and faults count towards the bounds.  steady (the processes that  *)
(* have lived since the call) and reused (the process a status is read of  *)
(* is not the one that had the pid) serve to state properties.             *)
(***************************************************************************)
EXTENDS Naturals

CONSTANTS Pids, NoPid,
          App, AppUid,       \* the package and its appId
          AidDns,
          Processes,         \* what may run: [package, cmdline, uid]
          LooksLikeApp,      \* the cmdlines that begin with App
          Executors,         \* which of those of executors/ and of a host tool
          MaxChurn,          \* bound: processes started and ended
          MaxFaults          \* bound: commands that fail or raise

Breadths == {"APP_ONLY", "APP_ISOLATED", "APP_ISOLATED_DNS"}
NoProcess == [package |-> "none", cmdline |-> "none", uid |-> 0]
AppUids == {p.uid : p \in {q \in Processes : q.package = App}} \cup {AppUid}

ASSUME UidResolutionAssumption ==
  /\ NoPid \notin Pids /\ NoProcess \notin Processes
  /\ Processes \subseteq [package : STRING, cmdline : STRING, uid : Nat]
  /\ \A p \in Processes : p.cmdline = App => p.package = App /\ p.uid = AppUid
  /\ Executors \subseteq {"adb", "local", "adapter"}
  /\ App \in STRING \ {NoProcess.package}
  /\ AppUid \in Nat /\ AidDns \in Nat /\ AidDns \notin AppUids
  /\ MaxChurn \in Nat /\ MaxFaults \in Nat

VARIABLES request, installed, proc, pc, pid, uids, churn, faults, steady, reused

call   == <<request, installed>>
target == <<proc, churn, steady, reused>>
vars   == <<call, target, pc, pid, uids, faults>>

Steps == {"target", "pidof", "status", "dumpsys", "stat", "scan", "done"}

platform == IF request.executor = "local" THEN "linux" ELSE "android"

(* AdbExecutor and LocalExecutor keep the arguments of shell() apart; an   *)
(* adapter that follows the Executor protocol joins them with spaces, and  *)
(* the target's shell takes the quotes in them away.                       *)
KeepsQuotes == request.executor # "adapter"

ByPackage == request.package /\ platform = "android"

FirstByPackage == IF ByPackage THEN "pidof" ELSE "done"

(* A pid the caller gives is that of one of the app's processes. *)
Init ==
  /\ proc \in [Pids -> Processes \cup {NoProcess}]
  /\ installed \in BOOLEAN
  /\ request \in [pid : Pids \cup {NoPid}, package : BOOLEAN,
                  breadth : Breadths, executor : Executors]
  /\ request.package \/ request.pid # NoPid
  /\ request.pid # NoPid => proc[request.pid].package = App
  /\ ~installed => \A p \in Pids : proc[p].package # App
  /\ pc = IF request.pid # NoPid THEN "target" ELSE FirstByPackage
  /\ pid = request.pid
  /\ uids = {}
  /\ churn = 0 /\ faults = 0
  /\ steady = {p \in Pids : proc[p] # NoProcess}
  /\ reused = FALSE

------------------------------------------------------------------------------
(* What get_base_uid and the rest of resolve_uids do once a base UID is    *)
(* found, or none is left to look for.                                     *)

(* Mutant: the resolver's UID is added before the set is tested. *)
AnswerDnsFirst(found) ==
  /\ pc' = "done"
  /\ uids' = IF request.breadth = "APP_ISOLATED_DNS" THEN found \cup {AidDns} ELSE found

Answer(found) ==
  /\ pc' = "done"
  /\ uids' = IF request.breadth = "APP_ISOLATED_DNS" /\ found # {}
             THEN found \cup {AidDns} ELSE found

BaseIs(found) ==
  \/ request.breadth # "APP_ONLY" /\ ByPackage /\ pc' = "scan" /\ uids' = found
  \/ ~(request.breadth # "APP_ONLY" /\ ByPackage) /\ Answer(found)

(* The next strategy, or the end of get_base_uid without a UID. *)
Try(step) == IF step = "done" THEN BaseIs({}) ELSE pc' = step /\ UNCHANGED uids

Fails == faults < MaxFaults /\ faults' = faults + 1

------------------------------------------------------------------------------
(* _read_status_uid, of target.pid and of the first pid pidof lists.       *)
ReadStatus(from, next) ==
  /\ pc = from
  /\ \/ proc[pid] # NoProcess /\ BaseIs({proc[pid].uid}) /\ UNCHANGED faults
     \/ proc[pid] = NoProcess /\ Try(next) /\ UNCHANGED faults
     \/ Fails /\ Try(next)
  /\ UNCHANGED <<call, target, pid>>

ReadTargetStatus == ReadStatus("target", FirstByPackage)

(* Mutant: a pid whose status cannot be read ends the search. *)
ReadPidofStatusOnly == ReadStatus("status", "done")

ReadPidofStatus == ReadStatus("status", "dumpsys")

(* Mutant: the first of the pids is taken without a look at whether there  *)
(* is one.                                                                 *)
PidofUnchecked ==
  /\ pc = "pidof"
  /\ LET listed == {p \in Pids : proc[p].cmdline = App /\ ~KeepsQuotes}
     IN \/ \E p \in listed : pid' = p /\ pc' = "status" /\ UNCHANGED faults
        \/ listed = {} /\ pc' = "status" /\ UNCHANGED <<pid, faults>>
        \/ Fails /\ pc' = "dumpsys" /\ UNCHANGED pid
  /\ UNCHANGED <<call, target, uids>>

(* pidof compares whole names, the quotes included. *)
Pidof ==
  /\ pc = "pidof"
  /\ LET listed == {p \in Pids : proc[p].cmdline = App /\ ~KeepsQuotes}
     IN \/ \E p \in listed : pid' = p /\ pc' = "status" /\ UNCHANGED faults
        \/ listed = {} /\ pc' = "dumpsys" /\ UNCHANGED <<pid, faults>>
        \/ Fails /\ pc' = "dumpsys" /\ UNCHANGED pid
  /\ UNCHANGED <<call, target, uids>>

Dumpsys ==
  /\ pc = "dumpsys"
  /\ LET listed == installed /\ ~KeepsQuotes
     IN \/ listed /\ BaseIs({AppUid}) /\ UNCHANGED faults
        \/ ~listed /\ Try("stat") /\ UNCHANGED faults
        \/ Fails /\ Try("stat")
  /\ UNCHANGED <<call, target, pid>>

(* The owner of /data/data/<pkg>, the only argument without quotes. *)
Stat ==
  /\ pc = "stat"
  /\ \/ installed /\ BaseIs({AppUid}) /\ UNCHANGED faults
     \/ ~installed /\ BaseIs({}) /\ UNCHANGED faults
     \/ Fails /\ BaseIs({})
  /\ UNCHANGED <<call, target, pid>>

(* Mutant: the script runs, and lists what its pattern matches. *)
ScanAsWritten ==
  /\ pc = "scan"
  /\ Answer(uids \cup {proc[p].uid : p \in {q \in Pids : proc[q].cmdline \in LooksLikeApp}})
  /\ UNCHANGED <<call, target, pid, faults>>

(* The script is passed in double quotes of its own.  An executor that     *)
(* keeps them makes sh take all of it for the name of one command (127).   *)
(* One that joins the arguments has the target's shell read it first,      *)
(* which ends the quotes at those inside and expands $c to nothing: sh     *)
(* gets a syntax error (2).  Neither is ok, so nothing is added.           *)
Scan ==
  /\ pc = "scan"
  /\ Answer(uids)
  /\ UNCHANGED <<call, target, pid, faults>>

(* Any command may raise: _resolve_uids in api.py returns no UID then. *)
Raise ==
  /\ pc # "done"
  /\ Fails
  /\ pc' = "done" /\ uids' = {}
  /\ UNCHANGED <<call, target, pid>>

------------------------------------------------------------------------------
(* The target's processes.                                                 *)

StartProcess(p) ==
  /\ proc[p] = NoProcess
  /\ churn < MaxChurn /\ churn' = churn + 1
  /\ \E new \in Processes :
       /\ new.package = App => installed
       /\ proc' = [proc EXCEPT ![p] = new]
  /\ reused' = (reused \/ (pc \in {"target", "status"} /\ p = pid))
  /\ UNCHANGED <<call, pc, pid, uids, faults, steady>>

EndProcess(p) ==
  /\ proc[p] # NoProcess
  /\ churn < MaxChurn /\ churn' = churn + 1
  /\ proc' = [proc EXCEPT ![p] = NoProcess]
  /\ steady' = steady \ {p}
  /\ UNCHANGED <<call, pc, pid, uids, faults, reused>>

------------------------------------------------------------------------------
Resolve == ReadTargetStatus \/ Pidof \/ ReadPidofStatus \/ Dumpsys \/ Stat \/ Scan \/ Raise

Next == Resolve \/ \E p \in Pids : StartProcess(p) \/ EndProcess(p)

Spec == Init /\ [][Next]_vars

------------------------------------------------------------------------------
TypeOK ==
  /\ request \in [pid : Pids \cup {NoPid}, package : BOOLEAN,
                  breadth : Breadths, executor : Executors]
  /\ installed \in BOOLEAN
  /\ proc \in [Pids -> Processes \cup {NoProcess}]
  /\ pc \in Steps
  /\ pid \in Pids \cup {NoPid}
  /\ pc \in {"target", "status"} => pid \in Pids
  /\ uids \subseteq Nat
  /\ churn \in Nat /\ faults \in Nat
  /\ steady \subseteq Pids /\ reused \in BOOLEAN

(* uid.py:110 "every UID belonging to the package": whatever starts and    *)
(* ends between the commands, and whichever of them fail, no UID of another *)
(* app gets into the scope, unless the one pid whose status is read is     *)
(* given to another process just before.                                   *)
OnlyTheAppsUids ==
  pc = "done" /\ ~reused => uids \subseteq AppUids \cup {AidDns}

(* uid.py:70 "First success wins": an installed package is resolved, by    *)
(* one strategy or another, also when its process ends in the middle; and  *)
(* what is found is its appId.                                             *)
InstalledIsResolved ==
  (/\ pc = "done" /\ ByPackage /\ installed
   /\ request.pid = NoPid /\ faults = 0 /\ ~reused)
    => AppUid \in uids

(* api.py:11 "If the UID cannot be resolved at all ... whole-device": an   *)
(* unresolved app gives the empty set, never the DNS resolver alone, which *)
(* would pass for a scope and go unflagged (a reused pid aside).           *)
NeverDnsAlone == pc = "done" /\ ~reused => uids # {AidDns}

(* uid.py:169 "APP_ISOLATED -> base UID + isolated/WebView child UIDs":    *)
(* the children that live throughout the call are in scope.  They never    *)
(* are (a run shows it).                                                   *)
ChildrenAreScoped ==
  pc = "done" /\ ByPackage /\ request.breadth # "APP_ONLY" /\ faults = 0 =>
    \A p \in steady : proc[p].package = App => proc[p].uid \in uids
==============================================================================
