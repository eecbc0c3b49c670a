------------------------------ MODULE NflogTier ------------------------------
(***************************************************************************)
(* Tier 2 (src/apptap/tiers/nflog.py) as a capture session drives it: each *)
(* host process installs, uses and removes the netfilter rules, one        *)
(* iptables command at a time, on tables shared with the other hosts, with *)
(* netd and with the device's traffic.                                     *)
(*                                                                         *)
(*   table    the mangle table of each address family                      *)
(*   phase    where each host is: the script it runs, or between scripts   *)
(*   fam      the family whose script it runs (an index of Families)       *)
(*   step     the line of that script it runs next                         *)
(*   todo     the UIDs its PerUid loop has yet to handle in this family    *)
(*   left     how many teardown scripts it runs, this one included         *)
(*   uids     the UIDs its current or last capture is for                  *)
(*   warned   whether it warned that the IPv6 rules may be missing         *)
(*   late     commands that outlived their time-out and may run any time   *)
(*   conn     the device's connections                                     *)
(*                                                                         *)
(* faults and starts count towards the bounds.  scoped and epoch only      *)
(* serve to state properties: scoped is every UID any capture was ever     *)
(* for, and epoch says what happened since a script last began with every  *)
(* other host at rest and no command outstanding: nothing but that host    *)
(* ran ("clean"), others did ("shared"), something went wrong ("faulty").  *)
(***************************************************************************)
EXTENDS Netfilter

CONSTANTS Hosts,             \* AppTap processes
          Families,          \* the ipt arguments in the order of the loops
          UidSets,           \* what UID resolution may return, never empty here
          Conns, FamilyOf,   \* connections and the family each belongs to
          MaxFaults,         \* bound: lost, late and raising commands, crashes
          MaxLate,           \* bound: commands outstanding at once
          MaxStarts,         \* bound: scripts begun by Start and Cleanup
          MaxDeviceRules,    \* bound: rules other programs keep in OUTPUT
          DevicePrepends     \* whether they insert at the head of OUTPUT

ASSUME NflogTierAssumption ==
  /\ IsFiniteSet(Hosts)
  /\ Families \in Seq(STRING) /\ Families # <<>> /\ IsInjective(Families)
  /\ UidSets \subseteq (SUBSET Uids) \ {{}}
  /\ \A us \in UidSets : IsFiniteSet(us)
  /\ FamilyOf \in [Conns -> ToSet(Families)]
  /\ {MaxFaults, MaxLate, MaxStarts, MaxDeviceRules} \subseteq Nat
  /\ DevicePrepends \in BOOLEAN

VARIABLES table, phase, fam, step, todo, left, uids, warned, late, conn,
          faults, starts, scoped, epoch

hostVars   == <<phase, fam, step, todo, left, uids, warned>>
tableVars  == <<table, late>>
boundVars  == <<faults, starts>>
vars == <<hostVars, tableVars, conn, boundVars, scoped, epoch>>

Scripts == {"heal", "setup", "teardown", "cleanup"}
AtRest  == {"idle", "failed", "stopped", "dead"}
Phases  == Scripts \cup AtRest \cup {"launch", "capturing", "collect"}
Installing == {"setup", "launch", "capturing"}   \* rules of this run, not of an earlier one

Closed == [owner |-> NoUid, marked |-> FALSE, inherited |-> FALSE]

Init ==
  /\ table = [f \in ToSet(Families) |-> EmptyTable]
  /\ phase = [h \in Hosts |-> "idle"]
  /\ fam = [h \in Hosts |-> 1]
  /\ step = [h \in Hosts |-> 1]
  /\ todo = [h \in Hosts |-> {}]
  /\ left = [h \in Hosts |-> 1]
  /\ uids = [h \in Hosts |-> {}]
  /\ warned = [h \in Hosts |-> FALSE]
  /\ late = {}
  /\ conn = [c \in Conns |-> Closed]
  /\ faults = 0
  /\ starts = 0
  /\ scoped = {}
  /\ epoch = "clean"

------------------------------------------------------------------------------
(* Running a script, one command at a time.                                *)

Enter(h, ph) == phase' = [phase EXCEPT ![h] = ph]

Epoch(h) ==
  IF \A other \in Hosts \ {h} : phase[other] \in AtRest
  THEN IF late = {} THEN "clean" ELSE "faulty"
  ELSE IF epoch = "faulty" THEN "faulty" ELSE "shared"

(* Host h begins script ph for the UIDs us. *)
BeginScript(h, ph, us) ==
  /\ Enter(h, ph)
  /\ fam' = [fam EXCEPT ![h] = 1]
  /\ step' = [step EXCEPT ![h] = 1]
  /\ todo' = [todo EXCEPT ![h] = us]

Script(ph) == IF ph = "setup" THEN build_setup ELSE build_teardown

Line(h) == Script(phase[h])[step[h]]

IsNext(h, cmd) ==
  \/ Line(h) # PerUid /\ cmd = Line(h)
  \/ /\ Line(h) = PerUid
     /\ \E uid \in todo[h] :
          /\ \A other \in todo[h] : uid <= other
          /\ cmd = AppendRule(CHAIN_MARK, SetXmark(uid))

Looping(h) == Line(h) = PerUid /\ Cardinality(todo[h]) > 1
(* Mutant: the loop over the commands runs past the last one. *)
PastLastLine(h) == step[h] = Len(Script(phase[h])) + 1

LastLine(h) == step[h] = Len(Script(phase[h]))
LastFamily(h) == fam[h] = Len(Families)

NextUid(h, cmd) ==
  /\ Looping(h)
  /\ todo' = [todo EXCEPT ![h] = @ \ {cmd.rule.uid}]
  /\ UNCHANGED <<phase, fam, step, left>>

NextLine(h) ==
  /\ ~Looping(h) /\ ~LastLine(h)
  /\ step' = [step EXCEPT ![h] = @ + 1]
  /\ UNCHANGED <<phase, fam, todo, left>>

NextFamily(h) ==
  /\ LastLine(h) /\ ~LastFamily(h)
  /\ fam' = [fam EXCEPT ![h] = @ + 1]
  /\ step' = [step EXCEPT ![h] = 1]
  /\ todo' = [todo EXCEPT ![h] = uids[h]]
  /\ UNCHANGED <<phase, left>>

NextPhase(h) ==
  /\ LastLine(h) /\ LastFamily(h)
  /\ \/ phase[h] = "heal" /\ BeginScript(h, "setup", uids[h]) /\ UNCHANGED left
     \/ phase[h] = "setup" /\ Enter(h, "launch") /\ UNCHANGED <<fam, step, todo, left>>
     \/ /\ phase[h] = "teardown" /\ left[h] > 1
        /\ BeginScript(h, "teardown", uids[h])
        /\ left' = [left EXCEPT ![h] = @ - 1]
     \/ /\ phase[h] = "cleanup" \/ (phase[h] = "teardown" /\ left[h] = 1)
        /\ Enter(h, "stopped")
        /\ UNCHANGED <<fam, step, todo, left>>

Advance(h, cmd) == NextUid(h, cmd) \/ NextLine(h) \/ NextFamily(h) \/ NextPhase(h)

Fault == faults < MaxFaults /\ faults' = faults + 1
Taint == Fault /\ epoch' = "faulty"

(* What executor.shell makes of a command whose outcome nobody looks at:   *)
(* it runs; it does not (no connection, no root, a refusal, an exception   *)
(* that is swallowed); or it times out here and runs there later.          *)
Shell(h, cmd) ==
  LET f == Families[fam[h]] IN
    \/ /\ table' = [table EXCEPT ![f] = Apply(@, cmd)]
       /\ UNCHANGED <<late, faults, epoch>>
    \/ Taint /\ UNCHANGED tableVars
    \/ /\ Taint
       /\ Cardinality(late) < MaxLate
       /\ late' = late \cup {[id |-> faults, family |-> f, cmd |-> cmd]}
       /\ UNCHANGED table

RunLine(h) ==
  /\ phase[h] \in Scripts
  /\ \E cmd \in Commands(todo[h]) : IsNext(h, cmd) /\ Shell(h, cmd) /\ Advance(h, cmd)
  /\ UNCHANGED <<uids, warned, conn, starts, scoped>>

(* shell raises while rules are being installed: fatal for the first       *)
(* family, a warning for the others, whose remaining commands are skipped. *)
SetupRaises(h) ==
  /\ phase[h] = "setup"
  /\ Fault
  /\ \/ fam[h] = 1 /\ Enter(h, "failed") /\ UNCHANGED warned
     \/ fam[h] > 1 /\ Enter(h, "launch") /\ warned' = [warned EXCEPT ![h] = TRUE]
  /\ UNCHANGED <<fam, step, todo, left, uids, tableVars, conn, starts, scoped, epoch>>

------------------------------------------------------------------------------
(* The lifecycle the session drives.                                       *)

Begin(h) == epoch' = Epoch(h)

(* CaptureSession.start chose Tier 2: NflogTier.start heals, then installs. *)
Start(h) ==
  /\ phase[h] \in AtRest
  /\ starts < MaxStarts /\ starts' = starts + 1
  /\ \E us \in UidSets :
       /\ uids' = [uids EXCEPT ![h] = us]
       /\ scoped' = scoped \cup us
       /\ BeginScript(h, "heal", us)
  /\ warned' = [warned EXCEPT ![h] = FALSE]
  /\ conn' = [c \in Conns |-> [conn[c] EXCEPT !.inherited = conn[c].marked]]
  /\ Begin(h)
  /\ UNCHANGED <<left, tableVars, faults>>

(* tcpdump is launched; from here on the session counts as started. *)
Launch(h) ==
  /\ phase[h] = "launch"
  /\ Enter(h, "capturing")
  /\ UNCHANGED <<fam, step, todo, left, uids, warned, tableVars, conn, boundVars, scoped, epoch>>

(* An exception or Ctrl-C leaves start() before the session is started. *)
Abort(h) ==
  /\ phase[h] \in {"heal", "setup", "launch"}
  /\ Enter(h, "failed")
  /\ UNCHANGED <<fam, step, todo, left, uids, warned, tableVars, conn, boundVars, scoped, epoch>>

(* __exit__ of a session that never started: one teardown.  A caller that  *)
(* uses capture(), or no with statement, never gets here.                  *)
ExitTeardown(h) ==
  /\ phase[h] = "failed"
  /\ BeginScript(h, "teardown", uids[h])
  /\ left' = [left EXCEPT ![h] = 1]
  /\ Begin(h)
  /\ UNCHANGED <<uids, warned, tableVars, conn, boundVars, scoped>>

Stop(h) ==
  /\ phase[h] = "capturing"
  /\ Enter(h, "collect")
  /\ Begin(h)
  /\ UNCHANGED <<fam, step, todo, left, uids, warned, tableVars, conn, boundVars, scoped>>

(* tcpdump is stopped and its pcap fetched.  Then the tier tears down and, *)
(* in its finally clause, the session once more.  If fetching raises, only *)
(* the session does.  When stop() raised, __exit__ calls it again, and if  *)
(* that raises too, tears down once more: up to three times in all.        *)
Collect(h) ==
  /\ phase[h] = "collect"
  /\ BeginScript(h, "teardown", uids[h])
  /\ \E n \in 1..3 : left' = [left EXCEPT ![h] = n]
  /\ UNCHANGED <<uids, warned, tableVars, conn, boundVars, scoped, epoch>>

(* apptap --cleanup *)
Cleanup(h) ==
  /\ phase[h] \in AtRest
  /\ starts < MaxStarts /\ starts' = starts + 1
  /\ BeginScript(h, "cleanup", uids[h])
  /\ Begin(h)
  /\ UNCHANGED <<left, uids, warned, tableVars, conn, faults, scoped>>

(* The process is killed, or loses the device for good. *)
Crash(h) ==
  /\ phase[h] \notin AtRest
  /\ Taint
  /\ Enter(h, "dead")
  /\ UNCHANGED <<fam, step, todo, left, uids, warned, tableVars, conn, starts, scoped>>

------------------------------------------------------------------------------
(* The device: late commands, other programs' rules, traffic.              *)

RunLate ==
  /\ \E l \in late :
       /\ table' = [table EXCEPT ![l.family] = Apply(@, l.cmd)]
       /\ late' = late \ {l}
  /\ UNCHANGED <<hostVars, conn, boundVars, scoped, epoch>>

DeviceAdds ==
  /\ \E f \in ToSet(Families) :
       LET output == table[f]["OUTPUT"] IN
         /\ Cardinality(Places(output, DeviceRule)) < MaxDeviceRules
         /\ \E pos \in {Len(output) + 1} \cup (IF DevicePrepends THEN {1} ELSE {}) :
              table' = [table EXCEPT ![f]["OUTPUT"] = InsertAt(@, pos, DeviceRule)]
  /\ UNCHANGED <<hostVars, late, conn, boundVars, scoped, epoch>>

DeviceRemoves ==
  /\ \E f \in ToSet(Families) :
       /\ DeviceRule \in ToSet(table[f]["OUTPUT"])
       /\ table' = [table EXCEPT ![f]["OUTPUT"] = RemoveFirst(@, DeviceRule)]
  /\ UNCHANGED <<hostVars, late, conn, boundVars, scoped, epoch>>

Open(c) ==
  /\ conn[c].owner = NoUid
  /\ \E uid \in Uids : conn' = [conn EXCEPT ![c].owner = uid]
  /\ UNCHANGED <<hostVars, tableVars, boundVars, scoped, epoch>>

(* The connection sends: its packet passes OUTPUT and may get it marked,   *)
(* by the rules of an earlier run if no host is past its heal.             *)
Send(c) ==
  /\ conn[c].owner # NoUid
  /\ Stamps(table[FamilyOf[c]], "OUTPUT", conn[c].owner) # {}
  /\ conn' = [conn EXCEPT
       ![c].marked = TRUE,
       ![c].inherited = @ \/ (~conn[c].marked
                                 /\ \A h \in Hosts : phase[h] \notin Installing)]
  /\ UNCHANGED <<hostVars, tableVars, boundVars, scoped, epoch>>

Close(c) ==
  /\ conn[c].owner # NoUid
  /\ conn' = [conn EXCEPT ![c] = Closed]
  /\ UNCHANGED <<hostVars, tableVars, boundVars, scoped, epoch>>

------------------------------------------------------------------------------
HostStep(h) ==
  \/ RunLine(h) \/ SetupRaises(h)
  \/ Start(h) \/ Launch(h) \/ Abort(h) \/ ExitTeardown(h)
  \/ Stop(h) \/ Collect(h) \/ Cleanup(h) \/ Crash(h)

Next ==
  \/ \E h \in Hosts : HostStep(h)
  \/ RunLate \/ DeviceAdds \/ DeviceRemoves
  \/ \E c \in Conns : Open(c) \/ Send(c) \/ Close(c)

Spec == Init /\ [][Next]_vars

(* A host runs its script to the end unless it is killed: every shell call *)
(* returns, by its own time-out if need be.  Nothing makes a user start,   *)
(* stop or clean up.                                                       *)
Fairness ==
  \A h \in Hosts : WF_vars(RunLine(h)) /\ WF_vars(Launch(h)) /\ WF_vars(Collect(h))

FairSpec == Spec /\ Fairness

------------------------------------------------------------------------------
TablesOK ==
  /\ table = [f \in ToSet(Families) |-> table[f]]
  /\ \A f \in ToSet(Families) : IsTable(table[f], Uids)
  /\ late \subseteq [id : Nat, family : ToSet(Families), cmd : Commands(Uids)]

PositionsOK ==
  /\ phase \in [Hosts -> Phases]
  /\ fam \in [Hosts -> 1..Len(Families)]
  /\ step \in [Hosts -> 1..Len(build_teardown)]
  /\ todo \in [Hosts -> SUBSET Uids]
  /\ left \in [Hosts -> 1..3]
  /\ \A h \in Hosts : phase[h] = "setup" => step[h] <= Len(build_setup)

TypeOK ==
  /\ TablesOK
  /\ PositionsOK
  /\ uids \in [Hosts -> SUBSET Uids]
  /\ warned \in [Hosts -> BOOLEAN]
  /\ conn \in [Conns -> [owner : Uids \cup {NoUid}, marked : BOOLEAN, inherited : BOOLEAN]]
  /\ faults \in Nat /\ starts \in Nat
  /\ scoped \subseteq Uids
  /\ epoch \in {"clean", "shared", "faulty"}

(* nflog.py:3 "marks and logs only the app's connections", for the         *)
(* connections no earlier capture marked: while a capture runs that        *)
(* nothing disturbed, the next packet a connection sends is logged exactly *)
(* once if it is the app's and not at all otherwise, and replies are       *)
(* logged exactly once from the app's first packet on.                     *)
LoggedAsPromised(h, c) ==
  LET t == table[FamilyOf[c]]
      its == conn[c].owner \in uids[h]
  IN /\ Copies(t, "OUTPUT", conn[c].owner, conn[c].marked) = IF its THEN 1 ELSE 0
     /\ Copies(t, "PREROUTING", NoUid, conn[c].marked) = IF conn[c].marked THEN 1 ELSE 0
     /\ conn[c].marked => its

Undisturbed(h, c) ==
  /\ phase[h] = "capturing" /\ epoch = "clean"
  /\ conn[c].owner # NoUid
  /\ warned[h] => FamilyOf[c] = Families[1]

FreshConnectionsScoped ==
  \A h \in Hosts, c \in Conns :
    Undisturbed(h, c) /\ ~conn[c].inherited => LoggedAsPromised(h, c)

(* The same without the exception (a run shows that it fails): a           *)
(* connection marked by an earlier capture keeps its mark when the rules   *)
(* go, and is logged into the next capture, whosever it is.                *)
AllConnectionsScoped ==
  \A h \in Hosts, c \in Conns : Undisturbed(h, c) => LoggedAsPromised(h, c)

(* netfilter.py:143 "remove exactly what build_setup created" and the      *)
(* docstring's "repeated or partial application is harmless": when every   *)
(* host has stopped or cleaned up and nothing failed since it began to,    *)
(* no AppTap chain is left, whatever failed, died or ran twice before.     *)
TidyWhenAllStopped ==
  (epoch # "faulty" /\ \A h \in Hosts : phase[h] \in {"idle", "stopped"})
    => \A f \in ToSet(Families) : Tidy(table[f])

(* Whatever fails, crashes, arrives late or overlaps, a connection is only *)
(* ever marked, and a packet only ever logged, for a UID that some capture *)
(* was for.                                                                *)
MarkedWereScoped == \A c \in Conns : conn[c].marked => conn[c].owner \in scoped

LoggedWereScoped ==
  \A c \in Conns : conn[c].owner \notin scoped =>
    \A hook \in Hooks :
      Copies(table[FamilyOf[c]], hook, conn[c].owner, conn[c].marked) = 0

(* Why that holds: everything that can still mark a connection, and every  *)
(* mark there is, is for a UID of scoped.  (The inductive invariant of the *)
(* proof.)                                                                 *)
ScopedInv ==
  /\ \A h \in Hosts : uids[h] \subseteq scoped /\ todo[h] \subseteq scoped
  /\ \A f \in ToSet(Families) : IsTable(table[f], scoped)
  /\ \A l \in late : l.cmd \in Commands(scoped)
  /\ MarkedWereScoped

(* nflog.py:68 "Remove the netfilter rules": a teardown or cleanup that    *)
(* nothing disturbs gets to the end of it, and what any earlier run has    *)
(* left, of lost and late commands and of hosts that crashed, eventually   *)
(* is gone.                                                                *)
LeftoversRemoved ==
  \A h \in Hosts :
    (phase[h] \in {"collect", "teardown", "cleanup"} /\ epoch = "clean")
      ~> (epoch # "clean" \/ \A f \in ToSet(Families) : Tidy(table[f]))
==============================================================================
