--------------------------- MODULE NflogTierProofs ---------------------------
(***************************************************************************)
(* Type correctness of NflogTier and the theorem that no fault, crash,     *)
(* late command or overlap of hosts ever gets a connection marked, or a    *)
(* packet logged, for a UID that no capture was for.                       *)
(***************************************************************************)
EXTENDS NflogTier, NetfilterProofs

(* How long the two scripts are. *)
LEMMA ScriptLengths == Len(build_setup) = 8 /\ Len(build_teardown) = 10
BY DEF build_setup, build_teardown, DeleteJumps

(* Where a script goes after a line stays within its bounds. *)
LEMMA AdvanceType ==
  ASSUME PositionsOK, uids \in [Hosts -> SUBSET Uids],
         NEW h \in Hosts, NEW cmd, phase[h] \in Scripts, Advance(h, cmd)
  PROVE  PositionsOK'
<1>1. Len(Families) \in Nat \ {0}
  BY NflogTierAssumption
<1> USE ScriptLengths DEF PositionsOK
<1>2. CASE NextUid(h, cmd)
  BY <1>2 DEF NextUid
<1>3. CASE NextLine(h)
  <2>1. step[h] # Len(Script(phase[h])) /\ step' = [step EXCEPT ![h] = @ + 1]
    BY <1>3 DEF NextLine, LastLine
  <2>2. Len(Script(phase[h])) = IF phase[h] = "setup" THEN 8 ELSE 10
    BY DEF Script
  <2>3. step[h] \in 1..10 /\ (phase[h] = "setup" => step[h] <= 8)
    OBVIOUS
  <2>4. step[h] + 1 \in 1..10 /\ (phase[h] = "setup" => step[h] + 1 <= 8)
    BY <2>1, <2>2, <2>3
  <2>5. QED
    BY <1>3, <2>1, <2>4 DEF NextLine
<1>4. CASE NextFamily(h)
  <2>1. fam[h] + 1 \in 1..Len(Families)
    BY <1>1, <1>4 DEF NextFamily, LastFamily
  <2>2. QED
    BY <1>4, <2>1 DEF NextFamily
<1>5. CASE NextPhase(h)
  <2>1. CASE BeginScript(h, "setup", uids[h]) /\ UNCHANGED left
    BY <1>1, <2>1 DEF BeginScript, Enter, Phases, Scripts
  <2>2. CASE Enter(h, "launch") /\ UNCHANGED <<fam, step, todo, left>>
    BY <2>2 DEF Enter, Phases, Scripts
  <2>3. CASE left[h] > 1 /\ BeginScript(h, "teardown", uids[h]) /\ left' = [left EXCEPT ![h] = @ - 1]
    BY <1>1, <2>3 DEF BeginScript, Enter, Phases, Scripts
  <2>4. CASE Enter(h, "stopped") /\ UNCHANGED <<fam, step, todo, left>>
    BY <2>4 DEF Enter, Phases, Scripts, AtRest
  <2>5. QED
    BY <1>5, <2>1, <2>2, <2>3, <2>4 DEF NextPhase
<1>6. QED
  BY <1>2, <1>3, <1>4, <1>5 DEF Advance

(* A host always has a family of its own loops, and a connection one of    *)
(* the families.                                                           *)
LEMMA FamiliesInRange ==
  /\ \A i \in 1..Len(Families) : Families[i] \in ToSet(Families)
  /\ \A c \in Conns : FamilyOf[c] \in ToSet(Families)
BY NflogTierAssumption DEF ToSet

(* The outcome of a command, whichever it is, leaves tables of rules. *)
LEMMA ShellType ==
  ASSUME TypeOK, NEW h \in Hosts, NEW cmd \in Commands(todo[h]), Shell(h, cmd)
  PROVE  /\ TablesOK'
         /\ faults' \in Nat
         /\ epoch' \in {"clean", "shared", "faulty"}
<1> DEFINE f == Families[fam[h]]
<1>1. f \in ToSet(Families)
  BY FamiliesInRange DEF TypeOK, PositionsOK
<1>2. cmd \in Commands(Uids)
  BY CommandsMonotone DEF TypeOK, PositionsOK
<1>3. CASE /\ table' = [table EXCEPT ![f] = Apply(@, cmd)]
           /\ UNCHANGED <<late, faults, epoch>>
  <2>1. IsTable(Apply(table[f], cmd), Uids)
    BY <1>1, <1>2, ApplyType DEF TypeOK, TablesOK
  <2>2. QED
    BY <1>1, <1>3, <2>1 DEF TypeOK, TablesOK
<1>4. CASE Taint /\ UNCHANGED tableVars
  BY <1>4 DEF Taint, Fault, tableVars, TypeOK, TablesOK
<1>5. CASE /\ Taint
           /\ late' = late \cup {[id |-> faults, family |-> f, cmd |-> cmd]}
           /\ UNCHANGED table
  BY <1>1, <1>2, <1>5 DEF Taint, Fault, TypeOK, TablesOK
<1>6. QED
  BY <1>3, <1>4, <1>5 DEF Shell

(* A late command, and a rule another program adds or removes, too. *)
LEMMA DeviceType ==
  ASSUME TypeOK, RunLate \/ DeviceAdds \/ DeviceRemoves
  PROVE  TablesOK'
<1> USE DEF TypeOK, TablesOK
<1>1. CASE RunLate
  <2>1. PICK l \in late : /\ table' = [table EXCEPT ![l.family] = Apply(@, l.cmd)]
                          /\ late' = late \ {l}
    BY <1>1 DEF RunLate
  <2>2. l.family \in ToSet(Families) /\ l.cmd \in Commands(Uids)
    OBVIOUS
  <2>3. IsTable(Apply(table[l.family], l.cmd), Uids)
    BY <2>2, ApplyType
  <2>4. QED
    BY <2>1, <2>2, <2>3
<1>2. ASSUME NEW f \in ToSet(Families), NEW rules \in Seq(RulesOf("OUTPUT", Uids)),
             table' = [table EXCEPT ![f]["OUTPUT"] = rules], UNCHANGED late
      PROVE  TablesOK'
  <2>1. IsTable([table[f] EXCEPT !["OUTPUT"] = rules], Uids)
    BY DEF IsTable, Hooks
  <2>2. QED
    BY <1>2, <2>1
<1>3. \A f \in ToSet(Families) : table[f]["OUTPUT"] \in Seq(RulesOf("OUTPUT", Uids))
  BY DEF IsTable, Hooks
<1>4. CASE DeviceAdds
  <2>1. PICK f \in ToSet(Families) : \E pos \in {1, Len(table[f]["OUTPUT"]) + 1} :
          table' = [table EXCEPT ![f]["OUTPUT"] = InsertAt(table[f]["OUTPUT"], pos, DeviceRule)]
    BY <1>4 DEF DeviceAdds
  <2>2. /\ \A pos \in {1, Len(table[f]["OUTPUT"]) + 1} : pos \in 1..Len(table[f]["OUTPUT"]) + 1
        /\ DeviceRule \in RulesOf("OUTPUT", Uids)
    BY <1>3, RulesBelong
  <2>3. QED
    BY <1>2, <1>3, <1>4, <2>1, <2>2, InsertAtType DEF DeviceAdds
<1>5. CASE DeviceRemoves
  <2>1. PICK f \in ToSet(Families) :
          table' = [table EXCEPT ![f]["OUTPUT"] = RemoveFirst(table[f]["OUTPUT"], DeviceRule)]
    BY <1>5 DEF DeviceRemoves
  <2>2. QED
    BY <1>2, <1>3, <1>5, <2>1, RemoveFirstType DEF DeviceRemoves
<1>6. QED
  BY <1>1, <1>4, <1>5

------------------------------------------------------------------------------
(* Type correctness: tables are tables of iptables rules, and every host   *)
(* is at a line that its script has.                                       *)
THEOREM TypeCorrect == Spec => []TypeOK
<1>1. Init => TypeOK
  <2> SUFFICES ASSUME Init PROVE TypeOK
    OBVIOUS
  <2>1. IsTable(EmptyTable, Uids)
    BY DEF IsTable, EmptyTable, Hooks
  <2>2. TablesOK
    BY <2>1 DEF Init, TablesOK
  <2>3. PositionsOK
    BY ScriptLengths, NflogTierAssumption DEF Init, PositionsOK, Phases, AtRest
  <2>4. QED
    BY <2>2, <2>3 DEF Init, TypeOK, Closed
<1>2. TypeOK /\ [Next]_vars => TypeOK'
  <2> SUFFICES ASSUME TypeOK, [Next]_vars PROVE TypeOK'
    OBVIOUS
  <2> USE DEF TypeOK
  <2>1. ASSUME NEW h \in Hosts, RunLine(h) PROVE TypeOK'
    <3>1. PICK cmd \in Commands(todo[h]) : Shell(h, cmd) /\ Advance(h, cmd)
      BY <2>1 DEF RunLine
    <3>2. TablesOK' /\ faults' \in Nat /\ epoch' \in {"clean", "shared", "faulty"}
      BY <3>1, ShellType
    <3>3. PositionsOK'
      BY <2>1, <3>1, AdvanceType DEF RunLine
    <3>4. QED
      BY <2>1, <3>2, <3>3 DEF RunLine
  <2>2. ASSUME NEW h \in Hosts, NEW ph \in Phases, NEW us \in SUBSET Uids,
               BeginScript(h, ph, us), left' \in [Hosts -> 1..3]
        PROVE  PositionsOK'
    BY <2>2, ScriptLengths, NflogTierAssumption DEF PositionsOK, BeginScript, Enter
  <2>3. ASSUME NEW h \in Hosts, NEW ph \in Phases \ {"setup"},
               Enter(h, ph), UNCHANGED <<fam, step, todo, left>>
        PROVE  PositionsOK'
    BY <2>3 DEF PositionsOK, Enter
  <2>4. UNCHANGED tableVars => TablesOK'
    BY DEF tableVars, TablesOK
  <2>5. {"heal", "teardown", "cleanup", "failed", "launch", "capturing", "collect", "dead"}
          \subseteq Phases \ {"setup"}
    BY DEF Phases, Scripts, AtRest
  <2>6. \A h : Epoch(h) \in {"clean", "shared", "faulty"}
    BY DEF Epoch
  <2>7. ASSUME NEW h \in Hosts, SetupRaises(h) PROVE TypeOK'
    <3>1. /\ Enter(h, "failed") \/ Enter(h, "launch")
          /\ UNCHANGED <<fam, step, todo, left>>
          /\ UNCHANGED tableVars
      BY <2>7 DEF SetupRaises
    <3>2. TablesOK' /\ PositionsOK'
      BY <2>3, <2>4, <2>5, <3>1
    <3>3. warned' \in [Hosts -> BOOLEAN]
      BY <2>7 DEF SetupRaises
    <3>4. QED
      BY <2>7, <3>2, <3>3 DEF SetupRaises, Fault
  <2>8. ASSUME NEW h \in Hosts, Start(h) PROVE TypeOK'
    <3>1. PICK us \in UidSets : /\ uids' = [uids EXCEPT ![h] = us]
                               /\ scoped' = scoped \cup us
                               /\ BeginScript(h, "heal", us)
      BY <2>8 DEF Start
    <3>2. us \in SUBSET Uids
      BY NflogTierAssumption
    <3>3. left' \in [Hosts -> 1..3]
      BY <2>8 DEF Start, PositionsOK
    <3>4. PositionsOK'
      BY <2>2, <2>5, <3>1, <3>2, <3>3
    <3>5. conn' \in [Conns -> [owner : Uids \cup {NoUid}, marked : BOOLEAN, inherited : BOOLEAN]]
      BY <2>8 DEF Start
    <3>6. QED
      BY <2>4, <2>6, <2>8, <3>1, <3>2, <3>4, <3>5 DEF Start, Begin
  <2>9. ASSUME NEW h \in Hosts, Launch(h) PROVE TypeOK'
    BY <2>3, <2>4, <2>5, <2>9 DEF Launch, boundVars
  <2>10. ASSUME NEW h \in Hosts, Abort(h) PROVE TypeOK'
    BY <2>3, <2>4, <2>5, <2>10 DEF Abort, boundVars
  <2>11. ASSUME NEW h \in Hosts, ExitTeardown(h) PROVE TypeOK'
    <3>1. PositionsOK'
      <4>1. left' \in [Hosts -> 1..3]
        BY <2>11 DEF ExitTeardown, PositionsOK
      <4>2. QED
        BY <2>2, <2>5, <2>11, <4>1 DEF ExitTeardown, PositionsOK
    <3>2. QED
      BY <2>4, <2>6, <2>11, <3>1 DEF ExitTeardown, Begin, boundVars
  <2>12. ASSUME NEW h \in Hosts, Stop(h) PROVE TypeOK'
    BY <2>3, <2>4, <2>5, <2>6, <2>12 DEF Stop, Begin, boundVars
  <2>13. ASSUME NEW h \in Hosts, Collect(h) PROVE TypeOK'
    <3>1. PositionsOK'
      <4>1. left' \in [Hosts -> 1..3]
        BY <2>13 DEF Collect, PositionsOK
      <4>2. QED
        BY <2>2, <2>5, <2>13, <4>1 DEF Collect
    <3>2. QED
      BY <2>4, <2>13, <3>1 DEF Collect, boundVars
  <2>14. ASSUME NEW h \in Hosts, Cleanup(h) PROVE TypeOK'
    <3>1. PositionsOK'
      BY <2>2, <2>5, <2>14 DEF Cleanup, PositionsOK
    <3>2. QED
      BY <2>4, <2>6, <2>14, <3>1 DEF Cleanup, Begin
  <2>15. ASSUME NEW h \in Hosts, Crash(h) PROVE TypeOK'
    BY <2>3, <2>4, <2>5, <2>15 DEF Crash, Taint, Fault
  <2>16. CASE RunLate \/ DeviceAdds \/ DeviceRemoves
    <3>1. TablesOK'
      BY <2>16, DeviceType
    <3>2. UNCHANGED <<hostVars, conn, boundVars, scoped, epoch>>
      BY <2>16 DEF RunLate, DeviceAdds, DeviceRemoves
    <3>3. QED
      BY <3>1, <3>2 DEF hostVars, boundVars, PositionsOK
  <2>17. ASSUME NEW c \in Conns, Open(c) \/ Send(c) \/ Close(c) PROVE TypeOK'
    <3>1. UNCHANGED <<hostVars, tableVars, boundVars, scoped, epoch>>
      BY <2>17 DEF Open, Send, Close
    <3>2. conn' \in [Conns -> [owner : Uids \cup {NoUid}, marked : BOOLEAN, inherited : BOOLEAN]]
      <4>1. CASE Open(c)
        BY <4>1 DEF Open
      <4>2. CASE Send(c)
        <5>1. PICK inherited \in BOOLEAN :
                conn' = [conn EXCEPT ![c].marked = TRUE, ![c].inherited = inherited]
          BY <4>2 DEF Send
        <5>2. QED
          BY <5>1
      <4>3. CASE Close(c)
        BY <4>3 DEF Close, Closed
      <4>4. QED
        BY <2>17, <4>1, <4>2, <4>3
    <3>3. QED
      BY <2>4, <3>1, <3>2 DEF hostVars, boundVars, PositionsOK
  <2>18. CASE UNCHANGED vars
    BY <2>4, <2>18 DEF vars, hostVars, boundVars, PositionsOK
  <2>19. QED
    BY <2>1, <2>7, <2>8, <2>9, <2>10, <2>11, <2>12, <2>13, <2>14, <2>15, <2>16, <2>17, <2>18
       DEF Next, HostStep
<1>3. QED
  BY <1>1, <1>2, PTL DEF Spec

------------------------------------------------------------------------------
(* The inductive step of ScopedInv, for the commands a host runs.          *)
LEMMA ScopedTodo ==
  ASSUME NEW h \in Hosts, NEW cmd, NEW us,
         uids[h] \subseteq us, todo[h] \subseteq us, todo \in [Hosts -> SUBSET Uids],
         \A g \in Hosts : todo[g] \subseteq us,
         Advance(h, cmd)
  PROVE  \A g \in Hosts : todo'[g] \subseteq us
<1>1. CASE NextUid(h, cmd)
  BY <1>1 DEF NextUid
<1>2. CASE NextLine(h)
  BY <1>2 DEF NextLine
<1>3. CASE NextFamily(h)
  BY <1>3 DEF NextFamily
<1>4. CASE NextPhase(h)
  BY <1>4 DEF NextPhase, BeginScript
<1>5. QED
  BY <1>1, <1>2, <1>3, <1>4 DEF Advance

LEMMA ScopedRunLine ==
  ASSUME TypeOK, ScopedInv, NEW h \in Hosts, RunLine(h)
  PROVE  ScopedInv'
<1>1. PICK cmd \in Commands(todo[h]) : Shell(h, cmd) /\ Advance(h, cmd)
  BY DEF RunLine
<1>2. UNCHANGED <<uids, conn, scoped>>
  BY DEF RunLine
<1> DEFINE f == Families[fam[h]]
<1>3. f \in ToSet(Families)
  BY FamiliesInRange DEF TypeOK, PositionsOK
<1>4. cmd \in Commands(scoped)
  BY CommandsMonotone DEF ScopedInv
<1>5. IsTable(Apply(table[f], cmd), scoped)
  BY <1>3, <1>4, ApplyType DEF ScopedInv
<1>6. \A g \in ToSet(Families) : IsTable(table'[g], scoped)
  <2>1. table' = table \/ table' = [table EXCEPT ![f] = Apply(table[f], cmd)]
    BY <1>1 DEF Shell, tableVars
  <2>2. QED
    BY <1>3, <1>5, <2>1 DEF ScopedInv, TypeOK, TablesOK
<1>7. \A l \in late' : l.cmd \in Commands(scoped)
  <2>1. late' = late \/ late' = late \cup {[id |-> faults, family |-> f, cmd |-> cmd]}
    BY <1>1 DEF Shell, tableVars
  <2>2. QED
    BY <1>4, <2>1 DEF ScopedInv
<1>8. \A g \in Hosts : todo'[g] \subseteq scoped
  BY <1>1, ScopedTodo DEF ScopedInv, TypeOK, PositionsOK
<1>9. QED
  BY <1>2, <1>6, <1>7, <1>8 DEF ScopedInv, MarkedWereScoped

(* MarkedWereScoped and more: whatever fails, crashes, arrives late or     *)
(* overlaps, all that marks connections is for UIDs that captures were for. *)
THEOREM ScopedInvariant == Spec => []ScopedInv
<1>1. Init => ScopedInv
  BY DEF Init, ScopedInv, MarkedWereScoped, IsTable, EmptyTable, Hooks, Closed
<1>2. TypeOK /\ ScopedInv /\ [Next]_vars => ScopedInv'
  <2> SUFFICES ASSUME TypeOK, ScopedInv, [Next]_vars PROVE ScopedInv'
    OBVIOUS
  <2>1. ASSUME NEW h \in Hosts, RunLine(h) PROVE ScopedInv'
    BY <2>1, ScopedRunLine
  <2>2. ASSUME NEW h \in Hosts, Start(h) PROVE ScopedInv'
    <3>1. PICK us \in UidSets : /\ uids' = [uids EXCEPT ![h] = us]
                               /\ scoped' = scoped \cup us
                               /\ BeginScript(h, "heal", us)
      BY <2>2 DEF Start
    <3>2. UNCHANGED tableVars /\ scoped \subseteq scoped'
      BY <2>2, <3>1 DEF Start
    <3>3. \A f \in ToSet(Families) : IsTable(table'[f], scoped')
      BY <3>2, RulesMonotone DEF ScopedInv, tableVars
    <3>4. \A l \in late' : l.cmd \in Commands(scoped')
      BY <3>2, CommandsMonotone DEF ScopedInv, tableVars
    <3>5. \A g \in Hosts : uids'[g] \subseteq scoped' /\ todo'[g] \subseteq scoped'
      BY <3>1 DEF ScopedInv, BeginScript, TypeOK, PositionsOK
    <3>6. MarkedWereScoped'
      BY <2>2, <3>2 DEF Start, ScopedInv, MarkedWereScoped, TypeOK
    <3>7. QED
      BY <3>3, <3>4, <3>5, <3>6 DEF ScopedInv
  <2>3. ASSUME NEW h \in Hosts, ExitTeardown(h) \/ Collect(h) \/ Cleanup(h)
        PROVE  ScopedInv'
    <3>1. /\ UNCHANGED <<uids, tableVars, conn, scoped>>
          /\ todo' = [todo EXCEPT ![h] = uids[h]]
      BY <2>3 DEF ExitTeardown, Collect, Cleanup, BeginScript
    <3>2. QED
      BY <3>1 DEF ScopedInv, MarkedWereScoped, tableVars, TypeOK, PositionsOK
  <2>4. ASSUME UNCHANGED <<todo, uids, tableVars, conn, scoped>> PROVE ScopedInv'
    BY <2>4 DEF ScopedInv, MarkedWereScoped, tableVars
  <2>5. ASSUME NEW h \in Hosts,
               SetupRaises(h) \/ Launch(h) \/ Abort(h) \/ Stop(h) \/ Crash(h)
        PROVE  ScopedInv'
    BY <2>4, <2>5 DEF SetupRaises, Launch, Abort, Stop, Crash
  <2>6. CASE RunLate
    <3>1. PICK l \in late : /\ table' = [table EXCEPT ![l.family] = Apply(@, l.cmd)]
                            /\ late' = late \ {l}
      BY <2>6 DEF RunLate
    <3>2. l.family \in ToSet(Families) /\ l.cmd \in Commands(scoped)
      BY DEF ScopedInv, TypeOK, TablesOK
    <3>3. IsTable(Apply(table[l.family], l.cmd), scoped)
      BY <3>2, ApplyType DEF ScopedInv
    <3>4. \A f \in ToSet(Families) : IsTable(table'[f], scoped)
      BY <3>1, <3>2, <3>3 DEF ScopedInv, TypeOK, TablesOK
    <3>5. QED
      BY <2>6, <3>1, <3>4 DEF RunLate, hostVars, ScopedInv, MarkedWereScoped
  <2>7. CASE DeviceAdds \/ DeviceRemoves
    <3>1. PICK f \in ToSet(Families) : \E pos \in {1, Len(table[f]["OUTPUT"]) + 1} :
            \/ table' = [table EXCEPT ![f]["OUTPUT"] = InsertAt(table[f]["OUTPUT"], pos, DeviceRule)]
            \/ table' = [table EXCEPT ![f]["OUTPUT"] = RemoveFirst(table[f]["OUTPUT"], DeviceRule)]
      BY <2>7 DEF DeviceAdds, DeviceRemoves
    <3> DEFINE output == table[f]["OUTPUT"]
    <3>2. output \in Seq(RulesOf("OUTPUT", scoped))
      BY DEF ScopedInv, IsTable, Hooks
    <3>3. PICK rules \in Seq(RulesOf("OUTPUT", scoped)) : table' = [table EXCEPT ![f]["OUTPUT"] = rules]
      <4>1. DeviceRule \in RulesOf("OUTPUT", scoped)
        BY RulesBelong
      <4>2. \A pos \in {1, Len(output) + 1} : pos \in 1..Len(output) + 1
        BY <3>2
      <4>3. \A pos \in {1, Len(output) + 1} : InsertAt(output, pos, DeviceRule) \in Seq(RulesOf("OUTPUT", scoped))
        BY <3>2, <4>1, <4>2, InsertAtType
      <4>4. RemoveFirst(output, DeviceRule) \in Seq(RulesOf("OUTPUT", scoped))
        BY <3>2, RemoveFirstType
      <4>5. QED
        BY <3>1, <4>3, <4>4
    <3>4. IsTable([table[f] EXCEPT !["OUTPUT"] = rules], scoped)
      BY DEF ScopedInv, IsTable, Hooks
    <3>5. \A g \in ToSet(Families) : IsTable(table'[g], scoped)
      BY <3>3, <3>4 DEF ScopedInv, TypeOK, TablesOK
    <3>6. UNCHANGED <<todo, uids, late, conn, scoped>>
      BY <2>7 DEF DeviceAdds, DeviceRemoves, hostVars
    <3>7. QED
      BY <3>5, <3>6 DEF ScopedInv, MarkedWereScoped
  <2>8. ASSUME NEW c \in Conns, Open(c) \/ Send(c) \/ Close(c) PROVE ScopedInv'
    <3>1. UNCHANGED <<hostVars, tableVars, scoped>>
      BY <2>8 DEF Open, Send, Close
    <3>2. MarkedWereScoped'
      <4>1. CASE Open(c)
        <5>1. conn[c].owner = NoUid /\ NoUid \notin scoped
          BY <4>1, UidsAssumption DEF Open, TypeOK, NoUid
        <5>2. ~conn[c].marked
          BY <5>1 DEF ScopedInv, MarkedWereScoped
        <5>3. QED
          BY <3>1, <4>1, <5>2 DEF Open, ScopedInv, MarkedWereScoped, TypeOK
      <4>2. CASE Send(c)
        <5>1. conn[c].owner \in scoped
          BY <4>2, FamiliesInRange, StampsOnlyFor DEF Send, ScopedInv, Hooks
        <5>2. PICK inherited \in BOOLEAN :
                conn' = [conn EXCEPT ![c].marked = TRUE, ![c].inherited = inherited]
          BY <4>2 DEF Send, TypeOK
        <5>3. QED
          BY <3>1, <5>1, <5>2 DEF ScopedInv, MarkedWereScoped, TypeOK
      <4>3. CASE Close(c)
        BY <3>1, <4>3 DEF Close, Closed, ScopedInv, MarkedWereScoped, TypeOK
      <4>4. QED
        BY <2>8, <4>1, <4>2, <4>3
    <3>3. QED
      BY <3>1, <3>2 DEF ScopedInv, hostVars, tableVars
  <2>9. CASE UNCHANGED vars
    BY <2>4, <2>9 DEF vars, hostVars
  <2>10. QED
    BY <2>1, <2>2, <2>3, <2>5, <2>6, <2>7, <2>8, <2>9 DEF Next, HostStep
<1>3. QED
  BY <1>1, <1>2, TypeCorrect, PTL DEF Spec

(* Whatever happens, only connections of UIDs that captures were for are   *)
(* ever marked ...                                                         *)
THEOREM MarksAreScoped == Spec => []MarkedWereScoped
<1>1. ScopedInv => MarkedWereScoped
  BY DEF ScopedInv
<1>2. QED
  BY <1>1, ScopedInvariant, PTL

(* ... and no packet of any other connection is ever logged.               *)
THEOREM LogIsScoped == Spec => []LoggedWereScoped
<1>1. ScopedInv => LoggedWereScoped
  <2> SUFFICES ASSUME ScopedInv, NEW c \in Conns, conn[c].owner \notin scoped,
                      NEW hook \in Hooks
               PROVE  Copies(table[FamilyOf[c]], hook, conn[c].owner, conn[c].marked) = 0
    BY DEF LoggedWereScoped
  <2>1. ~conn[c].marked
    BY DEF ScopedInv, MarkedWereScoped
  <2>2. Stamps(table[FamilyOf[c]], hook, conn[c].owner) = {}
    BY FamiliesInRange, StampsOnlyFor DEF ScopedInv
  <2>3. QED
    BY <2>1, <2>2, FS_EmptySet DEF Copies
<1>2. QED
  BY <1>1, ScopedInvariant, PTL
==============================================================================
