--------------------------- MODULE NflogTablesProofs ---------------------------
(***************************************************************************)
(* The tables end up tidy, and are right while an undisturbed capture      *)
(* runs: the invariants of NflogTables and NflogFresh are inductive, and   *)
(* TidyWhenAllStopped and FreshConnectionsScoped follow from them.         *)
(***************************************************************************)
EXTENDS NflogFresh, NflogTierProofs

------------------------------------------------------------------------------
(* Which command a host runs next.                                         *)

(* Which line a host's next command is of. *)
LEMMA CleaningCommand ==
  ASSUME PositionsOK, NEW h \in Hosts, NEW cmd, phase[h] \in Cleaning, IsNext(h, cmd)
  PROVE  /\ cmd = build_teardown[step[h]] /\ step[h] \in 1..10 /\ ~Looping(h)
         /\ Len(Script(phase[h])) = 10
         /\ \A hook, pos, r : cmd # InsertRule(hook, pos, r)
         /\ \A c : cmd # NewChain(c)
         /\ \A c, r : cmd # AppendRule(c, r)
<1>1. Line(h) = build_teardown[step[h]] /\ Len(Script(phase[h])) = 10 /\ step[h] \in 1..10
  BY ScriptLengths DEF Cleaning, Line, Script, PositionsOK
<1>2. \/ \E hook, r : Line(h) = DeleteRule(hook, r)
      \/ \E c : Line(h) = FlushChain(c) \/ Line(h) = DeleteChain(c)
  <2>1. CASE step[h] \in 1..3
    BY <1>1, <2>1, TeardownLines DEF JumpLines
  <2>2. CASE step[h] \in 4..6
    <3>1. step[h] - 3 \in JumpLines /\ (step[h] - 3) + 3 = step[h]
      BY <2>2 DEF JumpLines
    <3>2. QED
      BY <1>1, <3>1, TeardownLines
  <2>3. CASE step[h] \in 7..8
    <3>1. step[h] - 6 \in ChainLines /\ 6 + (step[h] - 6) = step[h]
      BY <2>3 DEF ChainLines
    <3>2. QED
      BY <1>1, <3>1, TeardownLines
  <2>4. CASE step[h] \in 9..10
    <3>1. step[h] - 8 \in ChainLines /\ 8 + (step[h] - 8) = step[h]
      BY <2>4 DEF ChainLines
    <3>2. QED
      BY <1>1, <3>1, TeardownLines
  <2>5. QED
    BY <1>1, <2>1, <2>2, <2>3, <2>4
<1>3. Line(h).op \in {"-D", "-F", "-X"}
  BY <1>2 DEF DeleteRule, FlushChain, DeleteChain
<1>4. Line(h) # PerUid
  <2>1. PerUid.op \notin {"-D", "-F", "-X"}
    BY DEF PerUid
  <2>2. QED
    BY <1>3, <2>1
<1>5. cmd = Line(h) /\ ~Looping(h)
  BY <1>4 DEF IsNext, Looping
<1>6. /\ \A hook, pos, r : InsertRule(hook, pos, r).op = "-I"
      /\ \A c : NewChain(c).op = "-N"
      /\ \A c, r : AppendRule(c, r).op = "-A"
  BY DEF InsertRule, NewChain, AppendRule
<1>7. QED
  BY <1>1, <1>3, <1>5, <1>6

LEMMA SetupCommand ==
  ASSUME PositionsOK, NEW h \in Hosts, NEW cmd, phase[h] = "setup", IsNext(h, cmd)
  PROVE  /\ step[h] \in 1..8 /\ Len(Script(phase[h])) = 8
         /\ Looping(h) => step[h] = 3
         /\ \A j \in JumpLines, pos \in {1, 2} :
              cmd = InsertRule(JumpHook[j], pos, JumpOf(j)) => step[h] = 9 - j
         /\ \A c \in ChainLines : cmd = NewChain(ChainAt[c]) => step[h] = c
         /\ \A c, r : cmd = AppendRule(c, r) => step[h] \in {3, 4, 5}
         /\ \A hook, r : cmd # DeleteRule(hook, r)
         /\ \A c : cmd # FlushChain(c) /\ cmd # DeleteChain(c)
<1>1. Line(h) = build_setup[step[h]] /\ Len(Script(phase[h])) = 8 /\ step[h] \in 1..8
  BY ScriptLengths DEF Line, Script, PositionsOK
<1>2. CASE step[h] = 3
  <2>1. \E u : cmd = AppendRule(CHAIN_MARK, SetXmark(u))
    BY <1>1, <1>2, SetupLines DEF IsNext
  <2>2. QED
    BY <1>1, <1>2, <2>1
       DEF AppendRule, InsertRule, NewChain, DeleteRule, FlushChain, DeleteChain
<1>3. CASE step[h] # 3
  <2>1. /\ \/ step[h] = 1 /\ Line(h) = NewChain(CHAIN_MARK)
           \/ step[h] = 2 /\ Line(h) = NewChain(CHAIN_LOG)
           \/ step[h] = 4 /\ Line(h) = AppendRule(CHAIN_LOG, RestoreMark)
           \/ step[h] = 5 /\ Line(h) = AppendRule(CHAIN_LOG, Nflog)
           \/ step[h] = 6 /\ Line(h) = InsertRule("OUTPUT", 1, Jump(CHAIN_MARK))
           \/ step[h] = 7 /\ Line(h) = InsertRule("OUTPUT", 2, Jump(CHAIN_LOG))
           \/ step[h] = 8 /\ Line(h) = InsertRule("PREROUTING", 1, Jump(CHAIN_LOG))
    BY <1>1, <1>3, SetupLines
  <2>2. Line(h).op \in {"-N", "-A", "-I"}
    BY <2>1 DEF NewChain, AppendRule, InsertRule
  <2>3. Line(h) # PerUid
    <3>1. PerUid.op \notin {"-N", "-A", "-I"}
      BY DEF PerUid
    <3>2. QED
      BY <2>2, <3>1
  <2>4. cmd = Line(h) /\ ~Looping(h)
    BY <2>3 DEF IsNext, Looping
  <2>5. ASSUME NEW j \in JumpLines, NEW pos \in {1, 2},
               cmd = InsertRule(JumpHook[j], pos, JumpOf(j))
        PROVE  step[h] = 9 - j
    <3>1. j = 1 \/ j = 2 \/ j = 3
      BY DEF JumpLines
    <3>2. QED
      BY <2>1, <2>4, <2>5, <3>1
         DEF NewChain, AppendRule, InsertRule, JumpHook, JumpChain, JumpOf, Jump, CHAIN_MARK, CHAIN_LOG
  <2>6. ASSUME NEW c \in ChainLines, cmd = NewChain(ChainAt[c]) PROVE step[h] = c
    <3>1. c = 1 \/ c = 2
      BY DEF ChainLines
    <3>2. QED
      BY <2>1, <2>4, <2>6, <3>1 DEF NewChain, AppendRule, InsertRule, ChainAt, CHAIN_MARK, CHAIN_LOG
  <2>7. \A c, r : cmd = AppendRule(c, r) => step[h] \in {4, 5}
    BY <2>1, <2>4 DEF NewChain, AppendRule, InsertRule
  <2>8. /\ \A hook, r : DeleteRule(hook, r).op = "-D"
        /\ \A c : FlushChain(c).op = "-F" /\ DeleteChain(c).op = "-X"
    BY DEF DeleteRule, FlushChain, DeleteChain
  <2>9. QED
    BY <1>1, <2>2, <2>4, <2>5, <2>6, <2>7, <2>8
<1>4. QED
  BY <1>2, <1>3

------------------------------------------------------------------------------
(* What a host owes, line by line.                                         *)

(* The loop over the UIDs is not the last line of a script. *)
LEMMA LastLineRunsOnce ==
  ASSUME PositionsOK, NEW h \in Hosts, phase[h] \in Scripts, LastLine(h)
  PROVE  ~Looping(h)
<1>1. Line(h) = DeleteChain(CHAIN_LOG) \/ Line(h) = InsertRule("PREROUTING", 1, Jump(CHAIN_LOG))
  <2>1. DeleteChain(CHAIN_LOG) = build_teardown[10]
    BY TeardownLines DEF ChainLines, ChainAt
  <2>2. QED
    BY <2>1, SetupLines, ScriptLengths DEF LastLine, Line, Script
<1>2. Line(h).op \in {"-X", "-I"}
  BY <1>1 DEF DeleteChain, InsertRule
<1>3. PerUid.op \notin {"-X", "-I"}
  BY DEF PerUid
<1>4. QED
  BY <1>2, <1>3 DEF Looping

(* Running a line within a script puts the host past that line and past no *)
(* other; running the last line, into the next phase.                      *)
LEMMA AdvancePast ==
  ASSUME PositionsOK, NEW h \in Hosts, NEW cmd, phase[h] \in Scripts, Advance(h, cmd),
         ~NextPhase(h),
         NEW g \in Hosts, NEW k \in FamilyLines, NEW line \in 1..Len(Script(phase[h]))
  PROVE  /\ UNCHANGED phase
         /\ Past(g, k, line)' <=>
              Past(g, k, line) \/ (g = h /\ k = fam[h] /\ line = step[h] /\ ~Looping(h))
<1> USE DEF PositionsOK, Past
<1>1. k \in 1..Len(Families)
  BY NflogTierAssumption DEF FamilyLines
<1>2. line \in Nat /\ line >= 1 /\ line <= Len(Script(phase[h]))
  BY ScriptLengths DEF Script
<1>3. fam[g] \in Nat /\ step[g] \in Nat /\ fam[h] \in Nat /\ step[h] \in Nat
  OBVIOUS
<1>4. CASE NextUid(h, cmd)
  BY <1>4 DEF NextUid
<1>5. CASE NextLine(h)
  <2>1. UNCHANGED <<phase, fam>> /\ step' = [step EXCEPT ![h] = step[h] + 1] /\ ~Looping(h)
    BY <1>5 DEF NextLine
  <2>2. QED
    BY <1>1, <1>2, <1>3, <2>1
<1>6. CASE NextFamily(h)
  <2>1. /\ UNCHANGED phase
        /\ fam' = [fam EXCEPT ![h] = fam[h] + 1] /\ step' = [step EXCEPT ![h] = 1]
        /\ step[h] = Len(Script(phase[h]))
    BY <1>6 DEF NextFamily, LastLine
  <2>2. ~Looping(h)
    BY <1>6, LastLineRunsOnce DEF NextFamily
  <2>3. CASE g # h
    BY <2>1, <2>3
  <2>4. CASE g = h
    <3>1. fam'[g] = fam[h] + 1 /\ step'[g] = 1
      BY <2>1, <2>4
    <3>2. Past(g, k, line)' <=> fam[h] + 1 > k
      BY <1>1, <1>2, <1>3, <3>1
    <3>3. QED
      BY <1>1, <1>2, <1>3, <2>1, <2>2, <2>4, <3>2
  <2>5. QED
    BY <2>1, <2>3, <2>4
<1>7. QED
  BY <1>4, <1>5, <1>6 DEF Advance

LEMMA NextPhasePast ==
  ASSUME PositionsOK, NEW h \in Hosts, phase[h] \in Scripts, NextPhase(h),
         NEW k \in FamilyLines
  PROVE  /\ \A g \in Hosts \ {h} : phase'[g] = phase[g] /\ \A line : Past(g, k, line)' = Past(g, k, line)
         /\ \A line \in 1..Len(Script(phase[h])) :
              Past(h, k, line) \/ (k = fam[h] /\ line = step[h])
         /\ \/ phase[h] = "heal" /\ phase'[h] = "setup" /\ \A line \in 1..10 : ~Past(h, k, line)'
            \/ phase[h] = "setup" /\ phase'[h] = "launch"
            \/ phase[h] = "teardown" /\ phase'[h] = "teardown" /\ \A line \in 1..10 : ~Past(h, k, line)'
            \/ phase[h] \in {"teardown", "cleanup"} /\ phase'[h] = "stopped"
<1> USE DEF PositionsOK, Past
<1>1. k \in 1..Len(Families)
  BY NflogTierAssumption DEF FamilyLines
<1>2. step[h] = Len(Script(phase[h])) /\ fam[h] = Len(Families)
  BY DEF NextPhase, LastLine, LastFamily
<1>3. Len(Script(phase[h])) \in Nat /\ Len(Families) \in Nat
  BY ScriptLengths, NflogTierAssumption DEF Script
<1>4. \A line \in 1..Len(Script(phase[h])) : Past(h, k, line) \/ (k = fam[h] /\ line = step[h])
  BY <1>1, <1>2, <1>3
<1>5. CASE phase[h] = "heal" /\ BeginScript(h, "setup", uids[h])
  <2>1. /\ phase' = [phase EXCEPT ![h] = "setup"]
        /\ fam' = [fam EXCEPT ![h] = 1] /\ step' = [step EXCEPT ![h] = 1]
    BY <1>5 DEF BeginScript, Enter
  <2>2. \A line \in 1..10 : ~Past(h, k, line)'
    BY <1>1, <1>3, <2>1
  <2>3. QED
    BY <1>4, <1>5, <2>1, <2>2
<1>6. CASE phase[h] = "setup" /\ Enter(h, "launch") /\ UNCHANGED <<fam, step, todo, left>>
  BY <1>1, <1>4, <1>6 DEF Enter
<1>7. CASE phase[h] = "teardown" /\ BeginScript(h, "teardown", uids[h])
  BY <1>1, <1>4, <1>7 DEF BeginScript, Enter
<1>8. CASE phase[h] \in {"teardown", "cleanup"} /\ Enter(h, "stopped") /\ UNCHANGED <<fam, step, todo, left>>
  BY <1>1, <1>4, <1>8 DEF Enter
<1>9. QED
  BY <1>5, <1>6, <1>7, <1>8 DEF NextPhase

(* A line of a teardown that a host has yet to run stays so until it runs  *)
(* it.                                                                     *)
LEMMA PendingStep ==
  ASSUME PositionsOK, NEW h \in Hosts, NEW cmd, phase[h] \in Scripts,
         IsNext(h, cmd), Advance(h, cmd),
         NEW g \in Hosts, NEW k \in FamilyLines, NEW line \in 1..10,
         phase[g] \in Cleaning, ~Past(g, k, line)
  PROVE  /\ \/ phase'[g] \in Cleaning /\ ~Past(g, k, line)'
            \/ g = h /\ k = fam[h] /\ step[h] = line
         /\ g = h /\ k = fam[h] /\ step[h] < line =>
              phase'[g] \in Cleaning /\ ~Past(g, k, line)'
<1>1. g = h => Len(Script(phase[h])) = 10 /\ ~Looping(h)
  BY CleaningCommand
<1>2. g = h => line \in 1..Len(Script(phase[h]))
  BY <1>1, Zenon
<1>3. phase[h] \in Cleaning \/ phase[h] = "setup"
  BY DEF Scripts, Cleaning
<1>4. line # step[h] /\ ~(step[h] < line) => (k = fam[h] => Past(h, k, line))
  BY DEF PositionsOK, Past, FamilyLines
<1>5. CASE NextPhase(h)
  <2>1. CASE g # h
    BY <1>5, <2>1, NextPhasePast
  <2>2. CASE g = h
    <3>1. k = fam[h] /\ line = step[h]
      BY <1>2, <1>5, <2>2, NextPhasePast
    <3>2. ~(step[h] < line)
      BY <3>1
    <3>3. QED
      BY <2>2, <3>1, <3>2
  <2>3. QED
    BY <2>1, <2>2
<1>6. CASE ~NextPhase(h)
  <2>1. CASE g = h
    <3>1. /\ UNCHANGED phase
          /\ Past(g, k, line)' <=>
               Past(g, k, line) \/ (g = h /\ k = fam[h] /\ line = step[h] /\ ~Looping(h))
      BY <1>2, <1>6, <2>1, AdvancePast
    <3>2. step[h] < line => line # step[h]
      BY DEF PositionsOK
    <3>3. QED
      BY <3>1, <3>2, <2>1
  <2>2. CASE g # h
    BY <1>6, <2>2 DEF Advance, NextUid, NextLine, NextFamily, PositionsOK, Past
  <2>3. QED
    BY <2>1, <2>2
<1>7. QED
  BY <1>5, <1>6

(* What a host's setup has run stays run, until the host enters "launch".  *)
LEMMA CreatedStep ==
  ASSUME PositionsOK, NEW h \in Hosts, NEW cmd, phase[h] \in Scripts,
         IsNext(h, cmd), Advance(h, cmd),
         NEW g \in Hosts, NEW k \in FamilyLines, NEW line \in 1..8,
         phase[g] = "setup",
         Past(g, k, line) \/ (g = h /\ k = fam[h] /\ step[h] = line /\ line # 3)
  PROVE  (phase'[g] = "setup" /\ Past(g, k, line)') \/ phase'[g] = "launch"
<1>1. g = h => Len(Script(phase[h])) = 8 /\ (Looping(h) => step[h] = 3)
  BY SetupCommand
<1>2. g = h => line \in 1..Len(Script(phase[h]))
  BY <1>1, Zenon
<1>3. CASE NextPhase(h)
  <2>1. CASE g # h
    BY <1>3, <2>1, NextPhasePast
  <2>2. CASE g = h
    BY <1>3, <2>2, NextPhasePast
  <2>3. QED
    BY <2>1, <2>2
<1>4. CASE ~NextPhase(h)
  <2>1. CASE g = h
    <3>1. /\ UNCHANGED phase
          /\ Past(g, k, line)' <=>
               Past(g, k, line) \/ (g = h /\ k = fam[h] /\ line = step[h] /\ ~Looping(h))
      BY <1>2, <1>4, <2>1, AdvancePast
    <3>2. QED
      BY <1>1, <3>1, <2>1
  <2>2. CASE g # h
    BY <1>4, <2>2 DEF Advance, NextUid, NextLine, NextFamily, PositionsOK, Past
  <2>3. QED
    BY <2>1, <2>2
<1>5. QED
  BY <1>3, <1>4

(* No step of a script leads from or to the phases in between, but for     *)
(* "launch"; a script's own phase is none of them.                         *)
LEMMA BetweenScripts ==
  ASSUME PositionsOK, NEW h \in Hosts, NEW cmd, phase[h] \in Scripts, Advance(h, cmd),
         NEW g \in Hosts, phase[g] \in Running \cup Left
  PROVE  phase'[g] = phase[g]
<1>1. g # h
  BY DEF Scripts, Running, Left
<1>2. QED
  BY <1>1 DEF Advance, NextUid, NextLine, NextFamily, NextPhase, BeginScript, Enter, PositionsOK

(* The line that host h runs next is its nth deletion, or its insertion,   *)
(* of jump j of family k.                                                  *)
DeletesNext(h, k, j, n) ==
  k = fam[h] /\ phase[h] \in Cleaning /\ step[h] = j + 3 * (n - 1)

InsertsNext(h, k, j) == k = fam[h] /\ phase[h] = "setup" /\ step[h] = 9 - j

(* A host owes a deletion until it runs it, and from the insertion on.     *)
LEMMA OwesStep ==
  ASSUME PositionsOK, NEW h \in Hosts, NEW cmd, phase[h] \in Scripts,
         IsNext(h, cmd), Advance(h, cmd),
         NEW g \in Hosts, NEW k \in FamilyLines, NEW j \in JumpLines, NEW n \in {1, 2}
  PROVE  /\ Owes(g, k, j, n) => Owes(g, k, j, n)' \/ (g = h /\ DeletesNext(h, k, j, n))
         /\ InsertsNext(h, k, j) => Owes(h, k, j, 1)' /\ ~Owes(h, k, j, 1)
<1>1. /\ j + 3 * (n - 1) \in 1..10 /\ 9 - j \in 1..8 /\ 9 - j # 3
      /\ ~(step[h] > 9 - j /\ step[h] = 9 - j)
  <2>1. (j = 1 \/ j = 2 \/ j = 3) /\ (n = 1 \/ n = 2)
    BY DEF JumpLines
  <2>2. QED
    BY <2>1 DEF PositionsOK
<1>2. ASSUME phase[g] \in Cleaning, ~Past(g, k, j + 3 * (n - 1))
      PROVE  \/ Owes(g, k, j, n)'
             \/ g = h /\ k = fam[h] /\ phase[h] \in Cleaning /\ step[h] = j + 3 * (n - 1)
  <2>1. \/ phase'[g] \in Cleaning /\ ~Past(g, k, j + 3 * (n - 1))'
        \/ g = h /\ k = fam[h] /\ step[h] = j + 3 * (n - 1)
    BY <1>1, <1>2, PendingStep
  <2>2. QED
    BY <1>2, <2>1 DEF Owes, Past
<1>3. ASSUME phase[g] = "setup", n = 1, Past(g, k, 9 - j)
      PROVE  Owes(g, k, j, n)'
  <2>1. (phase'[g] = "setup" /\ Past(g, k, 9 - j)') \/ phase'[g] = "launch"
    BY <1>1, <1>3, CreatedStep
  <2>2. QED
    BY <1>3, <2>1 DEF Owes, Past, Running
<1>4. ASSUME phase[g] \in Running \cup Left
      PROVE  Owes(g, k, j, n)'
  BY <1>4, BetweenScripts DEF Owes
<1>5. ASSUME phase[h] = "setup", k = fam[h], step[h] = 9 - j
      PROVE  Owes(h, k, j, 1)' /\ ~Owes(h, k, j, 1)
  <2>1. (phase'[h] = "setup" /\ Past(h, k, 9 - j)') \/ phase'[h] = "launch"
    BY <1>1, <1>5, CreatedStep
  <2>2. ~Past(h, k, 9 - j)
    BY <1>1, <1>5 DEF Past, PositionsOK, FamilyLines
  <2>3. QED
    BY <1>5, <2>1, <2>2 DEF Owes, Past, Cleaning, Running, Left
<1>6. QED
  BY <1>2, <1>3, <1>4, <1>5 DEF Owes, DeletesNext, InsertsNext

(* A host flushes a chain from its creation on, deletes it once flushed.   *)
LEMMA KeepsStep ==
  ASSUME PositionsOK, NEW h \in Hosts, NEW cmd, phase[h] \in Scripts,
         IsNext(h, cmd), Advance(h, cmd),
         NEW g \in Hosts, NEW k \in FamilyLines, NEW c \in ChainLines
  PROVE  /\ Flushes(g, k, c) =>
              \/ Flushes(g, k, c)'
              \/ g = h /\ k = fam[h] /\ phase[h] \in Cleaning /\ step[h] = 6 + c
         /\ Deletes(g, k, c) =>
              \/ Deletes(g, k, c)'
              \/ g = h /\ k = fam[h] /\ phase[h] \in Cleaning /\ step[h] = 8 + c
         /\ phase[h] \in Cleaning /\ k = fam[h] /\ step[h] = 6 + c => Deletes(h, k, c)'
         /\ phase[h] = "setup" /\ k = fam[h] /\ step[h] \in {c, 3, 4, 5} => Flushes(h, k, c)'
<1>1. /\ 6 + c \in 1..10 /\ 8 + c \in 1..10 /\ c \in 1..8 /\ c # 3
      /\ step[h] = 6 + c => step[h] < 8 + c
      /\ step[h] \in {3, 4, 5} => step[h] > c
  BY DEF ChainLines
<1>2. ASSUME phase[g] \in Cleaning, ~Past(g, k, 6 + c)
      PROVE  \/ Flushes(g, k, c)'
             \/ g = h /\ k = fam[h] /\ phase[h] \in Cleaning /\ step[h] = 6 + c
  <2>1. \/ phase'[g] \in Cleaning /\ ~Past(g, k, 6 + c)'
        \/ g = h /\ k = fam[h] /\ step[h] = 6 + c
    BY <1>1, <1>2, PendingStep
  <2>2. QED
    BY <1>2, <2>1 DEF Flushes, Past
<1>3. ASSUME phase[g] \in Cleaning, ~Past(g, k, 8 + c)
      PROVE  \/ Deletes(g, k, c)'
             \/ g = h /\ k = fam[h] /\ phase[h] \in Cleaning /\ step[h] = 8 + c
  <2>1. \/ phase'[g] \in Cleaning /\ ~Past(g, k, 8 + c)'
        \/ g = h /\ k = fam[h] /\ step[h] = 8 + c
    BY <1>1, <1>3, PendingStep
  <2>2. QED
    BY <1>3, <2>1 DEF Deletes, Past
<1>4. ASSUME phase[g] = "setup",
             Past(g, k, c) \/ (g = h /\ k = fam[h] /\ step[h] = c)
      PROVE  Flushes(g, k, c)'
  <2>1. (phase'[g] = "setup" /\ Past(g, k, c)') \/ phase'[g] = "launch"
    BY <1>1, <1>4, CreatedStep
  <2>2. QED
    BY <2>1 DEF Flushes, Past, Running
<1>5. ASSUME phase[g] \in Running \cup Left
      PROVE  Flushes(g, k, c)'
  BY <1>5, BetweenScripts DEF Flushes
<1>6. ASSUME phase[h] \in Cleaning, k = fam[h], step[h] = 6 + c
      PROVE  Deletes(h, k, c)'
  <2>1. ~Past(h, k, 8 + c) /\ step[h] < 8 + c
    BY <1>1, <1>6 DEF Past, PositionsOK, FamilyLines
  <2>2. phase'[h] \in Cleaning /\ ~Past(h, k, 8 + c)'
    BY <1>1, <1>6, <2>1, PendingStep
  <2>3. QED
    BY <2>2 DEF Deletes, Past
<1>7. ASSUME phase[h] = "setup", k = fam[h], step[h] \in {c, 3, 4, 5}
      PROVE  Flushes(h, k, c)'
  <2>1. step[h] = c \/ Past(h, k, c)
    BY <1>1, <1>7 DEF Past, PositionsOK, FamilyLines
  <2>2. (phase'[h] = "setup" /\ Past(h, k, c)') \/ phase'[h] = "launch"
    BY <1>1, <1>7, <2>1, CreatedStep
  <2>3. QED
    BY <2>2 DEF Flushes, Past, Running
<1>8. QED
  BY <1>2, <1>3, <1>4, <1>5, <1>6, <1>7 DEF Flushes, Deletes

------------------------------------------------------------------------------
(* Counting what is owed.                                                  *)

LEMMA OwnersFinite ==
  /\ \A D \in SUBSET (Hosts \X {1, 2}) : IsFiniteSet(D) /\ Cardinality(D) \in Nat
  /\ \A D, E \in SUBSET (Hosts \X {1, 2}) : D \subseteq E => Cardinality(D) <= Cardinality(E)
<1>1. IsFiniteSet({1, 2})
  <2>1. IsFiniteSet({1} \cup {2})
    BY FS_Singleton, FS_AddElement
  <2>2. {1} \cup {2} = {1, 2}
    OBVIOUS
  <2>3. QED
    BY <2>1, <2>2
<1>2. IsFiniteSet(Hosts \X {1, 2})
  BY <1>1, FS_Product, NflogTierAssumption
<1>3. ASSUME NEW D \in SUBSET (Hosts \X {1, 2})
      PROVE  IsFiniteSet(D) /\ Cardinality(D) \in Nat
  BY <1>2, FS_Subset, FS_CardinalityType
<1>4. ASSUME NEW D \in SUBSET (Hosts \X {1, 2}), NEW E \in SUBSET (Hosts \X {1, 2}),
             D \subseteq E
      PROVE  Cardinality(D) <= Cardinality(E)
  BY <1>3, <1>4, FS_Subset
<1>5. QED
  BY <1>3, <1>4

LEMMA OwedMembers ==
  ASSUME NEW k, NEW j, NEW d \in Hosts \X {1, 2}
  PROVE  /\ d[1] \in Hosts /\ d[2] \in {1, 2} /\ d = <<d[1], d[2]>>
         /\ d \in Owed(k, j) <=> Owes(d[1], k, j, d[2])
         /\ d \in Owed(k, j)' <=> Owes(d[1], k, j, d[2])'
BY DEF Owed

(* What becomes of the number of deletions owed. *)
LEMMA OwedCount ==
  ASSUME NEW D \in SUBSET (Hosts \X {1, 2}), NEW E \in SUBSET (Hosts \X {1, 2}),
         NEW d \in Hosts \X {1, 2}
  PROVE  /\ Cardinality(D) \in Nat /\ Cardinality(E) \in Nat
         /\ D \subseteq E => Cardinality(D) <= Cardinality(E)
         /\ D \ {d} \subseteq E => Cardinality(D) - 1 <= Cardinality(E)
         /\ D \cup {d} \subseteq E /\ d \notin D => Cardinality(D) + 1 <= Cardinality(E)
<1>1. IsFiniteSet(D) /\ Cardinality(D) \in Nat /\ Cardinality(E) \in Nat
  BY OwnersFinite
<1>2. /\ Cardinality(D \ {d}) = IF d \in D THEN Cardinality(D) - 1 ELSE Cardinality(D)
      /\ Cardinality(D \cup {d}) = IF d \in D THEN Cardinality(D) ELSE Cardinality(D) + 1
  BY <1>1, FS_AddElement, FS_RemoveElement
<1>3. D \ {d} \in SUBSET (Hosts \X {1, 2}) /\ D \cup {d} \in SUBSET (Hosts \X {1, 2})
  OBVIOUS
<1>4. /\ D \subseteq E => Cardinality(D) <= Cardinality(E)
      /\ D \ {d} \subseteq E => Cardinality(D \ {d}) <= Cardinality(E)
      /\ D \cup {d} \subseteq E => Cardinality(D \cup {d}) <= Cardinality(E)
  BY <1>3, OwnersFinite
<1>5. QED
  BY <1>1, <1>2, <1>4

(* A host that owes deletions of a jump is still to flush the chain that   *)
(* the jump is to.                                                         *)
LEMMA OwesFlushes ==
  ASSUME PositionsOK, NEW h \in Hosts, NEW k \in FamilyLines, NEW j \in JumpLines,
         NEW n \in {1, 2}, NEW c \in ChainLines, Owes(h, k, j, n)
  PROVE  Flushes(h, k, c)
<1>1. /\ j + 3 * (n - 1) \in 1..6 /\ 9 - j \in 6..8 /\ 6 + c \in 7..8 /\ c \in 1..2
  <2>1. (j = 1 \/ j = 2 \/ j = 3) /\ (n = 1 \/ n = 2) /\ (c = 1 \/ c = 2)
    BY DEF JumpLines, ChainLines
  <2>2. QED
    BY <2>1
<1>2. fam[h] \in Nat /\ step[h] \in Nat /\ k \in Nat
  BY DEF PositionsOK, FamilyLines
<1>3. ~Past(h, k, j + 3 * (n - 1)) => ~Past(h, k, 6 + c)
  BY <1>1, <1>2 DEF Past
<1>4. Past(h, k, 9 - j) => Past(h, k, c)
  BY <1>1, <1>2 DEF Past
<1>5. QED
  BY <1>3, <1>4 DEF Owes, Flushes

(* A command that runs changes the table of the host's family only. *)
LEMMA FamilyTables ==
  ASSUME TypeOK, NEW h \in Hosts, NEW cmd, NEW k \in FamilyLines,
         table' = [table EXCEPT ![Families[fam[h]]] = Apply(@, cmd)]
  PROVE  /\ Families[k] \in ToSet(Families) /\ IsTable(table[Families[k]], Uids)
         /\ k = fam[h] => table'[Families[k]] = Apply(table[Families[k]], cmd)
         /\ k # fam[h] => table'[Families[k]] = table[Families[k]]
<1>1. k \in 1..Len(Families) /\ fam[h] \in 1..Len(Families) /\ DOMAIN Families = 1..Len(Families)
  BY NflogTierAssumption DEF FamilyLines, TypeOK, PositionsOK
<1>2. Families[k] \in ToSet(Families) /\ Families[fam[h]] \in ToSet(Families)
  BY <1>1, FamiliesInRange
<1>3. k # fam[h] => Families[k] # Families[fam[h]]
  BY <1>1, NflogTierAssumption DEF IsInjective
<1>4. DOMAIN table = ToSet(Families)
  BY DEF TypeOK, TablesOK
<1>5. QED
  BY <1>2, <1>3, <1>4 DEF TypeOK, TablesOK

(* What a line that runs makes of the number of copies of a jump. *)
LEMMA LineCounts ==
  ASSUME TypeOK, NEW h \in Hosts, NEW cmd \in Commands(todo[h]),
         phase[h] \in Scripts, IsNext(h, cmd),
         table' = [table EXCEPT ![Families[fam[h]]] = Apply(@, cmd)],
         NEW k \in FamilyLines, NEW j \in JumpLines
  PROVE  /\ Cardinality(JumpPlaces(k, j)) \in Nat /\ Cardinality(JumpPlaces(k, j)') \in Nat
         /\ Cardinality(JumpPlaces(k, j)') <= Cardinality(JumpPlaces(k, j)) + 1
         /\ ~InsertsNext(h, k, j) =>
              Cardinality(JumpPlaces(k, j)') <= Cardinality(JumpPlaces(k, j))
         /\ \A n \in {1, 2} : DeletesNext(h, k, j, n) =>
              \/ Cardinality(JumpPlaces(k, j)') = 0
              \/ Cardinality(JumpPlaces(k, j)') <= Cardinality(JumpPlaces(k, j)) - 1
<1> DEFINE f == Families[k]
           C == Cardinality(JumpPlaces(k, j))
           Q == Cardinality(JumpPlaces(k, j)')
<1>1. /\ PositionsOK /\ cmd \in Commands(Uids)
      /\ JumpHook[j] \in Hooks
  BY CommandsMonotone, JumpsAndChains DEF TypeOK, PositionsOK
<1>2. /\ IsTable(table[f], Uids)
      /\ k = fam[h] => table'[f] = Apply(table[f], cmd)
      /\ k # fam[h] => table'[f] = table[f]
  BY FamilyTables
<1>3. /\ C \in Nat
      /\ k # fam[h] => Q = C
      /\ k = fam[h] =>
           /\ Q \in Nat /\ Q <= C + 1
           /\ (\A pos \in {1, 2} : cmd # InsertRule(JumpHook[j], pos, JumpOf(j))) => Q <= C
           /\ cmd = DeleteRule(JumpHook[j], JumpOf(j)) => Q = 0 \/ Q <= C - 1
  BY <1>1, <1>2, ApplyPlaces DEF JumpPlaces
<1>4. ASSUME NEW n \in {1, 2}, DeletesNext(h, k, j, n)
      PROVE  k = fam[h] /\ cmd = DeleteRule(JumpHook[j], JumpOf(j))
  <2>1. step[h] = j \/ step[h] = j + 3
    BY <1>4 DEF JumpLines, DeletesNext
  <2>2. cmd = build_teardown[step[h]] /\ k = fam[h]
    BY <1>1, <1>4, CleaningCommand DEF DeletesNext
  <2>3. QED
    BY <2>1, <2>2, TeardownLines
<1>5. ~InsertsNext(h, k, j) /\ k = fam[h] =>
        \A pos \in {1, 2} : cmd # InsertRule(JumpHook[j], pos, JumpOf(j))
  <2>1. phase[h] \in Cleaning \/ phase[h] = "setup"
    BY DEF Scripts, Cleaning
  <2>2. QED
    BY <1>1, <2>1, CleaningCommand, SetupCommand DEF InsertsNext
<1> HIDE DEF C, Q
<1>6. Q \in Nat /\ Q <= C + 1 /\ (~InsertsNext(h, k, j) => Q <= C)
  BY <1>3, <1>5
<1>7. \A n \in {1, 2} : DeletesNext(h, k, j, n) => Q = 0 \/ Q <= C - 1
  BY <1>3, <1>4
<1>8. QED
  BY <1>3, <1>6, <1>7 DEF C, Q

(* A line that runs when nothing went wrong keeps the accounts straight:   *)
(* the jumps' ... *)
LEMMA LineKeepsJumps ==
  ASSUME TypeOK, JumpsOwed, NEW h \in Hosts, NEW cmd \in Commands(todo[h]),
         phase[h] \in Scripts, IsNext(h, cmd), Advance(h, cmd),
         table' = [table EXCEPT ![Families[fam[h]]] = Apply(@, cmd)]
  PROVE  JumpsOwed'
<1>1. SUFFICES ASSUME NEW k \in FamilyLines, NEW j \in JumpLines
               PROVE  Cardinality(JumpPlaces(k, j)') <= Cardinality(Owed(k, j)')
  BY DEF JumpsOwed, FamilyLines
<1> DEFINE C == Cardinality(JumpPlaces(k, j))
           Q == Cardinality(JumpPlaces(k, j)')
           D == Owed(k, j)
           E == Owed(k, j)'
<1>2. PositionsOK
  BY DEF TypeOK
<1>3. C <= Cardinality(D) /\ D \in SUBSET (Hosts \X {1, 2}) /\ E \in SUBSET (Hosts \X {1, 2})
  BY DEF JumpsOwed, Owed
<1>4. /\ C \in Nat /\ Q \in Nat /\ Q <= C + 1
      /\ ~InsertsNext(h, k, j) => Q <= C
      /\ \A n \in {1, 2} : DeletesNext(h, k, j, n) => Q = 0 \/ Q <= C - 1
  BY LineCounts
<1>5. /\ \A d \in Hosts \X {1, 2} :
           d \in D => d \in E \/ (d[1] = h /\ DeletesNext(h, k, j, d[2]))
      /\ InsertsNext(h, k, j) => <<h, 1>> \in E /\ <<h, 1>> \notin D
  <2>1. ASSUME NEW d \in Hosts \X {1, 2}, d \in D
        PROVE  d \in E \/ (d[1] = h /\ DeletesNext(h, k, j, d[2]))
    <3>1. /\ d[1] \in Hosts /\ d[2] \in {1, 2}
          /\ Owes(d[1], k, j, d[2]) /\ (d \in E <=> Owes(d[1], k, j, d[2])')
      BY <2>1, OwedMembers
    <3>2. Owes(d[1], k, j, d[2])' \/ (d[1] = h /\ DeletesNext(h, k, j, d[2]))
      BY <1>2, <3>1, OwesStep
    <3>3. QED
      BY <3>1, <3>2
  <2>2. ASSUME InsertsNext(h, k, j)
        PROVE  <<h, 1>> \in E /\ <<h, 1>> \notin D
    <3>1. Owes(h, k, j, 1)' /\ ~Owes(h, k, j, 1)
      BY <1>2, <2>2, OwesStep
    <3>2. QED
      BY <3>1 DEF Owed
  <2>3. QED
    BY <2>1, <2>2
<1> HIDE DEF C, Q, D, E
<1>6. CASE \E n \in {1, 2} : DeletesNext(h, k, j, n)
  <2>1. PICK n \in {1, 2} : DeletesNext(h, k, j, n)
    BY <1>6
  <2>2. <<h, n>> \in Hosts \X {1, 2} /\ D \ {<<h, n>>} \subseteq E
    <3>1. \A m \in {1, 2} : DeletesNext(h, k, j, m) => m = n
      BY <2>1 DEF JumpLines, DeletesNext
    <3>2. ASSUME NEW d \in Hosts \X {1, 2}, d \in D, d \notin E
          PROVE  d = <<h, n>>
      <4>1. d[1] = h /\ d[2] = n /\ d = <<d[1], d[2]>>
        BY <1>5, <3>1, <3>2, OwedMembers
      <4>2. QED
        BY <4>1
    <3>3. QED
      BY <1>3, <3>2
  <2>3. Cardinality(D) - 1 <= Cardinality(E) /\ Cardinality(E) \in Nat /\ Cardinality(D) \in Nat
    BY <1>3, <2>2, OwedCount
  <2>4. QED
    BY <1>3, <1>4, <2>1, <2>3 DEF Q, E
<1>7. CASE InsertsNext(h, k, j)
  <2>1. \A n : ~DeletesNext(h, k, j, n)
    BY <1>7 DEF Cleaning, DeletesNext, InsertsNext
  <2>2. <<h, 1>> \in Hosts \X {1, 2} /\ D \cup {<<h, 1>>} \subseteq E /\ <<h, 1>> \notin D
    BY <1>3, <1>5, <1>7, <2>1
  <2>3. Cardinality(D) + 1 <= Cardinality(E) /\ Cardinality(D) \in Nat /\ Cardinality(E) \in Nat
    BY <1>3, <2>2, OwedCount
  <2>4. QED
    BY <1>3, <1>4, <2>3 DEF Q, E
<1>8. CASE (\A n \in {1, 2} : ~DeletesNext(h, k, j, n)) /\ ~InsertsNext(h, k, j)
  <2>1. D \subseteq E
    <3>1. ASSUME NEW d \in Hosts \X {1, 2}, d \in D PROVE d \in E
      BY <1>5, <1>8, <3>1, OwedMembers
    <3>2. QED
      BY <1>3, <3>1
  <2>2. Cardinality(D) <= Cardinality(E) /\ Cardinality(D) \in Nat /\ Cardinality(E) \in Nat
    BY <1>3, <2>1, OwnersFinite
  <2>3. QED
    BY <1>3, <1>4, <1>8, <2>2 DEF Q, E
<1>9. QED
  BY <1>6, <1>7, <1>8

(* ... and the chains'.                                                    *)
LEMMA LineKeepsChains ==
  ASSUME TypeOK, JumpsOwed, ChainsKept, NEW h \in Hosts, NEW cmd \in Commands(todo[h]),
         phase[h] \in Scripts, IsNext(h, cmd), Advance(h, cmd),
         table' = [table EXCEPT ![Families[fam[h]]] = Apply(@, cmd)]
  PROVE  ChainsKept'
<1>1. SUFFICES ASSUME NEW k \in FamilyLines, NEW c \in ChainLines,
                      ChainAt[c] \in DOMAIN table'[Families[k]]
               PROVE  \E g \in Hosts : Keeps(g, k, c)'
  BY DEF ChainsKept, FamilyLines
<1> DEFINE t == table[Families[k]]
           u == table'[Families[k]]
           x == ChainAt[c]
<1>2. /\ PositionsOK /\ cmd \in Commands(Uids) /\ x \in AppTapChains
  BY CommandsMonotone, JumpsAndChains DEF TypeOK, PositionsOK
<1>3. /\ IsTable(t, Uids)
      /\ k = fam[h] => u = Apply(t, cmd)
      /\ k # fam[h] => u = t
  BY FamilyTables
<1>4. \A g \in Hosts :
        /\ Flushes(g, k, c) =>
              \/ Flushes(g, k, c)'
              \/ g = h /\ k = fam[h] /\ phase[h] \in Cleaning /\ step[h] = 6 + c
        /\ Deletes(g, k, c) =>
              \/ Deletes(g, k, c)'
              \/ g = h /\ k = fam[h] /\ phase[h] \in Cleaning /\ step[h] = 8 + c
  BY <1>2, KeepsStep
<1>5. /\ phase[h] \in Cleaning /\ k = fam[h] /\ step[h] = 6 + c => Deletes(h, k, c)'
      /\ phase[h] = "setup" /\ k = fam[h] /\ step[h] \in {c, 3, 4, 5} => Flushes(h, k, c)'
  BY <1>2, KeepsStep
<1>6. \A g \in Hosts : /\ Flushes(g, k, c)' => Keeps(g, k, c)'
                       /\ Deletes(g, k, c)' /\ u[x] = <<>> => Keeps(g, k, c)'
                       /\ Keeps(g, k, c) => Flushes(g, k, c) \/ (Deletes(g, k, c) /\ t[x] = <<>>)
  BY DEF Keeps
<1>7. x \in DOMAIN t => \E g \in Hosts : Keeps(g, k, c)
  BY DEF ChainsKept
<1>8. phase[h] \in Cleaning \/ phase[h] = "setup"
  BY DEF Scripts, Cleaning
<1> HIDE DEF t, u, x
<1>9. x \in DOMAIN u
  BY <1>1 DEF u, x
<1>10. CASE k # fam[h]
  <2>1. PICK g \in Hosts : Keeps(g, k, c)
    BY <1>3, <1>7, <1>9, <1>10
  <2>2. Keeps(g, k, c)'
    BY <1>3, <1>4, <1>6, <1>10, <2>1
  <2>3. QED
    BY <2>2
<1>11. CASE k = fam[h]
  <2>1. /\ x \in DOMAIN t \/ cmd = NewChain(x)
        /\ cmd = FlushChain(x) => u[x] = <<>>
        /\ cmd = DeleteChain(x) => t[x] # <<>> \/ References(t, x)
        /\ t[x] = <<>> /\ x \in DOMAIN t => \/ u[x] = <<>>
                                            \/ \E r \in RulesOf(x, Uids) : cmd = AppendRule(x, r)
    BY <1>2, <1>3, <1>9, <1>11, ApplyChain
  <2>2. CASE x \notin DOMAIN t
    <3>1. cmd = NewChain(x)
      BY <2>1, <2>2
    <3>2. phase[h] = "setup" /\ step[h] = c
      BY <1>2, <1>8, <3>1, CleaningCommand, SetupCommand DEF x
    <3>3. QED
      BY <1>5, <1>6, <1>11, <3>2
  <2>3. CASE x \in DOMAIN t
    <3>1. PICK g \in Hosts : Keeps(g, k, c)
      BY <1>7, <2>3
    <3>2. CASE Flushes(g, k, c)
      <4>1. CASE g = h /\ phase[h] \in Cleaning /\ step[h] = 6 + c
        <5>1. cmd = FlushChain(x)
          BY <1>2, <4>1, CleaningCommand, TeardownLines DEF x
        <5>2. u[x] = <<>> /\ Deletes(h, k, c)'
          BY <1>5, <1>11, <2>1, <4>1, <5>1
        <5>3. QED
          BY <1>6, <5>2
      <4>2. CASE ~(g = h /\ phase[h] \in Cleaning /\ step[h] = 6 + c)
        BY <1>4, <1>6, <3>2, <4>2
      <4>3. QED
        BY <4>1, <4>2
    <3>3. CASE Deletes(g, k, c) /\ t[x] = <<>>
      <4>1. CASE u[x] # <<>>
        <5>1. \E r : cmd = AppendRule(x, r)
          BY <2>1, <2>3, <3>3, <4>1
        <5>2. phase[h] = "setup" /\ step[h] \in {3, 4, 5}
          BY <1>2, <1>8, <5>1, CleaningCommand, SetupCommand
        <5>3. QED
          BY <1>5, <1>6, <1>11, <5>2
      <4>2. CASE u[x] = <<>> /\ Deletes(g, k, c)'
        BY <1>6, <4>2
      <4>3. CASE g = h /\ phase[h] \in Cleaning /\ step[h] = 8 + c
        <5>1. cmd = DeleteChain(x)
          BY <1>2, <4>3, CleaningCommand, TeardownLines DEF x
        <5>2. References(t, x)
          BY <2>1, <3>3, <5>1
        <5>3. PICK j \in JumpLines : Places(t[JumpHook[j]], JumpOf(j)) # {}
          BY <1>2, <1>3, <5>2, ReferencedByJump
        <5>4. Owed(k, j) # {}
          <6>1. JumpPlaces(k, j) # {} /\ IsFiniteSet(JumpPlaces(k, j))
            <7>1. t[JumpHook[j]] \in Seq(RulesOf(JumpHook[j], Uids))
              BY <1>3, JumpsAndChains DEF IsTable
            <7>2. QED
              BY <5>3, <7>1, PlacesFinite DEF JumpPlaces, t
          <6>2. Cardinality(JumpPlaces(k, j)) \in Nat /\ Cardinality(JumpPlaces(k, j)) # 0
            BY <6>1, FS_CardinalityType, FS_EmptySet
          <6>3. Cardinality(JumpPlaces(k, j)) <= Cardinality(Owed(k, j))
            BY DEF JumpsOwed
          <6>4. QED
            BY <6>2, <6>3, FS_EmptySet
        <5>5. PICK i \in Hosts, n \in {1, 2} : Owes(i, k, j, n)
          BY <5>4 DEF Owed
        <5>6. Flushes(i, k, c)
          BY <1>2, <5>5, OwesFlushes
        <5>7. step[h] # 6 + c
          BY <4>3 DEF ChainLines
        <5>8. Flushes(i, k, c)'
          BY <1>4, <5>6, <5>7
        <5>9. QED
          BY <1>6, <5>8
      <4>4. QED
        BY <1>4, <3>3, <4>1, <4>2, <4>3
    <3>4. QED
      BY <1>6, <3>1, <3>2, <3>3
  <2>4. QED
    BY <2>2, <2>3
<1>12. QED
  BY <1>10, <1>11

------------------------------------------------------------------------------
(* The other steps.                                                        *)

(* Host h still has its whole clean-up before it. *)
OwesAll(h) ==
  \/ phase[h] \in Running \cup Left
  \/ phase[h] \in Cleaning /\ fam[h] = 1 /\ step[h] = 1

LEMMA OwesAllNext ==
  ASSUME NEW h \in Hosts, OwesAll(h)', NEW k \in FamilyLines
  PROVE  /\ \A j \in JumpLines, n \in {1, 2} : Owes(h, k, j, n)'
         /\ \A c \in ChainLines : Flushes(h, k, c)'
<1>1. CASE phase'[h] \in Running \cup Left
  BY <1>1 DEF Owes, Flushes
<1>2. CASE phase'[h] \in Cleaning /\ fam'[h] = 1 /\ step'[h] = 1
  <2>1. k \in Nat /\ k >= 1
    BY NflogTierAssumption DEF FamilyLines
  <2>2. ASSUME NEW line \in Nat, line >= 1
        PROVE  ~Past(h, k, line)'
    BY <1>2, <2>1, <2>2 DEF Past
  <2>3. ASSUME NEW j \in JumpLines, NEW n \in {1, 2}
        PROVE  Owes(h, k, j, n)'
    <3>1. j + 3 * (n - 1) \in Nat /\ j + 3 * (n - 1) >= 1
      <4>1. (j = 1 \/ j = 2 \/ j = 3) /\ (n = 1 \/ n = 2)
        BY DEF JumpLines
      <4>2. QED
        BY <4>1
    <3>2. ~Past(h, k, j + 3 * (n - 1))'
      BY <2>2, <3>1
    <3>3. QED
      BY <1>2, <3>2 DEF Owes, Past
  <2>4. ASSUME NEW c \in ChainLines
        PROVE  Flushes(h, k, c)'
    <3>1. 6 + c \in Nat /\ 6 + c >= 1
      BY DEF ChainLines
    <3>2. ~Past(h, k, 6 + c)'
      BY <2>2, <3>1
    <3>3. QED
      BY <1>2, <3>2 DEF Flushes, Past
  <2>5. QED
    BY <2>3, <2>4
<1>3. QED
  BY <1>1, <1>2 DEF OwesAll

(* A step of the lifecycle leaves the tables to the scripts. *)
Lifecycle(h) ==
  \/ SetupRaises(h) \/ Start(h) \/ Launch(h) \/ Abort(h) \/ ExitTeardown(h)
  \/ Stop(h) \/ Collect(h) \/ Cleanup(h) \/ Crash(h)

(* Nobody but h moved in its script, and no table changed. *)
OnlyMoved(h) ==
  /\ table' = table
  /\ \A g \in Hosts \ {h} : phase'[g] = phase[g] /\ fam'[g] = fam[g] /\ step'[g] = step[g]

LEMMA LifecycleSteps ==
  ASSUME PositionsOK, NEW h \in Hosts, Lifecycle(h)
  PROVE  OwesAll(h)' /\ OnlyMoved(h) /\ late' = late
<1> USE DEF PositionsOK, OwesAll, OnlyMoved, Enter, tableVars
<1>1. ASSUME NEW ph \in Running \cup Left, Enter(h, ph), UNCHANGED <<fam, step, tableVars>>
      PROVE  OwesAll(h)' /\ OnlyMoved(h) /\ late' = late
  BY <1>1
<1>2. ASSUME NEW ph \in Cleaning, NEW us, BeginScript(h, ph, us), UNCHANGED tableVars
      PROVE  OwesAll(h)' /\ OnlyMoved(h) /\ late' = late
  BY <1>2 DEF BeginScript
<1>3. /\ {"failed", "launch", "capturing", "collect", "dead"} \subseteq Running \cup Left
      /\ {"heal", "teardown", "cleanup"} \subseteq Cleaning
  BY DEF Running, Left, Cleaning
<1>4. CASE SetupRaises(h) \/ Launch(h) \/ Abort(h) \/ Stop(h) \/ Crash(h)
  <2>1. \E ph \in Running \cup Left : Enter(h, ph)
    BY <1>3, <1>4 DEF SetupRaises, Launch, Abort, Stop, Crash
  <2>2. UNCHANGED <<fam, step, tableVars>>
    BY <1>4 DEF SetupRaises, Launch, Abort, Stop, Crash
  <2>3. QED
    BY <1>1, <2>1, <2>2
<1>5. CASE Start(h) \/ ExitTeardown(h) \/ Collect(h) \/ Cleanup(h)
  <2>1. \E ph \in Cleaning : \E us : BeginScript(h, ph, us)
    BY <1>3, <1>5 DEF Start, ExitTeardown, Collect, Cleanup
  <2>2. UNCHANGED tableVars
    BY <1>5 DEF Start, ExitTeardown, Collect, Cleanup
  <2>3. QED
    BY <1>2, <2>1, <2>2
<1>6. QED
  BY <1>4, <1>5 DEF Lifecycle

(* What nobody stops owing, and no table gains, stays in balance. *)
LEMMA BalanceKept ==
  ASSUME JumpsOwed, ChainsKept,
         \A k \in FamilyLines, j \in JumpLines :
           /\ Cardinality(JumpPlaces(k, j)) \in Nat /\ Cardinality(JumpPlaces(k, j)') \in Nat
           /\ Cardinality(JumpPlaces(k, j)') <= Cardinality(JumpPlaces(k, j)),
         \A k \in FamilyLines, c \in ChainLines : ChainAt[c] \in DOMAIN table'[Families[k]] =>
           /\ ChainAt[c] \in DOMAIN table[Families[k]]
           /\ table'[Families[k]][ChainAt[c]] = table[Families[k]][ChainAt[c]],
         \A g \in Hosts, k \in FamilyLines, j \in JumpLines, n \in {1, 2} :
           Owes(g, k, j, n) => Owes(g, k, j, n)',
         \A g \in Hosts, k \in FamilyLines, c \in ChainLines :
           /\ Flushes(g, k, c) => Flushes(g, k, c)'
           /\ Deletes(g, k, c) => Deletes(g, k, c)' \/ Flushes(g, k, c)'
  PROVE  JumpsOwed' /\ ChainsKept'
<1>1. ASSUME NEW k \in FamilyLines, NEW j \in JumpLines
      PROVE  Cardinality(JumpPlaces(k, j)') <= Cardinality(Owed(k, j)')
  <2>1. /\ Owed(k, j) \in SUBSET (Hosts \X {1, 2}) /\ Owed(k, j)' \in SUBSET (Hosts \X {1, 2})
        /\ Owed(k, j) \subseteq Owed(k, j)'
    BY DEF Owed
  <2>2. /\ Cardinality(Owed(k, j)) <= Cardinality(Owed(k, j)')
        /\ Cardinality(Owed(k, j)) \in Nat /\ Cardinality(Owed(k, j)') \in Nat
    BY <2>1, OwnersFinite
  <2>3. Cardinality(JumpPlaces(k, j)) <= Cardinality(Owed(k, j))
    BY DEF JumpsOwed
  <2>4. QED
    BY <2>2, <2>3
<1>2. ASSUME NEW k \in FamilyLines, NEW c \in ChainLines,
             ChainAt[c] \in DOMAIN table'[Families[k]]
      PROVE  \E g \in Hosts : Keeps(g, k, c)'
  <2>1. PICK g \in Hosts : Keeps(g, k, c)
    BY <1>2 DEF ChainsKept
  <2>2. Keeps(g, k, c)'
    BY <1>2, <2>1 DEF Keeps
  <2>3. QED
    BY <2>2
<1>3. QED
  BY <1>1, <1>2 DEF JumpsOwed, ChainsKept, FamilyLines

LEMMA JumpCounts ==
  ASSUME TypeOK
  PROVE  \A k \in FamilyLines, j \in JumpLines : Cardinality(JumpPlaces(k, j)) \in Nat
<1>1. ASSUME NEW k \in FamilyLines, NEW j \in JumpLines
      PROVE  Cardinality(JumpPlaces(k, j)) \in Nat
  <2>1. Families[k] \in ToSet(Families)
    BY NflogTierAssumption, FamiliesInRange DEF FamilyLines
  <2>2. table[Families[k]][JumpHook[j]] \in Seq(RulesOf(JumpHook[j], Uids))
    BY <2>1, JumpsAndChains DEF TypeOK, TablesOK, IsTable
  <2>3. QED
    BY <2>2, PlacesFinite DEF JumpPlaces
<1>2. QED
  BY <1>1

LEMMA LifecycleBalance ==
  ASSUME TypeOK, JumpsOwed, ChainsKept, NEW h \in Hosts, OwesAll(h)', OnlyMoved(h)
  PROVE  JumpsOwed' /\ ChainsKept'
<1>1. \A k \in FamilyLines, j \in JumpLines :
        Cardinality(JumpPlaces(k, j)) \in Nat /\ JumpPlaces(k, j)' = JumpPlaces(k, j)
  BY JumpCounts DEF JumpPlaces, OnlyMoved
<1>2. \A g \in Hosts \ {h} : \A k \in FamilyLines :
        /\ \A j \in JumpLines, n \in {1, 2} : Owes(g, k, j, n) => Owes(g, k, j, n)'
        /\ \A c \in ChainLines : /\ Flushes(g, k, c) => Flushes(g, k, c)'
                                 /\ Deletes(g, k, c) => Deletes(g, k, c)'
  BY DEF Owes, Flushes, Deletes, Past, OnlyMoved
<1>3. \A k \in FamilyLines : /\ \A j \in JumpLines, n \in {1, 2} : Owes(h, k, j, n)'
                             /\ \A c \in ChainLines : Flushes(h, k, c)'
  BY OwesAllNext
<1>4. \A g \in Hosts, k \in FamilyLines, j \in JumpLines, n \in {1, 2} :
        Owes(g, k, j, n) => Owes(g, k, j, n)'
  BY <1>2, <1>3
<1>5. \A g \in Hosts, k \in FamilyLines, c \in ChainLines :
        /\ Flushes(g, k, c) => Flushes(g, k, c)'
        /\ Deletes(g, k, c) => Deletes(g, k, c)' \/ Flushes(g, k, c)'
  BY <1>2, <1>3
<1>6. \A k \in FamilyLines, j \in JumpLines :
        Cardinality(JumpPlaces(k, j)') <= Cardinality(JumpPlaces(k, j))
  BY <1>1
<1>7. table' = table
  BY DEF OnlyMoved
<1>8. QED
  BY <1>1, <1>4, <1>5, <1>6, <1>7, BalanceKept

(* A script that begins undisturbed owes enough, whatever happened before, *)
(* for what it finds.                                                      *)
LEMMA ResetBalance ==
  ASSUME TypeOK, FewJumps, NEW h \in Hosts, OwesAll(h)', OnlyMoved(h)
  PROVE  JumpsOwed' /\ ChainsKept'
<1>1. ASSUME NEW k \in FamilyLines, NEW j \in JumpLines
      PROVE  Cardinality(JumpPlaces(k, j)') <= Cardinality(Owed(k, j)')
  <2>1. Owes(h, k, j, 1)' /\ Owes(h, k, j, 2)'
    BY OwesAllNext
  <2>2. PICK D : D = {<<h, 1>>}
    OBVIOUS
  <2>3. PICK d : d = <<h, 2>>
    OBVIOUS
  <2>4. /\ D \in SUBSET (Hosts \X {1, 2}) /\ d \in Hosts \X {1, 2} /\ d \notin D
        /\ Owed(k, j)' \in SUBSET (Hosts \X {1, 2}) /\ D \cup {d} \subseteq Owed(k, j)'
    BY <2>1, <2>2, <2>3 DEF Owed
  <2>5. 2 <= Cardinality(Owed(k, j)') /\ Cardinality(Owed(k, j)') \in Nat
    <3>1. Cardinality(D) = 1
      BY <2>2, FS_Singleton
    <3>2. /\ Cardinality(Owed(k, j)') \in Nat
          /\ Cardinality(D) + 1 <= Cardinality(Owed(k, j)')
      BY <2>4, OwedCount
    <3>3. QED
      BY <3>1, <3>2
  <2>6. /\ JumpPlaces(k, j)' = JumpPlaces(k, j) /\ Cardinality(JumpPlaces(k, j)) <= 2
        /\ Cardinality(JumpPlaces(k, j)) \in Nat
    BY JumpCounts DEF JumpPlaces, OnlyMoved, FewJumps
  <2>7. QED
    BY <2>5, <2>6
<1>2. \A k \in FamilyLines, c \in ChainLines : Keeps(h, k, c)'
  BY OwesAllNext DEF Keeps
<1>3. QED
  BY <1>1, <1>2 DEF JumpsOwed, ChainsKept, FamilyLines

(* Other programs touch no rule and no chain of AppTap. *)
LEMMA DeviceCounts ==
  ASSUME TypeOK, DeviceAdds \/ DeviceRemoves
  PROVE  /\ \A k \in FamilyLines, j \in JumpLines :
              /\ Cardinality(JumpPlaces(k, j)) \in Nat /\ Cardinality(JumpPlaces(k, j)') \in Nat
              /\ Cardinality(JumpPlaces(k, j)') <= Cardinality(JumpPlaces(k, j))
         /\ \A k \in FamilyLines, c \in ChainLines :
              ChainAt[c] \in DOMAIN table'[Families[k]] =>
                /\ ChainAt[c] \in DOMAIN table[Families[k]]
                /\ table'[Families[k]][ChainAt[c]] = table[Families[k]][ChainAt[c]]
<1>1. \A f \in ToSet(Families) :
        /\ IsTable(table[f], Uids) /\ "OUTPUT" \in DOMAIN table[f]
        /\ table[f]["OUTPUT"] \in Seq(RulesOf("OUTPUT", Uids))
        /\ f \in DOMAIN table
  BY DEF TypeOK, TablesOK, IsTable, Hooks
<1>2. DeviceRule \in RulesOf("OUTPUT", Uids) /\ \A j \in JumpLines : DeviceRule # JumpOf(j)
  <2>1. \A j \in JumpLines : JumpOf(j).target \in AppTapChains
    BY JumpsAndChains DEF JumpOf, Jump
  <2>2. DeviceRule.target \notin AppTapChains
    BY DEF DeviceRule, AppTapChains, CHAIN_MARK, CHAIN_LOG
  <2>3. QED
    BY <2>1, <2>2, RulesBelong
<1>3. \E f \in ToSet(Families), rules \in Seq(RulesOf("OUTPUT", Uids)) :
        /\ table' = [table EXCEPT ![f]["OUTPUT"] = rules]
        /\ \A j \in JumpLines :
             Cardinality(Places(rules, JumpOf(j))) <= Cardinality(Places(table[f]["OUTPUT"], JumpOf(j)))
  <2>1. CASE DeviceAdds
    <3>1. PICK f \in ToSet(Families) : \E pos \in {1, Len(table[f]["OUTPUT"]) + 1} :
            table' = [table EXCEPT ![f]["OUTPUT"] = InsertAt(table[f]["OUTPUT"], pos, DeviceRule)]
      BY <2>1 DEF DeviceAdds
    <3>2. PICK pos \in {1, Len(table[f]["OUTPUT"]) + 1} :
            table' = [table EXCEPT ![f]["OUTPUT"] = InsertAt(table[f]["OUTPUT"], pos, DeviceRule)]
      BY <3>1
    <3>3. pos \in 1..Len(table[f]["OUTPUT"]) + 1
      BY <1>1
    <3>4. InsertAt(table[f]["OUTPUT"], pos, DeviceRule) \in Seq(RulesOf("OUTPUT", Uids))
      BY <1>1, <1>2, <3>3, InsertAtType
    <3>5. ASSUME NEW j \in JumpLines
          PROVE  Cardinality(Places(InsertAt(table[f]["OUTPUT"], pos, DeviceRule), JumpOf(j)))
                   <= Cardinality(Places(table[f]["OUTPUT"], JumpOf(j)))
      <4>1. Cardinality(Places(InsertAt(table[f]["OUTPUT"], pos, DeviceRule), JumpOf(j)))
              <= Cardinality(Places(table[f]["OUTPUT"], JumpOf(j)))
                   + (IF DeviceRule = JumpOf(j) THEN 1 ELSE 0)
        BY <1>1, <1>2, <3>3, InsertAtPlaces
      <4>2. Cardinality(Places(table[f]["OUTPUT"], JumpOf(j))) \in Nat
        BY <1>1, PlacesFinite
      <4>3. QED
        BY <1>2, <4>1, <4>2
    <3>6. QED
      BY <3>2, <3>4, <3>5
  <2>2. CASE DeviceRemoves
    <3>1. PICK f \in ToSet(Families) :
            /\ DeviceRule \in ToSet(table[f]["OUTPUT"])
            /\ table' = [table EXCEPT ![f]["OUTPUT"] = RemoveFirst(table[f]["OUTPUT"], DeviceRule)]
      BY <2>2 DEF DeviceRemoves
    <3>2. RemoveFirst(table[f]["OUTPUT"], DeviceRule) \in Seq(RulesOf("OUTPUT", Uids))
      BY <1>1, RemoveFirstType
    <3>3. ASSUME NEW j \in JumpLines
          PROVE  Cardinality(Places(RemoveFirst(table[f]["OUTPUT"], DeviceRule), JumpOf(j)))
                   <= Cardinality(Places(table[f]["OUTPUT"], JumpOf(j)))
      <4>1. Cardinality(Places(RemoveFirst(table[f]["OUTPUT"], DeviceRule), JumpOf(j)))
              <= Cardinality(Places(table[f]["OUTPUT"], JumpOf(j)))
                   - (IF DeviceRule = JumpOf(j) THEN 1 ELSE 0)
        BY <1>1, <3>1, RemoveFirstPlaces
      <4>2. Cardinality(Places(table[f]["OUTPUT"], JumpOf(j))) \in Nat
        BY <1>1, PlacesFinite
      <4>3. QED
        BY <1>2, <4>1, <4>2
    <3>4. QED
      BY <3>1, <3>2, <3>3
  <2>3. QED
    BY <2>1, <2>2
<1>4. PICK f \in ToSet(Families), rules \in Seq(RulesOf("OUTPUT", Uids)) :
        /\ table' = [table EXCEPT ![f]["OUTPUT"] = rules]
        /\ \A j \in JumpLines :
             Cardinality(Places(rules, JumpOf(j))) <= Cardinality(Places(table[f]["OUTPUT"], JumpOf(j)))
  BY <1>3
<1>5. ASSUME NEW k \in FamilyLines, NEW j \in JumpLines
      PROVE  /\ Cardinality(JumpPlaces(k, j)) \in Nat /\ Cardinality(JumpPlaces(k, j)') \in Nat
             /\ Cardinality(JumpPlaces(k, j)') <= Cardinality(JumpPlaces(k, j))
  <2>1. Families[k] \in ToSet(Families)
    BY NflogTierAssumption, FamiliesInRange DEF FamilyLines
  <2>2. Cardinality(JumpPlaces(k, j)) \in Nat
    BY JumpCounts
  <2>3. CASE Families[k] = f /\ JumpHook[j] = "OUTPUT"
    <3>1. table'[Families[k]]["OUTPUT"] = rules
      BY <1>1, <1>4, <2>3
    <3>2. JumpPlaces(k, j)' = Places(rules, JumpOf(j)) /\ JumpPlaces(k, j) = Places(table[f]["OUTPUT"], JumpOf(j))
      BY <2>3, <3>1 DEF JumpPlaces
    <3>3. Cardinality(Places(rules, JumpOf(j))) \in Nat
      BY PlacesFinite
    <3>4. QED
      BY <1>4, <2>2, <3>2, <3>3
  <2>4. CASE ~(Families[k] = f /\ JumpHook[j] = "OUTPUT")
    <3>1. table'[Families[k]][JumpHook[j]] = table[Families[k]][JumpHook[j]]
      BY <1>1, <1>4, <2>1, <2>4
    <3>2. JumpPlaces(k, j)' = JumpPlaces(k, j)
      BY <3>1 DEF JumpPlaces
    <3>3. QED
      BY <2>2, <3>2
  <2>5. QED
    BY <2>3, <2>4
<1>6. ASSUME NEW k \in FamilyLines, NEW c \in ChainLines,
             ChainAt[c] \in DOMAIN table'[Families[k]]
      PROVE  /\ ChainAt[c] \in DOMAIN table[Families[k]]
             /\ table'[Families[k]][ChainAt[c]] = table[Families[k]][ChainAt[c]]
  <2>1. Families[k] \in ToSet(Families)
    BY NflogTierAssumption, FamiliesInRange DEF FamilyLines
  <2>2. ChainAt[c] # "OUTPUT"
    BY JumpsAndChains DEF AppTapChains, CHAIN_MARK, CHAIN_LOG
  <2>3. QED
    BY <1>1, <1>4, <1>6, <2>1, <2>2
<1>7. QED
  BY <1>5, <1>6

LEMMA DeviceBalance ==
  ASSUME TypeOK, JumpsOwed, ChainsKept, DeviceAdds \/ DeviceRemoves
  PROVE  JumpsOwed' /\ ChainsKept'
<1>1. UNCHANGED <<phase, fam, step>>
  BY DEF DeviceAdds, DeviceRemoves, hostVars
<1>2. \A g \in Hosts, k \in FamilyLines, j \in JumpLines, n \in {1, 2} :
        Owes(g, k, j, n) => Owes(g, k, j, n)'
  BY <1>1 DEF Owes, Past
<1>3. \A g \in Hosts, k \in FamilyLines, c \in ChainLines :
        /\ Flushes(g, k, c) => Flushes(g, k, c)'
        /\ Deletes(g, k, c) => Deletes(g, k, c)' \/ Flushes(g, k, c)'
  BY <1>1 DEF Flushes, Deletes, Past
<1>4. QED
  BY <1>2, <1>3, DeviceCounts, BalanceKept

------------------------------------------------------------------------------
(* The invariant.                                                          *)

FindsFewJumps == epoch = "faulty" /\ epoch' = "clean" => FewJumps

LEMMA OwedStep ==
  ASSUME TypeOK, OwedInv, [Next]_vars, FindsFewJumps
  PROVE  OwedInv'
<1>1. CASE UNCHANGED vars
  BY <1>1
     DEF vars, hostVars, tableVars, OwedInv, JumpsOwed, ChainsKept, JumpPlaces, Owed, Owes, Keeps,
         Flushes, Deletes, Past
<1>2. SUFFICES ASSUME Next, epoch' # "faulty"
               PROVE  late' = {} /\ JumpsOwed' /\ ChainsKept'
  BY <1>1 DEF OwedInv
<1>3. PositionsOK
  BY DEF TypeOK
<1>4. ASSUME NEW h \in Hosts, RunLine(h)
      PROVE  late' = {} /\ JumpsOwed' /\ ChainsKept'
  <2>1. PICK cmd \in Commands(todo[h]) : IsNext(h, cmd) /\ Shell(h, cmd) /\ Advance(h, cmd)
    BY <1>4 DEF RunLine
  <2>2. /\ table' = [table EXCEPT ![Families[fam[h]]] = Apply(@, cmd)]
        /\ UNCHANGED <<late, epoch>>
    BY <1>2, <2>1 DEF Shell, Taint
  <2>3. phase[h] \in Scripts
    BY <1>4 DEF RunLine
  <2>4. late = {} /\ JumpsOwed /\ ChainsKept
    BY <1>2, <2>2 DEF OwedInv
  <2>5. QED
    BY <2>1, <2>2, <2>3, <2>4, LineKeepsJumps, LineKeepsChains
<1>5. ASSUME NEW h \in Hosts, Lifecycle(h)
      PROVE  late' = {} /\ JumpsOwed' /\ ChainsKept'
  <2>1. OwesAll(h)' /\ OnlyMoved(h) /\ late' = late
    BY <1>3, <1>5, LifecycleSteps
  <2>2. CASE epoch # "faulty"
    BY <2>1, <2>2, LifecycleBalance DEF OwedInv
  <2>3. CASE epoch = "faulty"
    <3>1. epoch' = Epoch(h)
      BY <1>2, <1>5, <2>3
         DEF Lifecycle, SetupRaises, Start, Launch, Abort, ExitTeardown, Stop, Collect, Cleanup,
             Crash, Taint, Begin
    <3>2. late = {} /\ epoch' = "clean"
      BY <1>2, <2>3, <3>1 DEF Epoch
    <3>3. QED
      BY <2>1, <2>3, <3>2, ResetBalance DEF FindsFewJumps
  <2>4. QED
    BY <2>2, <2>3
<1>6. CASE RunLate
  <2>1. late # {} /\ epoch' = epoch
    BY <1>6 DEF RunLate
  <2>2. QED
    BY <1>2, <2>1 DEF OwedInv
<1>7. CASE DeviceAdds \/ DeviceRemoves
  <2>1. late' = late /\ epoch' = epoch
    BY <1>7 DEF DeviceAdds, DeviceRemoves
  <2>2. QED
    BY <1>2, <1>7, <2>1, DeviceBalance DEF OwedInv
<1>8. ASSUME NEW c \in Conns, Open(c) \/ Send(c) \/ Close(c)
      PROVE  late' = {} /\ JumpsOwed' /\ ChainsKept'
  BY <1>2, <1>8
     DEF Open, Send, Close, hostVars, tableVars, OwedInv, JumpsOwed, ChainsKept, JumpPlaces, Owed,
         Owes, Keeps, Flushes, Deletes, Past
<1>9. ASSUME NEW h \in Hosts, HostStep(h) PROVE RunLine(h) \/ Lifecycle(h)
  BY <1>9 DEF HostStep, Lifecycle
<1>10. QED
  BY <1>2, <1>4, <1>5, <1>6, <1>7, <1>8, <1>9 DEF Next

LEMMA OwedInit == Init => OwedInv
<1>1. SUFFICES ASSUME Init PROVE late = {} /\ JumpsOwed /\ ChainsKept
  BY DEF OwedInv
<1>2. \A k \in FamilyLines : table[Families[k]] = EmptyTable
  BY <1>1, NflogTierAssumption, FamiliesInRange DEF Init, FamilyLines
<1>3. ASSUME NEW k \in FamilyLines, NEW j \in JumpLines
      PROVE  Cardinality(JumpPlaces(k, j)) <= Cardinality(Owed(k, j))
  <2>1. JumpPlaces(k, j) = {}
    BY <1>2, JumpsAndChains DEF JumpPlaces, Places, EmptyTable
  <2>2. Cardinality(Owed(k, j)) \in Nat
    BY OwnersFinite DEF Owed
  <2>3. QED
    BY <2>1, <2>2, FS_EmptySet
<1>4. ASSUME NEW k \in FamilyLines, NEW c \in ChainLines
      PROVE  ChainAt[c] \notin DOMAIN table[Families[k]]
  BY <1>2, JumpsAndChains DEF EmptyTable, Hooks, AppTapChains, CHAIN_MARK, CHAIN_LOG
<1>5. QED
  BY <1>1, <1>3, <1>4 DEF Init, JumpsOwed, ChainsKept

(* When every host has stopped or never started, nobody keeps a chain. *)
LEMMA OwedTidies == OwedInv => TidyWhenAllStopped
<1>1. SUFFICES ASSUME ChainsKept, \A h \in Hosts : phase[h] \in {"idle", "stopped"},
                      NEW f \in ToSet(Families)
               PROVE  Tidy(table[f])
  BY DEF OwedInv, TidyWhenAllStopped
<1>2. PICK k \in FamilyLines : f = Families[k]
  BY NflogTierAssumption DEF ToSet, FamilyLines
<1>3. \A h \in Hosts, c \in ChainLines : ~Keeps(h, k, c)
  BY <1>1 DEF Keeps, Flushes, Deletes, Cleaning, Running, Left
<1>4. \A c \in ChainLines : ChainAt[c] \notin DOMAIN table[f]
  BY <1>1, <1>2, <1>3 DEF ChainsKept
<1>5. QED
  BY <1>4, JumpsAndChains DEF Tidy

(* netfilter.py:163: as long as a script that begins undisturbed after a   *)
(* fault finds at most two copies of each jump, every jump and chain there *)
(* is always has a host that still removes it.                             *)
THEOREM OwedInvariant == Spec /\ ResetsFindFewJumps => []OwedInv
<1>1. TypeOK /\ OwedInv /\ [Next]_vars /\ [epoch = "faulty" /\ epoch' = "clean" => FewJumps]_vars
        => OwedInv'
  <2>1. SUFFICES ASSUME TypeOK, OwedInv, [Next]_vars,
                        [epoch = "faulty" /\ epoch' = "clean" => FewJumps]_vars
                 PROVE  OwedInv'
    OBVIOUS
  <2>2. FindsFewJumps
    BY <2>1 DEF FindsFewJumps, vars
  <2>3. QED
    BY <2>1, <2>2, OwedStep
<1>2. QED
  BY <1>1, OwedInit, TypeCorrect, PTL DEF Spec, ResetsFindFewJumps

(* nflog.py:69 and :77, netfilter.py:143: on the same condition, the       *)
(* tables are tidy whenever every host has stopped and nothing failed      *)
(* since it began to: for any number of hosts, families, captures and      *)
(* faults.                                                                 *)
THEOREM TidyUnlessCrowded == Spec /\ ResetsFindFewJumps => []TidyWhenAllStopped
BY OwedInvariant, OwedTidies, PTL

(* With no fault allowed, nothing is ever faulty. *)
NeverFaulty == epoch # "faulty" /\ faults = 0

LEMMA NothingFaulty ==
  ASSUME MaxFaults = 0
  PROVE  Spec => [](NeverFaulty /\ OwedInv)
<1>1. Init => NeverFaulty /\ OwedInv
  BY OwedInit DEF Init, NeverFaulty
<1>2. TypeOK /\ NeverFaulty /\ OwedInv /\ [Next]_vars => NeverFaulty' /\ OwedInv'
  <2>1. SUFFICES ASSUME TypeOK, NeverFaulty, OwedInv, [Next]_vars
                 PROVE  NeverFaulty' /\ OwedInv'
    OBVIOUS
  <2>2. late = {} /\ ~Fault
    BY <2>1 DEF NeverFaulty, OwedInv, Fault
  <2>3. \A h \in Hosts : Epoch(h) # "faulty"
    BY <2>1, <2>2 DEF Epoch, NeverFaulty
  <2>4. NeverFaulty'
    <3>1. CASE UNCHANGED vars
      BY <2>1, <3>1 DEF vars, boundVars, NeverFaulty
    <3>2. ASSUME NEW h \in Hosts, HostStep(h) PROVE NeverFaulty'
      <4>1. CASE RunLine(h)
        BY <2>1, <2>2, <4>1 DEF RunLine, Shell, Taint, NeverFaulty
      <4>2. CASE SetupRaises(h) \/ Launch(h) \/ Abort(h) \/ Collect(h) \/ Crash(h)
        BY <2>1, <2>2, <4>2
           DEF SetupRaises, Launch, Abort, Collect, Crash, Taint, boundVars, NeverFaulty
      <4>3. CASE Start(h) \/ ExitTeardown(h) \/ Stop(h) \/ Cleanup(h)
        BY <2>1, <2>3, <4>3 DEF Start, ExitTeardown, Stop, Cleanup, Begin, boundVars, NeverFaulty
      <4>4. QED
        BY <3>2, <4>1, <4>2, <4>3 DEF HostStep
    <3>3. CASE RunLate \/ DeviceAdds \/ DeviceRemoves
      BY <2>1, <3>3 DEF RunLate, DeviceAdds, DeviceRemoves, boundVars, NeverFaulty
    <3>4. ASSUME NEW c \in Conns, Open(c) \/ Send(c) \/ Close(c) PROVE NeverFaulty'
      BY <2>1, <3>4 DEF Open, Send, Close, boundVars, NeverFaulty
    <3>5. QED
      BY <2>1, <3>1, <3>2, <3>3, <3>4 DEF Next
  <2>5. OwedInv'
    BY <2>1, OwedStep DEF NeverFaulty, FindsFewJumps
  <2>6. QED
    BY <2>4, <2>5
<1>3. QED
  BY <1>1, <1>2, TypeCorrect, PTL DEF Spec

(* With no fault at all, no such condition is needed: any number of hosts  *)
(* may capture, abort, tear down and clean up next to each other.          *)
THEOREM TidyWithoutFaults ==
  ASSUME MaxFaults = 0
  PROVE  Spec => []TidyWhenAllStopped
<1>1. NeverFaulty /\ OwedInv => TidyWhenAllStopped
  BY OwedTidies
<1>2. QED
  BY <1>1, NothingFaulty, PTL

------------------------------------------------------------------------------
(* One host, whatever goes wrong.                                          *)

(* The insertions of a jump: one line of the setup each. *)
LEMMA JumpInsertions ==
  ASSUME NEW j \in JumpLines
  PROVE  /\ \E pos \in {1, 2} : build_setup[9 - j] = InsertRule(JumpHook[j], pos, JumpOf(j))
         /\ \A us : \A cmd \in Commands(us) : \A pos \in {1, 2} :
              cmd = InsertRule(JumpHook[j], pos, JumpOf(j)) => cmd = build_setup[9 - j]
<1>1. /\ build_setup[9 - 1] = InsertRule("PREROUTING", 1, Jump(CHAIN_LOG))
      /\ build_setup[9 - 2] = InsertRule("OUTPUT", 2, Jump(CHAIN_LOG))
      /\ build_setup[9 - 3] = InsertRule("OUTPUT", 1, Jump(CHAIN_MARK))
  BY SetupLines
<1>2. j = 1 \/ j = 2 \/ j = 3
  BY DEF JumpLines
<1>3. \E pos \in {1, 2} : build_setup[9 - j] = InsertRule(JumpHook[j], pos, JumpOf(j))
  BY <1>1, <1>2 DEF JumpHook, JumpChain, JumpOf
<1>4. ASSUME NEW us, NEW cmd \in Commands(us), NEW pos \in {1, 2},
             cmd = InsertRule(JumpHook[j], pos, JumpOf(j))
      PROVE  cmd = build_setup[9 - j]
  <2>1. cmd.op = "-I" /\ cmd.chain = JumpHook[j] /\ cmd.rule = JumpOf(j)
    BY <1>4 DEF InsertRule
  <2>2. \A i \in DOMAIN build_teardown : build_teardown[i].op # "-I"
    <3>1. DOMAIN build_teardown = 1..10
      BY ScriptLengths DEF build_teardown, DeleteJumps
    <3>2. ASSUME NEW i \in 1..10 PROVE build_teardown[i].op # "-I"
      <4>1. \/ \E m \in JumpLines : i = m \/ i = m + 3
            \/ \E c \in ChainLines : i = 6 + c \/ i = 8 + c
        <5>1. /\ i \in {1, 2, 3} => i \in JumpLines
              /\ i \in {4, 5, 6} => i - 3 \in JumpLines /\ i = (i - 3) + 3
              /\ i \in {7, 8} => i - 6 \in ChainLines /\ i = 6 + (i - 6)
              /\ i \in {9, 10} => i - 8 \in ChainLines /\ i = 8 + (i - 8)
          BY DEF JumpLines, ChainLines
        <5>2. QED
          BY <5>1
      <4>2. /\ \A hook, r : DeleteRule(hook, r).op # "-I"
            /\ \A c : FlushChain(c).op # "-I" /\ DeleteChain(c).op # "-I"
        BY DEF DeleteRule, FlushChain, DeleteChain
      <4>3. QED
        BY <4>1, <4>2, TeardownLines
    <3>3. QED
      BY <3>1, <3>2
  <2>3. \A u : AppendRule(CHAIN_MARK, SetXmark(u)).op # "-I"
    BY DEF AppendRule
  <2>4. PICK i \in DOMAIN build_setup : cmd = build_setup[i]
    BY <2>1, <2>2, <2>3 DEF Commands
  <2>5. i \in 1..8
    BY ScriptLengths DEF build_setup
  <2>6. i \in {6, 7, 8}
    <3>1. /\ \A c : NewChain(c).op # "-I"
          /\ PerUid.op # "-I"
          /\ \A c, r : AppendRule(c, r).op # "-I"
      BY DEF NewChain, PerUid, AppendRule
    <3>2. /\ build_setup[1].op # "-I" /\ build_setup[2].op # "-I" /\ build_setup[3].op # "-I"
          /\ build_setup[4].op # "-I" /\ build_setup[5].op # "-I"
      BY <3>1, SetupLines
    <3>3. QED
      BY <2>1, <2>4, <2>5, <3>2
  <2>7. CASE j = 1
    BY <1>1, <2>1, <2>4, <2>6, <2>7, SetupLines
       DEF InsertRule, JumpHook, JumpChain, JumpOf, Jump, CHAIN_LOG, CHAIN_MARK
  <2>8. CASE j = 2
    BY <1>1, <2>1, <2>4, <2>6, <2>8, SetupLines
       DEF InsertRule, JumpHook, JumpChain, JumpOf, Jump, CHAIN_LOG, CHAIN_MARK
  <2>9. CASE j = 3
    BY <1>1, <2>1, <2>4, <2>6, <2>9, SetupLines
       DEF InsertRule, JumpHook, JumpChain, JumpOf, Jump, CHAIN_LOG, CHAIN_MARK
  <2>10. QED
    BY <1>2, <2>7, <2>8, <2>9
<1>5. QED
  BY <1>3, <1>4

(* How far the heal and the setup of host h are with a jump. *)
LEMMA HealStep ==
  ASSUME PositionsOK, NEW h \in Hosts, NEW cmd, phase[h] \in Scripts,
         IsNext(h, cmd), Advance(h, cmd),
         NEW k \in FamilyLines, NEW j \in JumpLines
  PROVE  /\ BetweenDeletes(h, k, j)' => BetweenDeletes(h, k, j) \/ DeletesNext(h, k, j, 1)
         /\ BeforeInsert(h, k, j)' =>
              \/ BeforeInsert(h, k, j)
              \/ DeletesNext(h, k, j, 2) /\ BetweenDeletes(h, k, j)
         /\ InsertsNext(h, k, j) =>
              /\ BeforeInsert(h, k, j)
              /\ ~BetweenDeletes(h, k, j)' /\ ~BeforeInsert(h, k, j)'
<1>1. /\ j \in 1..10 /\ j + 3 \in 1..10 /\ 9 - j \in 1..8 /\ 9 - j # 3
      /\ j + 3 * (1 - 1) = j /\ j + 3 * (2 - 1) = j + 3
  BY DEF JumpLines
<1>2. fam[h] \in Nat /\ step[h] \in Nat /\ k \in Nat
  BY DEF PositionsOK, FamilyLines
<1>3. /\ phase'[h] = "heal" => phase[h] = "heal" /\ ~NextPhase(h)
      /\ phase'[h] = "setup" => phase[h] \in {"heal", "setup"}
  BY DEF Advance, NextUid, NextLine, NextFamily, NextPhase, BeginScript, Enter, PositionsOK, Scripts
<1>4. {"heal"} \subseteq Cleaning /\ "setup" \notin Cleaning
  BY DEF Cleaning
<1>5. ASSUME BetweenDeletes(h, k, j)'
      PROVE  BetweenDeletes(h, k, j) \/ DeletesNext(h, k, j, 1)
  <2>1. phase'[h] = "heal" /\ Past(h, k, j)' /\ ~Past(h, k, j + 3)'
    BY <1>5 DEF BetweenDeletes, Past
  <2>2. phase[h] = "heal" /\ ~NextPhase(h)
    BY <1>3, <2>1
  <2>3. j \in 1..Len(Script(phase[h])) /\ j + 3 \in 1..Len(Script(phase[h]))
    <3>1. Len(Script(phase[h])) = 10
      BY <1>4, <2>2, CleaningCommand
    <3>2. QED
      BY <1>1, <3>1, Zenon
  <2>4. /\ Past(h, k, j)' <=> Past(h, k, j) \/ (h = h /\ k = fam[h] /\ j = step[h] /\ ~Looping(h))
        /\ Past(h, k, j + 3) => Past(h, k, j + 3)'
    BY <2>2, <2>3, AdvancePast
  <2>5. QED
    BY <1>1, <1>4, <2>1, <2>2, <2>4 DEF BetweenDeletes, DeletesNext
<1>6. ASSUME BeforeInsert(h, k, j)', ~BeforeInsert(h, k, j)
      PROVE  DeletesNext(h, k, j, 2) /\ BetweenDeletes(h, k, j)
  <2>1. \/ phase'[h] = "heal" /\ Past(h, k, j + 3)'
        \/ phase'[h] = "setup" /\ ~Past(h, k, 9 - j)'
    BY <1>6 DEF BeforeInsert, Past
  <2>2. CASE phase[h] = "setup"
    <3>1. Past(h, k, 9 - j)
      BY <1>6, <2>2 DEF BeforeInsert
    <3>2. (phase'[h] = "setup" /\ Past(h, k, 9 - j)') \/ phase'[h] = "launch"
      BY <1>1, <2>2, <3>1, CreatedStep
    <3>3. QED
      BY <2>1, <3>2
  <2>3. CASE phase[h] = "heal"
    <3>1. ~Past(h, k, j + 3)
      BY <1>6, <2>3 DEF BeforeInsert
    <3>2. \/ phase'[h] \in Cleaning /\ ~Past(h, k, j + 3)'
          \/ k = fam[h] /\ step[h] = j + 3
      BY <1>1, <1>4, <2>3, <3>1, PendingStep
    <3>3. k = fam[h] /\ step[h] = j + 3
      BY <1>4, <2>1, <3>2
    <3>4. Past(h, k, j)
      BY <1>1, <1>2, <3>3 DEF Past
    <3>5. QED
      BY <1>1, <1>4, <2>3, <3>1, <3>3, <3>4 DEF DeletesNext, BetweenDeletes
  <2>4. QED
    BY <1>3, <2>1, <2>2, <2>3
<1>7. ASSUME InsertsNext(h, k, j)
      PROVE  /\ BeforeInsert(h, k, j)
             /\ ~BetweenDeletes(h, k, j)' /\ ~BeforeInsert(h, k, j)'
  <2>1. k = fam[h] /\ phase[h] = "setup" /\ step[h] = 9 - j
    BY <1>7 DEF InsertsNext
  <2>2. ~Past(h, k, 9 - j)
    BY <1>1, <1>2, <2>1 DEF Past
  <2>3. (phase'[h] = "setup" /\ Past(h, k, 9 - j)') \/ phase'[h] = "launch"
    BY <1>1, <2>1, CreatedStep
  <2>4. QED
    BY <2>1, <2>2, <2>3 DEF BeforeInsert, BetweenDeletes, Past
<1>8. QED
  BY <1>5, <1>6, <1>7

(* Late insertions are late commands, and a command that is late is one    *)
(* more of them at most, and none if it is not that insertion.             *)
LEMMA LateCount ==
  ASSUME IsFiniteSet(late), NEW k, NEW j
  PROVE  /\ Cardinality(late) \in Nat /\ Cardinality(LateInserts(k, j)) \in Nat
         /\ Cardinality(LateInserts(k, j)) <= Cardinality(late)
         /\ \A l : late' = late \cup {l} =>
              /\ IsFiniteSet(late') /\ Cardinality(late') <= Cardinality(late) + 1
              /\ Cardinality(LateInserts(k, j)') \in Nat
              /\ Cardinality(LateInserts(k, j)') <= Cardinality(LateInserts(k, j)) + 1
              /\ ~(l.family = Families[k] /\ l.cmd = build_setup[9 - j]) =>
                   LateInserts(k, j)' = LateInserts(k, j)
         /\ \A l \in late : late' = late \ {l} =>
              /\ IsFiniteSet(late') /\ Cardinality(late') = Cardinality(late) - 1
              /\ Cardinality(LateInserts(k, j)') \in Nat
              /\ Cardinality(LateInserts(k, j)') <= Cardinality(LateInserts(k, j))
              /\ (l.family = Families[k] /\ l.cmd = build_setup[9 - j]) =>
                   Cardinality(LateInserts(k, j)') = Cardinality(LateInserts(k, j)) - 1
<1> DEFINE I == LateInserts(k, j)
           J == LateInserts(k, j)'
           IsInsertion(l) == l.family = Families[k] /\ l.cmd = build_setup[9 - j]
<1>1. I \in SUBSET late /\ I = {l \in late : IsInsertion(l)} /\ J = {l \in late' : IsInsertion(l)}
  BY DEF LateInserts
<1> HIDE DEF I, J, IsInsertion
<1>2. /\ IsFiniteSet(I) /\ Cardinality(late) \in Nat /\ Cardinality(I) \in Nat
      /\ Cardinality(I) <= Cardinality(late)
  BY <1>1, FS_Subset, FS_CardinalityType
<1>3. ASSUME NEW l, late' = late \cup {l}
      PROVE  /\ IsFiniteSet(late') /\ Cardinality(late') <= Cardinality(late) + 1
             /\ Cardinality(J) \in Nat
             /\ Cardinality(J) <= Cardinality(I) + 1
             /\ ~IsInsertion(l) => J = I
  <2>1. IsFiniteSet(late') /\ Cardinality(late') <= Cardinality(late) + 1
    <3>1. /\ IsFiniteSet(late \cup {l})
          /\ Cardinality(late \cup {l}) = IF l \in late THEN Cardinality(late) ELSE Cardinality(late) + 1
      BY FS_AddElement
    <3>2. QED
      BY <1>2, <1>3, <3>1
  <2>2. J = I \/ J = I \cup {l}
    BY <1>1, <1>3
  <2>3. ~IsInsertion(l) => J = I
    BY <1>1, <1>3
  <2>4. Cardinality(I \cup {l}) \in Nat /\ Cardinality(I \cup {l}) <= Cardinality(I) + 1
    BY <1>2, FS_AddElement
  <2>5. QED
    BY <1>2, <2>1, <2>2, <2>3, <2>4
<1>4. ASSUME NEW l \in late, late' = late \ {l}
      PROVE  /\ IsFiniteSet(late') /\ Cardinality(late') = Cardinality(late) - 1
             /\ Cardinality(J) \in Nat
             /\ Cardinality(J) <= Cardinality(I)
             /\ IsInsertion(l) => Cardinality(J) = Cardinality(I) - 1
  <2>1. IsFiniteSet(late') /\ Cardinality(late') = Cardinality(late) - 1
    BY <1>4, FS_RemoveElement
  <2>2. J = I \ {l}
    BY <1>1, <1>4
  <2>3. /\ IsFiniteSet(I \ {l})
        /\ Cardinality(I \ {l}) = IF l \in I THEN Cardinality(I) - 1 ELSE Cardinality(I)
    BY <1>2, FS_RemoveElement
  <2>4. Cardinality(J) \in Nat
    BY <2>2, <2>3, FS_CardinalityType
  <2>5. IsInsertion(l) => l \in I
    BY <1>1
  <2>6. QED
    BY <1>2, <2>1, <2>2, <2>3, <2>4, <2>5
<1>5. QED
  BY <1>2, <1>3, <1>4 DEF I, J, IsInsertion

(* A line of the one host, whatever becomes of it. *)
LEMMA CopiesLine ==
  ASSUME TypeOK, CopiesInv, NEW a, Hosts = {a}, RunLine(a)
  PROVE  CopiesInv'
<1>1. PICK cmd \in Commands(todo[a]) : IsNext(a, cmd) /\ Shell(a, cmd) /\ Advance(a, cmd)
  BY DEF RunLine
<1>2. phase[a] \in Scripts /\ a \in Hosts /\ PositionsOK
  BY DEF RunLine, TypeOK
<1> DEFINE Ran == /\ table' = [table EXCEPT ![Families[fam[a]]] = Apply(@, cmd)]
                  /\ UNCHANGED <<late, faults>>
           Lost == UNCHANGED <<table, late>> /\ faults' = faults + 1
           l == [id |-> faults, family |-> Families[fam[a]], cmd |-> cmd]
           Late == /\ UNCHANGED table /\ faults' = faults + 1
                   /\ Cardinality(late) < MaxLate /\ late' = late \cup {l}
<1>3. Ran \/ Lost \/ Late
  BY <1>1 DEF Shell, Taint, Fault, tableVars
<1>4. /\ IsFiniteSet(late) /\ Cardinality(late) \in Nat
      /\ Cardinality(late) <= MaxLate /\ Cardinality(late) <= faults
      /\ MaxLate \in Nat /\ faults \in Nat
  BY FS_CardinalityType, NflogTierAssumption DEF CopiesInv, TypeOK
<1>5. IsFiniteSet(late') /\ Cardinality(late') <= MaxLate /\ Cardinality(late') <= faults'
  <2>1. CASE Ran \/ Lost
    BY <1>4, <2>1
  <2>2. CASE Late
    <3>1. IsFiniteSet(late') /\ Cardinality(late') \in Nat /\ Cardinality(late') <= Cardinality(late) + 1
      <4>1. IsFiniteSet(late') /\ Cardinality(late') <= Cardinality(late) + 1
        BY <1>4, <2>2, LateCount
      <4>2. QED
        BY <4>1, FS_CardinalityType
    <3>2. QED
      BY <1>4, <2>2, <3>1
  <2>3. QED
    BY <1>3, <2>1, <2>2
<1>6. ASSUME NEW k \in FamilyLines, NEW j \in JumpLines
      PROVE  CopiesBounded(k, j)'
  <2> DEFINE C == Cardinality(JumpPlaces(k, j))
             Q == Cardinality(JumpPlaces(k, j)')
             L == Cardinality(LateInserts(k, j))
             M == Cardinality(LateInserts(k, j)')
  <2>1. /\ C + L <= 1 + faults /\ 2 * (C + L) <= 2 + faults + MaxLate
        /\ BetweenDeletes(a, k, j) => C + L <= faults /\ 2 * (C + L) <= 1 + faults + MaxLate
        /\ BeforeInsert(a, k, j) => C + L <= faults /\ 2 * (C + L) <= faults + MaxLate
    BY <1>2 DEF CopiesInv, CopiesBounded, Copied
  <2>2. /\ BetweenDeletes(a, k, j)' => BetweenDeletes(a, k, j) \/ DeletesNext(a, k, j, 1)
        /\ BeforeInsert(a, k, j)' =>
             BeforeInsert(a, k, j) \/ (DeletesNext(a, k, j, 2) /\ BetweenDeletes(a, k, j))
        /\ InsertsNext(a, k, j) =>
             /\ BeforeInsert(a, k, j)
             /\ ~BetweenDeletes(a, k, j)' /\ ~BeforeInsert(a, k, j)'
    BY <1>1, <1>2, HealStep
  <2>3. /\ C \in Nat /\ L \in Nat /\ L <= MaxLate /\ L <= faults
    BY <1>4, JumpCounts, LateCount
  <2>4. CASE Ran
    <3>1. /\ Q \in Nat /\ Q <= C + 1 /\ (~InsertsNext(a, k, j) => Q <= C)
          /\ DeletesNext(a, k, j, 1) \/ DeletesNext(a, k, j, 2) => Q = 0 \/ Q <= C - 1
      BY <1>1, <1>2, <2>4, LineCounts
    <3>2. M = L /\ faults' = faults
      BY <2>4 DEF LateInserts
    <3> HIDE DEF C, Q, L, M
    <3>3. Q + L <= 1 + faults /\ 2 * (Q + L) <= 2 + faults + MaxLate
      BY <1>4, <2>1, <2>2, <2>3, <3>1
    <3>4. BetweenDeletes(a, k, j)' => Q + L <= faults /\ 2 * (Q + L) <= 1 + faults + MaxLate
      BY <1>4, <2>1, <2>2, <2>3, <3>1
    <3>5. BeforeInsert(a, k, j)' => Q + L <= faults /\ 2 * (Q + L) <= faults + MaxLate
      BY <1>4, <2>1, <2>2, <2>3, <3>1
    <3>6. QED
      BY <1>2, <3>2, <3>3, <3>4, <3>5 DEF CopiesBounded, Copied, Q, M
  <2>5. CASE Lost
    <3>1. Q = C /\ M = L /\ faults' = faults + 1
      BY <2>5 DEF LateInserts, JumpPlaces
    <3> HIDE DEF C, Q, L, M
    <3>2. C + L <= 1 + faults' /\ 2 * (C + L) <= 2 + faults' + MaxLate
      BY <1>4, <2>1, <2>3, <3>1
    <3>3. BetweenDeletes(a, k, j)' => C + L <= faults' /\ 2 * (C + L) <= 1 + faults' + MaxLate
      BY <1>4, <2>1, <2>3, <3>1
    <3>4. BeforeInsert(a, k, j)' => C + L <= faults' /\ 2 * (C + L) <= faults' + MaxLate
      BY <1>4, <2>1, <2>2, <2>3, <3>1
    <3>5. QED
      BY <1>2, <3>1, <3>2, <3>3, <3>4 DEF CopiesBounded, Copied, Q, M
  <2>6. CASE Late
    <3>1. l.family = Families[k] /\ l.cmd = build_setup[9 - j] => InsertsNext(a, k, j)
      <4>1. SUFFICES ASSUME Families[fam[a]] = Families[k], cmd = build_setup[9 - j]
                     PROVE  InsertsNext(a, k, j)
        OBVIOUS
      <4>2. k = fam[a]
        BY <1>2, <4>1, NflogTierAssumption DEF IsInjective, FamilyLines, PositionsOK
      <4>3. PICK pos \in {1, 2} : cmd = InsertRule(JumpHook[j], pos, JumpOf(j))
        BY <4>1, JumpInsertions
      <4>4. phase[a] = "setup"
        BY <1>1, <1>2, <4>3, CleaningCommand DEF Scripts, Cleaning
      <4>5. step[a] = 9 - j
        BY <1>1, <1>2, <4>3, <4>4, SetupCommand
      <4>6. QED
        BY <4>2, <4>4, <4>5 DEF InsertsNext
    <3>2. /\ Q = C /\ faults' = faults + 1
          /\ M \in Nat /\ M <= L + 1 /\ (~InsertsNext(a, k, j) => M = L)
      BY <1>4, <2>6, <3>1, LateCount DEF JumpPlaces
    <3> HIDE DEF C, Q, L, M
    <3>3. C + M <= 1 + faults' /\ 2 * (C + M) <= 2 + faults' + MaxLate
      BY <1>4, <2>1, <2>2, <2>3, <3>2
    <3>4. BetweenDeletes(a, k, j)' => C + M <= faults' /\ 2 * (C + M) <= 1 + faults' + MaxLate
      BY <1>4, <2>1, <2>2, <2>3, <3>2
    <3>5. BeforeInsert(a, k, j)' => C + M <= faults' /\ 2 * (C + M) <= faults' + MaxLate
      BY <1>4, <2>1, <2>2, <2>3, <3>2
    <3>6. QED
      BY <1>2, <3>2, <3>3, <3>4, <3>5 DEF CopiesBounded, Copied, Q, M
  <2>7. QED
    BY <1>3, <2>4, <2>5, <2>6
<1>7. QED
  BY <1>5, <1>6 DEF CopiesInv, FamilyLines

(* No copies are made where a script begins or is left, nor by others. *)
LEMMA CopiesKept ==
  ASSUME CopiesInv, NEW a, Hosts = {a}, late' = late, MaxLate \in Nat, faults \in Nat,
         faults' = faults \/ faults' = faults + 1,
         \A k \in FamilyLines, j \in JumpLines :
           /\ Cardinality(JumpPlaces(k, j)) \in Nat /\ Cardinality(JumpPlaces(k, j)') \in Nat
           /\ Cardinality(JumpPlaces(k, j)') <= Cardinality(JumpPlaces(k, j))
           /\ BetweenDeletes(a, k, j)' => BetweenDeletes(a, k, j)
           /\ BeforeInsert(a, k, j)' => BeforeInsert(a, k, j)
  PROVE  CopiesInv'
<1>1. /\ IsFiniteSet(late') /\ Cardinality(late') <= MaxLate /\ Cardinality(late') <= faults'
      /\ Cardinality(late) \in Nat
  BY FS_CardinalityType DEF CopiesInv
<1>2. ASSUME NEW k \in FamilyLines, NEW j \in JumpLines
      PROVE  CopiesBounded(k, j)'
  <2> DEFINE C == Cardinality(JumpPlaces(k, j))
             Q == Cardinality(JumpPlaces(k, j)')
             L == Cardinality(LateInserts(k, j))
  <2>1. /\ C + L <= 1 + faults /\ 2 * (C + L) <= 2 + faults + MaxLate
        /\ BetweenDeletes(a, k, j) => C + L <= faults /\ 2 * (C + L) <= 1 + faults + MaxLate
        /\ BeforeInsert(a, k, j) => C + L <= faults /\ 2 * (C + L) <= faults + MaxLate
    BY DEF CopiesInv, CopiesBounded, Copied
  <2>2. C \in Nat /\ Q \in Nat /\ Q <= C /\ L \in Nat
    BY LateCount DEF CopiesInv
  <2>3. LateInserts(k, j)' = LateInserts(k, j)
    BY DEF LateInserts
  <2> HIDE DEF C, Q, L
  <2>4. Q + L <= 1 + faults' /\ 2 * (Q + L) <= 2 + faults' + MaxLate
    BY <2>1, <2>2
  <2>5. BetweenDeletes(a, k, j)' => Q + L <= faults' /\ 2 * (Q + L) <= 1 + faults' + MaxLate
    BY <2>1, <2>2
  <2>6. BeforeInsert(a, k, j)' => Q + L <= faults' /\ 2 * (Q + L) <= faults' + MaxLate
    BY <2>1, <2>2
  <2>7. QED
    BY <2>3, <2>4, <2>5, <2>6 DEF CopiesBounded, Copied, Q, L
<1>3. QED
  BY <1>1, <1>2 DEF CopiesInv, FamilyLines

LEMMA CopiesLifecycle ==
  ASSUME TypeOK, CopiesInv, NEW a, Hosts = {a}, Lifecycle(a)
  PROVE  CopiesInv'
<1>1. OwesAll(a)' /\ OnlyMoved(a) /\ late' = late
  BY LifecycleSteps DEF TypeOK
<1>2. faults' = faults \/ faults' = faults + 1
  BY DEF Lifecycle, SetupRaises, Start, Launch, Abort, ExitTeardown, Stop, Collect, Cleanup, Crash,
         Taint, Fault, boundVars
<1>3. ASSUME NEW k \in FamilyLines, NEW j \in JumpLines
      PROVE  ~BetweenDeletes(a, k, j)' /\ ~BeforeInsert(a, k, j)'
  <2>1. k \in Nat /\ k >= 1 /\ j \in Nat /\ j >= 1
    BY NflogTierAssumption DEF FamilyLines, JumpLines
  <2>2. phase'[a] \in Cleaning => ~Past(a, k, j)' /\ ~Past(a, k, j + 3)'
    <3>1. phase'[a] \in Cleaning => fam'[a] = 1 /\ step'[a] = 1
      BY <1>1 DEF OwesAll, Cleaning, Running, Left
    <3>2. QED
      BY <2>1, <3>1 DEF Past
  <2>3. phase'[a] # "setup" /\ "heal" \in Cleaning
    BY <1>1 DEF OwesAll, Cleaning, Running, Left
  <2>4. QED
    BY <2>2, <2>3 DEF BetweenDeletes, BeforeInsert, Past
<1>4. \A k \in FamilyLines, j \in JumpLines :
        Cardinality(JumpPlaces(k, j)) \in Nat /\ JumpPlaces(k, j)' = JumpPlaces(k, j)
  BY <1>1, JumpCounts DEF JumpPlaces, OnlyMoved
<1>5. MaxLate \in Nat /\ faults \in Nat
  BY NflogTierAssumption DEF TypeOK
<1>6. \A k \in FamilyLines, j \in JumpLines :
        /\ Cardinality(JumpPlaces(k, j)) \in Nat /\ Cardinality(JumpPlaces(k, j)') \in Nat
        /\ Cardinality(JumpPlaces(k, j)') <= Cardinality(JumpPlaces(k, j))
        /\ BetweenDeletes(a, k, j)' => BetweenDeletes(a, k, j)
        /\ BeforeInsert(a, k, j)' => BeforeInsert(a, k, j)
  BY <1>3, <1>4
<1>7. QED
  BY <1>1, <1>2, <1>5, <1>6, CopiesKept

(* An insertion that runs late was counted already. *)
LEMMA CopiesLate ==
  ASSUME TypeOK, CopiesInv, RunLate
  PROVE  CopiesInv'
<1>1. PICK l \in late : /\ table' = [table EXCEPT ![l.family] = Apply(@, l.cmd)]
                        /\ late' = late \ {l}
  BY DEF RunLate
<1>2. /\ IsFiniteSet(late) /\ Cardinality(late) \in Nat
      /\ Cardinality(late) <= MaxLate /\ Cardinality(late) <= faults
      /\ MaxLate \in Nat /\ faults \in Nat /\ UNCHANGED <<faults, phase, fam, step>>
  BY FS_CardinalityType, NflogTierAssumption DEF CopiesInv, TypeOK, RunLate, boundVars, hostVars
<1>3. l.family \in ToSet(Families) /\ l.cmd \in Commands(Uids)
  BY DEF TypeOK, TablesOK
<1>4. IsFiniteSet(late') /\ Cardinality(late') = Cardinality(late) - 1
  BY <1>1, <1>2, LateCount
<1>5. ASSUME NEW k \in FamilyLines, NEW j \in JumpLines
      PROVE  CopiesBounded(k, j)'
  <2> DEFINE C == Cardinality(JumpPlaces(k, j))
             Q == Cardinality(JumpPlaces(k, j)')
             L == Cardinality(LateInserts(k, j))
             M == Cardinality(LateInserts(k, j)')
             Insertion == l.family = Families[k] /\ l.cmd = build_setup[9 - j]
  <2>1. /\ L \in Nat /\ M \in Nat /\ M <= L /\ (Insertion => M = L - 1)
    BY <1>1, <1>2, LateCount
  <2>2. C \in Nat /\ Q \in Nat /\ Q <= C + 1 /\ (~Insertion => Q <= C)
    <3>1. Families[k] \in ToSet(Families) /\ DOMAIN table = ToSet(Families)
      BY NflogTierAssumption, FamiliesInRange DEF FamilyLines, TypeOK, TablesOK
    <3>2. IsTable(table[Families[k]], Uids) /\ JumpHook[j] \in Hooks
      BY <3>1, JumpsAndChains DEF TypeOK, TablesOK
    <3>3. CASE l.family # Families[k]
      <4>1. JumpPlaces(k, j)' = JumpPlaces(k, j)
        BY <1>1, <1>3, <3>1, <3>3 DEF JumpPlaces
      <4>2. QED
        BY <4>1, JumpCounts
    <3>4. CASE l.family = Families[k]
      <4>1. table'[Families[k]] = Apply(table[Families[k]], l.cmd)
        BY <1>1, <1>3, <3>1, <3>4
      <4>2. /\ C \in Nat /\ Q \in Nat /\ Q <= C + 1
            /\ (\A pos \in {1, 2} : l.cmd # InsertRule(JumpHook[j], pos, JumpOf(j))) => Q <= C
        BY <1>3, <3>2, <4>1, ApplyPlaces DEF JumpPlaces
      <4>3. ~Insertion => \A pos \in {1, 2} : l.cmd # InsertRule(JumpHook[j], pos, JumpOf(j))
        BY <1>3, <3>4, JumpInsertions
      <4>4. QED
        BY <4>2, <4>3
    <3>5. QED
      BY <3>3, <3>4
  <2> HIDE DEF C, Q, L, M, Insertion
  <2>3. Q + M <= C + L /\ Q + M \in Nat /\ C + L \in Nat
    BY <2>1, <2>2
  <2>4. Copied(k, j) = C + L /\ Copied(k, j)' = Q + M
    BY DEF Copied, C, Q, L, M
  <2>5. CopiesBounded(k, j)
    BY DEF CopiesInv
  <2>6. \A h \in Hosts : /\ BetweenDeletes(h, k, j)' <=> BetweenDeletes(h, k, j)
                         /\ BeforeInsert(h, k, j)' <=> BeforeInsert(h, k, j)
    BY <1>2 DEF BetweenDeletes, BeforeInsert, Past
  <2>7. /\ C + L <= 1 + faults => Q + M <= 1 + faults
        /\ 2 * (C + L) <= 2 + faults + MaxLate => 2 * (Q + M) <= 2 + faults + MaxLate
        /\ C + L <= faults => Q + M <= faults
        /\ 2 * (C + L) <= 1 + faults + MaxLate => 2 * (Q + M) <= 1 + faults + MaxLate
        /\ 2 * (C + L) <= faults + MaxLate => 2 * (Q + M) <= faults + MaxLate
    BY <1>2, <2>3
  <2>8. faults' = faults
    BY <1>2
  <2>9. QED
    BY <2>4, <2>5, <2>6, <2>7, <2>8 DEF CopiesBounded
<1>6. QED
  BY <1>2, <1>4, <1>5 DEF CopiesInv, FamilyLines

LEMMA CopiesStep ==
  ASSUME NEW a, Hosts = {a}, TypeOK, CopiesInv, [Next]_vars
  PROVE  CopiesInv'
<1>1. ASSUME UNCHANGED <<table, late, faults, phase, fam, step>>
      PROVE  CopiesInv'
  BY <1>1
     DEF CopiesInv, CopiesBounded, Copied, JumpPlaces, LateInserts, BetweenDeletes, BeforeInsert, Past
<1>2. CASE UNCHANGED vars
  BY <1>1, <1>2 DEF vars, hostVars, tableVars, boundVars
<1>3. ASSUME NEW h \in Hosts, HostStep(h)
      PROVE  CopiesInv'
  <2>1. RunLine(a) \/ Lifecycle(a)
    BY <1>3 DEF HostStep, Lifecycle
  <2>2. QED
    BY <2>1, CopiesLine, CopiesLifecycle
<1>4. CASE DeviceAdds \/ DeviceRemoves
  <2>1. UNCHANGED <<late, faults, phase, fam, step>>
    BY <1>4 DEF DeviceAdds, DeviceRemoves, hostVars, boundVars
  <2>2. \A k \in FamilyLines, j \in JumpLines :
          /\ BetweenDeletes(a, k, j)' => BetweenDeletes(a, k, j)
          /\ BeforeInsert(a, k, j)' => BeforeInsert(a, k, j)
    BY <2>1 DEF BetweenDeletes, BeforeInsert, Past
  <2>3. MaxLate \in Nat /\ faults \in Nat
    BY NflogTierAssumption DEF TypeOK
  <2>4. \A k \in FamilyLines, j \in JumpLines :
          /\ Cardinality(JumpPlaces(k, j)) \in Nat /\ Cardinality(JumpPlaces(k, j)') \in Nat
          /\ Cardinality(JumpPlaces(k, j)') <= Cardinality(JumpPlaces(k, j))
    BY <1>4, DeviceCounts
  <2>5. QED
    BY <2>1, <2>2, <2>3, <2>4, CopiesKept
<1>5. ASSUME NEW c \in Conns, Open(c) \/ Send(c) \/ Close(c)
      PROVE  CopiesInv'
  BY <1>1, <1>5 DEF Open, Send, Close, hostVars, tableVars, boundVars
<1>6. QED
  BY <1>2, <1>3, <1>4, <1>5, CopiesLate DEF Next

LEMMA CopiesInit == Init => CopiesInv
<1>1. SUFFICES ASSUME Init PROVE CopiesInv
  OBVIOUS
<1>2. late = {} /\ faults = 0 /\ IsFiniteSet(late) /\ Cardinality(late) = 0 /\ MaxLate \in Nat
  BY <1>1, FS_EmptySet, NflogTierAssumption DEF Init
<1>3. ASSUME NEW k \in FamilyLines, NEW j \in JumpLines
      PROVE  CopiesBounded(k, j)
  <2>1. table[Families[k]] = EmptyTable
    BY <1>1, NflogTierAssumption, FamiliesInRange DEF Init, FamilyLines
  <2>2. JumpPlaces(k, j) = {} /\ LateInserts(k, j) = {}
    BY <1>2, <2>1, JumpsAndChains DEF JumpPlaces, Places, EmptyTable, LateInserts
  <2>3. Copied(k, j) = 0
    BY <2>2, FS_EmptySet DEF Copied
  <2>4. \A h \in Hosts : ~BetweenDeletes(h, k, j) /\ ~BeforeInsert(h, k, j)
    BY <1>1 DEF Init, BetweenDeletes, BeforeInsert
  <2>5. QED
    BY <1>2, <2>3, <2>4 DEF CopiesBounded
<1>4. QED
  BY <1>2, <1>3 DEF CopiesInv

LEMMA CopiesBound == TypeOK /\ CopiesInv => JumpsBounded
<1>1. SUFFICES ASSUME TypeOK, CopiesInv, NEW k \in FamilyLines, NEW j \in JumpLines
               PROVE  /\ Cardinality(JumpPlaces(k, j)) <= 1 + faults
                      /\ 2 * Cardinality(JumpPlaces(k, j)) <= 2 + faults + MaxLate
  BY DEF JumpsBounded
<1>2. /\ Cardinality(JumpPlaces(k, j)) \in Nat /\ Cardinality(LateInserts(k, j)) \in Nat
      /\ faults \in Nat /\ MaxLate \in Nat
  BY <1>1, JumpCounts, LateCount, NflogTierAssumption DEF CopiesInv, TypeOK
<1>3. QED
  BY <1>1, <1>2 DEF CopiesInv, CopiesBounded, Copied

(* netfilter.py:152, "each -D removes only one match": with one AppTap     *)
(* process there is one copy of a jump, and at most one more for every two *)
(* commands that are lost or late (or one that is late): for any number of *)
(* captures, crashes and families.                                         *)
THEOREM JumpsStayBounded ==
  ASSUME NEW a, Hosts = {a}
  PROVE  Spec => []JumpsBounded
<1>1. TypeOK /\ CopiesInv /\ [Next]_vars => CopiesInv'
  BY CopiesStep
<1>2. QED
  BY <1>1, CopiesInit, CopiesBound, TypeCorrect, PTL DEF Spec

FaultsBounded == faults <= MaxFaults

LEMMA FaultsStayBounded == Spec => []FaultsBounded
<1>1. Init => FaultsBounded
  BY NflogTierAssumption DEF Init, FaultsBounded
<1>2. TypeOK /\ FaultsBounded /\ [Next]_vars => FaultsBounded'
  <2>1. SUFFICES ASSUME TypeOK, FaultsBounded, [Next]_vars PROVE faults' = faults \/ Fault
    BY NflogTierAssumption DEF FaultsBounded, Fault, TypeOK
  <2>2. CASE UNCHANGED vars
    BY <2>2 DEF vars, boundVars
  <2>3. ASSUME NEW h \in Hosts, HostStep(h) PROVE faults' = faults \/ Fault
    <3>1. CASE RunLine(h)
      BY <3>1 DEF RunLine, Shell, Taint
    <3>2. CASE Lifecycle(h)
      BY <3>2 DEF Lifecycle, SetupRaises, Start, Launch, Abort, ExitTeardown, Stop, Collect,
                  Cleanup, Crash, Taint, boundVars
    <3>3. QED
      BY <2>3, <3>1, <3>2 DEF HostStep, Lifecycle
  <2>4. CASE RunLate \/ DeviceAdds \/ DeviceRemoves
    BY <2>4 DEF RunLate, DeviceAdds, DeviceRemoves, boundVars
  <2>5. ASSUME NEW c \in Conns, Open(c) \/ Send(c) \/ Close(c) PROVE faults' = faults \/ Fault
    BY <2>5 DEF Open, Send, Close, boundVars
  <2>6. QED
    BY <2>1, <2>2, <2>3, <2>4, <2>5 DEF Next
<1>3. QED
  BY <1>1, <1>2, TypeCorrect, PTL DEF Spec

(* Few faults leave few copies. *)
LEMMA FewAfterFaults ==
  ASSUME NEW a, Hosts = {a}, MaxFaults + MaxLate <= 3 \/ MaxFaults <= 1
  PROVE  Spec => []FewJumps
<1>1. TypeOK /\ FaultsBounded /\ JumpsBounded => FewJumps
  <2>1. SUFFICES ASSUME TypeOK, FaultsBounded, JumpsBounded,
                        NEW k \in FamilyLines, NEW j \in JumpLines
                 PROVE  Cardinality(JumpPlaces(k, j)) <= 2
    BY DEF FewJumps
  <2>2. /\ Cardinality(JumpPlaces(k, j)) <= 1 + faults
        /\ 2 * Cardinality(JumpPlaces(k, j)) <= 2 + faults + MaxLate
    BY <2>1 DEF JumpsBounded
  <2>3. /\ Cardinality(JumpPlaces(k, j)) \in Nat /\ faults \in Nat /\ faults <= MaxFaults
        /\ MaxFaults \in Nat /\ MaxLate \in Nat
    BY <2>1, JumpCounts, NflogTierAssumption DEF FaultsBounded, TypeOK
  <2>4. QED
    BY <2>2, <2>3
<1>2. QED
  BY <1>1, TypeCorrect, FaultsStayBounded, JumpsStayBounded, PTL

(* netfilter.py:153, "two passes clean both up": with one AppTap process   *)
(* and up to three lost commands, crashes and exceptions (a late command   *)
(* counts twice), or one of any kind, two passes are enough: the tables    *)
(* are tidy whenever it has stopped and nothing failed since it began to.  *)
(* (Four lost commands can leave three copies, and then they are not.)     *)
THEOREM TidyAfterFaults ==
  ASSUME NEW a, Hosts = {a}, MaxFaults + MaxLate <= 3 \/ MaxFaults <= 1
  PROVE  Spec => []TidyWhenAllStopped
<1>1. Spec => []FewJumps
  BY FewAfterFaults
<1>2. FewJumps => [epoch = "faulty" /\ epoch' = "clean" => FewJumps]_vars
  OBVIOUS
<1>3. QED
  BY <1>1, <1>2, TidyUnlessCrowded, PTL DEF ResetsFindFewJumps

------------------------------------------------------------------------------
(* An undisturbed capture: what a line that runs makes of the host's       *)
(* position, first in a heal ...                                           *)
UidsFinite == \A h \in Hosts : IsFiniteSet(uids[h])

LEMMA HealAdvances ==
  ASSUME TypeOK, NEW h \in Hosts, NEW cmd, phase[h] = "heal", IsNext(h, cmd), Advance(h, cmd),
         ~warned[h], warned' = warned, NEW k \in FamilyLines
  PROVE  /\ LinesDone(h, k) \in 0..10
         /\ k = fam[h] => LinesDone(h, k) \in 0..9 /\ cmd = build_teardown[LinesDone(h, k) + 1]
         /\ \/ /\ phase'[h] = "heal"
               /\ LinesDone(h, k)' = LinesDone(h, k) + (IF k = fam[h] THEN 1 ELSE 0)
            \/ /\ phase'[h] = "setup" /\ fam'[h] = 1 /\ step'[h] = 1 /\ todo'[h] = uids[h]
               /\ LinesDone(h, k) + (IF k = fam[h] THEN 1 ELSE 0) = 10
<1>1. /\ step[h] \in 1..10 /\ fam[h] \in 1..Len(Families) /\ k \in 1..Len(Families)
      /\ Len(Families) \in Nat
      /\ phase \in [Hosts -> Phases] /\ fam \in [Hosts -> 1..Len(Families)]
      /\ step \in [Hosts -> 1..10] /\ todo \in [Hosts -> SUBSET Uids]
  BY ScriptLengths, NflogTierAssumption DEF TypeOK, PositionsOK, FamilyLines
<1>2. /\ cmd = build_teardown[step[h]] /\ ~Looping(h) /\ Len(Script(phase[h])) = 10
  BY CleaningCommand DEF Cleaning, TypeOK
<1>3. LinesDone(h, k) = IF fam[h] > k THEN 10 ELSE IF fam[h] = k THEN step[h] - 1 ELSE 0
  BY ScriptLengths DEF LinesDone, Finished
<1>4. /\ LinesDone(h, k) \in 0..10
      /\ k = fam[h] => LinesDone(h, k) \in 0..9 /\ cmd = build_teardown[LinesDone(h, k) + 1]
  BY <1>1, <1>2, <1>3
<1>5. CASE NextLine(h) \/ NextFamily(h)
  <2>1. phase' = phase
    BY <1>5 DEF NextLine, NextFamily
  <2>2. LinesDone(h, k)' = IF fam'[h] > k THEN 10 ELSE IF fam'[h] = k THEN step'[h] - 1 ELSE 0
    BY <2>1, ScriptLengths DEF LinesDone, Finished
  <2>3. CASE NextLine(h)
    <3>1. fam' = fam /\ step'[h] = step[h] + 1
      BY <1>1, <2>3 DEF NextLine
    <3>2. QED
      BY <1>1, <1>3, <1>4, <2>1, <2>2, <3>1
  <2>4. CASE NextFamily(h)
    <3>1. fam'[h] = fam[h] + 1 /\ step'[h] = 1 /\ step[h] = 10
      BY <1>1, <1>2, <2>4 DEF NextFamily, LastLine
    <3>2. QED
      BY <1>1, <1>3, <1>4, <2>1, <2>2, <3>1
  <2>5. QED
    BY <1>5, <2>3, <2>4
<1>6. CASE NextPhase(h)
  <2>1. step[h] = 10 /\ fam[h] = Len(Families)
    BY <1>2, <1>6 DEF NextPhase, LastLine, LastFamily
  <2>2. BeginScript(h, "setup", uids[h])
    BY <1>6 DEF NextPhase
  <2>3. phase'[h] = "setup" /\ fam'[h] = 1 /\ step'[h] = 1 /\ todo'[h] = uids[h]
    BY <1>1, <2>2 DEF BeginScript, Enter
  <2>4. QED
    BY <1>1, <1>3, <1>4, <2>1, <2>3
<1>7. QED
  BY <1>2, <1>5, <1>6 DEF Advance, NextUid

(* ... then in a setup.                                                    *)
TurnRuns(h, k, cmd) ==
  /\ step[h] = 3 /\ LinesDone(h, k) = 2 /\ LinesDone(h, k)' \in {2, 3}
  /\ \E u : /\ cmd = AppendRule(CHAIN_MARK, SetXmark(u))
            /\ Stamped(h, k)' = Stamped(h, k) \cup {u}

LineRuns(h, k, cmd) ==
  /\ LinesDone(h, k) \in 0..7 \ {2} /\ cmd = build_setup[LinesDone(h, k) + 1]
  /\ LinesDone(h, k)' = LinesDone(h, k) + 1
  /\ Stamped(h, k)' = Stamped(h, k)
  /\ LinesDone(h, k) = 0 => Stamped(h, k) = {}

(* The loop's last turn is for the only UID left. *)
LEMMA LastTurn ==
  ASSUME NEW h \in Hosts, IsFiniteSet(todo[h]), Line(h) = PerUid, ~Looping(h),
         NEW u \in todo[h]
  PROVE  todo[h] = {u}
<1>1. Cardinality(todo[h]) \in Nat /\ Cardinality(todo[h]) <= 1
  BY FS_CardinalityType DEF Looping
<1>2. SUFFICES ASSUME NEW v \in todo[h], v # u PROVE FALSE
  OBVIOUS
<1>3. PICK S : S = {v}
  OBVIOUS
<1>4. IsFiniteSet(S) /\ Cardinality(S) = 1 /\ u \notin S /\ S \cup {u} \subseteq todo[h]
  BY <1>2, <1>3, FS_Singleton
<1>5. Cardinality(S \cup {u}) = Cardinality(S) + 1
  BY <1>4, FS_AddElement
<1>6. Cardinality(S \cup {u}) <= Cardinality(todo[h])
  BY <1>4, FS_Subset
<1>7. QED
  BY <1>1, <1>4, <1>5, <1>6

LEMMA SetupAdvances ==
  ASSUME TypeOK, UidsFinite, NEW h \in Hosts, NEW cmd, phase[h] = "setup", IsNext(h, cmd),
         Advance(h, cmd), ~warned[h], warned' = warned, uids' = uids,
         todo[h] \subseteq uids[h], step[h] < 3 => todo[h] = uids[h], NEW k \in FamilyLines
  PROVE  /\ phase'[h] \in {"setup", "launch"}
         /\ todo'[h] \subseteq uids[h] /\ (step'[h] < 3 => todo'[h] = uids[h])
         /\ k # fam[h] => LinesDone(h, k)' = LinesDone(h, k) /\ Stamped(h, k)' = Stamped(h, k)
         /\ k = fam[h] => TurnRuns(h, k, cmd) \/ LineRuns(h, k, cmd)
<1>1. /\ step[h] \in 1..8 /\ fam[h] \in 1..Len(Families) /\ k \in 1..Len(Families)
      /\ Len(Families) \in Nat
      /\ phase \in [Hosts -> Phases] /\ fam \in [Hosts -> 1..Len(Families)]
      /\ step \in [Hosts -> 1..10] /\ todo \in [Hosts -> SUBSET Uids]
  <2>1. /\ step[h] \in 1..Len(build_teardown) /\ step[h] <= Len(build_setup)
        /\ fam[h] \in 1..Len(Families) /\ step \in [Hosts -> 1..Len(build_teardown)]
    BY DEF TypeOK, PositionsOK
  <2>2. step[h] \in 1..8 /\ step \in [Hosts -> 1..10]
    BY <2>1, ScriptLengths
  <2>3. QED
    BY <2>1, <2>2, NflogTierAssumption DEF TypeOK, PositionsOK, FamilyLines
<1>2. Len(Script(phase[h])) = 8 /\ Line(h) = build_setup[step[h]]
  BY ScriptLengths DEF Script, Line
<1>3. /\ LinesDone(h, k) = IF fam[h] > k THEN 8 ELSE IF fam[h] = k THEN step[h] - 1 ELSE 0
      /\ Stamped(h, k) = IF fam[h] > k THEN uids[h] ELSE IF fam[h] < k THEN {}
                         ELSE IF step[h] <= 3 THEN uids[h] \ todo[h] ELSE uids[h]
  BY ScriptLengths DEF LinesDone, Finished, Stamped
<1>4. step[h] # 3 => cmd = build_setup[step[h]] /\ ~Looping(h)
  <2>1. SUFFICES ASSUME step[h] # 3 PROVE Line(h) # PerUid
    BY <1>2 DEF IsNext, Looping
  <2>2. Line(h).op \in {"-N", "-A", "-I"}
    BY <1>1, <1>2, <2>1, SetupLines DEF NewChain, AppendRule, InsertRule
  <2>3. PerUid.op \notin {"-N", "-A", "-I"}
    BY DEF PerUid
  <2>4. QED
    BY <2>2, <2>3
<1>5. step[h] = 3 =>
        \E u \in todo[h] : /\ cmd = AppendRule(CHAIN_MARK, SetXmark(u)) /\ cmd.rule.uid = u
                           /\ ~Looping(h) => todo[h] = {u}
  <2>1. SUFFICES ASSUME step[h] = 3
                 PROVE  \E u \in todo[h] : /\ cmd = AppendRule(CHAIN_MARK, SetXmark(u))
                                           /\ cmd.rule.uid = u /\ (~Looping(h) => todo[h] = {u})
    OBVIOUS
  <2>2. Line(h) = PerUid
    BY <1>2, <2>1, SetupLines
  <2>3. PICK u \in todo[h] : cmd = AppendRule(CHAIN_MARK, SetXmark(u))
    BY <2>2 DEF IsNext
  <2>4. cmd.rule.uid = u
    BY <2>3 DEF AppendRule, SetXmark
  <2>5. IsFiniteSet(todo[h])
    BY FS_Subset DEF UidsFinite
  <2>6. ~Looping(h) => todo[h] = {u}
    BY <2>2, <2>5, LastTurn
  <2>7. QED
    BY <2>3, <2>4, <2>6
<1>6. CASE NextUid(h, cmd)
  <2>1. /\ step[h] = 3 /\ phase' = phase /\ fam' = fam /\ step' = step
        /\ todo'[h] = todo[h] \ {cmd.rule.uid}
    BY <1>1, <1>4, <1>6 DEF NextUid
  <2>2. /\ LinesDone(h, k)' = IF fam[h] > k THEN 8 ELSE IF fam[h] = k THEN step[h] - 1 ELSE 0
        /\ Stamped(h, k)' = IF fam[h] > k THEN uids[h] ELSE IF fam[h] < k THEN {}
                            ELSE uids[h] \ todo'[h]
    BY <2>1, ScriptLengths DEF LinesDone, Finished, Stamped
  <2>3. PICK u \in todo[h] : cmd = AppendRule(CHAIN_MARK, SetXmark(u)) /\ cmd.rule.uid = u
    BY <1>5, <2>1
  <2>4. uids[h] \ todo'[h] = (uids[h] \ todo[h]) \cup {u}
    BY <2>1, <2>3
  <2>5. k = fam[h] => TurnRuns(h, k, cmd)
    BY <1>1, <1>3, <2>1, <2>2, <2>3, <2>4 DEF TurnRuns
  <2>6. k # fam[h] => LinesDone(h, k)' = LinesDone(h, k) /\ Stamped(h, k)' = Stamped(h, k)
    BY <1>1, <1>3, <2>2
  <2>7. QED
    BY <2>1, <2>5, <2>6
<1>7. ASSUME ~Looping(h),
             k # fam[h] => LinesDone(h, k)' = LinesDone(h, k) /\ Stamped(h, k)' = Stamped(h, k),
             k = fam[h] => /\ LinesDone(h, k)' = step[h]
                           /\ Stamped(h, k)' = IF step[h] < 3 THEN uids[h] \ todo[h] ELSE uids[h]
      PROVE  /\ k # fam[h] => LinesDone(h, k)' = LinesDone(h, k) /\ Stamped(h, k)' = Stamped(h, k)
             /\ k = fam[h] => TurnRuns(h, k, cmd) \/ LineRuns(h, k, cmd)
  <2>1. SUFFICES ASSUME k = fam[h] PROVE TurnRuns(h, k, cmd) \/ LineRuns(h, k, cmd)
    BY <1>7
  <2>2. CASE step[h] = 3
    <3>1. PICK u \in todo[h] : cmd = AppendRule(CHAIN_MARK, SetXmark(u)) /\ todo[h] = {u}
      BY <1>5, <1>7, <2>2
    <3>2. uids[h] = (uids[h] \ todo[h]) \cup {u}
      BY <3>1
    <3>3. Stamped(h, k) = uids[h] \ todo[h] /\ Stamped(h, k)' = uids[h] /\ LinesDone(h, k) = 2
      BY <1>1, <1>3, <1>7, <2>1, <2>2
    <3>4. Stamped(h, k)' = Stamped(h, k) \cup {u}
      BY <3>2, <3>3
    <3>5. QED
      BY <1>7, <2>1, <2>2, <3>1, <3>3, <3>4 DEF TurnRuns
  <2>3. CASE step[h] # 3
    <3>1. /\ LinesDone(h, k) = step[h] - 1 /\ LinesDone(h, k)' = step[h]
          /\ Stamped(h, k)' = Stamped(h, k)
      BY <1>1, <1>3, <1>7, <2>1, <2>3
    <3>2. step[h] - 1 \in 0..7 \ {2} /\ (step[h] - 1) + 1 = step[h]
      BY <1>1, <2>3
    <3>3. step[h] = 1 => Stamped(h, k) = {}
      BY <1>1, <1>3, <2>1
    <3>4. QED
      BY <1>4, <2>3, <3>1, <3>2, <3>3 DEF LineRuns
  <2>4. QED
    BY <2>2, <2>3
<1>8. CASE NextLine(h)
  <2>1. /\ ~Looping(h) /\ step[h] # 8 /\ phase' = phase /\ fam' = fam /\ todo' = todo
        /\ step'[h] = step[h] + 1
    BY <1>1, <1>2, <1>8 DEF NextLine, LastLine
  <2>2. /\ LinesDone(h, k)' = IF fam[h] > k THEN 8 ELSE IF fam[h] = k THEN step[h] ELSE 0
        /\ Stamped(h, k)' = IF fam[h] > k THEN uids[h] ELSE IF fam[h] < k THEN {}
                            ELSE IF step[h] + 1 <= 3 THEN uids[h] \ todo[h] ELSE uids[h]
    BY <1>1, <2>1, ScriptLengths DEF LinesDone, Finished, Stamped
  <2>3. /\ k # fam[h] => LinesDone(h, k)' = LinesDone(h, k) /\ Stamped(h, k)' = Stamped(h, k)
        /\ k = fam[h] => /\ LinesDone(h, k)' = step[h]
                         /\ Stamped(h, k)' = IF step[h] < 3 THEN uids[h] \ todo[h] ELSE uids[h]
    BY <1>1, <1>3, <2>2
  <2>4. QED
    BY <1>1, <1>7, <2>1, <2>3
<1>9. CASE NextFamily(h)
  <2>1. /\ step[h] = 8 /\ phase' = phase /\ fam'[h] = fam[h] + 1 /\ todo'[h] = uids[h]
        /\ step'[h] = 1
    BY <1>1, <1>2, <1>9 DEF NextFamily, LastLine
  <2>2. /\ LinesDone(h, k)' = IF fam[h] + 1 > k THEN 8 ELSE 0
        /\ Stamped(h, k)' = IF fam[h] + 1 > k THEN uids[h] ELSE {}
    <3>1. uids[h] \ uids[h] = {}
      OBVIOUS
    <3>2. /\ LinesDone(h, k)' = IF fam'[h] > k THEN 8 ELSE IF fam'[h] = k THEN step'[h] - 1 ELSE 0
          /\ Stamped(h, k)' = IF fam'[h] > k THEN uids[h] ELSE IF fam'[h] < k THEN {}
                              ELSE IF step'[h] <= 3 THEN uids[h] \ todo'[h] ELSE uids[h]
      BY <2>1, ScriptLengths DEF LinesDone, Finished, Stamped
    <3>3. uids[h] \ todo'[h] = {} /\ step'[h] <= 3 /\ step'[h] - 1 = 0
      BY <2>1, <3>1
    <3>4. fam'[h] = fam[h] + 1 /\ fam'[h] \in Nat /\ k \in Nat
      BY <1>1, <2>1
    <3>5. CASE fam'[h] > k
      BY <3>2, <3>4, <3>5
    <3>6. CASE fam'[h] = k
      BY <3>2, <3>3, <3>4, <3>6
    <3>7. CASE fam'[h] < k
      BY <3>2, <3>4, <3>7
    <3>8. QED
      BY <3>4, <3>5, <3>6, <3>7
  <2>3. /\ k # fam[h] => LinesDone(h, k)' = LinesDone(h, k) /\ Stamped(h, k)' = Stamped(h, k)
        /\ k = fam[h] => /\ LinesDone(h, k)' = step[h]
                         /\ Stamped(h, k)' = IF step[h] < 3 THEN uids[h] \ todo[h] ELSE uids[h]
    BY <1>1, <1>3, <2>1, <2>2
  <2>4. ~Looping(h)
    BY <1>4, <2>1
  <2>5. QED
    BY <1>7, <2>1, <2>3, <2>4
<1>10. CASE NextPhase(h)
  <2>1. /\ step[h] = 8 /\ fam[h] = Len(Families) /\ phase'[h] = "launch"
        /\ UNCHANGED <<fam, step, todo>>
    BY <1>1, <1>2, <1>10 DEF NextPhase, LastLine, LastFamily, Enter
  <2>2. LinesDone(h, k)' = 8 /\ Stamped(h, k)' = uids[h]
    BY <2>1, ScriptLengths DEF LinesDone, Finished, Stamped
  <2>3. /\ k # fam[h] => LinesDone(h, k)' = LinesDone(h, k) /\ Stamped(h, k)' = Stamped(h, k)
        /\ k = fam[h] => /\ LinesDone(h, k)' = step[h]
                         /\ Stamped(h, k)' = IF step[h] < 3 THEN uids[h] \ todo[h] ELSE uids[h]
    BY <1>1, <1>3, <2>1, <2>2
  <2>4. ~Looping(h)
    BY <1>4, <2>1
  <2>5. QED
    BY <1>7, <2>1, <2>3, <2>4
<1>11. QED
  BY <1>6, <1>8, <1>9, <1>10 DEF Advance

(* A line that runs undisturbed does in its table what it is there for.    *)
LEMMA HealingLine ==
  ASSUME TypeOK, NEW h \in Hosts, NEW cmd \in Commands(todo[h]), phase[h] = "heal",
         IsNext(h, cmd), Advance(h, cmd), Healing(h),
         table' = [table EXCEPT ![Families[fam[h]]] = Apply(@, cmd)],
         UNCHANGED <<uids, warned, conn>>
  PROVE  \/ phase'[h] = "heal" /\ Healing(h)'
         \/ phase'[h] = "setup" /\ Installed(h)'
<1>1. ~warned[h] /\ warned' = warned
  BY DEF Healing
<1>2. \A c \in Conns : conn'[c].marked => conn'[c].inherited
  BY DEF Healing
<1> DEFINE Now(k) == LinesDone(h, k) + (IF k = fam[h] THEN 1 ELSE 0)
<1>3. ASSUME NEW k \in FamilyLines PROVE Cleared(table'[Families[k]], Now(k))
  <2>1. /\ LinesDone(h, k) \in 0..10
        /\ k = fam[h] => LinesDone(h, k) \in 0..9 /\ cmd = build_teardown[LinesDone(h, k) + 1]
    BY <1>1, HealAdvances
  <2>2. /\ IsTable(table[Families[k]], Uids)
        /\ k = fam[h] => table'[Families[k]] = Apply(table[Families[k]], cmd)
        /\ k # fam[h] => table'[Families[k]] = table[Families[k]]
    BY FamilyTables
  <2>3. Cleared(table[Families[k]], LinesDone(h, k))
    BY DEF Healing
  <2>4. CASE k = fam[h]
    <3>1. /\ Now(k) = LinesDone(h, k) + 1 /\ LinesDone(h, k) \in 0..9
          /\ table'[Families[k]] = Apply(table[Families[k]], build_teardown[LinesDone(h, k) + 1])
      BY <2>1, <2>2, <2>4
    <3>2. QED
      BY <2>2, <2>3, <3>1, ClearedLine
  <2>5. CASE k # fam[h]
    BY <2>1, <2>2, <2>3, <2>5
  <2>6. QED
    BY <2>4, <2>5
<1> HIDE DEF Now
<1>4. \/ phase'[h] = "heal" /\ \A k \in FamilyLines : LinesDone(h, k)' = Now(k)
      \/ /\ phase'[h] = "setup" /\ fam'[h] = 1 /\ step'[h] = 1 /\ todo'[h] = uids[h]
         /\ \A k \in FamilyLines : Now(k) = 10
  <2>1. \A k \in FamilyLines :
          \/ phase'[h] = "heal" /\ LinesDone(h, k)' = Now(k)
          \/ /\ phase'[h] = "setup" /\ fam'[h] = 1 /\ step'[h] = 1 /\ todo'[h] = uids[h]
             /\ Now(k) = 10
    BY <1>1, HealAdvances DEF Now
  <2>2. 1 \in FamilyLines
    BY NflogTierAssumption DEF FamilyLines
  <2>3. QED
    BY <2>1, <2>2
<1>5. CASE phase'[h] = "heal" /\ \A k \in FamilyLines : LinesDone(h, k)' = Now(k)
  <2>1. \A k \in FamilyLines : Cleared(table'[Families[k]], LinesDone(h, k)')
    BY <1>3, <1>5
  <2>2. Healing(h)'
    BY <1>1, <1>2, <2>1 DEF Healing, FamilyLines
  <2>3. QED
    BY <1>5, <2>2
<1>6. CASE /\ phase'[h] = "setup" /\ fam'[h] = 1 /\ step'[h] = 1 /\ todo'[h] = uids[h]
           /\ \A k \in FamilyLines : Now(k) = 10
  <2>1. ASSUME NEW k \in FamilyLines
        PROVE  Built(table'[Families[k]], LinesDone(h, k)', Stamped(h, k)')
    <3>1. k \in Nat /\ k >= 1
      BY NflogTierAssumption DEF FamilyLines
    <3>2. LinesDone(h, k)' = 0
      BY <1>6, <3>1 DEF LinesDone, Finished
    <3>3. Stamped(h, k)' = {}
      BY <1>6, <3>1 DEF Stamped, Finished
    <3>4. Cleared(table'[Families[k]], 10)
      BY <1>3, <1>6
    <3>5. IsTable(table'[Families[k]], Uids)
      <4>1. cmd \in Commands(Uids)
        BY CommandsMonotone DEF TypeOK, PositionsOK
      <4>2. /\ IsTable(table[Families[k]], Uids)
            /\ \/ table'[Families[k]] = Apply(table[Families[k]], cmd)
               \/ table'[Families[k]] = table[Families[k]]
        BY FamilyTables
      <4>3. QED
        BY <4>1, <4>2, ApplyType
    <3>6. QED
      BY <3>2, <3>3, <3>4, <3>5, ClearedIsUnbuilt
  <2>2. Installed(h)'
    BY <1>1, <1>2, <1>6, <2>1, ScriptLengths DEF Installed, FamilyLines
  <2>3. QED
    BY <1>6, <2>2
<1>7. QED
  BY <1>4, <1>5, <1>6

LEMMA InstallingLine ==
  ASSUME TypeOK, UidsFinite, NEW h \in Hosts, NEW cmd \in Commands(todo[h]), phase[h] = "setup",
         IsNext(h, cmd), Advance(h, cmd), Installed(h),
         table' = [table EXCEPT ![Families[fam[h]]] = Apply(@, cmd)],
         UNCHANGED <<uids, warned, conn>>
  PROVE  phase'[h] \in {"setup", "launch"} /\ Installed(h)'
<1>1. /\ ~warned[h] /\ warned' = warned /\ uids' = uids /\ todo[h] \subseteq uids[h]
      /\ step[h] < 3 => todo[h] = uids[h]
  BY DEF Installed
<1>2. \A c \in Conns : conn'[c].marked /\ ~conn'[c].inherited => conn'[c].owner \in uids'[h]
  BY DEF Installed
<1>3. ASSUME NEW k \in FamilyLines
      PROVE  Built(table'[Families[k]], LinesDone(h, k)', Stamped(h, k)')
  <2>1. /\ k # fam[h] => LinesDone(h, k)' = LinesDone(h, k) /\ Stamped(h, k)' = Stamped(h, k)
        /\ k = fam[h] => TurnRuns(h, k, cmd) \/ LineRuns(h, k, cmd)
    BY <1>1, SetupAdvances
  <2>2. /\ IsTable(table[Families[k]], Uids)
        /\ k = fam[h] => table'[Families[k]] = Apply(table[Families[k]], cmd)
        /\ k # fam[h] => table'[Families[k]] = table[Families[k]]
    BY FamilyTables
  <2>3. Built(table[Families[k]], LinesDone(h, k), Stamped(h, k))
    BY DEF Installed
  <2>4. CASE k # fam[h]
    BY <2>1, <2>2, <2>3, <2>4
  <2>5. CASE k = fam[h] /\ TurnRuns(h, k, cmd)
    <3>1. PICK u : /\ cmd = AppendRule(CHAIN_MARK, SetXmark(u))
                   /\ Stamped(h, k)' = Stamped(h, k) \cup {u}
      BY <2>5 DEF TurnRuns
    <3>2. LinesDone(h, k) = 2 /\ LinesDone(h, k)' \in {2, 3}
      BY <2>5 DEF TurnRuns
    <3>3. Built(table[Families[k]], 2, Stamped(h, k))
      BY <2>3, <3>2
    <3>4. Built(Apply(table[Families[k]], AppendRule(CHAIN_MARK, SetXmark(u))), LinesDone(h, k)',
                Stamped(h, k) \cup {u})
      BY <2>2, <3>2, <3>3, BuiltTurn
    <3>5. QED
      BY <2>2, <2>5, <3>1, <3>4
  <2>6. CASE k = fam[h] /\ LineRuns(h, k, cmd)
    <3>1. Built(Apply(table[Families[k]], build_setup[LinesDone(h, k) + 1]), LinesDone(h, k) + 1,
                Stamped(h, k))
      BY <2>2, <2>3, <2>6, BuiltLine DEF LineRuns
    <3>2. QED
      BY <2>2, <2>6, <3>1 DEF LineRuns
  <2>7. QED
    BY <2>1, <2>4, <2>5, <2>6
<1>4. /\ phase'[h] \in {"setup", "launch"}
      /\ todo'[h] \subseteq uids[h] /\ (step'[h] < 3 => todo'[h] = uids[h])
  <2>1. 1 \in FamilyLines
    BY NflogTierAssumption DEF FamilyLines
  <2>2. QED
    BY <1>1, <2>1, SetupAdvances
<1>5. step'[h] <= Len(build_setup)
  <2>1. PositionsOK'
    BY AdvanceType DEF TypeOK, Scripts
  <2>2. CASE phase'[h] = "setup"
    BY <2>1, <2>2 DEF PositionsOK
  <2>3. CASE phase'[h] = "launch"
    <3>1. NextPhase(h)
      BY <2>3 DEF Advance, NextUid, NextLine, NextFamily
    <3>2. step'[h] = step[h]
      BY <3>1, <2>3 DEF NextPhase, BeginScript, Enter
    <3>3. QED
      BY <3>2 DEF TypeOK, PositionsOK
  <2>4. QED
    BY <1>4, <2>2, <2>3
<1>6. QED
  BY <1>1, <1>2, <1>3, <1>4, <1>5 DEF Installed, FamilyLines

(* How far a host that installs can have got.                              *)
LEMMA InstalledTables ==
  ASSUME TypeOK, NEW h \in Hosts, phase[h] \in Installing, Installed(h), NEW k \in FamilyLines
  PROVE  /\ Families[k] \in ToSet(Families) /\ Families[k] \in DOMAIN table
         /\ IsTable(table[Families[k]], Uids)
         /\ LinesDone(h, k) \in 0..8 /\ Stamped(h, k) \subseteq uids[h]
         /\ Built(table[Families[k]], LinesDone(h, k), Stamped(h, k))
<1>1. /\ step[h] \in 1..10 /\ step[h] <= 8
      /\ fam[h] \in 1..Len(Families) /\ k \in 1..Len(Families) /\ Len(Families) \in Nat
  BY ScriptLengths, NflogTierAssumption DEF TypeOK, PositionsOK, FamilyLines, Installed
<1>2. phase[h] # "heal"
  BY DEF Installing
<1>3. LinesDone(h, k) = IF Finished(h) \/ fam[h] > k THEN 8
                        ELSE IF fam[h] = k THEN step[h] - 1 ELSE 0
  BY <1>2, ScriptLengths DEF LinesDone
<1>4. LinesDone(h, k) \in 0..8
  BY <1>1, <1>3
<1>5. Stamped(h, k) \subseteq uids[h]
  BY DEF Stamped
<1>6. Families[k] \in ToSet(Families)
  BY FamiliesInRange DEF FamilyLines
<1>7. Families[k] \in DOMAIN table /\ IsTable(table[Families[k]], Uids)
  BY <1>6 DEF TypeOK, TablesOK
<1>8. Built(table[Families[k]], LinesDone(h, k), Stamped(h, k))
  BY DEF Installed
<1>9. QED
  BY <1>4, <1>5, <1>6, <1>7, <1>8

(* Other programs' rules disturb neither, as long as they come after the   *)
(* others.                                                                 *)
LEMMA DeviceUndisturbing ==
  ASSUME TypeOK, DevicePrepends = FALSE, DeviceAdds \/ DeviceRemoves, NEW h \in Hosts
  PROVE  /\ phase[h] = "heal" /\ Healing(h) => Healing(h)'
         /\ phase[h] \in Installing /\ Installed(h) => Installed(h)'
<1>1. UNCHANGED <<phase, fam, step, todo, uids, warned, conn>>
  BY DEF DeviceAdds, DeviceRemoves, hostVars
<1>2. \A k \in FamilyLines : /\ LinesDone(h, k)' = LinesDone(h, k)
                             /\ Stamped(h, k)' = Stamped(h, k)
  BY <1>1 DEF LinesDone, Stamped, Finished
<1>3. ASSUME phase[h] = "heal", Healing(h) PROVE Healing(h)'
  <2>1. ASSUME NEW k \in FamilyLines PROVE Cleared(table'[Families[k]], LinesDone(h, k))
    <3> DEFINE n == LinesDone(h, k)
    <3>1. Cleared(table[Families[k]], n)
      BY <1>3 DEF Healing
    <3>2. ASSUME NEW j \in JumpLines
          PROVE  Cardinality(Places(table'[Families[k]][JumpHook[j]], JumpOf(j))) <= CopiesLeft(j, n)
      <4>1. /\ Cardinality(JumpPlaces(k, j)) \in Nat /\ Cardinality(JumpPlaces(k, j)') \in Nat
            /\ Cardinality(JumpPlaces(k, j)') <= Cardinality(JumpPlaces(k, j))
        BY DeviceCounts
      <4>2. Cardinality(JumpPlaces(k, j)) <= CopiesLeft(j, n) /\ CopiesLeft(j, n) \in Nat
        BY <3>1 DEF Cleared, JumpPlaces, CopiesLeft
      <4>3. Cardinality(JumpPlaces(k, j)') <= CopiesLeft(j, n)
        BY <4>1, <4>2
      <4>4. QED
        BY <4>3 DEF JumpPlaces
    <3>3. ASSUME NEW c \in ChainLines, ChainAt[c] \in DOMAIN table'[Families[k]]
          PROVE  n < 8 + c /\ (n >= 6 + c => table'[Families[k]][ChainAt[c]] = <<>>)
      BY <3>1, <3>3, DeviceCounts DEF Cleared
    <3>4. QED
      BY <3>2, <3>3 DEF Cleared
  <2>2. QED
    BY <1>1, <1>2, <1>3, <2>1 DEF Healing, FamilyLines
<1>4. ASSUME phase[h] \in Installing, Installed(h) PROVE Installed(h)'
  <2>1. ASSUME NEW k \in FamilyLines
        PROVE  Built(table'[Families[k]], LinesDone(h, k), Stamped(h, k))
    <3> DEFINE f == Families[k]
               t == table[f]
               n == LinesDone(h, k)
    <3>1. f \in ToSet(Families) /\ f \in DOMAIN table /\ IsTable(t, Uids)
      BY <1>4, InstalledTables
    <3>2. Built(t, n, Stamped(h, k)) /\ n \in 0..8
      BY <1>4, InstalledTables
    <3>3. /\ Built([t EXCEPT !["OUTPUT"] = InsertAt(t["OUTPUT"], Len(t["OUTPUT"]) + 1, DeviceRule)],
                   n, Stamped(h, k))
          /\ DeviceRule \in ToSet(t["OUTPUT"]) =>
               Built([t EXCEPT !["OUTPUT"] = RemoveFirst(t["OUTPUT"], DeviceRule)], n, Stamped(h, k))
      BY <3>1, <3>2, BuiltDevice
    <3>4. \/ table'[f] = [t EXCEPT !["OUTPUT"] = InsertAt(t["OUTPUT"], Len(t["OUTPUT"]) + 1, DeviceRule)]
          \/ /\ DeviceRule \in ToSet(t["OUTPUT"])
             /\ table'[f] = [t EXCEPT !["OUTPUT"] = RemoveFirst(t["OUTPUT"], DeviceRule)]
          \/ table'[f] = t
      <4>1. CASE DeviceAdds
        <5>1. PICK g \in ToSet(Families) :
                table' = [table EXCEPT ![g]["OUTPUT"] =
                            InsertAt(@, Len(table[g]["OUTPUT"]) + 1, DeviceRule)]
          BY <4>1 DEF DeviceAdds
        <5>2. QED
          BY <3>1, <5>1
      <4>2. CASE DeviceRemoves
        <5>1. PICK g \in ToSet(Families) :
                /\ DeviceRule \in ToSet(table[g]["OUTPUT"])
                /\ table' = [table EXCEPT ![g]["OUTPUT"] = RemoveFirst(@, DeviceRule)]
          BY <4>2 DEF DeviceRemoves
        <5>2. QED
          BY <3>1, <5>1
      <4>3. QED
        BY <4>1, <4>2
    <3> HIDE DEF t, n
    <3>5. Built(table'[f], n, Stamped(h, k))
      BY <3>2, <3>3, <3>4
    <3>6. QED
      BY <3>5 DEF n
  <2>2. QED
    BY <1>1, <1>2, <1>4, <2>1 DEF Installed, FamilyLines
<1>5. QED
  BY <1>3, <1>4

(* Connections come and go; who gets marked during a heal was marked by    *)
(* the rules of an earlier run, who gets marked later is the app's.        *)
LEMMA TrafficUndisturbing ==
  ASSUME TypeOK, NEW c \in Conns, Open(c) \/ Send(c) \/ Close(c), NEW h \in Hosts,
         \A g \in Hosts \ {h} : phase[g] \in AtRest
  PROVE  /\ phase[h] = "heal" /\ Healing(h) => Healing(h)'
         /\ phase[h] \in Installing /\ Installed(h) => Installed(h)'
<1>1. UNCHANGED <<phase, fam, step, todo, uids, warned, table>>
  BY DEF Open, Send, Close, hostVars, tableVars
<1>2. \A k \in FamilyLines : /\ LinesDone(h, k)' = LinesDone(h, k)
                             /\ Stamped(h, k)' = Stamped(h, k)
  BY <1>1 DEF LinesDone, Stamped, Finished
<1>3. /\ conn \in [Conns -> [owner : Uids \cup {NoUid}, marked : BOOLEAN, inherited : BOOLEAN]]
      /\ uids \in [Hosts -> SUBSET Uids]
  BY DEF TypeOK
<1>4. \A d \in Conns \ {c} : conn'[d] = conn[d]
  BY <1>3 DEF Open, Send, Close
<1>5. ASSUME phase[h] = "heal", Healing(h) PROVE Healing(h)'
  <2>1. \A g \in Hosts : phase[g] \notin Installing
    BY <1>5 DEF Installing, AtRest
  <2>2. conn'[c].marked => conn'[c].inherited
    <3>1. conn[c].marked => conn[c].inherited
      BY <1>5 DEF Healing
    <3>2. CASE Open(c)
      BY <1>3, <3>1, <3>2 DEF Open
    <3>3. CASE Send(c)
      BY <1>3, <2>1, <3>1, <3>3 DEF Send
    <3>4. CASE Close(c)
      BY <1>3, <3>4 DEF Close, Closed
    <3>5. QED
      BY <3>2, <3>3, <3>4
  <2>3. \A d \in Conns : conn'[d].marked => conn'[d].inherited
    BY <1>4, <1>5, <2>2 DEF Healing
  <2>4. QED
    BY <1>1, <1>2, <1>5, <2>3 DEF Healing, FamilyLines
<1>6. ASSUME phase[h] \in Installing, Installed(h) PROVE Installed(h)'
  <2>1. conn'[c].marked /\ ~conn'[c].inherited => conn'[c].owner \in uids[h]
    <3>1. conn[c].marked /\ ~conn[c].inherited => conn[c].owner \in uids[h]
      BY <1>6 DEF Installed
    <3>2. CASE Open(c)
      <4>1. NoUid \notin uids[h]
        BY <1>3, UidsAssumption DEF NoUid
      <4>2. QED
        BY <1>3, <3>1, <3>2, <4>1 DEF Open
    <3>3. CASE Send(c)
      <4>1. PICK k \in FamilyLines : FamilyOf[c] = Families[k]
        BY NflogTierAssumption, FamiliesInRange DEF FamilyLines, ToSet
      <4>2. IsTable(table[Families[k]], Uids)
        BY <1>6, InstalledTables
      <4>3. LinesDone(h, k) \in 0..8 /\ Stamped(h, k) \subseteq uids[h]
        BY <1>6, InstalledTables
      <4>4. Built(table[Families[k]], LinesDone(h, k), Stamped(h, k))
        BY <1>6 DEF Installed
      <4>5. Stamps(table[Families[k]], "OUTPUT", conn[c].owner) # {}
        BY <3>3, <4>1 DEF Send
      <4>6. conn[c].owner \in uids[h]
        BY <4>2, <4>3, <4>4, <4>5, BuiltMarks
      <4>7. conn'[c].owner = conn[c].owner
        BY <1>3, <3>3 DEF Send
      <4>8. QED
        BY <4>6, <4>7
    <3>4. CASE Close(c)
      BY <1>3, <3>4 DEF Close, Closed
    <3>5. QED
      BY <3>2, <3>3, <3>4
  <2>2. \A d \in Conns : conn'[d].marked /\ ~conn'[d].inherited => conn'[d].owner \in uids[h]
    BY <1>4, <1>6, <2>1 DEF Installed
  <2>3. QED
    BY <1>1, <1>2, <1>6, <2>2 DEF Installed, FamilyLines
<1>7. QED
  BY <1>5, <1>6

(* A step of h's that leaves it in order leaves everything in order.       *)
Alone(h) == \A g \in Hosts \ {h} : phase[g] \in AtRest

InOrder(h) ==
  /\ phase[h] = "heal" => Healing(h)
  /\ phase[h] \in Installing => Installed(h)

LEMMA AloneInOrder ==
  ASSUME NEW h \in Hosts, Alone(h), \A g \in Hosts \ {h} : phase'[g] = phase[g],
         late' = {}, InOrder(h)'
  PROVE  FreshInv'
<1>1. \A g \in Hosts \ {h} : phase'[g] \in AtRest
  BY DEF Alone
<1>2. \A ph \in AtRest : ph # "heal" /\ ph \notin Installing
  BY DEF AtRest, Installing
<1>3. ASSUME NEW g \in Hosts
      PROVE  (phase[g] = "heal" => Healing(g))' /\ (phase[g] \in Installing => Installed(g))'
  <2>1. CASE g = h
    BY <2>1 DEF InOrder
  <2>2. CASE g # h
    BY <1>1, <1>2, <2>2
  <2>3. QED
    BY <2>1, <2>2
<1>4. \A g, i \in Hosts : g # i => phase'[g] \in AtRest \/ phase'[i] \in AtRest
  BY <1>1
<1>5. QED
  BY <1>3, <1>4 DEF FreshInv

(* Nobody else runs beside a host that began undisturbed.                  *)
LEMMA CleanIsAlone ==
  ASSUME FreshInv, epoch = "clean", NEW h \in Hosts, phase[h] \notin AtRest
  PROVE  Alone(h) /\ late = {} /\ InOrder(h)
BY DEF FreshInv, Alone, InOrder

LEMMA FreshLine ==
  ASSUME TypeOK, UidsFinite, FreshInv, NEW h \in Hosts, RunLine(h), epoch' = "clean"
  PROVE  FreshInv'
<1>1. PICK cmd \in Commands(todo[h]) : IsNext(h, cmd) /\ Shell(h, cmd) /\ Advance(h, cmd)
  BY DEF RunLine
<1>2. /\ table' = [table EXCEPT ![Families[fam[h]]] = Apply(@, cmd)]
      /\ UNCHANGED <<late, epoch, uids, warned, conn>>
  BY <1>1 DEF Shell, Taint, RunLine
<1>3. phase[h] \in Scripts
  BY DEF RunLine
<1>4. Alone(h) /\ late = {} /\ InOrder(h)
  BY <1>2, <1>3, CleanIsAlone DEF Scripts, AtRest
<1>5. \A g \in Hosts \ {h} : phase'[g] = phase[g]
  BY <1>1 DEF Advance, NextUid, NextLine, NextFamily, NextPhase, BeginScript, Enter, TypeOK,
              PositionsOK
<1>6. CASE phase[h] = "heal"
  <2>1. \/ phase'[h] = "heal" /\ Healing(h)'
        \/ phase'[h] = "setup" /\ Installed(h)'
    BY <1>1, <1>2, <1>4, <1>6, HealingLine DEF InOrder
  <2>2. InOrder(h)'
    BY <2>1 DEF InOrder, Installing
  <2>3. QED
    BY <1>2, <1>4, <1>5, <2>2, AloneInOrder
<1>7. CASE phase[h] = "setup"
  <2>1. phase'[h] \in {"setup", "launch"} /\ Installed(h)'
    BY <1>1, <1>2, <1>4, <1>7, InstallingLine DEF InOrder, Installing
  <2>2. InOrder(h)'
    BY <2>1 DEF InOrder
  <2>3. QED
    BY <1>2, <1>4, <1>5, <2>2, AloneInOrder
<1>8. CASE phase[h] \in {"teardown", "cleanup"}
  <2>1. phase'[h] \in {"teardown", "cleanup", "stopped"}
    BY <1>1, <1>8 DEF Advance, NextUid, NextLine, NextFamily, NextPhase, BeginScript, Enter,
                      TypeOK, PositionsOK
  <2>2. InOrder(h)'
    BY <2>1 DEF InOrder, Installing
  <2>3. QED
    BY <1>2, <1>4, <1>5, <2>2, AloneInOrder
<1>9. QED
  BY <1>3, <1>6, <1>7, <1>8 DEF Scripts

(* A heal that begins undisturbed finds nothing it cannot clear; marks     *)
(* there are already are an earlier run's.                                 *)
LEMMA FreshStart ==
  ASSUME TypeOK, FreshInv, NEW h \in Hosts, Start(h), epoch' = "clean", FewJumps
  PROVE  FreshInv'
<1>1. PICK us \in UidSets : BeginScript(h, "heal", us)
  BY DEF Start
<1>2. /\ phase'[h] = "heal" /\ fam'[h] = 1 /\ step'[h] = 1
      /\ \A g \in Hosts \ {h} : phase'[g] = phase[g]
  BY <1>1 DEF BeginScript, Enter, TypeOK, PositionsOK
<1>3. Epoch(h) = "clean" /\ UNCHANGED tableVars
  BY DEF Start, Begin
<1>4. Alone(h) /\ late' = {} /\ table' = table
  BY <1>3 DEF Epoch, Alone, tableVars
<1>5. ~warned'[h]
  BY DEF Start, TypeOK
<1>6. ASSUME NEW k \in FamilyLines PROVE Cleared(table'[Families[k]], LinesDone(h, k)')
  <2>1. k \in Nat /\ k >= 1
    BY NflogTierAssumption DEF FamilyLines
  <2>2. LinesDone(h, k)' = 0
    BY <1>2, <2>1 DEF LinesDone, Finished
  <2>3. \A j \in JumpLines : CopiesLeft(j, 0) = 2
    BY DEF JumpLines, CopiesLeft
  <2>4. Cleared(table[Families[k]], 0)
    BY <2>3 DEF FewJumps, JumpPlaces, Cleared, ChainLines
  <2>5. QED
    BY <1>4, <2>2, <2>4
<1>7. \A c \in Conns : conn'[c].marked => conn'[c].inherited
  BY DEF Start, TypeOK
<1>8. Healing(h)'
  BY <1>5, <1>6, <1>7 DEF Healing, FamilyLines
<1>9. InOrder(h)'
  BY <1>2, <1>8 DEF InOrder, Installing
<1>10. QED
  BY <1>2, <1>4, <1>9, AloneInOrder

(* An exception in the setup of a further family, and the launch of        *)
(* tcpdump, leave everything where it is.                                  *)
LEMMA FreshLaunch ==
  ASSUME TypeOK, FreshInv, NEW h \in Hosts, SetupRaises(h) \/ Launch(h), epoch' = "clean"
  PROVE  FreshInv'
<1>1. /\ UNCHANGED <<fam, step, todo, uids, table, late, conn, epoch>>
      /\ phase[h] \in {"setup", "launch"}
      /\ \A g \in Hosts \ {h} : phase'[g] = phase[g]
  BY DEF SetupRaises, Launch, Enter, TypeOK, PositionsOK, tableVars
<1>2. Alone(h) /\ late = {} /\ InOrder(h)
  BY <1>1, CleanIsAlone DEF AtRest
<1>3. Installed(h)
  BY <1>1, <1>2 DEF InOrder, Installing
<1>4. CASE phase'[h] = "failed"
  <2>1. InOrder(h)'
    BY <1>4 DEF InOrder, Installing
  <2>2. QED
    BY <1>1, <1>2, <2>1, AloneInOrder
<1>5. CASE phase'[h] # "failed"
  <2>1. /\ phase'[h] \in {"launch", "capturing"}
        /\ phase[h] = "setup" => warned'[h] /\ ~warned[h] /\ fam[h] > 1
        /\ phase[h] = "launch" => warned' = warned
    BY <1>3, <1>5 DEF SetupRaises, Launch, Enter, TypeOK, PositionsOK, Installed
  <2>2. Finished(h)' = Finished(h)
    BY <1>1, <2>1 DEF Finished
  <2>3. ASSUME NEW k \in FamilyLines
        PROVE  LinesDone(h, k)' = LinesDone(h, k) /\ Stamped(h, k)' = Stamped(h, k)
    BY <1>1, <2>1, <2>2 DEF LinesDone, Stamped
  <2>4. warned'[h] => phase'[h] # "setup" /\ fam'[h] > 1
    BY <1>1, <1>3, <2>1 DEF Installed
  <2>5. Installed(h)'
    BY <1>1, <1>3, <2>3, <2>4 DEF Installed, FamilyLines
  <2>6. InOrder(h)'
    BY <2>1, <2>5 DEF InOrder
  <2>7. QED
    BY <1>1, <1>2, <2>6, AloneInOrder
<1>6. QED
  BY <1>4, <1>5

(* The rest of the lifecycle promises nothing.                             *)
LEMMA FreshEnd ==
  ASSUME TypeOK, FreshInv, NEW h \in Hosts, epoch' = "clean",
         Abort(h) \/ ExitTeardown(h) \/ Stop(h) \/ Collect(h) \/ Cleanup(h) \/ Crash(h)
  PROVE  FreshInv'
<1>1. epoch' # "faulty"
  OBVIOUS
<1>2. /\ phase'[h] \in {"failed", "teardown", "collect", "cleanup"}
      /\ late' = late /\ \A g \in Hosts \ {h} : phase'[g] = phase[g]
  BY <1>1 DEF Abort, ExitTeardown, Stop, Collect, Cleanup, Crash, Taint, BeginScript, Enter,
              TypeOK, PositionsOK, tableVars
<1>3. Alone(h) /\ late = {}
  <2>1. CASE ExitTeardown(h) \/ Stop(h) \/ Cleanup(h)
    <3>1. Epoch(h) = "clean"
      BY <2>1 DEF ExitTeardown, Stop, Cleanup, Begin
    <3>2. QED
      BY <3>1 DEF Epoch, Alone
  <2>2. CASE Abort(h) \/ Collect(h)
    BY <2>2, CleanIsAlone DEF Abort, Collect, AtRest
  <2>3. QED
    BY <1>1, <2>1, <2>2 DEF Crash, Taint
<1>4. InOrder(h)'
  BY <1>2 DEF InOrder, Installing
<1>5. QED
  BY <1>2, <1>3, <1>4, AloneInOrder

(* The invariant.                                                          *)
FindsFewJumpsToHeal ==
  \A h \in Hosts : phase[h] # "heal" /\ phase'[h] = "heal" /\ epoch' = "clean" => FewJumps

LEMMA FreshStep ==
  ASSUME TypeOK, UidsFinite, FreshInv, [Next]_vars, DevicePrepends = FALSE, FindsFewJumpsToHeal
  PROVE  FreshInv'
<1>1. CASE UNCHANGED vars
  BY <1>1
     DEF vars, hostVars, tableVars, FreshInv, Healing, Installed, LinesDone, Stamped, Finished
<1>2. SUFFICES ASSUME Next, epoch' = "clean" PROVE FreshInv'
  BY <1>1 DEF FreshInv
<1>3. ASSUME NEW h \in Hosts, HostStep(h) PROVE FreshInv'
  <2>1. CASE RunLine(h)
    BY <1>2, <2>1, FreshLine
  <2>2. CASE Start(h)
    <3>1. phase[h] # "heal" /\ phase'[h] = "heal"
      BY <2>2 DEF Start, AtRest, BeginScript, Enter, TypeOK, PositionsOK
    <3>2. QED
      BY <1>2, <2>2, <3>1, FreshStart DEF FindsFewJumpsToHeal
  <2>3. CASE SetupRaises(h) \/ Launch(h)
    BY <1>2, <2>3, FreshLaunch
  <2>4. CASE Abort(h) \/ ExitTeardown(h) \/ Stop(h) \/ Collect(h) \/ Cleanup(h) \/ Crash(h)
    BY <1>2, <2>4, FreshEnd
  <2>5. QED
    BY <1>3, <2>1, <2>2, <2>3, <2>4 DEF HostStep
<1>4. ASSUME RunLate \/ DeviceAdds \/ DeviceRemoves \/ \E c \in Conns : Open(c) \/ Send(c) \/ Close(c)
      PROVE  FreshInv'
  <2>1. epoch = "clean" /\ phase' = phase
    BY <1>2, <1>4 DEF RunLate, DeviceAdds, DeviceRemoves, Open, Send, Close, hostVars
  <2>2. late = {}
    BY <2>1 DEF FreshInv
  <2>3. late' = {} /\ ~RunLate
    BY <1>4, <2>2 DEF RunLate, DeviceAdds, DeviceRemoves, Open, Send, Close, tableVars
  <2>4. ASSUME NEW h \in Hosts, phase[h] \notin AtRest PROVE InOrder(h)'
    <3>1. Alone(h) /\ InOrder(h)
      BY <2>1, <2>4, CleanIsAlone
    <3>2. CASE DeviceAdds \/ DeviceRemoves
      BY <2>1, <3>1, <3>2, DeviceUndisturbing DEF InOrder
    <3>3. ASSUME NEW c \in Conns, Open(c) \/ Send(c) \/ Close(c) PROVE InOrder(h)'
      BY <2>1, <3>1, <3>3, TrafficUndisturbing DEF InOrder, Alone
    <3>4. QED
      BY <1>4, <2>3, <3>2, <3>3
  <2>5. \A ph \in AtRest : ph # "heal" /\ ph \notin Installing
    BY DEF AtRest, Installing
  <2>6. ASSUME NEW h \in Hosts
        PROVE  (phase[h] = "heal" => Healing(h))' /\ (phase[h] \in Installing => Installed(h))'
    BY <2>1, <2>4, <2>5 DEF InOrder
  <2>7. \A g, h \in Hosts : g # h => phase'[g] \in AtRest \/ phase'[h] \in AtRest
    BY <2>1 DEF FreshInv
  <2>8. QED
    BY <2>3, <2>6, <2>7 DEF FreshInv
<1>5. QED
  BY <1>2, <1>3, <1>4 DEF Next

LEMMA FreshInit == Init => FreshInv
BY DEF Init, FreshInv, AtRest, Installing

LEMMA UidsStayFinite == Spec => []UidsFinite
<1>1. Init => UidsFinite
  BY FS_EmptySet DEF Init, UidsFinite
<1>2. TypeOK /\ UidsFinite /\ [Next]_vars => UidsFinite'
  <2>1. SUFFICES ASSUME TypeOK, UidsFinite, [Next]_vars,
                        uids' # uids
                 PROVE  \E h \in Hosts, us \in UidSets : uids' = [uids EXCEPT ![h] = us]
    BY NflogTierAssumption DEF UidsFinite, TypeOK
  <2>2. PICK h \in Hosts : HostStep(h)
    BY <2>1 DEF vars, hostVars, Next, RunLate, DeviceAdds, DeviceRemoves, Open, Send, Close
  <2>3. CASE Start(h)
    BY <2>3 DEF Start
  <2>4. CASE ~Start(h)
    BY <2>1, <2>2, <2>4
       DEF HostStep, RunLine, SetupRaises, Launch, Abort, ExitTeardown, Stop, Collect, Cleanup, Crash
  <2>5. QED
    BY <2>3, <2>4
<1>3. QED
  BY <1>1, <1>2, TypeCorrect, PTL DEF Spec

(* What it says of a capture: its setup is complete, for every family or,  *)
(* after a warning, for the first.                                         *)
LEMMA FreshIsScoped == TypeOK /\ FreshInv => FreshConnectionsScoped
<1>1. SUFFICES ASSUME TypeOK, FreshInv, NEW h \in Hosts, NEW c \in Conns, Undisturbed(h, c),
                      ~conn[c].inherited
               PROVE  LoggedAsPromised(h, c)
  BY DEF FreshConnectionsScoped
<1>2. phase[h] = "capturing" /\ epoch = "clean" /\ (warned[h] => FamilyOf[c] = Families[1])
  BY <1>1 DEF Undisturbed
<1>3. phase[h] \in Installing /\ Installed(h)
  BY <1>1, <1>2 DEF FreshInv, Installing
<1>4. PICK k \in FamilyLines : FamilyOf[c] = Families[k]
  BY NflogTierAssumption, FamiliesInRange DEF FamilyLines, ToSet
<1>5. warned[h] => k = 1 /\ fam[h] > 1
  <2>1. 1 \in DOMAIN Families /\ k \in DOMAIN Families
    BY NflogTierAssumption DEF FamilyLines
  <2>2. QED
    BY <1>2, <1>3, <1>4, <2>1, NflogTierAssumption DEF Installed, IsInjective
<1>6. LinesDone(h, k) = 8 /\ Stamped(h, k) = uids[h]
  BY <1>2, <1>5, ScriptLengths DEF LinesDone, Stamped, Finished
<1>7. /\ IsTable(table[Families[k]], Uids)
      /\ Built(table[Families[k]], 8, uids[h])
  BY <1>1, <1>3, <1>6, InstalledTables
<1>8. conn[c].marked \in BOOLEAN /\ (conn[c].marked => conn[c].owner \in uids[h])
  BY <1>1, <1>3 DEF TypeOK, Installed
<1>9. /\ Copies(table[Families[k]], "OUTPUT", conn[c].owner, conn[c].marked)
           = IF conn[c].marked \/ conn[c].owner \in uids[h] THEN 1 ELSE 0
      /\ Copies(table[Families[k]], "PREROUTING", NoUid, conn[c].marked)
           = IF conn[c].marked THEN 1 ELSE 0
  BY <1>7, <1>8, BuiltLogs
<1>10. QED
  BY <1>4, <1>8, <1>9 DEF LoggedAsPromised

(* nflog.py:79 and netfilter.py:135: as long as other programs append      *)
(* their rules and every heal that begins undisturbed finds at most two    *)
(* copies of each jump, an undisturbed capture has at every line of its    *)
(* heal and set-up exactly what its own commands make of the tables, and   *)
(* marked nobody but the app.                                              *)
THEOREM FreshInvariant ==
  ASSUME DevicePrepends = FALSE
  PROVE  Spec /\ HealsFindFewJumps => []FreshInv
<1>1. /\ TypeOK /\ UidsFinite /\ FreshInv /\ [Next]_vars
      /\ [\A h \in Hosts : phase[h] # "heal" /\ phase'[h] = "heal" /\ epoch' = "clean" => FewJumps]_vars
      => FreshInv'
  <2>1. SUFFICES ASSUME TypeOK, UidsFinite, FreshInv, [Next]_vars,
                        [\A h \in Hosts : phase[h] # "heal" /\ phase'[h] = "heal"
                             /\ epoch' = "clean" => FewJumps]_vars
                 PROVE  FreshInv'
    OBVIOUS
  <2>2. FindsFewJumpsToHeal
    BY <2>1 DEF FindsFewJumpsToHeal, vars, hostVars
  <2>3. QED
    BY <2>1, <2>2, FreshStep
<1>2. QED
  BY <1>1, FreshInit, TypeCorrect, UidsStayFinite, PTL DEF Spec, HealsFindFewJumps

(* nflog.py:3 and :69: as long as other programs append their rules and    *)
(* every heal that begins undisturbed finds at most two copies of each     *)
(* jump, a capture that nothing disturbs logs the app's packets once each, *)
(* and nobody else's on a connection no earlier capture marked: for any    *)
(* number of hosts, families, UIDs, connections and captures, whatever     *)
(* failed, crashed or overlapped before this one began.                    *)
THEOREM FreshUnlessCrowded ==
  ASSUME DevicePrepends = FALSE
  PROVE  Spec /\ HealsFindFewJumps => []FreshConnectionsScoped
<1>1. TypeOK /\ FreshInv => FreshConnectionsScoped
  BY FreshIsScoped
<1>2. QED
  BY <1>1, FreshInvariant, TypeCorrect, PTL DEF Spec

(* netfilter.py:153: with one AppTap process and up to three lost          *)
(* commands, crashes and exceptions (a late command counts twice), or one  *)
(* of any kind, every heal can, so every undisturbed capture does.         *)
THEOREM FreshAfterFaults ==
  ASSUME DevicePrepends = FALSE, NEW a, Hosts = {a},
         MaxFaults + MaxLate <= 3 \/ MaxFaults <= 1
  PROVE  Spec => []FreshConnectionsScoped
<1>1. Spec => []FewJumps
  BY FewAfterFaults
<1>2. FewJumps => [\A h \in Hosts : phase[h] # "heal" /\ phase'[h] = "heal" /\ epoch' = "clean"
                      => FewJumps]_vars
  OBVIOUS
<1>3. QED
  BY <1>1, <1>2, FreshUnlessCrowded, PTL DEF HealsFindFewJumps

(* With no fault at all: a jump is there at most once for each host that   *)
(* has yet to delete it.                                                   *)
LEMMA HeldKept ==
  ASSUME JumpsHeld, NEW k \in FamilyLines, NEW j \in JumpLines,
         Cardinality(JumpPlaces(k, j)) \in Nat, Cardinality(JumpPlaces(k, j)') \in Nat,
         Cardinality(JumpPlaces(k, j)') <= Cardinality(JumpPlaces(k, j)),
         \A g \in Hosts : Owes(g, k, j, 1) => Owes(g, k, j, 1)'
  PROVE  Cardinality(JumpPlaces(k, j)') <= Cardinality(FirstOwed(k, j)')
<1>1. /\ FirstOwed(k, j) \in SUBSET (Hosts \X {1, 2}) /\ FirstOwed(k, j)' \in SUBSET (Hosts \X {1, 2})
      /\ FirstOwed(k, j) \subseteq FirstOwed(k, j)'
  BY DEF FirstOwed, Owed
<1>2. /\ Cardinality(FirstOwed(k, j)) <= Cardinality(FirstOwed(k, j)')
      /\ Cardinality(FirstOwed(k, j)) \in Nat /\ Cardinality(FirstOwed(k, j)') \in Nat
  BY <1>1, OwnersFinite
<1>3. Cardinality(JumpPlaces(k, j)) <= Cardinality(FirstOwed(k, j))
  BY DEF JumpsHeld
<1>4. QED
  BY <1>2, <1>3

LEMMA HeldLine ==
  ASSUME TypeOK, JumpsHeld, NEW h \in Hosts, NEW cmd \in Commands(todo[h]),
         phase[h] \in Scripts, IsNext(h, cmd), Advance(h, cmd),
         table' = [table EXCEPT ![Families[fam[h]]] = Apply(@, cmd)],
         NEW k \in FamilyLines, NEW j \in JumpLines
  PROVE  Cardinality(JumpPlaces(k, j)') <= Cardinality(FirstOwed(k, j)')
<1>1. /\ Cardinality(JumpPlaces(k, j)) \in Nat /\ Cardinality(JumpPlaces(k, j)') \in Nat
      /\ Cardinality(JumpPlaces(k, j)') <= Cardinality(JumpPlaces(k, j)) + 1
      /\ ~InsertsNext(h, k, j) => Cardinality(JumpPlaces(k, j)') <= Cardinality(JumpPlaces(k, j))
      /\ DeletesNext(h, k, j, 1) =>
           \/ Cardinality(JumpPlaces(k, j)') = 0
           \/ Cardinality(JumpPlaces(k, j)') <= Cardinality(JumpPlaces(k, j)) - 1
  BY LineCounts
<1>2. /\ \A g \in Hosts :
           Owes(g, k, j, 1) => Owes(g, k, j, 1)' \/ (g = h /\ DeletesNext(h, k, j, 1))
      /\ InsertsNext(h, k, j) => Owes(h, k, j, 1)' /\ ~Owes(h, k, j, 1)
  BY OwesStep DEF TypeOK
<1>3. PICK d : d = <<h, 1>>
  OBVIOUS
<1>4. /\ FirstOwed(k, j) \in SUBSET (Hosts \X {1, 2}) /\ FirstOwed(k, j)' \in SUBSET (Hosts \X {1, 2})
      /\ d \in Hosts \X {1, 2}
  BY <1>3 DEF FirstOwed, Owed
<1>5. /\ Cardinality(FirstOwed(k, j)) \in Nat /\ Cardinality(FirstOwed(k, j)') \in Nat
      /\ FirstOwed(k, j) \ {d} \subseteq FirstOwed(k, j)' =>
           Cardinality(FirstOwed(k, j)) - 1 <= Cardinality(FirstOwed(k, j)')
      /\ FirstOwed(k, j) \cup {d} \subseteq FirstOwed(k, j)' /\ d \notin FirstOwed(k, j) =>
           Cardinality(FirstOwed(k, j)) + 1 <= Cardinality(FirstOwed(k, j)')
  BY <1>4, OwedCount
<1>6. Cardinality(JumpPlaces(k, j)) <= Cardinality(FirstOwed(k, j))
  BY DEF JumpsHeld
<1>7. CASE DeletesNext(h, k, j, 1)
  <2>1. FirstOwed(k, j) \ {d} \subseteq FirstOwed(k, j)'
    BY <1>2, <1>3 DEF FirstOwed, Owed
  <2>2. QED
    BY <1>1, <1>5, <1>6, <1>7, <2>1
<1>8. CASE InsertsNext(h, k, j)
  <2>1. ~DeletesNext(h, k, j, 1)
    BY <1>8 DEF InsertsNext, DeletesNext, Cleaning
  <2>2. FirstOwed(k, j) \cup {d} \subseteq FirstOwed(k, j)' /\ d \notin FirstOwed(k, j)
    BY <1>2, <1>3, <1>8, <2>1 DEF FirstOwed, Owed
  <2>3. QED
    BY <1>1, <1>5, <1>6, <2>2
<1>9. CASE ~DeletesNext(h, k, j, 1) /\ ~InsertsNext(h, k, j)
  BY <1>1, <1>2, <1>9, HeldKept
<1>10. QED
  BY <1>7, <1>8, <1>9

LEMMA HeldStep ==
  ASSUME TypeOK, JumpsHeld, MaxFaults = 0, NeverFaulty, OwedInv, [Next]_vars
  PROVE  JumpsHeld'
<1>1. SUFFICES ASSUME NEW k \in FamilyLines, NEW j \in JumpLines
               PROVE  Cardinality(JumpPlaces(k, j)') <= Cardinality(FirstOwed(k, j)')
  BY DEF JumpsHeld, FamilyLines
<1>2. ~Fault /\ late = {} /\ Cardinality(JumpPlaces(k, j)) \in Nat
  BY JumpCounts DEF Fault, NeverFaulty, OwedInv
<1>3. ASSUME UNCHANGED <<table, phase, fam, step>>
      PROVE  Cardinality(JumpPlaces(k, j)') <= Cardinality(FirstOwed(k, j)')
  BY <1>2, <1>3, HeldKept DEF JumpPlaces, Owes, Past
<1>4. ASSUME NEW h \in Hosts, RunLine(h)
      PROVE  Cardinality(JumpPlaces(k, j)') <= Cardinality(FirstOwed(k, j)')
  <2>1. PICK cmd \in Commands(todo[h]) : IsNext(h, cmd) /\ Shell(h, cmd) /\ Advance(h, cmd)
    BY <1>4 DEF RunLine
  <2>2. table' = [table EXCEPT ![Families[fam[h]]] = Apply(@, cmd)] /\ phase[h] \in Scripts
    BY <1>2, <1>4, <2>1 DEF Shell, Taint, RunLine
  <2>3. QED
    BY <2>1, <2>2, HeldLine
<1>5. ASSUME NEW h \in Hosts, Lifecycle(h)
      PROVE  Cardinality(JumpPlaces(k, j)') <= Cardinality(FirstOwed(k, j)')
  <2>1. OwesAll(h)' /\ OnlyMoved(h)
    BY <1>5, LifecycleSteps DEF TypeOK
  <2>2. \A g \in Hosts : Owes(g, k, j, 1) => Owes(g, k, j, 1)'
    BY <2>1, OwesAllNext DEF OnlyMoved, Owes, Past
  <2>3. JumpPlaces(k, j)' = JumpPlaces(k, j)
    BY <2>1 DEF OnlyMoved, JumpPlaces
  <2>4. QED
    BY <1>2, <2>2, <2>3, HeldKept
<1>6. CASE DeviceAdds \/ DeviceRemoves
  <2>1. \A g \in Hosts : Owes(g, k, j, 1) => Owes(g, k, j, 1)'
    BY <1>6 DEF DeviceAdds, DeviceRemoves, hostVars, Owes, Past
  <2>2. /\ Cardinality(JumpPlaces(k, j)') \in Nat
        /\ Cardinality(JumpPlaces(k, j)') <= Cardinality(JumpPlaces(k, j))
    BY <1>6, DeviceCounts
  <2>3. QED
    BY <1>2, <2>1, <2>2, HeldKept
<1>7. CASE UNCHANGED vars \/ \E c \in Conns : Open(c) \/ Send(c) \/ Close(c)
  BY <1>3, <1>7 DEF vars, hostVars, tableVars, Open, Send, Close
<1>8. ~RunLate
  BY <1>2 DEF RunLate
<1>9. ASSUME NEW h \in Hosts, HostStep(h) PROVE RunLine(h) \/ Lifecycle(h)
  BY <1>9 DEF HostStep, Lifecycle
<1>10. QED
  BY <1>4, <1>5, <1>6, <1>7, <1>8, <1>9 DEF Next

LEMMA HeldInit == Init => JumpsHeld
<1>1. SUFFICES ASSUME Init, NEW k \in FamilyLines, NEW j \in JumpLines
               PROVE  Cardinality(JumpPlaces(k, j)) <= Cardinality(FirstOwed(k, j))
  BY DEF JumpsHeld
<1>2. table[Families[k]] = EmptyTable
  BY <1>1, NflogTierAssumption, FamiliesInRange DEF Init, FamilyLines
<1>3. JumpPlaces(k, j) = {}
  BY <1>2, JumpsAndChains DEF JumpPlaces, Places, EmptyTable
<1>4. Cardinality(FirstOwed(k, j)) \in Nat
  BY OwnersFinite DEF FirstOwed, Owed
<1>5. QED
  BY <1>3, <1>4, FS_EmptySet

(* nflog.py:69, netfilter.py:153: two AppTap processes on one device, with *)
(* no fault, may run side by side and give up half-way as they like: a     *)
(* capture that one of them then runs alone is right again.  (Three can    *)
(* leave three copies of a jump, and then it is not.)                      *)
THEOREM FreshWithoutFaults ==
  ASSUME DevicePrepends = FALSE, MaxFaults = 0, Cardinality(Hosts) <= 2
  PROVE  Spec => []FreshConnectionsScoped
<1>1. TypeOK /\ JumpsHeld => FewJumps
  <2>1. SUFFICES ASSUME TypeOK, JumpsHeld, NEW k \in FamilyLines, NEW j \in JumpLines
                 PROVE  Cardinality(JumpPlaces(k, j)) <= 2
    BY DEF FewJumps
  <2>2. /\ IsFiniteSet(Hosts \X {1}) /\ Cardinality(Hosts \X {1}) = Cardinality(Hosts)
        /\ Cardinality(Hosts) \in Nat
    <3>1. IsFiniteSet({1}) /\ Cardinality({1}) = 1 /\ IsFiniteSet(Hosts)
      BY FS_Singleton, NflogTierAssumption
    <3>2. /\ IsFiniteSet(Hosts \X {1}) /\ Cardinality(Hosts) \in Nat
          /\ Cardinality(Hosts \X {1}) = Cardinality(Hosts) * Cardinality({1})
      BY <3>1, FS_Product, FS_CardinalityType
    <3>3. QED
      BY <3>1, <3>2
  <2>3. FirstOwed(k, j) \subseteq Hosts \X {1}
    BY DEF FirstOwed
  <2>4. /\ Cardinality(FirstOwed(k, j)) <= Cardinality(Hosts \X {1})
        /\ IsFiniteSet(FirstOwed(k, j))
    BY <2>2, <2>3, FS_Subset
  <2>5. Cardinality(FirstOwed(k, j)) \in Nat /\ Cardinality(JumpPlaces(k, j)) \in Nat
    BY <2>1, <2>4, FS_CardinalityType, JumpCounts
  <2>6. Cardinality(JumpPlaces(k, j)) <= Cardinality(FirstOwed(k, j))
    BY <2>1 DEF JumpsHeld
  <2>7. QED
    BY <2>2, <2>4, <2>5, <2>6
<1>2. TypeOK /\ JumpsHeld /\ NeverFaulty /\ OwedInv /\ [Next]_vars => JumpsHeld'
  BY HeldStep
<1>3. Spec => []JumpsHeld
  BY <1>2, HeldInit, NothingFaulty, TypeCorrect, PTL DEF Spec
<1>4. FewJumps => [\A h \in Hosts : phase[h] # "heal" /\ phase'[h] = "heal" /\ epoch' = "clean"
                      => FewJumps]_vars
  OBVIOUS
<1>5. QED
  BY <1>1, <1>3, <1>4, FreshUnlessCrowded, TypeCorrect, PTL DEF HealsFindFewJumps
==============================================================================
