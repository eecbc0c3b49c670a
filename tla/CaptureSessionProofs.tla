------------------------ MODULE CaptureSessionProofs ------------------------
(***************************************************************************)
(* Proofs about the session: its types, and the three safety properties    *)
(* that the runs check, each from an inductive invariant of its own.       *)
(***************************************************************************)
EXTENDS CaptureSession, TLAPS

(* What select_tier chooses and warns of. *)
LEMMA SelectTierType ==
  ASSUME NEW caps \in Capabilities, NEW requested \in Requests
  PROVE  /\ select_tier(caps, requested).tier \in {"NFLOG", "SOCKDIAG"}
         /\ select_tier(caps, requested).warnings \subseteq Warnings
BY DEF select_tier, Warnings

LEMMA TypeStep ==
  ASSUME CaptureSessionAssumption, TypeOK, [Next]_vars
  PROVE  TypeOK'
<1> USE CaptureSessionAssumption DEF CaptureSessionAssumption,
           TypeOK, Goto, control, scope, target, counts, Steps, InStart, InStop,
           Requests, Tiers, Warnings
<1>1. CASE Start
  BY <1>1 DEF Start
<1>2. CASE ResolveUids
  BY <1>2 DEF ResolveUids, Proceeds
<1>3. CASE ChooseTier
  <2>1. env.requested \in Requests
    BY DEF TypeOK
  <2>2. PICK choice \in {select_tier(caps, env.requested) : caps \in Capabilities}
                          \cup {[tier |-> "SOCKDIAG", warnings |-> {}]} :
          \/ chosen' = choice.tier /\ warnings' = warnings \cup choice.warnings
             /\ whole_device' = whole_device
          \/ chosen' = "SOCKDIAG"
             /\ warnings' = warnings \cup choice.warnings \cup {"whole_device"}
             /\ whole_device' = TRUE
    BY <1>3 DEF ChooseTier
  <2>3. choice.tier \in {"NFLOG", "SOCKDIAG"} /\ choice.warnings \subseteq Warnings
    BY <2>1, <2>2, SelectTierType
  <2>4. chosen' \in {"NFLOG", "SOCKDIAG"} /\ warnings' \subseteq Warnings
        /\ whole_device' \in BOOLEAN
    BY <2>2, <2>3 DEF TypeOK, Warnings
  <2> QED
    BY <1>3, <2>4 DEF ChooseTier, Proceeds
<1>4. CASE NoteAndroidVersion
  <2>1. warnings' \subseteq Warnings
    BY <1>4 DEF NoteAndroidVersion, TypeOK, Warnings
  <2> QED
    BY <1>4, <2>1 DEF NoteAndroidVersion, Proceeds
<1>5. CASE BuildImpl
  BY <1>5 DEF BuildImpl, Proceeds
<1>6. CASE NoTcpdump
  BY <1>6 DEF NoTcpdump, Leaves, Error
<1>7. CASE InstallRules
  BY <1>7 DEF InstallRules, Proceeds
<1>8. CASE InstallRaises
  BY <1>8 DEF InstallRaises, Leaves, Error
<1>9. CASE LaunchTcpdump
  BY <1>9 DEF LaunchTcpdump, Proceeds
<1>10. CASE StartThread
  BY <1>10 DEF StartThread, Proceeds
<1>11. CASE LaunchRaises
  BY <1>11 DEF LaunchRaises, Leaves, Error
<1>12. CASE BeginCapture
  BY <1>12 DEF BeginCapture, Proceeds
<1>13. CASE Stop
  BY <1>13 DEF Stop
<1>14. CASE StopTcpdump
  <2>1. readers' \subseteq Nat /\ lost' \subseteq Nat
    BY <1>14 DEF StopTcpdump, TypeOK
  <2> QED
    BY <1>14, <2>1 DEF StopTcpdump, Proceeds
<1>15. CASE Collect
  BY <1>15 DEF Collect, Proceeds
<1>16. CASE CollectRaises
  BY <1>16 DEF CollectRaises, Unwinds, Error
<1>17. CASE UndoRules
  BY <1>17 DEF UndoRules, TeardownOf, Proceeds
<1>18. CASE FinishStop
  BY <1>18 DEF FinishStop, TeardownOf, Proceeds
<1>19. CASE FailStop
  BY <1>19 DEF FailStop, Leaves, TeardownOf
<1>20. CASE Teardown
  BY <1>20 DEF Teardown, TeardownOf
<1>21. CASE Catch
  BY <1>21 DEF Catch
<1>22. CASE Exit
  BY <1>22 DEF Exit
<1>23. CASE ExitTeardown
  BY <1>23 DEF ExitTeardown, TeardownOf, Proceeds
<1>24. CASE InterruptStart
  BY <1>24 DEF InterruptStart, Leaves, Ctrl_C
<1>25. CASE InterruptStop
  BY <1>25 DEF InterruptStop, Leaves, Unwinds, Ctrl_C
<1>26. CASE InterruptExit
  BY <1>26 DEF InterruptExit, Ctrl_C
<1>27. CASE UNCHANGED vars
  BY <1>27 DEF vars
<1> QED
  BY <1>1, <1>2, <1>3, <1>4, <1>5, <1>6, <1>7, <1>8, <1>9, <1>10, <1>11, <1>12,
     <1>13, <1>14, <1>15, <1>16, <1>17, <1>18, <1>19, <1>20, <1>21, <1>22, <1>23,
     <1>24, <1>25, <1>26, <1>27 DEF Next

(* Every variable stays within its type: the types the run checks on a      *)
(* small instance, for every set of UIDs and every bound.                   *)
THEOREM TypeCorrect == Spec => []TypeOK
<1>1. Init => TypeOK
  <2> SUFFICES ASSUME Init PROVE TypeOK
    OBVIOUS
  <2>1. /\ impl \in [id : Nat, tier : {"NFLOG", "SOCKDIAG"}, uids : SUBSET Uids, proc : BOOLEAN]
        /\ result \in [tier : Tiers \cup {"none"}, uids : SUBSET Uids,
                        warnings : SUBSET Warnings]
    BY DEF Init, NoImpl, NoResult
  <2>2. pc \in Steps \cup {"body", "raised", "ended"} /\ warnings \subseteq Warnings
    BY DEF Init
  <2>3. readers \subseteq Nat /\ captured \subseteq Nat /\ uids \subseteq Uids
        /\ {built, errors, interrupts} \subseteq Nat
    BY DEF Init
  <2> QED
    BY <2>1, <2>2, <2>3 DEF Init, TypeOK
<1>2. TypeOK /\ [Next]_vars => TypeOK'
  BY TypeStep, CaptureSessionAssumption
<1> QED
  BY <1>1, <1>2, PTL DEF Spec

------------------------------------------------------------------------------
Built == impl.id > 0

(* What the fields say while the session is used; what a result without    *)
(* UIDs says follows from it.                                              *)
FlagInv ==
  /\ WholeDeviceFlagged
  /\ whole_device => "whole_device" \in warnings
  /\ pc \in {"note", "tcpdump"} /\ uids = {} => whole_device
  /\ Built /\ impl.uids = {} => whole_device
  /\ started \/ pc \in {"launch", "thread", "begin"} => Built
  /\ pc = "install" => Built
  /\ pc \in InStop => started

LEMMA FlagInvStep ==
  ASSUME TypeOK, FlagInv, [Next]_vars
  PROVE  FlagInv'
<1> USE DEF FlagInv, WholeDeviceFlagged, Built, NoResult,
            Goto, control, scope, target, counts, InStart, InStop, TypeOK
<1>1. CASE Start
  BY <1>1 DEF Start
<1>2. CASE ResolveUids
  BY <1>2 DEF ResolveUids, Proceeds
<1>3. CASE ChooseTier
  BY <1>3 DEF ChooseTier, Proceeds
<1>4. CASE NoteAndroidVersion
  BY <1>4 DEF NoteAndroidVersion, Proceeds
<1>5. CASE BuildImpl
  BY <1>5 DEF BuildImpl, Proceeds
<1>6. CASE NoTcpdump
  BY <1>6 DEF NoTcpdump, Leaves, Error
<1>7. CASE InstallRules
  BY <1>7 DEF InstallRules, Proceeds
<1>8. CASE InstallRaises
  BY <1>8 DEF InstallRaises, Leaves, Error
<1>9. CASE LaunchTcpdump
  BY <1>9 DEF LaunchTcpdump, Proceeds
<1>10. CASE StartThread
  BY <1>10 DEF StartThread, Proceeds
<1>11. CASE LaunchRaises
  BY <1>11 DEF LaunchRaises, Leaves, Error
<1>12. CASE BeginCapture
  BY <1>12 DEF BeginCapture, Proceeds
<1>13. CASE Stop
  BY <1>13 DEF Stop
<1>14. CASE StopTcpdump
  BY <1>14 DEF StopTcpdump, Proceeds
<1>15. CASE Collect
  BY <1>15 DEF Collect, Proceeds
<1>16. CASE CollectRaises
  BY <1>16 DEF CollectRaises, Unwinds, Error
<1>17. CASE UndoRules
  BY <1>17 DEF UndoRules, TeardownOf, Proceeds
<1>18. CASE FinishStop
  BY <1>18 DEF FinishStop, TeardownOf, Proceeds
<1>19. CASE FailStop
  BY <1>19 DEF FailStop, Leaves, TeardownOf
<1>20. CASE Teardown
  BY <1>20 DEF Teardown, TeardownOf
<1>21. CASE Catch
  BY <1>21 DEF Catch
<1>22. CASE Exit
  BY <1>22 DEF Exit
<1>23. CASE ExitTeardown
  BY <1>23 DEF ExitTeardown, TeardownOf, Proceeds
<1>24. CASE InterruptStart
  BY <1>24 DEF InterruptStart, Leaves, Ctrl_C
<1>25. CASE InterruptStop
  BY <1>25 DEF InterruptStop, Leaves, Unwinds, Ctrl_C
<1>26. CASE InterruptExit
  BY <1>26 DEF InterruptExit, Ctrl_C
<1>27. CASE UNCHANGED vars
  BY <1>27 DEF vars
<1> QED
  BY <1>1, <1>2, <1>3, <1>4, <1>5, <1>6, <1>7, <1>8, <1>9, <1>10, <1>11, <1>12,
     <1>13, <1>14, <1>15, <1>16, <1>17, <1>18, <1>19, <1>20, <1>21, <1>22, <1>23,
     <1>24, <1>25, <1>26, <1>27 DEF Next

(* A result without UIDs says WHOLE_DEVICE and carries the warning (api.py  *)
(* 11-14), however often the session is used and whatever goes wrong.      *)
THEOREM UnscopedIsFlagged == Spec => []WholeDeviceFlagged
<1>1. Init => FlagInv
  BY DEF Init, FlagInv, WholeDeviceFlagged, Built, Mishaps, NoImpl, NoResult, InStart, InStop
<1>2. TypeOK /\ FlagInv /\ [Next]_vars => FlagInv'
  BY FlagInvStep
<1>3. FlagInv => WholeDeviceFlagged
  BY DEF FlagInv
<1> QED
  BY <1>1, <1>2, <1>3, TypeCorrect, PTL DEF Spec

------------------------------------------------------------------------------
(* Where the rules can be up when nothing has gone wrong so far. *)
RulesInv ==
  /\ NoRulesAfterOneMishap
  /\ pc \in InStart => ~started /\ ~exiting
  /\ pc \in InStart /\ env.caller = "capture" => result = NoResult
  /\ env.caller = "capture" => ~exiting /\ pc # "exit"
  /\ pc = "raised" => raised # "none"
  /\ raised # "none" => Mishaps >= 1
  /\ pc \in {"install", "undo"} => impl.tier = "NFLOG"
  /\ Mishaps = 0 /\ rules =>
       /\ impl.tier = "NFLOG"
       /\ pc \in {"launch", "begin"} \/ (started /\ pc \in {"body", "halt", "collect", "undo"})

LEMMA RulesInvStep ==
  ASSUME TypeOK, RulesInv, [Next]_vars
  PROVE  RulesInv'
<1> USE DEF RulesInv, NoRulesAfterOneMishap, Mishaps, NoResult,
            Goto, control, scope, target, counts, InStart, InStop, TypeOK
<1>1. CASE Start
  BY <1>1 DEF Start
<1>2. CASE ResolveUids
  BY <1>2 DEF ResolveUids, Proceeds
<1>3. CASE ChooseTier
  BY <1>3 DEF ChooseTier, Proceeds
<1>4. CASE NoteAndroidVersion
  BY <1>4 DEF NoteAndroidVersion, Proceeds
<1>5. CASE BuildImpl
  BY <1>5 DEF BuildImpl, Proceeds
<1>6. CASE NoTcpdump
  BY <1>6 DEF NoTcpdump, Leaves, Error
<1>7. CASE InstallRules
  BY <1>7 DEF InstallRules, Proceeds
<1>8. CASE InstallRaises
  BY <1>8 DEF InstallRaises, Leaves, Error
<1>9. CASE LaunchTcpdump
  BY <1>9 DEF LaunchTcpdump, Proceeds
<1>10. CASE StartThread
  BY <1>10 DEF StartThread, Proceeds
<1>11. CASE LaunchRaises
  BY <1>11 DEF LaunchRaises, Leaves, Error
<1>12. CASE BeginCapture
  BY <1>12 DEF BeginCapture, Proceeds
<1>13. CASE Stop
  BY <1>13 DEF Stop
<1>14. CASE StopTcpdump
  BY <1>14 DEF StopTcpdump, Proceeds
<1>15. CASE Collect
  BY <1>15 DEF Collect, Proceeds
<1>16. CASE CollectRaises
  BY <1>16 DEF CollectRaises, Unwinds, Error
<1>17. CASE UndoRules
  BY <1>17 DEF UndoRules, TeardownOf, Proceeds
<1>18. CASE FinishStop
  BY <1>18 DEF FinishStop, TeardownOf, Proceeds
<1>19. CASE FailStop
  BY <1>19 DEF FailStop, Leaves, TeardownOf
<1>20. CASE Teardown
  BY <1>20 DEF Teardown, TeardownOf
<1>21. CASE Catch
  BY <1>21 DEF Catch
<1>22. CASE Exit
  BY <1>22 DEF Exit
<1>23. CASE ExitTeardown
  BY <1>23 DEF ExitTeardown, TeardownOf, Proceeds
<1>24. CASE InterruptStart
  BY <1>24 DEF InterruptStart, Leaves, Ctrl_C
<1>25. CASE InterruptStop
  BY <1>25 DEF InterruptStop, Leaves, Unwinds, Ctrl_C
<1>26. CASE InterruptExit
  BY <1>26 DEF InterruptExit, Ctrl_C
<1>27. CASE UNCHANGED vars
  BY <1>27 DEF vars
<1> QED
  BY <1>1, <1>2, <1>3, <1>4, <1>5, <1>6, <1>7, <1>8, <1>9, <1>10, <1>11, <1>12,
     <1>13, <1>14, <1>15, <1>16, <1>17, <1>18, <1>19, <1>20, <1>21, <1>22, <1>23,
     <1>24, <1>25, <1>26, <1>27 DEF Next

(* One exception or one Ctrl-C leaves no chain behind (the finally clause  *)
(* of stop() and __exit__ see to it), except out of a capture() whose      *)
(* start() raised, and of a session whose tier object was replaced by one  *)
(* of Tier 1.                                                              *)
THEOREM OneMishapLeavesNoRules == Spec => []NoRulesAfterOneMishap
<1>1. Init => RulesInv
  BY DEF Init, RulesInv, NoRulesAfterOneMishap, Mishaps, NoImpl, NoResult, InStart, InStop
<1>2. TypeOK /\ RulesInv /\ [Next]_vars => RulesInv'
  BY RulesInvStep
<1>3. RulesInv => NoRulesAfterOneMishap
  BY DEF RulesInv
<1> QED
  BY <1>1, <1>2, <1>3, TypeCorrect, PTL DEF Spec

------------------------------------------------------------------------------
(* Where a capture's tcpdump can be running that the last signal reached   *)
(* or that none was sent to.                                               *)
ReadersInv ==
  /\ CapturesAreStopped
  /\ pc \in InStop => started
  /\ impl.id <= built /\ \A id \in captured : id <= built
  /\ pc \in InStart => ~started
  /\ pc \in {"install", "launch", "thread", "begin"} => impl.id \notin captured
  /\ pc \in {"thread", "begin"} \/ started => impl.proc
  /\ readers \cap captured \subseteq {impl.id} \cup lost
  /\ \/ readers \cap captured \subseteq lost
     \/ started /\ pc \in {"body", "raised", "halt"}
     \/ raised = "interrupt" /\ pc \in {"finally", "ended"}

LEMMA ReadersInvStep ==
  ASSUME TypeOK, ReadersInv, [Next]_vars
  PROVE  ReadersInv'
<1> USE DEF ReadersInv, CapturesAreStopped,
            Goto, control, scope, target, counts, InStart, InStop, TypeOK
<1>1. CASE Start
  BY <1>1 DEF Start
<1>2. CASE ResolveUids
  BY <1>2 DEF ResolveUids, Proceeds
<1>3. CASE ChooseTier
  BY <1>3 DEF ChooseTier, Proceeds
<1>4. CASE NoteAndroidVersion
  BY <1>4 DEF NoteAndroidVersion, Proceeds
<1>5. CASE BuildImpl
  BY <1>5 DEF BuildImpl, Proceeds
<1>6. CASE NoTcpdump
  BY <1>6 DEF NoTcpdump, Leaves, Error
<1>7. CASE InstallRules
  BY <1>7 DEF InstallRules, Proceeds
<1>8. CASE InstallRaises
  BY <1>8 DEF InstallRaises, Leaves, Error
<1>9. CASE LaunchTcpdump
  BY <1>9 DEF LaunchTcpdump, Proceeds
<1>10. CASE StartThread
  BY <1>10 DEF StartThread, Proceeds
<1>11. CASE LaunchRaises
  BY <1>11 DEF LaunchRaises, Leaves, Error
<1>12. CASE BeginCapture
  BY <1>12 DEF BeginCapture, Proceeds
<1>13. CASE Stop
  BY <1>13 DEF Stop
<1>14. CASE StopTcpdump
  BY <1>14 DEF StopTcpdump, Proceeds
<1>15. CASE Collect
  BY <1>15 DEF Collect, Proceeds
<1>16. CASE CollectRaises
  BY <1>16 DEF CollectRaises, Unwinds, Error
<1>17. CASE UndoRules
  BY <1>17 DEF UndoRules, TeardownOf, Proceeds
<1>18. CASE FinishStop
  BY <1>18 DEF FinishStop, TeardownOf, Proceeds
<1>19. CASE FailStop
  BY <1>19 DEF FailStop, Leaves, TeardownOf
<1>20. CASE Teardown
  BY <1>20 DEF Teardown, TeardownOf
<1>21. CASE Catch
  BY <1>21 DEF Catch
<1>22. CASE Exit
  BY <1>22 DEF Exit
<1>23. CASE ExitTeardown
  BY <1>23 DEF ExitTeardown, TeardownOf, Proceeds
<1>24. CASE InterruptStart
  BY <1>24 DEF InterruptStart, Leaves, Ctrl_C
<1>25. CASE InterruptStop
  BY <1>25 DEF InterruptStop, Leaves, Unwinds, Ctrl_C
<1>26. CASE InterruptExit
  BY <1>26 DEF InterruptExit, Ctrl_C
<1>27. CASE UNCHANGED vars
  BY <1>27 DEF vars
<1> QED
  BY <1>1, <1>2, <1>3, <1>4, <1>5, <1>6, <1>7, <1>8, <1>9, <1>10, <1>11, <1>12,
     <1>13, <1>14, <1>15, <1>16, <1>17, <1>18, <1>19, <1>20, <1>21, <1>22, <1>23,
     <1>24, <1>25, <1>26, <1>27 DEF Next

(* The tcpdump of a capture that had begun outlives the session only if    *)
(* the last signal to it failed or a Ctrl-C cut short the last call.       *)
THEOREM CapturesEndWithSession == Spec => []CapturesAreStopped
<1>1. Init => ReadersInv
  BY DEF Init, ReadersInv, CapturesAreStopped, Mishaps, NoImpl, NoResult, InStart, InStop
<1>2. TypeOK /\ ReadersInv /\ [Next]_vars => ReadersInv'
  BY ReadersInvStep
<1>3. ReadersInv => CapturesAreStopped
  BY DEF ReadersInv
<1> QED
  BY <1>1, <1>2, <1>3, TypeCorrect, PTL DEF Spec

------------------------------------------------------------------------------
(* What the refinement needs besides FlagInv: a capture does not begin     *)
(* while one runs, and Tier 2 never without UIDs.                          *)
ScopeInv ==
  /\ pc \in InStart => ~started
  /\ pc \in {"note", "tcpdump"} /\ chosen = "NFLOG" => uids # {}
  /\ Built /\ impl.tier = "NFLOG" => impl.uids # {}

LEMMA ScopeInvStep ==
  ASSUME TypeOK, ScopeInv, FlagInv, [Next]_vars
  PROVE  ScopeInv'
<1> USE DEF ScopeInv, FlagInv, Built, Goto, control, scope, target, counts, InStart, InStop, TypeOK
<1>1. CASE Start
  BY <1>1 DEF Start
<1>2. CASE ResolveUids
  BY <1>2 DEF ResolveUids, Proceeds
<1>3. CASE ChooseTier
  BY <1>3 DEF ChooseTier, Proceeds
<1>4. CASE NoteAndroidVersion
  BY <1>4 DEF NoteAndroidVersion, Proceeds
<1>5. CASE BuildImpl
  BY <1>5 DEF BuildImpl, Proceeds
<1>6. CASE NoTcpdump
  BY <1>6 DEF NoTcpdump, Leaves, Error
<1>7. CASE InstallRules
  BY <1>7 DEF InstallRules, Proceeds
<1>8. CASE InstallRaises
  BY <1>8 DEF InstallRaises, Leaves, Error
<1>9. CASE LaunchTcpdump
  BY <1>9 DEF LaunchTcpdump, Proceeds
<1>10. CASE StartThread
  BY <1>10 DEF StartThread, Proceeds
<1>11. CASE LaunchRaises
  BY <1>11 DEF LaunchRaises, Leaves, Error
<1>12. CASE BeginCapture
  BY <1>12 DEF BeginCapture, Proceeds
<1>13. CASE Stop
  BY <1>13 DEF Stop
<1>14. CASE StopTcpdump
  BY <1>14 DEF StopTcpdump, Proceeds
<1>15. CASE Collect
  BY <1>15 DEF Collect, Proceeds
<1>16. CASE CollectRaises
  BY <1>16 DEF CollectRaises, Unwinds, Error
<1>17. CASE UndoRules
  BY <1>17 DEF UndoRules, TeardownOf, Proceeds
<1>18. CASE FinishStop
  BY <1>18 DEF FinishStop, TeardownOf, Proceeds
<1>19. CASE FailStop
  BY <1>19 DEF FailStop, Leaves, TeardownOf
<1>20. CASE Teardown
  BY <1>20 DEF Teardown, TeardownOf
<1>21. CASE Catch
  BY <1>21 DEF Catch
<1>22. CASE Exit
  BY <1>22 DEF Exit
<1>23. CASE ExitTeardown
  BY <1>23 DEF ExitTeardown, TeardownOf, Proceeds
<1>24. CASE InterruptStart
  BY <1>24 DEF InterruptStart, Leaves, Ctrl_C
<1>25. CASE InterruptStop
  BY <1>25 DEF InterruptStop, Leaves, Unwinds, Ctrl_C
<1>26. CASE InterruptExit
  BY <1>26 DEF InterruptExit, Ctrl_C
<1>27. CASE UNCHANGED vars
  BY <1>27 DEF vars
<1> QED
  BY <1>1, <1>2, <1>3, <1>4, <1>5, <1>6, <1>7, <1>8, <1>9, <1>10, <1>11, <1>12,
     <1>13, <1>14, <1>15, <1>16, <1>17, <1>18, <1>19, <1>20, <1>21, <1>22, <1>23,
     <1>24, <1>25, <1>26, <1>27 DEF Next

(* A step that leaves the capture and the report alone changes nothing for *)
(* the caller, unless it ends the session.                                 *)
LEMMA QuietStep ==
  ASSUME pc # "ended", started' = started, result' = result, started => impl' = impl
  PROVE  [Promise!Next]_Promise!vars
<1>1. CASE pc' = "ended"
  <2>1. Promise!End
    BY <1>1 DEF Promise!End, Promise!NoScope, Begun
  <2> QED
    BY <2>1 DEF Promise!Next
<1>2. CASE pc' # "ended"
  BY <1>2 DEF Promise!vars, Begun
<1> QED
  BY <1>1, <1>2

LEMMA BeginStep ==
  ASSUME TypeOK, ScopeInv, FlagInv, BeginCapture
  PROVE  Promise!Begin
<1>1. pc = "begin" /\ ~started /\ started' /\ pc' = "body" /\ impl' = impl /\ result' = result
  BY DEF BeginCapture, Proceeds, Goto, ScopeInv, InStart
<1>2. impl.tier \in {"NFLOG", "SOCKDIAG"} /\ impl.uids \in SUBSET Uids
  BY DEF TypeOK
<1>3. impl.uids = {} => impl.tier = "SOCKDIAG"
  BY <1>1, <1>2 DEF ScopeInv, FlagInv, Built
<1> QED
  BY <1>1, <1>2, <1>3 DEF Promise!Begin, Begun

(* By FlagInv, a tier object without UIDs comes with the flag.             *)
LEMMA ReportStep ==
  ASSUME TypeOK, FlagInv, FinishStop
  PROVE  Promise!Report
<1>1. pc = "finally" /\ started /\ ~started' /\ pc' \in {"body", "ended"}
  BY DEF FinishStop, Proceeds, Goto, FlagInv, InStop, TypeOK
<1>2. result' = [tier |-> IF whole_device THEN "WHOLE_DEVICE" ELSE impl.tier,
                 uids |-> impl.uids, warnings |-> warnings]
  BY DEF FinishStop
<1>3. /\ impl.uids = {} => whole_device
      /\ whole_device => "whole_device" \in warnings
      /\ warnings \in SUBSET Warnings /\ whole_device \in BOOLEAN
      /\ impl.tier # "WHOLE_DEVICE"
  BY <1>1 DEF FlagInv, Built, TypeOK
<1> DEFINE s == [tier |-> impl.tier, uids |-> impl.uids]
<1>4. result' \in Promise!Reports(s)
  BY <1>2, <1>3 DEF Promise!Reports, Promise!Flagged, Promise!Warnings, Warnings
<1> QED
  BY <1>1, <1>4 DEF Promise!Report, Promise!NoScope, Begun

(* The abstract step of each step of the session.                          *)
LEMMA PromiseStep ==
  ASSUME TypeOK, ScopeInv, FlagInv, [Next]_vars
  PROVE  [Promise!Next]_Promise!vars
<1> USE DEF Goto, scope, control, target, counts, InStart, InStop
<1>1. CASE Start
  BY <1>1, QuietStep DEF Start
<1>2. CASE ResolveUids
  BY <1>2, QuietStep DEF ResolveUids
<1>3. CASE ChooseTier
  BY <1>3, QuietStep DEF ChooseTier
<1>4. CASE NoteAndroidVersion
  BY <1>4, QuietStep DEF NoteAndroidVersion
<1>5. CASE BuildImpl
  BY <1>5, QuietStep DEF BuildImpl, ScopeInv
<1>6. CASE NoTcpdump
  BY <1>6, QuietStep DEF NoTcpdump
<1>7. CASE InstallRules
  BY <1>7, QuietStep DEF InstallRules
<1>8. CASE InstallRaises
  BY <1>8, QuietStep DEF InstallRaises
<1>9. CASE LaunchTcpdump
  BY <1>9, QuietStep DEF LaunchTcpdump, ScopeInv
<1>10. CASE StartThread
  BY <1>10, QuietStep DEF StartThread
<1>11. CASE LaunchRaises
  BY <1>11, QuietStep DEF LaunchRaises
<1>12. CASE BeginCapture
  BY <1>12, BeginStep DEF Promise!Next
<1>13. CASE Stop
  BY <1>13, QuietStep DEF Stop
<1>14. CASE StopTcpdump
  BY <1>14, QuietStep DEF StopTcpdump
<1>15. CASE Collect
  BY <1>15, QuietStep DEF Collect
<1>16. CASE CollectRaises
  BY <1>16, QuietStep DEF CollectRaises
<1>17. CASE UndoRules
  BY <1>17, QuietStep DEF UndoRules
<1>18. CASE FinishStop
  BY <1>18, ReportStep DEF Promise!Next
<1>19. CASE FailStop
  BY <1>19, QuietStep DEF FailStop
<1>20. CASE Teardown
  BY <1>20, QuietStep DEF Teardown
<1>21. CASE Catch
  BY <1>21, QuietStep DEF Catch
<1>22. CASE Exit
  BY <1>22, QuietStep DEF Exit
<1>23. CASE ExitTeardown
  BY <1>23, QuietStep DEF ExitTeardown
<1>24. CASE InterruptStart
  BY <1>24, QuietStep DEF InterruptStart
<1>25. CASE InterruptStop
  BY <1>25, QuietStep DEF InterruptStop
<1>26. CASE InterruptExit
  BY <1>26, QuietStep DEF InterruptExit
<1>27. CASE UNCHANGED vars
  BY <1>27 DEF vars, Promise!vars, Begun
<1> QED
  BY <1>1, <1>2, <1>3, <1>4, <1>5, <1>6, <1>7, <1>8, <1>9, <1>10, <1>11, <1>12,
     <1>13, <1>14, <1>15, <1>16, <1>17, <1>18, <1>19, <1>20, <1>21, <1>22, <1>23,
     <1>24, <1>25, <1>26, <1>27 DEF Next

(* The session implements what its caller is promised: every capture keeps *)
(* its scope, and is reported once, with its flag, or ends the session.    *)
THEOREM SessionImplementsAppCapture == Spec => ImplementsAppCapture
<1>1. Init => FlagInv /\ ScopeInv
  BY DEF Init, FlagInv, ScopeInv, WholeDeviceFlagged, Built, NoImpl, NoResult, InStart, InStop
<1>2. TypeOK /\ FlagInv /\ ScopeInv /\ [Next]_vars => FlagInv' /\ ScopeInv'
  BY FlagInvStep, ScopeInvStep
<1>3. Init => Promise!Init
  BY DEF Init, Promise!Init, Promise!NoScope, Promise!NoReport, NoResult, Begun
<1>4. TypeOK /\ FlagInv /\ ScopeInv /\ [Next]_vars => [Promise!Next]_Promise!vars
  BY PromiseStep
<1> QED
  BY <1>1, <1>2, <1>3, <1>4, TypeCorrect, PTL DEF Spec, ImplementsAppCapture, Promise!Spec
==============================================================================
