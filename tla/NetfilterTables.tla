---------------------------- MODULE NetfilterTables ----------------------------
(***************************************************************************)
(* What the two scripts of Netfilter make of a table that nobody else      *)
(* touches in the meantime, line by line: what the proofs about NflogTier  *)
(* say of the tables, and TLC checks with it.                              *)
(***************************************************************************)
EXTENDS Netfilter

(* The three jumps of a table.  Line j, and again line 3 + j, of the       *)
(* teardown script deletes jump j; line 9 - j of the setup inserts it.     *)
JumpHook  == <<"PREROUTING", "OUTPUT", "OUTPUT">>
JumpChain == <<CHAIN_LOG, CHAIN_LOG, CHAIN_MARK>>
JumpOf(j) == Jump(JumpChain[j])
JumpLines == 1..3

(* The two chains.  Line c of the setup creates chain c; line 6 + c of the *)
(* teardown flushes it, line 8 + c deletes it.                             *)
ChainAt == <<CHAIN_MARK, CHAIN_LOG>>
ChainLines == 1..2

(* The first n lines of a teardown that found at most two copies of each   *)
(* jump, or more of them, have run.                                        *)
CopiesLeft(j, n) == IF n < j THEN 2 ELSE IF n < j + 3 THEN 1 ELSE 0

Cleared(t, n) ==
  /\ \A j \in JumpLines :
       Cardinality(Places(t[JumpHook[j]], JumpOf(j))) <= CopiesLeft(j, n)
  /\ \A c \in ChainLines :
       ChainAt[c] \in DOMAIN t => n < 8 + c /\ (n >= 6 + c => t[ChainAt[c]] = <<>>)

(* The first n lines of a setup on a table that was clear have run, the    *)
(* loop of line 3 for the UIDs us.  Other programs' rules come after.      *)
ChainsBuilt(n) == {ChainAt[c] : c \in {c \in ChainLines : c <= n}}

LogBuilt(n) ==
  IF n <= 3 THEN <<>> ELSE IF n = 4 THEN <<RestoreMark>> ELSE <<RestoreMark, Nflog>>

OutputBuilt(n) ==
  IF n <= 5 THEN <<>>
  ELSE IF n = 6 THEN <<Jump(CHAIN_MARK)>>
  ELSE <<Jump(CHAIN_MARK), Jump(CHAIN_LOG)>>

Built(t, n, us) ==
  /\ DOMAIN t = Hooks \cup ChainsBuilt(n)
  /\ n >= 1 => /\ t[CHAIN_MARK] \in Seq({SetXmark(u) : u \in us})
               /\ \A u \in us : SetXmark(u) \in ToSet(t[CHAIN_MARK])
  /\ n >= 2 => t[CHAIN_LOG] = LogBuilt(n)
  /\ Len(t["OUTPUT"]) >= Len(OutputBuilt(n))
  /\ \A i \in DOMAIN t["OUTPUT"] :
       t["OUTPUT"][i] = IF i <= Len(OutputBuilt(n)) THEN OutputBuilt(n)[i] ELSE DeviceRule
  /\ t["PREROUTING"] = IF n = 8 THEN <<Jump(CHAIN_LOG)>> ELSE <<>>
==============================================================================
