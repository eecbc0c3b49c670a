------------------------------ MODULE Netfilter ------------------------------
(***************************************************************************)
(* The mangle table of one address family as iptables keeps it, the two    *)
(* scripts src/apptap/netfilter.py writes for it, and what a packet meets  *)
(* on its way through it.                                                  *)
(*                                                                         *)
(* A table is a function from the chains that exist to their rules.  A     *)
(* command is what one argv list of the source asks iptables to do; a      *)
(* command iptables refuses changes nothing and returns a non-zero code    *)
(* (which AppTap never looks at).                                          *)
(***************************************************************************)
EXTENDS Integers, SequencesExt

CONSTANT Uids            \* the UIDs applications of the device run under
ASSUME UidsAssumption == Uids \subseteq Nat

NoUid == -1              \* the uid field of a rule with no owner match

CHAIN_MARK == "APPTAP_MARK"
CHAIN_LOG  == "APPTAP_LOG"
AppTapChains == {CHAIN_MARK, CHAIN_LOG}
Hooks == {"OUTPUT", "PREROUTING"}

------------------------------------------------------------------------------
(* Rules.  "device" is any rule of netd or another program.                *)

Jump(chain)   == [target |-> chain,          uid |-> NoUid]
SetXmark(uid) == [target |-> "set-xmark",    uid |-> uid]
RestoreMark   == [target |-> "restore-mark", uid |-> NoUid]
Nflog         == [target |-> "NFLOG",        uid |-> NoUid]
DeviceRule    == [target |-> "device",       uid |-> NoUid]

(* The rules there can be when only the given UIDs are ever marked. *)
Rules(uids) == {RestoreMark, Nflog, DeviceRule}
                 \cup {Jump(c) : c \in AppTapChains} \cup {SetXmark(u) : u \in uids}

(* What each chain's rules do. *)
TargetsOf ==
  [OUTPUT      |-> AppTapChains \cup {"device"},
   PREROUTING  |-> {CHAIN_LOG},
   APPTAP_MARK |-> {"set-xmark"},
   APPTAP_LOG  |-> {"restore-mark", "NFLOG"}]

RulesOf(chain, uids) == {rule \in Rules(uids) : rule.target \in TargetsOf[chain]}

EmptyTable == [hook \in Hooks |-> <<>>]

IsTable(table, uids) ==
  /\ Hooks \subseteq DOMAIN table /\ DOMAIN table \subseteq Hooks \cup AppTapChains
  /\ table = [chain \in DOMAIN table |-> table[chain]]
  /\ \A chain \in DOMAIN table : table[chain] \in Seq(RulesOf(chain, uids))

------------------------------------------------------------------------------
(* Commands and the two scripts.  PerUid stands for the loop over the      *)
(* UIDs: it runs AppendRule(CHAIN_MARK, SetXmark(uid)) for each of them.   *)

NewChain(chain)            == [op |-> "-N", chain |-> chain]
AppendRule(chain, rule)    == [op |-> "-A", chain |-> chain, rule |-> rule]
InsertRule(hook, pos, rule) == [op |-> "-I", chain |-> hook, pos |-> pos, rule |-> rule]
DeleteRule(hook, rule)     == [op |-> "-D", chain |-> hook, rule |-> rule]
FlushChain(chain)          == [op |-> "-F", chain |-> chain]
DeleteChain(chain)         == [op |-> "-X", chain |-> chain]
PerUid                     == [op |-> "for uid in uids"]

(* Mutant: CHAIN_LOG logs before it restores the mark. *)
build_setup_log_first ==
  << NewChain(CHAIN_MARK), NewChain(CHAIN_LOG),
     PerUid,
     AppendRule(CHAIN_LOG, Nflog), AppendRule(CHAIN_LOG, RestoreMark),
     InsertRule("OUTPUT", 1, Jump(CHAIN_MARK)),
     InsertRule("OUTPUT", 2, Jump(CHAIN_LOG)),
     InsertRule("PREROUTING", 1, Jump(CHAIN_LOG)) >>

build_setup ==
  << NewChain(CHAIN_MARK), NewChain(CHAIN_LOG),
     PerUid,
     AppendRule(CHAIN_LOG, RestoreMark), AppendRule(CHAIN_LOG, Nflog),
     InsertRule("OUTPUT", 1, Jump(CHAIN_MARK)),
     InsertRule("OUTPUT", 2, Jump(CHAIN_LOG)),
     InsertRule("PREROUTING", 1, Jump(CHAIN_LOG)) >>

DeleteJumps ==
  << DeleteRule("PREROUTING", Jump(CHAIN_LOG)),
     DeleteRule("OUTPUT", Jump(CHAIN_LOG)), DeleteRule("OUTPUT", Jump(CHAIN_MARK)) >>

(* Mutants: one pass of -D only; each -X before its -F. *)
build_teardown_one_pass ==
  DeleteJumps
    \o << FlushChain(CHAIN_MARK), FlushChain(CHAIN_LOG),
          DeleteChain(CHAIN_MARK), DeleteChain(CHAIN_LOG) >>

build_teardown_flush_last ==
  DeleteJumps \o DeleteJumps
    \o << DeleteChain(CHAIN_MARK), DeleteChain(CHAIN_LOG),
          FlushChain(CHAIN_MARK), FlushChain(CHAIN_LOG) >>

build_teardown ==
  DeleteJumps \o DeleteJumps
    \o << FlushChain(CHAIN_MARK), FlushChain(CHAIN_LOG),
          DeleteChain(CHAIN_MARK), DeleteChain(CHAIN_LOG) >>

(* The commands that the two scripts consist of for the given UIDs. *)
Commands(uids) ==
  ({build_setup[i] : i \in DOMAIN build_setup} \ {PerUid})
    \cup {build_teardown[i] : i \in DOMAIN build_teardown}
    \cup {AppendRule(CHAIN_MARK, SetXmark(u)) : u \in uids}

------------------------------------------------------------------------------
(* iptables (the external program): when it accepts a command and what the *)
(* table is afterwards.                                                    *)

References(table, chain) ==
  \E c \in DOMAIN table : \E i \in DOMAIN table[c] : table[c][i].target = chain

TargetExists(table, rule) == rule.target \in AppTapChains => rule.target \in DOMAIN table

Accepts(table, cmd) ==
  CASE cmd.op = "-N" -> cmd.chain \notin DOMAIN table
    [] cmd.op = "-A" -> cmd.chain \in DOMAIN table /\ TargetExists(table, cmd.rule)
    [] cmd.op = "-I" -> cmd.pos <= Len(table[cmd.chain]) + 1 /\ TargetExists(table, cmd.rule)
    [] cmd.op = "-D" -> cmd.rule \in ToSet(table[cmd.chain])
    [] cmd.op = "-F" -> cmd.chain \in DOMAIN table
    [] cmd.op = "-X" -> /\ cmd.chain \in DOMAIN table
                        /\ table[cmd.chain] = <<>>
                        /\ ~References(table, cmd.chain)

Effect(table, cmd) ==
  CASE cmd.op = "-N" -> [c \in DOMAIN table \cup {cmd.chain} |->
                            IF c = cmd.chain THEN <<>> ELSE table[c]]
    [] cmd.op = "-A" -> [table EXCEPT ![cmd.chain] = Append(@, cmd.rule)]
    [] cmd.op = "-I" -> [table EXCEPT ![cmd.chain] = InsertAt(@, cmd.pos, cmd.rule)]
    [] cmd.op = "-D" -> [table EXCEPT ![cmd.chain] = RemoveFirst(@, cmd.rule)]
    [] cmd.op = "-F" -> [table EXCEPT ![cmd.chain] = <<>>]
    [] cmd.op = "-X" -> Restrict(table, DOMAIN table \ {cmd.chain})

Apply(table, cmd) == IF Accepts(table, cmd) THEN Effect(table, cmd) ELSE table

(* The positions at which a chain has a rule. *)
Places(rules, rule) == {i \in DOMAIN rules : rules[i] = rule}

(* Nothing of AppTap is left: no chain, and so (a rule cannot jump to a    *)
(* chain that does not exist) no jump.                                     *)
Tidy(table) == AppTapChains \cap DOMAIN table = {}

------------------------------------------------------------------------------
(* A packet at a hook visits the rules of the chains the hook jumps to, in *)
(* order: <<i, j>> is rule j of the chain that rule i of the hook names.   *)

Visited(table, hook) ==
  UNION {{i} \X DOMAIN table[table[hook][i].target] :
           i \in {k \in DOMAIN table[hook] : table[hook][k].target \in DOMAIN table}}

RuleAt(table, hook, p) == table[table[hook][p[1]].target][p[2]]

Precedes(p, q) == p[1] < q[1] \/ (p[1] = q[1] /\ p[2] < q[2])

(* Mutant: the marking rule has no owner match. *)
StampsOfAnyone(table, hook, uid) ==
  {p \in Visited(table, hook) : RuleAt(table, hook, p).target = "set-xmark"}

(* The positions at which a packet of owner uid gets its connection        *)
(* marked.  Only OUTPUT packets have an owner, and only CHAIN_MARK, which  *)
(* only OUTPUT jumps to, has owner rules.                                  *)
Stamps(table, hook, uid) ==
  {p \in Visited(table, hook) : RuleAt(table, hook, p) = SetXmark(uid)}

(* Mutant: the NFLOG rule has no mark match. *)
CopiesOfAnything(table, hook, uid, marked) ==
  Cardinality({p \in Visited(table, hook) : RuleAt(table, hook, p) = Nflog})

(* How often the packet is logged: an NFLOG rule logs it when an earlier   *)
(* restore-mark found the connection marked, by an earlier packet (marked) *)
(* or by this one.  A connection is never unmarked, so which of several    *)
(* restores comes last makes no difference.                                *)
Copies(table, hook, uid, marked) ==
  Cardinality({p \in Visited(table, hook) :
    /\ RuleAt(table, hook, p) = Nflog
    /\ \E q \in Visited(table, hook) :
         /\ RuleAt(table, hook, q) = RestoreMark
         /\ Precedes(q, p)
         /\ marked \/ \E s \in Stamps(table, hook, uid) : Precedes(s, q)})
==============================================================================
