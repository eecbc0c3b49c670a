----------------------------- MODULE NflogTables -----------------------------
(***************************************************************************)
(* Why the tables of NflogTier end up tidy: what each host still has to    *)
(* delete, counted against what is there.  These are the inductive         *)
(* invariants of NflogTablesProofs; TLC checks them too.                   *)
(***************************************************************************)
EXTENDS NflogTier, NetfilterTables

Cleaning == {"heal", "teardown", "cleanup"}
Running  == {"launch", "capturing", "collect"}
Left     == {"failed", "dead"}

FamilyLines == DOMAIN Families

JumpPlaces(k, j) == Places(table[Families[k]][JumpHook[j]], JumpOf(j))

(* Host h, in its script, is past this line of the run for family k. *)
Past(h, k, line) == fam[h] > k \/ (fam[h] = k /\ step[h] > line)

(* Host h has yet to run its nth deletion of jump j before it is done; in  *)
(* a setup it owes the one deletion that its insertion calls for.          *)
Owes(h, k, j, n) ==
  \/ phase[h] \in Cleaning /\ ~Past(h, k, j + 3 * (n - 1))
  \/ phase[h] = "setup" /\ n = 1 /\ Past(h, k, 9 - j)
  \/ phase[h] \in Running \cup Left

Owed(k, j) == {d \in Hosts \X {1, 2} : Owes(d[1], k, j, d[2])}

(* Host h has yet to flush chain c, or to delete it and it is empty. *)
Flushes(h, k, c) ==
  \/ phase[h] \in Cleaning /\ ~Past(h, k, 6 + c)
  \/ phase[h] = "setup" /\ Past(h, k, c)
  \/ phase[h] \in Running \cup Left

Deletes(h, k, c) == phase[h] \in Cleaning /\ ~Past(h, k, 8 + c)

Keeps(h, k, c) ==
  Flushes(h, k, c) \/ (Deletes(h, k, c) /\ table[Families[k]][ChainAt[c]] = <<>>)

(* netfilter.py:143 and :163, the two passes of deletions: no jump is      *)
(* there more often than deletions of it are still to come, and no chain   *)
(* is there that nobody will delete.                                       *)
JumpsOwed ==
  \A k \in FamilyLines, j \in JumpLines :
    Cardinality(JumpPlaces(k, j)) <= Cardinality(Owed(k, j))

ChainsKept ==
  \A k \in FamilyLines, c \in ChainLines :
    ChainAt[c] \in DOMAIN table[Families[k]] => \E h \in Hosts : Keeps(h, k, c)

OwedInv ==
  epoch # "faulty" => late = {} /\ JumpsOwed /\ ChainsKept

(* What a teardown that begins undisturbed can remove. *)
FewJumps ==
  \A k \in FamilyLines, j \in JumpLines : Cardinality(JumpPlaces(k, j)) <= 2

(* Whenever, after something went wrong, a host begins a script            *)
(* undisturbed, it finds no more than that.                                *)
ResetsFindFewJumps == [][epoch = "faulty" /\ epoch' = "clean" => FewJumps]_vars

(* For one host, whatever goes wrong: a further copy of a jump takes two   *)
(* lost commands, or one when the insertion itself is still outstanding.   *)
JumpsBounded ==
  \A k \in FamilyLines, j \in JumpLines :
    /\ Cardinality(JumpPlaces(k, j)) <= 1 + faults
    /\ 2 * Cardinality(JumpPlaces(k, j)) <= 2 + faults + MaxLate

(* Its inductive form counts the insertions that are still outstanding,    *)
(* and knows how far the host's heal has got.                              *)
LateInserts(k, j) ==
  {l \in late : l.family = Families[k] /\ l.cmd = build_setup[9 - j]}

Copied(k, j) == Cardinality(JumpPlaces(k, j)) + Cardinality(LateInserts(k, j))

BetweenDeletes(h, k, j) ==
  phase[h] = "heal" /\ Past(h, k, j) /\ ~Past(h, k, j + 3)

BeforeInsert(h, k, j) ==
  \/ phase[h] = "heal" /\ Past(h, k, j + 3)
  \/ phase[h] = "setup" /\ ~Past(h, k, 9 - j)

CopiesBounded(k, j) ==
  /\ Copied(k, j) <= 1 + faults /\ 2 * Copied(k, j) <= 2 + faults + MaxLate
  /\ \A h \in Hosts :
       /\ BetweenDeletes(h, k, j) =>
            Copied(k, j) <= faults /\ 2 * Copied(k, j) <= 1 + faults + MaxLate
       /\ BeforeInsert(h, k, j) =>
            Copied(k, j) <= faults /\ 2 * Copied(k, j) <= faults + MaxLate

CopiesInv ==
  /\ IsFiniteSet(late) /\ Cardinality(late) <= MaxLate /\ Cardinality(late) <= faults
  /\ \A k \in FamilyLines, j \in JumpLines : CopiesBounded(k, j)
==============================================================================
