------------------------------ MODULE NflogFresh ------------------------------
(***************************************************************************)
(* Why an undisturbed capture of NflogTier logs what it promises: its heal *)
(* leaves every table clear, its setup builds on that line by line, and a  *)
(* connection that gets marked meanwhile is the app's.  The inductive      *)
(* invariant of NflogTablesProofs; TLC checks it too.                      *)
(***************************************************************************)
EXTENDS NflogTables

(* How many lines of its script host h has run for family k.  A setup that *)
(* launched without a warning has run all of them.                         *)
Finished(h) == phase[h] \in {"launch", "capturing"} /\ ~warned[h]

LinesDone(h, k) ==
  IF Finished(h) \/ fam[h] > k
  THEN IF phase[h] = "heal" THEN Len(build_teardown) ELSE Len(build_setup)
  ELSE IF fam[h] = k THEN step[h] - 1 ELSE 0

(* The UIDs whose marking rule h has appended for family k. *)
Stamped(h, k) ==
  IF Finished(h) \/ fam[h] > k THEN uids[h]
  ELSE IF fam[h] < k THEN {}
  ELSE IF step[h] <= 3 THEN uids[h] \ todo[h] ELSE uids[h]

Healing(h) ==
  /\ ~warned[h]
  /\ \A k \in FamilyLines : Cleared(table[Families[k]], LinesDone(h, k))
  /\ \A c \in Conns : conn[c].marked => conn[c].inherited

Installed(h) ==
  /\ warned[h] => phase[h] # "setup" /\ fam[h] > 1
  /\ todo[h] \subseteq uids[h]
  /\ step[h] < 3 => todo[h] = uids[h]
  /\ step[h] <= Len(build_setup)
  /\ \A k \in FamilyLines : Built(table[Families[k]], LinesDone(h, k), Stamped(h, k))
  /\ \A c \in Conns : conn[c].marked /\ ~conn[c].inherited => conn[c].owner \in uids[h]

FreshInv ==
  epoch = "clean" =>
    /\ late = {}
    /\ \A h, g \in Hosts : h # g => phase[h] \in AtRest \/ phase[g] \in AtRest
    /\ \A h \in Hosts : /\ phase[h] = "heal" => Healing(h)
                        /\ phase[h] \in Installing => Installed(h)

(* With no fault at all: no jump is there more often than there are hosts  *)
(* that have yet to delete it once, so never more often than hosts.        *)
FirstOwed(k, j) == Owed(k, j) \cap (Hosts \X {1})

JumpsHeld ==
  \A k \in FamilyLines, j \in JumpLines :
    Cardinality(JumpPlaces(k, j)) <= Cardinality(FirstOwed(k, j))

(* Whenever a host's heal begins undisturbed it can remove what it finds.  *)
HealsFindFewJumps ==
  [][\A h \in Hosts :
       phase[h] # "heal" /\ phase'[h] = "heal" /\ epoch' = "clean" => FewJumps]_vars
==============================================================================
