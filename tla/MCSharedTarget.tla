--------------------------- MODULE MCSharedTarget ---------------------------
(* A kernel with everything, the common one without the delivery module,   *)
(* and one without CONNMARK; targets that are rooted in one way or not.    *)
EXTENDS SharedTarget, TLC

Has(missing) ==
  [f \in Features \cup {"nfnetlink_log"} |-> f \notin missing]

SomeKernels == {Has({}), Has({"nfnetlink_log"}), Has({"connmark"})}

SomeWays == [x \in Executors |-> IF x = "adb" THEN {{"su0"}, {}} ELSE {{"root"}, {"sudo"}}]

Alike == Permutations(Sessions)
==============================================================================
