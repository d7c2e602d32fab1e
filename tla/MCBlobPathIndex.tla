--------------------------- MODULE MCBlobPathIndex ---------------------------
(* One blob at two paths, /f and /a/g: rounds at "/" and at "/a" are nested. *)
EXTENDS BlobPathIndex, TLC

MCApps == {"/f", "/a/g"}
MCUnder == [p \in Prefixes |-> IF p = "/" THEN MCApps ELSE {"/a/g"}]
MCTrees == SUBSET MCApps

SafetyBudget == [land |-> 2, review |-> 1, switch |-> 1, crash |-> 1]
LivenessBudget == [land |-> 2, review |-> 0, switch |-> 1, crash |-> 1]
MCSymmetry == Permutations(Workers)
=============================================================================
