---------------------------- MODULE MCTrunkRefs ----------------------------
(* Small instances of TrunkRefs for TLC: each Budget is one question. *)
EXTENDS TrunkRefs

CONSTANTS a, ab, abc, c

\* /, /a, /a/b, /a/b/c and, beside them, /c; Paths says which of them there are.
Tree == [p \in Paths |-> Paths \cap CASE p = Root -> Paths
                                      [] p = a    -> {a, ab, abc}
                                      [] p = ab   -> {ab, abc}
                                      [] OTHER    -> {p}]

NoBudget == [k \in BudgetKeys |-> 0]
\* Every writer holds the lock; materialisations overlap the landings.
QueueBudget == [NoBudget EXCEPT !.push = 1, !.merge = 1, !.attach = 1,
                                !.read = 2, !.reap = 1]
\* A mount comes and goes while its parents are read, and a writer moves the
\* root outside the queue: both ways in which rows become stale.
RepairBudget == [NoBudget EXCEPT !.push = 1, !.attach = 1, !.detach = 1, !.read = 2,
                                 !.bypass = 1]

MCSymmetry == Permutations(Writers) \cup Permutations(Readers)
=============================================================================
