---------------------------- MODULE MCPushQueue ----------------------------
(* Small instances of PushQueue for TLC: each Budget is one question. *)
EXTENDS PushQueue, TLC

CONSTANTS o1, o2, o3, o4, p1, p2

\* o1 and o2 write the same path, o3 is the attach and o4 a merge of another.
MergeAndPush == [o \in Ops |-> IF o = o1 THEN "merge" ELSE "push"]
AllKinds == [o \in Ops |-> CASE o = o3 -> "attach" [] o = o4 -> "merge" [] OTHER -> "push"]
MCPath == [o \in Ops |-> IF o \in {o1, o2} THEN p1 ELSE p2]

NoBudget == [k \in BudgetKeys |-> 0]
\* A conflict, a CL race, a lost session, a freeze and a bypass.
FaultBudget == [NoBudget EXCEPT !.enqueue = 2, !.conflict = 1, !.race = 1,
                                !.loss = 1, !.freeze = 1, !.bypass = 1]
\* The control plane at the depth limit.
ControlBudget == [NoBudget EXCEPT !.enqueue = 3, !.pause = 1,
                                  !.cancel = 1, !.conflict = 1]
\* Progress through a conflict, a CL race and a freeze.
LivenessBudget == [NoBudget EXCEPT !.enqueue = 2, !.conflict = 1, !.race = 1, !.freeze = 1]

MCSymmetry == Permutations(Clients)
=============================================================================
