---------------------------- MODULE BlobPathIndex ----------------------------
(***************************************************************************)
(* The blob_paths index (blob_path_index.rs): which (blob, path) pairs     *)
(* appear on main.  It is kept outside MONO_WRITE_LOCK, after the commit   *)
(* of a queue round (the C segment), by review pushes, and by a            *)
(* compensator in every server process that rescans the root.              *)
(*                                                                         *)
(* Each task reads a tree (immutable objects, so a snapshot), upserts its  *)
(* appearances one statement at a time, reads the rows under its prefix    *)
(* and deletes the ones it did not see.  Nothing serialises the tasks.     *)
(* mega_blob.file_path, the display fallback of a blob without a row, is   *)
(* left out.                                                               *)
(*                                                                         *)
(* An operator X_... defined just before X is a faulty version of X that   *)
(* no specification uses.                                                  *)
(***************************************************************************)
EXTENDS Naturals, Sequences, FiniteSets

CONSTANTS
  Apps,          \* appearances: (blob_id, path) pairs
  Prefixes,      \* index prefixes: mono paths that rounds and pushes write
  Root,          \* the prefix "/"
  Under,         \* Under[p]: the appearances whose path lies under p
  Trees,         \* root trees, each the set of its appearances
  Workers,       \* request tasks that run C segments and review pushes
  Compensators,  \* the compensator loops
  NoOne,
  Budget         \* bounds on landings, review pushes, switches, crashes

Tasks == Workers \cup Compensators
BudgetKeys == {"land", "review", "switch", "crash"}

ASSUME IndexAssumption ==
  /\ Root \in Prefixes
  /\ Under \in [Prefixes -> SUBSET Apps]
  /\ Under[Root] = Apps
  /\ Trees \subseteq SUBSET Apps
  /\ {} \in Trees
  /\ Workers \cap Compensators = {}
  /\ NoOne \notin Tasks
  /\ Budget \in [BudgetKeys -> Nat]

VARIABLES
  landed,   \* Done rows of push_queue: path, and the root tree they left
  rows,     \* rows of blob_paths
  mark,     \* mark[a]: indexed_push_id of a row (0 is NULL or no row)
  policy,   \* queue_control.last_policy
  task,     \* task[t]: the indexing task t is in and its local variables
  solo,     \* history: the task that began alone and has been alone since
  left      \* what is left of Budget

vars == <<landed, rows, mark, policy, task, solo, left>>

Policies == {"review", "trunk"}
TaskStates ==
  [pc : {"idle", "check", "read", "recheck", "upsert", "delete"},
   mode : {"queue", "review", "compensate"}, id : Nat, prefix : Prefixes,
   tree : SUBSET Apps, todo : SUBSET Apps]
IdleTask == [pc |-> "idle", mode |-> "queue", id |-> 0, prefix |-> Root,
             tree |-> {}, todo |-> {}]

Init ==
  /\ landed = <<>>
  /\ rows = {}
  /\ mark = [a \in Apps |-> 0]
  /\ policy = "review"
  /\ task = [t \in Tasks |-> IdleTask]
  /\ solo = NoOne
  /\ left = Budget

Spend(k) == /\ left[k] > 0
            /\ left' = [left EXCEPT ![k] = @ - 1]

\* The appearances of main@/.
tip == IF landed = <<>> THEN {} ELSE landed[Len(landed)].tree

\* Task t begins in state s.
Begin(t, s) ==
  /\ task[t].pc = "idle"
  /\ task' = [task EXCEPT ![t] = s]
  /\ solo' = IF \A u \in Tasks \ {t} : task[u].pc = "idle" THEN t ELSE NoOne

----------------------------------------------------------------------------
(* Where tasks come from.                                                  *)

\* A queue round at p commits and its executor goes on to the C segment.
Land(w, p) ==
  /\ Spend("land")
  /\ \E t \in Trees :
       /\ t \ Under[p] = tip \ Under[p]
       /\ landed' = Append(landed, [path |-> p, tree |-> t])
  /\ Begin(w, [IdleTask EXCEPT !.pc = "check", !.id = Len(landed) + 1,
                               !.prefix = p])
  /\ UNCHANGED <<rows, mark, policy>>

\* A review push indexes the tree of its own tip, which is not on main.
ReviewPush(w, p) ==
  /\ policy = "review"
  /\ Spend("review")
  /\ \E t \in Trees :
       LET s == t \cap Under[p]
       IN Begin(w, [IdleTask EXCEPT !.pc = "upsert", !.mode = "review",
                                    !.prefix = p, !.tree = s, !.todo = s])
  /\ UNCHANGED <<landed, rows, mark, policy>>

\* compensate_once: a cycle over the current root.
Compensate(k) ==
  /\ Begin(k, [IdleTask EXCEPT !.pc = "upsert", !.mode = "compensate",
                               !.tree = tip, !.todo = tip])
  /\ UNCHANGED <<landed, rows, mark, policy, left>>

----------------------------------------------------------------------------
(* The steps of a task.                                                    *)

\* same_path_has_later_done
LaterDone(p, id) == \E n \in DOMAIN landed : n > id /\ landed[n].path = p

\* Asked before main@P is read and again before the tree is walked.
CheckLater(t) ==
  LET k == task[t]
  IN /\ k.pc \in {"check", "recheck"}
     /\ \/ /\ LaterDone(k.prefix, k.id)
           /\ task' = [task EXCEPT ![t] = IdleTask]
        \/ /\ ~LaterDone(k.prefix, k.id)
           /\ task' = [task EXCEPT ![t] =
                IF k.pc = "check" THEN [k EXCEPT !.pc = "read"]
                ELSE [k EXCEPT !.pc = "upsert", !.todo = k.tree]]
     /\ UNCHANGED <<landed, rows, mark, policy, solo, left>>

\* The tree of main@P is the root's subtree at P.
MainTree_Mutant(k) ==
  IF k.id = 1 THEN {} ELSE landed[k.id - 1].tree \cap Under[k.prefix]
MainTree(k) == tip \cap Under[k.prefix]

\* There may be no such ref (an attached path is not materialized).
ReadRef(t) ==
  LET k == task[t]
  IN /\ k.pc = "read"
     /\ \/ task' = [task EXCEPT ![t] = [k EXCEPT !.pc = "recheck",
                                                  !.tree = MainTree(k)]]
        \/ task' = [task EXCEPT ![t] = IdleTask]
     /\ UNCHANGED <<landed, rows, mark, policy, solo, left>>

\* upsert_blob_path: only a queue task writes a watermark, and only a larger
\* one.
Watermark_Mutant(k, a) == IF k.mode = "queue" THEN k.id ELSE mark[a]
Watermark(k, a) ==
  IF k.mode = "queue" /\ mark[a] < k.id THEN k.id ELSE mark[a]

Upsert(t) ==
  LET k == task[t]
  IN /\ k.pc = "upsert"
     /\ \E a \in k.todo :
          /\ rows' = rows \cup {a}
          /\ mark' = [mark EXCEPT ![a] = Watermark(k, a)]
          /\ task' = [task EXCEPT ![t].todo = @ \ {a}]
     /\ UNCHANGED <<landed, policy, solo, left>>

\* reconcile_blob_paths_under_prefix: the rows to delete are chosen by one
\* read ...
Extras_Mutant(k) == {}
Extras_OutsidePrefix(k) == {a \in rows \ k.tree : k.mode = "review" => mark[a] = 0}
Extras_Isolated(k) ==
  {a \in (rows \cap Under[k.prefix]) \ k.tree : k.mode # "queue" => mark[a] = 0}
Extras(k) ==
  {a \in (rows \cap Under[k.prefix]) \ k.tree : k.mode = "review" => mark[a] = 0}

Scan(t) ==
  LET k == task[t]
  IN /\ k.pc = "upsert" /\ k.todo = {}
     /\ task' = [task EXCEPT ![t].pc = "delete", ![t].todo = Extras(k)]
     /\ UNCHANGED <<landed, rows, mark, policy, solo, left>>

\* ... and deleted one by one, whatever has become of them since.
Delete(t) ==
  LET k == task[t]
  IN /\ k.pc = "delete"
     /\ \E a \in k.todo :
          /\ rows' = rows \ {a}
          /\ mark' = [mark EXCEPT ![a] = 0]
          /\ task' = [task EXCEPT ![t].todo = @ \ {a}]
     /\ UNCHANGED <<landed, policy, solo, left>>

Finish(t) ==
  /\ task[t].pc = "delete" /\ task[t].todo = {}
  /\ task' = [task EXCEPT ![t] = IdleTask]
  /\ UNCHANGED <<landed, rows, mark, policy, solo, left>>

\* A statement fails or the process dies; what was written stays.
Crash(t) ==
  /\ task[t].pc # "idle"
  /\ Spend("crash")
  /\ task' = [task EXCEPT ![t] = IdleTask]
  /\ UNCHANGED <<landed, rows, mark, policy, solo>>

\* switch_last_policy_if_queue_empty at startup (no row is Queued or Running;
\* C segments of Done rows may still be at work).
SwitchPolicy ==
  /\ Spend("switch")
  /\ \E q \in Policies \ {policy} : policy' = q
  /\ mark' = [a \in Apps |-> 0]
  /\ UNCHANGED <<landed, rows, task, solo>>

----------------------------------------------------------------------------
Step(t) ==
  CheckLater(t) \/ ReadRef(t) \/ Upsert(t) \/ Scan(t) \/ Delete(t) \/ Finish(t)

Next ==
  \/ \E w \in Workers, p \in Prefixes : Land(w, p) \/ ReviewPush(w, p)
  \/ \E k \in Compensators : Compensate(k)
  \/ \E t \in Tasks : Step(t) \/ Crash(t)
  \/ SwitchPolicy

Spec == Init /\ [][Next]_vars

(* Fairness: a task runs on and the compensator's interval ticks.  Crashes  *)
(* are bounded by Budget.                                                   *)
FairSpec ==
  /\ Spec
  /\ \A t \in Tasks : WF_vars(Step(t))
  /\ \A k \in Compensators : WF_vars(Compensate(k))

----------------------------------------------------------------------------
(* Properties.                                                             *)

\* Type invariant: rows, watermarks and the tasks' local variables; what a task
\* collects and deletes lies under its prefix.
TypeOK ==
  /\ landed \in Seq([path : Prefixes, tree : Trees])
  /\ rows \subseteq Apps
  /\ mark \in [Apps -> Nat]
  /\ policy \in Policies
  /\ task \in [Tasks -> TaskStates]
  /\ \A t \in Tasks : task[t].tree \cup task[t].todo \subseteq Under[task[t].prefix]
  /\ solo \in Tasks \cup {NoOne}
  /\ left \in [BudgetKeys -> Nat]

\* A watermark tells the truth: the round it names wrote a prefix that covers
\* the row and the appearance was on main after that round or a later one,
\* however late the task that wrote it came.
WatermarkWitnessed ==
  \A a \in Apps : mark[a] # 0 =>
    /\ mark[a] \in DOMAIN landed
    /\ a \in Under[landed[mark[a]].path]
    /\ \E n \in DOMAIN landed : n >= mark[a] /\ a \in landed[n].tree

\* A task that was never beside another leaves its subtree exact: every
\* appearance on main has a row and no other row is left.
SoloIsExact ==
  \A t \in Tasks :
    LET k == task[t]
    IN /\ solo = t /\ k.mode # "review" /\ k.pc = "delete" /\ k.todo = {}
       => rows \cap Under[k.prefix] = tip \cap Under[k.prefix]

\* A late task never lowers the watermark of a row: only a policy switch and
\* the deletion of the row reset it.
WatermarkOnlyGrows ==
  [][\A a \in rows \cap rows' : mark'[a] >= mark[a] \/ policy' # policy]_vars

\* "a lagging task's re-insert cannot persist": once nothing lands any more
\* the index becomes the set of appearances on main and stays it.
Converges == <>[](rows = tip)

=============================================================================
