------------------------------ MODULE TrunkRefs ------------------------------
(***************************************************************************)
(* The materialised `main` refs of the monorepo: table mega_refs, one row  *)
(* per path that somebody has cloned or pushed, and mega_ref_tombstones,   *)
(* the last tip of each row that was deleted.                              *)
(*                                                                         *)
(* The root tree is the only truth; the row of a path is a view of it that *)
(* clients fetch and base their pushes on.  The writers are the B3         *)
(* transactions of the queue (push, merge, and the attach and detach of an *)
(* import repository), the materialisation of an advertised path           *)
(* (materialize.rs: it walks the root tree outside the lock and inserts    *)
(* under it), the reaper and the periodic audit (mono_write_audit.rs).     *)
(* All of them write while they hold MONO_WRITE_LOCK, so each transaction  *)
(* is one action; what they read before it is a step of its own.  Bypass   *)
(* is a writer that ignores the lock, which the code does not have but     *)
(* detects and repairs.                                                    *)
(*                                                                         *)
(* A commit is known by its history, as its hash is: a tip is the sequence *)
(* of the commits from the first to itself.                                *)
(***************************************************************************)
EXTENDS Naturals, FiniteSets, SequencesExt

CONSTANTS
  Paths,        \* directories of the monorepo
  Root,         \* "/"
  ImportDir,    \* monorepo.import_dir: import repositories are mounted below it
  Under,        \* Under[p]: p and the directories below it
  Versions,     \* contents of the files directly in a directory
  Absent,       \* the directory does not exist
  Placeholder,  \* a directory that only holds .gitkeep or one child
  Writers,      \* queued operations: pushes, merges, attaches
  Readers,      \* tasks that materialise a path
  RetryLimit,   \* MATERIALIZE_RETRY_LIMIT
  AuditBatch,   \* batch_size of the audit
  Budget        \* bounds on the operations of a behaviour

BudgetKeys == {"push", "merge", "attach", "detach", "read", "reap", "bypass"}

ASSUME RefsAssumption ==
  /\ IsFiniteSet(Paths)
  /\ Root \in Paths /\ ImportDir \in Paths \ {Root}
  /\ Under \in [Paths -> SUBSET Paths]
  /\ Under[Root] = Paths
  /\ \A p \in Paths : p \in Under[p]
  /\ \A p \in Paths : \A q \in Under[p] :
       Under[q] \subseteq Under[p] /\ (p \in Under[q] => p = q)
  /\ \A p, q \in Paths : Under[p] \cap Under[q] # {} => p \in Under[q] \/ q \in Under[p]
  /\ Absent \notin Versions
  /\ Placeholder \in Versions
  /\ RetryLimit \in Nat
  /\ AuditBatch \in Nat \ {0}
  /\ Budget \in [BudgetKeys -> Nat]

VARIABLES
  row,      \* mega_refs: row[p] of refs/heads/main at p, or NoRow
  tomb,     \* mega_ref_tombstones: last tip of the deleted row, or <<>>
  op,       \* op[w]: the queued operation w and what its client has read
  walk,     \* walk[r]: the materialisation r and the root it has walked
  older,    \* older[q]: the paths whose row has a smaller id than the row of q
  mounted,  \* the paths where an import repository has been attached
  passed,   \* the rows whose id is at most the audit's cursor
  clock,    \* number of commits made so far: the next one is clock + 1
  left      \* what is left of Budget

vars == <<row, tomb, op, walk, mounted, older, passed, clock, left>>

Dirs == Paths \ {Root}
Below(p) == Under[p] \ {p}
Above(p) == {a \in Paths : p \in Under[a]} \ {p}

\* A tree of p: the content of every directory below p, and p exists.  A
\* directory only exists inside one that does.
TreesAt(p) ==
  {t \in [Under[p] -> Versions \cup {Absent}] :
     /\ t[p] # Absent
     /\ \A q \in Under[p] : t[q] # Absent => \A a \in Above(q) \cap Under[p] : t[a] # Absent}

\* The subtree at p of a tree that contains p (resolve_path_tree_hash).
Sub(t, p) == [q \in Under[p] |-> t[q]]

NoRow == [line |-> <<>>, tree |-> <<>>]
Has(p) == row[p] # NoRow
rootTree == row[Root].tree
\* The paths below the root that have a row.
Rows == {p \in Dirs : Has(p)}

\* assert_main_path_tree_hash_in_txn: main@p is not the root tree's p.
Stale_Mutant(p) == FALSE
Stale(p) == Has(p) /\ row[p].tree # Sub(rootTree, p)

IdleOp == [kind |-> "none", path |-> Root, old |-> <<>>, base |-> <<>>, tree |-> <<>>]
IdleWalk == [pc |-> "idle", path |-> Root, root |-> NoRow, attempt |-> 0]

Spend(k) == /\ left[k] > 0
            /\ left' = [left EXCEPT ![k] = @ - 1]

\* A row keeps its id.  New ids are greater, and drawn deepest path first
\* (ref_updates): a transaction inserts rows on one line from the root only.
Reindex ==
  older' = [q \in Dirs |->
              {p \in IF Has(q) THEN older[q] ELSE Rows \cup Below(q) :
                 row'[p] # NoRow /\ row'[q] # NoRow}]
KeepCursor == passed' = {p \in passed : row'[p] # NoRow}

Init ==
  /\ \E t \in TreesAt(Root) :
       row = [p \in Paths |-> IF p = Root THEN [line |-> <<1>>, tree |-> t] ELSE NoRow]
  /\ tomb = [p \in Dirs |-> <<>>]
  /\ op = [w \in Writers |-> IdleOp]
  /\ walk = [r \in Readers |-> IdleWalk]
  /\ mounted = {}
  /\ older = [q \in Dirs |-> {}] /\ passed = {}
  /\ clock = 1
  /\ left = Budget

----------------------------------------------------------------------------
(* Rows written by a transaction that makes commit clock + 1.              *)

Commit == clock + 1
Continue(r, t) == [line |-> Append(r.line, Commit), tree |-> t]

\* resolve_descendant_tree, advance_descendant_refs_with: the row of d below
\* the written path p.  Below a directory that is the same before and after
\* (Merkle prune), or whose row already has the new tree, nothing is touched.
Unchanged(d, p, old, t) ==
  \/ \E q \in Below(p) : /\ d \in Under[q] /\ old # <<>>
                         /\ t[q] # Absent /\ Sub(old, q) = Sub(t, q)
  \/ \E u \in Below(p) : d \in Under[u] /\ Has(u) /\ row[u].tree = Sub(t, u)
Vanishes_Mutant(d, p, old, t) == FALSE
Vanishes(d, p, old, t) == Has(d) /\ ~Unchanged(d, p, old, t) /\ t[d] = Absent
Advance_Mutant(d, p, old, t) ==
  IF ~Has(d) \/ Unchanged(d, p, old, t) THEN row[d] ELSE Continue(row[d], Sub(t, d))
Advance(d, p, old, t) ==
  IF ~Has(d) \/ Unchanged(d, p, old, t) THEN row[d]
  ELSE IF t[d] = Absent THEN NoRow
  ELSE Continue(row[d], Sub(t, d))

\* The transaction that makes t the root tree: top is the new row of p, and
\* lift[a] the new row of a path above it.
Write(p, t, top, lift) ==
  LET old == row[p].tree
  IN /\ row' = [q \in Paths |->
                  IF q = p THEN top
                  ELSE IF q \in Above(p) THEN lift[q]
                  ELSE IF q \in Below(p) THEN Advance(q, p, old, t)
                  ELSE row[q]]
     /\ tomb' = [q \in Dirs |->
                   IF q \in Below(p) /\ Vanishes(q, p, old, t) THEN row[q].line
                   ELSE tomb[q]]
     /\ clock' = Commit
     /\ Reindex /\ KeepCursor

\* tombstone_and_delete_main_ref_in_txn for the rows of S.
Bury_Mutant(S) ==
  /\ row' = [p \in Paths |-> IF p \in S THEN NoRow ELSE row[p]]
  /\ Reindex
  /\ UNCHANGED <<tomb, clock>>
Bury(S) ==
  /\ row' = [p \in Paths |-> IF p \in S THEN NoRow ELSE row[p]]
  /\ tomb' = [p \in Dirs |-> IF p \in S THEN row[p].line ELSE tomb[p]]
  /\ Reindex
  /\ UNCHANGED clock

----------------------------------------------------------------------------
(* Pushes, merges, attaches and detaches.                                  *)

\* A client fetches p and enqueues a push of tree t on what it saw (old_id is
\* ZERO_ID when there was no ref).  B0 refuses a creation on a tombstone.
EnqueuePush(w, p) ==
  /\ op[w] = IdleOp /\ Spend("push")
  /\ Has(p) \/ tomb[p] = <<>>
  /\ \E t \in TreesAt(p) :
       op' = [op EXCEPT ![w] = [kind |-> "push", path |-> p, old |-> row[p].line,
                                base |-> row[p].tree, tree |-> t]]
  /\ UNCHANGED <<row, tomb, walk, mounted, older, passed, clock>>

\* A CL of p, whose from_hash is the tip it was made on, is queued for merge.
EnqueueMerge(w, p) ==
  /\ op[w] = IdleOp /\ Spend("merge")
  /\ Has(p)
  /\ \E t \in TreesAt(p) :
       op' = [op EXCEPT ![w] = [kind |-> "merge", path |-> p, old |-> row[p].line,
                                base |-> row[p].tree, tree |-> t]]
  /\ UNCHANGED <<row, tomb, walk, mounted, older, passed, clock>>

\* A new import repository is to be mounted at p.
EnqueueAttach(w, p) ==
  /\ op[w] = IdleOp /\ Spend("attach")
  /\ op' = [op EXCEPT ![w] = [IdleOp EXCEPT !.kind = "attach", !.path = p]]
  /\ UNCHANGED <<row, tomb, walk, mounted, older, passed, clock>>

\* The root tree once t is at p; directories missing above p are made.
Graft(p, t) ==
  [q \in Paths |-> IF q \in Under[p] THEN t[q]
                   ELSE IF q \in Above(p) /\ rootTree[q] = Absent THEN Placeholder
                   ELSE rootTree[q]]

\* The gate of b3_execute_push_inner: a creation must not hide a tombstone nor
\* replace a directory; an update must be a fast-forward.
PushGate_Mutant(w) == TRUE
PushGate(w) ==
  LET p == op[w].path
  IN IF Has(p) THEN op[w].old = row[p].line
     ELSE /\ op[w].old = <<>> /\ tomb[p] = <<>>
          /\ rootTree[p] = Absent \/ Sub(rootTree, p) = op[w].tree

\* apply_push_in_txn: a row above the pushed path is continued when its tree
\* changes, and inserted with a commit that has no parent when there is none.
RollUp(a, t) ==
  IF Has(a) /\ row[a].tree = Sub(t, a) THEN row[a]
  ELSE Continue(row[a], Sub(t, a))

LandPush(w) ==
  LET p == op[w].path
      t == Graft(p, op[w].tree)
      lift == [a \in Above(p) |-> RollUp(a, t)]
  IN /\ op[w].kind = "push" /\ ~Stale(p) /\ PushGate(w)
     /\ Write(p, t, [line |-> Append(op[w].old, Commit), tree |-> op[w].tree], lift)
     /\ op' = [op EXCEPT ![w] = IdleOp]
     /\ UNCHANGED <<walk, mounted, left>>

\* apply_update_result_in_txn: every row above the CL's path is continued.
MergeGate(w) == Has(op[w].path) /\ op[w].old = row[op[w].path].line
LandMerge(w) ==
  LET p == op[w].path
      t == Graft(p, op[w].tree)
      lift == [a \in Above(p) |->
                 IF Has(a) THEN Continue(row[a], Sub(t, a)) ELSE NoRow]
  IN /\ op[w].kind = "merge" /\ ~Stale(p) /\ MergeGate(w)
     /\ Write(p, t, Continue(row[p], op[w].tree), lift)
     /\ op' = [op EXCEPT ![w] = IdleOp]
     /\ UNCHANGED <<walk, mounted, left>>

\* attach_materialization_precheck_in_txn, ImportLeaf::Absent: only the root
\* row is written, so no path at, above or below the mount may have a row.
AttachGate(p) ==
  /\ \A q \in Dirs \cap (Under[p] \cup Above(p)) : ~Has(q)
  /\ rootTree[p] = Absent
LandAttach(w) ==
  LET p == op[w].path
      t == Graft(p, [q \in Under[p] |-> IF q = p THEN Placeholder ELSE Absent])
  IN /\ op[w].kind = "attach" /\ AttachGate(p)
     /\ row' = [row EXCEPT ![Root] = Continue(@, t)]
     /\ clock' = Commit
     /\ mounted' = mounted \cup {p}
     /\ op' = [op EXCEPT ![w] = IdleOp]
     /\ UNCHANGED <<tomb, walk, older, passed, left>>

\* remove_import_leaf: the mount at p goes, and with it directories between it
\* and import_dir that hold nothing else; c is the uppermost one removed.
Prunable(p) ==
  {c \in Below(ImportDir) :
     p \in Under[c] /\ \A q \in Under[c] \ Under[p] :
       rootTree[q] = Absent \/ (q \in Above(p) /\ rootTree[q] = Placeholder)}
Prune(c) == [q \in Paths |-> IF q \in Under[c] THEN Absent ELSE rootTree[q]]

\* b3_execute_detach: refused while other import repositories live below p;
\* the root moves if the leaf is still there, and no other row is looked at.
EnqueueDetach(w, p) ==
  /\ op[w] = IdleOp /\ Spend("detach")
  /\ op' = [op EXCEPT ![w] = [IdleOp EXCEPT !.kind = "detach", !.path = p]]
  /\ UNCHANGED <<row, tomb, walk, mounted, older, passed, clock>>
LandDetach(w) ==
  LET p == op[w].path
  IN /\ op[w].kind = "detach"
     /\ p \in mounted /\ Below(p) \cap mounted = {}
     /\ IF rootTree[p] = Absent THEN UNCHANGED <<row, clock>>
        ELSE /\ \E c \in Prunable(p) : row' = [row EXCEPT ![Root] = Continue(@, Prune(c))]
             /\ clock' = Commit
     /\ mounted' = mounted \ {p}
     /\ op' = [op EXCEPT ![w] = IdleOp]
     /\ UNCHANGED <<tomb, walk, older, passed, left>>

\* b3_refuse_stale_main_tree: the transaction fails the operation and turns the
\* stale row into a tombstone.
Repair(w) ==
  /\ op[w].kind \in {"push", "merge"} /\ Stale(op[w].path)
  /\ Bury({op[w].path}) /\ KeepCursor
  /\ op' = [op EXCEPT ![w] = IdleOp]
  /\ UNCHANGED <<walk, mounted, left>>

\* Every other end of an operation writes no ref: a gate refuses it, the client
\* gives up, the push is empty (n = 0), the mount exists already.
Withdraw(w) ==
  /\ op[w].kind # "none"
  /\ op' = [op EXCEPT ![w] = IdleOp]
  /\ UNCHANGED <<row, tomb, walk, mounted, older, passed, clock, left>>

\* The executor died and the reaper closes the row or puts it back: apply_i3
\* buries the row of an attach or detach, and that of a push or a merge if it is stale.
Reap(w) ==
  LET p == op[w].path
      S == IF op[w].kind \in {"attach", "detach"} THEN {q \in {p} : Has(q)} ELSE {q \in {p} : Stale(q)}
  IN /\ op[w].kind # "none" /\ Spend("reap")
     /\ Bury(S \ {Root}) /\ KeepCursor
     /\ op' \in {op, [op EXCEPT ![w] = IdleOp]}
     /\ UNCHANGED <<walk, mounted>>

----------------------------------------------------------------------------
(* Materialisation of an advertised path.                                  *)

\* materialize_once: there is no main row (heads_exist), so the tree is walked.
NotMaterialized(r, p) ==
  /\ walk[r].pc = "idle" /\ Spend("read")
  /\ ~Has(p)
  /\ walk' = [walk EXCEPT ![r] = [IdleWalk EXCEPT !.pc = "walk", !.path = p]]
  /\ UNCHANGED <<row, tomb, op, mounted, older, passed, clock>>

\* walk_root_refs, without the lock: remember the root's commit and tree.
WalkRoot(r) ==
  /\ walk[r].pc = "walk"
  /\ walk' = [walk EXCEPT ![r] =
                IF rootTree[walk[r].path] = Absent THEN IdleWalk
                ELSE [@ EXCEPT !.pc = "persist", !.root = row[Root]]]
  /\ UNCHANGED <<row, tomb, op, mounted, older, passed, clock, left>>

\* The identity pair of persist_walked_refs.
SameRoot_Mutant(r) == TRUE
SameRoot(r) == walk[r].root = row[Root]

\* persist_walked_refs under the lock: continue the tombstone, insert unless
\* somebody else did, and drop the tombstone that was continued.
Persist(r) ==
  LET p == walk[r].path
      new == [line |-> Append(tomb[p], Commit), tree |-> Sub(walk[r].root.tree, p)]
  IN /\ walk[r].pc = "persist" /\ SameRoot(r)
     /\ row' = [row EXCEPT ![p] = IF Has(p) THEN @ ELSE new]
     /\ tomb' = [tomb EXCEPT ![p] = <<>>]
     /\ clock' = Commit
     /\ walk' = [walk EXCEPT ![r] = IdleWalk]
     /\ Reindex /\ KeepCursor
     /\ UNCHANGED <<op, mounted, left>>

\* The root moved: walk again, or give up (MaterializeAborted).
Abandon(r) ==
  /\ walk[r].pc = "persist" /\ ~SameRoot(r)
  /\ walk' = [walk EXCEPT ![r] =
                IF walk[r].attempt = RetryLimit THEN IdleWalk
                ELSE [IdleWalk EXCEPT !.pc = "walk", !.path = walk[r].path,
                                      !.attempt = walk[r].attempt + 1]]
  /\ UNCHANGED <<row, tomb, op, mounted, older, passed, clock, left>>

----------------------------------------------------------------------------
(* The audit, and the writer it is there for.                              *)

\* inspect_once, scan_page: the next rows after the cursor; a short page puts
\* the cursor back to the start.
Page == LET rest == Rows \ passed
        IN {p \in rest : Cardinality(older[p] \cap rest) < AuditBatch}
NextCursor_Mutant == passed \cup Page
NextCursor == IF Cardinality(Page) < AuditBatch THEN {} ELSE passed \cup Page
Inspect ==
  /\ Bury({p \in Page : Stale(p)})
  /\ passed' = {p \in NextCursor : row'[p] # NoRow}
  /\ UNCHANGED <<op, walk, mounted, left>>

\* A writer outside the queue moves the root, perhaps only its tree.
Bypass ==
  /\ Spend("bypass")
  /\ \E t \in TreesAt(Root) \ {rootTree} :
       \/ row' = [row EXCEPT ![Root].tree = t] /\ UNCHANGED clock
       \/ row' = [row EXCEPT ![Root] = Continue(@, t)] /\ clock' = Commit
  /\ UNCHANGED <<tomb, op, walk, mounted, older, passed>>

WriterStep(w) ==
  \/ \E p \in Dirs : EnqueuePush(w, p)
  \/ \E p \in Below(ImportDir) : EnqueueAttach(w, p)
  \/ \E p \in Paths : EnqueueMerge(w, p)
  \/ LandPush(w) \/ LandMerge(w) \/ LandAttach(w)
  \/ Repair(w) \/ Withdraw(w) \/ Reap(w)
ReaderStep(r) ==
  \/ \E p \in Dirs : NotMaterialized(r, p)
  \/ WalkRoot(r) \/ Persist(r) \/ Abandon(r)

DetachStep(w) == (\E p \in mounted : EnqueueDetach(w, p)) \/ LandDetach(w)

\* Every writer holds the lock, and updates or excludes the rows it affects ...
Disciplined == \/ \E w \in Writers : WriterStep(w)
               \/ \E r \in Readers : ReaderStep(r)
               \/ Inspect
\* ... or a detach moves the root and leaves the other rows ...
Locked == Disciplined \/ \E w \in Writers : DetachStep(w)
\* ... or a writer does not hold the lock.
Next == Locked \/ Bypass

DisciplinedSpec == Init /\ [][Disciplined]_vars
Spec == Init /\ [][Next]_vars
\* spawn_background ticks for ever; nobody else has to move.
AuditedSpec == Spec /\ WF_vars(Inspect)

----------------------------------------------------------------------------
(* Properties.                                                             *)

Lines == Seq(Nat)
RowsAt(p) == [line : Lines \ {<<>>}, tree : TreesAt(p)]

RowsOK ==
  /\ DOMAIN row = Paths
  /\ \A p \in Paths : row[p] \in RowsAt(p) \/ (p # Root /\ row[p] = NoRow)
  /\ tomb \in [Dirs -> Lines]
  /\ clock \in Nat
OpsOK ==
  /\ DOMAIN op = Writers /\ mounted \subseteq Below(ImportDir)
  /\ \A w \in Writers :
       /\ op[w].kind \in {"none", "push", "merge", "attach", "detach"}
       /\ op[w].kind = "none" => op[w] = IdleOp
       /\ op[w].path \in Paths
       /\ op[w].kind = "push" => op[w].path \in Dirs
       /\ op[w].kind \in {"attach", "detach"} => op[w].path \in Below(ImportDir)
       /\ op[w].kind \in {"push", "merge"} =>
            op[w].tree \in TreesAt(op[w].path) /\ op[w].old \in Lines
WalksOK == DOMAIN walk = Readers /\ \A r \in Readers :
  /\ walk[r].pc \in {"idle", "walk", "persist"}
  /\ walk[r].pc # "idle" => walk[r].path \in Dirs
  /\ walk[r].pc = "persist" =>
       walk[r].root \in RowsAt(Root) /\ walk[r].root.tree[walk[r].path] # Absent
IdsOK ==
  /\ older \in [Dirs -> SUBSET Rows]
  /\ \A q \in Dirs \ Rows : older[q] = {}
  /\ \A p, q \in Rows : p \in older[q] <=> p # q /\ q \notin older[p]
  /\ \A p, q \in Rows : p \in older[q] => older[p] \subseteq older[q]
CursorOK == passed \subseteq Rows /\ \A q \in passed : older[q] \subseteq passed
\* Rows, tombstones and what operations and walks remember have their types,
\* main@/ always exists, the ids order the rows of the other paths, whichever
\* are inserted together, and the audit's cursor has left no row out.
TypeOK == RowsOK /\ OpsOK /\ WalksOK /\ IdsOK /\ CursorOK

\* I3: while every writer holds the lock and no import repository is detached,
\* the row of a path is the root tree's subtree at that path, through every
\* push, merge, attach, deletion and materialisation that walked the tree
\* before another writer moved the root.
ViewConsistent == \A p \in Paths : Has(p) => row[p].tree = Sub(rootTree, p)

\* The history of a row is never rewritten: as long as it exists its tip stays
\* in the history of every later tip, and when it is deleted (by a push that
\* removes the directory, a repair, the reaper or the audit) the tombstone
\* takes its tip.
RowKeepsHistory ==
  [][\A p \in Paths : Has(p) =>
       IF row'[p] # NoRow THEN IsPrefix(row[p].line, row'[p].line)
       ELSE p # Root /\ tomb'[p] = row[p].line]_vars

\* No push or merge below the root silently undoes a change: when it lands,
\* the root tree still holds at its path what its client based it on, even
\* when a writer outside the queue has moved the root.
Landing(w) == /\ op[w].kind \in {"push", "merge"} /\ op[w].path # Root
              /\ op'[w] = IdleOp /\ clock' = clock + 1
NothingUndone ==
  [][\A w \in Writers : Landing(w) /\ op[w].old # <<>> =>
       op[w].base = Sub(rootTree, op[w].path)]_vars

\* A row that a writer outside the queue has left stale is repaired or deleted
\* by the audit, whatever the cursor has passed and however rows come and go.
StaleRowsGo == \A p \in Dirs : Stale(p) ~> ~Stale(p)

=============================================================================
