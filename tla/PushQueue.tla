------------------------------ MODULE PushQueue ------------------------------
(***************************************************************************)
(* MonoWriteQueue: the Postgres `push_queue` table that serialises every   *)
(* write to `main` (push_queue_service.rs, push_queue_storage.rs,          *)
(* push_queue_reaper.rs and the follow loops of the callers).              *)
(*                                                                         *)
(* A client enqueues an operation (B0/B1), waits for its turn (B2), claims *)
(* the row (B2.5), executes it in a transaction that holds the advisory    *)
(* MONO_WRITE_LOCK (B3) and, on a merge conflict, requeues it (B4).  The   *)
(* reaper cleans up what crashed clients leave behind.                     *)
(*                                                                         *)
(* One action is one committed statement or transaction, or one read whose *)
(* result is used by a later action.  A B3 transaction shows nothing until *)
(* it commits and the rows it has written are locked until then, so its    *)
(* writes are one action at the commit.                                    *)
(*                                                                         *)
(* An operator X_... defined just before X is a faulty version of X that   *)
(* no specification uses: the properties below are checked to fail when it *)
(* takes the place of X.                                                   *)
(***************************************************************************)
EXTENDS Naturals, Sequences, FiniteSets

CONSTANTS
  Clients,      \* request tasks of any server process
  Ops,          \* operations: an op stands for (kind, path, operation_id)
  Kind,         \* Kind[o]: "push", "merge" or "attach"
  Path,         \* Path[o]: the mono path the operation writes
  NoOne,        \* nobody holds MONO_WRITE_LOCK
  Reaper,       \* the background reaper as a lock holder
  MaxDepth,     \* queue_control.max_depth
  MaxRounds,    \* MAX_ROUNDS of follow_push_queue / follow_merge_queue
  Budget        \* bounds on inserts, conflicts, races and interventions

BudgetKeys == {"enqueue", "conflict", "race", "bypass", "freeze", "loss",
               "pause", "cancel"}

ASSUME ConstantsAssumption ==
  /\ Kind \in [Ops -> {"push", "merge", "attach"}]
  /\ Clients \cap {NoOne, Reaper} = {}
  /\ NoOne # Reaper
  /\ MaxDepth \in Nat
  /\ MaxRounds \in Nat \ {0}
  /\ Budget \in [BudgetKeys -> Nat]

VARIABLES
  row,          \* table push_queue: row[id], ids from the bigserial
  paused,       \* queue_control.paused
  hardStopped,  \* queue_control.hard_stopped
  root,         \* version of the root ref (commit and tree of main@/)
  log,          \* history: ids of the rows that landed, in commit order
  lock,         \* holder of the advisory MONO_WRITE_LOCK
  cl,           \* cl[c]: where request task c is and its local variables
  rp,           \* the reaper's cycle and its local variables
  left          \* what is left of Budget

vars == <<row, paused, hardStopped, root, log, lock, cl, rp, left>>

Statuses == {"Queued", "Running", "Done", "Failed", "Cancelled"}
Active   == {"Queued", "Running"}
Ids      == DOMAIN row

\* exp: expected_* (0 is NULL); pend: pending_action = requeue_conflict;
\* succ: superseded_by (0 is NULL); fresh: the row's clock (heartbeat_at while
\* Queued, started_at while Running) is within the reaper's cutoff.
Rows == [op : Ops, st : Statuses, exp : Nat, pend : BOOLEAN, succ : Nat,
         fresh : BOOLEAN]

NewRow(o) == [op |-> o, st |-> "Queued", exp |-> 0, pend |-> FALSE,
              succ |-> 0, fresh |-> TRUE]

\* The UPDATEs of push_queue_storage.rs on one row.  Nothing reads the baseline
\* and the clock of a terminal row again; the model drops them.
Terminal(r, s) == [r EXCEPT !.st = s, !.pend = FALSE, !.exp = 0, !.fresh = FALSE]
MarkDone(r)   == Terminal(r, "Done")
MarkFailed(r) == Terminal(r, "Failed")
Cancel(r)     == Terminal(r, "Cancelled")
Claimed(r)    == [r EXCEPT !.st = "Running", !.exp = root, !.fresh = TRUE]
\* reset_running_to_queued clears pending_action ...
Reset(r)      == [r EXCEPT !.st = "Queued", !.exp = 0, !.pend = FALSE,
                           !.fresh = TRUE]
\* ... and reset_running_to_queued_in_txn, the reaper's, does not.
ResetInTxn(r) == [r EXCEPT !.st = "Queued", !.exp = 0, !.fresh = TRUE]

\* Every conditional UPDATE says WHERE status = 'Running'.
IfRunning_Mutant(i, r) == [row EXCEPT ![i] = r]
IfRunning(i, r) == [row EXCEPT ![i] = IF @.st = "Running" THEN r ELSE @]

Running(i) == row[i].st = "Running"
RowsOf(o)  == {i \in Ids : row[i].op = o}
Live_Mutant(o) == {i \in RowsOf(o) : row[i].st \in Active}
Live(o)    == {i \in RowsOf(o) : row[i].st \in Active \cup {"Done"}}
ActiveIds  == {i \in Ids : row[i].st \in Active}

\* The predicates of the partial unique indexes and of the admission INSERT.
PathBusy_Mutant(o) ==
  /\ Kind[o] = "push"
  /\ \E i \in Ids : /\ row[i].st = "Queued" /\ Kind[row[i].op] = "push"
                    /\ Path[row[i].op] = Path[o]
PathBusy(o) ==
  /\ Kind[o] = "push"
  /\ \E i \in ActiveIds : Kind[row[i].op] = "push" /\ Path[row[i].op] = Path[o]
Full_Mutant == Cardinality(ActiveIds) > MaxDepth
Full == Cardinality(ActiveIds) >= MaxDepth

Spend(k) == /\ left[k] > 0
            /\ left' = [left EXCEPT ![k] = @ - 1]

PCs == {"idle", "wait", "claim", "lock", "exec", "failclose", "intent",
        "complete", "reset", "terminalize"}
ClientStates ==
  [pc : PCs, id : Nat, seen : BOOLEAN, rounds : 0..MaxRounds, base : Nat,
   why : {"none", "hardstop", "race", "baseline", "cas"},
   res : {"none", "ok", "refused"}]
ReaperStates ==
  [pc : {"idle", "locked", "lockless", "reap"}, hs : BOOLEAN, id : Nat,
   ok : BOOLEAN, pend : BOOLEAN]
IdleClient == [pc |-> "idle", id |-> 0, seen |-> FALSE, rounds |-> 0,
               base |-> 0, why |-> "none", res |-> "none"]
IdleReaper == [pc |-> "idle", hs |-> FALSE, id |-> 0, ok |-> FALSE,
               pend |-> FALSE]

Init ==
  /\ row = <<>>
  /\ paused = FALSE
  /\ hardStopped = FALSE
  /\ root = 1
  /\ log = <<>>
  /\ lock = NoOne
  /\ cl = [c \in Clients |-> IdleClient]
  /\ rp = IdleReaper
  /\ left = Budget

----------------------------------------------------------------------------
(* The callers' follow loops: what a client does with an outcome.          *)

\* The request is answered: "ok" (it landed) or "refused" (it did not).  Every
\* other error only asks for a retry and is not told apart from no answer.
Answered(i, r) ==
  IF r = "error" THEN IdleClient ELSE [IdleClient EXCEPT !.id = i, !.res = r]
Answer(c, r) == cl' = [cl EXCEPT ![c] = Answered(cl[c].id, r)]

\* An answer found by wait_and_claim is dropped once MAX_ROUNDS rounds are
\* used up: the loop ends with "exceeded max conflict requeue rounds".
AnswerFromWait(c, r) ==
  Answer(c, IF cl[c].rounds = MaxRounds THEN "error" ELSE r)

\* ClaimLost (and Requeued): push and merge wait on the row again, an attach
\* gives up with "retry the push".
WaitAgain(c) ==
  IF Kind[row[cl[c].id].op] = "attach"
  THEN Answer(c, "error")
  ELSE cl' = [cl EXCEPT ![c] = [IdleClient EXCEPT !.pc = "wait", !.id = cl[c].id,
                                                  !.rounds = cl[c].rounds + 1]]

\* What a Done row answers: the landed commit.  An attach also checks that its
\* refs are still in place and, if not, comes back as another operation.
Replayed(i) == IF Kind[row[i].op] = "attach" THEN {"ok", "error"} ELSE {"ok"}

Goto(c, pc) == cl' = [cl EXCEPT ![c].pc = pc]

\* The for loop over MAX_ROUNDS still has a round for this client.
HasRound_Mutant(c) == cl[c].rounds <= MaxRounds
HasRound(c) == cl[c].rounds < MaxRounds

----------------------------------------------------------------------------
(* B1: admission under queue_control FOR UPDATE.                           *)

EnqueueInsert(c, o) ==
  /\ cl[c].pc = "idle"
  /\ Live(o) = {}
  /\ ~paused /\ ~hardStopped /\ ~Full /\ ~PathBusy(o)
  /\ Spend("enqueue")
  /\ row' = Append(row, NewRow(o))
  /\ cl' = [cl EXCEPT ![c] = [IdleClient EXCEPT !.pc = "wait", !.id = Len(row) + 1]]
  /\ UNCHANGED <<paused, hardStopped, root, log, lock, rp>>

\* A live row of the same operation is adopted (wait on it) or, when Done,
\* replayed; pause, hard stop and depth do not matter.
EnqueueAdopt(c, o) ==
  /\ cl[c].pc = "idle"
  /\ \E i \in Live(o) :
       \/ /\ row[i].st = "Done"
          /\ \E r \in Replayed(i) :
               cl' = [cl EXCEPT ![c] = Answered(i, r)]
       \/ /\ row[i].st \in Active
          /\ cl' = [cl EXCEPT ![c] = [IdleClient EXCEPT !.pc = "wait", !.id = i]]
  /\ UNCHANGED <<row, paused, hardStopped, root, log, lock, rp, left>>

EnqueueReject(c, o) ==
  /\ cl[c].pc = "idle"
  /\ Live(o) = {}
  /\ paused \/ hardStopped \/ Full \/ PathBusy(o)
  /\ cl' = [cl EXCEPT ![c] = Answered(0, "error")]
  /\ UNCHANGED <<row, paused, hardStopped, root, log, lock, rp, left>>

----------------------------------------------------------------------------
(* B2: wait_and_claim.                                                     *)

\* One turn of the loop up to the claim: read the row, follow or answer, else
\* refresh the heartbeat (started_at, the clock of a Running row, is kept).
Observe(c) ==
  LET i == cl[c].id
      r == row[i]
  IN /\ cl[c].pc = "wait"
     /\ \/ /\ r.st = "Done"
           /\ \E a \in Replayed(i) : AnswerFromWait(c, a)
           /\ UNCHANGED row
        \/ /\ r.st = "Failed" \/ (r.st = "Cancelled" /\ r.succ = 0)
           /\ AnswerFromWait(c, "refused")
           /\ UNCHANGED row
        \/ /\ r.st = "Cancelled" /\ r.succ # 0
           /\ cl' = [cl EXCEPT ![c].id = r.succ, ![c].seen = FALSE]
           /\ UNCHANGED row
        \/ /\ r.st \in Active
           /\ cl' = [cl EXCEPT ![c].pc = "claim",
                               ![c].seen = @ \/ r.st = "Running"]
           /\ row' = [row EXCEPT ![i].fresh = @ \/ r.st = "Queued"]
     /\ UNCHANGED <<paused, hardStopped, root, log, lock, rp, left>>

\* wait_timeout, which runs only until the row has been seen Running.
Abandon(c) ==
  /\ cl[c].pc = "wait"
  /\ row[cl[c].id].st = "Queued" /\ ~cl[c].seen
  /\ Answer(c, "error")
  /\ UNCHANGED <<row, paused, hardStopped, root, log, lock, rp, left>>

\* B2.5 claim_for_execution: the head of the queue, nothing Running, no hard
\* stop; the root read in the same statement is the row's baseline.
Claimable_OutOfOrder(i) ==
  /\ ~hardStopped
  /\ row[i].st = "Queued"
  /\ \A j \in Ids : ~Running(j)
Claimable_BesideRunning(i) ==
  /\ ~hardStopped
  /\ row[i].st = "Queued"
  /\ \A j \in Ids : row[j].st = "Queued" => i <= j
Claimable(i) ==
  /\ ~hardStopped
  /\ row[i].st = "Queued"
  /\ \A j \in Ids : ~Running(j)
  /\ \A j \in Ids : row[j].st = "Queued" => i <= j

Claim(c) ==
  LET i == cl[c].id
  IN /\ cl[c].pc = "claim"
     /\ \/ /\ Claimable(i)
           /\ row' = [row EXCEPT ![i] = Claimed(@)]
           /\ Goto(c, "lock")
        \/ /\ ~Claimable(i)
           /\ Goto(c, "wait")
           /\ UNCHANGED row
     /\ UNCHANGED <<paused, hardStopped, root, log, lock, rp, left>>

\* The loop is out of rounds although the claim succeeded: the caller errors
\* and leaves the row Running for the reaper.
GiveUp(c) ==
  /\ cl[c].pc = "lock" /\ ~HasRound(c)
  /\ Answer(c, "error")
  /\ UNCHANGED <<row, paused, hardStopped, root, log, lock, rp, left>>

----------------------------------------------------------------------------
(* B3: execute_b3.                                                         *)

\* The live root is the one the claim recorded.
OnBaseline_Mutant(r) == TRUE
OnBaseline(r) == root = r.exp

\* BEGIN, take the lock, fence (re-read the row), check the hard stop and
\* compare the root with the row's baseline.  The first two failures release
\* the lock again at once.
B3Begin(c) ==
  LET r == row[cl[c].id]
  IN /\ cl[c].pc = "lock" /\ HasRound(c)
     /\ lock = NoOne
     /\ \/ /\ r.st # "Running"
           /\ WaitAgain(c)
           /\ UNCHANGED lock
        \/ /\ r.st = "Running" /\ hardStopped
           /\ cl' = [cl EXCEPT ![c].pc = "reset", ![c].why = "hardstop"]
           /\ UNCHANGED lock
        \/ /\ r.st = "Running" /\ ~hardStopped /\ OnBaseline(r)
           /\ cl' = [cl EXCEPT ![c].pc = "exec", ![c].base = root]
           /\ lock' = c
        \/ /\ r.st = "Running" /\ ~hardStopped /\ ~OnBaseline(r)
           /\ cl' = [cl EXCEPT ![c].pc = "failclose", ![c].why = "baseline"]
           /\ lock' = c
     /\ UNCHANGED <<row, paused, hardStopped, root, log, rp, left>>

InB3(c, pc) == cl[c].pc = pc /\ lock = c

\* What commits when a round lands: the refs and the root CAS, Done, and the
\* landing itself.  A net-zero round writes the root with its old value; an
\* attach that only moves import refs writes no root and makes no CAS.
LandingWrites_Mutant(c) ==
  /\ Running(cl[c].id)
  /\ log' = Append(log, cl[c].id)
  /\ root = cl[c].base /\ root' \in {root, root + 1}
  /\ lock' = NoOne
  /\ UNCHANGED row
LandingWrites(c) ==
  LET i == cl[c].id
  IN /\ Running(i)
     /\ row' = [row EXCEPT ![i] = MarkDone(@)]
     /\ log' = Append(log, i)
     /\ \/ /\ root = cl[c].base
           /\ root' \in {root, root + 1}
        \/ /\ Kind[row[i].op] = "attach"
           /\ UNCHANGED root
     /\ lock' = NoOne

Land(c) ==
  /\ InB3(c, "exec")
  /\ LandingWrites(c)
  /\ Answer(c, "ok")
  /\ UNCHANGED <<paused, hardStopped, rp, left>>

\* COMMIT took effect but its acknowledgement is lost: the executor sees Err
\* and goes on to terminalize the row.
LandAckLost(c) ==
  /\ InB3(c, "exec")
  /\ LandingWrites(c)
  /\ Goto(c, "terminalize")
  /\ Spend("loss")
  /\ UNCHANGED <<paused, hardStopped, rp>>

\* A round whose Done (or Failed) update finds the row no longer Running rolls
\* everything back.
LoseClaim(c) ==
  /\ InB3(c, "exec")
  /\ ~Running(cl[c].id)
  /\ WaitAgain(c)
  /\ lock' = NoOne
  /\ UNCHANGED <<row, paused, hardStopped, root, log, rp, left>>

\* The root CAS affects no row.
CasMiss(c) ==
  /\ InB3(c, "exec")
  /\ root # cl[c].base
  /\ cl' = [cl EXCEPT ![c].pc = "failclose", ![c].why = "cas"]
  /\ UNCHANGED <<row, paused, hardStopped, root, log, lock, rp, left>>

\* A baseline mismatch or a CAS miss: stop the queue and fail the row in the
\* transaction that still holds the lock.
FailClose(c) ==
  /\ InB3(c, "failclose")
  /\ hardStopped' = TRUE
  /\ row' = IfRunning(cl[c].id, MarkFailed(row[cl[c].id]))
  /\ Answer(c, "error")
  /\ lock' = NoOne
  /\ UNCHANGED <<paused, root, log, rp, left>>

\* The kind's own gates refuse the round (b3_fail_merge and the push refusals).
Refuse(c) ==
  /\ InB3(c, "exec")
  /\ Running(cl[c].id)
  /\ row' = [row EXCEPT ![cl[c].id] = MarkFailed(@)]
  /\ Answer(c, "refused")
  /\ lock' = NoOne
  /\ UNCHANGED <<paused, hardStopped, root, log, rp, left>>

\* The tombstone repair and the attach refusal commit and answer Failed
\* whether or not the row was still Running.
RefuseUnchecked(c) ==
  /\ InB3(c, "exec")
  /\ row' = IfRunning(cl[c].id, MarkFailed(row[cl[c].id]))
  /\ Answer(c, "refused")
  /\ lock' = NoOne
  /\ UNCHANGED <<paused, hardStopped, root, log, rp, left>>

\* An Err inside the kind's writer drops the transaction.
ErrAbort(c) ==
  /\ InB3(c, "exec")
  /\ Goto(c, "terminalize")
  /\ lock' = NoOne
  /\ UNCHANGED <<row, paused, hardStopped, root, log, rp, left>>

\* terminalize_{push,merge,attach}_failure: a fresh transaction, no lock.
Terminalize_Mutant(c) ==
  /\ cl[c].pc = "terminalize"
  /\ row' = IfRunning(cl[c].id, MarkFailed(row[cl[c].id]))
  /\ Answer(c, IF Running(cl[c].id) THEN "refused" ELSE "ok")
  /\ UNCHANGED <<paused, hardStopped, root, log, lock, rp, left>>
Terminalize(c) ==
  /\ cl[c].pc = "terminalize"
  /\ row' = IfRunning(cl[c].id, MarkFailed(row[cl[c].id]))
  /\ IF Running(cl[c].id) THEN Answer(c, "refused") ELSE WaitAgain(c)
  /\ UNCHANGED <<paused, hardStopped, root, log, lock, rp, left>>

\* merge_cl_in_txn finds the CL changed since it was read.
MergeRace(c) ==
  /\ InB3(c, "exec")
  /\ Kind[row[cl[c].id].op] = "merge"
  /\ Spend("race")
  /\ cl' = [cl EXCEPT ![c].pc = "reset", ![c].why = "race"]
  /\ lock' = NoOne
  /\ UNCHANGED <<row, paused, hardStopped, root, log, rp>>

\* reset_running_to_queued: its own statement, after the lock is released.
ResetRow(c) ==
  /\ cl[c].pc = "reset"
  /\ row' = IfRunning(cl[c].id, Reset(row[cl[c].id]))
  /\ IF cl[c].why = "hardstop" /\ Running(cl[c].id)
     THEN Answer(c, "error")
     ELSE WaitAgain(c)
  /\ UNCHANGED <<paused, hardStopped, root, log, lock, rp, left>>

----------------------------------------------------------------------------
(* B4: conflict requeue of a merge, still inside the B3 transaction.       *)

Conflict(c) ==
  /\ InB3(c, "exec")
  /\ Kind[row[cl[c].id].op] = "merge"
  /\ Spend("conflict")
  /\ \/ /\ hardStopped
        /\ cl' = [cl EXCEPT ![c].pc = "reset", ![c].why = "hardstop"]
        /\ lock' = NoOne
     \/ /\ ~hardStopped
        /\ Goto(c, "intent")
        /\ UNCHANGED lock
  /\ UNCHANGED <<row, paused, hardStopped, root, log, rp>>

\* Phase 1, on another connection: it commits even if the B3 session is gone.
PersistIntent(c) ==
  LET i == cl[c].id
  IN /\ cl[c].pc = "intent"
     /\ \/ /\ Running(i)
           /\ row' = [row EXCEPT ![i].pend = TRUE]
           /\ Goto(c, "complete")
           /\ UNCHANGED lock
        \/ /\ ~Running(i) /\ lock = c
           /\ WaitAgain(c)
           /\ lock' = NoOne
           /\ UNCHANGED row
        \/ /\ ~Running(i) /\ lock # c
           /\ Goto(c, "terminalize")
           /\ UNCHANGED <<row, lock>>
     /\ UNCHANGED <<paused, hardStopped, root, log, rp, left>>

\* complete_conflict_requeue_in_txn on the table rs: close row i and append
\* its successor.
CanRequeue(i) == Running(i) /\ row[i].pend /\ row[i].succ = 0
Requeue_WrongLink(rs, i) ==
  Append([rs EXCEPT ![i] = [Cancel(@) EXCEPT !.succ = Len(rs)]],
         NewRow(rs[i].op))
Requeue_StillOpen(rs, i) == Append(rs, NewRow(rs[i].op))
Requeue(rs, i) ==
  Append([rs EXCEPT ![i] = [Cancel(@) EXCEPT !.succ = Len(rs) + 1]],
         NewRow(rs[i].op))

\* Phase 2.
CompleteRequeue(c) ==
  LET i == cl[c].id
  IN /\ InB3(c, "complete")
     /\ \/ /\ hardStopped
           /\ cl' = [cl EXCEPT ![c].pc = "reset", ![c].why = "hardstop"]
           /\ UNCHANGED row
        \/ /\ ~hardStopped /\ CanRequeue(i)
           /\ row' = Requeue(row, i)
           /\ WaitAgain(c)
        \/ /\ ~hardStopped /\ ~CanRequeue(i)
           /\ Goto(c, "terminalize")
           /\ UNCHANGED row
     /\ lock' = NoOne
     /\ UNCHANGED <<paused, hardStopped, root, log, rp, left>>

----------------------------------------------------------------------------
(* Failures of the database session and of the request task.               *)

\* The session of the lock holder ends (pg_terminate_backend, a network
\* fault): the lock is free, its transaction gone, and the task not yet aware.
SessionLost(c) ==
  /\ lock = c
  /\ Spend("loss")
  /\ lock' = NoOne
  /\ UNCHANGED <<row, paused, hardStopped, root, log, cl, rp>>

\* The next statement in the lost transaction is an Err: inside a kind's
\* writer it terminalizes the row, before the dispatch it only answers.
TxnDead(c) ==
  /\ cl[c].pc \in {"exec", "failclose", "complete"} /\ lock # c
  /\ IF cl[c].why = "baseline" THEN Answer(c, "error") ELSE Goto(c, "terminalize")
  /\ UNCHANGED <<row, paused, hardStopped, root, log, lock, rp, left>>

\* The server process dies, the connection's task is dropped, or an error is
\* returned to the caller before the dispatch: all local state is gone.
Crash(c) ==
  /\ cl[c].pc # "idle"
  /\ Answer(c, "error")
  /\ lock' = IF lock = c THEN NoOne ELSE lock
  /\ UNCHANGED <<row, paused, hardStopped, root, log, rp, left>>

----------------------------------------------------------------------------
(* The reaper: reap_once.                                                  *)

\* Queued rows whose heartbeat is too old.
CancelStale_Mutant(rs) == rs
CancelStale(rs) ==
  [i \in DOMAIN rs |-> IF rs[i].st = "Queued" /\ ~rs[i].fresh
                       THEN Cancel(rs[i]) ELSE rs[i]]
\* Skipped when the hard stop was set at the start of the cycle.
Cleanup(rs) == IF rp.hs THEN rs ELSE CancelStale(rs)

ReapBegin ==
  /\ rp.pc = "idle"
  /\ \/ /\ lock = NoOne
        /\ lock' = Reaper
        /\ rp' = [IdleReaper EXCEPT !.pc = "locked", !.hs = hardStopped]
     \/ /\ lock # NoOne
        /\ rp' = [IdleReaper EXCEPT !.pc = "lockless", !.hs = hardStopped]
        /\ UNCHANGED lock
  /\ UNCHANGED <<row, paused, hardStopped, root, log, cl, left>>

\* Without the lock only the heartbeat cleanup runs.
ReapLockless ==
  /\ rp.pc = "lockless"
  /\ row' = Cleanup(row)
  /\ rp' = IdleReaper
  /\ UNCHANGED <<paused, hardStopped, root, log, lock, cl, left>>

\* A Running row that is out of started_at_grace.
Reapable_Mutant(i) == Running(i) /\ ~row[i].fresh /\ row[i].pend
Reapable(i) == Running(i) /\ ~row[i].fresh

\* With it, the Running row (AtMostOneRunning: there is one at most) is read
\* and its baseline compared, unless it is within started_at_grace.
ReapScan ==
  /\ rp.pc = "locked"
  /\ \/ \E i \in Ids :
          /\ Reapable(i)
          /\ rp' = [rp EXCEPT !.pc = "reap", !.id = i,
                              !.ok = root = row[i].exp, !.pend = row[i].pend]
          /\ UNCHANGED <<row, lock>>
     \/ /\ \A i \in Ids : ~Reapable(i)
        /\ row' = Cleanup(row)
        /\ rp' = IdleReaper
        /\ lock' = NoOne
  /\ UNCHANGED <<paused, hardStopped, root, log, cl, left>>

\* reap_running_row and the commit of the cycle.
ReapRow ==
  /\ rp.pc = "reap"
  /\ \/ /\ ~rp.ok
        /\ hardStopped' = TRUE
        /\ row' = Cleanup(IfRunning(rp.id, MarkFailed(row[rp.id])))
     \/ /\ rp.ok /\ rp.pend
        /\ row' = IF CanRequeue(rp.id) THEN Requeue(Cleanup(row), rp.id)
                  ELSE IF row[rp.id].succ # 0 THEN Cleanup(row)
                  ELSE row                        \* Err: the cycle rolls back
        /\ UNCHANGED hardStopped
     \/ /\ rp.ok /\ ~rp.pend /\ rp.hs
        /\ row' = IfRunning(rp.id, ResetInTxn(row[rp.id]))
        /\ UNCHANGED hardStopped
     \/ /\ rp.ok /\ ~rp.pend /\ ~rp.hs
        /\ row' = Cleanup(IfRunning(rp.id, MarkFailed(row[rp.id])))
        /\ UNCHANGED hardStopped
  /\ rp' = IdleReaper
  /\ lock' = NoOne
  /\ UNCHANGED <<paused, root, log, cl, left>>

\* The reaper's process dies or its cycle errors before the commit.
ReaperCrash ==
  /\ rp.pc # "idle"
  /\ rp' = IdleReaper
  /\ lock' = IF lock = Reaper THEN NoOne ELSE lock
  /\ UNCHANGED <<row, paused, hardStopped, root, log, cl, left>>

----------------------------------------------------------------------------
(* The control plane, time, and writers outside the queue.                 *)

Pause ==
  /\ ~paused /\ Spend("pause")
  /\ paused' = TRUE
  /\ UNCHANGED <<row, hardStopped, root, log, lock, cl, rp>>

Resume ==
  /\ paused
  /\ paused' = FALSE
  /\ UNCHANGED <<row, hardStopped, root, log, lock, cl, rp, left>>

ClearHardStop ==
  /\ hardStopped
  /\ hardStopped' = FALSE
  /\ UNCHANGED <<row, paused, root, log, lock, cl, rp, left>>

CancelQueued(i) ==
  /\ row[i].st = "Queued" /\ Spend("cancel")
  /\ row' = [row EXCEPT ![i] = Cancel(@)]
  /\ UNCHANGED <<paused, hardStopped, root, log, lock, cl, rp>>

\* freeze_merge_for_authz: a merge row, Queued or Running, without any lock.
FreezeMerge(i) ==
  /\ row[i].st \in Active /\ Kind[row[i].op] = "merge" /\ Spend("freeze")
  /\ row' = [row EXCEPT ![i] = MarkFailed(@)]
  /\ UNCHANGED <<paused, hardStopped, root, log, lock, cl, rp>>

\* heartbeat_timeout or started_at_grace runs out.
Expire(i) ==
  /\ row[i].st \in Active /\ row[i].fresh
  /\ row' = [row EXCEPT ![i].fresh = FALSE]
  /\ UNCHANGED <<paused, hardStopped, root, log, lock, cl, rp, left>>

\* A writer that bypasses the queue moves the root ref.
BypassRootWrite ==
  /\ Spend("bypass")
  /\ root' = root + 1
  /\ UNCHANGED <<row, paused, hardStopped, log, lock, cl, rp>>

----------------------------------------------------------------------------
ClientStep(c) ==
  \/ Observe(c) \/ Claim(c) \/ GiveUp(c) \/ B3Begin(c)
  \/ Land(c) \/ LandAckLost(c) \/ LoseClaim(c) \/ CasMiss(c) \/ FailClose(c)
  \/ Refuse(c) \/ RefuseUnchecked(c) \/ ErrAbort(c) \/ Terminalize(c)
  \/ MergeRace(c) \/ ResetRow(c)
  \/ Conflict(c) \/ PersistIntent(c) \/ CompleteRequeue(c) \/ TxnDead(c)

ReaperStep == ReapBegin \/ ReapLockless \/ ReapScan \/ ReapRow

Operator ==
  \/ Pause \/ Resume \/ ClearHardStop \/ BypassRootWrite
  \/ \E i \in Ids : CancelQueued(i) \/ FreezeMerge(i)

Next ==
  \/ \E c \in Clients, o \in Ops :
       EnqueueInsert(c, o) \/ EnqueueAdopt(c, o) \/ EnqueueReject(c, o)
  \/ \E c \in Clients : ClientStep(c) \/ Abandon(c) \/ SessionLost(c) \/ Crash(c)
  \/ ReaperStep \/ ReaperCrash
  \/ Operator
  \/ \E i \in Ids : Expire(i)

Spec == Init /\ [][Next]_vars

(* Fairness.  A task that is not blocked runs on.  Crashes and timeouts may *)
(* recur for ever, but not every one strikes between a waiter's heartbeat   *)
(* and its claim, and not every cycle of the reaper fails.  Time passes: a  *)
(* Running row leaves its grace period and a Queued row without a waiter    *)
(* loses its heartbeat.  Nothing is assumed of operators, of waiters'       *)
(* timeouts or of new requests; races of a merge with its CL are bounded by *)
(* Budget, for a CL that changes in every round is never merged.            *)
Waited(i) == \E c \in Clients : cl[c].id = i /\ cl[c].pc \in {"wait", "claim"}
TimePasses(i) == /\ i \in Ids
                 /\ Running(i) \/ ~Waited(i)
                 /\ Expire(i)
MaxId == Budget["enqueue"] + Budget["conflict"]

Fairness ==
  /\ \A c \in Clients :
       /\ WF_vars(ClientStep(c))
       /\ \A i \in 1..MaxId : SF_vars(cl[c].id = i /\ Claim(c))
  /\ WF_vars(ReapBegin) /\ SF_vars(ReapLockless) /\ SF_vars(ReapScan)
  /\ SF_vars(ReapRow)
  /\ \A i \in 1..MaxId : SF_vars(TimePasses(i))

FairSpec == Spec /\ Fairness

----------------------------------------------------------------------------
(* Properties.                                                             *)

\* Type invariant: the values of the table, the control row and the tasks.
TypeOK ==
  /\ row \in Seq(Rows)
  /\ paused \in BOOLEAN /\ hardStopped \in BOOLEAN
  /\ root \in Nat
  /\ log \in Seq(Nat)
  /\ lock \in Clients \cup {NoOne, Reaper}
  /\ cl \in [Clients -> ClientStates]
  /\ rp \in ReaperStates
  /\ left \in [BudgetKeys -> Nat]

\* Queue order is main's advance order: rows land in the order of their ids,
\* whatever is requeued, reset, reaped or retried in between.
LandingFIFO ==
  \A m, n \in DOMAIN log : m < n => log[m] < log[n]

\* An operation lands at most once, however often it is retried, adopted,
\* replayed or requeued and however many acknowledgements are lost.
LandsAtMostOnce ==
  \A m, n \in DOMAIN log : row[log[m]].op = row[log[n]].op => m = n

\* Both: main's history is the queue's order, each operation in it once.
LandsOnceInOrder == LandingFIFO /\ LandsAtMostOnce

\* The reaper and the claim rely on it: no two rows are Running together.
AtMostOneRunning ==
  \A i, j \in Ids : Running(i) /\ Running(j) => i = j

\* What B1 admits holds for ever, although B4 inserts a successor without
\* looking: the queue never holds more rows than max_depth and (ADR-TP-10) never
\* two pushes of one path.
AdmissionBounds ==
  /\ Cardinality(ActiveIds) <= MaxDepth
  /\ \A i, j \in ActiveIds :
       /\ Kind[row[i].op] = "push" /\ Kind[row[j].op] = "push"
       /\ Path[row[i].op] = Path[row[j].op]
       => i = j

\* A superseded row is closed and its successor is a later row of the same
\* operation that supersedes no other: a waiter that follows the links waits
\* on its own operation and the chain ends.
SuccessorChain ==
  \A i \in Ids : row[i].succ # 0 =>
    /\ row[i].st = "Cancelled"
    /\ row[i].succ \in Ids /\ row[i].succ > i
    /\ row[row[i].succ].op = row[i].op
    /\ \A j \in Ids : row[j].succ = row[i].succ => j = i

\* A client told that its operation landed was told the truth.
OkMeansLanded ==
  \A c \in Clients : cl[c].res = "ok" =>
    \E n \in DOMAIN log : log[n] = cl[c].id

\* The table and main agree: exactly the Done rows have landed.
DoneIffLanded ==
  \A i \in Ids : row[i].st = "Done" <=> \E n \in DOMAIN log : log[n] = i

\* Both: what a client and what the table say of an operation is true of main,
\* also after a commit whose acknowledgement was lost.
AnswersAreTrue == OkMeansLanded /\ DoneIffLanded

\* A round lands only on the root its claim recorded and never while the queue
\* is hard-stopped: a bypass is not built upon.  (An attach that moves only
\* import refs writes no root.)
LandsOnBaseline ==
  [][\A i \in Ids : row[i].st = "Running" /\ row'[i].st = "Done" =>
       /\ ~hardStopped
       /\ Kind[row[i].op] # "attach" => root = row[i].exp]_vars

\* A terminal row is never rewritten, so a replayed answer stays true.
TerminalIsFinal ==
  [][\A i \in Ids : row[i].st \notin Active =>
       row'[i].st = row[i].st /\ row'[i].succ = row[i].succ]_vars

HasStatus(i, s) == i \in Ids /\ row[i].st = s

\* Every row that is Running, whatever became of its executor, leaves Running.
RunningEnds ==
  \A i \in 1..MaxId : HasStatus(i, "Running") ~> ~HasStatus(i, "Running")

\* No orphan blocks the head of the queue: a Queued row is claimed or closed,
\* or the queue is hard-stopped.
QueuedMoves ==
  \A i \in 1..MaxId :
    HasStatus(i, "Queued") ~> (~HasStatus(i, "Queued") \/ hardStopped)

\* Both: whatever dies, and wherever, the queue moves on.
QueueAdvances == RunningEnds /\ QueuedMoves

\* The queue implements the ticket log: requeues, resets, reaping and lost
\* acknowledgements are invisible to it.
Trunk == INSTANCE TrunkLog
           WITH tickets <- [i \in Ids |-> row[i].op], open <- ActiveIds
ImplementsTrunkLog == Trunk!Spec

=============================================================================
