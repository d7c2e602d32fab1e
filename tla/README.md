# TLA+ models of mega2

mega2 is a monorepo Git server. Its trunk `main` lives in Postgres (commits,
trees and `mega_refs` rows) and is advanced only through one database-backed
write queue, the *MonoWriteQueue*. This directory holds TLA+ models of that
core and of the components around it, the TLC instances that check them and
TLAPS proofs about them. Paths below are relative to `src/src/`; `docs/` is
`src/docs/`.

1. [Inventory](#inventory) – [how the parts interact](#how-the-parts-interact)
2. [Modules and the code](#modules-and-the-code)
3. [Runs](#runs) – [bounds](#bounds) – [fairness](#fairness)
4. [Where the documents and the code differ](#where-the-documents-and-the-code-differ)
5. [Proofs](#proofs)
6. [What is not modelled](#what-is-not-modelled) – [plan](#plan)

## Inventory

The core, in the order in which a write meets it:

| Component | State it keeps | Operations | What is hard | What makes it correct |
|---|---|---|---|---|
| MonoWriteQueue (`jupiter/service/push_queue_service.rs`, `jupiter/storage/push_queue_storage.rs`) | `push_queue` rows (Queued, Running, Done, Failed, Cancelled), `queue_control` (paused, hard_stopped, max_depth), the advisory `MONO_WRITE_LOCK` | enqueue (B1), wait and claim (B2/B2.5), execute (B3), conflict requeue (B4), terminal recovery | any number of server processes; a B3 transaction that loses its session or its commit acknowledgement; recovery statements that run without the lock | rows land in id order, once, on the root they claimed; answers are true; nothing stays Running or Queued for ever |
| Reaper (`push_queue_reaper.rs`) | none of its own | `reap_once`: cancel stale Queued rows, end orphaned Running rows, finish requeue intents, I3 repair | races executors with and without the lock; reads flags before it acts | ends exactly the orphans, finishes an intent once |
| Control plane | `queue_control` | pause, resume, clear_hard_stop, cancel, authz freeze | no lock, at any moment | never revives or rewrites a terminal row |
| Follow loops (`ceres/pack/api_tip_lander.rs`, `mono_api_service/merge.rs`, `ceres/pack/import_repo.rs`) | rounds, row followed | follow successors, retry, replay, adopt | MAX_ROUNDS, crashes, several clients on one row | an ok answer means the operation is on main |
| Path refs and tombstones (`jupiter/storage/mono_storage.rs`, `mono_api_service/merge.rs`, `logic.rs`) | `mega_refs` (main@/ and one row per path somebody cloned or pushed), `mega_ref_tombstones` | push, merge, roll-up to the ancestors, deletion, repair | a row is a view of the root tree that clients base pushes on | rows equal the root tree's subtrees, histories only grow, no landing undoes another |
| Lazy materialisation (`ceres/pack/materialize.rs`) | none of its own | check, walk, insert, bounded retries | walks the root without the lock and inserts under it | never inserts a row of an older root |
| ImportRepo attach and detach (`import_repo.rs`, `jupiter/service/import_service.rs`) | mounts in the root tree, provenance, import refs | attach, detach, adopt | only the root row is written | no row is left behind |
| Tree-hash audit (`jupiter/service/mono_write_audit.rs`) | a cursor over row ids | `inspect_once`, `reconcile_once` | pages over a table that changes | every stale row is found |
| blob_path index (`jupiter/storage/blob_path_index.rs`) | `blob_paths` rows with `indexed_push_id` | C segment after a landing, review push, compensator, policy switch | runs after the commit, outside every lock, statement by statement | watermarks are true and only grow; the index converges to main |

Around it:

| Component | State and operations | What is hard | Status |
|---|---|---|---|
| Storage event emitter (`storage_event_emitter.rs`) | admission gate, semaphore, registrations and end reports; try_emit, shutdown | reports overtake registrations; close, deadline and last drop race in the drain | `EventEmitter` |
| Redis lock (`jupiter/redis/lock.rs`) | key with token and TTL; lock, renew, unlock, drop | expiry under a live holder; lost replies; unlock in a spawned task | `RedLock` |
| Server signing keys (`contract/vault/server_signing.rs`) | one Vault secret per key, an index, a pointer; ensure, rotate | three writes under a lock that can be lost | `SigningKeys`, over `RedLock` |
| Media paging and finalisation (`media_paging_storage.rs`, `ceres/lfs/media/`) | sessions (pending, sealed, finalized), page rows and objects, tasks with lease owner and epoch, published records | uploads race the seal; late workers publish without looking at their lease; a bounded queue | `MediaFinalize` |
| Restricted root (`contract/policy/secure_*.rs`, `baseline_*.rs`, `commands/authz_audit*.rs`) | version files and pointer, protection manifest, run directories, capacity ledger | crash windows between files, reclaim of live work, plans that age | `RestrictedRoot` |
| View projection and worker (`view_worker.rs`, `view_projection_service.rs`) | root chain, projected and ready positions per filter; signal, tick, round | merged signals, reload during a round | planned |
| Configuration reload (`config/reload.rs`) | published snapshot, subscribers; reload, subscribe | a subscriber fails half-way | planned |
| Agent capture (`agent_capture_service.rs`) | staged and committed objects, leases with generations | object copied before the row commits | planned |
| Traces (`trace_publish_service.rs`, `trace_index_worker.rs`) | raw objects, ref journal, index versions | order of journal and index | later |
| MST2 snapshots (`ceres/snapshot/`) | publication receipts, retention graph | very large; behind configuration, its Postgres backend partly a seam | later |
| Webhooks, LFS, OCI, artifacts, Buck sessions, GitHub sync, authz outbox | content-addressed storage and remote I/O | mostly I/O | not planned |
| Git protocol, merge checkers, HTTP API, CLI, entities, migrations | parsing, pure checks, wiring | nothing concurrent of their own | not modelled |

### How the parts interact

A Git push, a merge of a change list or an attach is enqueued by the request
task that serves it and waits in the table for its turn. The task itself claims
its row and runs the B3 transaction under `MONO_WRITE_LOCK`; in it the ref layer
writes `main@/` and the rows of the affected paths. After the commit, outside
the lock, the C segment brings `blob_paths` up to date. Independently of all
requests, in every server process, the reaper ends what dead tasks left, the
audit deletes rows that are not views of the root tree, and the compensator
rescans the index. Readers materialise rows when they advertise a path. Nothing
but the rows, the advisory lock and two Boolean flags connects the processes,
and every one of them may die at any statement.

The models split this at the two points where the code does: `PushQueue` treats
a landing as "the root moves on", `TrunkRefs` says what a landing writes,
`BlobPathIndex` starts where a landing has committed.

Beside the trunk there are four systems that share nothing with it but the
process. Committed writes announce themselves through the storage event emitter,
which must never hold up a request and still be drained at shutdown. The signing
key with which landings are signed is created and rotated by whichever replica
holds a Redis lock. Large media files are uploaded in pages, sealed, and then
verified and published by a background task that another process may take over.
And `authz-audit` keeps its baselines, runs and evidence in a directory that
several command-line processes share under one `flock`.

## Modules and the code

`PROJECT.json` maps every definition to its lines. In all modules an operator
`X_...` just before `X` is a faulty version of `X`, used by no specification,
that shows that a property can fail.

**TrunkLog** is the promise: operations draw numbered tickets, an operation has
at most one open ticket and none after it landed, and only the lowest open
ticket lands. It knows no claims, locks, crashes or reaper.

**PushQueue** models the queue, the reaper, the control plane and the follow
loops. `row` is the table (index = id), `root` the version of `main@/`, `lock`
the advisory lock, `cl[c]` a request task, `rp` the reaper's cycle, `log` a
history variable. One action is one committed statement or transaction, or one
read whose result a later action uses:

| Code | Actions |
|---|---|
| B0/B1 enqueue: insert, adoption of a live or Done row, refusals | `EnqueueInsert`, `EnqueueAdopt`, `EnqueueReject` |
| B2 wait, timeout, B2.5 claim | `Observe`, `Abandon`, `Claim`, `GiveUp` |
| B3 | `B3Begin`, `Land`, `LandAckLost`, `LoseClaim`, `CasMiss`/`FailClose`, `Refuse`, `RefuseUnchecked`, `ErrAbort`, `Terminalize`, `MergeRace`/`ResetRow` |
| B4 | `Conflict`, `PersistIntent`, `CompleteRequeue` |
| reaper | `ReapBegin`, `ReapLockless`, `ReapScan`, `ReapRow` |
| operators | `Pause`, `Resume`, `ClearHardStop`, `CancelQueued`, `FreezeMerge` |
| faults and time | `SessionLost`, `TxnDead`, `Crash`, `ReaperCrash`, `Expire`, `BypassRootWrite` |

An uncommitted B3 transaction is invisible and its rows are locked, so its
writes are one action at the commit; `SessionLost` releases the lock under an
executor that does not know it yet. Merge checks, hooks and payloads are
nondeterministic refusals.

**TrunkRefs** models the rows. A tree assigns each directory the version of its
own files or `Absent`; a commit is known by its history, so a tip is a sequence
of commit numbers. `op[w]` is a queued operation with what its client had read
(`old`, `base`) and the tree it pushes; `walk[r]` is a materialisation with the
root it walked. `Write` is the transaction of a push or merge: the target row,
the rows above it (`RollUp`), the rows below it that continue or vanish, and the
tombstones. `Bury` deletes stale rows as the repair, the reaper and the audit
do. Of the row ids only their order matters (`older`), which the audit pages by. Notes on the abstraction:

- any path may be pushed or read, a superset of what the path policy lets
  through; `Placeholder` stands for a directory with only `.gitkeep` or one
  child, so whether a detach prunes an emptied parent is nondeterministic;
- a change list's own commits are left out: a merge continues main's tip;
- at `/` a merge skips the tree-hash test, so `NothingUndone` is about the
  paths below;
- a detach is refused while repositories are mounted below its path;
- the reaper's attach branch deletes the target's row even if it is healthy, and
  so does the model.

There are two specifications, for two questions: `DisciplinedSpec` (every writer
holds the lock and updates or excludes the rows it affects) and `Spec` (adds the
detach, which does not look at the rows above its mount, and a writer that
ignores the lock, which the code does not have but is built to survive).
`AuditedSpec` is `Spec` with an audit that ticks.

**BlobPathIndex** models the index. A root tree is the set of its (blob, path)
appearances; `landed` are the Done rows, `mark` the watermarks, `task[t]` a C
segment, review push or compensation: check for a later Done row, read the ref,
check again, one upsert per statement, read the rows, one delete per statement.
`solo` is a history variable that names the task that has been alone since it
began.

**EventEmitter** models `storage_event_emitter.rs`. `epc[e]` is a thread in
`try_emit` (select, gate, one permit, task and registration per target, start of
the lifecycle task), `task[s]` a send, `regs` and `ends` the two channels, `lc`
with `tasks`, `earlyEnds`, `joining` the lifecycle task, `spc[c]` a caller of
`shutdown`. The select arms are the `Lc*` and `Drain*` actions; `join_one` awaits,
so it is a state of the lifecycle task (`joining`) in which only the joined
task's end moves it on. A send ends at any time or never.

**RedLock** models one key in Redis and all calls of `lock()`, each with its own
lease. Every command is one step and may fail with or without having taken
effect. Time is counted in ticks since the design rests on renewing at half the
TTL: `faulty[c]` records that a renewal of `c` failed or was later than `MaxLag`.
**SigningKeys** extends it with the two callers of the lock: the pointer is read
again inside, and entry, index (read, then written) and pointer are separate
steps, between which the lock may be lost.

**MediaFinalize** models one media object with several manifests. Uploads take
three steps (check, rows, object), a seal two; `Enqueue` is `enqueue_finalize`
with its requeue, count and refusal, `Claim` the lease, then verification per
page, each write of the publication in its order (`Then`), and the completion.
Pages are good or bad, leases ahead or past.

**RestrictedRoot** models the directory and the commands. One command holds the
maintenance lock and is `cmd`; `Begin`-like actions take the lock and reserve,
later ones write one file each, `Commit` settles. `now` of a promotion may be
older than the lock. `WriteFails` fails a write before or after its rename and
aborts (a run is then tried again); `Crash` leaves everything. `evidence-append`
takes another lock and no capability, so it happens at any time and in any run,
and when it dies it leaves a temporary in the run. Bytes are units: `MaxBytes` is
what `PRODUCER_MAPPINGS` reserves, `Written` and `Bytes` what is charged. The
candidate and the report are at most as large as their reservation; the outputs of
a run and the measured content of an evidence run may be larger, for `settle_locked`
compares nothing.

`MC*` modules give the constants small values; each `Budget` there is one
question.

## Runs

Distinct states and times are those of two TLC workers, rounded.

| Run | Checks | Shows |
|---|---|---|
| `queue_faults` | `TypeOK`, `LandsOnceInOrder`, `AtMostOneRunning`, `SuccessorChain`, `AnswersAreTrue`, `TerminalIsFinal`, `LandsOnBaseline`, `ImplementsTrunkLog` | a merge and a push of one path by two tasks, with a conflict, a CL race, a lost session or acknowledgement, a frozen merge, a root moved outside the queue, crashes everywhere and the reaper (3.8 M states, 140 s) |
| `queue_control` | `AdmissionBounds` | the requeue inserts without the admission test and the bounds hold |
| `queue_liveness` | `QueueAdvances` | nothing blocks the queue for ever, through a conflict, a lost CL race and a frozen merge (18 k, 2 min of temporal checking) |
| `index_safety` | `TypeOK`, `WatermarkWitnessed`, `SoloIsExact`, `WatermarkOnlyGrows` | overlapping C segments, review push and compensation over nested prefixes, a crash and a policy switch (2.7 M, 45 s) |
| `index_converges` | `Converges` | a wrong index does not last (540 k, 40 s) |
| `refs_queue` | `TypeOK`, `ViewConsistent`, `RowKeepsHistory`, `NothingUndone` | a push, a merge, an attach, two materialisations and a reaper interleave with each other and with an audit (1.8 M, 120 s) |
| `refs_repair` | `StaleRowsGo`, `NothingUndone` | with a detach and a writer outside the queue, stale rows are noticed before something lands on them, and an audit with pages of one row gets to each (330 k, 100 s) |
| `emitter_drain` | `TypeOK`, `LifecycleSound`, `ReportedIsJoined`, `DrainEnds` | two emitting threads, a shutdown that may be cancelled, the grace period and the owner's drop: nothing is admitted late, every send is joined, shutdown ends (175 k, 2 min) |
| `signing_keys` | `TypeOK`, `LeaseDiscipline`, `NoForeignRelease`, `KeysResolve`, `HistoryKept` | two calls, each ensuring or rotating, with crashes, lost replies and late renewals: the active key resolves whatever happens, and only a renewal at fault lets a generation drop out of the index (2.7 M, 45 s) |
| `media_publish` | `TypeOK`, `SealedIsCanonical`, `Fenced`, `PublishedIsReadable`, `Settles` | one manifest uploaded and one sealed before, two workers, a fault anywhere (160 k, 35 s) |
| `media_backlog` | `Settles` | expected violation, [below](#where-the-documents-and-the-code-differ) |
| `restricted_root` | `TypeOK`, `CurrentResolves`, `ProtectedKept`, `PromotedFromExpected`, `CapacityExact` | four reservations among promotions, protections, audits and evidence runs, two crashes or failed writes, an hour (3.4 M, 70 s) |

`TypeOK` of each module is its type invariant; the other properties are
described at their definitions; some are conjunctions of named parts
(`LandsOnceInOrder`, `AnswersAreTrue`, `QueueAdvances`, `LifecycleSound`,
`DrainEnds`, `LeaseDiscipline`).

### Bounds

`Budget` bounds how often an operation or fault may happen in one behaviour;
everything that is not in it (in `PushQueue` crashes and time-outs of tasks and
of the reaper, resume, a client's retries; in `TrunkRefs` the audit) is unbounded.

- *PushQueue*: two tasks and two operations on one path are the least with a
  second executor, a successor, an adopted row and a follower at the same time;
  MAX_ROUNDS is 2 (32 in the code) so that the limit is reached, and 1 in
  `queue_liveness` and `queue_control`. Three inserts in `queue_control` are one more than
  max_depth. Each kind of fault occurs once, between any two steps: the
  properties relate two rows or two executors, and one fault makes the second
  executor.
- *BlobPathIndex*: one blob at `/f` and `/a/g` and rounds of `/` and `/a`
  give equal, nested and disjoint views; two landings make an older and a newer
  task, which with a compensator is three tasks at once.
- *TrunkRefs*: `/`, `/a`, `/a/b` give a row with an ancestor and a descendant;
  the runs with a detach have a fourth directory, so that a mount has ordinary
  directories above it. Two versions tell a push from what it overwrites; where only
  existence matters there is one. `AuditBatch` 1 makes every page that is not
  empty full, so the cursor moves in every step.

- *EventEmitter*: two emitters and two sends let one be registered while the
  other is between its spawn and its registration; an event selects one or two
  of two targets, and with two permits the capacity refusal occurs. No third send
  uses a permit again that was returned; that the permits always count the live
  sends is part of the proved invariant, for any number of sends.
- *RedLock*, *SigningKeys*: a TTL of 5 ticks renewed after 2 with a lag of at
  most 1 is the smallest with `MaxLag + Half + MaxLag < TTL`, the condition under
  which a renewal in time reaches Redis before the expiry (a named assumption:
  the code's 30 s TTL leaves 15 s). Two calls are a holder and a successor.
- *MediaFinalize*: two manifests share the by-media record; two workers are an
  old and a new holder; three epochs let a lease be lost twice. The queue holds
  both (`media_publish`) or one fewer (`media_backlog`).
- *RestrictedRoot*: two digests are a current and an old version, and
  `KeepVersions` 0 makes every unprotected one a candidate for deletion; every
  limit of the ledger (slots, tombs, peak, active runs, protected digests) is
  small enough to be hit by four reservations. A run takes one unit less or one
  more than it reserved, and a run directory has at most one temporary that counts.

Symmetry is used for tasks and digests, and in no run with a liveness property.
Deadlock is not checked in runs of `PushQueue` and `BlobPathIndex`: with the
budgets spent their systems may stop; `TrunkRefs` never does, for the audit
ticks. `SigningKeys` checks it, for time never stops. `EventEmitter`,
`MediaFinalize` and `RestrictedRoot` may end.

### Fairness

`PushQueue!Fairness`: a task that is not blocked runs on (Tokio schedules it) –
weak fairness of its steps. Crashes, time-outs and reaper failures may recur for
ever, but a process that never dies at the same statement every time completes
it some day: strong fairness of the claim and of the reaper's steps. Time
passes: a Running row leaves its grace period, a Queued row without a waiter
loses its heartbeat. Nothing is assumed of operators, new requests or a waiter's
patience. Races of a merge with its change list are bounded, since a list that
changes in every round is rightly never merged.

`BlobPathIndex!FairSpec`: tasks run on and the compensator's interval ticks
(`spawn_background` never ends by itself). `TrunkRefs!AuditedSpec`: only the
audit ticks.

`EventEmitter!Fairness`: emitting threads run on, the runtime polls ready tasks, and `tokio::select!`
picks among ready arms at random, so an arm that is ready again and again is
taken: strong fairness of the arms of the main loop. An aborted send ends at its
next await; a send that is not aborted may hang for ever. The grace period runs
out. Nobody need ever call `shutdown` or drop the owner.

`MediaFinalize!FairSpec`: spawned workers run, leases of dead workers run out,
and the client repeats its finalize request until it has an answer, which is what
the API's 202 and 429 ask of it; without a request no worker is ever spawned.
`SigningKeys` and `RestrictedRoot` have safety properties only.

## Where the documents and the code differ

One run states a sentence of the documents and finds a behaviour that
contradicts it:

- `media_backlog` (`Settles`): `docs/plan/plan-20260913.md:228` says that after a
  restart and the expiry of the lease a task can be taken up again.
  `enqueue_finalize` makes its row PENDING before it counts the active ones, and
  a refused request leaves the row there. When more than `MAX_QUEUED_FINALIZE`
  rows are PENDING and their workers died with their process, each retry is
  refused because of the others and no worker is spawned again.

Other differences that the models contain, and what holds nevertheless:

- `docs/refactoring/trunk-push.md:897` and `:996` call it unreachable that a
  fenced row is no longer Running. The recovery statements of an earlier executor
  update the row by id without the lock and can fail it under a second executor.
  `DoneIffLanded` and `TerminalIsFinal` hold: landing is conditional on the
  status.
- `blob_path_index.rs:413` says that a review push does not delete queue-indexed
  rows; it tests a watermark it read earlier. `Converges` shows that the
  compensator restores such rows.
- `trunk-push.md:1598` allows no stale row at any commit; with a nested
  `import_dir` a detach leaves the rows of the directories above it stale.
  `refs_repair` shows that nothing lands on them and that they go.
- `trunk-push.md:1595` and `:1603` continue a path's history through its
  tombstone; a push below a deleted directory gives its new row a parentless
  commit. `RowKeepsHistory` shows that the tombstone itself is kept.
- `plan-20260913.md:227` says that an old worker cannot commit a finalized state.
  `mark_session_finalized` and the publication do not compare the epoch, and a
  waiting worker may claim a task that is already COMPLETE or FAILED, so
  `lfs.media.finalized` can be emitted more than once and a COMPLETE task can run
  again. `PublishedIsReadable` holds: all workers publish the same verified content
  in the same order. A timeout while a chunk is read is
  classified as a permanent failure.
- A sweep never lowers the ledger's `total_bytes`, and `reconcile_counts_from_disk`
  is called by tests only (`plan-20260812.md:4489` and `:5536` expect it in
  operation), so that disk pressure in the ledger can refuse every create, the
  sweep's own report included, after the disk is free again.
- `secure_lifecycle.rs:5` says that stale reservations are reclaimed before
  admission. `run-init` counts active runs before that reclaim, and a refusal does
  not store it, so a stale evidence run keeps new ones out until some other
  command reserves.
- A promotion that crashes twice is charged twice when it is completed, and one
  whose reservation was reclaimed not at all; `CapacityExact` is
  about what the ledger holds back, not about what it has charged.
- The peak is an admission test and no bound: `settle_locked`
  (`secure_lifecycle.rs:252-261`) adds what was written without comparing it with
  what was reserved. The ceilings of a run's outputs go by their names
  (`secure_capacity.rs:114-125`): a bootstrap reserves 3 MiB and may write 4, and
  `measure_run_bytes` counts the temporary of an `evidence-append` that died. The
  model has both, and in it the charged and the reserved bytes do exceed `Peak`;
  creates are then refused.
- `CurrentResolves` is about states: a comparison reads the pointer and then the
  version without the lock (`authz_audit.rs:266-269`), and promotions and a sweep
  in between can take the version from under it. The branch of `promote` that repairs a pointer
  without its version is never needed (`CurrentResolves`).

## Proofs

The proofs hold for every value of the constants that satisfies the `ASSUME`s:
any sets of clients, operations, directories, calls, manifests and digests, any
limits and budgets. The
assumptions say that the parameters have their types, that names of lock holders
differ from "nobody", that (TrunkRefs, BlobPathIndex) `Under` is the order of a
finite tree of directories, and that (RedLock) a renewal at half the TTL that is
late by `MaxLag` twice still comes before the TTL is over; `redis/lock.rs` renews at
half the TTL, and a later renewal is not excluded but marks the lease `faulty`. TLC evaluates all of them for the instances. Each inductive invariant
was also checked with TLC on the instance of its run.

**PushQueue_proofs.** None of the invariants is inductive alone. `LandingFIFO`
needs `Fifo` (what runs or has landed lies before everything Queued), which
needs that no requeue gives an operation a second live row (`OneLive`), and all
need that tasks and links point at rows that exist (`TypeInv`). The invariant is
`Inv == TypeInv /\ QueueInv` with `QueueInv == OneLive /\ Fifo /\ LogOfDone /\
LandingFIFO /\ SuccessorChain`. There are some forty actions, but only a few ways
to change the table: a row is kept, closed, requeued, unclaimed, claimed or
landed, or one is added. `RowStep` states them, `NextSteps` shows that every
action is one of them (one lemma per group of actions), and each conjunct of
`QueueInv` is proved once from `RowStep`. From `Inv` follow `TypeCorrect`,
`LandsInOrder`, `LandsOnce`, `OneRunning`, `ChainsAreSound`,
`TableAgreesWithMain`, `OkIsTrue` (the run's `LandsOnceInOrder` and
`AnswersAreTrue` are conjunctions of these) and `TerminalRowsAreFinal`, and `Refinement`:
with `tickets` as the operations of the rows and `open` as the active ids every
step of the queue is a step of `TrunkLog` or a stutter.

`AdmissionHolds` follows from `RowStep` too: active rows come only from an insert
that has passed the depth and path checks, or from a requeue, which closes the row
it replaces. `LandingsAreOnBaseline` needs an invariant of its own, `Baseline`:
while a client executes under the lock the queue is not hard-stopped, and as long
as the root is the one it has read, the row it executes has that root as its
recorded baseline. A row may be reset and claimed again by another task during
the execution; the claim then records the root of that moment, and the CAS on the
root is what makes the two agree. `ExecStep` reduces the actions to three cases:
a client begins to execute, goes on executing, or is elsewhere.

**BlobPathIndex_proofs.** `Inv == TypeOK /\ QueueTasks /\ WatermarkWitnessed /\
SoloProgress`. A watermark is witnessed because what a C segment will write was
on main when it read the ref (`QueueTasks`) and landings are only added.
`SoloIsExact` needs to know how far a task that is alone has come
(`SoloProgress`: after the upserts all its appearances have rows, after the scan
what is left to delete is exactly what is too much). Theorems: `TypeCorrect`,
`WatermarksTrue`, `SoloExact`, `WatermarksGrow`.

**TrunkRefs_proofs.** `Inv == TypeInv /\ ViewConsistent`. The work is in the
lemmas on trees (subtrees of subtrees, `Graft`) and in `WriteView`: after the
transaction of a push each row is the subtree of the new root, because the rows
above hold the rolled-up trees, those below the pushed ones, and those beside
were views of parts that did not change. A materialisation is safe because it
inserts only when the root it walked is still the root. `ViewIsConsistent` is
about `DisciplinedSpec` (it is false with a detach or a bypass);
`HistoryIsKept` is about `Spec`.

`TypeCorrect` includes the audit's view of the table: `older` is a strict total
order of the rows (a push inserts several rows at once, all on one line from the
root, `OneLine`), and what the cursor has passed is closed under it, so a page
never leaves out a row (`PageFacts`). `LandingsUndoNothing` rests on the fact that
a tip names one tree: a row below the root changes only with a commit that nobody
has seen (`Fresh`), so a client's old tip either is not the row's any more or
stands for the tree it saw (`Dated`, `Based`). At the root that is false, for a
bypass may replace the tree under a tip.

**SigningKeys_proofs** covers `RedLock` and `SigningKeys`. `Renewer` says where a
renewal task can be relative to its lease; `Lease` is the arithmetic: a call
without a fault has the key, and the TTL that is left lasts until its next renewal
and `MaxLag` more. From it two holders need a fault (`LeasesAreDisciplined`).
`KeysAlwaysResolve` needs the order entry, index, pointer (`Secrets`) and no
exclusion at all; `HistoryIsKept` needs that the index a call read is still the
stored one when it writes (`Inside`, `History`), which is where the lock is used.

**MediaFinalize_proofs.** `Inv == TypeOK /\ Busy /\ Layout /\ Fencing /\
Published`. `Layout` says that rows accept one content per page and that a page
object is what the rows say, so that the comparison before the seal cannot be
overtaken by an upload that was under way. `Fencing` says that a claim always
opens an epoch no worker holds. `Reached` gives for each place of a worker in the
publication what is in place, from which `PublicationIsReadable` follows although
several workers publish at once.

**EventEmitter_proofs.** `Inv == TypeOK /\ Gates /\ Places /\ Reports /\ Count`.
Every live send task is in exactly one of: an emitter's hands, the registration
channel, the lifecycle task's table, its join (`Places`); reports agree with them
(`Reports`); the permits taken are as many as there are live tasks (`Count`, with
the cardinality theorems). With `Gates` (after the close nobody is inside the
gate, and the drain begins with an empty channel) `LifecycleIsSound` follows.

**RestrictedRoot_proofs.** `Inv == Shape /\ Files /\ Fences /\ Accounts /\
Owners`. `Fences` is what survives between two steps of a command because it holds
the lock: the pointer a promotion compared, the version it wrote, and that a plan
spares what is protected. `Accounts` says that an operation has one reservation or
tombstone and that `reserved` is the sum over the open reservations; `Owners` that
a command or a printed capability can only settle a reservation of its own kind.
`CapacityIsExact` rests on `Accounts`: a settlement finds its reservation once or
not at all, and what it charges does not matter. `Held` is stated as the cardinality of the reserved units and the sweep's
victims by how many newer candidates there are (`Surplus`), so that sums and sorting
need no induction.

Every invariant and every action property of the runs is a theorem. Only
model-checked: the liveness properties (`QueueAdvances`, `Converges`,
`StaleRowsGo`, `ReportedIsJoined`, `DrainEnds`, `Settles`), because fairness is
beyond the prover.

## What is not modelled

In the modelled components: the replay of MST2 publication receipts at the head
of `execute_b3`; `mega_blob.file_path` and the walk of immutable tree objects;
tag and change-list refs, commit contents and signatures; which paths a push may
create; `import_refs`, their CAS and the cleanup ledger; the operator's
backfill of tombstones; what events contain and how they are posted; chunk
uploads and range reads of media, `cancel_task` and the synchronous `finalize`
(called by tests only); revocation of signing keys, which is an edit of the
Vault; in the restricted root temporary files outside the
runs and their cleanup, leases (every
caller passes `NoLeases`), loss of power, the byte ceiling of the ledger file and
the directory entry limit, and what an audit compares. Time is an `Expire`-like
step, and a number only in `RedLock` and for the reclaim age.
The other components are in the second table above.

## Plan

Modules still to be written, with the properties they are for:

1. `ConfigReload` and `ViewWorker` – all subscribers agree with the published
   snapshot after success or rollback; a filter is caught up after its signal.
2. `CaptureLease` – a committed row names an object that exists.
3. A composition of `PushQueue` and `TrunkRefs` in which a landing is a `Write`,
   to state `LandsOnBaseline` and `NothingUndone` of one system.

Proofs to come, after these modules: that their invariants hold, and that the
composition implements `TrunkLog` through `PushQueue`. For the modules there are:
that the lock without faults implements a mutual exclusion stated apart, and that
the steps of a drain and of a publication decrease a measure, the safety half of
`DrainEnds` and `Settles`.
