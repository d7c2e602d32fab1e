--------------------------- MODULE MediaFinalize ----------------------------
(***************************************************************************)
(* Chunked media uploads: the paged session                                 *)
(* (src/ceres/lfs/media/service.rs), the durable finalize task with its     *)
(* lease epoch (src/jupiter/storage/media_paging_storage.rs), the workers   *)
(* that verify and publish (finalize.rs) and the order of the publication   *)
(* (publication.rs).                                                        *)
(*                                                                          *)
(* All manifests are layouts of one media object in one scope: they share   *)
(* the LFS fallback and the by-media record.  A page is good (it matches    *)
(* the canonical split) or bad.  Workers run in processes of their own; the *)
(* clock is replaced by leases and pending sessions that run out.           *)
(* cancel_task and the synchronous finalize, which only tests call, are     *)
(* left out.                                                                *)
(***************************************************************************)
EXTENDS Naturals, FiniteSets

CONSTANTS
    Manifests,      \* manifest ids
    Uploading,      \* the manifests still to be uploaded; the others were sealed before
    NPages,         \* pages of a manifest
    Workers,        \* slots for spawned run_task_worker futures
    MaxQueued,      \* MAX_QUEUED_FINALIZE
    MaxEpoch,       \* bound on lease_epoch
    MaxFaults,      \* bound on crashes, errors, expiries and leases lost by a slow worker
    None

ASSUME MediaAssumption ==
    /\ NPages \in Nat \ {0}
    /\ MaxQueued \in Nat /\ MaxEpoch \in Nat /\ MaxFaults \in Nat
    /\ Uploading \subseteq Manifests
    /\ None \notin Workers /\ None \notin Manifests

Pages == 0..(NPages - 1)
Contents == {"good", "bad"}
Uploads == Pages \X Contents

VARIABLES
    session,        \* media_session.state
    pend,           \* the pending object: its TTL counts from the first prepare
    checked,        \* page uploads that passed the checks of put_page_at
    written,        \* page uploads whose rows were accepted
    rows,           \* media_entry rows per page
    obj,            \* page objects
    sealing,        \* seal_at has compared the page objects
    task,           \* media_task.state
    owner,          \* media_task.lease_owner
    epoch,          \* media_task.lease_epoch
    lease,          \* media_task.expires_at: none, ahead or past
    retryable,      \* media_task.retryable
    pc,             \* where a worker is
    man,            \* its manifest
    page,           \* pages it has verified
    held,           \* the epoch it claimed
    wrote,          \* it created the immutable record
    permanent,      \* the error it has to record is not retryable
    fallbackObj,    \* the LFS object of the media oid
    lfsRow,         \* its lfs_objects row
    immutable,      \* the Finalized record of a manifest
    byMedia,        \* the by-media record: a manifest or None
    emitted,        \* manifests for which lfs.media.finalized was emitted
    faults          \* faults so far

upVars    == <<session, pend, checked, written, rows, obj, sealing>>
taskVars  == <<task, owner, epoch, lease, retryable>>
workVars  == <<pc, man, page, held, wrote, permanent>>
pubVars   == <<fallbackObj, lfsRow, immutable, byMedia, emitted>>
vars == <<upVars, taskVars, workVars, pubVars, faults>>

Init ==
    /\ session = [m \in Manifests |-> IF m \in Uploading THEN "none" ELSE "sealed"]
    /\ pend = [m \in Manifests |-> IF m \in Uploading THEN "none" ELSE "live"]
    /\ checked = [m \in Manifests |-> {}]
    /\ written = [m \in Manifests |-> {}]
    /\ rows = [m \in Manifests |-> [p \in Pages |-> IF m \in Uploading THEN "none" ELSE "good"]]
    /\ obj = [m \in Manifests |-> [p \in Pages |-> IF m \in Uploading THEN "none" ELSE "good"]]
    /\ sealing = [m \in Manifests |-> m \notin Uploading]
    /\ task = [m \in Manifests |-> "none"]
    /\ owner = [m \in Manifests |-> None]
    /\ epoch = [m \in Manifests |-> 0]
    /\ lease = [m \in Manifests |-> "none"]
    /\ retryable = [m \in Manifests |-> TRUE]
    /\ pc = [w \in Workers |-> "idle"]
    /\ man = [w \in Workers |-> None]
    /\ page = [w \in Workers |-> 0]
    /\ held = [w \in Workers |-> 0]
    /\ wrote = [w \in Workers |-> FALSE]
    /\ permanent = [w \in Workers |-> FALSE]
    /\ fallbackObj = FALSE /\ lfsRow = FALSE
    /\ immutable = [m \in Manifests |-> FALSE]
    /\ byMedia = None
    /\ emitted = {}
    /\ faults = 0

-----------------------------------------------------------------------------
(* Preparing, uploading and sealing.  Requests run concurrently: a set       *)
(* stands for any number of requests that are at the same point.             *)

\* prepare_at, first half: the session row, unless there is one.
UpsertSession(m) ==
    /\ session[m] = "none"
    /\ session' = [session EXCEPT ![m] = "pending"]
    /\ UNCHANGED <<pend, checked, written, rows, obj, sealing, taskVars, workVars, pubVars, faults>>

\* prepare_at, second half: the pending object; an expired one is renewed.
WritePending(m) ==
    /\ session[m] # "none" /\ pend[m] # "live"
    /\ pend' = [pend EXCEPT ![m] = "live"]
    /\ UNCHANGED <<session, checked, written, rows, obj, sealing, taskVars, workVars, pubVars, faults>>

Fault == faults < MaxFaults /\ faults' = faults + 1

\* The pending object outlives its TTL.
PendingExpires(m) ==
    /\ pend[m] = "live" /\ Fault
    /\ pend' = [pend EXCEPT ![m] = "expired"]
    /\ UNCHANGED <<session, checked, written, rows, obj, sealing, taskVars, workVars, pubVars>>

\* put_page_at: the checks, read without a lock.
PutCheck(m, u) ==
    /\ pend[m] = "live" /\ session[m] = "pending"
    /\ u \notin checked[m]
    /\ checked' = [checked EXCEPT ![m] = @ \cup {u}]
    /\ UNCHANGED <<session, pend, written, rows, obj, sealing, taskVars, workVars, pubVars, faults>>

\* put_page_entries: the rows of a page are written once; the same content is
\* accepted again, another is a conflict.
PutRows(m, u) ==
    /\ u \in checked[m] \ written[m]
    /\ rows[m][u[1]] \in {"none", u[2]}
    /\ rows' = [rows EXCEPT ![m][u[1]] = u[2]]
    /\ written' = [written EXCEPT ![m] = @ \cup {u}]
    /\ UNCHANGED <<session, pend, checked, obj, sealing, taskVars, workVars, pubVars, faults>>

RowsAccepted_Mutant(m, u) == u \in checked[m]
RowsAccepted(m, u) == u \in written[m]

\* put_page_at: the page object, after the rows, whatever the session has become.
PutObject(m, u) ==
    /\ RowsAccepted(m, u) /\ obj[m][u[1]] # u[2]
    /\ obj' = [obj EXCEPT ![m][u[1]] = u[2]]
    /\ UNCHANGED <<session, pend, checked, written, rows, sealing, taskVars, workVars, pubVars, faults>>

\* seal_at compares the page objects with the canonical split.
SealCheck(m) ==
    /\ pend[m] = "live" /\ session[m] = "pending" /\ ~sealing[m]
    /\ \A p \in Pages : obj[m][p] = "good"
    /\ sealing' = [sealing EXCEPT ![m] = TRUE]
    /\ UNCHANGED <<session, pend, checked, written, rows, obj, taskVars, workVars, pubVars, faults>>

\* seal_session: under the row lock, every page must have rows.
SealSession(m) ==
    /\ sealing[m] /\ session[m] = "pending"
    /\ \A p \in Pages : rows[m][p] # "none"
    /\ session' = [session EXCEPT ![m] = "sealed"]
    /\ UNCHANGED <<pend, checked, written, rows, obj, sealing, taskVars, workVars, pubVars, faults>>

-----------------------------------------------------------------------------
(* enqueue_finalize                                                         *)

Sealed(m) == session[m] \in {"sealed", "finalized"}

\* A complete task is answered and a permanent failure refused.
Admitted(m) == task[m] # "complete" /\ (task[m] = "failed" => retryable[m])

\* ensure_task and requeue_failed_task store the state (the stage is "queued").
NewState_Mutant == "queued"
NewState == "pending"

\* The task is created, or requeued after a retryable failure; a pending task
\* that exceeds the capacity is refused but stays.
Enqueue(w, m) ==
    LET requeued == task[m] = "failed"
        state == IF task[m] = "none" \/ requeued THEN NewState ELSE task[m]
        active == {n \in Manifests : n = m \/ task[n] \in {"pending", "running"}}
    IN
    /\ Sealed(m) /\ pc[w] = "idle" /\ Admitted(m)
    /\ task' = [task EXCEPT ![m] = state]
    /\ owner' = IF requeued THEN [owner EXCEPT ![m] = None] ELSE owner
    /\ lease' = IF requeued THEN [lease EXCEPT ![m] = "none"] ELSE lease
    /\ IF state = "pending" /\ Cardinality(active) > MaxQueued
       THEN UNCHANGED <<pc, man>>
       ELSE /\ pc' = [pc EXCEPT ![w] = "waiting"]
            /\ man' = [man EXCEPT ![w] = m]
    /\ UNCHANGED <<epoch, retryable, page, held, wrote, permanent, upVars, pubVars, faults>>

-----------------------------------------------------------------------------
(* run_task_worker                                                          *)

Goto(w, s) == pc' = [pc EXCEPT ![w] = s]

\* The future is over.
Idle(w) ==
    /\ Goto(w, "idle")
    /\ man' = [man EXCEPT ![w] = None]
    /\ page' = [page EXCEPT ![w] = 0]
    /\ held' = [held EXCEPT ![w] = 0]
    /\ wrote' = [wrote EXCEPT ![w] = FALSE]
    /\ permanent' = [permanent EXCEPT ![w] = FALSE]

Expired_Mutant(m) == lease[m] = "none"
Expired(m) == lease[m] # "ahead"

\* Every future claims under an owner name of its own.
HeldByOther(m) == owner[m] # None /\ ~Expired(m) /\ task[m] = "running"

NewEpoch_Mutant(m) == IF owner[m] = None THEN epoch[m] + 1 ELSE epoch[m]
NewEpoch(m) == IF Expired(m) \/ owner[m] = None THEN epoch[m] + 1 ELSE epoch[m]

\* The permit is there; claim_or_renew_lease looks at the lease but not at what
\* became of the task since it was enqueued.
Claim(w) ==
    LET m == man[w] IN
    /\ pc[w] = "waiting" /\ ~HeldByOther(m) /\ NewEpoch(m) <= MaxEpoch
    /\ task' = [task EXCEPT ![m] = "running"]
    /\ owner' = [owner EXCEPT ![m] = w]
    /\ epoch' = [epoch EXCEPT ![m] = NewEpoch(m)]
    /\ lease' = [lease EXCEPT ![m] = "ahead"]
    /\ held' = [held EXCEPT ![w] = NewEpoch(m)]
    /\ Goto(w, "start")
    /\ UNCHANGED <<retryable, man, page, wrote, permanent, upVars, pubVars, faults>>

ClaimConflict(w) ==
    /\ pc[w] = "waiting" /\ HeldByOther(man[w])
    /\ Idle(w)
    /\ UNCHANGED <<upVars, taskVars, pubVars, faults>>

\* The body returns an error to record.
Fail(w, perm) ==
    /\ Goto(w, "failing")
    /\ permanent' = [permanent EXCEPT ![w] = perm]
    /\ UNCHANGED <<man, page, held, wrote>>

Current(w) == held[w] = epoch[man[w]]

\* run_finalize_body: the pending object must not have expired.
Start(w) ==
    /\ pc[w] = "start"
    /\ IF pend[man[w]] = "live"
       THEN Goto(w, "verify") /\ UNCHANGED <<man, page, held, wrote, permanent>>
       ELSE Fail(w, TRUE)
    /\ UNCHANGED <<upVars, taskVars, pubVars, faults>>

\* update_task_progress: the current epoch renews the lease, an old one is
\* refused.
Progress(w, ok) ==
    IF Current(w)
    THEN /\ lease' = [lease EXCEPT ![man[w]] = "ahead"]
         /\ ok
    ELSE Fail(w, FALSE) /\ UNCHANGED lease

\* rebuild_and_verify: a page and its progress update.
VerifyPage(w) ==
    /\ pc[w] = "verify" /\ page[w] < NPages
    /\ IF rows[man[w]][page[w]] = "good"
       THEN Progress(w, page' = [page EXCEPT ![w] = @ + 1] /\ UNCHANGED <<pc, man, held, wrote, permanent>>)
       ELSE Fail(w, TRUE) /\ UNCHANGED lease
    /\ UNCHANGED <<task, owner, epoch, retryable, upVars, pubVars, faults>>

\* All bytes are verified: the last two progress updates before the publication.
BeginPublish(w) ==
    /\ pc[w] = "verify" /\ page[w] = NPages
    /\ Progress(w, Goto(w, "fallback") /\ UNCHANGED <<man, page, held, wrote, permanent>>)
    /\ UNCHANGED <<task, owner, epoch, retryable, upVars, pubVars, faults>>

-----------------------------------------------------------------------------
(* publish_verified_layout: nothing here looks at the lease                  *)

\* The order of the publication.
Then_FinalizeFirst == [lfsRow |-> "finalize", finalize |-> "immutable", immutable |-> "byMedia", byMedia |-> "complete"]
Then_DiscoveryFirst == [lfsRow |-> "immutable", immutable |-> "byMedia", byMedia |-> "finalize", finalize |-> "complete"]
Then == [lfsRow |-> "immutable", immutable |-> "finalize", finalize |-> "byMedia", byMedia |-> "complete"]

\* put_fallback_idempotent: the object, unless it is there, and its row.
PutFallback(w) ==
    /\ pc[w] = "fallback"
    /\ fallbackObj' = TRUE
    /\ Goto(w, "lfsRow")
    /\ UNCHANGED <<lfsRow, immutable, byMedia, emitted, man, page, held, wrote, permanent, upVars, taskVars, faults>>

EnsureLfsRow(w) ==
    /\ pc[w] = "lfsRow" /\ fallbackObj
    /\ lfsRow' = TRUE
    /\ Goto(w, Then.lfsRow)
    /\ UNCHANGED <<fallbackObj, immutable, byMedia, emitted, man, page, held, wrote, permanent, upVars, taskVars, faults>>

\* put_immutable_identity: exists, and if not, put.
LookIdentity(w) ==
    /\ pc[w] = "immutable"
    /\ Goto(w, IF immutable[man[w]] THEN Then.immutable ELSE "putIdentity")
    /\ UNCHANGED <<man, page, held, wrote, permanent, upVars, taskVars, pubVars, faults>>

PutIdentity(w) ==
    /\ pc[w] = "putIdentity"
    /\ immutable' = [immutable EXCEPT ![man[w]] = TRUE]
    /\ wrote' = [wrote EXCEPT ![w] = TRUE]
    /\ Goto(w, Then.immutable)
    /\ UNCHANGED <<fallbackObj, lfsRow, byMedia, emitted, man, page, held, permanent, upVars, taskVars, faults>>

mark_session_finalized(w) ==
    /\ pc[w] = "finalize" /\ Sealed(man[w])
    /\ session' = [session EXCEPT ![man[w]] = "finalized"]
    /\ Goto(w, Then.finalize)
    /\ UNCHANGED <<pend, checked, written, rows, obj, sealing, man, page, held, wrote, permanent, taskVars, pubVars, faults>>

\* put_by_media; the event follows without an await when this worker created
\* the immutable record.
PutByMedia(w) ==
    /\ pc[w] = "byMedia"
    /\ byMedia' = man[w]
    /\ emitted' = IF wrote[w] THEN emitted \cup {man[w]} ELSE emitted
    /\ Goto(w, Then.byMedia)
    /\ UNCHANGED <<fallbackObj, lfsRow, immutable, man, page, held, wrote, permanent, upVars, taskVars, faults>>

-----------------------------------------------------------------------------
(* The end of run_task_worker                                               *)

\* complete_task: with the current epoch, task and session in one transaction.
complete_task(w) ==
    LET m == man[w] IN
    /\ pc[w] = "complete"
    /\ IF Current(w)
       THEN /\ task' = [task EXCEPT ![m] = "complete"]
            /\ lease' = [lease EXCEPT ![m] = "none"]
            /\ session' = [session EXCEPT ![m] = "finalized"]
       ELSE UNCHANGED <<task, lease, session>>
    /\ Idle(w)
    /\ UNCHANGED <<owner, epoch, retryable, pend, checked, written, rows, obj, sealing, pubVars, faults>>

\* fail_task: with the current epoch; the lease is released.
fail_task(w) ==
    LET m == man[w] IN
    /\ pc[w] = "failing"
    /\ IF Current(w)
       THEN /\ task' = [task EXCEPT ![m] = "failed"]
            /\ retryable' = [retryable EXCEPT ![m] = ~permanent[w]]
            /\ owner' = [owner EXCEPT ![m] = None]
            /\ lease' = [lease EXCEPT ![m] = "none"]
       ELSE UNCHANGED <<task, retryable, owner, lease>>
    /\ Idle(w)
    /\ UNCHANGED <<epoch, upVars, pubVars, faults>>

-----------------------------------------------------------------------------
(* Faults                                                                   *)

Body == {"start", "verify", "fallback", "lfsRow", "immutable", "putIdentity", "finalize", "byMedia"}
Working == Body \cup {"complete", "failing"}

\* A call in the body fails: a storage error is retryable; a damaged chunk or an
\* I/O timeout while verifying is not.
BodyError(w) ==
    /\ pc[w] \in Body /\ Fault
    /\ \/ Fail(w, FALSE)
       \/ pc[w] = "verify" /\ Fail(w, TRUE)
    /\ UNCHANGED <<upVars, taskVars, pubVars>>

\* The claim, complete_task or fail_task fails, or the process dies.
Gone(w) ==
    /\ pc[w] # "idle" /\ Fault
    /\ Idle(w)
    /\ UNCHANGED <<upVars, taskVars, pubVars>>

HolderAlive(m) == \E w \in Workers : pc[w] \in Working /\ man[w] = m /\ held[w] = epoch[m]

\* The lease runs out; on a worker that is alive only if it is too slow.
LeaseRunsOut(m) ==
    /\ lease[m] = "ahead"
    /\ lease' = [lease EXCEPT ![m] = "past"]
    /\ IF HolderAlive(m) THEN Fault ELSE UNCHANGED faults
    /\ UNCHANGED <<task, owner, epoch, retryable, upVars, workVars, pubVars>>

-----------------------------------------------------------------------------

Upload(m) ==
    \/ UpsertSession(m) \/ WritePending(m) \/ PendingExpires(m)
    \/ \E u \in Uploads : PutCheck(m, u) \/ PutRows(m, u) \/ PutObject(m, u)
    \/ SealCheck(m) \/ SealSession(m)

Work(w) ==
    \/ Claim(w) \/ ClaimConflict(w) \/ Start(w) \/ VerifyPage(w) \/ BeginPublish(w)
    \/ PutFallback(w) \/ EnsureLfsRow(w) \/ LookIdentity(w) \/ PutIdentity(w)
    \/ mark_session_finalized(w) \/ PutByMedia(w)
    \/ complete_task(w) \/ fail_task(w)

Next ==
    \/ \E m \in Manifests : Upload(m) \/ LeaseRunsOut(m) \/ \E w \in Workers : Enqueue(w, m)
    \/ \E w \in Workers : Work(w) \/ BodyError(w) \/ Gone(w)

Spec == Init /\ [][Next]_vars

\* Spawned workers run, leases of dead workers run out, and the client repeats
\* its finalize request until the task has settled (a free slot is not something
\* the code waits for, hence strong fairness).
FairSpec ==
    /\ Spec
    /\ \A w \in Workers : WF_vars(Work(w))
    /\ \A m \in Manifests :
          /\ WF_vars(LeaseRunsOut(m) /\ UNCHANGED faults)
          /\ SF_vars(\E w \in Workers : Enqueue(w, m))

-----------------------------------------------------------------------------
(* Properties                                                               *)

\* The type invariant.
TypeOK ==
    /\ session \in [Manifests -> {"none", "pending", "sealed", "finalized"}]
    /\ pend \in [Manifests -> {"none", "live", "expired"}]
    /\ checked \in [Manifests -> SUBSET Uploads]
    /\ written \in [Manifests -> SUBSET Uploads]
    /\ rows \in [Manifests -> [Pages -> {"none"} \cup Contents]]
    /\ obj \in [Manifests -> [Pages -> {"none"} \cup Contents]]
    /\ sealing \in [Manifests -> BOOLEAN]
    /\ task \in [Manifests -> {"none", "pending", "running", "complete", "failed"}]
    /\ owner \in [Manifests -> Workers \cup {None}]
    /\ epoch \in [Manifests -> 0..MaxEpoch]
    /\ lease \in [Manifests -> {"none", "ahead", "past"}]
    /\ retryable \in [Manifests -> BOOLEAN]
    /\ pc \in [Workers -> {"idle", "waiting"} \cup Working]
    /\ man \in [Workers -> Manifests \cup {None}]
    /\ page \in [Workers -> 0..NPages]
    /\ held \in [Workers -> 0..MaxEpoch]
    /\ wrote \in [Workers -> BOOLEAN] /\ permanent \in [Workers -> BOOLEAN]
    /\ fallbackObj \in BOOLEAN /\ lfsRow \in BOOLEAN
    /\ immutable \in [Manifests -> BOOLEAN]
    /\ byMedia \in Manifests \cup {None}
    /\ emitted \subseteq Manifests
    /\ faults \in 0..MaxFaults

\* What was sealed is the canonical layout and stays it: seal_at compares the
\* page objects but the workers read the rows, and uploads that passed their
\* check before the seal may write after it.
SealedIsCanonical ==
    \A m \in Manifests : Sealed(m) =>
        \A p \in Pages : rows[m][p] = "good" /\ obj[m][p] = "good"

\* The lease epoch fences: no two workers of a task hold the same epoch, and the
\* one that holds the current epoch is the one the row names, on a running task.
\* complete_task and fail_task compare nothing but the epoch.
Fenced ==
    /\ \A v, w \in Workers :
          v # w /\ pc[v] \in Working /\ pc[w] \in Working /\ man[v] = man[w] => held[v] # held[w]
    /\ \A w \in Workers :
          pc[w] \in Working /\ Current(w) => task[man[w]] = "running" /\ owner[man[w]] = w

\* A finalized session, a by-media record and a complete task are there only
\* once everything a reader follows from them is: the LFS object and its row, the
\* immutable record and, for by-media, the finalized session; and
\* lfs.media.finalized is emitted only for what a receiver can read.  Late
\* workers, crashes and repeated finalizations do not change that.
PublishedIsReadable ==
    /\ \A m \in Manifests :
          session[m] = "finalized" => fallbackObj /\ lfsRow /\ immutable[m]
    /\ byMedia # None => session[byMedia] = "finalized"
    /\ \A m \in Manifests : task[m] = "complete" => session[m] = "finalized" /\ byMedia # None
    /\ \A m \in emitted : session[m] = "finalized" /\ immutable[m] /\ byMedia # None

\* A task that was enqueued is finalized, or refused for good, whatever crashes,
\* as long as the client repeats its request: a task left running by a dead
\* worker is taken over when its lease is past.  (A run that used up MaxEpoch
\* says nothing.)
Settles ==
    \A m \in Manifests :
        (task[m] # "none") ~>
            \/ session[m] = "finalized"
            \/ task[m] = "failed" /\ ~retryable[m]
            \/ \E n \in Manifests : epoch[n] = MaxEpoch

=============================================================================
