---------------------------- MODULE EventEmitter ----------------------------
(***************************************************************************)
(* The runtime of the outgoing storage events                              *)
(* (src/jupiter/service/storage_event_emitter.rs): try_emit admits an event *)
(* under a gate and spawns one send task per target, each under a permit;   *)
(* one lifecycle task receives the registrations and the tasks' end reports *)
(* over two channels, joins the tasks and, after shutdown or when the last  *)
(* owner of the emitter is dropped, drains what is left.                    *)
(*                                                                          *)
(* Left out: what an event contains and how it is posted (a send task runs  *)
(* until it ends by itself or is aborted), the drop counters and the log    *)
(* lines.  A disabled emitter admits nothing and is not modelled.           *)
(***************************************************************************)
EXTENDS Naturals, Sequences, FiniteSets

CONSTANTS
    Emitters,       \* threads that commit a write and call try_emit
    Callers,        \* threads that call shutdown
    NTargets,       \* configured targets; an event selects 1..NTargets of them
    MaxInFlight,    \* [storage_events] max_in_flight
    MaxSeq,         \* bound on the send tasks ever spawned
    None

ASSUME EmitterAssumption ==
    /\ NTargets \in Nat \ {0}
    /\ MaxInFlight \in Nat \ {0}
    /\ MaxSeq \in Nat \ {0}
    /\ None \notin Emitters

Seqs == 1..MaxSeq

VARIABLES
    closed,         \* Gate.closed
    graceOver,      \* the instant Gate.close_deadline has passed
    gate,           \* the emitter that holds the gate's mutex, or None
    epc,            \* where an emitter is in try_emit
    left,           \* selected targets an emitter still has to walk
    current,        \* the task spawned and not yet registered, or 0
    accepted,       \* a registration of this call was sent
    permits,        \* permits left in the semaphore
    nextSeq,        \* Inner.next_seq, the last sequence number given
    pending,        \* Inner.pending (Inner.in_flight moves with it)
    task,           \* the life of each send task
    aborting,       \* tasks whose handle was aborted
    regs,           \* the registration channel
    ends,           \* the channel of ReapSignal reports
    owner,          \* some StorageEventEmitter still owns Inner
    shutdownTx,     \* the watch channel of the shutdown signal
    spc,            \* where a caller is in shutdown
    lc,             \* where the lifecycle task is
    joining,        \* tasks the lifecycle task is awaiting
    tasks,          \* its registrations, by sequence number
    earlyEnds,      \* reports that came before their registration
    ownerGone,      \* it stopped serving because the last owner had gone
    aborted,        \* the drain has aborted its tasks
    regsClosed,     \* the drain has seen the channel closed
    drainComplete   \* Inner.drain_complete

gateVars  == <<closed, graceOver, gate>>
emitVars  == <<epc, left, current, accepted>>
taskVars  == <<permits, nextSeq, pending, task, aborting>>
chanVars  == <<regs, ends>>
ownVars   == <<owner, shutdownTx, spc>>
lcVars    == <<lc, joining, tasks, earlyEnds, ownerGone, aborted, regsClosed, drainComplete>>
vars == <<gateVars, emitVars, taskVars, chanVars, ownVars, lcVars>>

Init ==
    /\ closed = FALSE /\ graceOver = FALSE /\ gate = None
    /\ epc = [e \in Emitters |-> "idle"]
    /\ left = [e \in Emitters |-> 0]
    /\ current = [e \in Emitters |-> 0]
    /\ accepted = [e \in Emitters |-> FALSE]
    /\ permits = MaxInFlight /\ nextSeq = 0 /\ pending = 0
    /\ task = [s \in Seqs |-> "none"]
    /\ aborting = {}
    /\ regs = <<>> /\ ends = <<>>
    /\ owner = TRUE /\ shutdownTx = FALSE
    /\ spc = [c \in Callers |-> "idle"]
    /\ lc = "off" /\ joining = {} /\ tasks = {} /\ earlyEnds = {}
    /\ ownerGone = FALSE /\ aborted = FALSE /\ regsClosed = FALSE /\ drainComplete = FALSE

-----------------------------------------------------------------------------
(* try_emit                                                                 *)

\* The checks before the gate is taken: admission open, the event projects and
\* selects n targets.  A refused event changes nothing.
EmitSelect(e, n) ==
    /\ owner /\ epc[e] = "idle"
    /\ nextSeq < MaxSeq
    /\ gate = None /\ ~closed
    /\ epc' = [epc EXCEPT ![e] = "select"]
    /\ left' = [left EXCEPT ![e] = n]
    /\ accepted' = [accepted EXCEPT ![e] = FALSE]
    /\ UNCHANGED <<current, gateVars, taskVars, chanVars, ownVars, lcVars>>

StillOpen_Mutant == TRUE
StillOpen == ~closed

HasPermit == permits > 0

\* The gate is taken and admission checked again.
EmitLock(e) ==
    /\ epc[e] = "select" /\ gate = None
    /\ IF StillOpen
       THEN epc' = [epc EXCEPT ![e] = "fanout"] /\ gate' = e
       ELSE epc' = [epc EXCEPT ![e] = "idle"] /\ UNCHANGED gate
    /\ UNCHANGED <<closed, graceOver, left, current, accepted,
                   taskVars, chanVars, ownVars, lcVars>>

\* No permit: this target is dropped.
EmitNoPermit(e) ==
    /\ epc[e] = "fanout" /\ left[e] > 0 /\ ~HasPermit
    /\ left' = [left EXCEPT ![e] = @ - 1]
    /\ UNCHANGED <<epc, current, accepted, gateVars, taskVars, chanVars, ownVars, lcVars>>

\* A permit: the accounting is reserved and the send task spawned; it may run
\* and end before its registration is sent.
EmitSpawn(e) ==
    /\ epc[e] = "fanout" /\ left[e] > 0 /\ HasPermit /\ nextSeq < MaxSeq
    /\ permits' = permits - 1
    /\ nextSeq' = nextSeq + 1
    /\ pending' = pending + 1
    /\ task' = [task EXCEPT ![nextSeq + 1] = "running"]
    /\ current' = [current EXCEPT ![e] = nextSeq + 1]
    /\ left' = [left EXCEPT ![e] = @ - 1]
    /\ epc' = [epc EXCEPT ![e] = "register"]
    /\ UNCHANGED <<accepted, aborting, gateVars, chanVars, ownVars, lcVars>>

\* The registration is sent.  When the lifecycle task has dropped the receiver
\* the send fails: the slot is given back and the task aborted.
EmitRegister(e) ==
    /\ epc[e] = "register"
    /\ epc' = [epc EXCEPT ![e] = "fanout"]
    /\ current' = [current EXCEPT ![e] = 0]
    /\ IF lc = "done"
       THEN /\ pending' = pending - 1
            /\ permits' = permits + 1
            /\ aborting' = aborting \cup {current[e]}
            /\ UNCHANGED <<regs, accepted>>
       ELSE /\ regs' = Append(regs, current[e])
            /\ accepted' = [accepted EXCEPT ![e] = TRUE]
            /\ UNCHANGED <<pending, permits, aborting>>
    /\ UNCHANGED <<left, nextSeq, task, ends, gateVars, ownVars, lcVars>>

EmitUnlock(e) ==
    /\ epc[e] = "fanout" /\ (left[e] = 0 \/ nextSeq = MaxSeq)
    /\ gate' = None
    /\ epc' = [epc EXCEPT ![e] = IF accepted[e] THEN "start" ELSE "idle"]
    /\ UNCHANGED <<closed, graceOver, left, current, accepted,
                   taskVars, chanVars, ownVars, lcVars>>

ensure_lifecycle_started == lc' = IF lc = "off" THEN "top" ELSE lc

EmitStart(e) ==
    /\ epc[e] = "start"
    /\ ensure_lifecycle_started
    /\ epc' = [epc EXCEPT ![e] = "idle"]
    /\ UNCHANGED <<left, current, accepted, joining, tasks, earlyEnds, ownerGone, aborted, regsClosed,
                   drainComplete, gateVars, taskVars, chanVars, ownVars>>

-----------------------------------------------------------------------------
(* The send tasks                                                           *)

HoldPermit_Mutant == permits' = permits + 1
HoldPermit == UNCHANGED permits

\* The future ends (a response, a panic or the abort) and drops its ReapSignal;
\* the permit stays with the registration until the join.
TaskReports(s) ==
    /\ task[s] = "running"
    /\ task' = [task EXCEPT ![s] = "reported"]
    /\ ends' = Append(ends, s)
    /\ HoldPermit
    /\ UNCHANGED <<nextSeq, pending, aborting, regs, gateVars, emitVars, ownVars, lcVars>>

\* Its JoinHandle becomes ready.
TaskFinishes(s) ==
    /\ task[s] = "reported"
    /\ task' = [task EXCEPT ![s] = "finished"]
    /\ UNCHANGED <<permits, nextSeq, pending, aborting, gateVars, emitVars, chanVars, ownVars, lcVars>>

-----------------------------------------------------------------------------
(* shutdown and the owners                                                  *)

ShutdownClose(c) ==
    /\ owner /\ spc[c] = "idle" /\ gate = None
    /\ closed' = TRUE
    /\ spc' = [spc EXCEPT ![c] = "closed"]
    /\ UNCHANGED <<graceOver, gate, owner, shutdownTx, emitVars, taskVars, chanVars, lcVars>>

ShutdownSignal(c) ==
    /\ spc[c] = "closed"
    /\ ensure_lifecycle_started
    /\ shutdownTx' = TRUE
    /\ spc' = [spc EXCEPT ![c] = "waiting"]
    /\ UNCHANGED <<owner, joining, tasks, earlyEnds, ownerGone, aborted, regsClosed, drainComplete,
                   gateVars, emitVars, taskVars, chanVars>>

\* The wait loop reads the flag after every notification or 20 ms timeout.
ShutdownReturns(c) ==
    /\ spc[c] = "waiting" /\ drainComplete
    /\ spc' = [spc EXCEPT ![c] = "returned"]
    /\ UNCHANGED <<owner, shutdownTx, gateVars, emitVars, taskVars, chanVars, lcVars>>

\* The caller's future is dropped while it waits.
ShutdownCancelled(c) ==
    /\ spc[c] = "waiting"
    /\ spc' = [spc EXCEPT ![c] = "cancelled"]
    /\ UNCHANGED <<owner, shutdownTx, gateVars, emitVars, taskVars, chanVars, lcVars>>

\* The grace period of the first close runs out.
GraceRunsOut ==
    /\ closed /\ ~graceOver
    /\ graceOver' = TRUE
    /\ UNCHANGED <<closed, gate, emitVars, taskVars, chanVars, ownVars, lcVars>>

\* The last StorageEventEmitter is dropped; nobody is inside a call.
DropOwner ==
    /\ owner
    /\ \A e \in Emitters : epc[e] = "idle"
    /\ \A c \in Callers : spc[c] \in {"idle", "returned", "cancelled"}
    /\ owner' = FALSE
    /\ UNCHANGED <<shutdownTx, spc, gateVars, emitVars, taskVars, chanVars, lcVars>>

-----------------------------------------------------------------------------
(* run_lifecycle: the serving loop                                          *)

ForgetEarlyEnd_Mutant(s) == UNCHANGED earlyEnds
ForgetEarlyEnd(s) == earlyEnds' = earlyEnds \ {s}

KeepEarlyEnd_Mutant(s) == UNCHANGED earlyEnds
KeepEarlyEnd(s) == earlyEnds' = earlyEnds \cup {s}

\* What the lifecycle task does with a registration or a report while it serves
\* and while it collects: a report that came first is kept in early_ends.
TakeRegistration ==
    LET s == Head(regs) IN
    /\ regs # <<>>
    /\ regs' = Tail(regs)
    /\ IF s \in earlyEnds
       THEN ForgetEarlyEnd(s) /\ joining' = {s} /\ UNCHANGED tasks
       ELSE tasks' = tasks \cup {s} /\ UNCHANGED <<earlyEnds, joining>>

LcTop ==
    /\ lc = "top" /\ joining = {}
    /\ lc' = IF shutdownTx THEN "collect" ELSE "select"
    /\ UNCHANGED <<joining, tasks, earlyEnds, ownerGone, aborted, regsClosed, drainComplete,
                   gateVars, emitVars, taskVars, chanVars, ownVars>>

LcRegistration ==
    /\ lc = "select" /\ TakeRegistration
    /\ lc' = "top"
    /\ UNCHANGED <<ends, ownerGone, aborted, regsClosed, drainComplete, gateVars, emitVars, taskVars, ownVars>>

OnOwnerGone_Mutant == "done"
OnOwnerGone == "collect"

\* The channel closes exactly when the last owner has gone.
LcOwnerGone ==
    /\ lc = "select" /\ regs = <<>> /\ ~owner
    /\ lc' = OnOwnerGone
    /\ ownerGone' = TRUE
    /\ UNCHANGED <<joining, tasks, earlyEnds, aborted, regsClosed, drainComplete,
                   gateVars, emitVars, taskVars, chanVars, ownVars>>

LcEnd ==
    LET s == Head(ends) IN
    /\ lc = "select" /\ ends # <<>>
    /\ ends' = Tail(ends)
    /\ lc' = "top"
    /\ IF s \in tasks
       THEN tasks' = tasks \ {s} /\ joining' = {s} /\ UNCHANGED earlyEnds
       ELSE KeepEarlyEnd(s) /\ UNCHANGED <<tasks, joining>>
    /\ UNCHANGED <<regs, ownerGone, aborted, regsClosed, drainComplete, gateVars, emitVars, taskVars, ownVars>>

\* shutdown.changed() is ready after the signal, and for ever once its sender is
\* dropped with Inner.
LcChanged ==
    /\ lc = "select" /\ (shutdownTx \/ ~owner)
    /\ lc' = "top"
    /\ UNCHANGED <<joining, tasks, earlyEnds, ownerGone, aborted, regsClosed, drainComplete,
                   gateVars, emitVars, taskVars, chanVars, ownVars>>

\* join_one: the handle is awaited, then the permit and the counters go back.
LcJoined(s) ==
    /\ s \in joining /\ task[s] = "finished"
    /\ joining' = joining \ {s}
    /\ task' = [task EXCEPT ![s] = "joined"]
    /\ permits' = permits + 1
    /\ pending' = IF owner THEN pending - 1 ELSE pending
    /\ UNCHANGED <<nextSeq, aborting, lc, tasks, earlyEnds, ownerGone, aborted, regsClosed, drainComplete,
                   gateVars, emitVars, chanVars, ownVars>>

-----------------------------------------------------------------------------
(* run_lifecycle: collecting and draining                                   *)

LcCollect ==
    /\ lc = "collect" /\ joining = {} /\ TakeRegistration
    /\ UNCHANGED <<ends, lc, ownerGone, aborted, regsClosed, drainComplete, gateVars, emitVars, taskVars, ownVars>>

Collected_Mutant == TRUE
Collected == regs = <<>>

\* The channel is empty: the close deadline is read under the gate.
LcDrain ==
    /\ lc = "collect" /\ joining = {} /\ Collected
    /\ gate = None
    /\ lc' = "drain"
    /\ UNCHANGED <<joining, tasks, earlyEnds, ownerGone, aborted, regsClosed, drainComplete,
                   gateVars, emitVars, taskVars, chanVars, ownVars>>

Draining == lc = "drain" /\ joining = {} /\ tasks # {}

abort_all_Mutant == UNCHANGED aborting
abort_all == aborting' = aborting \cup tasks

\* abort_all at the deadline: now, when the owner had gone before the drain.
DrainAbort ==
    /\ Draining /\ ~aborted /\ (graceOver \/ ownerGone)
    /\ aborted' = TRUE
    /\ abort_all
    /\ UNCHANGED <<permits, nextSeq, pending, task, lc, joining, tasks, earlyEnds, ownerGone, regsClosed,
                   drainComplete, gateVars, emitVars, chanVars, ownVars>>

\* The registration arm: a late registration joins the tasks; a closed channel
\* (the last owner left during the drain) aborts them.
DrainRegistration ==
    /\ Draining /\ ~regsClosed
    /\ IF regs # <<>>
       THEN /\ tasks' = tasks \cup {Head(regs)}
            /\ regs' = Tail(regs)
            /\ UNCHANGED <<regsClosed, aborted, aborting>>
       ELSE /\ ~owner
            /\ regsClosed' = TRUE
            /\ aborted' = TRUE
            /\ IF aborted THEN UNCHANGED aborting ELSE abort_all
            /\ UNCHANGED <<tasks, regs>>
    /\ UNCHANGED <<permits, nextSeq, pending, task, ends, lc, joining, earlyEnds, ownerGone, drainComplete,
                   gateVars, emitVars, ownVars>>

\* The report arm: an unknown report is forgotten; when every sender is gone
\* whatever remains is joined.
DrainEnd ==
    /\ Draining
    /\ IF ends # <<>>
       THEN /\ ends' = Tail(ends)
            /\ joining' = tasks \cap {Head(ends)}
       ELSE /\ ~owner /\ \A s \in Seqs : task[s] # "running"
            /\ joining' = tasks
            /\ UNCHANGED ends
    /\ tasks' = tasks \ joining'
    /\ UNCHANGED <<regs, lc, earlyEnds, ownerGone, aborted, regsClosed, drainComplete,
                   gateVars, emitVars, taskVars, ownVars>>

\* The 100 ms safety net joins what has finished.
DrainSweep ==
    /\ Draining
    /\ joining' = {s \in tasks : task[s] = "finished"}
    /\ joining' # {}
    /\ tasks' = tasks \ joining'
    /\ UNCHANGED <<lc, earlyEnds, ownerGone, aborted, regsClosed, drainComplete,
                   gateVars, emitVars, taskVars, chanVars, ownVars>>

DrainDone ==
    /\ lc = "drain" /\ joining = {} /\ tasks = {}
    /\ lc' = "done"
    /\ drainComplete' = owner
    /\ UNCHANGED <<joining, tasks, earlyEnds, ownerGone, aborted, regsClosed,
                   gateVars, emitVars, taskVars, chanVars, ownVars>>

-----------------------------------------------------------------------------

Lifecycle ==
    \/ LcTop \/ LcRegistration \/ LcOwnerGone \/ LcEnd \/ LcChanged
    \/ \E s \in Seqs : LcJoined(s)
    \/ LcCollect \/ LcDrain
    \/ DrainAbort \/ DrainRegistration \/ DrainEnd \/ DrainSweep \/ DrainDone

InCall(e) ==
    \/ EmitLock(e) \/ EmitNoPermit(e) \/ EmitSpawn(e)
    \/ EmitRegister(e) \/ EmitUnlock(e) \/ EmitStart(e)

Next ==
    \/ \E e \in Emitters : InCall(e) \/ \E n \in 1..NTargets : EmitSelect(e, n)
    \/ \E s \in Seqs : TaskReports(s) \/ TaskFinishes(s)
    \/ \E c \in Callers :
          ShutdownClose(c) \/ ShutdownSignal(c) \/ ShutdownReturns(c) \/ ShutdownCancelled(c)
    \/ GraceRunsOut \/ DropOwner
    \/ Lifecycle

Spec == Init /\ [][Next]_vars

\* Every emitting thread runs on, and the runtime polls every ready task; tokio::select! picks among the ready arms
\* at random, so an arm that is ready again and again is taken (strong fairness).
\* An aborted task ends at its next await; nothing else makes a post end.
Fairness ==
    /\ WF_vars(Lifecycle)
    /\ SF_vars(LcRegistration) /\ SF_vars(LcEnd) /\ SF_vars(LcOwnerGone)
    /\ \A e \in Emitters : WF_vars(InCall(e))
    /\ WF_vars(\E s \in Seqs : TaskFinishes(s))
    /\ WF_vars(\E s \in aborting : TaskReports(s))
    /\ WF_vars(\E c \in Callers : ShutdownSignal(c) \/ ShutdownReturns(c))
    /\ WF_vars(GraceRunsOut)

FairSpec == Spec /\ Fairness

-----------------------------------------------------------------------------
(* Properties                                                               *)

\* The type invariant of the emitter's state.
TypeOK ==
    /\ closed \in BOOLEAN /\ graceOver \in BOOLEAN /\ gate \in Emitters \cup {None}
    /\ epc \in [Emitters -> {"idle", "select", "fanout", "register", "start"}]
    /\ left \in [Emitters -> 0..NTargets]
    /\ current \in [Emitters -> 0..MaxSeq]
    /\ accepted \in [Emitters -> BOOLEAN]
    /\ permits \in 0..MaxInFlight /\ nextSeq \in 0..MaxSeq /\ pending \in 0..MaxInFlight
    /\ task \in [Seqs -> {"none", "running", "reported", "finished", "joined"}]
    /\ aborting \subseteq Seqs
    /\ regs \in Seq(Seqs) /\ ends \in Seq(Seqs)
    /\ owner \in BOOLEAN /\ shutdownTx \in BOOLEAN
    /\ spc \in [Callers -> {"idle", "closed", "waiting", "returned", "cancelled"}]
    /\ lc \in {"off", "top", "select", "collect", "drain", "done"}
    /\ joining \subseteq Seqs /\ tasks \subseteq Seqs /\ earlyEnds \subseteq Seqs
    /\ ownerGone \in BOOLEAN /\ aborted \in BOOLEAN /\ regsClosed \in BOOLEAN /\ drainComplete \in BOOLEAN

\* Once the lifecycle task drains, no registration is on its way: the failed
\* send in try_emit is unreachable, as its comment claims, and the drain's
\* registration arm, which forgets early_ends and the abort that already
\* happened, never receives a task.
NoLateRegistration ==
    lc \in {"drain", "done"} =>
        /\ regs = <<>>
        /\ \A e \in Emitters : epc[e] \notin {"fanout", "register"}

\* A report kept in early_ends always has its registration still coming, so
\* early_ends never holds on to a sequence number.
EarlyEndsMatched ==
    \A s \in earlyEnds :
        \/ \E i \in DOMAIN regs : regs[i] = s
        \/ \E e \in Emitters : current[e] = s

\* When the lifecycle task stops, every send task it was ever given has ended
\* and been joined and every permit is back; if somebody can still look, pending
\* is zero: shutdown never returns with a post in flight.
DrainLeavesNothing ==
    lc = "done" =>
        /\ \A s \in Seqs : task[s] \in {"none", "joined"}
        /\ permits = MaxInFlight
        /\ drainComplete => pending = 0

\* The three together: the lifecycle task loses nothing, from the first emit to
\* the end of the drain.
LifecycleSound == NoLateRegistration /\ EarlyEndsMatched /\ DrainLeavesNothing

\* A send task that ended is joined and its permit returned, whichever of its
\* registration and its report comes first and whether or not shutdown comes.
ReportedIsJoined ==
    \A s \in Seqs : (task[s] = "reported") ~> (task[s] = "joined")

\* shutdown returns, however the posts hang and whoever else shuts down.
ShutdownEnds ==
    \A c \in Callers : (spc[c] = "waiting") ~> (spc[c] # "waiting")

\* When the last owner is dropped without a shutdown the posts still running are
\* aborted and joined.
NoOrphans ==
    ~owner ~> \A s \in Seqs : task[s] \in {"none", "joined"}

\* Both: however the emitter's life ends, the drain does.
DrainEnds == ShutdownEnds /\ NoOrphans
=============================================================================
