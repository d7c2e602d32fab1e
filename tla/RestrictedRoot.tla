--------------------------- MODULE RestrictedRoot ---------------------------
(* The restricted root of `authz-audit`: the baseline versions and the pointer *)
(* to the current one, the protection manifest, the run directories, and the   *)
(* capacity ledger (.counters.json) in which every write is reserved before    *)
(* and settled after.  Commands are separate processes.  One at a time holds   *)
(* the maintenance flock and is `cmd`; those that wait have read nothing but   *)
(* their arguments and, promote, the time.  The kernel releases the flock when *)
(* a process dies, so a crash leaves whatever was already renamed into place.  *)
(* Each file is replaced atomically (temporary + rename): one step per file.   *)
EXTENDS Integers, Sequences, FiniteSets, SequencesExt

CONSTANTS
  Digests,         \* candidates; one file per digest
  None,            \* no pointer
  KeepVersions,    \* MAX_BASELINE_VERSIONS, not counting protected ones
  KeepRuns,        \* MAX_RUN_BATCHES
  MaxActive,       \* A, the ceiling of open run reservations
  MaxProtected,    \* P_MAX
  Slots,           \* MAX_CREATE_RESERVATIONS
  TombsForCreate,  \* MAX_SETTLED_FOR_CREATE
  Tombs,           \* MAX_SETTLED
  Peak,            \* peak_capacity_default
  MaxOps, MaxHours, MaxCrashes  \* bounds: reservations, hours, failures

ASSUME RootAssumption ==
  /\ None \notin Digests
  /\ {KeepVersions, KeepRuns, MaxActive, MaxProtected, Slots, TombsForCreate,
      Tombs, Peak, MaxOps, MaxHours, MaxCrashes} \subseteq Nat
  /\ TombsForCreate <= Tombs

VARIABLES
  cmd,       \* the command that holds maintenance.lock, if any
  pointer,   \* the digest in baselines/current.json
  versions,  \* version files, oldest first
  manifest,  \* the digests of protected.json
  runs,      \* run directories, oldest (by mtime) first
  evidence,  \* the runs that hold an evidence file
  temps,     \* the runs in which a dead evidence-append left its temporary
  caps,      \* the runs whose capability run-init has printed
  ledger,    \* total, reserved, open reservations, tombs
  nextOp, hour, crashes

files == <<pointer, versions, manifest, runs, evidence, temps, caps>>
bounds == <<hour, crashes>>
vars == <<cmd, files, ledger, nextOp, bounds>>

Idle == [pc |-> "idle"]

----------------------------------------------------------------------------
(* The capacity ledger.                                                    *)

Producers == {"promote", "report", "run", "evidence", "protect", "unprotect"}
\* PRODUCER_MAPPINGS, in units: what a reservation holds back ...
MaxBytes == [promote |-> 2, report |-> 1, run |-> 2, evidence |-> 1,
             protect |-> 1, unprotect |-> 0]
\* ... and what the write of a version, a report, a run may take.  The outputs of
\* a run have ceilings by their names: together they may be more than was held.
Written == [promote |-> {1}, report |-> {1}, run |-> {1, 3}]
Creates(r) == r.kind # "unprotect"
IsRun(r) == r.kind \in {"run", "evidence"}

SubSat(a, b) == IF a > b THEN a - b ELSE 0
\* The sum of their maxima, counted unit by unit.
Held(open) == Cardinality(UNION {{r} \X (1 .. MaxBytes[r.kind]) : r \in open})

\* A reclaim that forgets to release the bytes.
Reclaimed_Mutant(now) ==
  LET gone == {r \in ledger.open : r.at < now}
  IN  [ledger EXCEPT !.open = @ \ gone, !.tombs = {t \in @ : t.at >= now}]
\* reclaim_stale_locked: what is older than an hour (one tick) goes.  Every
\* caller passes NoLeases.
Reclaimed(now) ==
  LET gone == {r \in ledger.open : r.at < now}
  IN  [ledger EXCEPT !.open = @ \ gone,
                     !.reserved = SubSat(@, Held(gone)),
                     !.tombs = {t \in @ : t.at >= now}]

\* projected_bytes fits; reserved bytes count as if they had been written.
Fits(L, kind) == L.total + L.reserved + MaxBytes[kind] <= Peak

\* admit: deletes always pass; `active` is what the caller counted.
Admits(L, kind, active) ==
  \/ kind = "unprotect"
  \/ /\ kind \in {"run", "evidence"} => active < MaxActive
     /\ kind = "protect" => Cardinality(manifest) < MaxProtected
     /\ Cardinality({r \in L.open : Creates(r)}) < Slots
     /\ Cardinality(L.tombs) < TombsForCreate
     /\ Fits(L, kind)

\* admit_and_reserve_locked; a refusal stores nothing, the reclaim included.
Admitted(kind, now, active) == nextOp <= MaxOps /\ Admits(Reclaimed(now), kind, active)
Reserve(kind, payload, now, active) ==
  /\ Admitted(kind, now, active)
  /\ ledger' = LET L == Reclaimed(now)
                   r == [id |-> nextOp, kind |-> kind, payload |-> payload, at |-> now]
               IN  [L EXCEPT !.open = @ \cup {r}, !.reserved = @ + MaxBytes[kind]]
  /\ nextOp' = nextOp + 1

Open(id) == \E r \in ledger.open : r.id = id
Tombed(id) == \E t \in ledger.tombs : t.id = id
ReservationOf(id) == CHOOSE r \in ledger.open : r.id = id

\* settle_locked: the reservation becomes a tomb and `delta` the total's, without
\* a look at what was reserved.  It fails, and changes nothing, when the tombs
\* are full or the total would be negative.  (The tombs of deletes are evicted
\* at their limit and never read.)
CanSettle(id, delta) ==
  /\ Open(id)
  /\ ledger.total + delta >= 0
  /\ Creates(ReservationOf(id)) => Cardinality(ledger.tombs) < Tombs
Settled(id, delta, now) ==
  LET r == ReservationOf(id)
  IN  [ledger EXCEPT !.open = @ \ {r},
                     !.reserved = SubSat(@, MaxBytes[r.kind]),
                     !.total = @ + delta,
                     !.tombs = IF Creates(r) THEN @ \cup {[id |-> id, at |-> now]} ELSE @]
Settle(id, delta, now) ==
  ledger' = IF CanSettle(id, delta) THEN Settled(id, delta, now) ELSE ledger

----------------------------------------------------------------------------
(* Commands.                                                               *)

At(pc) == cmd.pc = pc
Goto(pc) == cmd' = [cmd EXCEPT !.pc = pc]
End == cmd' = Idle
Begin(kind, pc, now, op, d) ==
  cmd' = [pc |-> pc, kind |-> kind, now |-> now, op |-> op, d |-> d, fence |-> None]

Current(d) == pointer = d /\ d \in ToSet(versions)
\* A fence that lets every first promotion pass.
FenceHolds_Mutant(d, fence) == pointer \in {d, fence, None}
\* The fence names what the pointer must be; a pointer whose version file is
\* missing is repaired without it.
FenceHolds(d, fence) == pointer = d \/ pointer = fence

\* promote; exec_promote took `now` before it waited for the lock.  When the
\* fence or the admission refuses nothing is written.
Promote(d, fence, now) ==
  /\ At("idle") /\ ~Current(d) /\ FenceHolds(d, fence)
  /\ Reserve("promote", d, now, 0)
  /\ cmd' = [pc |-> "version", kind |-> "promote", now |-> now, op |-> nextOp,
             d |-> d, fence |-> fence]
  /\ UNCHANGED <<files, bounds>>

\* Already current, whatever the fence says: settle what a crash has left open.
AlreadyCurrent(d, now) ==
  /\ At("idle") /\ Current(d) /\ Begin("promote", "settle", now, 0, d)
  /\ UNCHANGED <<files, ledger, nextOp, bounds>>
Matching(d) == {r \in ledger.open : r.kind = "promote" /\ r.payload = d}
SettleMatching ==
  LET c == cmd IN
  /\ At("settle")
  /\ \/ /\ Matching(c.d) = {} /\ End /\ UNCHANGED ledger
     \/ \E r \in Matching(c.d), delta \in Written["promote"] :
          /\ Settle(r.id, delta, c.now)
          /\ IF CanSettle(r.id, delta) THEN UNCHANGED cmd ELSE End
  /\ UNCHANGED <<files, nextOp, bounds>>

\* A version is written again although it is there.
WithVersion_Mutant(d) == Append(versions, d)
\* write_baseline_version: the same bytes are there already, or a new file.
WithVersion(d) == IF d \in ToSet(versions) THEN versions ELSE Append(versions, d)
WriteVersion ==
  /\ At("version")
  /\ versions' = WithVersion(cmd.d) /\ Goto("pointer")
  /\ UNCHANGED <<pointer, manifest, runs, evidence, temps, caps, ledger, nextOp, bounds>>
SwitchPointer ==
  /\ At("pointer")
  /\ pointer' = cmd.d /\ Goto("commit")
  /\ UNCHANGED <<versions, manifest, runs, evidence, temps, caps, ledger, nextOp, bounds>>

\* mutate_manifest: nothing to do when the digest is (not) there already.
Protect(d) ==
  /\ At("idle") /\ d \notin manifest
  /\ Reserve("protect", d, hour, 0) /\ Begin("protect", "manifest", hour, nextOp, d)
  /\ UNCHANGED <<files, bounds>>
Unprotect(d) ==
  /\ At("idle") /\ d \in manifest
  /\ Reserve("unprotect", d, hour, 0) /\ Begin("unprotect", "manifest", hour, nextOp, d)
  /\ UNCHANGED <<files, bounds>>
Manifest(c) == IF c.kind = "protect" THEN manifest \cup {c.d} ELSE manifest \ {c.d}
WriteManifest ==
  /\ At("manifest")
  /\ manifest' = Manifest(cmd) /\ Goto("commit")
  /\ UNCHANGED <<pointer, versions, runs, evidence, temps, caps, ledger, nextOp, bounds>>

\* What commit_locked charges: the manifest is one unit per digest.
Deltas(c) == CASE c.kind = "protect" -> {1} [] c.kind = "unprotect" -> {-1}
               [] OTHER -> Written[c.kind]
Commit ==
  LET c == cmd IN
  /\ At("commit")
  /\ \E delta \in Deltas(c) : Settle(c.op, delta, c.now)
  /\ End
  /\ UNCHANGED <<files, nextOp, bounds>>

\* A write fails, before or (directory fsync, open after mkdirat) after it took
\* effect: abort_locked.  A run is tried again with another directory, or
\* has used up its attempts.
WriteFails ==
  LET c == cmd IN
  /\ crashes < MaxCrashes /\ crashes' = crashes + 1
  /\ c.pc \in {"version", "pointer", "manifest", "mkdir", "sweep", "commit"}
  /\ c.pc = "commit" => c.kind = "run"
  /\ \/ UNCHANGED <<pointer, versions, manifest, runs>>
     \/ At("version") /\ versions' = WithVersion(c.d) /\ UNCHANGED <<pointer, manifest, runs>>
     \/ At("pointer") /\ pointer' = c.d /\ UNCHANGED <<versions, manifest, runs>>
     \/ At("manifest") /\ manifest' = Manifest(c) /\ UNCHANGED <<pointer, versions, runs>>
     \/ At("mkdir") /\ runs' = Append(runs, c.op) /\ UNCHANGED <<pointer, versions, manifest>>
  /\ Settle(c.op, 0, c.now)
  /\ End \/ (At("mkdir") /\ Goto("claim"))
  /\ UNCHANGED <<evidence, temps, caps, nextOp, hour>>

----------------------------------------------------------------------------
(* write_audit_run: sweep, then a run of its own, all under one lock.      *)

\* A sweep that forgets the pointer, or the manifest.
ProtectedSet_NoPointer == manifest
ProtectedSet_NoManifest == {pointer}
\* What a sweep may not delete.
ProtectedSet == manifest \cup {pointer}

\* Of what is not spared, all but the newest `keep`.
Surplus(s, spared, keep) ==
  LET free == {i \in DOMAIN s : s[i] \notin spared}
  IN  {s[i] : i \in {i \in free : Cardinality({j \in free : j > i}) >= keep}}
SweepPlan ==
  [versions |-> Surplus(versions, ProtectedSet, KeepVersions),
   runs     |-> Surplus(runs, {}, KeepRuns)]

\* The plan is made and the report admitted before anything is deleted.
Audit ==
  /\ At("idle")
  /\ Reserve("report", None, hour, 0)
  /\ cmd' = [pc |-> "sweep", kind |-> "report", now |-> hour, op |-> nextOp,
             plan |-> SweepPlan]
  /\ UNCHANGED <<files, bounds>>

\* A file or directory is in its sequence once or not at all.
Without(s, x) ==
  IF x \in ToSet(s) THEN RemoveAt(s, CHOOSE i \in DOMAIN s : s[i] = x) ELSE s
SweepRun(r) ==
  /\ At("sweep") /\ r \in cmd.plan.runs
  /\ cmd' = [cmd EXCEPT !.plan.runs = @ \ {r}]
  /\ runs' = Without(runs, r) /\ evidence' = evidence \ {r} /\ temps' = temps \ {r}
  /\ UNCHANGED <<pointer, versions, manifest, caps, ledger, nextOp, bounds>>
SweepVersion(d) ==
  /\ At("sweep") /\ cmd.plan.runs = {} /\ d \in cmd.plan.versions
  /\ cmd' = [cmd EXCEPT !.plan.versions = @ \ {d}]
  /\ versions' = Without(versions, d)
  /\ UNCHANGED <<pointer, manifest, runs, evidence, temps, caps, ledger, nextOp, bounds>>

\* finish_sweep_report; the ledger forgets nothing that the sweep removed.
SweepReport ==
  LET c == cmd IN
  /\ At("sweep") /\ c.plan = [versions |-> {}, runs |-> {}]
  /\ \E delta \in Written["report"] :
       /\ Settle(c.op, delta, c.now)
       /\ IF CanSettle(c.op, delta) THEN Goto("claim") ELSE End
  /\ UNCHANGED <<files, nextOp, bounds>>
\* The run of an audit after its sweep (ReservedRun::create passes active_runs =
\* 0), or another attempt of a run whose directory could not be made: run-init
\* passes the count that was admitted before, so that it decides nothing again.
ClaimRun ==
  LET kind == IF cmd.kind = "evidence" THEN "evidence" ELSE "run" IN
  /\ At("claim")
  /\ \/ Reserve(kind, None, cmd.now, 0) /\ Begin(kind, "mkdir", cmd.now, nextOp, None)
     \/ ~Admitted(kind, cmd.now, 0) /\ End /\ UNCHANGED <<ledger, nextOp>>
  /\ UNCHANGED <<files, bounds>>
MakeRun ==
  LET c == cmd IN
  /\ At("mkdir")
  /\ runs' = Append(runs, c.op)
  /\ IF c.kind = "run" THEN Goto("commit") /\ UNCHANGED caps
     ELSE caps' = caps \cup {c.op} /\ End
  /\ UNCHANGED <<pointer, versions, manifest, evidence, temps, ledger, nextOp, bounds>>

----------------------------------------------------------------------------
(* Evidence runs: run-init opens a reservation, run-commit or run-abort, in *)
(* another process that knows the capability, closes it.                   *)

\* The active runs are counted before the reclaim inside the admission.
RunInit ==
  /\ At("idle")
  /\ Reserve("evidence", None, hour, Cardinality({r \in ledger.open : IsRun(r)}))
  /\ Begin("evidence", "mkdir", hour, nextOp, None)
  /\ UNCHANGED <<files, bounds>>

\* evidence-append takes neither the maintenance lock nor a capability, and any
\* run will do.  The directory's mtime moves.  When the process dies before the
\* rename its temporary stays.
EvidenceAppend(id) ==
  /\ id \in ToSet(runs)
  /\ runs' = Append(Without(runs, id), id)
  /\ \/ evidence' = evidence \cup {id} /\ UNCHANGED <<temps, crashes>>
     \/ /\ crashes < MaxCrashes /\ crashes' = crashes + 1
        /\ temps' = temps \cup {id} /\ UNCHANGED evidence
  /\ UNCHANGED <<cmd, pointer, versions, manifest, caps, ledger, nextOp, hour>>

\* classify_run_dir: nothing but lock files.
EmptyRun(id) == id \notin evidence \cup temps
\* measure_run_bytes counts every file, temporaries too.
Bytes(id) == (IF id \in evidence THEN 1 ELSE 0) + (IF id \in temps THEN 1 ELSE 0)
\* resolve_op_id finds a reservation or a tomb; settling a tomb changes nothing.
RunCommit(id) ==
  /\ At("idle") /\ id \in caps \cap ToSet(runs) /\ Open(id)
  /\ Settle(id, Bytes(id), hour)
  /\ UNCHANGED <<cmd, files, nextOp, bounds>>
RunAbort(id) ==
  /\ At("idle") /\ id \in caps /\ (Open(id) \/ Tombed(id))
  /\ IF id \in ToSet(runs) /\ EmptyRun(id)
     THEN Begin("evidence", "rmdir", hour, id, None) /\ UNCHANGED ledger
     ELSE Settle(id, Bytes(id), hour) /\ UNCHANGED cmd
  /\ UNCHANGED <<files, nextOp, bounds>>
\* remove_run_directory refuses when something was written since.
RemoveRun ==
  /\ At("rmdir")
  /\ \/ EmptyRun(cmd.op) /\ runs' = Without(runs, cmd.op) /\ Goto("abort")
     \/ ~EmptyRun(cmd.op) /\ UNCHANGED runs /\ End
  /\ UNCHANGED <<pointer, versions, manifest, evidence, temps, caps, ledger, nextOp, bounds>>
AbortRun ==
  /\ At("abort")
  /\ Settle(cmd.op, 0, cmd.now) /\ End
  /\ UNCHANGED <<files, nextOp, bounds>>

----------------------------------------------------------------------------

Crash ==
  /\ crashes < MaxCrashes /\ crashes' = crashes + 1
  /\ ~At("idle") /\ End
  /\ UNCHANGED <<files, ledger, nextOp, hour>>
\* More than an hour passes.
Hour ==
  /\ hour < MaxHours /\ hour' = hour + 1
  /\ UNCHANGED <<cmd, files, ledger, nextOp, crashes>>

Init ==
  /\ cmd = Idle
  /\ pointer = None /\ versions = <<>> /\ manifest = {}
  /\ runs = <<>> /\ evidence = {} /\ temps = {} /\ caps = {}
  /\ ledger = [total |-> 0, reserved |-> 0, open |-> {}, tombs |-> {}]
  /\ nextOp = 1 /\ hour = 0 /\ crashes = 0

PromoteStep ==
  \/ \E d \in Digests, fence \in Digests \cup {None}, now \in 0 .. hour : Promote(d, fence, now)
  \/ \E d \in Digests, now \in 0 .. hour : AlreadyCurrent(d, now)
  \/ SettleMatching \/ WriteVersion \/ SwitchPointer
ManifestStep == (\E d \in Digests : Protect(d) \/ Unprotect(d)) \/ WriteManifest
AuditStep ==
  \/ Audit \/ SweepReport \/ ClaimRun
  \/ (\E r \in ToSet(runs) : SweepRun(r)) \/ (\E d \in Digests : SweepVersion(d))
EvidenceStep ==
  \/ RunInit \/ RemoveRun \/ AbortRun
  \/ (\E id \in ToSet(runs) : EvidenceAppend(id))
  \/ (\E id \in caps : RunCommit(id) \/ RunAbort(id))
Next ==
  \/ PromoteStep \/ ManifestStep \/ AuditStep \/ EvidenceStep
  \/ MakeRun \/ Commit \/ WriteFails \/ Crash \/ Hour

Spec == Init /\ [][Next]_vars

----------------------------------------------------------------------------
(* Properties.                                                             *)

Ops == 1 .. MaxOps
\* The files name digests and operations, each at most once, what evidence-append
\* writes lies in a run directory, and no operation is both open and settled.
TypeOK ==
  /\ pointer \in Digests \cup {None} /\ manifest \subseteq Digests
  /\ versions \in Seq(Digests) /\ IsInjective(versions)
  /\ runs \in Seq(Ops) /\ IsInjective(runs)
  /\ evidence \cup temps \subseteq ToSet(runs) /\ caps \subseteq Ops
  /\ ledger.total \in Nat /\ ledger.reserved \in Nat
  /\ \A r \in ledger.open : r.id < nextOp /\ r.kind \in Producers /\ ~Tombed(r.id)

\* The pointer never names a version that is not there, after a crash or a
\* failed write at any step of a promotion and after any sweep: promote writes
\* the version before the pointer, and the sweep knows the pointer.
CurrentResolves == pointer # None => pointer \in ToSet(versions)

\* A sweep deletes no version that is current or protected at that moment,
\* although it decides from a plan made before.
ProtectedKept ==
  [][\A d \in ToSet(versions) \ ToSet(versions') : d # pointer /\ d \notin manifest]_vars

\* A promotion replaces exactly the pointer its operator expected, however long
\* it waited for the lock behind other promotions.
PromotedFromExpected ==
  [][pointer' # pointer => cmd.fence = pointer]_vars

\* The ledger's reserved bytes are those of the open reservations, whatever they
\* were charged with, through commits, aborts, crashes, reclaims of work that goes
\* on, and retries that settle what others left open: no settle or reclaim
\* releases a reservation twice or leaves its bytes behind.
CapacityExact == ledger.reserved = Held(ledger.open)
=============================================================================
