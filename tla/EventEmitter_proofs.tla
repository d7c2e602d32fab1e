------------------------- MODULE EventEmitter_proofs ------------------------
(***************************************************************************)
(* Proofs about EventEmitter, for any emitters, callers, targets, permits   *)
(* and number of send tasks.  The inductive invariant says who can be       *)
(* inside the gate (Gates), that every task that is alive is in exactly one *)
(* place (Places), what the end reports say of the tasks (Reports) and that *)
(* the permits count the tasks that are alive (Count).                      *)
(***************************************************************************)
EXTENDS EventEmitter, SequenceTheorems, FiniteSetTheorems, TLAPS

RangeOf(q) == {q[i] : i \in DOMAIN q}
Distinct(q) == \A i, j \in DOMAIN q : q[i] = q[j] => i = j

\* Spawned and not yet joined.
Alive == {s \in Seqs : task[s] \notin {"none", "joined"}}

\* An emitter that fans out holds the gate, before anybody closed it; the
\* lifecycle task collects only once nobody can be there, and drains only when
\* it has received every registration.
Gates ==
    /\ \A e \in Emitters : epc[e] \in {"fanout", "register"} => gate = e /\ ~closed
    /\ \A e \in Emitters : epc[e] # "idle" => owner
    /\ \A c \in Callers : spc[c] = "closed" => closed
    /\ shutdownTx => closed
    /\ lc \in {"collect", "drain", "done"} => closed \/ ~owner
    /\ lc \in {"drain", "done"} => regs = <<>>
    /\ lc \in {"off", "select", "done"} => joining = {}
    /\ lc = "done" => tasks = {}

\* A task that is alive was not registered yet or is in the registration channel,
\* with the lifecycle task or being joined: in one of these and only once.
Places ==
    /\ \A e \in Emitters :
          IF epc[e] = "register"
          THEN /\ current[e] \in Alive
               /\ current[e] \notin RangeOf(regs) /\ current[e] \notin tasks /\ current[e] \notin joining
          ELSE current[e] = 0
    /\ RangeOf(regs) \subseteq Alive /\ tasks \subseteq Alive /\ joining \subseteq Alive
    /\ \A s \in Alive : \/ s \in RangeOf(regs) \/ s \in tasks \/ s \in joining
                        \/ \E e \in Emitters : current[e] = s
    /\ Distinct(regs)
    /\ \A s \in RangeOf(regs) : s \notin tasks /\ s \notin joining
    /\ \A s \in tasks : s \notin joining
    /\ \A s \in Seqs : s > nextSeq => task[s] = "none"

\* A task reports once and after it ended; until the lifecycle task collects, no
\* report is outstanding of a task it has begun to join.
Reports ==
    /\ Distinct(ends)
    /\ \A s \in RangeOf(ends) : task[s] \in {"reported", "finished", "joined"}
    /\ \A s \in joining : task[s] \in {"reported", "finished"}
    /\ \A s \in earlyEnds :
          /\ task[s] \in {"reported", "finished"} /\ s \notin tasks /\ s \notin joining
          /\ s \in RangeOf(regs) \/ \E e \in Emitters : current[e] = s
    /\ lc \in {"off", "top", "select"} =>
          \A s \in RangeOf(ends) : task[s] # "joined" /\ s \notin joining /\ s \notin earlyEnds

\* Every task that is alive has a permit, and pending counts them as long as
\* somebody owns the counter.
Count ==
    /\ permits = MaxInFlight - Cardinality(Alive)
    /\ owner => pending = Cardinality(Alive)
    /\ drainComplete => pending = 0 /\ lc = "done"

Inv == TypeOK /\ Gates /\ Places /\ Reports /\ Count

-----------------------------------------------------------------------------
(* Channels as sequences                                                    *)

LEMMA EmptyRange == RangeOf(<<>>) = {} /\ Distinct(<<>>)
  BY DEF RangeOf, Distinct

LEMMA Received ==
  ASSUME NEW S, NEW q \in Seq(S), q # <<>>
  PROVE  /\ Head(q) \in S /\ Tail(q) \in Seq(S)
         /\ RangeOf(q) = {Head(q)} \cup RangeOf(Tail(q))
         /\ Distinct(q) => Distinct(Tail(q)) /\ Head(q) \notin RangeOf(Tail(q))
  <1>1. Len(q) \in Nat /\ Len(q) > 0 /\ DOMAIN q = 1..Len(q) BY EmptySeq, LenProperties
  <1>2. Head(q) = q[1] /\ q[1] \in S /\ Tail(q) \in Seq(S) BY <1>1, ElementOfSeq, HeadTailProperties
  <1>3. DOMAIN Tail(q) = 1..(Len(q) - 1) /\ \A i \in 1..(Len(q) - 1) : Tail(q)[i] = q[i + 1]
    BY <1>1
  <1>4. RangeOf(q) \subseteq {Head(q)} \cup RangeOf(Tail(q))
    <2> SUFFICES ASSUME NEW i \in 1..Len(q), i # 1 PROVE q[i] \in RangeOf(Tail(q))
      BY <1>1, <1>2 DEF RangeOf
    <2>1. i - 1 \in 1..(Len(q) - 1) /\ q[i] = Tail(q)[i - 1] BY <1>1, <1>3
    <2> QED BY <1>3, <2>1 DEF RangeOf
  <1>5. {Head(q)} \cup RangeOf(Tail(q)) \subseteq RangeOf(q)
    <2>1. Head(q) \in RangeOf(q) BY <1>1, <1>2 DEF RangeOf
    <2>2. ASSUME NEW i \in 1..(Len(q) - 1) PROVE Tail(q)[i] \in RangeOf(q)
      <3>1. i + 1 \in 1..Len(q) BY <1>1
      <3> QED BY <1>1, <1>3, <3>1 DEF RangeOf
    <2> QED BY <1>3, <2>1, <2>2 DEF RangeOf
  <1>6. ASSUME Distinct(q) PROVE Distinct(Tail(q)) /\ Head(q) \notin RangeOf(Tail(q))
    <2>1. ASSUME NEW i \in 1..(Len(q) - 1), NEW j \in 1..(Len(q) - 1), Tail(q)[i] = Tail(q)[j]
          PROVE  i = j
      <3>1. i + 1 \in 1..Len(q) /\ j + 1 \in 1..Len(q) /\ q[i + 1] = q[j + 1] BY <1>1, <1>3, <2>1
      <3>2. i + 1 = j + 1 BY <1>1, <1>6, <3>1 DEF Distinct
      <3> QED BY <3>2
    <2>2. ASSUME NEW i \in 1..(Len(q) - 1), Tail(q)[i] = Head(q) PROVE FALSE
      <3>1. i + 1 \in 1..Len(q) /\ 1 \in 1..Len(q) /\ q[i + 1] = q[1] BY <1>1, <1>2, <1>3, <2>2
      <3>2. i + 1 = 1 BY <1>1, <1>6, <3>1 DEF Distinct
      <3> QED BY <3>2
    <2> QED BY <1>3, <2>1, <2>2 DEF Distinct, RangeOf
  <1> QED BY <1>2, <1>4, <1>5, <1>6

LEMMA Sent ==
  ASSUME NEW S, NEW q \in Seq(S), NEW x \in S
  PROVE  /\ Append(q, x) \in Seq(S) /\ Append(q, x) # <<>>
         /\ RangeOf(Append(q, x)) = RangeOf(q) \cup {x}
         /\ Distinct(q) /\ x \notin RangeOf(q) => Distinct(Append(q, x))
  <1>1. Len(q) \in Nat /\ DOMAIN q = 1..Len(q) BY LenProperties
  <1>2. /\ Append(q, x) \in Seq(S) /\ Append(q, x) # <<>>
        /\ DOMAIN Append(q, x) = 1..(Len(q) + 1)
        /\ \A i \in 1..Len(q) : Append(q, x)[i] = q[i]
        /\ Append(q, x)[Len(q) + 1] = x
    BY <1>1, AppendProperties
  <1>3. RangeOf(Append(q, x)) = RangeOf(q) \cup {x}
    BY <1>1, <1>2 DEF RangeOf
  <1>4. ASSUME Distinct(q), x \notin RangeOf(q) PROVE Distinct(Append(q, x))
    <2>1. \A i \in 1..Len(q) : q[i] # x BY <1>1, <1>4 DEF RangeOf
    <2>2. \A i, j \in 1..(Len(q) + 1) : Append(q, x)[i] = Append(q, x)[j] => i = j
      BY <1>1, <1>2, <1>4, <2>1 DEF Distinct
    <2> QED BY <1>2, <2>2 DEF Distinct
  <1> QED BY <1>2, <1>3, <1>4

-----------------------------------------------------------------------------
(* The gate                                                                 *)

LEMMA GatesStep ==
  ASSUME TypeOK, Gates, [Next]_vars
  PROVE  Gates'
  <1> USE EmitterAssumption DEF TypeOK, Gates
  <1>1. CASE UNCHANGED vars
    BY <1>1 DEF vars, gateVars, emitVars, chanVars, ownVars, lcVars
  <1>2. ASSUME NEW e \in Emitters, NEW n \in 1..NTargets, EmitSelect(e, n) PROVE Gates'
    BY <1>2 DEF EmitSelect, gateVars, chanVars, ownVars, lcVars
  <1>3. ASSUME NEW e \in Emitters, EmitLock(e) PROVE Gates'
    BY <1>3 DEF EmitLock, StillOpen, chanVars, ownVars, lcVars
  <1>4. ASSUME NEW e \in Emitters, EmitNoPermit(e) \/ EmitSpawn(e) PROVE Gates'
    BY <1>4 DEF EmitNoPermit, EmitSpawn, gateVars, chanVars, ownVars, lcVars
  <1>5. ASSUME NEW e \in Emitters, EmitRegister(e) PROVE Gates'
    <2>1. lc \notin {"collect", "drain", "done"} BY <1>5 DEF EmitRegister
    <2> QED BY <1>5, <2>1 DEF EmitRegister, gateVars, ownVars, lcVars
  <1>6. ASSUME NEW e \in Emitters, EmitUnlock(e) PROVE Gates'
    BY <1>6 DEF EmitUnlock, chanVars, ownVars, lcVars
  <1>7. ASSUME NEW e \in Emitters, EmitStart(e) PROVE Gates'
    BY <1>7 DEF EmitStart, ensure_lifecycle_started, gateVars, chanVars, ownVars
  <1>8. ASSUME NEW s \in Seqs, TaskReports(s) \/ TaskFinishes(s) PROVE Gates'
    BY <1>8 DEF TaskReports, TaskFinishes, gateVars, emitVars, chanVars, ownVars, lcVars
  <1>9. ASSUME NEW c \in Callers, ShutdownClose(c) PROVE Gates'
    BY <1>9 DEF ShutdownClose, emitVars, chanVars, lcVars
  <1>10. ASSUME NEW c \in Callers, ShutdownSignal(c) PROVE Gates'
    BY <1>10 DEF ShutdownSignal, ensure_lifecycle_started, gateVars, emitVars, chanVars
  <1>11. ASSUME NEW c \in Callers, ShutdownReturns(c) \/ ShutdownCancelled(c) PROVE Gates'
    BY <1>11 DEF ShutdownReturns, ShutdownCancelled, gateVars, emitVars, chanVars, lcVars
  <1>12. CASE GraceRunsOut BY <1>12 DEF GraceRunsOut, emitVars, chanVars, ownVars, lcVars
  <1>13. CASE DropOwner BY <1>13 DEF DropOwner, gateVars, emitVars, chanVars, lcVars
  <1>14. CASE Lifecycle
    <2> USE DEF gateVars, emitVars, chanVars, ownVars
    <2>1. CASE LcTop BY <2>1 DEF LcTop
    <2>2. CASE LcRegistration BY <2>2 DEF LcRegistration, TakeRegistration
    <2>3. CASE LcOwnerGone BY <2>3 DEF LcOwnerGone, OnOwnerGone
    <2>4. CASE LcEnd BY <2>4 DEF LcEnd
    <2>5. CASE LcChanged BY <2>5 DEF LcChanged
    <2>6. ASSUME NEW s \in Seqs, LcJoined(s) PROVE Gates' BY <2>6 DEF LcJoined
    <2>7. CASE LcCollect BY <2>7 DEF LcCollect, TakeRegistration
    <2>8. CASE LcDrain BY <2>8 DEF LcDrain, Collected
    <2>9. CASE DrainAbort BY <2>9 DEF DrainAbort, Draining
    <2>10. CASE DrainRegistration BY <2>10 DEF DrainRegistration, Draining
    <2>11. CASE DrainEnd BY <2>11 DEF DrainEnd, Draining
    <2>12. CASE DrainSweep BY <2>12 DEF DrainSweep, Draining
    <2>13. CASE DrainDone BY <2>13 DEF DrainDone
    <2> QED BY <1>14, <2>1, <2>2, <2>3, <2>4, <2>5, <2>6, <2>7, <2>8, <2>9, <2>10, <2>11, <2>12,
               <2>13 DEF Lifecycle
  <1> QED BY <1>1, <1>2, <1>3, <1>4, <1>5, <1>6, <1>7, <1>8, <1>9, <1>10, <1>11, <1>12, <1>13,
             <1>14 DEF Next, InCall

\* No registration is on its way once the lifecycle task drains.
LEMMA NothingLate ==
  ASSUME TypeOK, Gates
  PROVE  NoLateRegistration
  BY DEF TypeOK, Gates, NoLateRegistration

-----------------------------------------------------------------------------
(* The tasks that are alive                                                 *)

LEMMA AliveSame ==
  ASSUME UNCHANGED task
  PROVE  Alive' = Alive
  BY DEF Alive

LEMMA AliveSpawn ==
  ASSUME TypeOK, Places, NEW e \in Emitters, EmitSpawn(e)
  PROVE  /\ nextSeq + 1 \in Seqs /\ nextSeq + 1 \notin Alive
         /\ Alive' = Alive \cup {nextSeq + 1}
  <1>1. nextSeq + 1 \in Seqs BY EmitterAssumption DEF TypeOK, EmitSpawn, Seqs
  <1>2. task[nextSeq + 1] = "none" BY <1>1 DEF Places, TypeOK
  <1>3. task' = [task EXCEPT ![nextSeq + 1] = "running"] BY DEF EmitSpawn
  <1> QED BY <1>1, <1>2, <1>3 DEF Alive, TypeOK

LEMMA AliveReports ==
  ASSUME TypeOK, NEW s \in Seqs, TaskReports(s) \/ TaskFinishes(s)
  PROVE  s \in Alive /\ Alive' = Alive
  BY DEF Alive, TypeOK, TaskReports, TaskFinishes

LEMMA AliveJoined ==
  ASSUME TypeOK, NEW s \in Seqs, LcJoined(s)
  PROVE  s \in Alive /\ Alive' = Alive \ {s}
  BY DEF Alive, TypeOK, LcJoined

\* The steps that move no task.
LEMMA PlacesKept ==
  ASSUME TypeOK, Places, UNCHANGED <<current, regs, tasks, joining, task, nextSeq>>,
         \/ UNCHANGED epc
         \/ \E e \in Emitters : \E s : epc[e] # "register" /\ s # "register" /\ epc' = [epc EXCEPT ![e] = s]
  PROVE  Places'
  <1>1. \A e \in Emitters : epc'[e] = "register" <=> epc[e] = "register" BY DEF TypeOK
  <1> QED BY <1>1, AliveSame DEF Places

LEMMA PlacesEmit ==
  ASSUME TypeOK, Gates, Places, NEW e \in Emitters, InCall(e)
  PROVE  Places'
  <1>1. CASE EmitLock(e)
    BY <1>1, PlacesKept DEF EmitLock, taskVars, chanVars, lcVars
  <1>2. CASE EmitNoPermit(e)
    BY <1>2, PlacesKept DEF EmitNoPermit, taskVars, chanVars, lcVars
  <1>3. CASE EmitUnlock(e)
    BY <1>3, PlacesKept DEF EmitUnlock, taskVars, chanVars, lcVars
  <1>4. CASE EmitStart(e)
    BY <1>4, PlacesKept DEF EmitStart, taskVars, chanVars
  <1>5. CASE EmitSpawn(e)
    <2>1. nextSeq + 1 \in Seqs /\ nextSeq + 1 \notin Alive /\ Alive' = Alive \cup {nextSeq + 1}
      BY <1>5, AliveSpawn
    <2>2. /\ current' = [current EXCEPT ![e] = nextSeq + 1] /\ nextSeq' = nextSeq + 1
          /\ epc' = [epc EXCEPT ![e] = "register"] /\ epc[e] = "fanout"
          /\ regs' = regs /\ tasks' = tasks /\ joining' = joining
          /\ task' = [task EXCEPT ![nextSeq + 1] = "running"]
      BY <1>5 DEF EmitSpawn, chanVars, lcVars
    <2>3. ASSUME NEW f \in Emitters
          PROVE  IF epc'[f] = "register"
                 THEN /\ current'[f] \in Alive'
                      /\ current'[f] \notin RangeOf(regs') /\ current'[f] \notin tasks' /\ current'[f] \notin joining'
                 ELSE current'[f] = 0
      <3>1. CASE f = e BY <2>1, <2>2, <3>1 DEF Places, TypeOK
      <3>2. CASE f # e BY <2>1, <2>2, <3>2 DEF Places, TypeOK
      <3> QED BY <3>1, <3>2
    <2>4. ASSUME NEW s \in Alive'
          PROVE  s \in RangeOf(regs') \/ s \in tasks' \/ s \in joining' \/ \E f \in Emitters : current'[f] = s
      <3>1. CASE s = nextSeq + 1 BY <2>2, <3>1 DEF TypeOK
      <3>2. CASE s \in Alive
        <4>1. ASSUME NEW f \in Emitters, current[f] = s PROVE f # e
          <5>1. s # 0 BY <3>2 DEF Alive, Seqs
          <5> QED BY <4>1, <5>1, <2>2 DEF Places
        <4> QED BY <2>2, <3>2, <4>1 DEF Places, TypeOK
      <3> QED BY <2>1, <3>1, <3>2
    <2>5. \A s \in Seqs : s > nextSeq' => task'[s] = "none"
      BY <2>2, EmitterAssumption DEF Places, TypeOK, Seqs
    <2> QED BY <2>1, <2>2, <2>3, <2>4, <2>5 DEF Places
  <1>6. CASE EmitRegister(e)
    <2>1. lc # "done" BY <1>6 DEF EmitRegister, Gates, TypeOK
    <2>2. /\ epc' = [epc EXCEPT ![e] = "fanout"] /\ epc[e] = "register"
          /\ current' = [current EXCEPT ![e] = 0]
          /\ regs' = Append(regs, current[e])
          /\ tasks' = tasks /\ joining' = joining /\ task' = task /\ nextSeq' = nextSeq
      BY <1>6, <2>1 DEF EmitRegister, lcVars
    <2>3. /\ current[e] \in Alive /\ current[e] \in Seqs
          /\ current[e] \notin RangeOf(regs) /\ current[e] \notin tasks /\ current[e] \notin joining
      BY <2>2 DEF Places, Alive
    <2>4. RangeOf(regs') = RangeOf(regs) \cup {current[e]} /\ Distinct(regs')
      <3>1. Distinct(regs) /\ regs \in Seq(Seqs) BY DEF Places, TypeOK
      <3> QED BY <2>2, <2>3, <3>1, Sent
    <2>5. Alive' = Alive BY <2>2, AliveSame
    <2>6. ASSUME NEW f \in Emitters
          PROVE  IF epc'[f] = "register"
                 THEN /\ current'[f] \in Alive'
                      /\ current'[f] \notin RangeOf(regs') /\ current'[f] \notin tasks' /\ current'[f] \notin joining'
                 ELSE current'[f] = 0
      <3>1. CASE f = e BY <2>2, <3>1 DEF TypeOK
      <3>2. CASE f # e
        <4>1. epc[f] # "register" BY <2>2, <3>2 DEF Gates, TypeOK
        <4> QED BY <2>2, <3>2, <4>1 DEF Places, TypeOK
      <3> QED BY <3>1, <3>2
    <2>7. ASSUME NEW s \in Alive'
          PROVE  s \in RangeOf(regs') \/ s \in tasks' \/ s \in joining' \/ \E f \in Emitters : current'[f] = s
      BY <2>2, <2>4, <2>5 DEF Places, TypeOK
    <2> QED BY <2>2, <2>3, <2>4, <2>5, <2>6, <2>7 DEF Places
  <1> QED BY <1>1, <1>2, <1>3, <1>4, <1>5, <1>6 DEF InCall

\* What the lifecycle task does with a registration keeps the places.
LEMMA PlacesTaken ==
  ASSUME TypeOK, Places, TakeRegistration, joining = {}, UNCHANGED <<epc, current, task, nextSeq>>
  PROVE  Places'
  <1> DEFINE s == Head(regs)
  <1>1. /\ regs \in Seq(Seqs) /\ regs # <<>> /\ Distinct(regs) BY DEF TypeOK, TakeRegistration, Places
  <1>2. /\ RangeOf(regs) = {s} \cup RangeOf(Tail(regs))
        /\ Distinct(Tail(regs)) /\ s \notin RangeOf(Tail(regs)) /\ s \in Seqs
    BY <1>1, Received
  <1>3. s \notin tasks /\ s \in Alive BY <1>2 DEF Places
  <1>4. regs' = Tail(regs) /\ \/ joining' = {s} /\ tasks' = tasks
                              \/ tasks' = tasks \cup {s} /\ joining' = joining
    BY DEF TakeRegistration
  <1>5. Alive' = Alive BY AliveSame
  <1> HIDE DEF s
  <1> QED BY <1>2, <1>3, <1>4, <1>5 DEF Places

LEMMA PlacesLifecycle ==
  ASSUME TypeOK, Gates, Places, Lifecycle
  PROVE  Places'
  <1> USE DEF emitVars, taskVars, chanVars
  <1>1. CASE LcTop \/ LcOwnerGone \/ LcChanged \/ LcDrain \/ DrainDone
    BY <1>1, PlacesKept DEF LcTop, LcOwnerGone, LcChanged, LcDrain, DrainDone
  <1>2. CASE LcRegistration
    BY <1>2, PlacesTaken DEF LcRegistration, Gates
  <1>3. CASE LcCollect
    BY <1>3, PlacesTaken DEF LcCollect
  <1>4. CASE DrainAbort BY <1>4, PlacesKept DEF DrainAbort
  <1>5. CASE LcEnd
    <2>1. joining = {} BY <1>5 DEF LcEnd, Gates
    <2>2. \/ tasks' = tasks /\ joining' = joining
          \/ \E s \in tasks : tasks' = tasks \ {s} /\ joining' = {s}
      BY <1>5 DEF LcEnd
    <2> QED BY <1>5, <2>1, <2>2, AliveSame DEF LcEnd, Places
  <1>6. ASSUME NEW s \in Seqs, LcJoined(s) PROVE Places'
    <2>1. s \in Alive /\ Alive' = Alive \ {s} BY <1>6, AliveJoined
    <2>2. /\ joining' = joining \ {s} /\ s \in joining
          /\ UNCHANGED <<epc, current, regs, tasks, nextSeq>>
          /\ task' = [task EXCEPT ![s] = "joined"]
      BY <1>6 DEF LcJoined
    <2>3. s \notin RangeOf(regs) /\ s \notin tasks BY <2>2 DEF Places
    <2>4. \A f \in Emitters : epc[f] = "register" => current[f] # s BY <2>2 DEF Places
    <2>5. \A n \in Seqs : n > nextSeq' => task'[n] = "none" BY <2>1, <2>2 DEF Places, TypeOK, Alive
    <2> QED BY <2>1, <2>2, <2>3, <2>4, <2>5 DEF Places
  <1>7. CASE DrainRegistration
    <2>1. regs = <<>> BY <1>7 DEF DrainRegistration, Draining, Gates
    <2> QED BY <1>7, <2>1, PlacesKept DEF DrainRegistration
  <1>8. CASE DrainEnd \/ DrainSweep
    <2>1. /\ joining = {} /\ joining' \subseteq tasks /\ tasks' = tasks \ joining'
          /\ UNCHANGED <<epc, current, regs, task, nextSeq>>
      BY <1>8 DEF DrainEnd, DrainSweep, Draining
    <2> QED BY <2>1, AliveSame DEF Places
  <1> QED BY <1>1, <1>2, <1>3, <1>4, <1>5, <1>6, <1>7, <1>8 DEF Lifecycle

LEMMA PlacesStep ==
  ASSUME TypeOK, Gates, Places, [Next]_vars
  PROVE  Places'
  <1>1. CASE UNCHANGED vars
    BY <1>1, PlacesKept DEF vars, emitVars, taskVars, chanVars, lcVars
  <1>2. ASSUME NEW e \in Emitters, NEW n \in 1..NTargets, EmitSelect(e, n) PROVE Places'
    BY <1>2, PlacesKept DEF EmitSelect, taskVars, chanVars, lcVars
  <1>3. ASSUME NEW s \in Seqs, TaskReports(s) \/ TaskFinishes(s) PROVE Places'
    <2>1. s \in Alive /\ Alive' = Alive BY <1>3, AliveReports
    <2>2. UNCHANGED <<epc, current, regs, tasks, joining, nextSeq>>
      BY <1>3 DEF TaskReports, TaskFinishes, emitVars, chanVars, lcVars
    <2>3. \A n \in Seqs : n > nextSeq' => task'[n] = "none"
      BY <1>3, <2>1, <2>2 DEF Places, TypeOK, Alive, TaskReports, TaskFinishes
    <2> QED BY <2>1, <2>2, <2>3 DEF Places
  <1>4. ASSUME NEW c \in Callers,
               ShutdownClose(c) \/ ShutdownSignal(c) \/ ShutdownReturns(c) \/ ShutdownCancelled(c)
        PROVE  Places'
    BY <1>4, PlacesKept DEF ShutdownClose, ShutdownSignal, ShutdownReturns, ShutdownCancelled,
       emitVars, taskVars, chanVars, lcVars
  <1>5. CASE GraceRunsOut \/ DropOwner
    BY <1>5, PlacesKept DEF GraceRunsOut, DropOwner, emitVars, taskVars, chanVars, lcVars
  <1> QED BY <1>1, <1>2, <1>3, <1>4, <1>5, PlacesEmit, PlacesLifecycle DEF Next

-----------------------------------------------------------------------------
(* The reports                                                              *)

\* Steps that touch neither a task nor what the lifecycle task knows of it; a
\* registration that is sent still accounts for its task.
LEMMA ReportsKept ==
  ASSUME Reports, UNCHANGED <<task, ends, tasks, joining, earlyEnds>>,
         lc' = lc \/ lc' \notin {"off", "top", "select"} \/ lc \in {"off", "top", "select"},
         \A s \in earlyEnds :
            \/ s \in RangeOf(regs) \/ \E e \in Emitters : current[e] = s
            => s \in RangeOf(regs') \/ \E e \in Emitters : current'[e] = s
  PROVE  Reports'
  BY DEF Reports

LEMMA ReportsEmit ==
  ASSUME TypeOK, Gates, Places, Reports, NEW e \in Emitters, InCall(e)
  PROVE  Reports'
  <1>1. CASE EmitLock(e) \/ EmitNoPermit(e) \/ EmitUnlock(e)
    BY <1>1, ReportsKept DEF EmitLock, EmitNoPermit, EmitUnlock, taskVars, chanVars, lcVars
  <1>2. CASE EmitStart(e)
    <2>1. lc' = lc \/ lc = "off" BY <1>2 DEF EmitStart, ensure_lifecycle_started
    <2> QED BY <1>2, <2>1, ReportsKept DEF EmitStart, taskVars, chanVars
  <1>3. CASE EmitSpawn(e)
    <2>1. nextSeq + 1 \in Seqs /\ nextSeq + 1 \notin Alive BY <1>3, AliveSpawn
    <2>2. task[nextSeq + 1] = "none" BY <2>1 DEF Places, TypeOK
    <2>3. /\ current' = [current EXCEPT ![e] = nextSeq + 1] /\ current[e] = 0
          /\ task' = [task EXCEPT ![nextSeq + 1] = "running"]
          /\ UNCHANGED <<regs, ends, tasks, joining, earlyEnds, lc>>
      BY <1>3 DEF EmitSpawn, chanVars, lcVars, Places
    <2>4. nextSeq + 1 \notin RangeOf(ends) /\ nextSeq + 1 \notin joining /\ nextSeq + 1 \notin earlyEnds
      BY <2>2 DEF Reports
    <2>5. \A s \in Seqs \ {nextSeq + 1} : task'[s] = task[s] BY <2>3 DEF TypeOK
    <2>6. RangeOf(ends) \subseteq Seqs BY DEF TypeOK, RangeOf
    <2>7. ASSUME NEW s \in earlyEnds, NEW f \in Emitters, current[f] = s PROVE current'[f] = s
      <3>1. f # e BY <2>3, <2>7 DEF TypeOK, Seqs
      <3> QED BY <2>3, <2>7, <3>1 DEF TypeOK
    <2> QED BY <2>3, <2>4, <2>5, <2>6, <2>7 DEF Reports, TypeOK
  <1>4. CASE EmitRegister(e)
    <2>1. lc # "done" BY <1>4 DEF EmitRegister, Gates, TypeOK
    <2>2. /\ current' = [current EXCEPT ![e] = 0] /\ regs' = Append(regs, current[e])
          /\ UNCHANGED <<task, ends, tasks, joining, earlyEnds, lc>>
      BY <1>4, <2>1 DEF EmitRegister, lcVars
    <2>3. current[e] \in Seqs BY <1>4 DEF EmitRegister, Places, Alive
    <2>4. RangeOf(regs') = RangeOf(regs) \cup {current[e]} BY <2>2, <2>3, Sent DEF TypeOK
    <2> QED BY <2>2, <2>4, ReportsKept DEF TypeOK
  <1> QED BY <1>1, <1>2, <1>3, <1>4 DEF InCall

LEMMA ReportsTask ==
  ASSUME TypeOK, Places, Reports, NEW s \in Seqs, TaskReports(s) \/ TaskFinishes(s)
  PROVE  Reports'
  <1>0. UNCHANGED <<regs, current, tasks, joining, earlyEnds, lc>>
    BY DEF TaskReports, TaskFinishes, emitVars, chanVars, lcVars
  <1>1. CASE TaskReports(s)
    <2>1. s \notin RangeOf(ends) /\ s \notin joining /\ s \notin earlyEnds
      BY <1>1 DEF TaskReports, Reports
    <2>2. RangeOf(ends') = RangeOf(ends) \cup {s} /\ Distinct(ends')
      <3>1. ends \in Seq(Seqs) /\ Distinct(ends) /\ ends' = Append(ends, s)
        BY <1>1 DEF TaskReports, TypeOK, Reports
      <3> QED BY <2>1, <3>1, Sent
    <2>3. task'[s] = "reported" /\ \A n \in Seqs \ {s} : task'[n] = task[n]
      BY <1>1 DEF TaskReports, TypeOK
    <2>4. RangeOf(ends) \subseteq Seqs /\ joining \subseteq Seqs /\ earlyEnds \subseteq Seqs
      BY DEF TypeOK, RangeOf
    <2>5. \A n \in RangeOf(ends') : /\ task'[n] \in {"reported", "finished", "joined"}
                                    /\ task'[n] = task[n] \/ n = s
      BY <2>1, <2>2, <2>3, <2>4 DEF Reports
    <2>6. \A n \in joining \cup earlyEnds : task'[n] = task[n] BY <2>1, <2>3, <2>4
    <2>7. ASSUME lc \in {"off", "top", "select"}, NEW n \in RangeOf(ends')
          PROVE  task'[n] # "joined" /\ n \notin joining /\ n \notin earlyEnds
      BY <2>1, <2>2, <2>3, <2>4, <2>7 DEF Reports
    <2> QED BY <1>0, <2>2, <2>5, <2>6, <2>7 DEF Reports
  <1>2. CASE TaskFinishes(s)
    <2>1. ends' = ends /\ task[s] = "reported" /\ task'[s] = "finished" /\ \A n \in Seqs \ {s} : task'[n] = task[n]
      BY <1>2 DEF TaskFinishes, TypeOK, chanVars
    <2>2. RangeOf(ends) \subseteq Seqs BY DEF TypeOK, RangeOf
    <2> QED BY <1>0, <2>1, <2>2 DEF Reports, TypeOK
  <1> QED BY <1>1, <1>2

\* A registration that comes after its report is joined at once: its report was
\* the only one.
LEMMA ReportsTaken ==
  ASSUME TypeOK, Places, Reports, TakeRegistration, joining = {},
         UNCHANGED <<current, task, ends>>,
         lc' \in {"off", "top", "select"} => lc \in {"off", "top", "select"}
  PROVE  Reports'
  <1> DEFINE s == Head(regs)
  <1>1. regs \in Seq(Seqs) /\ regs # <<>> /\ Distinct(regs) BY DEF TypeOK, TakeRegistration, Places
  <1>2. RangeOf(regs) = {s} \cup RangeOf(Tail(regs)) BY <1>1, Received
  <1>3. regs' = Tail(regs) BY DEF TakeRegistration
  <1>4. CASE s \in earlyEnds
    <2>1. earlyEnds' = earlyEnds \ {s} /\ joining' = {s} /\ tasks' = tasks
      BY <1>4 DEF TakeRegistration, ForgetEarlyEnd
    <2> HIDE DEF s
    <2> QED BY <1>2, <1>3, <1>4, <2>1 DEF Reports
  <1>5. CASE s \notin earlyEnds
    <2>1. earlyEnds' = earlyEnds /\ joining' = joining /\ tasks' = tasks \cup {s}
      BY <1>5 DEF TakeRegistration
    <2> HIDE DEF s
    <2> QED BY <1>2, <1>3, <1>5, <2>1 DEF Reports
  <1> QED BY <1>4, <1>5

LEMMA ReportsLifecycle ==
  ASSUME TypeOK, Gates, Places, Reports, Lifecycle
  PROVE  Reports'
  <1> USE DEF emitVars, taskVars, chanVars
  <1>1. CASE LcTop \/ LcOwnerGone \/ LcChanged \/ LcDrain \/ DrainDone
    BY <1>1, ReportsKept DEF LcTop, LcOwnerGone, OnOwnerGone, LcChanged, LcDrain, DrainDone
  <1>2. CASE LcRegistration
    BY <1>2, ReportsTaken DEF LcRegistration, Gates
  <1>3. CASE LcCollect
    BY <1>3, ReportsTaken DEF LcCollect
  <1>4. CASE DrainAbort BY <1>4, ReportsKept DEF DrainAbort
  <1>5. CASE LcEnd
    <2> DEFINE s == Head(ends)
    <2>1. joining = {} /\ ends \in Seq(Seqs) /\ ends # <<>> /\ Distinct(ends) /\ lc = "select"
      BY <1>5 DEF LcEnd, Gates, TypeOK, Reports
    <2>2. /\ RangeOf(ends) = {s} \cup RangeOf(Tail(ends)) /\ s \in Seqs
          /\ Distinct(Tail(ends)) /\ s \notin RangeOf(Tail(ends))
      BY <2>1, Received
    <2>3. ends' = Tail(ends) /\ lc' = "top" /\ UNCHANGED <<task, regs, current>>
      BY <1>5 DEF LcEnd
    <2>4. task[s] \in {"reported", "finished"} /\ s \notin earlyEnds BY <2>1, <2>2 DEF Reports
    <2>5. CASE s \in tasks
      <3>1. tasks' = tasks \ {s} /\ joining' = {s} /\ earlyEnds' = earlyEnds BY <1>5, <2>5 DEF LcEnd
      <3> HIDE DEF s
      <3> QED BY <2>1, <2>2, <2>3, <2>4, <3>1 DEF Reports
    <2>6. CASE s \notin tasks
      <3>1. tasks' = tasks /\ joining' = joining /\ earlyEnds' = earlyEnds \cup {s}
        BY <1>5, <2>6 DEF LcEnd, KeepEarlyEnd
      <3>2. s \in Alive BY <2>2, <2>4 DEF Alive
      <3>3. s \in RangeOf(regs) \/ \E e \in Emitters : current[e] = s
        BY <2>1, <2>6, <3>2 DEF Places
      <3> HIDE DEF s
      <3> QED BY <2>1, <2>2, <2>3, <2>4, <2>6, <3>1, <3>3 DEF Reports
    <2> QED BY <2>5, <2>6
  <1>6. ASSUME NEW s \in Seqs, LcJoined(s) PROVE Reports'
    <2>1. /\ joining' = joining \ {s} /\ s \in joining /\ task[s] = "finished"
          /\ UNCHANGED <<regs, ends, current, tasks, earlyEnds, lc>>
          /\ task'[s] = "joined" /\ \A n \in Seqs \ {s} : task'[n] = task[n]
      BY <1>6 DEF LcJoined, TypeOK
    <2>2. s \notin earlyEnds BY <2>1 DEF Reports
    <2>3. RangeOf(ends) \subseteq Seqs /\ joining \subseteq Seqs /\ earlyEnds \subseteq Seqs
      BY DEF TypeOK, RangeOf
    <2>4. \A n \in RangeOf(ends) : task'[n] \in {"reported", "finished", "joined"}
      BY <2>1, <2>3 DEF Reports
    <2>5. \A n \in joining' \cup earlyEnds : task'[n] = task[n] BY <2>1, <2>2, <2>3
    <2>6. ASSUME lc \in {"off", "top", "select"}, NEW n \in RangeOf(ends)
          PROVE  task'[n] # "joined" /\ n \notin joining /\ n \notin earlyEnds
      <3>1. n # s BY <2>1, <2>6 DEF Reports
      <3> QED BY <2>1, <2>3, <2>6, <3>1 DEF Reports
    <2> QED BY <2>1, <2>4, <2>5, <2>6 DEF Reports
  <1>7. CASE DrainRegistration
    <2>1. regs = <<>> BY <1>7 DEF DrainRegistration, Draining, Gates
    <2> QED BY <1>7, <2>1, ReportsKept DEF DrainRegistration
  <1>8. CASE DrainEnd
    <2>1. ends \in Seq(Seqs) /\ Distinct(ends) /\ lc = "drain" /\ joining = {}
      BY <1>8 DEF TypeOK, Reports, DrainEnd, Draining
    <2>2. UNCHANGED <<task, regs, current, earlyEnds, lc>> /\ tasks' \subseteq tasks BY <1>8 DEF DrainEnd
    <2>3. CASE ends # <<>>
      <3>1. ends' = Tail(ends) /\ joining' = tasks \cap {Head(ends)} BY <1>8, <2>3 DEF DrainEnd
      <3>2. RangeOf(ends) = {Head(ends)} \cup RangeOf(Tail(ends)) /\ Distinct(Tail(ends))
        BY <2>1, <2>3, Received
      <3>3. \A s \in joining' : task[s] \in {"reported", "finished"}
        BY <3>1, <3>2 DEF Reports, Places, Alive
      <3> QED BY <2>1, <2>2, <3>1, <3>2, <3>3 DEF Reports
    <2>4. CASE ends = <<>>
      <3>1. ends' = ends /\ joining' = tasks /\ \A s \in Seqs : task[s] # "running"
        BY <1>8, <2>4 DEF DrainEnd
      <3>2. \A s \in joining' : task[s] \in {"reported", "finished"}
        BY <3>1 DEF Places, Alive, TypeOK
      <3> QED BY <2>1, <2>2, <3>1, <3>2 DEF Reports
    <2> QED BY <2>3, <2>4
  <1>9. CASE DrainSweep
    <2>1. /\ joining' \subseteq tasks /\ \A s \in joining' : task[s] = "finished"
          /\ tasks' \subseteq tasks /\ lc = "drain"
          /\ UNCHANGED <<task, regs, current, ends, earlyEnds, lc>>
      BY <1>9 DEF DrainSweep, Draining
    <2> QED BY <2>1 DEF Reports
  <1> QED BY <1>1, <1>2, <1>3, <1>4, <1>5, <1>6, <1>7, <1>8, <1>9 DEF Lifecycle

LEMMA ReportsStep ==
  ASSUME TypeOK, Gates, Places, Reports, [Next]_vars
  PROVE  Reports'
  <1>1. CASE UNCHANGED vars
    BY <1>1, ReportsKept DEF vars, emitVars, taskVars, chanVars, lcVars
  <1>2. ASSUME NEW e \in Emitters, NEW n \in 1..NTargets, EmitSelect(e, n) PROVE Reports'
    BY <1>2, ReportsKept DEF EmitSelect, taskVars, chanVars, lcVars
  <1>3. ASSUME NEW c \in Callers,
               ShutdownClose(c) \/ ShutdownSignal(c) \/ ShutdownReturns(c) \/ ShutdownCancelled(c)
        PROVE  Reports'
    <2>1. lc' = lc \/ lc = "off"
      BY <1>3 DEF ShutdownClose, ShutdownSignal, ShutdownReturns, ShutdownCancelled,
         ensure_lifecycle_started, lcVars
    <2> QED BY <1>3, <2>1, ReportsKept DEF ShutdownClose, ShutdownSignal, ShutdownReturns,
       ShutdownCancelled, emitVars, taskVars, chanVars, lcVars
  <1>4. CASE GraceRunsOut \/ DropOwner
    BY <1>4, ReportsKept DEF GraceRunsOut, DropOwner, emitVars, taskVars, chanVars, lcVars
  <1> QED BY <1>1, <1>2, <1>3, <1>4, ReportsEmit, ReportsTask, ReportsLifecycle DEF Next

-----------------------------------------------------------------------------
(* The permits and the counter                                              *)

LEMMA AliveFinite == IsFiniteSet(Alive) /\ Cardinality(Alive) \in Nat
  <1>1. IsFiniteSet(Seqs) BY EmitterAssumption, FS_Interval DEF Seqs
  <1>2. Alive \subseteq Seqs BY DEF Alive
  <1> QED BY <1>1, <1>2, FS_Subset, FS_CardinalityType

LEMMA CountKept ==
  ASSUME Count, UNCHANGED <<task, permits, pending, drainComplete>>, owner' => owner,
         lc = "done" => lc' = "done"
  PROVE  Count'
  BY AliveSame DEF Count

LEMMA CountEmit ==
  ASSUME TypeOK, Gates, Places, Count, NEW e \in Emitters, InCall(e)
  PROVE  Count'
  <1>1. CASE EmitLock(e) \/ EmitNoPermit(e) \/ EmitUnlock(e)
    BY <1>1, CountKept DEF EmitLock, EmitNoPermit, EmitUnlock, taskVars, ownVars, lcVars
  <1>2. CASE EmitStart(e)
    BY <1>2, CountKept DEF EmitStart, ensure_lifecycle_started, taskVars, ownVars
  <1>3. CASE EmitRegister(e)
    <2>1. lc # "done" BY <1>3 DEF EmitRegister, Gates, TypeOK
    <2> QED BY <1>3, <2>1, CountKept DEF EmitRegister, ownVars, lcVars
  <1>4. CASE EmitSpawn(e)
    <2>1. nextSeq + 1 \notin Alive /\ Alive' = Alive \cup {nextSeq + 1} BY <1>4, AliveSpawn
    <2>2. Cardinality(Alive') = Cardinality(Alive) + 1 BY <2>1, AliveFinite, FS_AddElement
    <2>3. lc # "done" /\ owner BY <1>4 DEF EmitSpawn, Gates, TypeOK
    <2> QED BY <1>4, <2>2, <2>3, AliveFinite, EmitterAssumption DEF EmitSpawn, Count, ownVars, lcVars
  <1> QED BY <1>1, <1>2, <1>3, <1>4 DEF InCall

\* When the drain is over nothing is alive.
LEMMA DrainedIsEmpty ==
  ASSUME TypeOK, Gates, Places, lc \in {"drain", "done"}, tasks = {}, joining = {}
  PROVE  Alive = {}
  <1>1. regs = <<>> /\ \A e \in Emitters : epc[e] # "register" BY DEF Gates, TypeOK
  <1>2. RangeOf(regs) = {} BY <1>1, EmptyRange
  <1>3. \A e \in Emitters : current[e] = 0 BY <1>1 DEF Places
  <1> QED BY <1>2, <1>3 DEF Places, Alive, Seqs

LEMMA CountLifecycle ==
  ASSUME TypeOK, Gates, Places, Count, Lifecycle
  PROVE  Count'
  <1>1. CASE LcTop \/ LcRegistration \/ LcOwnerGone \/ LcEnd \/ LcChanged \/ LcCollect \/ LcDrain
    BY <1>1, CountKept DEF LcTop, LcRegistration, LcOwnerGone, LcEnd, LcChanged, LcCollect, LcDrain,
       taskVars, ownVars
  <1>2. CASE DrainAbort \/ DrainRegistration \/ DrainEnd \/ DrainSweep
    BY <1>2, CountKept DEF DrainAbort, DrainRegistration, DrainEnd, DrainSweep, taskVars, ownVars
  <1>3. CASE DrainDone
    <2>1. Alive = {} /\ Cardinality(Alive) = 0
      BY <1>3, DrainedIsEmpty, FS_EmptySet DEF DrainDone
    <2> QED BY <1>3, <2>1, AliveSame DEF DrainDone, Count, taskVars, ownVars
  <1>4. ASSUME NEW s \in Seqs, LcJoined(s) PROVE Count'
    <2>1. s \in Alive /\ Alive' = Alive \ {s} BY <1>4, AliveJoined
    <2>2. Cardinality(Alive') = Cardinality(Alive) - 1 BY <2>1, AliveFinite, FS_RemoveElement
    <2>3. lc # "done" BY <1>4 DEF LcJoined, Gates
    <2> QED BY <1>4, <2>2, <2>3, AliveFinite, EmitterAssumption DEF LcJoined, Count, ownVars
  <1> QED BY <1>1, <1>2, <1>3, <1>4 DEF Lifecycle

LEMMA CountStep ==
  ASSUME TypeOK, Gates, Places, Count, [Next]_vars
  PROVE  Count'
  <1>1. CASE UNCHANGED vars BY <1>1, CountKept DEF vars, taskVars, ownVars, lcVars
  <1>2. ASSUME NEW e \in Emitters, NEW n \in 1..NTargets, EmitSelect(e, n) PROVE Count'
    BY <1>2, CountKept DEF EmitSelect, taskVars, ownVars, lcVars
  <1>3. ASSUME NEW s \in Seqs, TaskReports(s) \/ TaskFinishes(s) PROVE Count'
    <2>1. Alive' = Alive BY <1>3, AliveReports
    <2> QED BY <1>3, <2>1 DEF Count, TaskReports, HoldPermit, TaskFinishes, ownVars, lcVars
  <1>4. ASSUME NEW c \in Callers,
               ShutdownClose(c) \/ ShutdownSignal(c) \/ ShutdownReturns(c) \/ ShutdownCancelled(c)
        PROVE  Count'
    BY <1>4, CountKept DEF ShutdownClose, ShutdownSignal, ensure_lifecycle_started, ShutdownReturns,
       ShutdownCancelled, taskVars, lcVars
  <1>5. CASE GraceRunsOut \/ DropOwner
    BY <1>5, CountKept DEF GraceRunsOut, DropOwner, taskVars, ownVars, lcVars
  <1> QED BY <1>1, <1>2, <1>3, <1>4, <1>5, CountEmit, CountLifecycle DEF Next

\* The bounds of the counters follow from the count.
LEMMA CountersTyped ==
  ASSUME TypeOK, Gates, Places, Count, [Next]_vars
  PROVE  permits' \in 0..MaxInFlight /\ pending' \in 0..MaxInFlight
  <1> DEFINE n == Cardinality(Alive)
  <1>0. n \in Nat /\ Cardinality(Alive') \in Nat
    <2>1. IsFiniteSet(Seqs) BY EmitterAssumption, FS_Interval DEF Seqs
    <2>2. Alive' \subseteq Seqs BY DEF Alive
    <2> QED BY <2>1, <2>2, AliveFinite, FS_Subset, FS_CardinalityType
  <1>1. /\ permits = MaxInFlight - n /\ permits \in 0..MaxInFlight
        /\ owner => pending = n
        /\ pending \in 0..MaxInFlight /\ MaxInFlight \in Nat
        /\ permits' = MaxInFlight - Cardinality(Alive')
    BY CountStep, EmitterAssumption DEF Count, TypeOK
  <1>2. CASE UNCHANGED <<permits, pending>> BY <1>1, <1>2
  <1>3. ASSUME NEW e \in Emitters, EmitSpawn(e)
        PROVE  permits' \in 0..MaxInFlight /\ pending' \in 0..MaxInFlight
    <2>1. owner BY <1>3 DEF EmitSpawn, Gates
    <2> QED BY <1>0, <1>1, <1>3, <2>1 DEF EmitSpawn, HasPermit
  <1>4. ASSUME NEW e \in Emitters, EmitRegister(e) PROVE UNCHANGED <<permits, pending>>
    BY <1>4 DEF EmitRegister, Gates, TypeOK
  <1>5. ASSUME NEW s \in Seqs, LcJoined(s)
        PROVE  permits' \in 0..MaxInFlight /\ pending' \in 0..MaxInFlight
    <2>1. n # 0
      <3>1. s \in Alive BY <1>5, AliveJoined
      <3> QED BY <3>1, AliveFinite, FS_EmptySet
    <2> QED BY <1>0, <1>1, <1>5, <2>1 DEF LcJoined
  <1>6. ASSUME NEW e \in Emitters, InCall(e)
        PROVE  UNCHANGED <<permits, pending>> \/ EmitSpawn(e) \/ EmitRegister(e)
    BY <1>6 DEF InCall, EmitLock, EmitNoPermit, EmitUnlock, EmitStart, taskVars
  <1>7. CASE Lifecycle
    <2>1. UNCHANGED <<permits, pending>> \/ \E s \in Seqs : LcJoined(s)
      BY <1>7 DEF Lifecycle, LcTop, LcRegistration, LcOwnerGone, LcEnd, LcChanged, LcCollect, LcDrain,
         DrainAbort, DrainRegistration, DrainEnd, DrainSweep, DrainDone, taskVars
    <2> QED BY <1>2, <1>5, <2>1
  <1>8. ASSUME NEW e \in Emitters, NEW k \in 1..NTargets, EmitSelect(e, k) PROVE UNCHANGED <<permits, pending>>
    BY <1>8 DEF EmitSelect, taskVars
  <1>9. ASSUME NEW s \in Seqs, TaskReports(s) \/ TaskFinishes(s) PROVE UNCHANGED <<permits, pending>>
    BY <1>9 DEF TaskReports, HoldPermit, TaskFinishes
  <1>10. ASSUME NEW c \in Callers,
                ShutdownClose(c) \/ ShutdownSignal(c) \/ ShutdownReturns(c) \/ ShutdownCancelled(c)
         PROVE  UNCHANGED <<permits, pending>>
    BY <1>10 DEF ShutdownClose, ShutdownSignal, ShutdownReturns, ShutdownCancelled, taskVars
  <1>11. CASE GraceRunsOut \/ DropOwner BY <1>2, <1>11 DEF GraceRunsOut, DropOwner, taskVars
  <1>12. CASE UNCHANGED vars BY <1>2, <1>12 DEF vars, taskVars
  <1> QED BY <1>2, <1>3, <1>4, <1>6, <1>7, <1>8, <1>9, <1>10, <1>11, <1>12 DEF Next

-----------------------------------------------------------------------------
(* Types                                                                    *)

\* The types of everything but the two counters.
Typed ==
    /\ closed \in BOOLEAN /\ graceOver \in BOOLEAN /\ gate \in Emitters \cup {None}
    /\ epc \in [Emitters -> {"idle", "select", "fanout", "register", "start"}]
    /\ left \in [Emitters -> 0..NTargets]
    /\ current \in [Emitters -> 0..MaxSeq]
    /\ accepted \in [Emitters -> BOOLEAN]
    /\ nextSeq \in 0..MaxSeq
    /\ task \in [Seqs -> {"none", "running", "reported", "finished", "joined"}]
    /\ aborting \subseteq Seqs
    /\ regs \in Seq(Seqs) /\ ends \in Seq(Seqs)
    /\ owner \in BOOLEAN /\ shutdownTx \in BOOLEAN
    /\ spc \in [Callers -> {"idle", "closed", "waiting", "returned", "cancelled"}]
    /\ lc \in {"off", "top", "select", "collect", "drain", "done"}
    /\ joining \subseteq Seqs /\ tasks \subseteq Seqs /\ earlyEnds \subseteq Seqs
    /\ ownerGone \in BOOLEAN /\ aborted \in BOOLEAN /\ regsClosed \in BOOLEAN /\ drainComplete \in BOOLEAN

LEMMA TypedEmit ==
  ASSUME TypeOK, Gates, Places, NEW e \in Emitters, InCall(e)
  PROVE  Typed'
  <1> USE DEF TypeOK, Typed, gateVars, chanVars, ownVars, lcVars
  <1>1. CASE EmitLock(e) BY <1>1 DEF EmitLock, taskVars
  <1>2. CASE EmitNoPermit(e)
    <2>1. left' \in [Emitters -> 0..NTargets] BY <1>2, EmitterAssumption DEF EmitNoPermit
    <2> QED BY <1>2, <2>1 DEF EmitNoPermit, taskVars
  <1>3. CASE EmitSpawn(e)
    <2>1. nextSeq + 1 \in Seqs /\ nextSeq + 1 \in 0..MaxSeq
      BY <1>3, EmitterAssumption DEF EmitSpawn, Seqs
    <2>2. left' \in [Emitters -> 0..NTargets] BY <1>3, EmitterAssumption DEF EmitSpawn
    <2>3. current' \in [Emitters -> 0..MaxSeq] BY <1>3, <2>1 DEF EmitSpawn
    <2> QED BY <1>3, <2>1, <2>2, <2>3 DEF EmitSpawn
  <1>4. CASE EmitRegister(e)
    <2>1. current[e] \in Seqs /\ lc # "done" BY <1>4 DEF EmitRegister, Places, Alive, Gates
    <2>2. regs' \in Seq(Seqs)
      <3>1. regs \in Seq(Seqs) /\ regs' = Append(regs, current[e]) BY <1>4, <2>1 DEF EmitRegister
      <3> QED BY <2>1, <3>1, Sent
    <2>3. current' \in [Emitters -> 0..MaxSeq] BY <1>4, EmitterAssumption DEF EmitRegister
    <2> QED BY <1>4, <2>1, <2>2, <2>3 DEF EmitRegister
  <1>5. CASE EmitUnlock(e) BY <1>5 DEF EmitUnlock, taskVars
  <1>6. CASE EmitStart(e) BY <1>6 DEF EmitStart, ensure_lifecycle_started, taskVars
  <1> QED BY <1>1, <1>2, <1>3, <1>4, <1>5, <1>6 DEF InCall

\* Receiving and registering stay within the task numbers.
LEMMA TakeTyped ==
  ASSUME TypeOK, TakeRegistration
  PROVE  /\ regs' \in Seq(Seqs)
         /\ tasks' \subseteq Seqs /\ joining' \subseteq Seqs /\ earlyEnds' \subseteq Seqs
  <1>1. Head(regs) \in Seqs /\ Tail(regs) \in Seq(Seqs) BY Received DEF TakeRegistration, TypeOK
  <1> QED BY <1>1 DEF TakeRegistration, ForgetEarlyEnd, TypeOK

LEMMA TypedLifecycle ==
  ASSUME TypeOK, Lifecycle
  PROVE  Typed'
  <1> USE DEF Typed, gateVars, emitVars, chanVars, ownVars, taskVars
  <1>1. CASE LcTop \/ LcOwnerGone \/ LcChanged \/ LcDrain
    BY <1>1 DEF TypeOK, LcTop, LcOwnerGone, OnOwnerGone, LcChanged, LcDrain
  <1>2. CASE LcRegistration \/ LcCollect
    BY <1>2, TakeTyped DEF TypeOK, LcRegistration, LcCollect
  <1>3. CASE LcEnd
    <2>1. Head(ends) \in Seqs /\ Tail(ends) \in Seq(Seqs) BY <1>3, Received DEF LcEnd, TypeOK
    <2> QED BY <1>3, <2>1 DEF TypeOK, LcEnd, KeepEarlyEnd
  <1>4. ASSUME NEW s \in Seqs, LcJoined(s) PROVE Typed' BY <1>4 DEF TypeOK, LcJoined
  <1>5. CASE DrainAbort BY <1>5 DEF TypeOK, DrainAbort, abort_all
  <1>6. CASE DrainRegistration
    <2>1. CASE regs # <<>>
      <3>1. Head(regs) \in Seqs /\ Tail(regs) \in Seq(Seqs) BY <2>1, Received DEF TypeOK
      <3> QED BY <1>6, <2>1, <3>1 DEF TypeOK, DrainRegistration
    <2>2. CASE regs = <<>> BY <1>6, <2>2 DEF TypeOK, DrainRegistration, abort_all
    <2> QED BY <2>1, <2>2
  <1>7. CASE DrainEnd
    <2>1. ends' \in Seq(Seqs)
      <3>1. ends \in Seq(Seqs) /\ (ends' = ends \/ (ends # <<>> /\ ends' = Tail(ends)))
        BY <1>7 DEF DrainEnd, TypeOK
      <3> QED BY <3>1, Received
    <2> QED BY <1>7, <2>1 DEF TypeOK, DrainEnd
  <1>8. CASE DrainSweep BY <1>8 DEF TypeOK, DrainSweep
  <1>9. CASE DrainDone BY <1>9 DEF TypeOK, DrainDone
  <1> QED BY <1>1, <1>2, <1>3, <1>4, <1>5, <1>6, <1>7, <1>8, <1>9 DEF Lifecycle

LEMMA TypeStep ==
  ASSUME TypeOK, Gates, Places, Count, [Next]_vars
  PROVE  TypeOK'
  <1>1. SUFFICES Typed' BY CountersTyped DEF TypeOK, Typed
  <1>2. CASE UNCHANGED vars
    BY <1>2 DEF TypeOK, Typed, vars, gateVars, emitVars, taskVars, chanVars, ownVars, lcVars
  <1>3. ASSUME NEW e \in Emitters, NEW n \in 1..NTargets, EmitSelect(e, n) PROVE Typed'
    BY <1>3, EmitterAssumption DEF TypeOK, Typed, EmitSelect, gateVars, taskVars, chanVars, ownVars, lcVars
  <1>4. ASSUME NEW s \in Seqs, TaskReports(s) \/ TaskFinishes(s) PROVE Typed'
    <2> USE DEF TypeOK, Typed, gateVars, emitVars, chanVars, ownVars, lcVars
    <2>1. CASE TaskReports(s)
      <3>1. ends' \in Seq(Seqs) BY <2>1, Sent DEF TaskReports
      <3> QED BY <2>1, <3>1 DEF TaskReports
    <2>2. CASE TaskFinishes(s) BY <2>2 DEF TaskFinishes
    <2> QED BY <1>4, <2>1, <2>2
  <1>5. ASSUME NEW c \in Callers,
               ShutdownClose(c) \/ ShutdownSignal(c) \/ ShutdownReturns(c) \/ ShutdownCancelled(c)
        PROVE  Typed'
    <2> USE DEF TypeOK, Typed, gateVars, emitVars, taskVars, chanVars, lcVars
    <2>1. CASE ShutdownClose(c) BY <2>1 DEF ShutdownClose
    <2>2. CASE ShutdownSignal(c) BY <2>2 DEF ShutdownSignal, ensure_lifecycle_started
    <2>3. CASE ShutdownReturns(c) BY <2>3 DEF ShutdownReturns
    <2>4. CASE ShutdownCancelled(c) BY <2>4 DEF ShutdownCancelled
    <2> QED BY <1>5, <2>1, <2>2, <2>3, <2>4
  <1>6. CASE GraceRunsOut
    BY <1>6 DEF TypeOK, Typed, GraceRunsOut, gateVars, emitVars, taskVars, chanVars, ownVars, lcVars
  <1>7. CASE DropOwner
    BY <1>7 DEF TypeOK, Typed, DropOwner, gateVars, emitVars, taskVars, chanVars, ownVars, lcVars
  <1> QED BY <1>2, <1>3, <1>4, <1>5, <1>6, <1>7, TypedEmit, TypedLifecycle DEF Next

-----------------------------------------------------------------------------
(* The theorems                                                             *)

\* The inductive invariant holds in every reachable state.
THEOREM Invariance == Spec => []Inv
  <1>1. Init => Inv
    <2> SUFFICES ASSUME Init PROVE Inv OBVIOUS
    <2>1. TypeOK
      <3>1. 0 \in 0..NTargets /\ 0 \in 0..MaxSeq /\ 0 \in 0..MaxInFlight /\ MaxInFlight \in 0..MaxInFlight
        BY EmitterAssumption
      <3>2. <<>> \in Seq(Seqs) BY EmptySeq
      <3> QED BY <3>1, <3>2 DEF Init, TypeOK
    <2>2. Alive = {} BY DEF Init, Alive
    <2>3. Gates BY DEF Init, Gates
    <2>4. Places BY <2>2, EmptyRange DEF Init, Places
    <2>5. Reports BY EmptyRange DEF Init, Reports
    <2>6. Count BY <2>2, FS_EmptySet, EmitterAssumption DEF Init, Count
    <2> QED BY <2>1, <2>3, <2>4, <2>5, <2>6 DEF Inv
  <1>2. Inv /\ [Next]_vars => Inv'
    BY TypeStep, GatesStep, PlacesStep, ReportsStep, CountStep DEF Inv
  <1> QED BY <1>1, <1>2, PTL DEF Spec

\* Every variable of the emitter keeps its type, the permits and the counter of
\* pending sends their bounds.
THEOREM TypeCorrect == Spec => []TypeOK
  <1>1. Inv => TypeOK BY DEF Inv
  <1> QED BY <1>1, Invariance, PTL

\* No registration comes after the drain began, a report kept early always has
\* its registration coming, and when the lifecycle task stops every send task was
\* joined, every permit is back and pending is zero for whoever can look.
THEOREM LifecycleIsSound == Spec => []LifecycleSound
  <1>1. Inv => LifecycleSound
    <2> SUFFICES ASSUME Inv PROVE LifecycleSound OBVIOUS
    <2>1. TypeOK /\ Gates /\ Places /\ Reports /\ Count BY DEF Inv
    <2>2. NoLateRegistration BY <2>1, NothingLate
    <2>3. EarlyEndsMatched BY <2>1 DEF Reports, RangeOf, EarlyEndsMatched
    <2>4. DrainLeavesNothing
      <3> SUFFICES ASSUME lc = "done"
                   PROVE  /\ \A s \in Seqs : task[s] \in {"none", "joined"}
                          /\ permits = MaxInFlight
                          /\ drainComplete => pending = 0
        BY DEF DrainLeavesNothing
      <3>1. Alive = {} BY <2>1, DrainedIsEmpty DEF Gates
      <3>2. Cardinality(Alive) = 0 BY <3>1, FS_EmptySet
      <3> QED BY <2>1, <3>1, <3>2, EmitterAssumption DEF Alive, Count
    <2> QED BY <2>2, <2>3, <2>4 DEF LifecycleSound
  <1> QED BY <1>1, Invariance, PTL
=============================================================================
