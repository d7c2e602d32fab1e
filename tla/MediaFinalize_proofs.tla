------------------------ MODULE MediaFinalize_proofs ------------------------
(***************************************************************************)
(* Proofs about MediaFinalize, for any manifests, workers, page count and   *)
(* bounds.  The inductive invariant has a part per hazard: the rows and the *)
(* page objects of a manifest agree from the upload on (Layout), a claim    *)
(* always opens a new epoch (Fencing), and a worker has published what its  *)
(* place in the order says (Published).                                     *)
(***************************************************************************)
EXTENDS MediaFinalize, TLAPS

\* A worker that is not idle has a manifest, which is sealed.
Busy == \A w \in Workers : pc[w] # "idle" => man[w] \in Manifests /\ Sealed(man[w])

\* The rows of a page are the upload that wrote them, the page object is the
\* rows' content, and a layout that passed the comparison is canonical for good.
Layout ==
    \A m \in Manifests :
        /\ \A u \in written[m] : rows[m][u[1]] = u[2]
        /\ \A p \in Pages : obj[m][p] \in {"none", rows[m][p]}
        /\ sealing[m] => \A p \in Pages : obj[m][p] = "good"
        /\ Sealed(m) => sealing[m]

\* No worker is ahead of its task's epoch, and a lease that is ahead belongs to
\* a running task.
Fencing ==
    /\ Fenced
    /\ \A w \in Workers : pc[w] \in Working => held[w] <= epoch[man[w]]
    /\ \A m \in Manifests : lease[m] = "ahead" => task[m] = "running"

\* What a worker at a step of the publication has put in place.
Reached(w) ==
    LET s == pc[w]
        m == man[w] IN
    /\ s \in {"lfsRow", "immutable", "putIdentity", "finalize", "byMedia", "complete"} => fallbackObj
    /\ s \in {"immutable", "putIdentity", "finalize", "byMedia", "complete"} => lfsRow
    /\ s \in {"finalize", "byMedia", "complete"} => immutable[m]
    /\ s \in {"byMedia", "complete"} => session[m] = "finalized"
    /\ s = "complete" => byMedia # None
Published == PublishedIsReadable /\ \A w \in Workers : Reached(w)

Inv == TypeOK /\ Busy /\ Layout /\ Fencing /\ Published

-----------------------------------------------------------------------------
(* Types                                                                    *)

LEMMA PagesTyped == /\ \A p \in Pages : p \in Nat /\ p < NPages
                    /\ NPages \in Nat
                    /\ \A p \in Nat : p < NPages => p \in Pages
  BY MediaAssumption DEF Pages

LEMMA UploadParts ==
  ASSUME NEW u \in Uploads
  PROVE  u[1] \in Pages /\ u[2] \in Contents
  BY DEF Uploads

\* A fault stays within its bound.
LEMMA FaultTyped ==
  ASSUME TypeOK, Fault
  PROVE  faults' \in 0..MaxFaults
  BY MediaAssumption DEF TypeOK, Fault

LEMMA UploadTypes ==
  ASSUME TypeOK, NEW m \in Manifests, Upload(m)
  PROVE  TypeOK'
  <1> USE DEF TypeOK
  <1>1. CASE UpsertSession(m)
    BY <1>1 DEF UpsertSession, taskVars, workVars, pubVars
  <1>2. CASE WritePending(m)
    BY <1>2 DEF WritePending, taskVars, workVars, pubVars
  <1>3. CASE PendingExpires(m)
    BY <1>3, FaultTyped DEF PendingExpires, taskVars, workVars, pubVars
  <1>4. ASSUME NEW u \in Uploads, PutCheck(m, u) PROVE TypeOK'
    BY <1>4 DEF PutCheck, taskVars, workVars, pubVars
  <1>5. ASSUME NEW u \in Uploads, PutRows(m, u) PROVE TypeOK'
    <2>1. u[1] \in Pages /\ u[2] \in Contents BY UploadParts
    <2>2. [rows[m] EXCEPT ![u[1]] = u[2]] \in [Pages -> {"none"} \cup Contents] BY <2>1
    <2>3. rows' \in [Manifests -> [Pages -> {"none"} \cup Contents]] BY <1>5, <2>2 DEF PutRows
    <2>4. written' \in [Manifests -> SUBSET Uploads] BY <1>5 DEF PutRows
    <2> QED BY <1>5, <2>3, <2>4 DEF PutRows, taskVars, workVars, pubVars
  <1>6. ASSUME NEW u \in Uploads, PutObject(m, u) PROVE TypeOK'
    <2>1. u[1] \in Pages /\ u[2] \in Contents BY UploadParts
    <2>2. [obj[m] EXCEPT ![u[1]] = u[2]] \in [Pages -> {"none"} \cup Contents] BY <2>1
    <2>3. obj' \in [Manifests -> [Pages -> {"none"} \cup Contents]] BY <1>6, <2>2 DEF PutObject
    <2> QED BY <1>6, <2>3 DEF PutObject, taskVars, workVars, pubVars
  <1>7. CASE SealCheck(m)
    BY <1>7 DEF SealCheck, taskVars, workVars, pubVars
  <1>8. CASE SealSession(m)
    BY <1>8 DEF SealSession, taskVars, workVars, pubVars
  <1> QED BY <1>1, <1>2, <1>3, <1>4, <1>5, <1>6, <1>7, <1>8 DEF Upload

LEMMA EnqueueTypes ==
  ASSUME TypeOK, NEW m \in Manifests, NEW w \in Workers, Enqueue(w, m)
  PROVE  TypeOK'
  <1> USE DEF TypeOK
  <1>1. task' \in [Manifests -> {"none", "pending", "running", "complete", "failed"}]
    BY DEF Enqueue, NewState
  <1>2. owner' \in [Manifests -> Workers \cup {None}] /\ lease' \in [Manifests -> {"none", "ahead", "past"}]
    BY DEF Enqueue
  <1>3. pc' \in [Workers -> {"idle", "waiting"} \cup Working] /\ man' \in [Workers -> Manifests \cup {None}]
    BY DEF Enqueue
  <1> QED BY <1>1, <1>2, <1>3 DEF Enqueue, upVars, pubVars

\* The future of a worker ends within the types.
LEMMA IdleTypes ==
  ASSUME TypeOK, NEW w \in Workers, Idle(w)
  PROVE  /\ pc' \in [Workers -> {"idle", "waiting"} \cup Working]
         /\ man' \in [Workers -> Manifests \cup {None}]
         /\ page' \in [Workers -> 0..NPages]
         /\ held' \in [Workers -> 0..MaxEpoch]
         /\ wrote' \in [Workers -> BOOLEAN] /\ permanent' \in [Workers -> BOOLEAN]
  BY PagesTyped, MediaAssumption DEF TypeOK, Idle, Goto

LEMMA FailTypes ==
  ASSUME TypeOK, NEW w \in Workers, NEW b \in BOOLEAN, Fail(w, b)
  PROVE  /\ pc' \in [Workers -> {"idle", "waiting"} \cup Working]
         /\ permanent' \in [Workers -> BOOLEAN]
         /\ UNCHANGED <<man, page, held, wrote>>
  BY DEF TypeOK, Fail, Goto, Working

LEMMA WorkTypes ==
  ASSUME TypeOK, Busy, NEW w \in Workers, Work(w)
  PROVE  TypeOK'
  <1>0. pc[w] # "idle" => man[w] \in Manifests BY DEF Busy
  <1>1. CASE Claim(w)
    <2>1. man[w] \in Manifests BY <1>0, <1>1 DEF Claim
    <2>2. NewEpoch(man[w]) \in 0..MaxEpoch
      BY <1>1, <2>1, MediaAssumption DEF TypeOK, Claim, NewEpoch
    <2> QED BY <1>1, <2>1, <2>2 DEF TypeOK, Claim, Goto, Working, Body, upVars, pubVars
  <1>2. CASE ClaimConflict(w)
    BY <1>2, IdleTypes DEF TypeOK, ClaimConflict, upVars, taskVars, pubVars
  <1>3. CASE Start(w)
    BY <1>3, FailTypes DEF TypeOK, Start, Goto, Working, Body, upVars, taskVars, pubVars
  <1>4. CASE VerifyPage(w)
    <2>1. lease' \in [Manifests -> {"none", "ahead", "past"}]
      BY <1>4 DEF TypeOK, VerifyPage, Progress
    <2>2. /\ pc' \in [Workers -> {"idle", "waiting"} \cup Working]
          /\ page' \in [Workers -> 0..NPages]
          /\ permanent' \in [Workers -> BOOLEAN]
          /\ UNCHANGED <<man, held, wrote>>
      <3>1. CASE Fail(w, TRUE) \/ Fail(w, FALSE) BY <3>1, FailTypes DEF TypeOK
      <3>2. CASE /\ page' = [page EXCEPT ![w] = @ + 1] /\ UNCHANGED <<pc, man, held, wrote, permanent>>
        BY <1>4, <3>2, PagesTyped DEF TypeOK, VerifyPage
      <3> QED BY <1>4, <3>1, <3>2 DEF VerifyPage, Progress
    <2> QED BY <1>4, <2>1, <2>2 DEF TypeOK, VerifyPage, upVars, pubVars
  <1>5. CASE BeginPublish(w)
    <2>1. lease' \in [Manifests -> {"none", "ahead", "past"}]
      BY <1>5 DEF TypeOK, BeginPublish, Progress
    <2>2. /\ pc' \in [Workers -> {"idle", "waiting"} \cup Working]
          /\ permanent' \in [Workers -> BOOLEAN]
          /\ UNCHANGED <<man, page, held, wrote>>
      <3>1. CASE Fail(w, FALSE) BY <3>1, FailTypes DEF TypeOK
      <3>2. CASE Goto(w, "fallback") /\ UNCHANGED <<man, page, held, wrote, permanent>>
        BY <3>2 DEF TypeOK, Goto, Working, Body
      <3> QED BY <1>5, <3>1, <3>2 DEF BeginPublish, Progress
    <2> QED BY <1>5, <2>1, <2>2 DEF TypeOK, BeginPublish, upVars, pubVars
  <1>6. CASE PutFallback(w)
    BY <1>6 DEF TypeOK, PutFallback, Goto, Working, Body, upVars, taskVars
  <1>7. CASE EnsureLfsRow(w)
    BY <1>7 DEF TypeOK, EnsureLfsRow, Goto, Then, Working, Body, upVars, taskVars
  <1>8. CASE LookIdentity(w)
    BY <1>8 DEF TypeOK, LookIdentity, Goto, Then, Working, Body, upVars, taskVars, pubVars
  <1>9. CASE PutIdentity(w)
    BY <1>9 DEF TypeOK, PutIdentity, Goto, Then, Working, Body, upVars, taskVars
  <1>10. CASE mark_session_finalized(w)
    BY <1>10 DEF TypeOK, mark_session_finalized, Goto, Then, Working, Body, taskVars, pubVars
  <1>11. CASE PutByMedia(w)
    BY <1>0, <1>11 DEF TypeOK, PutByMedia, Goto, Then, Working, Body, upVars, taskVars
  <1>12. CASE complete_task(w)
    <2>1. /\ task' \in [Manifests -> {"none", "pending", "running", "complete", "failed"}]
          /\ lease' \in [Manifests -> {"none", "ahead", "past"}]
          /\ session' \in [Manifests -> {"none", "pending", "sealed", "finalized"}]
      BY <1>12 DEF TypeOK, complete_task
    <2> QED BY <1>12, <2>1, IdleTypes DEF TypeOK, complete_task, pubVars
  <1>13. CASE fail_task(w)
    <2>1. CASE UNCHANGED <<task, retryable, owner, lease>>
      BY <1>13, <2>1, IdleTypes DEF TypeOK, fail_task, upVars, pubVars
    <2>2. CASE /\ task' = [task EXCEPT ![man[w]] = "failed"]
               /\ retryable' = [retryable EXCEPT ![man[w]] = ~permanent[w]]
               /\ owner' = [owner EXCEPT ![man[w]] = None]
               /\ lease' = [lease EXCEPT ![man[w]] = "none"]
      <3>1. ASSUME NEW b \in BOOLEAN
            PROVE  [retryable EXCEPT ![man[w]] = b] \in [Manifests -> BOOLEAN]
        BY <3>1 DEF TypeOK
      <3>2. retryable' \in [Manifests -> BOOLEAN] BY <2>2, <3>1, Zenon
      <3>3. /\ task' \in [Manifests -> {"none", "pending", "running", "complete", "failed"}]
            /\ lease' \in [Manifests -> {"none", "ahead", "past"}]
            /\ owner' \in [Manifests -> Workers \cup {None}]
        BY <2>2 DEF TypeOK
      <3> QED BY <1>13, <3>2, <3>3, IdleTypes DEF TypeOK, fail_task, upVars, pubVars
    <2> QED BY <1>13, <2>1, <2>2, Zenon DEF fail_task
  <1> QED BY <1>1, <1>2, <1>3, <1>4, <1>5, <1>6, <1>7, <1>8, <1>9, <1>10, <1>11, <1>12, <1>13 DEF Work

LEMMA TypeStep ==
  ASSUME TypeOK, Busy, [Next]_vars
  PROVE  TypeOK'
  <1>1. CASE UNCHANGED vars
    BY <1>1 DEF TypeOK, vars, upVars, taskVars, workVars, pubVars
  <1>2. ASSUME NEW m \in Manifests, LeaseRunsOut(m) PROVE TypeOK'
    <2>1. faults' \in 0..MaxFaults BY <1>2, FaultTyped DEF LeaseRunsOut, TypeOK
    <2> QED BY <1>2, <2>1 DEF TypeOK, LeaseRunsOut, upVars, workVars, pubVars
  <1>3. ASSUME NEW w \in Workers, BodyError(w) PROVE TypeOK'
    BY <1>3, FaultTyped, FailTypes DEF TypeOK, BodyError, upVars, taskVars, pubVars
  <1>4. ASSUME NEW w \in Workers, Gone(w) PROVE TypeOK'
    BY <1>4, FaultTyped, IdleTypes DEF TypeOK, Gone, upVars, taskVars, pubVars
  <1> QED BY <1>1, <1>2, <1>3, <1>4, UploadTypes, EnqueueTypes, WorkTypes DEF Next

-----------------------------------------------------------------------------
(* Sessions                                                                 *)

\* Every action but those that upload, seal or finish a session leaves it alone.
LEMMA SessionView ==
  ASSUME [Next]_vars
  PROVE  \/ UNCHANGED session
         \/ \E m \in Manifests : UpsertSession(m) \/ SealSession(m)
         \/ \E w \in Workers :
               /\ pc[w] \in {"finalize", "complete"}
               /\ pc[w] = "finalize" => mark_session_finalized(w)
               /\ session' = [session EXCEPT ![man[w]] = "finalized"]
  <1>1. CASE UNCHANGED vars BY <1>1 DEF vars, upVars
  <1>2. ASSUME NEW m \in Manifests, Upload(m)
        PROVE  UNCHANGED session \/ UpsertSession(m) \/ SealSession(m)
    BY <1>2 DEF Upload, WritePending, PendingExpires, PutCheck, PutRows, PutObject, SealCheck
  <1>3. ASSUME NEW m \in Manifests, LeaseRunsOut(m) PROVE UNCHANGED session
    BY <1>3 DEF LeaseRunsOut, upVars
  <1>4. ASSUME NEW w \in Workers, NEW m \in Manifests, Enqueue(w, m) PROVE UNCHANGED session
    BY <1>4 DEF Enqueue, upVars
  <1>5. ASSUME NEW w \in Workers, BodyError(w) \/ Gone(w) PROVE UNCHANGED session
    BY <1>5 DEF BodyError, Gone, upVars
  <1>6. ASSUME NEW w \in Workers, Work(w)
        PROVE  \/ UNCHANGED session
               \/ /\ pc[w] \in {"finalize", "complete"}
                  /\ pc[w] = "finalize" => mark_session_finalized(w)
                  /\ session' = [session EXCEPT ![man[w]] = "finalized"]
    <2>1. CASE mark_session_finalized(w) BY <2>1 DEF mark_session_finalized
    <2>2. CASE complete_task(w) BY <2>2 DEF complete_task
    <2>3. CASE ~mark_session_finalized(w) /\ ~complete_task(w)
      BY <1>6, <2>3 DEF Work, Claim, ClaimConflict, Start, VerifyPage, BeginPublish, PutFallback,
         EnsureLfsRow, LookIdentity, PutIdentity, PutByMedia, fail_task, upVars
    <2> QED BY <2>1, <2>2, <2>3
  <1> QED BY <1>1, <1>2, <1>3, <1>4, <1>5, <1>6 DEF Next

\* A sealed session stays sealed and a finalized one finalized; only
\* seal_session seals.
LEMMA SealedStays ==
  ASSUME TypeOK, Busy, [Next]_vars, NEW m \in Manifests
  PROVE  /\ Sealed(m) => Sealed(m)'
         /\ session[m] = "finalized" => session'[m] = "finalized"
         /\ Sealed(m)' => Sealed(m) \/ SealSession(m)
  <1>1. CASE UNCHANGED session BY <1>1 DEF Sealed
  <1>2. ASSUME NEW n \in Manifests, UpsertSession(n) \/ SealSession(n)
        PROVE  /\ Sealed(m) => Sealed(m)'
               /\ session[m] = "finalized" => session'[m] = "finalized"
               /\ Sealed(m)' => Sealed(m) \/ SealSession(m)
    BY <1>2 DEF TypeOK, Sealed, UpsertSession, SealSession
  <1>3. ASSUME NEW w \in Workers, pc[w] \in {"finalize", "complete"},
               session' = [session EXCEPT ![man[w]] = "finalized"]
        PROVE  /\ Sealed(m) => Sealed(m)'
               /\ session[m] = "finalized" => session'[m] = "finalized"
               /\ Sealed(m)' => Sealed(m)
    BY <1>3 DEF TypeOK, Sealed, Busy
  <1> QED BY <1>1, <1>2, <1>3, SessionView

\* How a step moves a worker: it is over, it takes a request for a sealed
\* manifest, or it goes on with the manifest it has.
LEMMA WorkerView ==
  ASSUME TypeOK, [Next]_vars, NEW w \in Workers
  PROVE  \/ pc'[w] = "idle"
         \/ pc'[w] = "waiting" /\ \E m \in Manifests : Sealed(m) /\ man'[w] = m
         \/ pc[w] # "idle" /\ man'[w] = man[w]
  <1> DEFINE Goal == \/ pc'[w] = "idle"
                     \/ pc'[w] = "waiting" /\ \E m \in Manifests : Sealed(m) /\ man'[w] = m
                     \/ pc[w] # "idle" /\ man'[w] = man[w]
  <1>0. CASE UNCHANGED <<pc, man>> BY <1>0 DEF TypeOK
  <1>1. ASSUME NEW m \in Manifests, Upload(m) PROVE UNCHANGED <<pc, man>>
    BY <1>1 DEF Upload, UpsertSession, WritePending, PendingExpires, PutCheck, PutRows, PutObject,
                SealCheck, SealSession, workVars
  <1>2. ASSUME NEW m \in Manifests, LeaseRunsOut(m) PROVE UNCHANGED <<pc, man>>
    BY <1>2 DEF LeaseRunsOut, workVars
  <1>3. ASSUME NEW v \in Workers, NEW m \in Manifests, Enqueue(v, m) PROVE Goal
    <2>1. CASE UNCHANGED <<pc, man>> BY <1>0, <2>1
    <2>2. CASE pc' = [pc EXCEPT ![v] = "waiting"] /\ man' = [man EXCEPT ![v] = m]
      BY <1>3, <2>2 DEF TypeOK, Enqueue
    <2> QED BY <1>3, <2>1, <2>2 DEF Enqueue
  <1>4. ASSUME NEW v \in Workers, Idle(v) PROVE Goal
    BY <1>4 DEF TypeOK, Idle, Goto
  <1>5. ASSUME NEW v \in Workers, pc[v] # "idle", UNCHANGED man, NEW s, pc' = [pc EXCEPT ![v] = s]
        PROVE  Goal
    BY <1>5 DEF TypeOK
  <1>6. ASSUME NEW v \in Workers, NEW b, pc[v] # "idle", Fail(v, b) PROVE Goal
    BY <1>5, <1>6 DEF Fail, Goto
  <1>7. ASSUME NEW v \in Workers, BodyError(v) \/ Gone(v) PROVE Goal
    <2>1. pc[v] # "idle" BY <1>7 DEF BodyError, Gone, Body
    <2> HIDE DEF Goal
    <2> QED BY <1>4, <1>6, <1>7, <2>1 DEF BodyError, Gone
  <1>8. ASSUME NEW v \in Workers, Work(v) PROVE Goal
    <2> HIDE DEF Goal
    <2>1. CASE ClaimConflict(v) \/ complete_task(v) \/ fail_task(v)
      BY <1>4, <2>1 DEF ClaimConflict, complete_task, fail_task
    <2>2. CASE Start(v)
      BY <1>5, <1>6, <2>2 DEF Start, Goto
    <2>3. CASE VerifyPage(v)
      <3>1. CASE UNCHANGED <<pc, man>> BY <1>0, <3>1 DEF Goal
      <3>2. CASE Fail(v, TRUE) \/ Fail(v, FALSE) BY <1>6, <2>3, <3>2 DEF VerifyPage
      <3> QED BY <2>3, <3>1, <3>2 DEF VerifyPage, Progress
    <2>4. CASE BeginPublish(v)
      BY <1>5, <1>6, <2>4 DEF BeginPublish, Progress, Goto
    <2>5. CASE \/ Claim(v) \/ PutFallback(v) \/ EnsureLfsRow(v) \/ LookIdentity(v) \/ PutIdentity(v)
               \/ mark_session_finalized(v) \/ PutByMedia(v)
      BY <1>5, <2>5 DEF Claim, PutFallback, EnsureLfsRow, LookIdentity, PutIdentity,
         mark_session_finalized, PutByMedia, Goto
    <2> QED BY <1>8, <2>1, <2>2, <2>3, <2>4, <2>5 DEF Work
  <1>9. CASE UNCHANGED vars BY <1>0, <1>9 DEF vars, workVars
  <1> QED BY <1>0, <1>1, <1>2, <1>3, <1>7, <1>8, <1>9 DEF Next

LEMMA BusyStep ==
  ASSUME TypeOK, Busy, [Next]_vars
  PROVE  Busy'
  <1> SUFFICES ASSUME NEW w \in Workers, pc'[w] # "idle"
               PROVE  man'[w] \in Manifests /\ session'[man'[w]] \in {"sealed", "finalized"}
    BY DEF Busy, Sealed
  <1>1. \/ \E m \in Manifests : Sealed(m) /\ man'[w] = m
        \/ pc[w] # "idle" /\ man'[w] = man[w]
    BY WorkerView
  <1>2. man'[w] \in Manifests /\ Sealed(man'[w]) BY <1>1 DEF Busy
  <1> QED BY <1>2, SealedStays DEF Sealed

-----------------------------------------------------------------------------
(* The layout                                                               *)

LEMMA LayoutStep ==
  ASSUME TypeOK, Busy, Layout, [Next]_vars
  PROVE  Layout'
  <1> DEFINE Same == UNCHANGED <<written, rows, obj, sealing>>
  <1>1. SUFFICES ASSUME NEW m \in Manifests
                 PROVE  /\ \A u \in written'[m] : rows'[m][u[1]] = u[2]
                        /\ \A p \in Pages : obj'[m][p] \in {"none", rows'[m][p]}
                        /\ sealing'[m] => \A p \in Pages : obj'[m][p] = "good"
                        /\ Sealed(m)' => sealing'[m]
    BY DEF Layout, Sealed
  <1>2. /\ \A u \in written[m] : rows[m][u[1]] = u[2]
        /\ \A p \in Pages : obj[m][p] \in {"none", rows[m][p]}
        /\ sealing[m] => \A p \in Pages : obj[m][p] = "good"
        /\ Sealed(m) => sealing[m]
    BY DEF Layout
  <1>3. Sealed(m)' => sealing[m] BY <1>2, SealedStays DEF SealSession
  <1>4. CASE Same BY <1>2, <1>3, <1>4
  <1>5. ASSUME NEW n \in Manifests, NEW u \in Uploads, PutRows(n, u)
        PROVE  /\ \A x \in written'[m] : rows'[m][x[1]] = x[2]
               /\ \A p \in Pages : obj'[m][p] \in {"none", rows'[m][p]}
               /\ sealing'[m] => \A p \in Pages : obj'[m][p] = "good"
               /\ Sealed(m)' => sealing'[m]
    <2>1. u[1] \in Pages /\ u[2] \in Contents BY UploadParts
    <2>2. CASE n # m BY <1>2, <1>3, <1>5, <2>2 DEF PutRows, TypeOK
    <2>3. CASE n = m
      <3>1. rows'[m] = [rows[m] EXCEPT ![u[1]] = u[2]] /\ written'[m] = written[m] \cup {u}
            /\ obj' = obj /\ sealing' = sealing /\ rows[m][u[1]] \in {"none", u[2]}
        BY <1>5, <2>3 DEF PutRows, TypeOK
      <3>2. rows[m] \in [Pages -> {"none"} \cup Contents] BY DEF TypeOK
      <3>3. \A x \in written[m] : x[1] \in Pages /\ x[2] \in Contents BY UploadParts DEF TypeOK
      <3>4. \A x \in written'[m] : rows'[m][x[1]] = x[2]
        <4> SUFFICES ASSUME NEW x \in written[m] PROVE rows'[m][x[1]] = x[2]
          BY <2>1, <3>1, <3>2
        <4>1. rows[m][x[1]] = x[2] /\ x[2] # "none" BY <1>2, <3>3 DEF Contents
        <4>2. CASE x[1] = u[1] BY <4>1, <4>2, <3>1, <3>2, <2>1
        <4>3. CASE x[1] # u[1] BY <4>1, <4>3, <3>1, <3>2, <3>3, <2>1
        <4> QED BY <4>2, <4>3
      <3>5. \A p \in Pages : obj'[m][p] \in {"none", rows'[m][p]}
        BY <1>2, <2>1, <3>1, <3>2
      <3> QED BY <1>2, <1>3, <3>1, <3>4, <3>5
    <2> QED BY <2>2, <2>3
  <1>6. ASSUME NEW n \in Manifests, NEW u \in Uploads, PutObject(n, u)
        PROVE  /\ \A x \in written'[m] : rows'[m][x[1]] = x[2]
               /\ \A p \in Pages : obj'[m][p] \in {"none", rows'[m][p]}
               /\ sealing'[m] => \A p \in Pages : obj'[m][p] = "good"
               /\ Sealed(m)' => sealing'[m]
    <2>1. u[1] \in Pages /\ u[2] \in Contents BY UploadParts
    <2>2. CASE n # m BY <1>2, <1>3, <1>6, <2>2 DEF PutObject, TypeOK
    <2>3. CASE n = m
      <3>1. obj'[m] = [obj[m] EXCEPT ![u[1]] = u[2]] /\ u \in written[m]
            /\ rows' = rows /\ sealing' = sealing /\ written' = written
        BY <1>6, <2>3 DEF PutObject, RowsAccepted, TypeOK
      <3>2. obj[m] \in [Pages -> {"none"} \cup Contents] BY DEF TypeOK
      <3>3. u[2] = rows[m][u[1]] BY <1>2, <3>1
      <3>4. \A p \in Pages : obj'[m][p] \in {"none", rows'[m][p]}
        BY <1>2, <2>1, <3>1, <3>2, <3>3
      <3>5. sealing'[m] => \A p \in Pages : obj'[m][p] = "good"
        <4> SUFFICES ASSUME sealing[m], NEW p \in Pages PROVE obj'[m][p] = "good" BY <3>1
        <4>1. obj[m][p] = "good" /\ rows[m][p] = "good" BY <1>2
        <4> QED BY <4>1, <2>1, <3>1, <3>2, <3>3
      <3> QED BY <1>2, <1>3, <3>1, <3>4, <3>5
    <2> QED BY <2>2, <2>3
  <1>7. ASSUME NEW n \in Manifests, SealCheck(n)
        PROVE  /\ \A u \in written'[m] : rows'[m][u[1]] = u[2]
               /\ \A p \in Pages : obj'[m][p] \in {"none", rows'[m][p]}
               /\ sealing'[m] => \A p \in Pages : obj'[m][p] = "good"
               /\ Sealed(m)' => sealing'[m]
    BY <1>2, <1>3, <1>7 DEF SealCheck, TypeOK
  <1>8. ASSUME NEW n \in Manifests, Upload(n)
        PROVE  \/ Same \/ SealCheck(n)
               \/ \E u \in Uploads : PutRows(n, u) \/ PutObject(n, u)
    BY <1>8 DEF Upload, UpsertSession, WritePending, PendingExpires, PutCheck, SealSession
  <1>9. ASSUME NEW w \in Workers, Work(w) \/ BodyError(w) \/ Gone(w) PROVE Same
    BY <1>9 DEF Work, Claim, ClaimConflict, Start, VerifyPage, BeginPublish, PutFallback,
       EnsureLfsRow, LookIdentity, PutIdentity, mark_session_finalized, PutByMedia, complete_task,
       fail_task, BodyError, Gone, upVars
  <1>10. ASSUME NEW n \in Manifests, LeaseRunsOut(n) \/ \E w \in Workers : Enqueue(w, n) PROVE Same
    BY <1>10 DEF LeaseRunsOut, Enqueue, upVars
  <1>11. CASE UNCHANGED vars BY <1>4, <1>11 DEF vars, upVars
  <1> HIDE DEF Same
  <1> QED BY <1>4, <1>5, <1>6, <1>7, <1>8, <1>9, <1>10, <1>11 DEF Next

\* The workers read the rows and seal_at the objects: both are canonical once a
\* session is sealed.
LEMMA LayoutCanonical ==
  ASSUME Layout
  PROVE  SealedIsCanonical
  <1> SUFFICES ASSUME NEW m \in Manifests, Sealed(m), NEW p \in Pages
               PROVE  rows[m][p] = "good" /\ obj[m][p] = "good"
    BY DEF SealedIsCanonical
  <1>1. obj[m][p] = "good" /\ obj[m][p] \in {"none", rows[m][p]} BY DEF Layout
  <1> QED BY <1>1

-----------------------------------------------------------------------------
(* The lease epoch                                                          *)

\* A worker goes on inside its task; only the current epoch renews the lease.
GoesOn(w) ==
    /\ pc[w] \in Working
    /\ \E s \in Working : pc' = [pc EXCEPT ![w] = s]
    /\ UNCHANGED <<man, held, task, owner, epoch>>
    /\ \/ UNCHANGED lease
       \/ Current(w) /\ lease' = [lease EXCEPT ![man[w]] = "ahead"]

\* A worker leaves and the row stays as it is.
Leaves(w) == Idle(w) /\ UNCHANGED <<task, owner, epoch, lease>>

\* What a step does to the tasks and to the workers' claims.
LEMMA FenceView ==
  ASSUME TypeOK, [Next]_vars
  PROVE  \/ UNCHANGED <<pc, man, held, task, owner, epoch, lease>>
         \/ \E w \in Workers : \/ GoesOn(w) \/ Leaves(w) \/ Claim(w)
                               \/ complete_task(w) \/ fail_task(w)
         \/ \E m \in Manifests : LeaseRunsOut(m) \/ \E w \in Workers : Enqueue(w, m)
  <1> DEFINE Same == UNCHANGED <<pc, man, held, task, owner, epoch, lease>>
  <1>1. CASE UNCHANGED vars BY <1>1 DEF vars, workVars, taskVars
  <1>2. ASSUME NEW m \in Manifests, Upload(m) PROVE Same
    BY <1>2 DEF Upload, UpsertSession, WritePending, PendingExpires, PutCheck, PutRows, PutObject,
                SealCheck, SealSession, workVars, taskVars
  <1>3. ASSUME NEW w \in Workers, NEW b, pc[w] \in Working, Fail(w, b),
               UNCHANGED <<task, owner, epoch, lease>>
        PROVE  GoesOn(w)
    BY <1>3 DEF Fail, Goto, GoesOn, Working
  <1>4. ASSUME NEW w \in Workers, BodyError(w) \/ Gone(w) PROVE GoesOn(w) \/ Leaves(w)
    BY <1>3, <1>4 DEF BodyError, Gone, Leaves, Working, taskVars
  <1>5. ASSUME NEW w \in Workers, Work(w)
        PROVE  GoesOn(w) \/ Leaves(w) \/ Claim(w) \/ complete_task(w) \/ fail_task(w)
    <2>1. CASE ClaimConflict(w) BY <2>1 DEF ClaimConflict, Leaves, taskVars
    <2>2. CASE Start(w)
      <3>1. CASE Goto(w, "verify") /\ UNCHANGED <<man, page, held, wrote, permanent>>
        BY <2>2, <3>1 DEF Start, Goto, GoesOn, Working, Body, taskVars
      <3>2. CASE Fail(w, TRUE) BY <2>2, <3>2, <1>3 DEF Start, Working, Body, taskVars
      <3> QED BY <2>2, <3>1, <3>2 DEF Start
    <2>3. CASE VerifyPage(w)
      <3>0. pc[w] \in Working BY <2>3 DEF VerifyPage, Working, Body
      <3>1. CASE (Fail(w, TRUE) \/ Fail(w, FALSE)) /\ UNCHANGED lease
        BY <2>3, <3>0, <3>1, <1>3 DEF VerifyPage
      <3>2. CASE Current(w) /\ lease' = [lease EXCEPT ![man[w]] = "ahead"] /\ UNCHANGED <<pc, man, held>>
        <4>1. pc' = [pc EXCEPT ![w] = pc[w]] BY <3>2 DEF TypeOK
        <4> QED BY <2>3, <3>0, <3>2, <4>1 DEF VerifyPage, GoesOn
      <3> QED BY <2>3, <3>1, <3>2 DEF VerifyPage, Progress
    <2>4. CASE BeginPublish(w)
      <3>0. pc[w] \in Working BY <2>4 DEF BeginPublish, Working, Body
      <3>1. CASE Fail(w, FALSE) /\ UNCHANGED lease BY <2>4, <3>0, <3>1, <1>3 DEF BeginPublish
      <3>2. CASE Current(w) /\ lease' = [lease EXCEPT ![man[w]] = "ahead"]
                 /\ Goto(w, "fallback") /\ UNCHANGED <<man, held>>
        BY <2>4, <3>0, <3>2 DEF BeginPublish, GoesOn, Goto, Working, Body
      <3> QED BY <2>4, <3>1, <3>2 DEF BeginPublish, Progress
    <2>5. CASE \/ PutFallback(w) \/ EnsureLfsRow(w) \/ LookIdentity(w) \/ PutIdentity(w)
               \/ mark_session_finalized(w) \/ PutByMedia(w)
      BY <2>5 DEF PutFallback, EnsureLfsRow, LookIdentity, PutIdentity, mark_session_finalized,
         PutByMedia, Then, Goto, GoesOn, Working, Body, taskVars
    <2> QED BY <1>5, <2>1, <2>2, <2>3, <2>4, <2>5 DEF Work
  <1> HIDE DEF Same
  <1>6. \/ Same
        \/ \E w \in Workers : \/ GoesOn(w) \/ Leaves(w) \/ Claim(w)
                              \/ complete_task(w) \/ fail_task(w)
        \/ \E m \in Manifests : LeaseRunsOut(m) \/ \E w \in Workers : Enqueue(w, m)
    BY <1>1, <1>2, <1>4, <1>5 DEF Next, Same
  <1> QED BY <1>6 DEF Same

\* claim_or_renew_lease never reuses an epoch: a lease that is ahead and owned is
\* on a running task, and then the claim is refused.
LEMMA ClaimIsNew ==
  ASSUME TypeOK, Fencing, Busy, NEW w \in Workers, Claim(w)
  PROVE  /\ man[w] \in Manifests
         /\ NewEpoch(man[w]) = epoch[man[w]] + 1
         /\ epoch[man[w]] \in Nat
  <1>1. man[w] \in Manifests BY DEF Claim, Busy
  <1>2. Expired(man[w]) \/ owner[man[w]] = None
    BY <1>1 DEF Claim, HeldByOther, Expired, Fencing
  <1> QED BY <1>1, <1>2, MediaAssumption DEF NewEpoch, TypeOK

LEMMA FencingStep ==
  ASSUME TypeOK, Busy, Fencing, [Next]_vars
  PROVE  Fencing'
  <1>0. /\ \A v, w \in Workers :
              v # w /\ pc[v] \in Working /\ pc[w] \in Working /\ man[v] = man[w] => held[v] # held[w]
        /\ \A w \in Workers :
              /\ pc[w] \in Working => man[w] \in Manifests /\ held[w] <= epoch[man[w]]
              /\ pc[w] \in Working /\ held[w] = epoch[man[w]] => task[man[w]] = "running" /\ owner[man[w]] = w
        /\ \A m \in Manifests : lease[m] = "ahead" => task[m] = "running"
    BY DEF Fencing, Fenced, Current, Busy, Working, Body
  <1>T. /\ pc \in [Workers -> {"idle", "waiting"} \cup Working]
        /\ man \in [Workers -> Manifests \cup {None}]
        /\ held \in [Workers -> Nat] /\ epoch \in [Manifests -> Nat]
        /\ task \in [Manifests -> {"none", "pending", "running", "complete", "failed"}]
        /\ owner \in [Manifests -> Workers \cup {None}]
        /\ lease \in [Manifests -> {"none", "ahead", "past"}]
        /\ None \notin Manifests /\ None \notin Workers
        /\ "idle" \notin Working /\ "waiting" \notin Working
    BY MediaAssumption DEF TypeOK, Working, Body
  <1> DEFINE Goal ==
        /\ \A v, w \in Workers :
              v # w /\ pc'[v] \in Working /\ pc'[w] \in Working /\ man'[v] = man'[w] => held'[v] # held'[w]
        /\ \A w \in Workers :
              /\ pc'[w] \in Working => held'[w] <= epoch'[man'[w]]
              /\ pc'[w] \in Working /\ held'[w] = epoch'[man'[w]] =>
                    task'[man'[w]] = "running" /\ owner'[man'[w]] = w
        /\ \A m \in Manifests : lease'[m] = "ahead" => task'[m] = "running"
  <1>G. SUFFICES Goal BY DEF Fencing, Fenced, Current, Working, Body
  <1>1. CASE UNCHANGED <<pc, man, held, task, owner, epoch, lease>> BY <1>0, <1>1
  <1>2. ASSUME NEW w \in Workers, GoesOn(w) PROVE Goal
    BY <1>0, <1>T, <1>2 DEF GoesOn, Current
  <1>3. ASSUME NEW w \in Workers, Leaves(w) PROVE Goal
    BY <1>0, <1>T, <1>3 DEF Leaves, Idle, Goto
  <1>4. ASSUME NEW w \in Workers, Claim(w) PROVE Goal
    <2>1. /\ man[w] \in Manifests /\ man' = man
          /\ pc' = [pc EXCEPT ![w] = "start"]
          /\ held' = [held EXCEPT ![w] = epoch[man[w]] + 1]
          /\ epoch' = [epoch EXCEPT ![man[w]] = epoch[man[w]] + 1]
          /\ task' = [task EXCEPT ![man[w]] = "running"]
          /\ owner' = [owner EXCEPT ![man[w]] = w]
          /\ lease' = [lease EXCEPT ![man[w]] = "ahead"]
      BY <1>4, ClaimIsNew DEF Claim, Goto
    <2>2. \A v \in Workers \ {w} : pc'[v] = pc[v] /\ held'[v] = held[v]
      BY <1>T, <2>1
    <2>3. \A v \in Workers \ {w} : pc[v] \in Working /\ man[v] = man[w] => held[v] < epoch[man[w]] + 1
      BY <1>0, <1>T, <2>1
    <2>4. held'[w] = epoch'[man[w]] /\ held'[w] = epoch[man[w]] + 1 BY <1>T, <2>1
    <2>5. \A v, u \in Workers :
             v # u /\ pc'[v] \in Working /\ pc'[u] \in Working /\ man'[v] = man'[u] => held'[v] # held'[u]
      BY <1>0, <1>T, <2>1, <2>2, <2>3, <2>4
    <2>6. ASSUME NEW v \in Workers, pc'[v] \in Working
          PROVE  /\ held'[v] <= epoch'[man'[v]]
                 /\ held'[v] = epoch'[man'[v]] => task'[man'[v]] = "running" /\ owner'[man'[v]] = v
      <3>1. CASE v = w BY <1>T, <2>1, <2>4, <3>1
      <3>2. CASE v # w /\ man[v] = man[w] BY <1>T, <2>1, <2>2, <2>3, <2>6, <3>2
      <3>3. CASE v # w /\ man[v] # man[w] BY <1>0, <1>T, <2>1, <2>2, <2>6, <3>3
      <3> QED BY <3>1, <3>2, <3>3
    <2>7. \A m \in Manifests : lease'[m] = "ahead" => task'[m] = "running" BY <1>0, <1>T, <2>1
    <2> QED BY <2>5, <2>6, <2>7
  <1>5. ASSUME NEW w \in Workers, complete_task(w) \/ fail_task(w) PROVE Goal
    <2>1. /\ pc' = [pc EXCEPT ![w] = "idle"] /\ man' = [man EXCEPT ![w] = None]
          /\ held' = [held EXCEPT ![w] = 0] /\ epoch' = epoch
          /\ pc[w] \in Working
      BY <1>5 DEF complete_task, fail_task, Idle, Goto, Working
    <2>2. CASE UNCHANGED <<task, owner, lease>> BY <1>0, <1>T, <2>1, <2>2
    <2>3. CASE /\ held[w] = epoch[man[w]]
               /\ \E s, o : /\ task' = [task EXCEPT ![man[w]] = s]
                            /\ owner' = [owner EXCEPT ![man[w]] = o]
               /\ lease' = [lease EXCEPT ![man[w]] = "none"]
      <3>1. man[w] \in Manifests BY <1>0, <2>1
      <3>2. \A v \in Workers \ {w} : pc[v] \in Working /\ man[v] = man[w] => held[v] # epoch[man[w]]
        BY <1>0, <2>1, <2>3
      <3> QED BY <1>0, <1>T, <2>1, <2>3, <3>1, <3>2
    <2>4. owner' = owner => owner' = [owner EXCEPT ![man[w]] = owner[man[w]]] BY <1>T
    <2> QED BY <1>5, <2>2, <2>3, <2>4 DEF complete_task, fail_task, Current
  <1>6. ASSUME NEW m \in Manifests, LeaseRunsOut(m) PROVE Goal
    BY <1>0, <1>T, <1>6 DEF LeaseRunsOut, workVars
  <1>7. ASSUME NEW w \in Workers, NEW m \in Manifests, Enqueue(w, m) PROVE Goal
    <2>1. /\ epoch' = epoch /\ held' = held
          /\ \/ task' = task /\ owner' = owner /\ lease' = lease
             \/ /\ task[m] \in {"none", "failed"} /\ task' = [task EXCEPT ![m] = "pending"]
                /\ owner' = owner \/ owner' = [owner EXCEPT ![m] = None]
                /\ lease' = lease \/ lease' = [lease EXCEPT ![m] = "none"]
      <3>1. task = [task EXCEPT ![m] = task[m]] BY <1>T
      <3> QED BY <1>7, <3>1 DEF Enqueue, NewState
    <2>2. \/ UNCHANGED <<pc, man>>
          \/ pc[w] = "idle" /\ pc' = [pc EXCEPT ![w] = "waiting"] /\ man' = [man EXCEPT ![w] = m]
      BY <1>7 DEF Enqueue
    <2>3. \A v \in Workers : pc'[v] \in Working => pc[v] \in Working /\ man'[v] = man[v]
      BY <1>T, <2>2
    <2>4. \A v \in Workers : pc[v] \in Working /\ held[v] = epoch[man[v]] /\ task[m] \in {"none", "failed"}
             => man[v] # m
      BY <1>0
    <2> QED BY <1>0, <1>T, <2>1, <2>3, <2>4
  <1> HIDE DEF Goal
  <1> QED BY <1>1, <1>2, <1>3, <1>4, <1>5, <1>6, <1>7, FenceView DEF Goal

-----------------------------------------------------------------------------
(* The publication                                                          *)

\* The four writes of the publication.
LEMMA PubView ==
  ASSUME [Next]_vars
  PROVE  \/ UNCHANGED pubVars
         \/ \E w \in Workers : PutFallback(w) \/ EnsureLfsRow(w) \/ PutIdentity(w) \/ PutByMedia(w)
  <1>1. ASSUME NEW w \in Workers, Work(w)
        PROVE  UNCHANGED pubVars \/ PutFallback(w) \/ EnsureLfsRow(w) \/ PutIdentity(w) \/ PutByMedia(w)
    BY <1>1 DEF Work, Claim, ClaimConflict, Start, VerifyPage, BeginPublish, LookIdentity,
       mark_session_finalized, complete_task, fail_task
  <1>2. ASSUME NEW w \in Workers, BodyError(w) \/ Gone(w) PROVE UNCHANGED pubVars
    BY <1>2 DEF BodyError, Gone
  <1>3. ASSUME NEW m \in Manifests, Upload(m) PROVE UNCHANGED pubVars
    BY <1>3 DEF Upload, UpsertSession, WritePending, PendingExpires, PutCheck, PutRows, PutObject,
                SealCheck, SealSession
  <1>4. ASSUME NEW m \in Manifests, LeaseRunsOut(m) \/ \E w \in Workers : Enqueue(w, m)
        PROVE  UNCHANGED pubVars
    BY <1>4 DEF LeaseRunsOut, Enqueue
  <1>5. CASE UNCHANGED vars BY <1>5 DEF vars
  <1> QED BY <1>1, <1>2, <1>3, <1>4, <1>5 DEF Next

\* What was published stays: nothing deletes a record of the publication.
LEMMA PublishedStays ==
  ASSUME TypeOK, Busy, [Next]_vars
  PROVE  /\ fallbackObj => fallbackObj'
         /\ lfsRow => lfsRow'
         /\ \A m \in Manifests : immutable[m] => immutable'[m]
         /\ byMedia # None => byMedia' # None
  <1> DEFINE Goal == /\ fallbackObj => fallbackObj'
                     /\ lfsRow => lfsRow'
                     /\ \A m \in Manifests : immutable[m] => immutable'[m]
                     /\ byMedia # None => byMedia' # None
  <1>1. CASE UNCHANGED pubVars BY <1>1 DEF pubVars
  <1>2. ASSUME NEW w \in Workers, PutFallback(w) PROVE Goal BY <1>2 DEF PutFallback
  <1>3. ASSUME NEW w \in Workers, EnsureLfsRow(w) PROVE Goal BY <1>3 DEF EnsureLfsRow
  <1>4. ASSUME NEW w \in Workers, PutIdentity(w) PROVE Goal
    <2>1. \A m \in Manifests : immutable[m] => immutable'[m] BY <1>4 DEF TypeOK, PutIdentity
    <2> QED BY <1>4, <2>1 DEF PutIdentity
  <1>5. ASSUME NEW w \in Workers, PutByMedia(w) PROVE Goal
    <2>1. man[w] # None BY <1>5, MediaAssumption DEF PutByMedia, Busy
    <2> QED BY <1>5, <2>1 DEF PutByMedia
  <1> QED BY <1>1, <1>2, <1>3, <1>4, <1>5, PubView

PubSteps == {"lfsRow", "immutable", "putIdentity", "finalize", "byMedia", "complete"}

\* A worker comes to a step of the publication only through the step before.
LEMMA Advance ==
  ASSUME TypeOK, Busy, [Next]_vars, NEW w \in Workers, pc'[w] \in PubSteps
  PROVE  /\ man'[w] = man[w] /\ man[w] \in Manifests
         /\ \/ pc'[w] = pc[w]
            \/ PutFallback(w) /\ pc'[w] = "lfsRow"
            \/ EnsureLfsRow(w) /\ pc'[w] = "immutable"
            \/ LookIdentity(w) /\ pc'[w] = (IF immutable[man[w]] THEN "finalize" ELSE "putIdentity")
            \/ PutIdentity(w) /\ pc'[w] = "finalize"
            \/ mark_session_finalized(w) /\ pc'[w] = "byMedia"
            \/ PutByMedia(w) /\ pc'[w] = "complete"
  <1>1. man'[w] = man[w] /\ man[w] \in Manifests
    BY WorkerView DEF PubSteps, Busy
  <1> DEFINE Goal == \/ pc'[w] = pc[w]
                     \/ PutFallback(w) /\ pc'[w] = "lfsRow"
                     \/ EnsureLfsRow(w) /\ pc'[w] = "immutable"
                     \/ LookIdentity(w) /\ pc'[w] = (IF immutable[man[w]] THEN "finalize" ELSE "putIdentity")
                     \/ PutIdentity(w) /\ pc'[w] = "finalize"
                     \/ mark_session_finalized(w) /\ pc'[w] = "byMedia"
                     \/ PutByMedia(w) /\ pc'[w] = "complete"
  <1>2. ASSUME UNCHANGED pc PROVE Goal BY <1>2
  <1>3. ASSUME NEW v \in Workers, NEW s, pc' = [pc EXCEPT ![v] = s], s \notin PubSteps PROVE Goal
    BY <1>3 DEF TypeOK, PubSteps
  <1>4. ASSUME NEW v \in Workers, NEW s, pc' = [pc EXCEPT ![v] = s], v # w PROVE Goal
    BY <1>4 DEF TypeOK
  <1>5. ASSUME NEW v \in Workers, Work(v) PROVE Goal
    <2>1. CASE ClaimConflict(v) \/ complete_task(v) \/ fail_task(v)
      BY <1>3, <2>1 DEF ClaimConflict, complete_task, fail_task, Idle, Goto, PubSteps
    <2>2. CASE Claim(v) \/ Start(v) \/ BeginPublish(v)
      BY <1>3, <2>2 DEF Claim, Start, BeginPublish, Progress, Fail, Goto, PubSteps
    <2>3. CASE VerifyPage(v)
      BY <1>2, <1>3, <2>3 DEF VerifyPage, Progress, Fail, Goto, PubSteps
    <2>4. CASE v # w /\ \/ PutFallback(v) \/ EnsureLfsRow(v) \/ LookIdentity(v) \/ PutIdentity(v)
                        \/ mark_session_finalized(v) \/ PutByMedia(v)
      <3> HIDE DEF Goal
      <3> QED
      BY <1>4, <2>4 DEF PutFallback, EnsureLfsRow, LookIdentity, PutIdentity,
         mark_session_finalized, PutByMedia, Goto
    <2>5. CASE v = w /\ \/ PutFallback(v) \/ EnsureLfsRow(v) \/ LookIdentity(v) \/ PutIdentity(v)
                        \/ mark_session_finalized(v) \/ PutByMedia(v)
      <3>1. \A s : pc' = [pc EXCEPT ![w] = s] => pc'[w] = s BY DEF TypeOK
      <3>2. PutFallback(w) => pc'[w] = "lfsRow" BY <3>1 DEF PutFallback, Goto
      <3>3. EnsureLfsRow(w) => pc'[w] = "immutable" BY <3>1 DEF EnsureLfsRow, Goto, Then
      <3>4. LookIdentity(w) => pc'[w] = IF immutable[man[w]] THEN "finalize" ELSE "putIdentity"
        BY <3>1 DEF LookIdentity, Goto, Then
      <3>5. PutIdentity(w) => pc'[w] = "finalize" BY <3>1 DEF PutIdentity, Goto, Then
      <3>6. mark_session_finalized(w) => pc'[w] = "byMedia" BY <3>1 DEF mark_session_finalized, Goto, Then
      <3>7. PutByMedia(w) => pc'[w] = "complete" BY <3>1 DEF PutByMedia, Goto, Then
      <3> QED BY <2>5, <3>2, <3>3, <3>4, <3>5, <3>6, <3>7
    <2> HIDE DEF Goal
    <2> QED BY <1>5, <2>1, <2>2, <2>3, <2>4, <2>5 DEF Work
  <1>6. ASSUME NEW v \in Workers, BodyError(v) \/ Gone(v) PROVE Goal
    BY <1>3, <1>6 DEF BodyError, Gone, Fail, Idle, Goto, PubSteps
  <1>7. ASSUME NEW m \in Manifests, Upload(m) PROVE UNCHANGED pc
    BY <1>7 DEF Upload, UpsertSession, WritePending, PendingExpires, PutCheck, PutRows, PutObject,
                SealCheck, SealSession, workVars
  <1>8. ASSUME NEW m \in Manifests, LeaseRunsOut(m) PROVE UNCHANGED pc
    BY <1>8 DEF LeaseRunsOut, workVars
  <1>9. ASSUME NEW m \in Manifests, NEW v \in Workers, Enqueue(v, m) PROVE Goal
    BY <1>2, <1>3, <1>9 DEF Enqueue, PubSteps
  <1>10. ASSUME UNCHANGED vars PROVE UNCHANGED pc BY <1>10 DEF vars, workVars
  <1>11. Goal
    <2> HIDE DEF Goal
    <2> QED BY <1>2, <1>5, <1>6, <1>7, <1>8, <1>9, <1>10 DEF Next
  <1> QED BY <1>1, <1>11

LEMMA ReachedStep ==
  ASSUME TypeOK, Busy, Published, [Next]_vars, NEW w \in Workers
  PROVE  Reached(w)'
  <1>1. SUFFICES ASSUME pc'[w] \in PubSteps PROVE Reached(w)' BY DEF Reached, PubSteps
  <1>2. man'[w] = man[w] /\ man[w] \in Manifests BY <1>1, Advance
  <1>3. Reached(w) BY DEF Published
  <1>4. session[man[w]] = "finalized" => session'[man[w]] = "finalized" BY <1>2, SealedStays
  <1>5. CASE pc'[w] = pc[w]
    BY <1>2, <1>3, <1>4, <1>5, PublishedStays DEF Reached
  <1>6. CASE PutFallback(w) /\ pc'[w] = "lfsRow" BY <1>6 DEF Reached, PutFallback
  <1>7. CASE EnsureLfsRow(w) /\ pc'[w] = "immutable" BY <1>3, <1>7 DEF Reached, EnsureLfsRow
  <1>8. CASE LookIdentity(w) /\ pc'[w] = (IF immutable[man[w]] THEN "finalize" ELSE "putIdentity")
    BY <1>2, <1>3, <1>8 DEF Reached, LookIdentity, pubVars
  <1>9. CASE PutIdentity(w) /\ pc'[w] = "finalize"
    BY <1>2, <1>3, <1>9 DEF Reached, PutIdentity, TypeOK
  <1>10. CASE mark_session_finalized(w) /\ pc'[w] = "byMedia"
    BY <1>2, <1>3, <1>10 DEF Reached, mark_session_finalized, pubVars, TypeOK
  <1>11. CASE PutByMedia(w) /\ pc'[w] = "complete"
    BY <1>2, <1>3, <1>4, <1>11, PublishedStays, MediaAssumption DEF Reached, PutByMedia, upVars
  <1> QED BY <1>1, <1>5, <1>6, <1>7, <1>8, <1>9, <1>10, <1>11, Advance

LEMMA ReadableStep ==
  ASSUME TypeOK, Busy, Published, [Next]_vars
  PROVE  PublishedIsReadable'
  <1>0. PublishedIsReadable /\ \A w \in Workers : Reached(w) BY DEF Published
  <1>1. ASSUME NEW m \in Manifests, session'[m] = "finalized"
        PROVE  fallbackObj' /\ lfsRow' /\ immutable'[m]
    <2>1. session[m] = "finalized" \/ \E w \in Workers : pc[w] \in {"finalize", "complete"} /\ man[w] = m
      BY <1>1, SessionView DEF TypeOK, UpsertSession, SealSession
    <2>2. fallbackObj /\ lfsRow /\ immutable[m] BY <1>0, <2>1 DEF PublishedIsReadable, Reached
    <2> QED BY <2>2, PublishedStays
  <1>2. \/ UNCHANGED <<byMedia, emitted>>
        \/ \E w \in Workers : PutByMedia(w)
    BY PubView DEF PutFallback, EnsureLfsRow, PutIdentity, pubVars
  <1>3. \A m \in Manifests : session[m] = "finalized" => session'[m] = "finalized" BY SealedStays
  <1>4. byMedia' # None => session'[byMedia'] = "finalized"
    <2>1. CASE UNCHANGED <<byMedia, emitted>>
      BY <1>0, <1>3, <2>1 DEF PublishedIsReadable, TypeOK
    <2>2. ASSUME NEW w \in Workers, PutByMedia(w) PROVE session'[byMedia'] = "finalized"
      BY <1>0, <1>3, <2>2 DEF PutByMedia, Reached, Busy
    <2> QED BY <1>2, <2>1, <2>2
  <1>5. ASSUME NEW m \in emitted'
        PROVE  session'[m] = "finalized" /\ immutable'[m] /\ byMedia' # None
    <2>1. CASE m \in emitted
      BY <1>0, <1>3, <2>1, PublishedStays DEF PublishedIsReadable, TypeOK
    <2>2. CASE m \notin emitted
      <3>1. PICK w \in Workers : PutByMedia(w) BY <1>2, <1>5, <2>2
      <3>2. m = man[w] /\ m \in Manifests BY <1>5, <2>2, <3>1 DEF PutByMedia, Busy
      <3>3. session[m] = "finalized" /\ immutable[m] BY <1>0, <3>1, <3>2 DEF PutByMedia, Reached
      <3> QED BY <1>3, <3>1, <3>2, <3>3, PublishedStays, MediaAssumption DEF PutByMedia
    <2> QED BY <2>1, <2>2
  <1>6. ASSUME NEW m \in Manifests, task'[m] = "complete"
        PROVE  session'[m] = "finalized" /\ byMedia' # None
    <2>1. CASE task[m] = "complete"
      BY <1>0, <1>3, <2>1, PublishedStays DEF PublishedIsReadable
    <2>2. CASE task[m] # "complete"
      <3>1. \E w \in Workers : pc[w] = "complete" /\ man[w] = m
        <4>1. CASE UNCHANGED task BY <1>6, <2>2, <4>1
        <4>2. ASSUME NEW w \in Workers, complete_task(w) PROVE pc[w] = "complete" /\ man[w] = m
          BY <1>6, <2>2, <4>2 DEF complete_task, TypeOK
        <4>3. ASSUME NEW w \in Workers, Claim(w) \/ fail_task(w) PROVE FALSE
          BY <1>6, <2>2, <4>3 DEF Claim, fail_task, TypeOK
        <4>4. ASSUME NEW w \in Workers, NEW n \in Manifests, Enqueue(w, n) PROVE FALSE
          BY <1>6, <2>2, <4>4 DEF Enqueue, NewState, TypeOK
        <4> QED BY <4>1, <4>2, <4>3, <4>4, FenceView DEF GoesOn, Leaves, LeaseRunsOut
      <3> QED BY <1>0, <1>3, <3>1, PublishedStays DEF Reached
    <2> QED BY <2>1, <2>2
  <1> QED BY <1>1, <1>4, <1>5, <1>6 DEF PublishedIsReadable

-----------------------------------------------------------------------------
(* The theorems                                                             *)

\* The inductive invariant holds in every reachable state.
THEOREM Invariance == Spec => []Inv
  <1>1. Init => Inv
    <2> SUFFICES ASSUME Init PROVE Inv OBVIOUS
    <2>1. TypeOK
      <3>1. 0 \in 0..NPages /\ 0 \in 0..MaxEpoch /\ 0 \in 0..MaxFaults BY MediaAssumption
      <3>2. rows \in [Manifests -> [Pages -> {"none"} \cup Contents]]
            /\ obj \in [Manifests -> [Pages -> {"none"} \cup Contents]]
        BY DEF Init, Contents
      <3>3. sealing \in [Manifests -> BOOLEAN] BY DEF Init
      <3> QED BY <3>1, <3>2, <3>3, MediaAssumption DEF Init, TypeOK
    <2>2. Busy BY DEF Init, Busy
    <2>3. Layout BY MediaAssumption DEF Init, Layout, Sealed
    <2>4. Fencing BY DEF Init, Fencing, Fenced, Working, Body
    <2>5. Published BY DEF Init, Published, PublishedIsReadable, Reached
    <2> QED BY <2>1, <2>2, <2>3, <2>4, <2>5 DEF Inv
  <1>2. Inv /\ [Next]_vars => Inv'
    <2> SUFFICES ASSUME Inv, [Next]_vars PROVE Inv' OBVIOUS
    <2>1. TypeOK /\ Busy /\ Layout /\ Fencing /\ Published BY DEF Inv
    <2>2. TypeOK' /\ Busy' /\ Layout' /\ Fencing'
      BY <2>1, TypeStep, BusyStep, LayoutStep, FencingStep
    <2>3. Published' BY <2>1, ReachedStep, ReadableStep DEF Published
    <2> QED BY <2>2, <2>3 DEF Inv
  <1> QED BY <1>1, <1>2, PTL DEF Spec

\* Every variable of the sessions, tasks and workers keeps its type.
THEOREM TypeCorrect == Spec => []TypeOK
  <1>1. Inv => TypeOK BY DEF Inv
  <1> QED BY <1>1, Invariance, PTL

\* A sealed manifest is the canonical layout, in its rows and in its page
\* objects, whatever uploads were under way when it was sealed.
THEOREM SealedStaysCanonical == Spec => []SealedIsCanonical
  <1>1. Inv => SealedIsCanonical BY LayoutCanonical DEF Inv
  <1> QED BY <1>1, Invariance, PTL

\* No two workers of a task hold the same epoch, and the holder of the current
\* one is the owner of a running task.
THEOREM EpochsFence == Spec => []Fenced
  <1>1. Inv => Fenced BY DEF Inv, Fencing
  <1> QED BY <1>1, Invariance, PTL

\* Whatever says "finalized" leads to everything a reader follows from it.
THEOREM PublicationIsReadable == Spec => []PublishedIsReadable
  <1>1. Inv => PublishedIsReadable BY DEF Inv, Published
  <1> QED BY <1>1, Invariance, PTL
=============================================================================
