------------------------- MODULE BlobPathIndex_proofs -------------------------
(***************************************************************************)
(* Proofs about BlobPathIndex, for any set of appearances, prefixes, trees *)
(* and tasks.  Inv is the inductive invariant: the type invariant, what a  *)
(* C segment knows of the round it indexes (QueueTasks), and what a task   *)
(* that is alone has done so far (SoloProgress).                           *)
(***************************************************************************)
EXTENDS BlobPathIndex, SequenceTheorems, TLAPS

\* In the history L of landings, a was on main after round n or a later one.
OnMainSince(L, a, n) == \E m \in DOMAIN L : m >= n /\ a \in L[m].tree

\* A task of the C segment indexes a Done row, and what it collected was on
\* main after that row landed.
QueueTask(L, k) ==
  k.mode = "queue" /\ k.pc # "idle" =>
    /\ k.id \in DOMAIN L
    /\ L[k.id].path = k.prefix
    /\ \A a \in k.tree : OnMainSince(L, a, k.id)
    /\ k.pc \in {"check", "read"} => k.tree = {}
    /\ k.pc = "upsert" => k.todo \subseteq k.tree
QueueTasks == \A t \in Tasks : QueueTask(landed, task[t])

\* The watermark m of appearance a is true.
Witness(L, a, m) ==
  m # 0 => m \in DOMAIN L /\ a \in Under[L[m].path] /\ OnMainSince(L, a, m)

\* How far the task k that has been alone since it began has come, when R are
\* the rows and T the appearances on main.
SoloTask(R, T, k) ==
  k.mode # "review" =>
    /\ k.pc \in {"recheck", "upsert", "delete"} => k.tree = T \cap Under[k.prefix]
    /\ k.pc = "upsert" => k.tree \ k.todo \subseteq R
    /\ k.pc = "delete" => /\ k.tree \subseteq R /\ k.tree \cap k.todo = {}
                          /\ (R \cap Under[k.prefix]) \ k.tree \subseteq k.todo
SoloProgress ==
  solo \in Tasks => /\ \A u \in Tasks \ {solo} : task[u].pc = "idle"
                    /\ SoloTask(rows, tip, task[solo])

Inv == TypeOK /\ QueueTasks /\ WatermarkWitnessed /\ SoloProgress

\* A task state that respects the type invariant.
Fits(s) == s \in TaskStates /\ s.tree \cup s.todo \subseteq Under[s.prefix]

LEMMA TaskFits ==
  ASSUME TypeOK, NEW t \in Tasks
  PROVE  Fits(task[t])
  BY DEF TypeOK, Fits

LEMMA IdleFits == Fits(IdleTask)
  BY IndexAssumption DEF Fits, IdleTask, TaskStates

LEMMA TipTyped ==
  ASSUME TypeOK
  PROVE  tip \in SUBSET Apps
  <1>1. landed \in Seq([path : Prefixes, tree : Trees]) BY DEF TypeOK
  <1>2. CASE landed = <<>> BY <1>2 DEF tip
  <1>3. CASE landed # <<>>
    <2> DEFINE R == [path : Prefixes, tree : Trees]
    <2>0. landed \in Seq(R) BY <1>1
    <2>1. landed[Len(landed)] \in R
      <3> HIDE DEF R
      <3>1. Len(landed) \in Nat /\ Len(landed) # 0 BY <2>0, <1>3, EmptySeq
      <3> QED BY <2>0, <3>1
    <2> QED BY <1>3, <2>1, IndexAssumption DEF tip
  <1> QED BY <1>2, <1>3

LEMMA TaskMoves ==
  ASSUME TypeOK, NEW t \in Tasks, NEW s, Fits(s), task' = [task EXCEPT ![t] = s]
  PROVE  /\ task' \in [Tasks -> TaskStates]
         /\ \A u \in Tasks : Fits(task'[u])
         /\ task'[t] = s
         /\ \A u \in Tasks \ {t} : task'[u] = task[u]
  BY DEF TypeOK, Fits

LEMMA SpendTyped ==
  ASSUME TypeOK, NEW k \in BudgetKeys, Spend(k)
  PROVE  left' \in [BudgetKeys -> Nat]
  <1>1. left \in [BudgetKeys -> Nat] /\ left[k] \in Nat BY DEF TypeOK
  <1>2. left[k] - 1 \in Nat BY <1>1 DEF Spend
  <1> QED BY <1>1, <1>2 DEF Spend

----------------------------------------------------------------------------
(* What each step of a task writes, in one form: the new state of the task. *)

LEMMA CheckLaterStep ==
  ASSUME TypeOK, NEW t \in Tasks, CheckLater(t)
  PROVE  \E s : /\ Fits(s) /\ task' = [task EXCEPT ![t] = s]
                /\ \/ s = IdleTask
                   \/ /\ task[t].pc = "check" /\ s = [task[t] EXCEPT !.pc = "read"]
                   \/ /\ task[t].pc = "recheck"
                      /\ s = [task[t] EXCEPT !.pc = "upsert", !.todo = task[t].tree]
  <1>1. task[t] \in TaskStates BY DEF TypeOK
  <1>2. Fits([task[t] EXCEPT !.pc = "read"])
    BY <1>1, TaskFits DEF Fits, TaskStates
  <1>3. Fits([task[t] EXCEPT !.pc = "upsert", !.todo = task[t].tree])
    BY <1>1, TaskFits DEF Fits, TaskStates
  <1>4. CASE task' = [task EXCEPT ![t] = IdleTask] BY <1>4, IdleFits
  <1>5. CASE /\ task[t].pc = "check"
             /\ task' = [task EXCEPT ![t] = [task[t] EXCEPT !.pc = "read"]]
    BY <1>5, <1>2
  <1>6. CASE /\ task[t].pc = "recheck"
             /\ task' = [task EXCEPT ![t] = [task[t] EXCEPT !.pc = "upsert",
                                                            !.todo = task[t].tree]]
    BY <1>6, <1>3
  <1> QED BY <1>4, <1>5, <1>6 DEF CheckLater

LEMMA ReadRefStep ==
  ASSUME TypeOK, NEW t \in Tasks, ReadRef(t)
  PROVE  \E s : /\ Fits(s) /\ task' = [task EXCEPT ![t] = s]
                /\ \/ s = IdleTask
                   \/ s = [task[t] EXCEPT !.pc = "recheck", !.tree = MainTree(task[t])]
  <1>1. task[t] \in TaskStates BY DEF TypeOK
  <1>2. MainTree(task[t]) \in SUBSET Apps /\ MainTree(task[t]) \subseteq Under[task[t].prefix]
    BY TipTyped DEF MainTree
  <1>3. Fits([task[t] EXCEPT !.pc = "recheck", !.tree = MainTree(task[t])])
    BY <1>1, <1>2, TaskFits DEF Fits, TaskStates
  <1> QED BY <1>3, IdleFits DEF ReadRef

LEMMA UpsertStep ==
  ASSUME TypeOK, NEW t \in Tasks, NEW a \in task[t].todo,
         task' = [task EXCEPT ![t].todo = @ \ {a}]
  PROVE  LET s == [task[t] EXCEPT !.todo = task[t].todo \ {a}]
         IN Fits(s) /\ task' = [task EXCEPT ![t] = s]
  <1>1. task[t] \in TaskStates /\ task \in [Tasks -> TaskStates] BY DEF TypeOK
  <1>2. Fits([task[t] EXCEPT !.todo = task[t].todo \ {a}])
    BY <1>1, TaskFits DEF Fits, TaskStates
  <1> QED BY <1>1, <1>2

LEMMA ScanStep ==
  ASSUME TypeOK, NEW t \in Tasks, Scan(t)
  PROVE  LET s == [task[t] EXCEPT !.pc = "delete", !.todo = Extras(task[t])]
         IN Fits(s) /\ task' = [task EXCEPT ![t] = s]
  <1>1. task[t] \in TaskStates /\ task \in [Tasks -> TaskStates] BY DEF TypeOK
  <1>2. Extras(task[t]) \in SUBSET Apps /\ Extras(task[t]) \subseteq Under[task[t].prefix]
    BY DEF Extras, TypeOK
  <1>3. Fits([task[t] EXCEPT !.pc = "delete", !.todo = Extras(task[t])])
    BY <1>1, <1>2, TaskFits DEF Fits, TaskStates
  <1> QED BY <1>1, <1>3 DEF Scan

\* The state in which a task begins.
LEMMA BeginStep ==
  ASSUME TypeOK, NEW t \in Tasks, NEW s, Fits(s), Begin(t, s)
  PROVE  /\ task' = [task EXCEPT ![t] = s]
         /\ solo' \in Tasks \cup {NoOne}
         /\ solo' \in Tasks => solo' = t /\ \A u \in Tasks \ {t} : task[u].pc = "idle"
  BY IndexAssumption DEF Begin

LEMMA BeginStates ==
  ASSUME TypeOK, NEW p \in Prefixes, NEW n \in Nat, NEW x \in SUBSET Apps
  PROVE  /\ Fits([IdleTask EXCEPT !.pc = "check", !.id = n, !.prefix = p])
         /\ Fits([IdleTask EXCEPT !.pc = "upsert", !.mode = "review", !.prefix = p,
                                  !.tree = x \cap Under[p], !.todo = x \cap Under[p]])
         /\ Fits([IdleTask EXCEPT !.pc = "upsert", !.mode = "compensate",
                                  !.tree = tip, !.todo = tip])
  BY IndexAssumption, TipTyped DEF Fits, IdleTask, TaskStates
----------------------------------------------------------------------------
(* The type invariant.                                                     *)

LEMMA InitInv == Init => Inv
  <1> SUFFICES ASSUME Init PROVE Inv
    OBVIOUS
  <1>1. TypeOK BY IdleFits, IndexAssumption DEF Init, TypeOK, Fits, Policies
  <1>2. QueueTasks BY DEF Init, QueueTasks, QueueTask, IdleTask
  <1>3. WatermarkWitnessed BY DEF Init, WatermarkWitnessed
  <1>4. SoloProgress BY IndexAssumption DEF Init, SoloProgress
  <1> QED BY <1>1, <1>2, <1>3, <1>4 DEF Inv

LEMMA TypePreserved ==
  ASSUME TypeOK, task' \in [Tasks -> TaskStates], \A t \in Tasks : Fits(task'[t]),
         landed' \in Seq([path : Prefixes, tree : Trees]), rows' \subseteq Apps,
         mark' \in [Apps -> Nat], policy' \in Policies,
         solo' \in Tasks \cup {NoOne}, left' \in [BudgetKeys -> Nat]
  PROVE  TypeOK'
  BY DEF TypeOK, Fits

LEMMA TypeStep == TypeOK /\ [Next]_vars => TypeOK'
  <1> SUFFICES ASSUME TypeOK, [Next]_vars PROVE TypeOK'
    OBVIOUS
  <1>0. /\ landed \in Seq([path : Prefixes, tree : Trees]) /\ rows \subseteq Apps
        /\ mark \in [Apps -> Nat] /\ policy \in Policies
        /\ solo \in Tasks \cup {NoOne} /\ left \in [BudgetKeys -> Nat]
        /\ task \in [Tasks -> TaskStates]
    BY DEF TypeOK
  <1>1. ASSUME NEW w \in Workers, NEW p \in Prefixes, Land(w, p) PROVE TypeOK'
    <2> DEFINE s == [IdleTask EXCEPT !.pc = "check", !.id = Len(landed) + 1, !.prefix = p]
    <2>0. w \in Tasks BY DEF Tasks
    <2>1. Len(landed) + 1 \in Nat BY <1>0
    <2>2. Fits(s) BY <2>1, BeginStates
    <2>3. Begin(w, s) BY <1>1 DEF Land
    <2> HIDE DEF s
    <2>4. task' = [task EXCEPT ![w] = s] /\ solo' \in Tasks \cup {NoOne}
      BY <2>0, <2>2, <2>3, BeginStep
    <2>5. task' \in [Tasks -> TaskStates] /\ \A u \in Tasks : Fits(task'[u])
      BY <2>0, <2>2, <2>4, TaskMoves
    <2>6. landed' \in Seq([path : Prefixes, tree : Trees])
      <3> DEFINE R == [path : Prefixes, tree : Trees]
      <3>1. PICK x \in Trees : landed' = Append(landed, [path |-> p, tree |-> x])
        BY <1>1 DEF Land
      <3>2. [path |-> p, tree |-> x] \in R OBVIOUS
      <3>3. landed \in Seq(R) BY <1>0
      <3> HIDE DEF R
      <3>4. landed' \in Seq(R) BY <3>1, <3>2, <3>3
      <3> QED BY <3>4 DEF R
    <2>7. left' \in [BudgetKeys -> Nat] BY <1>1, SpendTyped DEF Land, BudgetKeys
    <2> QED BY <1>0, <1>1, <2>4, <2>5, <2>6, <2>7, TypePreserved DEF Land
  <1>2. ASSUME NEW w \in Workers, NEW p \in Prefixes, ReviewPush(w, p) PROVE TypeOK'
    <2>0. w \in Tasks BY DEF Tasks
    <2>1. PICK x \in Trees :
            Begin(w, [IdleTask EXCEPT !.pc = "upsert", !.mode = "review", !.prefix = p,
                        !.tree = x \cap Under[p], !.todo = x \cap Under[p]])
      BY <1>2 DEF ReviewPush
    <2> DEFINE s == [IdleTask EXCEPT !.pc = "upsert", !.mode = "review", !.prefix = p,
                        !.tree = x \cap Under[p], !.todo = x \cap Under[p]]
    <2>2. x \in SUBSET Apps BY IndexAssumption
    <2>3. Fits(s) BY <2>2, BeginStates
    <2>4. Begin(w, s) BY <2>1
    <2> HIDE DEF s
    <2>5. task' = [task EXCEPT ![w] = s] /\ solo' \in Tasks \cup {NoOne}
      BY <2>0, <2>3, <2>4, BeginStep
    <2>6. task' \in [Tasks -> TaskStates] /\ \A u \in Tasks : Fits(task'[u])
      BY <2>0, <2>3, <2>5, TaskMoves
    <2>7. left' \in [BudgetKeys -> Nat] BY <1>2, SpendTyped DEF ReviewPush, BudgetKeys
    <2> QED BY <1>0, <1>2, <2>5, <2>6, <2>7, TypePreserved DEF ReviewPush
  <1>3. ASSUME NEW k \in Compensators, Compensate(k) PROVE TypeOK'
    <2> DEFINE s == [IdleTask EXCEPT !.pc = "upsert", !.mode = "compensate",
                                     !.tree = tip, !.todo = tip]
    <2>0. k \in Tasks BY DEF Tasks
    <2>1. Fits(s) BY BeginStates, IndexAssumption
    <2>2. Begin(k, s) BY <1>3 DEF Compensate
    <2> HIDE DEF s
    <2>3. task' = [task EXCEPT ![k] = s] /\ solo' \in Tasks \cup {NoOne}
      BY <2>0, <2>1, <2>2, BeginStep
    <2>4. task' \in [Tasks -> TaskStates] /\ \A u \in Tasks : Fits(task'[u])
      BY <2>0, <2>1, <2>3, TaskMoves
    <2> QED BY <1>0, <1>3, <2>3, <2>4, TypePreserved DEF Compensate
  <1>4. ASSUME NEW t \in Tasks, CheckLater(t) PROVE TypeOK'
    <2>1. task' \in [Tasks -> TaskStates] /\ \A u \in Tasks : Fits(task'[u])
      BY <1>4, CheckLaterStep, TaskMoves
    <2> QED BY <1>0, <1>4, <2>1, TypePreserved DEF CheckLater
  <1>5. ASSUME NEW t \in Tasks, ReadRef(t) PROVE TypeOK'
    <2>1. task' \in [Tasks -> TaskStates] /\ \A u \in Tasks : Fits(task'[u])
      BY <1>5, ReadRefStep, TaskMoves
    <2> QED BY <1>0, <1>5, <2>1, TypePreserved DEF ReadRef
  <1>6. ASSUME NEW t \in Tasks, Upsert(t) \/ Delete(t) PROVE TypeOK'
    <2>1. task[t] \in TaskStates BY <1>0
    <2>2. PICK a \in task[t].todo :
            /\ task' = [task EXCEPT ![t].todo = @ \ {a}]
            /\ \/ /\ rows' = rows \cup {a}
                  /\ mark' = [mark EXCEPT ![a] = Watermark(task[t], a)]
               \/ /\ rows' = rows \ {a}
                  /\ mark' = [mark EXCEPT ![a] = 0]
      BY <1>6 DEF Upsert, Delete
    <2>3. a \in Apps /\ task[t].id \in Nat BY <2>1, <2>2 DEF TaskStates
    <2>4. Watermark(task[t], a) \in Nat BY <1>0, <2>3 DEF Watermark
    <2>5. task' \in [Tasks -> TaskStates] /\ \A u \in Tasks : Fits(task'[u])
      BY <2>2, UpsertStep, TaskMoves
    <2>6. mark' \in [Apps -> Nat] /\ rows' \subseteq Apps BY <1>0, <2>2, <2>3, <2>4
    <2> QED BY <1>0, <1>6, <2>5, <2>6, TypePreserved DEF Upsert, Delete
  <1>7. ASSUME NEW t \in Tasks, Scan(t) PROVE TypeOK'
    <2>1. task' \in [Tasks -> TaskStates] /\ \A u \in Tasks : Fits(task'[u])
      BY <1>7, ScanStep, TaskMoves
    <2> QED BY <1>0, <1>7, <2>1, TypePreserved DEF Scan
  <1>8. ASSUME NEW t \in Tasks, Finish(t) \/ Crash(t) PROVE TypeOK'
    <2>1. task' = [task EXCEPT ![t] = IdleTask] BY <1>8 DEF Finish, Crash
    <2>2. task' \in [Tasks -> TaskStates] /\ \A u \in Tasks : Fits(task'[u])
      BY <2>1, IdleFits, TaskMoves
    <2>3. left' \in [BudgetKeys -> Nat]
      BY <1>0, <1>8, SpendTyped DEF Finish, Crash, BudgetKeys
    <2> QED BY <1>0, <1>8, <2>2, <2>3, TypePreserved DEF Finish, Crash
  <1>9. ASSUME SwitchPolicy PROVE TypeOK'
    <2>1. left' \in [BudgetKeys -> Nat] BY <1>9, SpendTyped DEF SwitchPolicy, BudgetKeys
    <2>2. policy' \in Policies /\ mark' \in [Apps -> Nat] BY <1>9 DEF SwitchPolicy
    <2> QED BY <1>9, <2>1, <2>2 DEF SwitchPolicy, TypeOK
  <1>10. ASSUME UNCHANGED vars PROVE TypeOK'
    BY <1>10 DEF vars, TypeOK
  <1> QED BY <1>1, <1>2, <1>3, <1>4, <1>5, <1>6, <1>7, <1>8, <1>9, <1>10 DEF Next, Step

----------------------------------------------------------------------------
(* Landings only grow, and what they witness stays witnessed.              *)

Extended(L, M) == /\ DOMAIN L \subseteq DOMAIN M
                  /\ \A n \in DOMAIN L : M[n] = L[n]

LEMMA LandedGrows ==
  ASSUME TypeOK, [Next]_vars
  PROVE  Extended(landed, landed')
  <1>1. CASE landed' = landed BY <1>1 DEF Extended
  <1>2. ASSUME NEW w \in Workers, NEW p \in Prefixes, Land(w, p)
        PROVE  Extended(landed, landed')
    <2> DEFINE R == [path : Prefixes, tree : Trees]
    <2>1. PICK x \in Trees : landed' = Append(landed, [path |-> p, tree |-> x])
      BY <1>2 DEF Land
    <2>2. [path |-> p, tree |-> x] \in R OBVIOUS
    <2>3. landed \in Seq(R) BY DEF TypeOK
    <2> HIDE DEF R
    <2> QED BY <2>1, <2>2, <2>3 DEF Extended
  <1> QED BY <1>1, <1>2 DEF Next, Step, vars, ReviewPush, Compensate, CheckLater,
             ReadRef, Upsert, Scan, Delete, Finish, Crash, SwitchPolicy

LEMMA WitnessStays ==
  ASSUME NEW L, NEW M, Extended(L, M)
  PROVE  /\ \A a, n : OnMainSince(L, a, n) => OnMainSince(M, a, n)
         /\ \A a, m : Witness(L, a, m) => Witness(M, a, m)
         /\ \A k : QueueTask(L, k) => QueueTask(M, k)
  <1>1. ASSUME NEW a, NEW n, OnMainSince(L, a, n) PROVE OnMainSince(M, a, n)
    BY <1>1 DEF OnMainSince, Extended
  <1>2. ASSUME NEW a, NEW m, Witness(L, a, m) PROVE Witness(M, a, m)
    BY <1>1, <1>2 DEF Witness, Extended
  <1>3. ASSUME NEW k, QueueTask(L, k) PROVE QueueTask(M, k)
    BY <1>1, <1>3 DEF QueueTask, Extended
  <1> QED BY <1>1, <1>2, <1>3

LEMMA IdleQueueTask == \A L : QueueTask(L, IdleTask)
  BY DEF QueueTask, IdleTask

\* What is on main now was on main after every round that has landed.
LEMMA TipSince ==
  ASSUME TypeOK, NEW n \in DOMAIN landed, NEW a \in tip
  PROVE  OnMainSince(landed, a, n)
  <1> DEFINE R == [path : Prefixes, tree : Trees]
  <1>1. landed \in Seq(R) BY DEF TypeOK
  <1> HIDE DEF R
  <1>2. landed # <<>> /\ Len(landed) \in DOMAIN landed /\ Len(landed) >= n
    BY <1>1
  <1>3. a \in landed[Len(landed)].tree BY <1>2 DEF tip
  <1> QED BY <1>2, <1>3 DEF OnMainSince

LEMMA QueueStep ==
  ASSUME TypeOK, QueueTasks, [Next]_vars
  PROVE  QueueTasks'
  <1>0. Extended(landed, landed') BY LandedGrows
  <1>a. \A t \in Tasks : QueueTask(landed', task[t])
    BY <1>0, WitnessStays DEF QueueTasks
  <1>b. ASSUME NEW t \in Tasks, NEW s, Fits(s), task' = [task EXCEPT ![t] = s],
               QueueTask(landed', s)
        PROVE  QueueTasks'
    BY <1>a, <1>b, TaskMoves DEF QueueTasks
  <1>1. ASSUME NEW w \in Workers, NEW p \in Prefixes, Land(w, p) PROVE QueueTasks'
    <2> DEFINE s == [IdleTask EXCEPT !.pc = "check", !.id = Len(landed) + 1, !.prefix = p]
    <2> DEFINE R == [path : Prefixes, tree : Trees]
    <2>0. w \in Tasks BY DEF Tasks
    <2>1. landed \in Seq(R) BY DEF TypeOK
    <2>2. PICK x \in Trees : landed' = Append(landed, [path |-> p, tree |-> x])
      BY <1>1 DEF Land
    <2>3. [path |-> p, tree |-> x] \in R OBVIOUS
    <2>4. /\ Len(landed) + 1 \in Nat /\ Len(landed) + 1 \in DOMAIN landed'
          /\ landed'[Len(landed) + 1] = [path |-> p, tree |-> x]
      <3> HIDE DEF R
      <3> QED BY <2>1, <2>2, <2>3
    <2>5. Fits(s) BY <2>4, BeginStates
    <2>6. s.id = Len(landed) + 1 /\ s.prefix = p /\ s.pc = "check" /\ s.tree = {}
      BY DEF IdleTask
    <2>7. QueueTask(landed', s)
      <3> HIDE DEF s
      <3> QED BY <2>4, <2>6 DEF QueueTask
    <2>8. Begin(w, s) BY <1>1 DEF Land
    <2> HIDE DEF s
    <2> QED BY <2>0, <2>5, <2>7, <2>8, <1>b, BeginStep
  <1>2. ASSUME NEW w \in Workers, NEW p \in Prefixes, ReviewPush(w, p) PROVE QueueTasks'
    <2>0. w \in Tasks BY DEF Tasks
    <2>1. PICK x \in Trees :
            Begin(w, [IdleTask EXCEPT !.pc = "upsert", !.mode = "review", !.prefix = p,
                        !.tree = x \cap Under[p], !.todo = x \cap Under[p]])
      BY <1>2 DEF ReviewPush
    <2> DEFINE s == [IdleTask EXCEPT !.pc = "upsert", !.mode = "review", !.prefix = p,
                        !.tree = x \cap Under[p], !.todo = x \cap Under[p]]
    <2>2. Fits(s) BY IndexAssumption, BeginStates
    <2>3. QueueTask(landed', s) BY DEF QueueTask, IdleTask
    <2>4. Begin(w, s) BY <2>1
    <2> HIDE DEF s
    <2> QED BY <2>0, <2>2, <2>3, <2>4, <1>b, BeginStep
  <1>3. ASSUME NEW k \in Compensators, Compensate(k) PROVE QueueTasks'
    <2> DEFINE s == [IdleTask EXCEPT !.pc = "upsert", !.mode = "compensate",
                                     !.tree = tip, !.todo = tip]
    <2>0. k \in Tasks BY DEF Tasks
    <2>1. Fits(s) BY BeginStates, IndexAssumption
    <2>2. QueueTask(landed', s) BY DEF QueueTask, IdleTask
    <2>3. Begin(k, s) BY <1>3 DEF Compensate
    <2> HIDE DEF s
    <2> QED BY <2>0, <2>1, <2>2, <2>3, <1>b, BeginStep
  <1>4. ASSUME NEW t \in Tasks, CheckLater(t) PROVE QueueTasks'
    <2>1. PICK s : /\ Fits(s) /\ task' = [task EXCEPT ![t] = s]
                   /\ \/ s = IdleTask
                      \/ /\ task[t].pc = "check" /\ s = [task[t] EXCEPT !.pc = "read"]
                      \/ /\ task[t].pc = "recheck"
                         /\ s = [task[t] EXCEPT !.pc = "upsert", !.todo = task[t].tree]
      BY <1>4, CheckLaterStep
    <2>2. task[t] \in TaskStates BY DEF TypeOK
    <2>3. QueueTask(landed', s)
      BY <1>a, <2>1, <2>2, IdleQueueTask DEF QueueTask, TaskStates
    <2> QED BY <2>1, <2>3, <1>b
  <1>5. ASSUME NEW t \in Tasks, ReadRef(t) PROVE QueueTasks'
    <2>1. PICK s : /\ Fits(s) /\ task' = [task EXCEPT ![t] = s]
                   /\ \/ s = IdleTask
                      \/ s = [task[t] EXCEPT !.pc = "recheck", !.tree = MainTree(task[t])]
      BY <1>5, ReadRefStep
    <2>2. task[t] \in TaskStates /\ landed' = landed /\ task[t].pc = "read"
      BY <1>5 DEF TypeOK, ReadRef
    <2>3. QueueTask(landed, task[t]) BY DEF QueueTasks
    <2>4. ASSUME s = [task[t] EXCEPT !.pc = "recheck", !.tree = MainTree(task[t])]
          PROVE  QueueTask(landed', s)
      <3>1. /\ s.mode = task[t].mode /\ s.id = task[t].id /\ s.prefix = task[t].prefix
            /\ s.pc = "recheck" /\ s.tree \subseteq tip
        BY <2>2, <2>4 DEF TaskStates, MainTree
      <3>2. CASE s.mode = "queue"
        <4>1. /\ s.id \in DOMAIN landed /\ landed[s.id].path = s.prefix
          BY <2>2, <2>3, <3>1, <3>2 DEF QueueTask
        <4>2. \A a \in s.tree : OnMainSince(landed, a, s.id)
          BY <3>1, <4>1, TipSince
        <4> QED BY <2>2, <3>1, <4>1, <4>2 DEF QueueTask
      <3> QED BY <3>2 DEF QueueTask
    <2>5. ASSUME s = IdleTask PROVE QueueTask(landed', s)
      BY <2>5, IdleQueueTask
    <2>6. QueueTask(landed', s) BY <2>1, <2>4, <2>5
    <2> QED BY <2>1, <2>6, <1>b
  <1>6. ASSUME NEW t \in Tasks, Upsert(t) \/ Delete(t) PROVE QueueTasks'
    <2>1. task[t] \in TaskStates BY DEF TypeOK
    <2>2. PICK a \in task[t].todo : task' = [task EXCEPT ![t].todo = @ \ {a}]
      BY <1>6 DEF Upsert, Delete
    <2> DEFINE s == [task[t] EXCEPT !.todo = task[t].todo \ {a}]
    <2>3. Fits(s) /\ task' = [task EXCEPT ![t] = s] BY <2>2, UpsertStep
    <2>4. QueueTask(landed', s) BY <1>a, <2>1 DEF QueueTask, TaskStates
    <2> HIDE DEF s
    <2> QED BY <2>3, <2>4, <1>b
  <1>7. ASSUME NEW t \in Tasks, Scan(t) PROVE QueueTasks'
    <2>1. task[t] \in TaskStates /\ task[t].pc = "upsert" BY <1>7 DEF TypeOK, Scan
    <2> DEFINE s == [task[t] EXCEPT !.pc = "delete", !.todo = Extras(task[t])]
    <2>2. Fits(s) /\ task' = [task EXCEPT ![t] = s] BY <1>7, ScanStep
    <2>3. QueueTask(landed', s) BY <1>a, <2>1 DEF QueueTask, TaskStates
    <2> HIDE DEF s
    <2> QED BY <2>2, <2>3, <1>b
  <1>8. ASSUME NEW t \in Tasks, Finish(t) \/ Crash(t) PROVE QueueTasks'
    <2>1. task' = [task EXCEPT ![t] = IdleTask] BY <1>8 DEF Finish, Crash
    <2> QED BY <2>1, IdleFits, IdleQueueTask, <1>b
  <1>9. CASE task' = task BY <1>a, <1>9 DEF QueueTasks
  <1> QED BY <1>1, <1>2, <1>3, <1>4, <1>5, <1>6, <1>7, <1>8, <1>9
          DEF Next, Step, vars, SwitchPolicy

----------------------------------------------------------------------------
(* Watermarks.                                                             *)

\* What a step does to the rows: nothing, an upsert, a delete or a reset.
LEMMA RowStep ==
  ASSUME [Next]_vars
  PROVE  \/ rows' = rows /\ mark' = mark
         \/ \E t \in Tasks : \E a \in task[t].todo :
              /\ task[t].pc = "upsert" /\ rows' = rows \cup {a}
              /\ mark' = [mark EXCEPT ![a] = Watermark(task[t], a)]
              /\ UNCHANGED <<landed, policy>>
         \/ \E t \in Tasks : \E a \in task[t].todo :
              /\ rows' = rows \ {a} /\ mark' = [mark EXCEPT ![a] = 0]
         \/ SwitchPolicy
  BY DEF Next, Step, vars, Land, ReviewPush, Compensate, CheckLater, ReadRef,
         Upsert, Scan, Delete, Finish, Crash

LEMMA WatermarkStep ==
  ASSUME TypeOK, QueueTasks, WatermarkWitnessed, [Next]_vars
  PROVE  WatermarkWitnessed'
  <1>0. mark \in [Apps -> Nat] /\ task \in [Tasks -> TaskStates] BY DEF TypeOK
  <1>1. \A a \in Apps : Witness(landed, a, mark[a])
    BY DEF WatermarkWitnessed, Witness, OnMainSince
  <1>2. \A a \in Apps : Witness(landed', a, mark[a])
    BY <1>1, LandedGrows, WitnessStays
  <1>3. SUFFICES \A a \in Apps : Witness(landed', a, mark'[a])
    BY DEF WatermarkWitnessed, Witness, OnMainSince
  <1>4. CASE mark' = mark BY <1>2, <1>4
  <1>5. ASSUME NEW t \in Tasks, NEW a \in task[t].todo, task[t].pc = "upsert",
               mark' = [mark EXCEPT ![a] = Watermark(task[t], a)], landed' = landed
        PROVE  \A b \in Apps : Witness(landed', b, mark'[b])
    <2> DEFINE k == task[t]
    <2>1. a \in Apps /\ mark'[a] = Watermark(k, a)
      BY <1>0, <1>5 DEF TaskStates
    <2>2. \A b \in Apps \ {a} : mark'[b] = mark[b] BY <1>0, <1>5
    <2>3. ASSUME mark'[a] # mark[a] PROVE Witness(landed, a, mark'[a])
      <3>1. mark'[a] = k.id /\ k.mode = "queue" BY <2>1, <2>3 DEF Watermark
      <3>2. /\ k.id \in DOMAIN landed /\ landed[k.id].path = k.prefix
            /\ OnMainSince(landed, a, k.id)
        BY <1>5, <3>1 DEF QueueTasks, QueueTask
      <3>3. a \in Under[k.prefix] BY <1>5, TaskFits DEF Fits
      <3> QED BY <3>1, <3>2, <3>3 DEF Witness
    <2> QED BY <1>2, <1>5, <2>1, <2>2, <2>3
  <1>6. ASSUME NEW t \in Tasks, NEW a \in task[t].todo, mark' = [mark EXCEPT ![a] = 0]
        PROVE  \A b \in Apps : Witness(landed', b, mark'[b])
    BY <1>0, <1>2, <1>6 DEF Witness
  <1>7. CASE SwitchPolicy BY <1>7 DEF SwitchPolicy, Witness
  <1> QED BY <1>4, <1>5, <1>6, <1>7, RowStep

LEMMA GrowStep ==
  ASSUME TypeOK, [Next]_vars
  PROVE  \A a \in rows \cap rows' : mark'[a] >= mark[a] \/ policy' # policy
  <1>0. mark \in [Apps -> Nat] /\ task \in [Tasks -> TaskStates] /\ rows \subseteq Apps
    BY DEF TypeOK
  <1> SUFFICES ASSUME NEW b \in rows \cap rows' PROVE mark'[b] >= mark[b] \/ policy' # policy
    OBVIOUS
  <1>1. mark[b] \in Nat BY <1>0
  <1>2. CASE mark' = mark BY <1>1, <1>2
  <1>3. ASSUME NEW t \in Tasks, NEW a \in task[t].todo,
               mark' = [mark EXCEPT ![a] = Watermark(task[t], a)]
        PROVE  mark'[b] >= mark[b]
    <2>1. task[t].id \in Nat BY <1>0 DEF TaskStates
    <2> QED BY <1>0, <1>1, <1>3, <2>1 DEF Watermark
  <1>4. ASSUME NEW t \in Tasks, NEW a \in task[t].todo, rows' = rows \ {a},
               mark' = [mark EXCEPT ![a] = 0]
        PROVE  mark'[b] >= mark[b]
    BY <1>0, <1>1, <1>4
  <1>5. CASE SwitchPolicy BY <1>5 DEF SwitchPolicy
  <1> QED BY <1>2, <1>3, <1>4, <1>5, RowStep

----------------------------------------------------------------------------
(* The task that is alone.                                                 *)

\* It may begin in any state that satisfies SoloTask ...
LEMMA SoloBegins ==
  ASSUME TypeOK, NEW t \in Tasks, NEW s, Fits(s), Begin(t, s), SoloTask(rows', tip', s)
  PROVE  SoloProgress'
  <1>1. /\ task' = [task EXCEPT ![t] = s]
        /\ solo' \in Tasks => solo' = t /\ \A u \in Tasks \ {t} : task[u].pc = "idle"
    BY BeginStep
  <1>2. task'[t] = s /\ \A u \in Tasks \ {t} : task'[u] = task[u]
    BY <1>1, TaskMoves
  <1> QED BY <1>1, <1>2 DEF SoloProgress

\* ... and, as no other task is at work, only its own steps matter.
LEMMA SoloMoves ==
  ASSUME TypeOK, SoloProgress, NEW t \in Tasks, NEW s, Fits(s),
         task' = [task EXCEPT ![t] = s], task[t].pc # "idle", solo' = solo,
         SoloTask(rows, tip, task[t]) => SoloTask(rows', tip', s)
  PROVE  SoloProgress'
  <1>1. task'[t] = s /\ \A u \in Tasks \ {t} : task'[u] = task[u]
    BY TaskMoves
  <1>2. solo \in Tasks => solo = t BY DEF SoloProgress
  <1> QED BY <1>1, <1>2 DEF SoloProgress

LEMMA IdleSoloTask == \A R, T : SoloTask(R, T, IdleTask)
  BY DEF SoloTask, IdleTask

LEMMA SoloStep ==
  ASSUME TypeOK, SoloProgress, [Next]_vars
  PROVE  SoloProgress'
  <1>0. task \in [Tasks -> TaskStates] /\ rows \subseteq Apps BY DEF TypeOK
  <1>1. ASSUME NEW w \in Workers, NEW p \in Prefixes, Land(w, p) PROVE SoloProgress'
    <2> DEFINE s == [IdleTask EXCEPT !.pc = "check", !.id = Len(landed) + 1, !.prefix = p]
    <2>0. w \in Tasks BY DEF Tasks
    <2>1. Len(landed) + 1 \in Nat BY DEF TypeOK
    <2>2. Fits(s) BY <2>1, BeginStates
    <2>3. SoloTask(rows', tip', s) BY DEF SoloTask, IdleTask
    <2>4. Begin(w, s) BY <1>1 DEF Land
    <2> HIDE DEF s
    <2> QED BY <2>0, <2>2, <2>3, <2>4, SoloBegins
  <1>2. ASSUME NEW w \in Workers, NEW p \in Prefixes, ReviewPush(w, p) PROVE SoloProgress'
    <2>0. w \in Tasks BY DEF Tasks
    <2>1. PICK x \in Trees :
            Begin(w, [IdleTask EXCEPT !.pc = "upsert", !.mode = "review", !.prefix = p,
                        !.tree = x \cap Under[p], !.todo = x \cap Under[p]])
      BY <1>2 DEF ReviewPush
    <2> DEFINE s == [IdleTask EXCEPT !.pc = "upsert", !.mode = "review", !.prefix = p,
                        !.tree = x \cap Under[p], !.todo = x \cap Under[p]]
    <2>2. Fits(s) BY IndexAssumption, BeginStates
    <2>3. SoloTask(rows', tip', s) BY DEF SoloTask, IdleTask
    <2>4. Begin(w, s) BY <2>1
    <2> HIDE DEF s
    <2> QED BY <2>0, <2>2, <2>3, <2>4, SoloBegins
  <1>3. ASSUME NEW k \in Compensators, Compensate(k) PROVE SoloProgress'
    <2> DEFINE s == [IdleTask EXCEPT !.pc = "upsert", !.mode = "compensate",
                                     !.tree = tip, !.todo = tip]
    <2>0. k \in Tasks BY DEF Tasks
    <2>1. Fits(s) BY BeginStates, IndexAssumption
    <2>2. tip' = tip /\ tip \subseteq Under[Root] BY <1>3, TipTyped, IndexAssumption DEF Compensate, tip
    <2>3. SoloTask(rows', tip', s) BY <2>2 DEF SoloTask, IdleTask
    <2>4. Begin(k, s) BY <1>3 DEF Compensate
    <2> HIDE DEF s
    <2> QED BY <2>0, <2>1, <2>3, <2>4, SoloBegins
  <1>4. ASSUME NEW t \in Tasks, CheckLater(t) PROVE SoloProgress'
    <2>1. PICK s : /\ Fits(s) /\ task' = [task EXCEPT ![t] = s]
                   /\ \/ s = IdleTask
                      \/ /\ task[t].pc = "check" /\ s = [task[t] EXCEPT !.pc = "read"]
                      \/ /\ task[t].pc = "recheck"
                         /\ s = [task[t] EXCEPT !.pc = "upsert", !.todo = task[t].tree]
      BY <1>4, CheckLaterStep
    <2>2. /\ task[t] \in TaskStates /\ task[t].pc # "idle" /\ solo' = solo
          /\ rows' = rows /\ tip' = tip
      BY <1>0, <1>4 DEF CheckLater, tip
    <2>3. CASE s = IdleTask
      <3>1. SoloTask(rows', tip', s) BY <2>3, IdleSoloTask
      <3> QED BY <2>1, <2>2, <3>1, SoloMoves
    <2>4. CASE task[t].pc = "check" /\ s = [task[t] EXCEPT !.pc = "read"]
      <3>1. s.pc = "read" /\ s.mode = task[t].mode BY <2>2, <2>4 DEF TaskStates
      <3>2. SoloTask(rows', tip', s) BY <3>1 DEF SoloTask
      <3> QED BY <2>1, <2>2, <3>2, SoloMoves
    <2>5. CASE /\ task[t].pc = "recheck"
               /\ s = [task[t] EXCEPT !.pc = "upsert", !.todo = task[t].tree]
      <3>1. /\ s.pc = "upsert" /\ s.mode = task[t].mode /\ s.prefix = task[t].prefix
            /\ s.tree = task[t].tree /\ s.todo = task[t].tree
        BY <2>2, <2>5 DEF TaskStates
      <3>2. SoloTask(rows, tip, task[t]) => SoloTask(rows', tip', s)
        BY <2>2, <2>5, <3>1 DEF SoloTask
      <3> QED BY <2>1, <2>2, <3>2, SoloMoves
    <2> QED BY <2>1, <2>3, <2>4, <2>5
  <1>5. ASSUME NEW t \in Tasks, ReadRef(t) PROVE SoloProgress'
    <2>1. PICK s : /\ Fits(s) /\ task' = [task EXCEPT ![t] = s]
                   /\ \/ s = IdleTask
                      \/ s = [task[t] EXCEPT !.pc = "recheck", !.tree = MainTree(task[t])]
      BY <1>5, ReadRefStep
    <2>2. /\ task[t] \in TaskStates /\ task[t].pc # "idle" /\ solo' = solo
          /\ rows' = rows /\ tip' = tip
      BY <1>0, <1>5 DEF ReadRef, tip
    <2>3. CASE s = IdleTask
      <3>1. SoloTask(rows', tip', s) BY <2>3, IdleSoloTask
      <3> QED BY <2>1, <2>2, <3>1, SoloMoves
    <2>4. CASE s = [task[t] EXCEPT !.pc = "recheck", !.tree = MainTree(task[t])]
      <3>1. /\ s.pc = "recheck" /\ s.prefix = task[t].prefix
            /\ s.tree = tip \cap Under[task[t].prefix]
        BY <2>2, <2>4 DEF TaskStates, MainTree
      <3>2. SoloTask(rows', tip', s) BY <2>2, <3>1 DEF SoloTask
      <3> QED BY <2>1, <2>2, <3>2, SoloMoves
    <2> QED BY <2>1, <2>3, <2>4
  <1>6. ASSUME NEW t \in Tasks, Upsert(t) \/ Delete(t) PROVE SoloProgress'
    <2>1. task[t] \in TaskStates /\ task[t].pc # "idle" /\ solo' = solo /\ tip' = tip
      BY <1>0, <1>6 DEF Upsert, Delete, tip
    <2>2. PICK a \in task[t].todo :
            /\ task' = [task EXCEPT ![t].todo = @ \ {a}]
            /\ \/ task[t].pc = "upsert" /\ rows' = rows \cup {a}
               \/ task[t].pc = "delete" /\ rows' = rows \ {a}
      BY <1>6 DEF Upsert, Delete
    <2> DEFINE s == [task[t] EXCEPT !.todo = task[t].todo \ {a}]
    <2>3. Fits(s) /\ task' = [task EXCEPT ![t] = s] BY <2>2, UpsertStep
    <2>4. /\ s.pc = task[t].pc /\ s.mode = task[t].mode /\ s.prefix = task[t].prefix
          /\ s.tree = task[t].tree /\ s.todo = task[t].todo \ {a}
      BY <2>1 DEF TaskStates
    <2> HIDE DEF s
    <2>5. SoloTask(rows, tip, task[t]) => SoloTask(rows', tip', s)
      BY <2>1, <2>2, <2>4 DEF SoloTask
    <2> QED BY <2>1, <2>3, <2>5, SoloMoves
  <1>7. ASSUME NEW t \in Tasks, Scan(t) PROVE SoloProgress'
    <2>1. /\ task[t] \in TaskStates /\ task[t].pc = "upsert" /\ task[t].todo = {}
          /\ solo' = solo /\ rows' = rows /\ tip' = tip
      BY <1>0, <1>7 DEF Scan, tip
    <2> DEFINE s == [task[t] EXCEPT !.pc = "delete", !.todo = Extras(task[t])]
    <2>2. Fits(s) /\ task' = [task EXCEPT ![t] = s] BY <1>7, ScanStep
    <2>3. /\ s.pc = "delete" /\ s.mode = task[t].mode /\ s.prefix = task[t].prefix
          /\ s.tree = task[t].tree /\ s.todo = Extras(task[t])
      BY <2>1 DEF TaskStates
    <2> HIDE DEF s
    <2>4. SoloTask(rows, tip, task[t]) => SoloTask(rows', tip', s)
      BY <2>1, <2>3 DEF SoloTask, Extras
    <2> QED BY <2>1, <2>2, <2>4, SoloMoves
  <1>8. ASSUME NEW t \in Tasks, Finish(t) \/ Crash(t) PROVE SoloProgress'
    <2>1. task' = [task EXCEPT ![t] = IdleTask] /\ task[t].pc # "idle" /\ solo' = solo
      BY <1>8 DEF Finish, Crash
    <2> QED BY <2>1, IdleFits, IdleSoloTask, SoloMoves
  <1>9. CASE UNCHANGED <<task, rows, landed, solo>>
    BY <1>9 DEF SoloProgress, tip
  <1> QED BY <1>1, <1>2, <1>3, <1>4, <1>5, <1>6, <1>7, <1>8, <1>9
          DEF Next, Step, vars, SwitchPolicy

----------------------------------------------------------------------------
(* Theorems.                                                               *)

LEMMA NextInv == Inv /\ [Next]_vars => Inv'
  BY TypeStep, QueueStep, WatermarkStep, SoloStep DEF Inv

\* Inv is an invariant of every instance of the index.
THEOREM Invariant == Spec => []Inv
  BY InitInv, NextInv, PTL DEF Spec

\* The rows, watermarks and task states have their types, and no task collects
\* or deletes outside its prefix (index_tree_blob_paths, apply_blob_path_index).
THEOREM TypeCorrect == Spec => []TypeOK
  <1>1. Inv => TypeOK BY DEF Inv
  <1> QED BY <1>1, Invariant, PTL

\* Every indexed_push_id that upsert_blob_path ever leaves names a round that
\* covers the row and after which, or after a later one, it was on main.
THEOREM WatermarksTrue == Spec => []WatermarkWitnessed
  <1>1. Inv => WatermarkWitnessed BY DEF Inv
  <1> QED BY <1>1, Invariant, PTL

\* A C segment or compensation that no other task overlaps makes the rows
\* under its prefix exactly the appearances on main.
THEOREM SoloExact == Spec => []SoloIsExact
  <1>1. Inv => SoloIsExact
    <2> SUFFICES ASSUME Inv, NEW t \in Tasks, solo = t, task[t].mode # "review",
                        task[t].pc = "delete", task[t].todo = {}
                 PROVE  rows \cap Under[task[t].prefix] = tip \cap Under[task[t].prefix]
      BY DEF SoloIsExact
    <2>1. SoloTask(rows, tip, task[t]) BY DEF Inv, SoloProgress
    <2> QED BY <2>1 DEF SoloTask
  <1> QED BY <1>1, Invariant, PTL

\* No late task lowers a watermark (the guarded UPDATE of upsert_blob_path).
THEOREM WatermarksGrow == Spec => WatermarkOnlyGrows
  <1>1. Inv /\ [Next]_vars =>
          [\A a \in rows \cap rows' : mark'[a] >= mark[a] \/ policy' # policy]_vars
    BY GrowStep DEF Inv
  <1> QED BY <1>1, Invariant, PTL DEF Spec, WatermarkOnlyGrows

=============================================================================
