-------------------------- MODULE PushQueue_proofs --------------------------
(***************************************************************************)
(* Proofs about PushQueue for every set of clients and operations and      *)
(* every bound.                                                            *)
(*                                                                         *)
(* Every action changes the table in one of a few ways.  RowStep says      *)
(* which, lemma NextSteps shows it of each action, and the invariants are  *)
(* then proved once from RowStep instead of once per action.               *)
(***************************************************************************)
EXTENDS PushQueue, FiniteSetTheorems, TLAPS

\* A task points at a row that exists, has a round left once it is past the
\* claim, and has been told "ok" only of a Done row.
ClientOK(s, rs) ==
  /\ s \in ClientStates
  /\ s.pc # "idle" => s.id \in DOMAIN rs /\ s.res = "none"
  /\ s.pc \in {"exec", "failclose", "intent", "complete", "reset", "terminalize"}
       => s.rounds < MaxRounds
  /\ s.res = "ok" => s.id \in DOMAIN rs /\ rs[s.id].st = "Done"

ReaperOK(s, rs) ==
  /\ s \in ReaperStates
  /\ s.pc = "reap" => s.id \in DOMAIN rs

ClientsOK == /\ cl \in [Clients -> ClientStates]
             /\ \A c \in Clients : ClientOK(cl[c], row)
TableOK == /\ row \in Seq(Rows)
           /\ \A i \in Ids : row[i].succ # 0 => row[i].succ \in Ids
RestOK == /\ paused \in BOOLEAN /\ hardStopped \in BOOLEAN
          /\ root \in Nat
          /\ log \in Seq(Nat)
          /\ lock \in Clients \cup {NoOne, Reaper}
          /\ left \in [BudgetKeys -> Nat]

TypeInv == TableOK /\ ClientsOK /\ ReaperOK(rp, row) /\ RestOK

\* An operation has at most one row that is active or Done.
OneLive ==
  \A i, j \in Ids :
    /\ row[i].op = row[j].op
    /\ row[i].st \in Active \cup {"Done"} /\ row[j].st \in Active \cup {"Done"}
    => i = j

----------------------------------------------------------------------------
(* What a step may do to the table and to the log.                         *)

\* The change of one row that was already there.
Keeps(i) == /\ row'[i].st = row[i].st /\ row'[i].succ = row[i].succ
            /\ row'[i].exp = row[i].exp
Closes(i) == /\ row[i].st \in Active
             /\ row'[i].st \in {"Failed", "Cancelled"}
             /\ row'[i].succ = row[i].succ
Requeues(i) == /\ row[i].st = "Running" /\ row'[i].st = "Cancelled"
               /\ Len(row') = Len(row) + 1
               /\ row'[i].succ = Len(row')
               /\ row'[Len(row')].op = row[i].op
Unclaims(i) == /\ row[i].st = "Running" /\ row'[i].st = "Queued"
               /\ row'[i].succ = row[i].succ
Claims(i) == /\ Claimable(i) /\ row'[i].st = "Running"
             /\ row'[i].succ = row[i].succ
             /\ row'[i].exp = root /\ root' = root
\* The client that lands row i holds the lock and found the root it had read, or
\* writes no root.
LandsBy(c, i) == /\ cl[c].id = i /\ InB3(c, "exec")
                 /\ root = cl[c].base \/ Kind[row[i].op] = "attach"
Lands(i) == /\ row[i].st = "Running" /\ row'[i].st = "Done"
            /\ row'[i].succ = row[i].succ
            /\ log' = Append(log, i)
            /\ \E c \in Clients : LandsBy(c, i)

Grows ==
  \E r \in Rows :
    /\ Len(row') = Len(row) + 1
    /\ row'[Len(row')] = r /\ r.st = "Queued" /\ r.succ = 0
    /\ \A i \in Ids : row[i].op = r.op => row'[i].st \in {"Failed", "Cancelled"}
    /\ \/ ~Full /\ ~PathBusy(r.op)
       \/ \E i \in Ids : Requeues(i)

RowStep ==
  /\ row' \in Seq(Rows)
  /\ Len(row') = Len(row) \/ Grows
  /\ \A i \in Ids :
       /\ row'[i].op = row[i].op
       /\ \/ Keeps(i) \/ Closes(i) \/ Requeues(i) \/ Unclaims(i)
          \/ Claims(i) \/ Lands(i)
  /\ \A i, j \in Ids : Requeues(i) /\ Requeues(j) => i = j
  /\ \/ log' = log
     \/ /\ Len(row') = Len(row)
        /\ \E i \in Ids : Lands(i) /\ \A j \in Ids : j # i => Keeps(j)

----------------------------------------------------------------------------
(* Facts about the operators of the model.                                 *)

LEMMA ZeroRounds == 0 \in 0..MaxRounds
  BY ConstantsAssumption

LEMMA IdleTyped == IdleClient \in ClientStates /\ IdleReaper \in ReaperStates
  BY ConstantsAssumption DEF IdleClient, IdleReaper, ClientStates, ReaperStates, PCs

LEMMA AnswerTyped ==
  ASSUME NEW i \in Nat, NEW r \in {"ok", "refused", "error"}
  PROVE  Answered(i, r) \in ClientStates /\ Answered(i, r).pc = "idle"
  BY IdleTyped, ConstantsAssumption DEF Answered, IdleClient, ClientStates, PCs

LEMMA NewRowTyped ==
  ASSUME NEW o \in Ops
  PROVE  NewRow(o) \in Rows /\ NewRow(o).op = o /\ NewRow(o).st = "Queued"
         /\ NewRow(o).succ = 0
  BY DEF NewRow, Rows, Statuses

\* Replacing one row.
LEMMA PutRow ==
  ASSUME NEW rs \in Seq(Rows), NEW i \in DOMAIN rs, NEW r \in Rows
  PROVE  LET q == [rs EXCEPT ![i] = r]
         IN /\ q \in Seq(Rows) /\ Len(q) = Len(rs) /\ DOMAIN q = DOMAIN rs
            /\ q[i] = r
            /\ \A j \in DOMAIN rs : j # i => q[j] = rs[j]
  OBVIOUS

\* Appending one.
LEMMA AddRow ==
  ASSUME NEW rs \in Seq(Rows), NEW r \in Rows
  PROVE  LET q == Append(rs, r)
         IN /\ q \in Seq(Rows) /\ Len(q) = Len(rs) + 1
            /\ q[Len(rs) + 1] = r
            /\ \A j \in DOMAIN rs : q[j] = rs[j]
  OBVIOUS

LEMMA InitType == Init => TypeInv
  <1> SUFFICES ASSUME Init PROVE TypeInv OBVIOUS
  <1>1. TableOK BY DEF Init, TableOK, Ids
  <1>2. ClientsOK BY IdleTyped DEF Init, ClientsOK, ClientOK, IdleClient
  <1>3. ReaperOK(rp, row) BY IdleTyped DEF Init, ReaperOK, IdleReaper
  <1>4. RestOK
    <2>1. log \in Seq(Nat) /\ root \in Nat BY DEF Init
    <2>2. paused \in BOOLEAN /\ hardStopped \in BOOLEAN BY DEF Init
    <2>3. lock \in Clients \cup {NoOne, Reaper} BY DEF Init
    <2>4. left \in [BudgetKeys -> Nat] BY ConstantsAssumption DEF Init
    <2> QED BY <2>1, <2>2, <2>3, <2>4 DEF RestOK
  <1> QED BY <1>1, <1>2, <1>3, <1>4 DEF TypeInv

LEMMA TypeInvTypeOK == TypeInv => TypeOK
  <1> SUFFICES ASSUME TypeInv PROVE TypeOK OBVIOUS
  <1>1. row \in Seq(Rows) BY DEF TypeInv, TableOK
  <1>2. cl \in [Clients -> ClientStates] BY DEF TypeInv, ClientsOK
  <1>3. rp \in ReaperStates BY DEF TypeInv, ReaperOK
  <1>4. RestOK BY DEF TypeInv
  <1> QED BY <1>1, <1>2, <1>3, <1>4, Zenon DEF TypeOK, RestOK

----------------------------------------------------------------------------
(* The forms a change of the table takes.                                  *)

LEMMA NoRowChange ==
  ASSUME TypeInv, UNCHANGED <<row, log>>
  PROVE  RowStep
  <1>1. row' \in Seq(Rows) /\ Len(row') = Len(row) BY DEF TypeInv, TableOK
  <1>2. \A i \in Ids : row'[i].op = row[i].op /\ Keeps(i) BY DEF Keeps
  <1>3. \A i \in Ids : ~Requeues(i) BY DEF Requeues
  <1> QED BY <1>1, <1>2, <1>3 DEF RowStep

\* One row is replaced by r.
RowChange(i, r) ==
  /\ row' = [row EXCEPT ![i] = r]
  /\ r \in Rows /\ r.op = row[i].op /\ r.succ = row[i].succ
  /\ \/ r.st = row[i].st /\ r.exp = row[i].exp /\ log' = log
     \/ row[i].st \in Active /\ r.st \in {"Failed", "Cancelled"} /\ log' = log
     \/ row[i].st = "Running" /\ r.st = "Queued" /\ log' = log
     \/ Claimable(i) /\ r.st = "Running" /\ r.exp = root /\ root' = root /\ log' = log
     \/ /\ row[i].st = "Running" /\ r.st = "Done" /\ log' = Append(log, i)
        /\ \E c \in Clients : LandsBy(c, i)

LEMMA OneRowChange ==
  ASSUME TypeInv, NEW i \in Ids, NEW r, RowChange(i, r)
  PROVE  RowStep
  <1>0. row \in Seq(Rows) BY DEF TypeInv, TableOK
  <1>1. /\ row' \in Seq(Rows) /\ Len(row') = Len(row) /\ row'[i] = r
        /\ \A j \in Ids : j # i => row'[j] = row[j]
    BY <1>0, PutRow DEF RowChange, Ids
  <1>2. \A j \in Ids : row'[j].op = row[j].op BY <1>1 DEF RowChange
  <1>3. \A j \in Ids : j # i => Keeps(j) BY <1>1 DEF Keeps
  <1>4. Keeps(i) \/ Closes(i) \/ Unclaims(i) \/ Claims(i) \/ Lands(i)
    BY <1>1 DEF RowChange, Keeps, Closes, Unclaims, Claims, Lands
  <1>5. \A j \in Ids : ~Requeues(j) BY <1>0, <1>1 DEF Requeues
  <1>6. log' = log \/ Lands(i) BY <1>1 DEF RowChange, Lands
  <1> QED BY <1>1, <1>2, <1>3, <1>4, <1>5, <1>6 DEF RowStep

LEMMA RowTyped ==
  ASSUME TypeInv, NEW i \in Ids
  PROVE  /\ row[i] \in Rows /\ row[i].op \in Ops /\ row[i].st \in Statuses
         /\ row[i].succ \in Nat
  <1>1. row[i] \in Rows BY DEF TypeInv, TableOK, Ids
  <1> QED BY <1>1 DEF Rows

\* Some rows are closed.
LEMMA ManyRowsClose ==
  ASSUME TypeInv, row' \in Seq(Rows), Len(row') = Len(row), log' = log,
         \A i \in Ids : row'[i].op = row[i].op /\ (Keeps(i) \/ Closes(i))
  PROVE  RowStep
  <1>1. \A j \in Ids : ~Requeues(j) BY DEF Requeues, TypeInv, TableOK
  <1> QED BY <1>1 DEF RowStep

\* An operation without a live row gets a new one.
LEMMA RowAdded ==
  ASSUME TypeInv, NEW o \in Ops, Live(o) = {}, ~Full, ~PathBusy(o),
         row' = Append(row, NewRow(o)), log' = log
  PROVE  RowStep
  <1>0. row \in Seq(Rows) BY DEF TypeInv, TableOK
  <1>1. /\ row' \in Seq(Rows) /\ Len(row') = Len(row) + 1
        /\ row'[Len(row')] = NewRow(o)
        /\ \A j \in Ids : row'[j] = row[j]
    BY <1>0, AddRow, NewRowTyped DEF Ids
  <1>2. \A i \in Ids : row[i].op = o => row'[i].st \in {"Failed", "Cancelled"}
    <2> SUFFICES ASSUME NEW i \in Ids, row[i].op = o
                 PROVE  row'[i].st \in {"Failed", "Cancelled"} OBVIOUS
    <2>2. row[i].st \in Statuses BY RowTyped
    <2>3. row[i].st \notin Active \cup {"Done"} BY DEF Live, RowsOf
    <2> QED BY <1>1, <2>2, <2>3 DEF Statuses, Active
  <1>3. Grows
    <2>1. NewRow(o) \in Rows /\ NewRow(o).op = o /\ NewRow(o).st = "Queued"
          /\ NewRow(o).succ = 0
      BY NewRowTyped
    <2> QED BY <1>1, <1>2, <2>1 DEF Grows
  <1>4. \A i \in Ids : row'[i].op = row[i].op /\ Keeps(i) BY <1>1 DEF Keeps
  <1>5. \A i \in Ids : ~Requeues(i)
    <2> SUFFICES ASSUME NEW i \in Ids PROVE ~Requeues(i) OBVIOUS
    <2>1. row'[i] = row[i] BY <1>1
    <2> QED BY <2>1 DEF Requeues
  <1> QED BY <1>1, <1>3, <1>4, <1>5 DEF RowStep

\* What the heartbeat cleanup leaves of a table.
Tidied(rs, q) ==
  /\ q \in Seq(Rows) /\ Len(q) = Len(rs) /\ DOMAIN q = DOMAIN rs
  /\ \A i \in DOMAIN rs :
       \/ q[i] = rs[i]
       \/ /\ rs[i].st = "Queued" /\ q[i].st = "Cancelled"
          /\ q[i].op = rs[i].op /\ q[i].succ = rs[i].succ

LEMMA TerminalRow ==
  ASSUME NEW r \in Rows, NEW s \in Statuses
  PROVE  /\ Terminal(r, s) \in Rows /\ Terminal(r, s).st = s
         /\ Terminal(r, s).op = r.op /\ Terminal(r, s).succ = r.succ
  BY DEF Terminal, Rows

LEMMA CleanupTidies ==
  ASSUME NEW rs \in Seq(Rows)
  PROVE  Tidied(rs, Cleanup(rs))
  <1>1. CASE rp.hs BY <1>1 DEF Tidied, Cleanup
  <1>2. CASE ~rp.hs
    <2>1. Cleanup(rs) = CancelStale(rs) BY <1>2 DEF Cleanup
    <2>2. \A i \in DOMAIN rs : rs[i] \in Rows OBVIOUS
    <2>3. \A i \in DOMAIN rs :
            /\ Cancel(rs[i]) \in Rows /\ Cancel(rs[i]).st = "Cancelled"
            /\ Cancel(rs[i]).op = rs[i].op /\ Cancel(rs[i]).succ = rs[i].succ
      BY <2>2, TerminalRow DEF Cancel, Statuses
    <2>4. /\ DOMAIN CancelStale(rs) = DOMAIN rs
          /\ \A i \in DOMAIN rs :
               CancelStale(rs)[i] = IF rs[i].st = "Queued" /\ ~rs[i].fresh
                                    THEN Cancel(rs[i]) ELSE rs[i]
      BY DEF CancelStale
    <2>5. CancelStale(rs) \in [1..Len(rs) -> Rows]
      <3>1. \A i \in DOMAIN rs : CancelStale(rs)[i] \in Rows BY <2>2, <2>3, <2>4
      <3>2. DOMAIN rs = 1..Len(rs) OBVIOUS
      <3> QED BY <3>1, <3>2, <2>4 DEF CancelStale
    <2>6. CancelStale(rs) \in Seq(Rows) /\ Len(CancelStale(rs)) = Len(rs)
      BY <2>5
    <2> QED BY <2>1, <2>3, <2>4, <2>6 DEF Tidied
  <1> QED BY <1>1, <1>2

\* A Running row is closed and its operation drawn again at the tail.
LEMMA RowRequeued ==
  ASSUME TypeInv, OneLive, NEW i \in Ids, CanRequeue(i), log' = log,
         NEW rs, Tidied(row, rs), row' = Requeue(rs, i)
  PROVE  RowStep
  <1>0. row \in Seq(Rows) BY DEF TypeInv, TableOK
  <1>1. rs \in Seq(Rows) /\ Len(rs) = Len(row) /\ DOMAIN rs = Ids /\ rs[i] = row[i]
    BY DEF Tidied, Ids, CanRequeue, Running
  <1>2. row[i] \in Rows /\ row[i].op \in Ops /\ row[i].st = "Running"
    BY RowTyped DEF CanRequeue, Running
  <1> DEFINE n == Len(row) + 1
             r == [Cancel(row[i]) EXCEPT !.succ = n]
             q == [rs EXCEPT ![i] = r]
  <1>3. n \in Nat /\ n \notin Ids /\ i \in 1..Len(row) /\ Ids = 1..Len(row)
    BY <1>0 DEF Ids
  <1>4. r \in Rows /\ r.st = "Cancelled" /\ r.op = row[i].op /\ r.succ = n
    BY <1>2, <1>3 DEF Cancel, Terminal, Rows, Statuses
  <1>5. /\ q \in Seq(Rows) /\ Len(q) = Len(row) /\ DOMAIN q = Ids /\ q[i] = r
        /\ \A j \in Ids : j # i => q[j] = rs[j]
    BY <1>1, <1>4, PutRow
  <1>6. row' = Append(q, NewRow(row[i].op)) BY <1>1 DEF Requeue
  <1> HIDE DEF q
  <1>7. /\ row' \in Seq(Rows) /\ Len(row') = n /\ row'[n] = NewRow(row[i].op)
        /\ \A j \in Ids : row'[j] = q[j]
    <2>1. NewRow(row[i].op) \in Rows BY <1>2, NewRowTyped
    <2> HIDE DEF r, n
    <2>2. /\ row' \in Seq(Rows) /\ Len(row') = Len(q) + 1
          /\ row'[Len(q) + 1] = NewRow(row[i].op)
          /\ \A j \in DOMAIN q : row'[j] = q[j]
      BY <2>1, <1>5, <1>6, AddRow
    <2>3. Len(q) + 1 = n BY <1>5 DEF n
    <2> QED BY <1>5, <2>2, <2>3
  <1> HIDE DEF r
  <1>8. \A j \in Ids : j # i =>
          \/ row'[j] = row[j]
          \/ /\ row[j].st = "Queued" /\ row'[j].st = "Cancelled"
             /\ row'[j].op = row[j].op /\ row'[j].succ = row[j].succ
    BY <1>5, <1>7 DEF Tidied, Ids
  <1>9. row'[i] = r BY <1>5, <1>7
  <1>10. Requeues(i)
    BY <1>2, <1>4, <1>7, <1>9, NewRowTyped DEF Requeues
  <1>11. \A j \in Ids : j # i => Keeps(j) \/ Closes(j)
    BY <1>8 DEF Keeps, Closes, Active
  <1>12. \A j \in Ids : row'[j].op = row[j].op BY <1>4, <1>8, <1>9
  <1>13. \A j \in Ids : j # i => ~Requeues(j)
    BY <1>3, <1>7, <1>8 DEF Requeues
  <1>14. \A j \in Ids : row[j].op = row[i].op => row'[j].st \in {"Failed", "Cancelled"}
    <2> SUFFICES ASSUME NEW j \in Ids, row[j].op = row[i].op, j # i
                 PROVE  row'[j].st \in {"Failed", "Cancelled"}
      BY <1>4, <1>9
    <2>1. row[j].st \in Statuses BY RowTyped
    <2>2. row[j].st \notin Active \cup {"Done"}
      BY <1>2 DEF OneLive, Active
    <2> QED BY <1>8, <2>1, <2>2 DEF Statuses, Active
  <1>15. Grows BY <1>2, <1>7, <1>10, <1>14, NewRowTyped DEF Grows
  <1> QED BY <1>7, <1>10, <1>11, <1>12, <1>13, <1>15 DEF RowStep

----------------------------------------------------------------------------
(* The forms a change of a client or of the reaper takes.                  *)

\* RowStep keeps what the tasks rely on: rows stay, and Done rows stay Done.
LEMMA RowsStay ==
  ASSUME TypeInv, RowStep
  PROVE  /\ row' \in Seq(Rows)
         /\ Len(row') >= Len(row)
         /\ \A i \in Ids : i \in DOMAIN row'
         /\ \A i \in Ids : row[i].st \notin Active =>
              row'[i].st = row[i].st /\ row'[i].succ = row[i].succ
  <1>1. row \in Seq(Rows) /\ row' \in Seq(Rows) BY DEF TypeInv, TableOK, RowStep
  <1>2. Len(row') = Len(row) \/ Len(row') = Len(row) + 1 BY DEF RowStep, Grows
  <1>3. \A i \in Ids : i \in DOMAIN row' BY <1>1, <1>2 DEF Ids
  <1>4. ASSUME NEW i \in Ids, row[i].st \notin Active
        PROVE  row'[i].st = row[i].st /\ row'[i].succ = row[i].succ
    <2>1. row[i].st # "Running" /\ row[i].st # "Queued" BY <1>4 DEF Active
    <2>2. Keeps(i)
      BY <1>4, <2>1 DEF RowStep, Closes, Requeues, Unclaims, Claims, Claimable, Lands
    <2> QED BY <2>2 DEF Keeps
  <1> QED BY <1>1, <1>2, <1>3, <1>4

LEMMA ClientStaysOK ==
  ASSUME TypeInv, RowStep, NEW s, ClientOK(s, row)
  PROVE  ClientOK(s, row')
  BY RowsStay DEF ClientOK, Ids, Active

LEMMA ReaperStaysOK ==
  ASSUME TypeInv, RowStep, NEW s, ReaperOK(s, row)
  PROVE  ReaperOK(s, row')
  BY RowsStay DEF ReaperOK, Ids

\* One client changes.
ClientMoves(c) == cl' = [cl EXCEPT ![c] = cl'[c]] /\ ClientOK(cl'[c], row')

LEMMA ClientsStayOK ==
  ASSUME TypeInv, RowStep, cl' = cl \/ \E c \in Clients : ClientMoves(c)
  PROVE  ClientsOK'
  <1>1. cl \in [Clients -> ClientStates] /\ \A c \in Clients : ClientOK(cl[c], row)
    BY DEF TypeInv, ClientsOK
  <1>2. \A c \in Clients : ClientOK(cl[c], row') BY <1>1, ClientStaysOK
  <1>3. CASE cl' = cl BY <1>1, <1>2, <1>3 DEF ClientsOK
  <1>4. ASSUME NEW c \in Clients, ClientMoves(c) PROVE ClientsOK'
    <2>1. cl'[c] \in ClientStates BY <1>4 DEF ClientMoves, ClientOK
    <2>2. cl' \in [Clients -> ClientStates] BY <1>1, <1>4, <2>1 DEF ClientMoves
    <2>3. \A d \in Clients : d # c => cl'[d] = cl[d] BY <1>1, <1>4 DEF ClientMoves
    <2> QED BY <1>2, <1>4, <2>2, <2>3 DEF ClientsOK, ClientMoves
  <1> QED BY <1>3, <1>4

\* A step is type correct when its parts are.
LEMMA StepTypeInv ==
  ASSUME TypeInv, RowStep, cl' = cl \/ \E c \in Clients : ClientMoves(c),
         rp' = rp \/ ReaperOK(rp', row'), RestOK'
  PROVE  TypeInv'
  <1>1. TableOK'
    <2>1. row \in Seq(Rows) /\ row' \in Seq(Rows) BY DEF TypeInv, TableOK, RowStep
    <2>2. ASSUME NEW i \in DOMAIN row', row'[i].succ # 0
          PROVE  row'[i].succ \in DOMAIN row'
      <3>1. CASE i \in Ids
        <4>1. row'[i].succ = row[i].succ \/ Requeues(i)
          BY <3>1 DEF RowStep, Keeps, Closes, Unclaims, Claims, Lands
        <4>2. CASE Requeues(i) BY <2>1, <4>2 DEF Requeues
        <4>3. CASE row'[i].succ = row[i].succ
          BY <2>2, <3>1, <4>3, RowsStay DEF TypeInv, TableOK
        <4> QED BY <4>1, <4>2, <4>3
      <3>2. CASE i \notin Ids
        <4>1. Len(row') # Len(row) BY <2>1, <2>2, <3>2 DEF Ids
        <4>2. Grows BY <4>1 DEF RowStep
        <4>3. i = Len(row') BY <2>1, <2>2, <3>2, <4>2 DEF Ids, Grows
        <4> QED BY <2>2, <4>2, <4>3 DEF Grows
      <3> QED BY <3>1, <3>2
    <2> QED BY <2>1, <2>2 DEF TableOK, Ids
  <1>2. ClientsOK' BY ClientsStayOK
  <1>3. ReaperOK(rp', row') BY ReaperStaysOK DEF TypeInv
  <1> QED BY <1>1, <1>2, <1>3 DEF TypeInv

LEMMA AnswerOK ==
  ASSUME NEW i \in Nat, NEW r \in {"ok", "refused", "error"}, NEW rs,
         r = "ok" => i \in DOMAIN rs /\ rs[i].st = "Done"
  PROVE  ClientOK(Answered(i, r), rs)
  <1>1. Answered(i, r) \in ClientStates /\ Answered(i, r).pc = "idle"
    BY AnswerTyped
  <1>2. Answered(i, r).res = "ok" => r = "ok" /\ Answered(i, r).id = i
    BY DEF Answered, IdleClient
  <1> QED BY <1>1, <1>2 DEF ClientOK

\* An answered client.
LEMMA AnswerMoves ==
  ASSUME TypeInv, NEW c \in Clients, NEW r \in {"ok", "refused", "error"}, Answer(c, r),
         r = "ok" => cl[c].id \in DOMAIN row' /\ row'[cl[c].id].st = "Done"
  PROVE  ClientMoves(c)
  <1>1. cl \in [Clients -> ClientStates] BY DEF TypeInv, ClientsOK
  <1>2. cl[c].id \in Nat BY <1>1 DEF ClientStates
  <1>3. cl'[c] = Answered(cl[c].id, r) BY <1>1 DEF Answer
  <1>4. ClientOK(Answered(cl[c].id, r), row') BY <1>2, AnswerOK
  <1> QED BY <1>1, <1>3, <1>4 DEF Answer, ClientMoves

\* A client that waits on a row.
LEMMA WaitMoves ==
  ASSUME TypeInv, NEW c \in Clients, NEW s \in ClientStates, s.pc = "wait",
         s.id \in DOMAIN row', s.res = "none", cl' = [cl EXCEPT ![c] = s]
  PROVE  ClientMoves(c)
  <1>1. cl \in [Clients -> ClientStates] BY DEF TypeInv, ClientsOK
  <1>2. ClientOK(s, row') BY DEF ClientOK
  <1>3. cl'[c] = s BY <1>1
  <1> QED BY <1>2, <1>3 DEF ClientMoves

LEMMA WaitAgainMoves ==
  ASSUME TypeInv, RowStep, NEW c \in Clients, cl[c].pc # "idle",
         cl[c].rounds < MaxRounds, WaitAgain(c)
  PROVE  ClientMoves(c)
  <1>1. ClientOK(cl[c], row) /\ cl[c] \in ClientStates BY DEF TypeInv, ClientsOK
  <1>2. cl[c].id \in Nat /\ cl[c].id \in DOMAIN row' /\ cl[c].rounds + 1 \in 0..MaxRounds
    BY <1>1, RowsStay, ConstantsAssumption DEF ClientOK, ClientStates, Ids
  <1>3. CASE Answer(c, "error") BY <1>3, AnswerMoves
  <1>4. CASE cl' = [cl EXCEPT ![c] = [IdleClient EXCEPT !.pc = "wait", !.id = cl[c].id,
                                                  !.rounds = cl[c].rounds + 1]]
    <2> DEFINE s == [IdleClient EXCEPT !.pc = "wait", !.id = cl[c].id,
                                       !.rounds = cl[c].rounds + 1]
    <2>1. s \in ClientStates /\ s.pc = "wait" /\ s.id = cl[c].id /\ s.res = "none"
      BY <1>2 DEF IdleClient, ClientStates, PCs
    <2> HIDE DEF s
    <2> QED BY <1>2, <1>4, <2>1, WaitMoves DEF s
  <1> QED BY <1>3, <1>4 DEF WaitAgain

\* A client that goes on with its row.
LEMMA GotoMoves ==
  ASSUME TypeInv, RowStep, NEW c \in Clients, cl[c].pc # "idle", NEW s,
         s \in ClientStates, s.id = cl[c].id, s.rounds = cl[c].rounds,
         s.res = cl[c].res,
         s.pc \in {"wait", "claim", "lock"} \/ cl[c].rounds < MaxRounds,
         cl' = [cl EXCEPT ![c] = s]
  PROVE  ClientMoves(c)
  <1>1. ClientOK(cl[c], row) /\ cl[c] \in ClientStates BY DEF TypeInv, ClientsOK
  <1>2. cl[c].id \in DOMAIN row' /\ cl[c].res = "none"
    BY <1>1, RowsStay DEF ClientOK, Ids
  <1>3. ClientOK(s, row') BY <1>2 DEF ClientOK
  <1>4. cl'[c] = s BY DEF TypeInv, ClientsOK
  <1> QED BY <1>3, <1>4 DEF ClientMoves

LEMMA ClientFacts ==
  ASSUME TypeInv, NEW c \in Clients, cl[c].pc # "idle"
  PROVE  /\ cl[c] \in ClientStates
         /\ cl[c].id \in Ids /\ cl[c].id \in Nat
         /\ cl[c].rounds \in 0..MaxRounds
         /\ cl[c].res = "none"
         /\ cl[c].pc \in {"exec", "failclose", "intent", "complete", "reset", "terminalize"}
              => cl[c].rounds < MaxRounds
  <1>1. ClientOK(cl[c], row) /\ cl[c] \in ClientStates BY DEF TypeInv, ClientsOK
  <1> QED BY <1>1 DEF ClientOK, ClientStates, Ids

\* A client that goes on, possibly with a reason and the root it has read.
LEMMA GotoPc ==
  ASSUME TypeInv, RowStep, NEW c \in Clients, cl[c].pc # "idle",
         NEW p \in PCs,
         p \in {"wait", "claim", "lock"} \/ cl[c].rounds < MaxRounds,
         Goto(c, p)
  PROVE  ClientMoves(c)
  <1> DEFINE s == [cl[c] EXCEPT !.pc = p]
  <1>1. cl[c] \in ClientStates BY ClientFacts
  <1>2. s \in ClientStates BY <1>1 DEF ClientStates
  <1>3. s.id = cl[c].id /\ s.rounds = cl[c].rounds /\ s.res = cl[c].res /\ s.pc = p
    BY <1>1 DEF ClientStates
  <1>4. cl' = [cl EXCEPT ![c] = s] BY DEF Goto
  <1> HIDE DEF s
  <1> QED BY <1>2, <1>3, <1>4, GotoMoves

LEMMA GotoWhy ==
  ASSUME TypeInv, RowStep, NEW c \in Clients, cl[c].pc # "idle",
         NEW p \in PCs, NEW w \in {"hardstop", "race", "baseline", "cas"},
         cl[c].rounds < MaxRounds,
         cl' = [cl EXCEPT ![c].pc = p, ![c].why = w]
  PROVE  ClientMoves(c)
  <1> DEFINE s == [cl[c] EXCEPT !.pc = p, !.why = w]
  <1>1. cl[c] \in ClientStates /\ cl \in [Clients -> ClientStates]
    BY ClientFacts DEF TypeInv, ClientsOK
  <1>2. s \in ClientStates BY <1>1 DEF ClientStates
  <1>3. s.id = cl[c].id /\ s.rounds = cl[c].rounds /\ s.res = cl[c].res /\ s.pc = p
    BY <1>1 DEF ClientStates
  <1>4. cl' = [cl EXCEPT ![c] = s] BY <1>1
  <1> HIDE DEF s
  <1> QED BY <1>2, <1>3, <1>4, GotoMoves

\* The conditional UPDATEs of one row.
LEMMA RowForms ==
  ASSUME NEW r \in Rows
  PROVE  /\ MarkDone(r) \in Rows /\ MarkDone(r).st = "Done"
         /\ MarkDone(r).op = r.op /\ MarkDone(r).succ = r.succ
         /\ MarkFailed(r) \in Rows /\ MarkFailed(r).st = "Failed"
         /\ MarkFailed(r).op = r.op /\ MarkFailed(r).succ = r.succ
         /\ Cancel(r) \in Rows /\ Cancel(r).st = "Cancelled"
         /\ Cancel(r).op = r.op /\ Cancel(r).succ = r.succ
         /\ Reset(r) \in Rows /\ Reset(r).st = "Queued"
         /\ Reset(r).op = r.op /\ Reset(r).succ = r.succ
         /\ ResetInTxn(r) \in Rows /\ ResetInTxn(r).st = "Queued"
         /\ ResetInTxn(r).op = r.op /\ ResetInTxn(r).succ = r.succ
  <1>1. \A s \in {"Done", "Failed", "Cancelled"} :
           /\ Terminal(r, s) \in Rows /\ Terminal(r, s).st = s
           /\ Terminal(r, s).op = r.op /\ Terminal(r, s).succ = r.succ
    BY TerminalRow DEF Statuses
  <1>2. /\ Reset(r) \in Rows /\ Reset(r).st = "Queued"
        /\ Reset(r).op = r.op /\ Reset(r).succ = r.succ
    BY DEF Reset, Rows, Statuses
  <1>3. /\ ResetInTxn(r) \in Rows /\ ResetInTxn(r).st = "Queued"
        /\ ResetInTxn(r).op = r.op /\ ResetInTxn(r).succ = r.succ
    BY DEF ResetInTxn, Rows, Statuses
  <1> QED BY <1>1, <1>2, <1>3 DEF MarkDone, MarkFailed, Cancel

LEMMA ConditionalUpdate ==
  ASSUME TypeInv, NEW i \in Ids, log' = log,
         \/ row' = IfRunning(i, MarkFailed(row[i]))
         \/ row' = IfRunning(i, Reset(row[i]))
         \/ row' = IfRunning(i, ResetInTxn(row[i]))
  PROVE  RowStep
  <1>1. row[i] \in Rows BY RowTyped
  <1>2. row[i].st = "Running" => row[i].st \in Active BY DEF Active
  <1>3. CASE row' = IfRunning(i, MarkFailed(row[i]))
    <2> DEFINE r == IF row[i].st = "Running" THEN MarkFailed(row[i]) ELSE row[i]
    <2>1. row' = [row EXCEPT ![i] = r] BY <1>3 DEF IfRunning
    <2>2. r \in Rows /\ r.op = row[i].op /\ r.succ = row[i].succ
          /\ (r = row[i] \/ (row[i].st = "Running" /\ r.st = "Failed"))
      BY <1>1, RowForms
    <2> HIDE DEF r
    <2>3. RowChange(i, r) BY <1>2, <2>1, <2>2 DEF RowChange
    <2> QED BY <2>3, OneRowChange
  <1>4. CASE row' = IfRunning(i, Reset(row[i]))
    <2> DEFINE r == IF row[i].st = "Running" THEN Reset(row[i]) ELSE row[i]
    <2>1. row' = [row EXCEPT ![i] = r] BY <1>4 DEF IfRunning
    <2>2. r \in Rows /\ r.op = row[i].op /\ r.succ = row[i].succ
          /\ (r = row[i] \/ (row[i].st = "Running" /\ r.st = "Queued"))
      BY <1>1, RowForms
    <2> HIDE DEF r
    <2>3. RowChange(i, r) BY <2>1, <2>2 DEF RowChange
    <2> QED BY <2>3, OneRowChange
  <1>5. CASE row' = IfRunning(i, ResetInTxn(row[i]))
    <2> DEFINE r == IF row[i].st = "Running" THEN ResetInTxn(row[i]) ELSE row[i]
    <2>1. row' = [row EXCEPT ![i] = r] BY <1>5 DEF IfRunning
    <2>2. r \in Rows /\ r.op = row[i].op /\ r.succ = row[i].succ
          /\ (r = row[i] \/ (row[i].st = "Running" /\ r.st = "Queued"))
      BY <1>1, RowForms
    <2> HIDE DEF r
    <2>3. RowChange(i, r) BY <2>1, <2>2 DEF RowChange
    <2> QED BY <2>3, OneRowChange
  <1> QED BY <1>3, <1>4, <1>5

\* The variables other than the table, the clients and the reaper.
LEMMA RestStays ==
  ASSUME TypeInv, paused' \in {paused, TRUE, FALSE},
         hardStopped' \in {hardStopped, TRUE, FALSE},
         root' \in {root, root + 1},
         log' = log \/ \E i \in Nat : log' = Append(log, i),
         lock' \in {lock, NoOne, Reaper} \cup Clients,
         left' = left \/ \E k \in BudgetKeys : Spend(k)
  PROVE  RestOK'
  <1>1. paused' \in BOOLEAN /\ hardStopped' \in BOOLEAN BY DEF TypeInv, RestOK
  <1>2. root' \in Nat BY DEF TypeInv, RestOK
  <1>3. log' \in Seq(Nat) BY DEF TypeInv, RestOK
  <1>4. lock' \in Clients \cup {NoOne, Reaper} BY DEF TypeInv, RestOK
  <1>5. left' \in [BudgetKeys -> Nat]
    <2>1. left \in [BudgetKeys -> Nat] BY DEF TypeInv, RestOK
    <2>2. ASSUME NEW k \in BudgetKeys, Spend(k) PROVE left' \in [BudgetKeys -> Nat]
      <3>1. left[k] - 1 \in Nat BY <2>1, <2>2 DEF Spend
      <3> QED BY <2>1, <2>2, <3>1 DEF Spend
    <2> QED BY <2>1, <2>2
  <1> QED BY <1>1, <1>2, <1>3, <1>4, <1>5 DEF RestOK

----------------------------------------------------------------------------
(* Every step changes the table as RowStep says and keeps TypeInv.         *)

LEMMA EnqueueSteps ==
  ASSUME TypeInv, NEW c \in Clients, NEW o \in Ops,
         EnqueueInsert(c, o) \/ EnqueueAdopt(c, o) \/ EnqueueReject(c, o)
  PROVE  RowStep /\ TypeInv'
  <1>0. row \in Seq(Rows) /\ cl \in [Clients -> ClientStates]
    BY DEF TypeInv, TableOK, ClientsOK
  <1>1. CASE EnqueueInsert(c, o)
    <2>1. RowStep BY <1>1, RowAdded DEF EnqueueInsert
    <2>2. ClientMoves(c)
      <3>1. Len(row) + 1 \in DOMAIN row' /\ Len(row) + 1 \in Nat
        BY <1>0, <1>1 DEF EnqueueInsert
      <3> DEFINE s == [IdleClient EXCEPT !.pc = "wait", !.id = Len(row) + 1]
      <3>2. s \in ClientStates /\ s.pc = "wait" /\ s.id = Len(row) + 1 /\ s.res = "none"
        BY <3>1, ZeroRounds DEF IdleClient, ClientStates, PCs
      <3>3. cl' = [cl EXCEPT ![c] = s] BY <1>1 DEF EnqueueInsert
      <3> HIDE DEF s
      <3> QED BY <3>1, <3>2, <3>3, WaitMoves
    <2>3. RestOK' BY <1>1, RestStays DEF EnqueueInsert, BudgetKeys
    <2> QED BY <1>1, <2>1, <2>2, <2>3, StepTypeInv DEF EnqueueInsert
  <1>2. CASE EnqueueAdopt(c, o)
    <2>1. RowStep BY <1>2, NoRowChange DEF EnqueueAdopt
    <2>2. PICK i \in Live(o) :
            \/ /\ row[i].st = "Done"
               /\ \E r \in Replayed(i) : cl' = [cl EXCEPT ![c] = Answered(i, r)]
            \/ /\ row[i].st \in Active
               /\ cl' = [cl EXCEPT ![c] = [IdleClient EXCEPT !.pc = "wait", !.id = i]]
      BY <1>2 DEF EnqueueAdopt
    <2>3. i \in DOMAIN row' /\ i \in Nat /\ row' = row
      <3>1. i \in Ids BY DEF Live, RowsOf
      <3>2. row' = row BY <1>2 DEF EnqueueAdopt
      <3> QED BY <1>0, <3>1, <3>2 DEF Ids
    <2>4. ClientMoves(c)
      <3>1. ASSUME NEW r \in Replayed(i), cl' = [cl EXCEPT ![c] = Answered(i, r)],
                   row[i].st = "Done"
            PROVE  ClientMoves(c)
        <4>1. r \in {"ok", "refused", "error"} BY <3>1 DEF Replayed
        <4>2. ClientOK(Answered(i, r), row') BY <2>3, <3>1, <4>1, AnswerOK
        <4> QED BY <1>0, <3>1, <4>2 DEF ClientMoves
      <3>2. CASE cl' = [cl EXCEPT ![c] = [IdleClient EXCEPT !.pc = "wait", !.id = i]]
        <4> DEFINE s == [IdleClient EXCEPT !.pc = "wait", !.id = i]
        <4>1. s \in ClientStates /\ s.pc = "wait" /\ s.id = i /\ s.res = "none"
          BY <2>3, ZeroRounds DEF IdleClient, ClientStates, PCs
        <4>2. cl' = [cl EXCEPT ![c] = s] BY <3>2
        <4> HIDE DEF s
        <4> QED BY <2>3, <4>1, <4>2, WaitMoves
      <3> QED BY <2>2, <3>1, <3>2
    <2>5. RestOK' BY <1>2, RestStays DEF EnqueueAdopt
    <2> QED BY <1>2, <2>1, <2>4, <2>5, StepTypeInv DEF EnqueueAdopt
  <1>3. CASE EnqueueReject(c, o)
    <2>1. RowStep BY <1>3, NoRowChange DEF EnqueueReject
    <2>2. ClientMoves(c)
      <3>1. ClientOK(Answered(0, "error"), row') BY AnswerOK
      <3> QED BY <1>0, <1>3, <3>1 DEF EnqueueReject, ClientMoves
    <2>3. RestOK' BY <1>3, RestStays DEF EnqueueReject
    <2> QED BY <1>3, <2>1, <2>2, <2>3, StepTypeInv DEF EnqueueReject
  <1> QED BY <1>1, <1>2, <1>3

LEMMA WaitSteps ==
  ASSUME TypeInv, NEW c \in Clients,
         Observe(c) \/ Abandon(c) \/ Claim(c) \/ GiveUp(c)
  PROVE  RowStep /\ TypeInv'
  <1> DEFINE i == cl[c].id
  <1>0. cl[c].pc # "idle" BY DEF Observe, Abandon, Claim, GiveUp
  <1>a. /\ cl[c] \in ClientStates /\ i \in Ids /\ i \in Nat
        /\ cl[c].res = "none" /\ cl \in [Clients -> ClientStates]
    BY <1>0, ClientFacts DEF TypeInv, ClientsOK
  <1>b. row[i] \in Rows /\ row[i].st \in Statuses BY <1>a, RowTyped
  <1>c. root \in Nat BY DEF TypeInv, RestOK
  <1>1. CASE Observe(c)
    <2>1. CASE /\ row[i].st = "Done"
               /\ \E a \in Replayed(i) : AnswerFromWait(c, a)
               /\ UNCHANGED row
      <3>1. RowStep BY <1>1, <2>1, NoRowChange DEF Observe
      <3>2. ClientMoves(c)
        <4>1. PICK r \in {"ok", "error"} : Answer(c, r)
          BY <2>1 DEF Replayed, AnswerFromWait
        <4>2. i \in DOMAIN row' /\ row'[i].st = "Done" BY <1>a, <2>1 DEF Ids
        <4> QED BY <4>1, <4>2, AnswerMoves
      <3>3. RestOK' BY <1>1, RestStays DEF Observe
      <3> QED BY <1>1, <3>1, <3>2, <3>3, StepTypeInv DEF Observe
    <2>2. CASE AnswerFromWait(c, "refused") /\ UNCHANGED row
      <3>1. RowStep BY <1>1, <2>2, NoRowChange DEF Observe
      <3>2. ClientMoves(c)
        <4>1. PICK r \in {"refused", "error"} : Answer(c, r)
          BY <2>2 DEF AnswerFromWait
        <4> QED BY <4>1, AnswerMoves
      <3>3. RestOK' BY <1>1, RestStays DEF Observe
      <3> QED BY <1>1, <3>1, <3>2, <3>3, StepTypeInv DEF Observe
    <2>3. CASE /\ row[i].succ # 0
               /\ cl' = [cl EXCEPT ![c].id = row[i].succ, ![c].seen = FALSE]
               /\ UNCHANGED row
      <3>1. RowStep BY <1>1, <2>3, NoRowChange DEF Observe
      <3>2. ClientMoves(c)
        <4> DEFINE s == [cl[c] EXCEPT !.id = row[i].succ, !.seen = FALSE]
        <4>1. row[i].succ \in DOMAIN row' /\ row[i].succ \in Nat
          BY <1>a, <2>3, RowTyped DEF TypeInv, TableOK, Ids
        <4>2. s \in ClientStates /\ s.id = row[i].succ /\ s.res = "none" /\ s.pc = "wait"
          BY <1>1, <1>a, <4>1 DEF ClientStates, Observe
        <4>3. ClientOK(s, row') BY <4>1, <4>2 DEF ClientOK
        <4>4. cl' = [cl EXCEPT ![c] = s] BY <1>a, <2>3
        <4> HIDE DEF s
        <4> QED BY <1>a, <4>3, <4>4 DEF ClientMoves
      <3>3. RestOK' BY <1>1, RestStays DEF Observe
      <3> QED BY <1>1, <3>1, <3>2, <3>3, StepTypeInv DEF Observe
    <2>4. CASE /\ cl' = [cl EXCEPT ![c].pc = "claim",
                               ![c].seen = @ \/ row[i].st = "Running"]
               /\ row' = [row EXCEPT ![i].fresh = @ \/ row[i].st = "Queued"]
      <3>1. RowStep
        <4> DEFINE r == [row[i] EXCEPT !.fresh = @ \/ row[i].st = "Queued"]
        <4>1. /\ r \in Rows /\ r.op = row[i].op /\ r.succ = row[i].succ
              /\ r.st = row[i].st /\ r.exp = row[i].exp
          BY <1>b DEF Rows
        <4>2. row' = [row EXCEPT ![i] = r] BY <2>4
        <4> HIDE DEF r
        <4>3. RowChange(i, r) BY <1>1, <4>1, <4>2 DEF RowChange, Observe
        <4> QED BY <1>a, <4>3, OneRowChange
      <3>2. ClientMoves(c)
        <4> DEFINE s == [cl[c] EXCEPT !.pc = "claim", !.seen = @ \/ row[i].st = "Running"]
        <4>1. s \in ClientStates /\ s.id = i /\ s.res = "none" /\ s.pc = "claim"
              /\ s.rounds = cl[c].rounds
          BY <1>a DEF ClientStates, PCs
        <4>2. cl' = [cl EXCEPT ![c] = s] BY <1>a, <2>4
        <4> HIDE DEF s
        <4> QED BY <1>0, <1>a, <3>1, <4>1, <4>2, GotoMoves
      <3>3. RestOK' BY <1>1, RestStays DEF Observe
      <3> QED BY <1>1, <3>1, <3>2, <3>3, StepTypeInv DEF Observe
    <2> QED BY <1>1, <2>1, <2>2, <2>3, <2>4 DEF Observe
  <1>2. CASE Abandon(c)
    <2>1. RowStep BY <1>2, NoRowChange DEF Abandon
    <2>2. ClientMoves(c) BY <1>2, AnswerMoves DEF Abandon
    <2>3. RestOK' BY <1>2, RestStays DEF Abandon
    <2> QED BY <1>2, <2>1, <2>2, <2>3, StepTypeInv DEF Abandon
  <1>3. CASE Claim(c)
    <2>1. CASE Claimable(i) /\ row' = [row EXCEPT ![i] = Claimed(@)] /\ Goto(c, "lock")
      <3>1. RowStep
        <4> DEFINE r == Claimed(row[i])
        <4>1. /\ r \in Rows /\ r.op = row[i].op /\ r.succ = row[i].succ
              /\ r.st = "Running" /\ r.exp = root
          BY <1>b, <1>c DEF Rows, Claimed, Statuses
        <4>2. row' = [row EXCEPT ![i] = r] BY <2>1
        <4> HIDE DEF r
        <4>3. RowChange(i, r) BY <1>3, <2>1, <4>1, <4>2 DEF RowChange, Claim
        <4> QED BY <1>a, <4>3, OneRowChange
      <3>2. ClientMoves(c) BY <1>0, <2>1, <3>1, GotoPc DEF PCs
      <3>3. RestOK' BY <1>3, RestStays DEF Claim
      <3> QED BY <1>3, <3>1, <3>2, <3>3, StepTypeInv DEF Claim
    <2>2. CASE Goto(c, "wait") /\ UNCHANGED row
      <3>1. RowStep BY <1>3, <2>2, NoRowChange DEF Claim
      <3>2. ClientMoves(c) BY <1>0, <2>2, <3>1, GotoPc DEF PCs
      <3>3. RestOK' BY <1>3, RestStays DEF Claim
      <3> QED BY <1>3, <3>1, <3>2, <3>3, StepTypeInv DEF Claim
    <2> QED BY <1>3, <2>1, <2>2 DEF Claim
  <1>4. CASE GiveUp(c)
    <2>1. RowStep BY <1>4, NoRowChange DEF GiveUp
    <2>2. ClientMoves(c) BY <1>4, AnswerMoves DEF GiveUp
    <2>3. RestOK' BY <1>4, RestStays DEF GiveUp
    <2> QED BY <1>4, <2>1, <2>2, <2>3, StepTypeInv DEF GiveUp
  <1> QED BY <1>1, <1>2, <1>3, <1>4

LEMMA B3RowlessSteps ==
  ASSUME TypeInv, NEW c \in Clients,
         B3Begin(c) \/ LoseClaim(c) \/ CasMiss(c) \/ ErrAbort(c) \/ MergeRace(c)
         \/ Conflict(c) \/ TxnDead(c)
  PROVE  RowStep /\ TypeInv'
  <1>0. cl[c].pc # "idle" BY DEF B3Begin, LoseClaim, CasMiss, ErrAbort,
       MergeRace, Conflict, TxnDead, InB3
  <1>a. /\ cl[c] \in ClientStates /\ cl[c].id \in Ids /\ cl[c].id \in Nat
        /\ cl[c].rounds < MaxRounds /\ cl \in [Clients -> ClientStates]
    BY <1>0, ClientFacts DEF TypeInv, ClientsOK, HasRound, B3Begin, LoseClaim, CasMiss, ErrAbort,
       MergeRace, Conflict, TxnDead, InB3
  <1>b. row[cl[c].id] \in Rows BY <1>a, RowTyped
  <1>1. CASE B3Begin(c)
    <2>1. RowStep BY <1>1, NoRowChange DEF B3Begin
    <2>2. ClientMoves(c)
      <3>1. CASE WaitAgain(c) BY <1>0, <1>a, <2>1, <3>1, WaitAgainMoves
      <3>2. ASSUME NEW p \in PCs, NEW w \in {"hardstop", "baseline"},
                   cl' = [cl EXCEPT ![c].pc = p, ![c].why = w]
            PROVE  ClientMoves(c)
        BY <1>0, <1>a, <2>1, <3>2, GotoWhy
      <3>3. CASE cl' = [cl EXCEPT ![c].pc = "exec", ![c].base = root]
        <4> DEFINE s == [cl[c] EXCEPT !.pc = "exec", !.base = root]
        <4>1. root \in Nat BY DEF TypeInv, RestOK
        <4>2. /\ s \in ClientStates /\ s.id = cl[c].id /\ s.rounds = cl[c].rounds
              /\ s.res = cl[c].res
          BY <1>a, <4>1 DEF ClientStates, PCs
        <4>3. cl' = [cl EXCEPT ![c] = s] BY <1>a, <3>3
        <4> HIDE DEF s
        <4> QED BY <1>0, <1>a, <2>1, <4>2, <4>3, GotoMoves
      <3>4. "reset" \in PCs /\ "failclose" \in PCs BY DEF PCs
      <3> QED BY <1>1, <3>1, <3>2, <3>3, <3>4 DEF B3Begin
    <2>3. RestOK' BY <1>1, RestStays DEF B3Begin
    <2> QED BY <1>1, <2>1, <2>2, <2>3, StepTypeInv DEF B3Begin
  <1>2. CASE LoseClaim(c)
    <2>1. RowStep BY <1>2, NoRowChange DEF LoseClaim
    <2>2. ClientMoves(c) BY <1>0, <1>a, <1>2, <2>1, WaitAgainMoves DEF LoseClaim
    <2>3. RestOK' BY <1>2, RestStays DEF LoseClaim
    <2> QED BY <1>2, <2>1, <2>2, <2>3, StepTypeInv DEF LoseClaim
  <1>3. CASE CasMiss(c)
    <2>1. RowStep BY <1>3, NoRowChange DEF CasMiss
    <2>2. ClientMoves(c) BY <1>0, <1>a, <1>3, <2>1, GotoWhy DEF CasMiss, PCs
    <2>3. RestOK' BY <1>3, RestStays DEF CasMiss
    <2> QED BY <1>3, <2>1, <2>2, <2>3, StepTypeInv DEF CasMiss
  <1>4. CASE ErrAbort(c)
    <2>1. RowStep BY <1>4, NoRowChange DEF ErrAbort
    <2>2. ClientMoves(c) BY <1>0, <1>a, <1>4, <2>1, GotoPc DEF ErrAbort, PCs
    <2>3. RestOK' BY <1>4, RestStays DEF ErrAbort
    <2> QED BY <1>4, <2>1, <2>2, <2>3, StepTypeInv DEF ErrAbort
  <1>5. CASE MergeRace(c)
    <2>1. RowStep BY <1>5, NoRowChange DEF MergeRace
    <2>2. ClientMoves(c) BY <1>0, <1>a, <1>5, <2>1, GotoWhy DEF MergeRace, PCs
    <2>3. RestOK' BY <1>5, RestStays DEF MergeRace, BudgetKeys
    <2> QED BY <1>5, <2>1, <2>2, <2>3, StepTypeInv DEF MergeRace
  <1>6. CASE Conflict(c)
    <2>1. RowStep BY <1>6, NoRowChange DEF Conflict
    <2>2. ClientMoves(c)
      <3>1. CASE cl' = [cl EXCEPT ![c].pc = "reset", ![c].why = "hardstop"]
        BY <1>0, <1>a, <2>1, <3>1, GotoWhy DEF PCs
      <3>2. CASE Goto(c, "intent") BY <1>0, <1>a, <2>1, <3>2, GotoPc DEF PCs
      <3> QED BY <1>6, <3>1, <3>2 DEF Conflict
    <2>3. RestOK' BY <1>6, RestStays DEF Conflict, BudgetKeys
    <2> QED BY <1>6, <2>1, <2>2, <2>3, StepTypeInv DEF Conflict
  <1>7. CASE TxnDead(c)
    <2>1. RowStep BY <1>7, NoRowChange DEF TxnDead
    <2>2. ClientMoves(c)
      <3>1. CASE Answer(c, "error") BY <3>1, AnswerMoves
      <3>2. CASE Goto(c, "terminalize") BY <1>0, <1>a, <2>1, <3>2, GotoPc DEF PCs
      <3> QED BY <1>7, <3>1, <3>2 DEF TxnDead
    <2>3. RestOK' BY <1>7, RestStays DEF TxnDead
    <2> QED BY <1>7, <2>1, <2>2, <2>3, StepTypeInv DEF TxnDead
  <1> QED BY <1>1, <1>2, <1>3, <1>4, <1>5, <1>6, <1>7

LEMMA B3RowSteps ==
  ASSUME TypeInv, NEW c \in Clients,
         Land(c) \/ LandAckLost(c) \/ FailClose(c) \/ Refuse(c) \/ RefuseUnchecked(c)
         \/ Terminalize(c) \/ ResetRow(c)
  PROVE  RowStep /\ TypeInv'
  <1>0. cl[c].pc # "idle" BY DEF Land, LandAckLost, FailClose, Refuse,
       RefuseUnchecked, Terminalize, ResetRow, InB3
  <1>a. /\ cl[c] \in ClientStates /\ cl[c].id \in Ids /\ cl[c].id \in Nat
        /\ cl[c].rounds < MaxRounds /\ cl \in [Clients -> ClientStates]
    BY <1>0, ClientFacts DEF TypeInv, ClientsOK, Land, LandAckLost, FailClose, Refuse,
       RefuseUnchecked, Terminalize, ResetRow, InB3
  <1>b. row[cl[c].id] \in Rows BY <1>a, RowTyped
  <1>c. ASSUME InB3(c, "exec"), LandingWrites(c)
        PROVE  RowStep /\ row'[cl[c].id].st = "Done" /\ root' \in {root, root + 1}
    <2> DEFINE r == MarkDone(row[cl[c].id])
    <2>1. r \in Rows /\ r.op = row[cl[c].id].op /\ r.succ = row[cl[c].id].succ
          /\ r.st = "Done"
      BY <1>b, RowForms
    <2>2. row' = [row EXCEPT ![cl[c].id] = r] BY <1>c DEF LandingWrites
    <2> HIDE DEF r
    <2>3. RowChange(cl[c].id, r)
      <3>1. LandsBy(c, cl[c].id) BY <1>c DEF LandingWrites, LandsBy
      <3> QED BY <1>c, <2>1, <2>2, <3>1 DEF RowChange, LandingWrites, Running
    <2>4. RowStep BY <1>a, <2>3, OneRowChange
    <2>5. row'[cl[c].id] = r BY <1>a, <2>2 DEF Ids, TypeInv, TableOK
    <2>6. root' \in {root, root + 1} BY <1>c DEF LandingWrites
    <2> QED BY <2>1, <2>4, <2>5, <2>6
  <1>d. ASSUME RowStep PROVE cl[c].id \in DOMAIN row' BY <1>a, <1>d, RowsStay
  <1>1. CASE Land(c)
    <2>1. RowStep /\ row'[cl[c].id].st = "Done" /\ root' \in {root, root + 1}
      BY <1>1, <1>c DEF Land
    <2>2. ClientMoves(c) BY <1>1, <1>d, <2>1, AnswerMoves DEF Land
    <2>3. RestOK'
      <3>1. log' = Append(log, cl[c].id) /\ lock' = NoOne BY <1>1 DEF Land, LandingWrites
      <3> QED BY <1>1, <1>a, <2>1, <3>1, RestStays DEF Land
    <2> QED BY <1>1, <2>1, <2>2, <2>3, StepTypeInv DEF Land
  <1>2. CASE LandAckLost(c)
    <2>1. RowStep /\ row'[cl[c].id].st = "Done" /\ root' \in {root, root + 1}
      BY <1>2, <1>c DEF LandAckLost
    <2>2. ClientMoves(c) BY <1>0, <1>2, <1>a, <2>1, GotoPc DEF LandAckLost, PCs
    <2>3. RestOK'
      <3>1. log' = Append(log, cl[c].id) /\ lock' = NoOne
        BY <1>2 DEF LandAckLost, LandingWrites
      <3> QED BY <1>2, <1>a, <2>1, <3>1, RestStays DEF LandAckLost, BudgetKeys
    <2> QED BY <1>2, <2>1, <2>2, <2>3, StepTypeInv DEF LandAckLost
  <1>3. CASE FailClose(c)
    <2>1. RowStep BY <1>3, <1>a, ConditionalUpdate DEF FailClose
    <2>2. ClientMoves(c) BY <1>0, <1>a, <1>3, <2>1, AnswerMoves DEF FailClose
    <2>3. RestOK' BY <1>3, RestStays DEF FailClose
    <2> QED BY <1>3, <2>1, <2>2, <2>3, StepTypeInv DEF FailClose
  <1>4. CASE Refuse(c)
    <2>1. RowStep
      <3> DEFINE r == MarkFailed(row[cl[c].id])
      <3>1. r \in Rows /\ r.op = row[cl[c].id].op /\ r.succ = row[cl[c].id].succ
            /\ r.st = "Failed"
        BY <1>b, RowForms
      <3>2. row' = [row EXCEPT ![cl[c].id] = r] BY <1>4 DEF Refuse
      <3> HIDE DEF r
      <3>3. RowChange(cl[c].id, r)
        BY <1>4, <3>1, <3>2 DEF RowChange, Refuse, Running, Active
      <3> QED BY <1>a, <3>3, OneRowChange
    <2>2. ClientMoves(c) BY <1>4, AnswerMoves DEF Refuse
    <2>3. RestOK' BY <1>4, RestStays DEF Refuse
    <2> QED BY <1>4, <2>1, <2>2, <2>3, StepTypeInv DEF Refuse
  <1>5. CASE RefuseUnchecked(c)
    <2>1. RowStep BY <1>5, <1>a, ConditionalUpdate DEF RefuseUnchecked
    <2>2. ClientMoves(c) BY <1>0, <1>a, <1>5, <2>1, AnswerMoves DEF RefuseUnchecked
    <2>3. RestOK' BY <1>5, RestStays DEF RefuseUnchecked
    <2> QED BY <1>5, <2>1, <2>2, <2>3, StepTypeInv DEF RefuseUnchecked
  <1>6. CASE Terminalize(c)
    <2>1. RowStep BY <1>6, <1>a, ConditionalUpdate DEF Terminalize
    <2>2. ClientMoves(c)
      <3>1. CASE Answer(c, "refused") BY <3>1, AnswerMoves
      <3>2. CASE WaitAgain(c) BY <1>0, <1>a, <2>1, <3>2, WaitAgainMoves
      <3> QED BY <1>6, <3>1, <3>2 DEF Terminalize
    <2>3. RestOK' BY <1>6, RestStays DEF Terminalize
    <2> QED BY <1>6, <2>1, <2>2, <2>3, StepTypeInv DEF Terminalize
  <1>7. CASE ResetRow(c)
    <2>1. RowStep BY <1>7, <1>a, ConditionalUpdate DEF ResetRow
    <2>2. ClientMoves(c)
      <3>1. CASE Answer(c, "error") BY <3>1, AnswerMoves
      <3>2. CASE WaitAgain(c) BY <1>0, <1>a, <2>1, <3>2, WaitAgainMoves
      <3> QED BY <1>7, <3>1, <3>2 DEF ResetRow
    <2>3. RestOK' BY <1>7, RestStays DEF ResetRow
    <2> QED BY <1>7, <2>1, <2>2, <2>3, StepTypeInv DEF ResetRow
  <1> QED BY <1>1, <1>2, <1>3, <1>4, <1>5, <1>6, <1>7

LEMMA B4Steps ==
  ASSUME TypeInv, NEW c \in Clients,
         PersistIntent(c) \/ CompleteRequeue(c), OneLive
  PROVE  RowStep /\ TypeInv'
  <1>0. cl[c].pc # "idle" BY DEF PersistIntent, CompleteRequeue, InB3
  <1>a. /\ cl[c] \in ClientStates /\ cl[c].id \in Ids /\ cl[c].id \in Nat
        /\ cl[c].rounds < MaxRounds /\ cl \in [Clients -> ClientStates]
    BY <1>0, ClientFacts DEF TypeInv, ClientsOK, PersistIntent, CompleteRequeue, InB3
  <1>b. row[cl[c].id] \in Rows BY <1>a, RowTyped
  <1>1. CASE PersistIntent(c)
    <2>1. RowStep
      <3>1. CASE row' = row BY <1>1, <3>1, NoRowChange DEF PersistIntent
      <3>2. CASE row' = [row EXCEPT ![cl[c].id].pend = TRUE]
        <4> DEFINE r == [row[cl[c].id] EXCEPT !.pend = TRUE]
        <4>1. r \in Rows /\ r.op = row[cl[c].id].op /\ r.succ = row[cl[c].id].succ
              /\ r.st = row[cl[c].id].st /\ r.exp = row[cl[c].id].exp
          BY <1>b DEF Rows
        <4>2. row' = [row EXCEPT ![cl[c].id] = r] BY <3>2
        <4> HIDE DEF r
        <4>3. RowChange(cl[c].id, r) BY <1>1, <4>1, <4>2 DEF RowChange, PersistIntent
        <4> QED BY <1>a, <4>3, OneRowChange
      <3> QED BY <1>1, <3>1, <3>2 DEF PersistIntent
    <2>2. ClientMoves(c)
      <3>1. CASE WaitAgain(c) BY <1>0, <1>a, <2>1, <3>1, WaitAgainMoves
      <3>2. CASE Goto(c, "complete") BY <1>0, <1>a, <2>1, <3>2, GotoPc DEF PCs
      <3>3. CASE Goto(c, "terminalize") BY <1>0, <1>a, <2>1, <3>3, GotoPc DEF PCs
      <3> QED BY <1>1, <3>1, <3>2, <3>3 DEF PersistIntent
    <2>3. RestOK' BY <1>1, RestStays DEF PersistIntent
    <2> QED BY <1>1, <2>1, <2>2, <2>3, StepTypeInv DEF PersistIntent
  <1>2. CASE CompleteRequeue(c)
    <2>1. RowStep
      <3>1. CASE row' = row BY <1>2, <3>1, NoRowChange DEF CompleteRequeue
      <3>2. CASE CanRequeue(cl[c].id) /\ row' = Requeue(row, cl[c].id)
        <4>1. Tidied(row, row) BY DEF Tidied, TypeInv, TableOK
        <4> QED BY <1>2, <1>a, <3>2, <4>1, RowRequeued DEF CompleteRequeue
      <3> QED BY <1>2, <3>1, <3>2 DEF CompleteRequeue
    <2>2. ClientMoves(c)
      <3>1. CASE WaitAgain(c) BY <1>0, <1>a, <2>1, <3>1, WaitAgainMoves
      <3>2. CASE cl' = [cl EXCEPT ![c].pc = "reset", ![c].why = "hardstop"]
        BY <1>0, <1>a, <2>1, <3>2, GotoWhy DEF PCs
      <3>3. CASE Goto(c, "terminalize") BY <1>0, <1>a, <2>1, <3>3, GotoPc DEF PCs
      <3> QED BY <1>2, <3>1, <3>2, <3>3 DEF CompleteRequeue
    <2>3. RestOK' BY <1>2, RestStays DEF CompleteRequeue
    <2> QED BY <1>2, <2>1, <2>2, <2>3, StepTypeInv DEF CompleteRequeue
  <1> QED BY <1>1, <1>2

LEMMA FaultSteps ==
  ASSUME TypeInv, (\E c \in Clients : SessionLost(c) \/ Crash(c)) \/ ReaperCrash
  PROVE  RowStep /\ TypeInv'
  <1>1. ASSUME NEW c \in Clients, SessionLost(c) PROVE RowStep /\ TypeInv'
    <2>1. RowStep BY <1>1, NoRowChange DEF SessionLost
    <2>2. RestOK' BY <1>1, RestStays DEF SessionLost, BudgetKeys
    <2> QED BY <1>1, <2>1, <2>2, StepTypeInv DEF SessionLost
  <1>2. ASSUME NEW c \in Clients, Crash(c) PROVE RowStep /\ TypeInv'
    <2>1. RowStep BY <1>2, NoRowChange DEF Crash
    <2>2. ClientMoves(c) BY <1>2, AnswerMoves DEF Crash
    <2>3. RestOK' BY <1>2, RestStays DEF Crash
    <2> QED BY <1>2, <2>1, <2>2, <2>3, StepTypeInv DEF Crash
  <1>3. CASE ReaperCrash
    <2>1. RowStep BY <1>3, NoRowChange DEF ReaperCrash
    <2>2. ReaperOK(rp', row') BY <1>3, IdleTyped DEF ReaperCrash, ReaperOK, IdleReaper
    <2>3. RestOK' BY <1>3, RestStays DEF ReaperCrash
    <2> QED BY <1>3, <2>1, <2>2, <2>3, StepTypeInv DEF ReaperCrash
  <1> QED BY <1>1, <1>2, <1>3

\* The cleanup alone, and after the conditional failure of one row.
LEMMA CleanupStep ==
  ASSUME TypeInv, row' = Cleanup(row), log' = log
  PROVE  RowStep
  <1>1. Tidied(row, row') BY CleanupTidies DEF TypeInv, TableOK
  <1>2. \A i \in Ids : row'[i].op = row[i].op /\ (Keeps(i) \/ Closes(i))
    BY <1>1 DEF Tidied, Ids, Keeps, Closes, Active
  <1> QED BY <1>1, <1>2, ManyRowsClose DEF Tidied

LEMMA FailAndCleanupStep ==
  ASSUME TypeInv, NEW i \in Ids, row' = Cleanup(IfRunning(i, MarkFailed(row[i]))),
         log' = log
  PROVE  RowStep
  <1> DEFINE r == IF row[i].st = "Running" THEN MarkFailed(row[i]) ELSE row[i]
             q == [row EXCEPT ![i] = r]
  <1>0. row \in Seq(Rows) BY DEF TypeInv, TableOK
  <1>1. row' = Cleanup(q) BY DEF IfRunning
  <1>2. r \in Rows /\ r.op = row[i].op /\ r.succ = row[i].succ
        /\ (r = row[i] \/ (row[i].st = "Running" /\ r.st = "Failed"))
    BY RowTyped, RowForms
  <1> HIDE DEF r
  <1>3. /\ q \in Seq(Rows) /\ Len(q) = Len(row) /\ DOMAIN q = Ids /\ q[i] = r
        /\ \A j \in Ids : j # i => q[j] = row[j]
    BY <1>0, <1>2, PutRow DEF Ids
  <1> HIDE DEF q
  <1>4. Tidied(q, row') BY <1>1, <1>3, CleanupTidies
  <1>5. \A j \in Ids :
          \/ row'[j] = q[j]
          \/ /\ q[j].st = "Queued" /\ row'[j].st = "Cancelled"
             /\ row'[j].op = q[j].op /\ row'[j].succ = q[j].succ
    BY <1>3, <1>4 DEF Tidied
  <1>6. \A j \in Ids : j # i => row'[j].op = row[j].op /\ (Keeps(j) \/ Closes(j))
    BY <1>3, <1>5 DEF Keeps, Closes, Active
  <1>7. row'[i].op = row[i].op /\ (Keeps(i) \/ Closes(i))
    BY <1>2, <1>3, <1>5 DEF Keeps, Closes, Active
  <1>8. row' \in Seq(Rows) /\ Len(row') = Len(row) BY <1>3, <1>4 DEF Tidied
  <1> QED BY <1>6, <1>7, <1>8, ManyRowsClose

LEMMA ReaperSteps ==
  ASSUME TypeInv, OneLive, ReaperStep
  PROVE  RowStep /\ TypeInv'
  <1>0. rp \in ReaperStates /\ hardStopped \in BOOLEAN
    BY DEF TypeInv, ReaperOK, RestOK
  <1>a. ASSUME rp' = IdleReaper PROVE ReaperOK(rp', row')
    BY <1>a, IdleTyped DEF ReaperOK, IdleReaper
  <1>1. CASE ReapBegin
    <2>1. RowStep BY <1>1, NoRowChange DEF ReapBegin
    <2>2. ReaperOK(rp', row')
      <3>1. PICK p \in {"locked", "lockless"} :
              rp' = [IdleReaper EXCEPT !.pc = p, !.hs = hardStopped]
        BY <1>1 DEF ReapBegin
      <3>2. rp' \in ReaperStates /\ rp'.pc = p
        BY <1>0, <3>1 DEF IdleReaper, ReaperStates
      <3> QED BY <3>1, <3>2 DEF ReaperOK
    <2>3. RestOK' BY <1>1, RestStays DEF ReapBegin
    <2> QED BY <1>1, <2>1, <2>2, <2>3, StepTypeInv DEF ReapBegin
  <1>2. CASE ReapLockless
    <2>1. RowStep BY <1>2, CleanupStep DEF ReapLockless
    <2>2. RestOK' BY <1>2, RestStays DEF ReapLockless
    <2> QED BY <1>2, <1>a, <2>1, <2>2, StepTypeInv DEF ReapLockless
  <1>3. CASE ReapScan
    <2>1. RowStep
      <3>1. CASE row' = row BY <1>3, <3>1, NoRowChange DEF ReapScan
      <3>2. CASE row' = Cleanup(row) BY <1>3, <3>2, CleanupStep DEF ReapScan
      <3> QED BY <1>3, <3>1, <3>2 DEF ReapScan
    <2>2. ReaperOK(rp', row')
      <3>1. CASE rp' = IdleReaper BY <1>a, <3>1
      <3>2. ASSUME NEW i \in Ids,
                   rp' = [rp EXCEPT !.pc = "reap", !.id = i,
                              !.ok = root = row[i].exp, !.pend = row[i].pend]
            PROVE  ReaperOK(rp', row')
        <4>1. i \in Nat /\ i \in DOMAIN row' BY <2>1, RowsStay DEF TypeInv, TableOK, Ids
        <4>2. row[i].pend \in BOOLEAN
          <5>1. row[i] \in Rows BY RowTyped
          <5> QED BY <5>1 DEF Rows
        <4>3. rp' \in ReaperStates /\ rp'.id = i
          BY <1>0, <3>2, <4>1, <4>2 DEF ReaperStates
        <4> QED BY <4>1, <4>3 DEF ReaperOK
      <3> QED BY <1>3, <3>1, <3>2 DEF ReapScan
    <2>3. RestOK' BY <1>3, RestStays DEF ReapScan
    <2> QED BY <1>3, <2>1, <2>2, <2>3, StepTypeInv DEF ReapScan
  <1>4. CASE ReapRow
    <2>0. rp.id \in Ids BY <1>4 DEF TypeInv, ReaperOK, ReapRow, Ids
    <2>1. RowStep
      <3>0. log' = log BY <1>4 DEF ReapRow
      <3>1. CASE row' = Cleanup(IfRunning(rp.id, MarkFailed(row[rp.id])))
        BY <2>0, <3>0, <3>1, FailAndCleanupStep
      <3>2. CASE row' = IfRunning(rp.id, ResetInTxn(row[rp.id]))
        BY <2>0, <3>0, <3>2, ConditionalUpdate
      <3>3. CASE CanRequeue(rp.id) /\ row' = Requeue(Cleanup(row), rp.id)
        <4>1. Tidied(row, Cleanup(row)) BY CleanupTidies DEF TypeInv, TableOK
        <4> QED BY <2>0, <3>0, <3>3, <4>1, RowRequeued
      <3>4. CASE row' = Cleanup(row) BY <3>0, <3>4, CleanupStep
      <3>5. CASE row' = row BY <3>0, <3>5, NoRowChange
      <3> QED BY <1>4, <3>1, <3>2, <3>3, <3>4, <3>5 DEF ReapRow
    <2>2. RestOK' BY <1>4, RestStays DEF ReapRow
    <2> QED BY <1>4, <1>a, <2>1, <2>2, StepTypeInv DEF ReapRow
  <1> QED BY <1>1, <1>2, <1>3, <1>4 DEF ReaperStep

LEMMA OperatorSteps ==
  ASSUME TypeInv, Operator \/ \E i \in Ids : Expire(i)
  PROVE  RowStep /\ TypeInv'
  <1>1. CASE Pause \/ Resume \/ ClearHardStop \/ BypassRootWrite
    <2>1. UNCHANGED <<row, log, cl, rp>>
      BY <1>1 DEF Pause, Resume, ClearHardStop, BypassRootWrite
    <2>2. RowStep BY <2>1, NoRowChange
    <2>3. RestOK'
      <3>1. CASE Pause BY <3>1, RestStays DEF Pause, BudgetKeys
      <3>2. CASE Resume BY <3>2, RestStays DEF Resume
      <3>3. CASE ClearHardStop BY <3>3, RestStays DEF ClearHardStop
      <3>4. CASE BypassRootWrite BY <3>4, RestStays DEF BypassRootWrite, BudgetKeys
      <3> QED BY <1>1, <3>1, <3>2, <3>3, <3>4
    <2> QED BY <2>1, <2>2, <2>3, StepTypeInv
  <1>2. ASSUME NEW i \in Ids, CancelQueued(i) \/ FreezeMerge(i) \/ Expire(i)
        PROVE  RowStep /\ TypeInv'
    <2>0. row[i] \in Rows BY RowTyped
    <2>1. PICK r : /\ row' = [row EXCEPT ![i] = r]
                   /\ r \in Rows /\ r.op = row[i].op /\ r.succ = row[i].succ
                   /\ row[i].st \in Active
                   /\ \/ r.st = row[i].st /\ r.exp = row[i].exp
                      \/ r.st \in {"Failed", "Cancelled"}
      <3>1. CASE CancelQueued(i)
        <4> DEFINE r == Cancel(row[i])
        <4>1. r \in Rows /\ r.op = row[i].op /\ r.succ = row[i].succ
              /\ r.st = "Cancelled"
          BY <2>0, RowForms
        <4>2. row' = [row EXCEPT ![i] = r] BY <3>1 DEF CancelQueued
        <4> HIDE DEF r
        <4> QED BY <3>1, <4>1, <4>2 DEF CancelQueued, Active
      <3>2. CASE FreezeMerge(i)
        <4> DEFINE r == MarkFailed(row[i])
        <4>1. r \in Rows /\ r.op = row[i].op /\ r.succ = row[i].succ
              /\ r.st = "Failed"
          BY <2>0, RowForms
        <4>2. row' = [row EXCEPT ![i] = r] BY <3>2 DEF FreezeMerge
        <4> HIDE DEF r
        <4> QED BY <3>2, <4>1, <4>2 DEF FreezeMerge
      <3>3. CASE Expire(i)
        <4> DEFINE r == [row[i] EXCEPT !.fresh = FALSE]
        <4>1. r \in Rows /\ r.op = row[i].op /\ r.succ = row[i].succ
              /\ r.st = row[i].st /\ r.exp = row[i].exp
          BY <2>0 DEF Rows
        <4>2. row' = [row EXCEPT ![i] = r] BY <3>3 DEF Expire
        <4> HIDE DEF r
        <4> QED BY <3>3, <4>1, <4>2 DEF Expire
      <3> QED BY <1>2, <3>1, <3>2, <3>3
    <2>2. log' = log /\ cl' = cl /\ rp' = rp
      BY <1>2 DEF CancelQueued, FreezeMerge, Expire
    <2>3. RowChange(i, r) BY <2>1, <2>2 DEF RowChange
    <2>4. RowStep BY <2>3, OneRowChange
    <2>5. RestOK'
      <3>1. CASE CancelQueued(i) BY <3>1, RestStays DEF CancelQueued, BudgetKeys
      <3>2. CASE FreezeMerge(i) BY <3>2, RestStays DEF FreezeMerge, BudgetKeys
      <3>3. CASE Expire(i) BY <3>3, RestStays DEF Expire
      <3> QED BY <1>2, <3>1, <3>2, <3>3
    <2> QED BY <2>2, <2>4, <2>5, StepTypeInv
  <1> QED BY <1>1, <1>2 DEF Operator

LEMMA NextSteps ==
  ASSUME TypeInv, OneLive, [Next]_vars
  PROVE  RowStep /\ TypeInv'
  <1>1. CASE Next
    <2>1. ASSUME NEW c \in Clients, ClientStep(c) PROVE RowStep /\ TypeInv'
      BY <2>1, WaitSteps, B3RowlessSteps, B3RowSteps, B4Steps DEF ClientStep
    <2>2. ASSUME NEW c \in Clients, Abandon(c) PROVE RowStep /\ TypeInv'
      BY <2>2, WaitSteps
    <2> QED BY <1>1, <2>1, <2>2, EnqueueSteps, FaultSteps, ReaperSteps, OperatorSteps
            DEF Next
  <1>2. CASE UNCHANGED vars
    <2>1. RowStep BY <1>2, NoRowChange DEF vars
    <2>2. RestOK' BY <1>2 DEF vars, TypeInv, RestOK
    <2> QED BY <1>2, <2>1, <2>2, StepTypeInv DEF vars
  <1> QED BY <1>1, <1>2

----------------------------------------------------------------------------
(* The safety invariants, from RowStep alone.                              *)

\* Nothing before a Running or Done row can still run: a claim takes the head
\* of the queue, and a row put back in the queue is still its head.
Fifo ==
  \A i, j \in Ids :
    i < j /\ row[j].st \in {"Running", "Done"} => row[i].st \notin Active

\* The log holds the Done rows.
LogOfDone ==
  /\ \A n \in DOMAIN log : log[n] \in Ids /\ row[log[n]].st = "Done"
  /\ DoneIffLanded

QueueInv == OneLive /\ Fifo /\ LogOfDone /\ LandingFIFO /\ SuccessorChain

Inv == TypeInv /\ QueueInv

\* A row of the new table is an old one, or the one appended.
LEMMA OldOrNew ==
  ASSUME TypeInv, RowStep, NEW j \in DOMAIN row'
  PROVE  /\ j \in Nat
         /\ \/ j \in Ids
            \/ /\ j = Len(row') /\ j \notin Ids /\ Grows
               /\ row'[j].st = "Queued" /\ row'[j].succ = 0
               /\ \A i \in Ids : row[i].op = row'[j].op
                                   => row'[i].st \in {"Failed", "Cancelled"}
               /\ \A i \in Ids : i < j
  <1>1. row \in Seq(Rows) /\ row' \in Seq(Rows) BY DEF TypeInv, TableOK, RowStep
  <1>2. CASE j \in Ids BY <1>1, <1>2 DEF Ids
  <1>3. CASE j \notin Ids
    <2>1. Len(row') # Len(row) BY <1>1, <1>3 DEF Ids
    <2>2. Grows BY <2>1 DEF RowStep
    <2>3. j = Len(row') BY <1>1, <1>3, <2>2 DEF Ids, Grows
    <2>4. \A i \in Ids : i < j BY <1>1, <2>2, <2>3 DEF Ids, Grows
    <2> QED BY <1>1, <1>3, <2>2, <2>3, <2>4 DEF Grows
  <1> QED BY <1>2, <1>3

\* A row is active, or Done, only if it was active before, or Done already.
LEMMA NoRevival ==
  ASSUME TypeInv, RowStep, NEW i \in Ids, row'[i].st \in Active \cup {"Done"}
  PROVE  row[i].st \in Active \cup {"Done"} /\ (row'[i].st \in Active => row[i].st \in Active)
  <1>1. CASE row[i].st \in Active BY <1>1
  <1>2. CASE row[i].st \notin Active BY <1>2, RowsStay
  <1> QED BY <1>1, <1>2

LEMMA OneLiveStep ==
  ASSUME TypeInv, OneLive, RowStep
  PROVE  OneLive'
  <1> SUFFICES ASSUME NEW i \in DOMAIN row', NEW j \in DOMAIN row',
                      row'[i].op = row'[j].op,
                      row'[i].st \in Active \cup {"Done"},
                      row'[j].st \in Active \cup {"Done"}
               PROVE  i = j
    BY DEF OneLive, Ids
  <1>1. CASE i \in Ids /\ j \in Ids
    <2>1. row[i].op = row[j].op BY <1>1 DEF RowStep
    <2> QED BY <1>1, <2>1, NoRevival DEF OneLive
  <1>2. CASE i \notin Ids /\ j \in Ids
    <2>1. row'[j].st \in {"Failed", "Cancelled"}
      BY <1>2, OldOrNew DEF RowStep
    <2> QED BY <2>1 DEF Active
  <1>3. CASE i \in Ids /\ j \notin Ids
    <2>1. row'[i].st \in {"Failed", "Cancelled"}
      BY <1>3, OldOrNew DEF RowStep
    <2> QED BY <2>1 DEF Active
  <1>4. CASE i \notin Ids /\ j \notin Ids BY <1>4, OldOrNew
  <1> QED BY <1>1, <1>2, <1>3, <1>4

LEMMA FifoStep ==
  ASSUME TypeInv, Fifo, RowStep
  PROVE  Fifo'
  <1> SUFFICES ASSUME NEW i \in DOMAIN row', NEW j \in DOMAIN row', i < j,
                      row'[j].st \in {"Running", "Done"}
               PROVE  row'[i].st \notin Active
    BY DEF Fifo, Ids
  <1>1. j \in Ids BY OldOrNew
  <1>2. i \in Ids BY <1>1, OldOrNew
  <1>3. row[i].st \notin Active
    <2>1. CASE row[j].st \in {"Running", "Done"} BY <1>1, <1>2, <2>1 DEF Fifo
    <2>2. CASE row[j].st \notin {"Running", "Done"}
      <3>1. Claims(j)
        BY <1>1, <2>2 DEF RowStep, Keeps, Closes, Requeues, Unclaims, Lands
      <3>2. row[i].st # "Running" BY <1>2, <3>1 DEF Claims, Claimable, Running
      <3>3. i \in Nat /\ j \in Nat BY OldOrNew
      <3>4. row[i].st # "Queued" BY <1>2, <3>1, <3>3 DEF Claims, Claimable
      <3> QED BY <3>2, <3>4 DEF Active
    <2> QED BY <2>1, <2>2
  <1> QED BY <1>2, <1>3, RowsStay

LEMMA LogOfDoneStep ==
  ASSUME TypeInv, LogOfDone, RowStep
  PROVE  LogOfDone'
  <1>0. log \in Seq(Nat) BY DEF TypeInv, RestOK
  <1>1. \A i \in Ids : row[i].st = "Done" => row'[i].st = "Done"
    BY RowsStay DEF Active
  <1>2. \A i \in Ids : i \in DOMAIN row' BY RowsStay
  <1>3. ASSUME NEW n \in DOMAIN log' PROVE log'[n] \in DOMAIN row' /\ row'[log'[n]].st = "Done"
    <2>1. CASE log' = log BY <1>1, <1>2, <1>3, <2>1 DEF LogOfDone
    <2>2. ASSUME NEW i \in Ids, Lands(i)
          PROVE  log'[n] \in DOMAIN row' /\ row'[log'[n]].st = "Done"
      <3>1. log' = Append(log, i) /\ row'[i].st = "Done" BY <2>2 DEF Lands
      <3>2. i \in Nat BY OldOrNew, <1>2
      <3>3. n \in DOMAIN log \/ n = Len(log) + 1 BY <1>0, <1>3, <3>1, <3>2
      <3>4. CASE n \in DOMAIN log
        <4>1. log'[n] = log[n] BY <1>0, <3>1, <3>4, <3>2
        <4> QED BY <1>1, <1>2, <3>4, <4>1 DEF LogOfDone
      <3>5. CASE n = Len(log) + 1
        <4>1. log'[n] = i BY <1>0, <3>1, <3>2, <3>5
        <4> QED BY <1>2, <3>1, <4>1
      <3> QED BY <3>3, <3>4, <3>5
    <2> QED BY <2>1, <2>2 DEF RowStep
  <1>4. ASSUME NEW i \in DOMAIN row', row'[i].st = "Done"
        PROVE  \E n \in DOMAIN log' : log'[n] = i
    <2>1. i \in Ids BY <1>4, OldOrNew
    <2>2. \A n \in DOMAIN log : n \in DOMAIN log' /\ log'[n] = log[n]
      <3>1. CASE log' = log BY <3>1
      <3>2. ASSUME NEW j \in Ids, Lands(j)
            PROVE  \A n \in DOMAIN log : n \in DOMAIN log' /\ log'[n] = log[n]
        <4>1. j \in Nat BY OldOrNew, <1>2
        <4> QED BY <1>0, <3>2, <4>1 DEF Lands
      <3> QED BY <3>1, <3>2 DEF RowStep
    <2>3. CASE row[i].st = "Done"
      <3>1. PICK n \in DOMAIN log : log[n] = i
        BY <2>1, <2>3 DEF LogOfDone, DoneIffLanded
      <3> QED BY <2>2, <3>1
    <2>4. CASE row[i].st # "Done"
      <3>1. Lands(i)
        BY <1>4, <2>1, <2>4 DEF RowStep, Keeps, Closes, Requeues, Unclaims, Claims
      <3>2. i \in Nat BY <1>4, OldOrNew
      <3>3. log' = Append(log, i) BY <3>1 DEF Lands
      <3>4. Len(log) + 1 \in DOMAIN log' /\ log'[Len(log) + 1] = i
        BY <1>0, <3>2, <3>3
      <3> QED BY <3>4
    <2> QED BY <2>3, <2>4
  <1> QED BY <1>3, <1>4 DEF LogOfDone, DoneIffLanded, Ids

LEMMA LandingFIFOStep ==
  ASSUME TypeInv, Fifo, LogOfDone, LandingFIFO, RowStep
  PROVE  LandingFIFO'
  <1>0. log \in Seq(Nat) /\ row \in Seq(Rows) BY DEF TypeInv, RestOK, TableOK
  <1>1. CASE log' = log BY <1>1 DEF LandingFIFO
  <1>2. ASSUME NEW i \in Ids, Lands(i) PROVE LandingFIFO'
    <2>1. log' = Append(log, i) /\ row[i].st = "Running" BY <1>2 DEF Lands
    <2>2. i \in Nat BY <1>0 DEF Ids
    <2>3. ASSUME NEW m \in DOMAIN log PROVE log[m] < i
      <3>1. log[m] \in Ids /\ row[log[m]].st = "Done" BY <2>3 DEF LogOfDone
      <3>2. ~(i < log[m]) BY <2>1, <3>1 DEF Fifo, Active
      <3>3. i # log[m] BY <2>1, <3>1
      <3>4. log[m] \in Nat BY <1>0, <3>1 DEF Ids
      <3> QED BY <2>2, <3>2, <3>3, <3>4
    <2>4. ASSUME NEW m \in DOMAIN log', NEW n \in DOMAIN log', m < n
          PROVE  log'[m] < log'[n]
      <3>1. m \in DOMAIN log /\ log'[m] = log[m] BY <1>0, <2>1, <2>2, <2>4
      <3>2. CASE n \in DOMAIN log
        <4>1. log'[n] = log[n] BY <1>0, <2>1, <2>2, <3>2
        <4> QED BY <2>4, <3>1, <3>2, <4>1 DEF LandingFIFO
      <3>3. CASE n \notin DOMAIN log
        <4>1. log'[n] = i BY <1>0, <2>1, <2>2, <2>4, <3>3
        <4> QED BY <2>3, <3>1, <4>1
      <3> QED BY <3>2, <3>3
    <2> QED BY <2>4 DEF LandingFIFO
  <1> QED BY <1>1, <1>2 DEF RowStep

LEMMA SuccessorChainStep ==
  ASSUME TypeInv, SuccessorChain, RowStep
  PROVE  SuccessorChain'
  <1>0. row \in Seq(Rows) /\ row' \in Seq(Rows) BY DEF TypeInv, TableOK, RowStep
  <1>1. ASSUME NEW i \in DOMAIN row', row'[i].succ # 0
        PROVE  i \in Ids /\ (\/ Requeues(i)
                             \/ (row'[i].succ = row[i].succ /\ row[i].succ # 0))
    <2>1. i \in Ids BY <1>1, OldOrNew
    <2> QED BY <1>1, <2>1 DEF RowStep, Keeps, Closes, Unclaims, Claims, Lands
  <1> SUFFICES ASSUME NEW i \in DOMAIN row', row'[i].succ # 0
               PROVE  /\ row'[i].st = "Cancelled"
                      /\ row'[i].succ \in DOMAIN row' /\ row'[i].succ > i
                      /\ row'[row'[i].succ].op = row'[i].op
                      /\ \A j \in DOMAIN row' : row'[j].succ = row'[i].succ => j = i
    BY DEF SuccessorChain, Ids
  <1>2. i \in Ids BY <1>1
  <1>3. CASE Requeues(i)
    <2>1. /\ row'[i].st = "Cancelled" /\ row'[i].succ = Len(row')
          /\ Len(row') = Len(row) + 1 /\ row'[Len(row')].op = row[i].op
      BY <1>3 DEF Requeues
    <2>2. row'[i].op = row[i].op BY <1>2 DEF RowStep
    <2>3. ASSUME NEW j \in DOMAIN row', row'[j].succ = row'[i].succ PROVE j = i
      <3>1. j \in Ids /\ (Requeues(j) \/ (row'[j].succ = row[j].succ /\ row[j].succ # 0))
        BY <1>1, <2>3
      <3>2. CASE Requeues(j) BY <1>2, <1>3, <3>1, <3>2 DEF RowStep
      <3>3. CASE row'[j].succ = row[j].succ /\ row[j].succ # 0
        <4>1. row[j].succ \in Ids BY <3>1, <3>3 DEF TypeInv, TableOK
        <4> QED BY <1>0, <2>1, <2>3, <3>3, <4>1 DEF Ids
      <3> QED BY <3>1, <3>2, <3>3
    <2> QED BY <1>0, <1>2, <2>1, <2>2, <2>3 DEF Ids
  <1>4. CASE row'[i].succ = row[i].succ /\ row[i].succ # 0
    <2>1. /\ row[i].st = "Cancelled" /\ row[i].succ \in Ids /\ row[i].succ > i
          /\ row[row[i].succ].op = row[i].op
          /\ \A j \in Ids : row[j].succ = row[i].succ => j = i
      BY <1>2, <1>4 DEF SuccessorChain
    <2>2. row'[i].st = "Cancelled" BY <1>2, <2>1, RowsStay DEF Active
    <2>3. row'[i].op = row[i].op /\ row'[row[i].succ].op = row[row[i].succ].op
      BY <1>2, <2>1 DEF RowStep
    <2>4. ASSUME NEW j \in DOMAIN row', row'[j].succ = row'[i].succ PROVE j = i
      <3>1. j \in Ids /\ (Requeues(j) \/ (row'[j].succ = row[j].succ /\ row[j].succ # 0))
        BY <1>1, <2>4
      <3>2. CASE Requeues(j)
        <4>1. row'[j].succ = Len(row) + 1 BY <3>2 DEF Requeues
        <4> QED BY <1>0, <1>4, <2>1, <2>4, <4>1 DEF Ids
      <3>3. CASE row'[j].succ = row[j].succ BY <1>4, <2>1, <2>4, <3>1, <3>3
      <3> QED BY <3>1, <3>2, <3>3
    <2> QED BY <1>2, <1>4, <2>1, <2>2, <2>3, <2>4, RowsStay
  <1> QED BY <1>1, <1>3, <1>4

LEMMA InitInv == Init => Inv
  <1> SUFFICES ASSUME Init PROVE Inv OBVIOUS
  <1>1. TypeInv BY InitType
  <1>2. Ids = {} /\ DOMAIN log = {} BY DEF Init, Ids
  <1>3. QueueInv
    BY <1>2 DEF QueueInv, OneLive, Fifo, LogOfDone, DoneIffLanded, LandingFIFO, SuccessorChain
  <1> QED BY <1>1, <1>3 DEF Inv

LEMMA NextInv == Inv /\ [Next]_vars => Inv' /\ RowStep
  <1> SUFFICES ASSUME Inv, [Next]_vars PROVE Inv' /\ RowStep OBVIOUS
  <1>0. TypeInv /\ OneLive /\ Fifo /\ LogOfDone /\ LandingFIFO /\ SuccessorChain
    BY DEF Inv, QueueInv
  <1>1. RowStep /\ TypeInv' BY <1>0, NextSteps
  <1>2. OneLive' BY <1>0, <1>1, OneLiveStep
  <1>3. Fifo' BY <1>0, <1>1, FifoStep
  <1>4. LogOfDone' BY <1>0, <1>1, LogOfDoneStep
  <1>5. LandingFIFO' BY <1>0, <1>1, LandingFIFOStep
  <1>6. SuccessorChain' BY <1>0, <1>1, SuccessorChainStep
  <1> QED BY <1>1, <1>2, <1>3, <1>4, <1>5, <1>6 DEF Inv, QueueInv

\* The inductive invariant holds in every reachable state.
THEOREM Invariance == Spec => []Inv
  BY InitInv, NextInv, PTL DEF Spec

\* The values of the table, of the control row and of the tasks keep their
\* types: in particular no round is started past MAX_ROUNDS.
THEOREM TypeCorrect == Spec => []TypeOK
  <1>1. Inv => TypeOK BY TypeInvTypeOK DEF Inv
  <1> QED BY Invariance, <1>1, PTL

\* Rows land in the order of their ids, for any number of clients, rows,
\* crashes, lost sessions, requeues and bypasses.
THEOREM LandsInOrder == Spec => []LandingFIFO
  <1>1. Inv => LandingFIFO BY DEF Inv, QueueInv
  <1> QED BY Invariance, <1>1, PTL

\* No two rows are Running together, although a claim takes no lock.
THEOREM OneRunning == Spec => []AtMostOneRunning
  <1>1. ASSUME Inv PROVE AtMostOneRunning
    <2> SUFFICES ASSUME NEW i \in Ids, NEW j \in Ids, Running(i), Running(j), i # j
                 PROVE  FALSE
      BY DEF AtMostOneRunning
    <2>1. Fifo /\ row \in Seq(Rows) BY <1>1 DEF Inv, QueueInv, TypeInv, TableOK
    <2>2. i < j \/ j < i BY <2>1 DEF Ids
    <2> QED BY <2>1, <2>2 DEF Fifo, Running, Active
  <1> QED BY Invariance, <1>1, PTL

\* An operation lands at most once, however often it is retried or requeued.
THEOREM LandsOnce == Spec => []LandsAtMostOnce
  <1>1. ASSUME Inv PROVE LandsAtMostOnce
    <2> SUFFICES ASSUME NEW m \in DOMAIN log, NEW n \in DOMAIN log,
                        row[log[m]].op = row[log[n]].op, m # n
                 PROVE  FALSE
      BY DEF LandsAtMostOnce
    <2>0. log \in Seq(Nat) BY <1>1 DEF Inv, TypeInv, RestOK
    <2>1. /\ log[m] \in Ids /\ row[log[m]].st = "Done"
          /\ log[n] \in Ids /\ row[log[n]].st = "Done"
      BY <1>1 DEF Inv, QueueInv, LogOfDone
    <2>2. log[m] = log[n] BY <1>1, <2>1 DEF Inv, QueueInv, OneLive
    <2>3. m < n \/ n < m BY <2>0
    <2>4. log[m] < log[n] \/ log[n] < log[m]
      BY <1>1, <2>3 DEF Inv, QueueInv, LandingFIFO
    <2>5. log[m] \in Nat /\ log[n] \in Nat BY <2>0
    <2> QED BY <2>2, <2>4, <2>5
  <1> QED BY Invariance, <1>1, PTL

\* Main's history is the queue's order with each operation in it at most once:
\* LandsInOrder and LandsOnce together.
THEOREM OnceAndInOrder == Spec => []LandsOnceInOrder
  BY LandsInOrder, LandsOnce, PTL DEF LandsOnceInOrder

\* Waiters that follow superseded_by stay with their operation and get to the
\* end of the chain.
THEOREM ChainsAreSound == Spec => []SuccessorChain
  <1>1. Inv => SuccessorChain BY DEF Inv, QueueInv
  <1> QED BY Invariance, <1>1, PTL

\* The Done rows of the table are exactly the rows that landed.
THEOREM TableAgreesWithMain == Spec => []DoneIffLanded
  <1>1. Inv => DoneIffLanded BY DEF Inv, QueueInv, LogOfDone
  <1> QED BY Invariance, <1>1, PTL

\* A client told "ok" has its row in main's history.
THEOREM OkIsTrue == Spec => []OkMeansLanded
  <1>1. ASSUME Inv PROVE OkMeansLanded
    <2> SUFFICES ASSUME NEW c \in Clients, cl[c].res = "ok"
                 PROVE  \E n \in DOMAIN log : log[n] = cl[c].id
      BY DEF OkMeansLanded
    <2>1. ClientOK(cl[c], row) BY <1>1 DEF Inv, TypeInv, ClientsOK
    <2>2. cl[c].id \in Ids /\ row[cl[c].id].st = "Done"
      BY <2>1 DEF ClientOK, Ids
    <2>3. DoneIffLanded BY <1>1 DEF Inv, QueueInv, LogOfDone
    <2> QED BY <2>2, <2>3 DEF DoneIffLanded
  <1> QED BY Invariance, <1>1, PTL

\* What a client and what the table say of an operation is true of main.
THEOREM AnswersTrue == Spec => []AnswersAreTrue
  BY OkIsTrue, TableAgreesWithMain, PTL DEF AnswersAreTrue

\* No step rewrites a terminal row.
THEOREM TerminalRowsAreFinal == Spec => TerminalIsFinal
  <1>1. ASSUME Inv, [Next]_vars
        PROVE  [\A i \in Ids : row[i].st \notin Active =>
                  row'[i].st = row[i].st /\ row'[i].succ = row[i].succ]_vars
    <2>1. TypeInv /\ RowStep BY <1>1, NextInv DEF Inv
    <2> QED BY <2>1, RowsStay
  <1> QED BY Invariance, <1>1, PTL DEF Spec, TerminalIsFinal

----------------------------------------------------------------------------
(* What B1 checks once holds ever after.                                   *)

LEMMA ActiveIsFinite == TypeInv => IsFiniteSet(ActiveIds) /\ Cardinality(ActiveIds) \in Nat
  <1> SUFFICES ASSUME TypeInv PROVE IsFiniteSet(ActiveIds) /\ Cardinality(ActiveIds) \in Nat
    OBVIOUS
  <1>1. Len(row) \in Nat /\ ActiveIds \subseteq 1..Len(row)
    BY DEF TypeInv, TableOK, ActiveIds, Ids
  <1>2. IsFiniteSet(1..Len(row)) BY <1>1, FS_Interval
  <1> QED BY <1>1, <1>2, FS_Subset, FS_CardinalityType

\* The active rows after a step: some of those before, and perhaps a new one,
\* which was admitted or takes the place of the row it supersedes.
LEMMA ActiveStep ==
  ASSUME TypeInv, RowStep
  PROVE  \/ ActiveIds' \subseteq ActiveIds
         \/ LET n == Len(row')
            IN  /\ n \notin Ids
                /\ \/ /\ ActiveIds' \subseteq ActiveIds \cup {n}
                      /\ ~Full /\ ~PathBusy(row'[n].op)
                   \/ \E i \in ActiveIds : /\ ActiveIds' \subseteq (ActiveIds \ {i}) \cup {n}
                                           /\ row'[n].op = row[i].op
  <1>0. row \in Seq(Rows) /\ row' \in Seq(Rows) BY DEF TypeInv, TableOK, RowStep
  <1>1. \A j \in ActiveIds' : j \in Ids => j \in ActiveIds
    <2> SUFFICES ASSUME NEW j \in DOMAIN row', row'[j].st \in Active, j \in Ids
                 PROVE  row[j].st \in Active
      BY DEF ActiveIds, Ids
    <2> QED BY NoRevival
  <1>2. CASE Len(row') = Len(row)
    <2>1. Ids' = Ids BY <1>0, <1>2 DEF Ids
    <2> QED BY <1>1, <2>1 DEF ActiveIds
  <1>3. CASE Len(row') # Len(row)
    <2> DEFINE n == Len(row')
    <2>1. Grows BY <1>3 DEF RowStep
    <2>2. n = Len(row) + 1 BY <2>1 DEF Grows
    <2>3. n \notin Ids /\ \A j \in ActiveIds' : j \in Ids \/ j = n
      BY <1>0, <2>2 DEF Ids, ActiveIds
    <2>4. ActiveIds' \subseteq ActiveIds \cup {n} BY <1>1, <2>3
    <2>5. CASE ~Full /\ ~PathBusy(row'[n].op) BY <2>3, <2>4, <2>5
    <2>6. ASSUME NEW i \in Ids, Requeues(i)
          PROVE  /\ i \in ActiveIds /\ row'[n].op = row[i].op
                 /\ ActiveIds' \subseteq (ActiveIds \ {i}) \cup {n}
      <3>1. i \in ActiveIds /\ row'[n].op = row[i].op BY <2>6 DEF Requeues, ActiveIds, Active
      <3>2. i \notin ActiveIds' BY <2>6 DEF Requeues, ActiveIds, Active
      <3> QED BY <2>4, <3>1, <3>2
    <2> QED BY <2>1, <2>3, <2>5, <2>6 DEF Grows
  <1> QED BY <1>2, <1>3

LEMMA AdmissionStep ==
  ASSUME TypeInv, TypeInv', AdmissionBounds, RowStep
  PROVE  AdmissionBounds'
  <1> DEFINE n == Len(row')
  <1>0. /\ IsFiniteSet(ActiveIds) /\ Cardinality(ActiveIds) \in Nat /\ MaxDepth \in Nat
        /\ IsFiniteSet(ActiveIds') /\ Cardinality(ActiveIds') \in Nat
    <2>1. Len(row') \in Nat /\ ActiveIds' \subseteq 1..Len(row')
      BY DEF TypeInv, TableOK, ActiveIds, Ids
    <2>2. IsFiniteSet(1..Len(row')) BY <2>1, FS_Interval
    <2>3. IsFiniteSet(ActiveIds') /\ Cardinality(ActiveIds') \in Nat
      BY <2>1, <2>2, FS_Subset, FS_CardinalityType
    <2> QED BY <2>3, ActiveIsFinite, ConstantsAssumption
  <1>a. Cardinality(ActiveIds) <= MaxDepth BY DEF AdmissionBounds
  <1>b. \A i \in ActiveIds : i \in Ids BY DEF ActiveIds
  <1>c. \A i \in Ids : row'[i].op = row[i].op BY DEF RowStep
  <1> HIDE DEF n
  <1>1. CASE ActiveIds' \subseteq ActiveIds
    <2>1. Cardinality(ActiveIds') <= MaxDepth
      <3>1. Cardinality(ActiveIds') <= Cardinality(ActiveIds) BY <1>0, <1>1, FS_Subset
      <3> QED BY <1>0, <1>a, <3>1
    <2>2. \A i, j \in ActiveIds' :
             Kind[row'[i].op] = "push" /\ Kind[row'[j].op] = "push"
             /\ Path[row'[i].op] = Path[row'[j].op] => i = j
      BY <1>1, <1>b, <1>c DEF AdmissionBounds
    <2> QED BY <2>1, <2>2 DEF AdmissionBounds
  <1>2. CASE n \notin Ids /\ ActiveIds' \subseteq ActiveIds \cup {n} /\ ~Full /\ ~PathBusy(row'[n].op)
    <2>1. Cardinality(ActiveIds') <= MaxDepth
      <3>1. /\ IsFiniteSet(ActiveIds \cup {n})
            /\ Cardinality(ActiveIds \cup {n}) = Cardinality(ActiveIds) + 1
        BY <1>0, <1>2, <1>b, FS_AddElement
      <3>2. Cardinality(ActiveIds') <= Cardinality(ActiveIds \cup {n}) BY <1>2, <3>1, FS_Subset
      <3>3. Cardinality(ActiveIds) < MaxDepth BY <1>0, <1>2 DEF Full
      <3> QED BY <1>0, <3>1, <3>2, <3>3
    <2>2. ASSUME NEW i \in ActiveIds', NEW j \in ActiveIds',
                 Kind[row'[i].op] = "push", Kind[row'[j].op] = "push",
                 Path[row'[i].op] = Path[row'[j].op]
          PROVE  i = j
      <3>1. CASE i \in ActiveIds /\ j \in ActiveIds
        BY <1>b, <1>c, <2>2, <3>1 DEF AdmissionBounds
      <3>2. CASE i = n /\ j \in ActiveIds
        BY <1>2, <1>b, <1>c, <2>2, <3>2 DEF PathBusy
      <3>3. CASE i \in ActiveIds /\ j = n
        BY <1>2, <1>b, <1>c, <2>2, <3>3 DEF PathBusy
      <3> QED BY <1>2, <3>1, <3>2, <3>3
    <2> QED BY <2>1, <2>2 DEF AdmissionBounds
  <1>3. ASSUME n \notin Ids, NEW k \in ActiveIds, row'[n].op = row[k].op,
               ActiveIds' \subseteq (ActiveIds \ {k}) \cup {n}
        PROVE  AdmissionBounds'
    <2>1. Cardinality(ActiveIds') <= MaxDepth
      <3>1. /\ IsFiniteSet(ActiveIds \ {k})
            /\ Cardinality(ActiveIds \ {k}) = Cardinality(ActiveIds) - 1
        BY <1>0, <1>3, FS_RemoveElement
      <3>2. n \notin ActiveIds \ {k} BY <1>3, <1>b
      <3>3. /\ IsFiniteSet((ActiveIds \ {k}) \cup {n})
            /\ Cardinality((ActiveIds \ {k}) \cup {n}) = Cardinality(ActiveIds \ {k}) + 1
        BY <3>1, <3>2, FS_AddElement
      <3>4. Cardinality(ActiveIds') <= Cardinality((ActiveIds \ {k}) \cup {n})
        BY <1>3, <3>3, FS_Subset
      <3> QED BY <1>0, <1>a, <3>1, <3>3, <3>4
    <2>2. ASSUME NEW i \in ActiveIds', NEW j \in ActiveIds',
                 Kind[row'[i].op] = "push", Kind[row'[j].op] = "push",
                 Path[row'[i].op] = Path[row'[j].op]
          PROVE  i = j
      <3>1. CASE i \in ActiveIds \ {k} /\ j \in ActiveIds \ {k}
        BY <1>b, <1>c, <2>2, <3>1 DEF AdmissionBounds
      <3>2. CASE i = n /\ j \in ActiveIds \ {k}
        BY <1>3, <1>b, <1>c, <2>2, <3>2 DEF AdmissionBounds
      <3>3. CASE i \in ActiveIds \ {k} /\ j = n
        BY <1>3, <1>b, <1>c, <2>2, <3>3 DEF AdmissionBounds
      <3> QED BY <1>3, <3>1, <3>2, <3>3
    <2> QED BY <2>1, <2>2 DEF AdmissionBounds
  <1> QED BY <1>1, <1>2, <1>3, ActiveStep DEF n

\* The queue never holds more than max_depth rows nor two pushes of one path:
\* enqueue (B1) checks both, and the requeue of B4, which does not, only puts a
\* row in the place of the one it closes.
THEOREM AdmissionHolds == Spec => []AdmissionBounds
  <1>1. Init => AdmissionBounds
    <2> SUFFICES ASSUME Init PROVE AdmissionBounds OBVIOUS
    <2>1. ActiveIds = {} BY DEF Init, ActiveIds, Ids
    <2> QED BY <2>1, FS_EmptySet, ConstantsAssumption DEF AdmissionBounds
  <1>2. Inv /\ Inv' /\ AdmissionBounds /\ [Next]_vars => AdmissionBounds'
    BY NextInv, AdmissionStep DEF Inv
  <1> QED BY Invariance, <1>1, <1>2, PTL DEF Spec

----------------------------------------------------------------------------
(* The baseline a round lands on.                                          *)

\* While a client executes under the lock the queue is not hard-stopped, and as
\* long as the root is the one it has read the row's baseline is that root too,
\* even if the row was reset and claimed again under it.
Baseline ==
  \A c \in Clients : InB3(c, "exec") =>
    /\ ~hardStopped
    /\ cl[c].base <= root
    /\ Running(cl[c].id) /\ root = cl[c].base => row[cl[c].id].exp = root

\* A client that executes under the lock has just begun, or went on.
Enters(c) == /\ cl'[c].base = root /\ root' = root /\ ~hardStopped'
             /\ row' = row /\ row[cl'[c].id].exp = root
Stays(c) == InB3(c, "exec") /\ cl'[c] = cl[c] /\ (hardStopped' => hardStopped)
ExecStep ==
  /\ root' \in {root, root + 1}
  /\ \A c \in Clients : InB3(c, "exec")' => Enters(c) \/ Stays(c)

LEMMA Unlocked ==
  ASSUME lock' \in {NoOne, Reaper}, root' \in {root, root + 1}
  PROVE  ExecStep
  BY ConstantsAssumption DEF ExecStep, InB3

LEMMA Untouched ==
  ASSUME cl' = cl, lock' \in {lock, NoOne, Reaper}, hardStopped' => hardStopped,
         root' \in {root, root + 1}
  PROVE  ExecStep
  BY ConstantsAssumption DEF ExecStep, InB3, Stays

\* A client moves to another place than the execution.
LEMMA Elsewhere ==
  ASSUME TypeInv, NEW d \in Clients, NEW s, cl' = [cl EXCEPT ![d] = s], s.pc # "exec",
         lock' \in {lock, NoOne}, UNCHANGED <<hardStopped, root>>
  PROVE  ExecStep
  <1>1. cl \in [Clients -> ClientStates] BY DEF TypeInv, ClientsOK
  <1>2. cl'[d] = s /\ \A c \in Clients : c # d => cl'[c] = cl[c] BY <1>1
  <1> QED BY <1>2, ConstantsAssumption DEF ExecStep, InB3, Stays

LEMMA AnsweredElsewhere ==
  ASSUME NEW i, NEW r
  PROVE  Answered(i, r).pc = "idle"
  BY DEF Answered, IdleClient

LEMMA MovesElsewhere ==
  ASSUME TypeInv, NEW d \in Clients, lock' \in {lock, NoOne}, UNCHANGED <<hardStopped, root>>,
         \/ \E r : Answer(d, r)
         \/ WaitAgain(d)
         \/ \E p \in PCs \ {"exec"} : Goto(d, p)
         \/ \E p \in PCs \ {"exec"} : \E w : cl' = [cl EXCEPT ![d].pc = p, ![d].why = w]
  PROVE  ExecStep
  <1>0. cl \in [Clients -> ClientStates] BY DEF TypeInv, ClientsOK
  <1>1. ASSUME NEW r, Answer(d, r) PROVE ExecStep
    BY <1>1, AnsweredElsewhere, Elsewhere DEF Answer
  <1>2. CASE WaitAgain(d)
    <2>1. CASE Answer(d, "error") BY <1>1, <2>1
    <2>2. CASE cl' = [cl EXCEPT ![d] = [IdleClient EXCEPT !.pc = "wait", !.id = cl[d].id,
                                                          !.rounds = cl[d].rounds + 1]]
      <3> DEFINE s == [IdleClient EXCEPT !.pc = "wait", !.id = cl[d].id, !.rounds = cl[d].rounds + 1]
      <3>1. s.pc = "wait" BY DEF IdleClient
      <3>2. cl' = [cl EXCEPT ![d] = s] BY <2>2
      <3> HIDE DEF s
      <3> QED BY <3>1, <3>2, Elsewhere
    <2> QED BY <1>2, <2>1, <2>2 DEF WaitAgain
  <1>3. ASSUME NEW p \in PCs \ {"exec"}, Goto(d, p) PROVE ExecStep
    <2> DEFINE s == [cl[d] EXCEPT !.pc = p]
    <2>1. s.pc = p /\ cl' = [cl EXCEPT ![d] = s] BY <1>0, <1>3 DEF Goto, ClientStates
    <2> HIDE DEF s
    <2> QED BY <2>1, Elsewhere
  <1>4. ASSUME NEW p \in PCs \ {"exec"}, NEW w, cl' = [cl EXCEPT ![d].pc = p, ![d].why = w]
        PROVE  ExecStep
    <2> DEFINE s == [cl[d] EXCEPT !.pc = p, !.why = w]
    <2>0. "pc" \in DOMAIN cl[d] /\ DOMAIN cl = Clients BY <1>0 DEF ClientStates
    <2>1. s.pc = p BY <2>0
    <2>2. cl' = [cl EXCEPT ![d] = s] BY <1>4, <2>0
    <2> HIDE DEF s
    <2> QED BY <2>1, <2>2, Elsewhere
  <1> QED BY <1>1, <1>2, <1>3, <1>4

LEMMA EnqueueExec ==
  ASSUME TypeInv, NEW c \in Clients, NEW o \in Ops,
         EnqueueInsert(c, o) \/ EnqueueAdopt(c, o) \/ EnqueueReject(c, o)
  PROVE  ExecStep
  <1>1. UNCHANGED <<hardStopped, root, lock>> BY DEF EnqueueInsert, EnqueueAdopt, EnqueueReject
  <1>2. ASSUME NEW i, NEW r, cl' = [cl EXCEPT ![c] = Answered(i, r)] PROVE ExecStep
    BY <1>1, <1>2, AnsweredElsewhere, Elsewhere
  <1>3. ASSUME NEW i, cl' = [cl EXCEPT ![c] = [IdleClient EXCEPT !.pc = "wait", !.id = i]]
        PROVE  ExecStep
    <2> DEFINE s == [IdleClient EXCEPT !.pc = "wait", !.id = i]
    <2>1. s.pc = "wait" /\ cl' = [cl EXCEPT ![c] = s] BY <1>3 DEF IdleClient
    <2> HIDE DEF s
    <2> QED BY <1>1, <2>1, Elsewhere
  <1> QED BY <1>2, <1>3 DEF EnqueueInsert, EnqueueAdopt, EnqueueReject

LEMMA WaitExec ==
  ASSUME TypeInv, NEW c \in Clients, Observe(c) \/ Abandon(c) \/ Claim(c) \/ GiveUp(c)
  PROVE  ExecStep
  <1>1. UNCHANGED <<hardStopped, root, lock>> BY DEF Observe, Abandon, Claim, GiveUp
  <1>2. CASE Observe(c)
    <2>0. cl[c] \in ClientStates /\ cl \in [Clients -> ClientStates] BY DEF TypeInv, ClientsOK
    <2>1. CASE \E r : Answer(c, r) BY <1>1, <2>1, MovesElsewhere
    <2>2. CASE cl' = [cl EXCEPT ![c].id = row[cl[c].id].succ, ![c].seen = FALSE]
      <3> DEFINE s == [cl[c] EXCEPT !.id = row[cl[c].id].succ, !.seen = FALSE]
      <3>1. s.pc = "wait" /\ cl' = [cl EXCEPT ![c] = s] BY <1>2, <2>0, <2>2 DEF ClientStates, Observe
      <3> HIDE DEF s
      <3> QED BY <1>1, <3>1, Elsewhere
    <2>3. CASE cl' = [cl EXCEPT ![c].pc = "claim", ![c].seen = @ \/ row[cl[c].id].st = "Running"]
      <3> DEFINE s == [cl[c] EXCEPT !.pc = "claim", !.seen = @ \/ row[cl[c].id].st = "Running"]
      <3>1. s.pc = "claim" /\ cl' = [cl EXCEPT ![c] = s] BY <2>0, <2>3 DEF ClientStates
      <3> HIDE DEF s
      <3> QED BY <1>1, <3>1, Elsewhere
    <2> QED BY <1>2, <2>1, <2>2, <2>3 DEF Observe, AnswerFromWait
  <1>3. CASE Claim(c)
    <2>1. Goto(c, "lock") \/ Goto(c, "wait") BY <1>3 DEF Claim
    <2> QED BY <1>1, <2>1, MovesElsewhere DEF PCs
  <1>4. CASE Abandon(c) \/ GiveUp(c)
    <2>1. Answer(c, "error") BY <1>4 DEF Abandon, GiveUp
    <2> QED BY <1>1, <2>1, MovesElsewhere
  <1> QED BY <1>2, <1>3, <1>4

LEMMA BeginExec ==
  ASSUME TypeInv, NEW c \in Clients, B3Begin(c)
  PROVE  ExecStep
  <1>0. cl \in [Clients -> ClientStates] BY DEF TypeInv, ClientsOK
  <1>1. UNCHANGED <<row, hardStopped, root>> BY DEF B3Begin
  <1>2. CASE WaitAgain(c) /\ UNCHANGED lock BY <1>1, <1>2, MovesElsewhere
  <1>3. CASE cl' = [cl EXCEPT ![c].pc = "reset", ![c].why = "hardstop"] /\ UNCHANGED lock
    BY <1>1, <1>3, MovesElsewhere DEF PCs
  <1>4. CASE /\ ~hardStopped /\ OnBaseline(row[cl[c].id])
             /\ cl' = [cl EXCEPT ![c].pc = "exec", ![c].base = root] /\ lock' = c
    <2>1. cl'[c].base = root /\ cl'[c].id = cl[c].id BY <1>0, <1>4 DEF ClientStates
    <2>2. Enters(c) BY <1>1, <1>4, <2>1 DEF Enters, OnBaseline
    <2> QED BY <1>1, <1>4, <2>2 DEF ExecStep, InB3
  <1>5. CASE cl' = [cl EXCEPT ![c].pc = "failclose", ![c].why = "baseline"] /\ lock' = c
    <2>1. cl'[c].pc = "failclose" BY <1>0, <1>5 DEF ClientStates
    <2> QED BY <1>1, <1>5, <2>1 DEF ExecStep, InB3
  <1> QED BY <1>2, <1>3, <1>4, <1>5 DEF B3Begin

LEMMA RoundExec ==
  ASSUME TypeInv, NEW c \in Clients,
         \/ Land(c) \/ LandAckLost(c) \/ LoseClaim(c) \/ CasMiss(c) \/ FailClose(c) \/ Refuse(c)
         \/ RefuseUnchecked(c) \/ ErrAbort(c) \/ Terminalize(c) \/ MergeRace(c) \/ ResetRow(c)
         \/ Conflict(c) \/ PersistIntent(c) \/ CompleteRequeue(c) \/ TxnDead(c)
  PROVE  ExecStep
  <1>1. CASE Land(c) \/ LandAckLost(c) BY <1>1, Unlocked DEF Land, LandAckLost, LandingWrites
  <1>2. CASE \/ LoseClaim(c) \/ FailClose(c) \/ Refuse(c) \/ RefuseUnchecked(c) \/ ErrAbort(c)
             \/ MergeRace(c) \/ CompleteRequeue(c)
    BY <1>2, Unlocked DEF LoseClaim, FailClose, Refuse, RefuseUnchecked, ErrAbort, MergeRace,
                          CompleteRequeue
  <1>3. CASE CasMiss(c)
    <2>1. /\ UNCHANGED <<hardStopped, root, lock>>
          /\ cl' = [cl EXCEPT ![c].pc = "failclose", ![c].why = "cas"]
      BY <1>3 DEF CasMiss
    <2> QED BY <2>1, MovesElsewhere DEF PCs
  <1>4. CASE Terminalize(c) \/ ResetRow(c)
    <2>1. /\ UNCHANGED <<hardStopped, root, lock>>
          /\ WaitAgain(c) \/ \E r : Answer(c, r)
      BY <1>4 DEF Terminalize, ResetRow
    <2> QED BY <2>1, MovesElsewhere
  <1>5. CASE Conflict(c)
    <2>1. /\ UNCHANGED <<hardStopped, root>> /\ lock' \in {lock, NoOne}
          /\ \/ cl' = [cl EXCEPT ![c].pc = "reset", ![c].why = "hardstop"]
             \/ Goto(c, "intent")
      BY <1>5 DEF Conflict
    <2> QED BY <2>1, MovesElsewhere DEF PCs
  <1>6. CASE PersistIntent(c)
    <2>1. /\ UNCHANGED <<hardStopped, root>> /\ lock' \in {lock, NoOne}
          /\ WaitAgain(c) \/ Goto(c, "complete") \/ Goto(c, "terminalize")
      BY <1>6 DEF PersistIntent
    <2> QED BY <2>1, MovesElsewhere DEF PCs
  <1>7. CASE TxnDead(c)
    <2>1. /\ UNCHANGED <<hardStopped, root, lock>>
          /\ (\E r : Answer(c, r)) \/ Goto(c, "terminalize")
      BY <1>7 DEF TxnDead
    <2> QED BY <2>1, MovesElsewhere DEF PCs
  <1> QED BY <1>1, <1>2, <1>3, <1>4, <1>5, <1>6, <1>7

LEMMA OtherExec ==
  ASSUME TypeInv,
         \/ \E c \in Clients : SessionLost(c) \/ Crash(c)
         \/ ReaperStep \/ ReaperCrash \/ Operator \/ (\E i \in Ids : Expire(i)) \/ UNCHANGED vars
  PROVE  ExecStep
  <1>1. ASSUME NEW c \in Clients, SessionLost(c) PROVE ExecStep
    BY <1>1, Unlocked DEF SessionLost
  <1>2. ASSUME NEW c \in Clients, Crash(c) PROVE ExecStep
    <2>1. Answer(c, "error") /\ lock' \in {lock, NoOne} /\ UNCHANGED <<hardStopped, root>>
      BY <1>2 DEF Crash
    <2> QED BY <2>1, MovesElsewhere
  <1>3. CASE ReapRow BY <1>3, Unlocked DEF ReapRow
  <1>4. CASE ReapBegin \/ ReapLockless \/ ReapScan \/ ReaperCrash
    <2>1. lock' \in {lock, NoOne, Reaper} /\ UNCHANGED <<cl, hardStopped, root>>
      BY <1>4 DEF ReapBegin, ReapLockless, ReapScan, ReaperCrash
    <2> QED BY <2>1, Untouched
  <1>5. CASE Operator
    <2>1. UNCHANGED <<cl, lock>> /\ root' \in {root, root + 1}
      BY <1>5 DEF Operator, Pause, Resume, ClearHardStop, BypassRootWrite, CancelQueued,
                  FreezeMerge
    <2>2. hardStopped' = hardStopped \/ ~hardStopped'
      BY <1>5 DEF Operator, Pause, Resume, ClearHardStop, BypassRootWrite, CancelQueued,
                  FreezeMerge
    <2> QED BY <2>1, <2>2, Untouched
  <1>6. CASE (\E i \in Ids : Expire(i)) \/ UNCHANGED vars BY <1>6, Untouched DEF Expire, vars
  <1> QED BY <1>1, <1>2, <1>3, <1>4, <1>5, <1>6 DEF ReaperStep

LEMMA NextExec ==
  ASSUME TypeInv, [Next]_vars
  PROVE  ExecStep
  <1>1. ASSUME NEW c \in Clients, ClientStep(c) \/ Abandon(c) PROVE ExecStep
    BY <1>1, WaitExec, BeginExec, RoundExec DEF ClientStep
  <1> QED BY <1>1, EnqueueExec, OtherExec DEF Next

LEMMA BaselineStep ==
  ASSUME TypeInv, Baseline, RowStep, ExecStep
  PROVE  Baseline'
  <1>0. root \in Nat /\ cl \in [Clients -> ClientStates] BY DEF TypeInv, RestOK, ClientsOK
  <1>1. root' \in Nat /\ root <= root' BY <1>0 DEF ExecStep
  <1> SUFFICES ASSUME NEW c \in Clients, InB3(c, "exec")'
               PROVE  /\ ~hardStopped'
                      /\ cl'[c].base <= root'
                      /\ Running(cl[c].id)' /\ root' = cl'[c].base => row'[cl'[c].id].exp = root'
    BY DEF Baseline
  <1>2. CASE Enters(c) BY <1>0, <1>2 DEF Enters
  <1>3. CASE Stays(c)
    <2>1. /\ cl'[c] = cl[c] /\ InB3(c, "exec") /\ ~hardStopped' /\ cl[c].base <= root
          /\ Running(cl[c].id) /\ root = cl[c].base => row[cl[c].id].exp = root
      BY <1>3 DEF Stays, Baseline
    <2>2. cl[c].id \in Ids /\ cl[c].base \in Nat
      BY <1>0, <2>1, ClientFacts DEF InB3, ClientStates
    <2>3. ASSUME row'[cl[c].id].st = "Running", root' = cl[c].base
          PROVE  row'[cl[c].id].exp = root'
      <3>1. root = root' /\ root = cl[c].base BY <1>0, <1>1, <2>1, <2>2, <2>3
      <3>2. Keeps(cl[c].id) \/ Claims(cl[c].id)
        BY <2>2, <2>3 DEF RowStep, Closes, Requeues, Unclaims, Lands
      <3>3. CASE Claims(cl[c].id) BY <3>3 DEF Claims
      <3>4. CASE Keeps(cl[c].id) BY <2>1, <2>3, <3>1, <3>4 DEF Keeps, Running
      <3> QED BY <3>2, <3>3, <3>4
    <2> QED BY <1>0, <1>1, <2>1, <2>2, <2>3 DEF Running
  <1> QED BY <1>2, <1>3 DEF ExecStep

\* A round of execute_b3 lands on the root that the claim recorded in its row
\* (expected_commit_hash) and not under a hard stop, although the row may have been
\* reset and claimed again, and the root moved, since the claim.
THEOREM LandingsAreOnBaseline == Spec => LandsOnBaseline
  <1>1. Init => Baseline BY ConstantsAssumption DEF Init, Baseline, InB3
  <1>2. Inv /\ Baseline /\ [Next]_vars => Baseline'
    BY NextInv, NextExec, BaselineStep DEF Inv
  <1>3. ASSUME Inv, Baseline, [Next]_vars
        PROVE  [\A i \in Ids : row[i].st = "Running" /\ row'[i].st = "Done" =>
                  /\ ~hardStopped
                  /\ Kind[row[i].op] # "attach" => root = row[i].exp]_vars
    <2> SUFFICES ASSUME NEW i \in Ids, row[i].st = "Running", row'[i].st = "Done"
                 PROVE  ~hardStopped /\ (Kind[row[i].op] # "attach" => root = row[i].exp)
      OBVIOUS
    <2>1. RowStep BY <1>3, NextInv
    <2>2. Lands(i) BY <2>1 DEF RowStep, Keeps, Closes, Requeues, Unclaims, Claims
    <2>3. PICK c \in Clients : LandsBy(c, i) BY <2>2 DEF Lands
    <2> QED BY <1>3, <2>3 DEF LandsBy, Baseline, Running
  <1> QED BY Invariance, <1>1, <1>2, <1>3, PTL DEF Spec, LandsOnBaseline

----------------------------------------------------------------------------
(* The queue implements the ticket log.                                    *)

LEMMA InitTrunk == Init => Trunk!Init
  <1> SUFFICES ASSUME Init PROVE Trunk!Init OBVIOUS
  <1>1. Ids = {} /\ log = <<>> BY DEF Init, Ids
  <1>2. ActiveIds = {} BY <1>1 DEF ActiveIds
  <1>3. [i \in Ids |-> row[i].op] = <<>> BY <1>1
  <1> QED BY <1>1, <1>2, <1>3 DEF Trunk!Init

LEMMA NextTrunk == Inv /\ [Next]_vars => [Trunk!Next]_(Trunk!tvars)
  <1> SUFFICES ASSUME Inv, [Next]_vars PROVE Trunk!Next \/ UNCHANGED Trunk!tvars
    OBVIOUS
  <1> DEFINE tickets == [i \in Ids |-> row[i].op]
  <1>0. /\ TypeInv /\ RowStep /\ Fifo /\ LogOfDone
        /\ row \in Seq(Rows) /\ row' \in Seq(Rows)
    BY NextInv DEF Inv, QueueInv, TypeInv, TableOK, RowStep
  <1>1. \A i \in ActiveIds' : i \in Ids => i \in ActiveIds
    <2> SUFFICES ASSUME NEW i \in DOMAIN row', row'[i].st \in Active, i \in Ids
                 PROVE  row[i].st \in Active
      BY DEF ActiveIds, Ids
    <2> QED BY <1>0, NoRevival
  <1>2. CASE Len(row') = Len(row)
    <2>1. Ids' = Ids BY <1>0, <1>2 DEF Ids
    <2>2. tickets' = tickets BY <1>0, <2>1 DEF RowStep
    <2>3. ActiveIds' \subseteq ActiveIds BY <1>1, <2>1 DEF ActiveIds
    <2>4. CASE log' = log
      <3>1. ActiveIds' = ActiveIds \ (ActiveIds \ ActiveIds') BY <2>3
      <3>2. ActiveIds \ ActiveIds' \in SUBSET ActiveIds OBVIOUS
      <3>3. Trunk!Close BY <2>2, <2>4, <3>1, <3>2 DEF Trunk!Close
      <3> QED BY <3>3 DEF Trunk!Next
    <2>5. ASSUME NEW i \in Ids, Lands(i), \A j \in Ids : j # i => Keeps(j)
          PROVE  Trunk!Next
      <3>1. row[i].st = "Running" /\ row'[i].st = "Done" /\ log' = Append(log, i)
        BY <2>5 DEF Lands
      <3>2. i \in ActiveIds BY <2>5, <3>1 DEF ActiveIds, Active
      <3>3. \A u \in ActiveIds : i <= u
        BY <1>0, <2>5, <3>1 DEF ActiveIds, Fifo, Ids
      <3>4. ActiveIds' = ActiveIds \ {i}
        BY <2>1, <2>5, <3>1 DEF ActiveIds, Keeps, Active
      <3>5. Trunk!Land(i) BY <2>2, <3>1, <3>2, <3>3, <3>4 DEF Trunk!Land
      <3> QED BY <3>2, <3>5 DEF Trunk!Next
    <2> QED BY <1>0, <2>4, <2>5 DEF RowStep
  <1>3. CASE Len(row') # Len(row)
    <2>0. Grows /\ log' = log BY <1>0, <1>3 DEF RowStep
    <2> DEFINE n == Len(row) + 1
               S == ActiveIds \ ActiveIds'
    <2>a. Len(row') = n /\ n \in Nat BY <1>0, <2>0 DEF Grows
    <2>1. PICK o \in Ops : o = row'[n].op
      <3>1. row'[n] \in Rows BY <1>0, <2>a
      <3>2. row'[n].op \in Ops BY <3>1 DEF Rows
      <3> QED BY <3>2
    <2>2. /\ Len(row') = n /\ n \in Nat /\ Ids = 1..Len(row) /\ Ids' = 1..n
          /\ row'[n].st = "Queued"
          /\ \A i \in Ids : row[i].op = o => row'[i].st \in {"Failed", "Cancelled"}
      BY <1>0, <2>0, <2>1 DEF Grows, Ids
    <2>3. \A t \in ActiveIds \ S : tickets[t] # o
      BY <2>2 DEF ActiveIds, Active
    <2>4. \A m \in DOMAIN log : tickets[log[m]] # o
      <3> SUFFICES ASSUME NEW m \in DOMAIN log, row[log[m]].op = o PROVE FALSE
        BY <1>0 DEF LogOfDone
      <3>1. log[m] \in Ids /\ row[log[m]].st = "Done" BY <1>0 DEF LogOfDone
      <3>2. row'[log[m]].st = "Done" BY <1>0, <3>1, RowsStay DEF Active
      <3> QED BY <2>2, <3>1, <3>2
    <2>5. tickets' = Append(tickets, o)
      <3>1. \A i \in Ids : row'[i].op = row[i].op BY <1>0 DEF RowStep
      <3>2. \A i \in Ids : row[i].op \in Ops BY <1>0, RowTyped
      <3>3. tickets \in Seq(Ops) /\ Len(tickets) = Len(row) BY <2>2, <3>2
      <3>4. tickets' = [i \in 1..n |-> row'[i].op] BY <2>2
      <3>5. Append(tickets, o) = [i \in 1..n |-> row'[i].op]
        BY <2>2, <2>1, <3>1, <3>3
      <3> QED BY <3>4, <3>5
    <2>6. ActiveIds' = (ActiveIds \ S) \cup {Len(tickets) + 1}
      <3>1. Len(tickets) = Len(row) BY <2>2
      <3>2. n \in ActiveIds' BY <2>2 DEF ActiveIds, Active
      <3>3. \A i \in ActiveIds' : i \in Ids \/ i = n BY <2>2 DEF ActiveIds
      <3> QED BY <1>1, <3>1, <3>2, <3>3
    <2>7. S \in SUBSET ActiveIds OBVIOUS
    <2> HIDE DEF S, n
    <2>8. Trunk!Draw(o) BY <2>0, <2>3, <2>4, <2>5, <2>6, <2>7 DEF Trunk!Draw
    <2> QED BY <2>8 DEF Trunk!Next
  <1> QED BY <1>2, <1>3

\* The detailed queue implements the abstract one.
THEOREM Refinement == Spec => ImplementsTrunkLog
  BY InitTrunk, NextTrunk, Invariance, PTL DEF Spec, ImplementsTrunkLog, Trunk!Spec

=============================================================================
