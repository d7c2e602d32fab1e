------------------------ MODULE RestrictedRoot_proofs -----------------------
(***************************************************************************)
(* Proofs about RestrictedRoot, for any digests, limits and bounds.  The    *)
(* inductive invariant says which record a command keeps at each of its     *)
(* steps (Shape), what the files hold (Files), what a promotion and a sweep *)
(* rely on between their steps (Fences), that the ledger accounts for every *)
(* reservation once (Accounts), and which reservation belongs to which      *)
(* command or capability (Owners).                                          *)
(***************************************************************************)
EXTENDS RestrictedRoot, SequenceTheorems, FiniteSetTheorems, TLAPS

Reservation == [id : Ops, kind : Producers, payload : Digests \cup {None}, at : Int]
Tomb == [id : Ops, at : Int]

FileCommand ==
  [pc : {"version", "pointer", "settle", "manifest", "commit", "mkdir", "rmdir", "abort", "claim"},
   kind : Producers, now : Int, op : Nat,
   d : Digests \cup {None}, fence : Digests \cup {None}]
SweepCommand ==
  [pc : {"sweep", "claim"}, kind : {"report"}, now : Int, op : Nat,
   plan : [versions : SUBSET Digests, runs : SUBSET Ops]]

\* What a command carries, and for which commands a step exists.
Shape ==
  /\ cmd \in {Idle} \cup FileCommand \cup SweepCommand
  /\ cmd.pc \in {"version", "pointer", "settle"} => cmd.kind = "promote" /\ cmd.d \in Digests
  /\ cmd.pc = "manifest" => cmd.kind \in {"protect", "unprotect"} /\ cmd.d \in Digests
  /\ cmd.pc = "commit" => cmd.kind \in {"promote", "protect", "unprotect", "run"}
  /\ cmd.pc = "mkdir" => cmd.kind \in {"run", "evidence"}
  /\ cmd.pc \in {"rmdir", "abort"} => cmd.kind = "evidence"
  /\ hour \in Nat

Files ==
  /\ pointer \in Digests \cup {None} /\ manifest \subseteq Digests
  /\ versions \in Seq(Digests) /\ IsInjective(versions)
  /\ runs \in Seq(Ops) /\ IsInjective(runs)
  /\ evidence \cup temps \subseteq ToSet(runs) /\ caps \subseteq Ops
  /\ CurrentResolves

\* The pointer a promotion checked is still there when it switches it, to a
\* version that is there; a sweep's plan spares what is protected now.
Fences ==
  /\ cmd.pc \in {"version", "pointer"} => pointer = cmd.d \/ pointer = cmd.fence
  /\ cmd.pc = "pointer" => cmd.d \in ToSet(versions)
  /\ cmd.pc = "sweep" => cmd.plan.versions \cap ProtectedSet = {}

\* An operation has one reservation or tomb, and the reserved units are those of
\* the open reservations.
Accounts ==
  /\ nextOp \in Nat \ {0}
  /\ ledger \in [total : Nat, reserved : Nat, open : SUBSET Reservation, tombs : SUBSET Tomb]
  /\ IsFiniteSet(ledger.open)
  /\ \A r, s \in ledger.open : r.id = s.id => r = s
  /\ \A r \in ledger.open : r.id < nextOp /\ ~Tombed(r.id)
  /\ \A t \in ledger.tombs : t.id < nextOp
  /\ CapacityExact

\* A command settles a reservation of its own kind, a capability one of an
\* evidence run, and no directory is made twice.
Owners ==
  /\ cmd # Idle => /\ cmd.op < nextOp
                   /\ \A r \in ledger.open : r.id = cmd.op => r.kind = cmd.kind
  /\ \A id \in caps : /\ id < nextOp
                      /\ \A r \in ledger.open : r.id = id => r.kind = "evidence"
  /\ \A id \in ToSet(runs) : id < nextOp
  /\ cmd.pc = "mkdir" => cmd.op \in Ops /\ cmd.op \notin ToSet(runs)

Inv == Shape /\ Files /\ Fences /\ Accounts /\ Owners

-----------------------------------------------------------------------------
(* Sequences without repetitions                                            *)

LEMMA Appended ==
  ASSUME NEW S, NEW q \in Seq(S), NEW x \in S
  PROVE  /\ Append(q, x) \in Seq(S) /\ ToSet(Append(q, x)) = ToSet(q) \cup {x}
         /\ IsInjective(q) /\ x \notin ToSet(q) => IsInjective(Append(q, x))
  <1>1. Len(q) \in Nat /\ DOMAIN q = 1..Len(q) BY LenProperties
  <1>2. /\ Append(q, x) \in Seq(S) /\ DOMAIN Append(q, x) = 1..(Len(q) + 1)
        /\ \A i \in 1..Len(q) : Append(q, x)[i] = q[i]
        /\ Append(q, x)[Len(q) + 1] = x
    BY <1>1, AppendProperties
  <1>3. ToSet(Append(q, x)) = ToSet(q) \cup {x} BY <1>1, <1>2 DEF ToSet
  <1>4. ASSUME IsInjective(q), x \notin ToSet(q) PROVE IsInjective(Append(q, x))
    <2>1. \A i \in 1..Len(q) : q[i] # x BY <1>1, <1>4 DEF ToSet
    <2> QED BY <1>1, <1>2, <1>4, <2>1 DEF IsInjective
  <1> QED BY <1>2, <1>3, <1>4

LEMMA Removed ==
  ASSUME NEW S, NEW q \in Seq(S), IsInjective(q), NEW x
  PROVE  /\ Without(q, x) \in Seq(S) /\ ToSet(Without(q, x)) = ToSet(q) \ {x}
         /\ IsInjective(Without(q, x))
  <1>1. Len(q) \in Nat /\ DOMAIN q = 1..Len(q) /\ \A i \in 1..Len(q) : q[i] \in S
    BY LenProperties, ElementOfSeq
  <1>2. CASE x \notin ToSet(q) BY <1>2 DEF Without
  <1>3. CASE x \in ToSet(q)
    <2> DEFINE k == CHOOSE i \in DOMAIN q : q[i] = x
               w == RemoveAt(q, k)
    <2>1. k \in 1..Len(q) /\ q[k] = x BY <1>1, <1>3 DEF ToSet
    <2>2. Without(q, x) = w BY <1>3 DEF Without
    <2> HIDE DEF k
    <2>3. /\ w \in Seq(S) /\ Len(w) = Len(q) - 1
          /\ \A i \in 1..(Len(q) - 1) : w[i] = IF i < k THEN q[i] ELSE q[i + 1]
      <3>1. /\ SubSeq(q, 1, k - 1) \in Seq(S) /\ Len(SubSeq(q, 1, k - 1)) = k - 1
            /\ \A i \in 1..(k - 1) : SubSeq(q, 1, k - 1)[i] = q[i]
        BY <1>1, <2>1, SubSeqProperties
      <3>a. \A i \in (k + 1) .. Len(q) : q[i] \in S BY <1>1, <2>1
      <3>b. /\ SubSeq(q, k + 1, Len(q)) \in Seq(S)
            /\ Len(SubSeq(q, k + 1, Len(q))) = IF k + 1 <= Len(q) THEN Len(q) - (k + 1) + 1 ELSE 0
            /\ \A i \in 1 .. (Len(q) - (k + 1) + 1) : SubSeq(q, k + 1, Len(q))[i] = q[(k + 1) + i - 1]
        BY <1>1, <2>1, <3>a, k + 1 \in Int, SubSeqProperties
      <3>2. /\ SubSeq(q, k + 1, Len(q)) \in Seq(S) /\ Len(SubSeq(q, k + 1, Len(q))) = Len(q) - k
            /\ \A i \in 1..(Len(q) - k) : SubSeq(q, k + 1, Len(q))[i] = q[k + i]
        <4>1. \A i \in 1..(Len(q) - k) : (k + 1) + i - 1 = k + i BY <1>1, <2>1
        <4>2. Len(q) - (k + 1) + 1 = Len(q) - k BY <1>1, <2>1
        <4> QED BY <1>1, <2>1, <3>b, <4>1, <4>2
      <3>3. w = SubSeq(q, 1, k - 1) \o SubSeq(q, k + 1, Len(q)) BY DEF RemoveAt
      <3> DEFINE u == SubSeq(q, 1, k - 1)
                 v == SubSeq(q, k + 1, Len(q))
      <3>4. /\ u \o v \in Seq(S) /\ Len(u \o v) = Len(u) + Len(v)
            /\ \A i \in 1 .. Len(u) + Len(v) :
                  (u \o v)[i] = IF i <= Len(u) THEN u[i] ELSE v[i - Len(u)]
        BY <3>1, <3>2, ConcatProperties
      <3>c. Len(u) = k - 1 /\ Len(v) = Len(q) - k /\ w = u \o v BY <3>1, <3>2, <3>3
      <3> HIDE DEF u, v, w
      <3>5. ASSUME NEW i \in 1..(Len(q) - 1) PROVE (u \o v)[i] = IF i < k THEN q[i] ELSE q[i + 1]
        <4>1. i \in 1 .. Len(u) + Len(v) BY <1>1, <2>1, <3>c
        <4>2. CASE i < k
          <5>1. i <= Len(u) /\ i \in 1..(k - 1) BY <2>1, <3>1, <4>2 DEF u
          <5> QED BY <3>1, <3>4, <4>1, <4>2, <5>1 DEF u
        <4>3. CASE ~(i < k)
          <5>1. ~(i <= Len(u)) /\ i - (k - 1) \in 1..(Len(q) - k) /\ k + (i - (k - 1)) = i + 1
            BY <1>1, <2>1, <3>1, <4>3 DEF u
          <5>2. (u \o v)[i] = v[i - (k - 1)] BY <3>1, <3>4, <4>1, <5>1 DEF u
          <5>3. v[i - (k - 1)] = q[k + (i - (k - 1))] BY <3>2, <5>1 DEF v
          <5> QED BY <4>3, <5>1, <5>2, <5>3
        <4> QED BY <4>2, <4>3
      <3> QED BY <1>1, <2>1, <3>c, <3>4, <3>5
    <2> HIDE DEF w
    <2>4. DOMAIN w = 1..(Len(q) - 1) BY <2>3, LenProperties
    <2>5. ASSUME NEW i \in 1..(Len(q) - 1), NEW j \in 1..(Len(q) - 1), w[i] = w[j] PROVE i = j
      <3> DEFINE at(n) == IF n < k THEN n ELSE n + 1
      <3>1. at(i) \in 1..Len(q) /\ at(j) \in 1..Len(q) /\ q[at(i)] = q[at(j)]
        BY <1>1, <2>1, <2>3, <2>5
      <3>2. at(i) = at(j) BY <1>1, <3>1 DEF IsInjective
      <3> QED BY <2>1, <3>2
    <2>6. ASSUME NEW i \in 1..(Len(q) - 1) PROVE w[i] \in ToSet(q) \ {x}
      <3>1. CASE i < k
        <4>1. w[i] = q[i] /\ i \in 1..Len(q) /\ i # k BY <1>1, <2>1, <2>3, <3>1
        <4> QED BY <1>1, <2>1, <4>1 DEF ToSet, IsInjective
      <3>2. CASE ~(i < k)
        <4>1. w[i] = q[i + 1] /\ i + 1 \in 1..Len(q) /\ i + 1 # k BY <1>1, <2>1, <2>3, <3>2
        <4> QED BY <1>1, <2>1, <4>1 DEF ToSet, IsInjective
      <3> QED BY <3>1, <3>2
    <2>7. ASSUME NEW j \in 1..Len(q), q[j] # x PROVE q[j] \in ToSet(w)
      <3>1. CASE j < k
        <4>1. j \in 1..(Len(q) - 1) /\ w[j] = q[j] BY <1>1, <2>1, <2>3, <3>1
        <4> QED BY <2>4, <4>1 DEF ToSet
      <3>2. CASE ~(j < k)
        <4>1. j - 1 \in 1..(Len(q) - 1) /\ w[j - 1] = q[j] BY <1>1, <2>1, <2>3, <2>7, <3>2
        <4> QED BY <2>4, <4>1 DEF ToSet
      <3> QED BY <3>1, <3>2
    <2>8. ToSet(w) = ToSet(q) \ {x}
      <3>1. ToSet(w) \subseteq ToSet(q) \ {x} BY <2>4, <2>6 DEF ToSet
      <3>2. ToSet(q) \ {x} \subseteq ToSet(w)
        <4> SUFFICES ASSUME NEW j \in 1..Len(q), q[j] # x PROVE q[j] \in ToSet(w)
          BY <1>1 DEF ToSet
        <4> QED BY <2>7
      <3> QED BY <3>1, <3>2
    <2> QED BY <2>2, <2>3, <2>4, <2>5, <2>8 DEF IsInjective
  <1> QED BY <1>2, <1>3

LEMMA EmptySet == ToSet(<<>>) = {} /\ IsInjective(<<>>)
  BY DEF ToSet, IsInjective

-----------------------------------------------------------------------------
(* Units held by reservations                                               *)

LEMMA Units ==
  /\ \A k \in Producers : MaxBytes[k] \in Nat
  /\ MaxBytes["promote"] = 2 /\ MaxBytes["report"] = 1 /\ MaxBytes["run"] = 2
  /\ MaxBytes["evidence"] = 1 /\ MaxBytes["protect"] = 1 /\ MaxBytes["unprotect"] = 0
  BY DEF MaxBytes, Producers

UnitsOf(r) == {r} \X (1 .. MaxBytes[r.kind])
AllUnits(S) == UNION {UnitsOf(r) : r \in S}

LEMMA UnitsAreFinite ==
  ASSUME NEW r \in Reservation
  PROVE  IsFiniteSet(UnitsOf(r)) /\ Cardinality(UnitsOf(r)) = MaxBytes[r.kind]
  <1>1. MaxBytes[r.kind] \in Nat BY Units DEF Reservation
  <1>2. IsFiniteSet(1 .. MaxBytes[r.kind]) /\ Cardinality(1 .. MaxBytes[r.kind]) = MaxBytes[r.kind]
    BY <1>1, FS_Interval
  <1>3. IsFiniteSet({r}) /\ Cardinality({r}) = 1 BY FS_Singleton
  <1> DEFINE n == MaxBytes[r.kind]
  <1>4. IsFiniteSet({r} \X (1 .. n)) /\ Cardinality({r} \X (1 .. n)) = Cardinality({r}) * Cardinality(1 .. n)
    BY <1>2, <1>3, FS_Product
  <1>5. Cardinality({r} \X (1 .. n)) = 1 * n BY <1>2, <1>3, <1>4
  <1>6. 1 * n = n BY <1>1
  <1> QED BY <1>4, <1>5, <1>6 DEF UnitsOf

LEMMA AllUnitsAreFinite ==
  ASSUME NEW S \in SUBSET Reservation, IsFiniteSet(S)
  PROVE  IsFiniteSet(AllUnits(S)) /\ Held(S) = Cardinality(AllUnits(S)) /\ Held(S) \in Nat
  <1>0. IsFiniteSet(1 .. 2)
    <2>1. \A n \in Int : IsFiniteSet(1 .. n) BY FS_Interval
    <2>2. 2 \in Int OBVIOUS
    <2> QED BY <2>1, <2>2, Zenon
  <1>1. IsFiniteSet(S \X (1 .. 2)) BY <1>0, FS_Product
  <1>2. AllUnits(S) \subseteq S \X (1 .. 2)
    <2> SUFFICES ASSUME NEW r \in S PROVE UnitsOf(r) \subseteq S \X (1 .. 2) BY DEF AllUnits
    <2>1. MaxBytes[r.kind] \in 0 .. 2 BY Units DEF Reservation, Producers
    <2> QED BY <2>1 DEF UnitsOf
  <1>3. IsFiniteSet(AllUnits(S)) BY <1>1, <1>2, FS_Subset
  <1>4. Held(S) = Cardinality(AllUnits(S)) BY DEF Held, AllUnits, UnitsOf
  <1> QED BY <1>3, <1>4, FS_CardinalityType

\* What two separate sets of reservations hold adds up.
LEMMA HeldAdds ==
  ASSUME NEW A \in SUBSET Reservation, IsFiniteSet(A),
         NEW B \in SUBSET Reservation, IsFiniteSet(B), A \cap B = {}
  PROVE  /\ Held(A) \in Nat /\ Held(B) \in Nat
         /\ Held(A \cup B) = Held(A) + Held(B)
  <1>1. /\ IsFiniteSet(AllUnits(A)) /\ Held(A) = Cardinality(AllUnits(A)) /\ Held(A) \in Nat
        /\ IsFiniteSet(AllUnits(B)) /\ Held(B) = Cardinality(AllUnits(B)) /\ Held(B) \in Nat
    BY AllUnitsAreFinite
  <1>2. IsFiniteSet(A \cup B) /\ A \cup B \in SUBSET Reservation BY FS_Union
  <1>3. Held(A \cup B) = Cardinality(AllUnits(A \cup B)) BY <1>2, AllUnitsAreFinite
  <1>4. AllUnits(A \cup B) = AllUnits(A) \cup AllUnits(B) BY DEF AllUnits
  <1>5. AllUnits(A) \cap AllUnits(B) = {} BY DEF AllUnits, UnitsOf
  <1>6. Cardinality(AllUnits(A) \cup AllUnits(B)) = Cardinality(AllUnits(A)) + Cardinality(AllUnits(B))
    BY <1>1, <1>5, FS_Union, FS_EmptySet
  <1> QED BY <1>1, <1>3, <1>4, <1>6

LEMMA HeldByOne ==
  ASSUME NEW r \in Reservation
  PROVE  Held({r}) = MaxBytes[r.kind] /\ IsFiniteSet({r}) /\ MaxBytes[r.kind] \in Nat
  <1>1. IsFiniteSet({r}) BY FS_Singleton
  <1>2. AllUnits({r}) = UnitsOf(r) BY DEF AllUnits
  <1> QED BY <1>1, <1>2, UnitsAreFinite, AllUnitsAreFinite

LEMMA HeldByNone == Held({}) = 0
  <1>1. UNION {{r} \X (1 .. MaxBytes[r.kind]) : r \in {}} = {} OBVIOUS
  <1> QED BY <1>1, FS_EmptySet DEF Held

-----------------------------------------------------------------------------
(* The ledger                                                               *)

LEMMA Reclaiming ==
  ASSUME Accounts, NEW now \in Int
  PROVE  LET L == Reclaimed(now)
         IN  /\ L \in [total : Nat, reserved : Nat, open : SUBSET Reservation, tombs : SUBSET Tomb]
             /\ L.open \subseteq ledger.open /\ L.tombs \subseteq ledger.tombs
             /\ IsFiniteSet(L.open) /\ L.reserved = Held(L.open)
             /\ L.total = ledger.total
  <1> DEFINE gone == {r \in ledger.open : r.at < now}
             kept == ledger.open \ gone
  <1>1. /\ gone \in SUBSET Reservation /\ kept \in SUBSET Reservation
        /\ gone \cap kept = {} /\ gone \cup kept = ledger.open
    BY DEF Accounts
  <1>2. IsFiniteSet(gone) /\ IsFiniteSet(kept) BY FS_Subset DEF Accounts
  <1>3. Held(gone) \in Nat /\ Held(kept) \in Nat /\ ledger.reserved = Held(gone) + Held(kept)
    BY <1>1, <1>2, HeldAdds DEF Accounts, CapacityExact
  <1>4. SubSat(ledger.reserved, Held(gone)) = Held(kept) BY <1>3 DEF SubSat
  <1>5. /\ Reclaimed(now).open = kept /\ Reclaimed(now).reserved = Held(kept)
        /\ Reclaimed(now).total = ledger.total
        /\ Reclaimed(now).tombs = {t \in ledger.tombs : t.at >= now}
        /\ Reclaimed(now) = [total |-> ledger.total, reserved |-> Held(kept), open |-> kept,
                             tombs |-> {t \in ledger.tombs : t.at >= now}]
    <2> DEFINE tombs == {t \in ledger.tombs : t.at >= now}
    <2>1. Reclaimed(now) = [ledger EXCEPT !.open = kept, !.reserved = Held(kept), !.tombs = tombs]
      BY <1>4 DEF Reclaimed
    <2> HIDE DEF gone, kept, tombs
    <2>2. ledger \in [total : Nat, reserved : Nat, open : SUBSET Reservation, tombs : SUBSET Tomb]
      BY DEF Accounts
    <2>3. Reclaimed(now) = [total |-> ledger.total, reserved |-> Held(kept), open |-> kept,
                            tombs |-> tombs]
      BY <2>1, <2>2
    <2> QED BY <2>3 DEF tombs
  <1> HIDE DEF gone, kept
  <1>6. kept \subseteq ledger.open BY DEF kept
  <1>7. ledger.tombs \in SUBSET Tomb /\ ledger.total \in Nat BY DEF Accounts
  <1> QED BY <1>1, <1>2, <1>3, <1>5, <1>6, <1>7

\* A reservation keeps the books.
LEMMA Reserving ==
  ASSUME Accounts, NEW kind \in Producers, NEW payload \in Digests \cup {None},
         NEW now \in Int, NEW active, Reserve(kind, payload, now, active)
  PROVE  /\ Accounts' /\ nextOp' = nextOp + 1 /\ nextOp \in Ops
         /\ \A r \in ledger'.open : r \in ledger.open \/ (r.id = nextOp /\ r.kind = kind)
  <1> DEFINE L == Reclaimed(now)
             r == [id |-> nextOp, kind |-> kind, payload |-> payload, at |-> now]
  <1>1. /\ L \in [total : Nat, reserved : Nat, open : SUBSET Reservation, tombs : SUBSET Tomb]
        /\ L.open \subseteq ledger.open /\ L.tombs \subseteq ledger.tombs
        /\ IsFiniteSet(L.open) /\ L.reserved = Held(L.open)
        /\ L.total = ledger.total
    BY Reclaiming
  <1>2. nextOp \in Ops /\ nextOp' = nextOp + 1
    BY RootAssumption DEF Reserve, Admitted, Accounts, Ops
  <1>3. r \in Reservation /\ r.id = nextOp /\ r.kind = kind BY <1>2 DEF Reservation
  <1>4. /\ ledger'.open = L.open \cup {r} /\ ledger'.reserved = L.reserved + MaxBytes[kind]
        /\ ledger'.total = L.total /\ ledger'.tombs = L.tombs
        /\ ledger' = [total |-> L.total, reserved |-> L.reserved + MaxBytes[kind],
                      open |-> L.open \cup {r}, tombs |-> L.tombs]
    <2>1. ledger' = [L EXCEPT !.open = @ \cup {r}, !.reserved = @ + MaxBytes[kind]]
      BY DEF Reserve
    <2> HIDE DEF L, r
    <2> QED BY <1>1, <2>1
  <1> HIDE DEF L, r
  <1>5. Held({r}) = MaxBytes[kind] /\ IsFiniteSet({r}) /\ MaxBytes[kind] \in Nat
    BY <1>3, HeldByOne
  <1>6. r \notin L.open BY <1>1, <1>3 DEF Accounts
  <1>7. L.open \in SUBSET Reservation /\ {r} \in SUBSET Reservation /\ L.open \cap {r} = {}
    BY <1>1, <1>3, <1>6
  <1>8. Held(L.open \cup {r}) = L.reserved + MaxBytes[kind] BY <1>1, <1>5, <1>7, HeldAdds
  <1>10. nextOp' \in Nat \ {0} BY <1>2 DEF Accounts
  <1>11. /\ ledger' \in [total : Nat, reserved : Nat, open : SUBSET Reservation, tombs : SUBSET Tomb]
         /\ IsFiniteSet(ledger'.open)
    <2>1. IsFiniteSet(L.open \cup {r}) BY <1>1, <1>5, FS_Union
    <2>2. L.reserved + MaxBytes[kind] \in Nat BY <1>1, <1>5
    <2> QED BY <1>1, <1>4, <1>7, <2>1, <2>2
  <1>12. \A a, b \in ledger'.open : a.id = b.id => a = b
    BY <1>1, <1>3, <1>4 DEF Accounts
  <1>13. \A a \in ledger'.open : a.id < nextOp' /\ ~Tombed(a.id)'
    <2> SUFFICES ASSUME NEW a \in ledger'.open PROVE a.id < nextOp' /\ ~Tombed(a.id)' OBVIOUS
    <2>1. CASE a \in ledger.open
      <3>1. a.id \in Ops /\ a.id < nextOp BY <2>1 DEF Accounts, Reservation
      <3> QED BY <1>1, <1>2, <1>4, <2>1, <3>1, RootAssumption DEF Accounts, Tombed, Ops
    <2>2. CASE a = r
      BY <1>1, <1>2, <1>3, <1>4, <2>2 DEF Accounts, Tombed, Ops
    <2> QED BY <1>1, <1>4, <2>1, <2>2
  <1>14. \A t \in ledger'.tombs : t.id < nextOp'
    <2> SUFFICES ASSUME NEW t \in ledger.tombs PROVE t.id < nextOp + 1 BY <1>1, <1>2, <1>4
    <2> QED BY RootAssumption DEF Accounts, Tomb, Ops
  <1>15. CapacityExact' BY <1>4, <1>8 DEF CapacityExact
  <1>16. Accounts' BY <1>10, <1>11, <1>12, <1>13, <1>14, <1>15 DEF Accounts
  <1> QED BY <1>1, <1>2, <1>3, <1>4, <1>16

\* Settling keeps the books, whatever is charged.
LEMMA Settling ==
  ASSUME Accounts, NEW id \in Nat, NEW delta \in Int, NEW now \in Int,
         Settle(id, delta, now), UNCHANGED nextOp
  PROVE  Accounts' /\ ledger'.open \subseteq ledger.open
  <1>1. CASE ~CanSettle(id, delta)
    <2>1. ledger' = ledger BY <1>1 DEF Settle
    <2> QED BY <2>1 DEF Accounts, Tombed, CapacityExact
  <1>2. CASE CanSettle(id, delta)
    <2> DEFINE r == ReservationOf(id)
               rest == ledger.open \ {r}
               tombs == IF Creates(r) THEN ledger.tombs \cup {[id |-> id, at |-> now]} ELSE ledger.tombs
    <2>1. r \in ledger.open /\ r.id = id BY <1>2 DEF CanSettle, Open, ReservationOf
    <2>2. ledger' = Settled(id, delta, now) BY <1>2 DEF Settle
    <2> HIDE DEF r
    <2>3. r \in Reservation /\ id \in Ops BY <2>1 DEF Accounts, Reservation
    <2>4. Held({r}) = MaxBytes[r.kind] /\ IsFiniteSet({r}) /\ MaxBytes[r.kind] \in Nat
      BY <2>3, HeldByOne
    <2>5. /\ rest \in SUBSET Reservation /\ {r} \in SUBSET Reservation
          /\ rest \cap {r} = {} /\ rest \cup {r} = ledger.open /\ IsFiniteSet(rest)
      BY <2>1, FS_RemoveElement DEF Accounts
    <2>6. Held(rest) \in Nat /\ ledger.reserved = Held(rest) + MaxBytes[r.kind]
      <3> HIDE DEF rest
      <3>1. Held(rest) \in Nat /\ Held(rest \cup {r}) = Held(rest) + Held({r})
        BY <2>4, <2>5, HeldAdds
      <3>2. ledger.reserved = Held(ledger.open) BY DEF Accounts, CapacityExact
      <3> QED BY <2>4, <2>5, <3>1, <3>2
    <2>7. SubSat(ledger.reserved, MaxBytes[r.kind]) = Held(rest) BY <2>4, <2>6 DEF SubSat
    <2>8. /\ ledger' = [total |-> ledger.total + delta, reserved |-> Held(rest),
                        open |-> rest, tombs |-> tombs]
          /\ ledger'.total = ledger.total + delta /\ ledger'.reserved = Held(rest)
          /\ ledger'.open = rest /\ ledger'.tombs = tombs
      BY <2>2, <2>7 DEF Settled, Accounts, r
    <2> HIDE DEF rest
    <2>9. ledger.total + delta \in Nat BY <1>2 DEF CanSettle, Accounts
    <2>10. tombs \in SUBSET Tomb /\ \A t \in tombs : t.id < nextOp
      BY <2>1, <2>3 DEF Accounts, Tomb
    <2>11. \A t \in tombs : t \in ledger.tombs \/ t.id = id OBVIOUS
    <2> HIDE DEF tombs
    <2>12. /\ ledger' \in [total : Nat, reserved : Nat, open : SUBSET Reservation, tombs : SUBSET Tomb]
           /\ IsFiniteSet(ledger'.open)
      BY <2>5, <2>6, <2>8, <2>9, <2>10
    <2>13. \A a \in ledger'.open : a \in ledger.open /\ a.id # id
      BY <2>1, <2>5, <2>8 DEF Accounts
    <2>14. \A a \in ledger'.open : a.id < nextOp' /\ ~Tombed(a.id)'
      BY <2>8, <2>11, <2>13 DEF Accounts, Tombed
    <2>15. CapacityExact' BY <2>8 DEF CapacityExact
    <2>16. \A a, b \in ledger'.open : a.id = b.id => a = b BY <2>13 DEF Accounts
    <2>17. \A t \in ledger'.tombs : t.id < nextOp' BY <2>8, <2>10
    <2>18. nextOp' \in Nat \ {0} BY DEF Accounts
    <2> QED BY <2>12, <2>13, <2>14, <2>15, <2>16, <2>17, <2>18 DEF Accounts
  <1> QED BY <1>1, <1>2

-----------------------------------------------------------------------------
(* Commands                                                                 *)

LEMMA Commands ==
  ASSUME Shape
  PROVE  /\ cmd # Idle <=> cmd.pc # "idle"
         /\ cmd # Idle => cmd.op \in Nat /\ cmd.now \in Int /\ cmd.kind \in Producers
         /\ cmd.pc \in {"version", "pointer", "settle", "manifest", "commit", "mkdir", "rmdir", "abort"}
               => cmd \in FileCommand
         /\ cmd.pc = "sweep" => cmd \in SweepCommand
  BY DEF Shape, FileCommand, SweepCommand, Idle, Producers

LEMMA Going ==
  ASSUME NEW p \in {"pointer", "commit", "abort", "claim"}, Goto(p), cmd \in FileCommand
  PROVE  /\ cmd' \in FileCommand /\ cmd'.pc = p /\ cmd'.kind = cmd.kind /\ cmd'.op = cmd.op
         /\ cmd'.d = cmd.d /\ cmd'.fence = cmd.fence /\ cmd' # Idle
  <1>1. /\ cmd' \in FileCommand /\ cmd'.pc = p /\ cmd'.kind = cmd.kind /\ cmd'.op = cmd.op
        /\ cmd'.d = cmd.d /\ cmd'.fence = cmd.fence
    BY DEF Goto, FileCommand
  <1>2. cmd' # Idle BY <1>1 DEF Idle
  <1> QED BY <1>1, <1>2

LEMMA IdleFacts == Idle.pc = "idle"
  BY DEF Idle

\* The command ends, with its reservation settled or left where it was.
LEMMA Ending ==
  ASSUME Inv, End, Files', Accounts', UNCHANGED <<nextOp, caps>>, hour' \in Nat,
         ledger'.open \subseteq ledger.open, \A id \in ToSet(runs)' : id < nextOp
  PROVE  Inv'
  <1>1. cmd' = Idle /\ cmd'.pc = "idle" BY IdleFacts DEF End
  <1>2. Shape' /\ Fences' BY <1>1 DEF Shape, Fences
  <1>3. Owners' BY <1>1 DEF Inv, Owners
  <1> QED BY <1>2, <1>3 DEF Inv

\* Nothing but the ledger moves, and there only reservations go.
LEMMA Charging ==
  ASSUME Inv, UNCHANGED <<cmd, files, nextOp, hour>>, Accounts', ledger'.open \subseteq ledger.open
  PROVE  Inv'
  <1>1. Shape' /\ Files' /\ Fences' BY DEF Inv, Shape, Files, Fences, files, CurrentResolves, ProtectedSet
  <1>2. Owners' BY DEF Inv, Owners, files
  <1> QED BY <1>1, <1>2 DEF Inv

\* A command starts with the reservation it has just opened.
LEMMA Starting ==
  ASSUME Inv, NEW kind \in Producers, NEW payload \in Digests \cup {None}, NEW now \in Int,
         NEW active, Reserve(kind, payload, now, active), UNCHANGED files,
         cmd'.op = nextOp, cmd'.kind = kind, Shape', Fences'
  PROVE  Inv'
  <1>1. /\ Accounts' /\ nextOp' = nextOp + 1 /\ nextOp \in Ops /\ nextOp \in Nat
        /\ \A r \in ledger'.open : r \in ledger.open \/ (r.id = nextOp /\ r.kind = kind)
    BY Reserving DEF Inv, Accounts
  <1>2. Files' BY DEF Inv, Files, files, CurrentResolves
  <1>3. UNCHANGED <<caps, runs>> BY DEF files
  <1>4. \A r \in ledger.open : r.id \in Nat /\ r.id < nextOp BY DEF Inv, Accounts, Reservation, Ops
  <1>5. \A id \in caps \cup ToSet(runs) : id \in Nat /\ id < nextOp
    <2>1. \A id \in ToSet(runs) : id \in Ops BY ElementOfSeq, LenProperties DEF Inv, Files, ToSet
    <2>2. \A id \in ToSet(runs) : id < nextOp BY DEF Inv, Owners
    <2>3. \A id \in caps : id \in Ops /\ id < nextOp BY DEF Inv, Files, Owners
    <2>4. \A id \in Ops : id \in Nat BY DEF Ops
    <2> QED BY <2>1, <2>2, <2>3, <2>4
  <1>6. Owners'
    <2>1. (cmd # Idle => /\ cmd.op < nextOp
                         /\ \A r \in ledger.open : r.id = cmd.op => r.kind = cmd.kind)'
      BY <1>1, <1>4
    <2>2. (\A id \in caps : /\ id < nextOp
                            /\ \A r \in ledger.open : r.id = id => r.kind = "evidence")'
      <3> SUFFICES ASSUME NEW id \in caps
                   PROVE  /\ id < nextOp'
                          /\ \A r \in ledger'.open : r.id = id => r.kind = "evidence"
        BY <1>3
      <3> QED BY <1>1, <1>5 DEF Inv, Owners
    <2>3. (\A id \in ToSet(runs) : id < nextOp)' BY <1>1, <1>3, <1>5
    <2>4. (cmd.pc = "mkdir" => cmd.op \in Ops /\ cmd.op \notin ToSet(runs))' BY <1>1, <1>3, <1>5
    <2> QED BY <2>1, <2>2, <2>3, <2>4 DEF Owners
  <1> QED BY <1>1, <1>2, <1>6 DEF Inv

LEMMA Beginning ==
  ASSUME NEW kind \in Producers, NEW now \in Int, NEW op \in Nat, NEW d \in Digests \cup {None},
         NEW pc \in {"settle", "manifest", "mkdir", "rmdir"}, Begin(kind, pc, now, op, d)
  PROVE  /\ cmd' \in FileCommand /\ cmd'.pc = pc /\ cmd'.kind = kind /\ cmd'.op = op
         /\ cmd'.d = d /\ cmd' # Idle
  <1>1. /\ cmd' \in FileCommand /\ cmd'.pc = pc /\ cmd'.kind = kind /\ cmd'.op = op /\ cmd'.d = d
    BY DEF Begin, FileCommand
  <1>2. cmd' # Idle BY <1>1, IdleFacts
  <1> QED BY <1>1, <1>2

-----------------------------------------------------------------------------
(* Promotion                                                                *)

LEMMA PromoteInv ==
  ASSUME Inv, NEW d \in Digests, NEW fence \in Digests \cup {None}, NEW now \in 0 .. hour,
         Promote(d, fence, now)
  PROVE  Inv'
  <1>1. now \in Int /\ nextOp \in Nat /\ "promote" \in Producers BY DEF Inv, Shape, Accounts, Producers
  <1>2. /\ cmd' \in FileCommand /\ cmd'.pc = "version" /\ cmd'.kind = "promote"
        /\ cmd'.op = nextOp /\ cmd'.d = d /\ cmd'.fence = fence
    BY <1>1 DEF Promote, FileCommand
  <1>3. Shape' BY <1>2 DEF Promote, bounds, Shape, Inv
  <1>4. Fences' BY <1>2 DEF Promote, files, Fences, FenceHolds
  <1> QED BY <1>1, <1>2, <1>3, <1>4, Starting DEF Promote

LEMMA AlreadyCurrentInv ==
  ASSUME Inv, NEW d \in Digests, NEW now \in 0 .. hour, AlreadyCurrent(d, now)
  PROVE  Inv'
  <1>1. now \in Int /\ "promote" \in Producers BY DEF Inv, Shape, Producers
  <1>2. /\ cmd' \in FileCommand /\ cmd'.pc = "settle" /\ cmd'.kind = "promote"
        /\ cmd'.op = 0 /\ cmd'.d = d
    BY <1>1, Beginning DEF AlreadyCurrent
  <1>3. UNCHANGED <<files, ledger, nextOp, hour>> BY DEF AlreadyCurrent, bounds
  <1>4. Shape' /\ Fences' BY <1>2, <1>3 DEF Shape, Fences, Inv
  <1>5. Files' BY <1>3 DEF Inv, Files, files, CurrentResolves
  <1>6. Accounts' BY <1>3 DEF Inv, Accounts, Tombed, CapacityExact
  <1>7. \A r \in ledger.open : r.id # 0 BY DEF Inv, Accounts, Reservation, Ops
  <1>8. 0 < nextOp BY DEF Inv, Accounts
  <1>9. Owners' BY <1>2, <1>3, <1>7, <1>8 DEF Inv, Owners, files
  <1> QED BY <1>4, <1>5, <1>6, <1>9 DEF Inv

LEMMA SettleMatchingInv ==
  ASSUME Inv, SettleMatching
  PROVE  Inv'
  <1>1. UNCHANGED <<files, nextOp, hour>> BY DEF SettleMatching, bounds
  <1>2. UNCHANGED <<pointer, versions, manifest, runs, evidence, temps, caps>> BY <1>1 DEF files
  <1>3. cmd.now \in Int BY Commands DEF SettleMatching, At, Inv
  <1>4. Files' BY <1>2 DEF Inv, Files, CurrentResolves
  <1>5. hour' \in Nat BY <1>1 DEF Inv, Shape
  <1>6. CASE Matching(cmd.d) = {} /\ End /\ UNCHANGED ledger
    <2>1. Accounts' BY <1>1, <1>6 DEF Inv, Accounts, Tombed, CapacityExact
    <2> QED BY <1>1, <1>2, <1>4, <1>5, <1>6, <2>1, Ending DEF Inv, Owners
  <1>7. ASSUME NEW r \in Matching(cmd.d), NEW delta \in Written["promote"],
               Settle(r.id, delta, cmd.now),
               IF CanSettle(r.id, delta) THEN UNCHANGED cmd ELSE End
        PROVE  Inv'
    <2>1. r.id \in Nat BY <1>7 DEF Matching, Inv, Accounts, Reservation, Ops
    <2>2. delta \in Int BY DEF Written
    <2>4. Accounts' /\ ledger'.open \subseteq ledger.open
      BY <1>1, <1>3, <1>7, <2>1, <2>2, Settling DEF Inv
    <2>5. CASE End BY <1>1, <1>2, <1>4, <1>5, <2>4, <2>5, Ending DEF Inv, Owners
    <2>6. CASE UNCHANGED cmd BY <1>1, <2>4, <2>6, Charging
    <2> QED BY <1>7, <2>5, <2>6
  <1> QED BY <1>6, <1>7 DEF SettleMatching

\* Writing a version adds it, when it is not there.
LEMMA Versions ==
  ASSUME Files, NEW d \in Digests
  PROVE  /\ WithVersion(d) \in Seq(Digests) /\ IsInjective(WithVersion(d))
         /\ ToSet(WithVersion(d)) = ToSet(versions) \cup {d}
  BY Appended DEF Files, WithVersion

LEMMA WriteVersionInv ==
  ASSUME Inv, WriteVersion
  PROVE  Inv'
  <1>1. cmd \in FileCommand /\ cmd.pc = "version" /\ cmd.kind = "promote" /\ cmd.d \in Digests /\ cmd # Idle
    BY Commands DEF Inv, Shape, WriteVersion, At
  <1>2. /\ cmd' \in FileCommand /\ cmd'.pc = "pointer" /\ cmd'.kind = cmd.kind /\ cmd'.op = cmd.op
        /\ cmd'.d = cmd.d /\ cmd'.fence = cmd.fence
    BY <1>1, Going DEF WriteVersion
  <1>3. /\ versions' = WithVersion(cmd.d)
        /\ UNCHANGED <<pointer, manifest, runs, evidence, temps, caps, ledger, nextOp, hour>>
    BY DEF WriteVersion, bounds
  <1>4. /\ versions' \in Seq(Digests) /\ IsInjective(versions')
        /\ ToSet(versions') = ToSet(versions) \cup {cmd.d}
    BY <1>1, <1>3, Versions DEF Inv
  <1>5. Shape' BY <1>1, <1>2, <1>3 DEF Inv, Shape
  <1>6. Files' BY <1>3, <1>4 DEF Inv, Files, CurrentResolves
  <1>7. Fences' BY <1>1, <1>2, <1>3, <1>4 DEF Inv, Fences
  <1>8. Accounts' BY <1>3 DEF Inv, Accounts, Tombed, CapacityExact
  <1>9. Owners' BY <1>1, <1>2, <1>3 DEF Inv, Owners
  <1> QED BY <1>5, <1>6, <1>7, <1>8, <1>9 DEF Inv

LEMMA SwitchPointerInv ==
  ASSUME Inv, SwitchPointer
  PROVE  Inv'
  <1>1. cmd \in FileCommand /\ cmd.pc = "pointer" /\ cmd.kind = "promote" /\ cmd.d \in Digests /\ cmd # Idle
    BY Commands DEF Inv, Shape, SwitchPointer, At
  <1>2. /\ cmd' \in FileCommand /\ cmd'.pc = "commit" /\ cmd'.kind = cmd.kind /\ cmd'.op = cmd.op
    BY <1>1, Going DEF SwitchPointer
  <1>3. /\ pointer' = cmd.d
        /\ UNCHANGED <<versions, manifest, runs, evidence, temps, caps, ledger, nextOp, hour>>
    BY DEF SwitchPointer, bounds
  <1>5. Shape' BY <1>1, <1>2, <1>3 DEF Inv, Shape
  <1>6. Files' BY <1>1, <1>3 DEF Inv, Files, Fences, CurrentResolves
  <1>7. Fences' BY <1>2 DEF Fences
  <1>8. Accounts' BY <1>3 DEF Inv, Accounts, Tombed, CapacityExact
  <1>9. Owners' BY <1>1, <1>2, <1>3 DEF Inv, Owners
  <1> QED BY <1>5, <1>6, <1>7, <1>8, <1>9 DEF Inv

-----------------------------------------------------------------------------
(* Protection, and the ends of commands                                     *)

LEMMA ProtectInv ==
  ASSUME Inv, NEW d \in Digests, Protect(d) \/ Unprotect(d)
  PROVE  Inv'
  <1>1. /\ hour \in Int /\ nextOp \in Nat /\ hour' = hour /\ UNCHANGED files
        /\ {"protect", "unprotect"} \subseteq Producers
    BY DEF Inv, Shape, Accounts, Producers, Protect, Unprotect, bounds
  <1>2. ASSUME NEW k \in {"protect", "unprotect"}, Reserve(k, d, hour, 0),
               Begin(k, "manifest", hour, nextOp, d)
        PROVE  Inv'
    <2>1. /\ cmd' \in FileCommand /\ cmd'.pc = "manifest" /\ cmd'.kind = k
          /\ cmd'.op = nextOp /\ cmd'.d = d
      BY <1>1, <1>2, Beginning
    <2>2. Shape' BY <1>1, <2>1 DEF Shape, Inv
    <2>3. Fences' BY <2>1 DEF Fences
    <2> QED BY <1>1, <1>2, <2>1, <2>2, <2>3, Starting
  <1> QED BY <1>2 DEF Protect, Unprotect

LEMMA WriteManifestInv ==
  ASSUME Inv, WriteManifest
  PROVE  Inv'
  <1>1. /\ cmd \in FileCommand /\ cmd.pc = "manifest" /\ cmd.d \in Digests /\ cmd # Idle
        /\ cmd.kind \in {"protect", "unprotect"}
    BY Commands DEF Inv, Shape, WriteManifest, At
  <1>2. /\ cmd' \in FileCommand /\ cmd'.pc = "commit" /\ cmd'.kind = cmd.kind /\ cmd'.op = cmd.op
    BY <1>1, Going DEF WriteManifest
  <1>3. /\ manifest' \subseteq manifest \cup {cmd.d}
        /\ UNCHANGED <<pointer, versions, runs, evidence, temps, caps, ledger, nextOp, hour>>
    BY DEF WriteManifest, bounds, Manifest
  <1>5. Shape' BY <1>1, <1>2, <1>3 DEF Inv, Shape
  <1>6. Files' BY <1>1, <1>3 DEF Inv, Files, CurrentResolves
  <1>7. Fences' BY <1>2 DEF Fences
  <1>8. Accounts' BY <1>3 DEF Inv, Accounts, Tombed, CapacityExact
  <1>9. Owners' BY <1>1, <1>2, <1>3 DEF Inv, Owners
  <1> QED BY <1>5, <1>6, <1>7, <1>8, <1>9 DEF Inv

LEMMA CommitInv ==
  ASSUME Inv, Commit
  PROVE  Inv'
  <1>1. /\ cmd.pc = "commit" /\ cmd.kind \in {"promote", "protect", "unprotect", "run"}
        /\ cmd # Idle /\ cmd.op \in Nat /\ cmd.now \in Int
    BY Commands DEF Inv, Shape, Commit, At
  <1>3. UNCHANGED <<files, nextOp, hour>> BY DEF Commit, bounds
  <1>4. Accounts' /\ ledger'.open \subseteq ledger.open
    <2>1. PICK delta \in Deltas(cmd) : Settle(cmd.op, delta, cmd.now) BY DEF Commit
    <2>2. delta \in Int BY <1>1 DEF Deltas, Written
    <2>3. Accounts /\ UNCHANGED nextOp BY <1>3 DEF Inv
    <2> QED BY <1>1, <2>1, <2>2, <2>3, Settling
  <1>5. Files' BY <1>3 DEF Inv, Files, files, CurrentResolves
  <1> QED BY <1>3, <1>4, <1>5, Ending DEF Commit, files, Inv, Shape, Owners

LEMMA AbortRunInv ==
  ASSUME Inv, AbortRun
  PROVE  Inv'
  <1>1. cmd.pc = "abort" /\ cmd # Idle /\ cmd.op \in Nat /\ cmd.now \in Int
    BY Commands DEF Inv, Shape, AbortRun, At
  <1>3. UNCHANGED <<files, nextOp, hour>> BY DEF AbortRun, bounds
  <1>4. Accounts' /\ ledger'.open \subseteq ledger.open
    <2>1. Settle(cmd.op, 0, cmd.now) BY DEF AbortRun
    <2>2. Accounts /\ UNCHANGED nextOp /\ 0 \in Int BY <1>3 DEF Inv
    <2> QED BY <1>1, <2>1, <2>2, Settling
  <1>5. Files' BY <1>3 DEF Inv, Files, files, CurrentResolves
  <1> QED BY <1>3, <1>4, <1>5, Ending DEF AbortRun, files, Inv, Shape, Owners

LEMMA WriteFailsInv ==
  ASSUME Inv, WriteFails
  PROVE  Inv'
  <1>1. cmd # Idle /\ cmd.op \in Nat /\ cmd.now \in Int
    BY Commands DEF Inv, WriteFails
  <1>2. UNCHANGED <<evidence, temps, caps, nextOp, hour>> BY DEF WriteFails
  <1>4. Accounts' /\ ledger'.open \subseteq ledger.open
    <2>1. Settle(cmd.op, 0, cmd.now) BY DEF WriteFails
    <2>2. Accounts /\ UNCHANGED nextOp /\ 0 \in Int BY <1>2 DEF Inv
    <2> QED BY <1>1, <2>1, <2>2, Settling
  <1>5. Files' /\ \A id \in ToSet(runs)' : id \in ToSet(runs) \/ id = cmd.op
    <2>1. CASE UNCHANGED <<pointer, versions, manifest, runs>>
      BY <1>2, <2>1 DEF Inv, Files, CurrentResolves
    <2>2. CASE At("version") /\ versions' = WithVersion(cmd.d) /\ UNCHANGED <<pointer, manifest, runs>>
      <3>1. cmd.d \in Digests BY <2>2 DEF At, Inv, Shape
      <3>2. /\ versions' \in Seq(Digests) /\ IsInjective(versions')
            /\ ToSet(versions') = ToSet(versions) \cup {cmd.d}
        BY <2>2, <3>1, Versions DEF Inv
      <3> QED BY <1>2, <2>2, <3>2 DEF Inv, Files, CurrentResolves
    <2>3. CASE At("pointer") /\ pointer' = cmd.d /\ UNCHANGED <<versions, manifest, runs>>
      <3>1. cmd.d \in Digests /\ cmd.d \in ToSet(versions) BY <2>3 DEF At, Inv, Shape, Fences
      <3> QED BY <1>2, <2>3, <3>1 DEF Inv, Files, CurrentResolves
    <2>4. CASE At("manifest") /\ manifest' = Manifest(cmd) /\ UNCHANGED <<pointer, versions, runs>>
      <3>1. cmd.d \in Digests BY <2>4 DEF At, Inv, Shape
      <3> QED BY <1>2, <2>4, <3>1 DEF Inv, Files, CurrentResolves, Manifest
    <2>5. CASE At("mkdir") /\ runs' = Append(runs, cmd.op) /\ UNCHANGED <<pointer, versions, manifest>>
      <3>1. cmd.op \in Ops /\ cmd.op \notin ToSet(runs) BY <2>5 DEF At, Inv, Owners
      <3>2. runs' \in Seq(Ops) /\ IsInjective(runs') /\ ToSet(runs') = ToSet(runs) \cup {cmd.op}
        BY <2>5, <3>1, Appended DEF Inv, Files
      <3> QED BY <1>2, <2>5, <3>2 DEF Inv, Files, CurrentResolves
    <2> QED BY <2>1, <2>2, <2>3, <2>4, <2>5 DEF WriteFails
  <1>6. cmd.op < nextOp BY <1>1 DEF Inv, Owners
  <1>7. CASE End BY <1>2, <1>4, <1>5, <1>6, <1>7, Ending DEF Inv, Shape, Owners
  <1>8. CASE At("mkdir") /\ Goto("claim")
    <2>1. cmd \in FileCommand BY <1>8, Commands DEF Inv, At
    <2>2. /\ cmd' \in FileCommand /\ cmd'.pc = "claim" /\ cmd'.kind = cmd.kind /\ cmd'.op = cmd.op
      BY <1>8, <2>1, Going
    <2>3. Shape' /\ Fences' BY <1>2, <2>2 DEF Inv, Shape, Fences
    <2>4. Owners' BY <1>1, <1>2, <1>4, <1>5, <1>6, <2>2 DEF Inv, Owners
    <2> QED BY <1>4, <1>5, <2>3, <2>4 DEF Inv
  <1> QED BY <1>7, <1>8 DEF WriteFails

-----------------------------------------------------------------------------
(* Audit and its sweep                                                      *)

LEMMA Runs == Files => \A id \in ToSet(runs) : id \in Ops
  BY ElementOfSeq, LenProperties DEF Files, ToSet
LEMMA VersionsAreDigests == Files => \A d \in ToSet(versions) : d \in Digests
  BY ElementOfSeq, LenProperties DEF Files, ToSet

LEMMA Planned ==
  ASSUME NEW s, NEW spared, NEW keep
  PROVE  Surplus(s, spared, keep) \subseteq ToSet(s) \ spared
  BY DEF Surplus, ToSet

LEMMA AuditInv ==
  ASSUME Inv, Audit
  PROVE  Inv'
  <1>1. /\ hour \in Int /\ nextOp \in Nat /\ hour' = hour /\ UNCHANGED files
        /\ "report" \in Producers
    BY DEF Inv, Shape, Accounts, Producers, Audit, bounds
  <1>2. SweepPlan.versions \subseteq Digests \ ProtectedSet /\ SweepPlan.runs \subseteq Ops
    <2>1. SweepPlan.versions \subseteq ToSet(versions) \ ProtectedSet BY Planned DEF SweepPlan
    <2>2. SweepPlan.runs \subseteq ToSet(runs) BY Planned DEF SweepPlan
    <2> QED BY <2>1, <2>2, Runs, VersionsAreDigests DEF Inv
  <1>3. SweepPlan \in [versions : SUBSET Digests, runs : SUBSET Ops]
    <2>1. SweepPlan = [versions |-> SweepPlan.versions, runs |-> SweepPlan.runs] BY DEF SweepPlan
    <2> QED BY <1>2, <2>1
  <1>4. /\ cmd' \in SweepCommand /\ cmd'.pc = "sweep" /\ cmd'.kind = "report"
        /\ cmd'.op = nextOp /\ cmd'.plan = SweepPlan
    BY <1>1, <1>3 DEF Audit, SweepCommand
  <1>5. Shape' BY <1>1, <1>4 DEF Inv, Shape
  <1>6. Fences' BY <1>1, <1>2, <1>4 DEF Fences, ProtectedSet, files
  <1> QED BY <1>1, <1>4, <1>5, <1>6, Starting DEF Audit

LEMMA SweepRunInv ==
  ASSUME Inv, NEW r \in ToSet(runs), SweepRun(r)
  PROVE  Inv'
  <1>1. cmd \in SweepCommand /\ cmd.pc = "sweep" /\ cmd # Idle
    BY Commands DEF Inv, SweepRun, At
  <1>2. /\ cmd' \in SweepCommand /\ cmd'.pc = "sweep" /\ cmd'.kind = cmd.kind /\ cmd'.op = cmd.op
        /\ cmd'.plan.versions = cmd.plan.versions
    BY <1>1 DEF SweepRun, SweepCommand
  <1>3. /\ runs' = Without(runs, r) /\ evidence' = evidence \ {r} /\ temps' = temps \ {r}
        /\ UNCHANGED <<pointer, versions, manifest, caps, ledger, nextOp, hour>>
    BY DEF SweepRun, bounds
  <1>4. /\ runs' \in Seq(Ops) /\ IsInjective(runs') /\ ToSet(runs') = ToSet(runs) \ {r}
    BY <1>3, Removed DEF Inv, Files
  <1>5. Shape' BY <1>2, <1>3 DEF Inv, Shape
  <1>6. Files' BY <1>3, <1>4 DEF Inv, Files, CurrentResolves
  <1>7. Fences' BY <1>1, <1>2, <1>3 DEF Inv, Fences, ProtectedSet
  <1>8. Accounts' BY <1>3 DEF Inv, Accounts, Tombed, CapacityExact
  <1>9. Owners' BY <1>1, <1>2, <1>3, <1>4 DEF Inv, Owners
  <1> QED BY <1>5, <1>6, <1>7, <1>8, <1>9 DEF Inv

LEMMA SweepVersionInv ==
  ASSUME Inv, NEW d \in Digests, SweepVersion(d)
  PROVE  Inv' /\ ToSet(versions') = ToSet(versions) \ {d} /\ d # pointer /\ d \notin manifest
  <1>1. cmd \in SweepCommand /\ cmd.pc = "sweep" /\ cmd # Idle
    BY Commands DEF Inv, SweepVersion, At
  <1>2. /\ cmd' \in SweepCommand /\ cmd'.pc = "sweep" /\ cmd'.kind = cmd.kind /\ cmd'.op = cmd.op
        /\ cmd'.plan.versions = cmd.plan.versions \ {d}
    BY <1>1 DEF SweepVersion, SweepCommand
  <1>3. /\ versions' = Without(versions, d)
        /\ UNCHANGED <<pointer, manifest, runs, evidence, temps, caps, ledger, nextOp, hour>>
    BY DEF SweepVersion, bounds
  <1>4. d # pointer /\ d \notin manifest
    BY <1>1 DEF SweepVersion, Inv, Fences, ProtectedSet
  <1>a. /\ versions' \in Seq(Digests) /\ IsInjective(versions') /\ ToSet(versions') = ToSet(versions) \ {d}
    BY <1>3, Removed DEF Inv, Files
  <1>5. Shape' BY <1>2, <1>3 DEF Inv, Shape
  <1>6. Files' BY <1>3, <1>4, <1>a DEF Inv, Files, CurrentResolves
  <1>7. Fences' BY <1>1, <1>2, <1>3 DEF Inv, Fences, ProtectedSet
  <1>8. Accounts' BY <1>3 DEF Inv, Accounts, Tombed, CapacityExact
  <1>9. Owners' BY <1>1, <1>2, <1>3 DEF Inv, Owners
  <1> QED BY <1>4, <1>5, <1>6, <1>7, <1>8, <1>9, <1>a DEF Inv

LEMMA SweepReportInv ==
  ASSUME Inv, SweepReport
  PROVE  Inv'
  <1>1. /\ cmd \in SweepCommand /\ cmd.pc = "sweep" /\ cmd.kind = "report"
        /\ cmd # Idle /\ cmd.op \in Nat /\ cmd.now \in Int
    BY Commands DEF Inv, SweepReport, At, SweepCommand
  <1>2. UNCHANGED <<files, nextOp, hour>> BY DEF SweepReport, bounds
  <1>3. Accounts' /\ ledger'.open \subseteq ledger.open
    <2>1. PICK delta \in Written["report"] : Settle(cmd.op, delta, cmd.now) BY DEF SweepReport
    <2>2. delta \in Int BY DEF Written
    <2> QED BY <1>1, <1>2, <2>1, <2>2, Settling DEF Inv
  <1>4. Files' BY <1>2 DEF Inv, Files, files, CurrentResolves
  <1>5. CASE End BY <1>2, <1>3, <1>4, <1>5, Ending DEF Inv, Shape, Owners, files
  <1>6. CASE Goto("claim")
    <2>1. /\ cmd' \in SweepCommand /\ cmd'.pc = "claim" /\ cmd'.kind = cmd.kind /\ cmd'.op = cmd.op
      BY <1>1, <1>6 DEF Goto, SweepCommand
    <2>2. Shape' /\ Fences' BY <1>2, <2>1 DEF Inv, Shape, Fences
    <2>3. Owners' BY <1>1, <1>2, <1>3, <2>1 DEF Inv, Owners, files
    <2> QED BY <1>3, <1>4, <2>2, <2>3 DEF Inv
  <1> QED BY <1>5, <1>6 DEF SweepReport

LEMMA ClaimRunInv ==
  ASSUME Inv, ClaimRun
  PROVE  Inv'
  <1> DEFINE kind == IF cmd.kind = "evidence" THEN "evidence" ELSE "run"
  <1>1. /\ cmd.now \in Int /\ nextOp \in Nat
        /\ kind \in Producers /\ kind \in {"run", "evidence"}
    BY Commands DEF Inv, ClaimRun, At, Accounts, Producers
  <1>2. UNCHANGED files /\ hour' = hour BY DEF ClaimRun, bounds
  <1> HIDE DEF kind
  <1>3. CASE Reserve(kind, None, cmd.now, 0) /\ Begin(kind, "mkdir", cmd.now, nextOp, None)
    <2>1. cmd' \in FileCommand /\ cmd'.pc = "mkdir" /\ cmd'.kind = kind /\ cmd'.op = nextOp
      BY <1>1, <1>3, Beginning
    <2>2. Shape' /\ Fences' BY <1>1, <1>2, <2>1 DEF Inv, Shape, Fences
    <2> QED BY <1>1, <1>2, <1>3, <2>1, <2>2, Starting
  <1>4. CASE End /\ UNCHANGED <<ledger, nextOp>>
    <2>1. Files' BY <1>2 DEF Inv, Files, files, CurrentResolves
    <2>2. Accounts' BY <1>4 DEF Inv, Accounts, Tombed, CapacityExact
    <2> QED BY <1>2, <1>4, <2>1, <2>2, Ending DEF Inv, Shape, Owners, files
  <1> QED BY <1>3, <1>4 DEF ClaimRun, kind

LEMMA MakeRunInv ==
  ASSUME Inv, MakeRun
  PROVE  Inv'
  <1>1. /\ cmd \in FileCommand /\ cmd.pc = "mkdir" /\ cmd.kind \in {"run", "evidence"} /\ cmd # Idle
        /\ cmd.op \in Ops /\ cmd.op \notin ToSet(runs) /\ cmd.op < nextOp
    BY Commands DEF Inv, Shape, Owners, MakeRun, At
  <1>2. /\ runs' = Append(runs, cmd.op)
        /\ UNCHANGED <<pointer, versions, manifest, evidence, temps, ledger, nextOp, hour>>
    BY DEF MakeRun, bounds
  <1>3. runs' \in Seq(Ops) /\ IsInjective(runs') /\ ToSet(runs') = ToSet(runs) \cup {cmd.op}
    BY <1>1, <1>2, Appended DEF Inv, Files
  <1>4. Accounts' BY <1>2 DEF Inv, Accounts, Tombed, CapacityExact
  <1>5. CASE cmd.kind = "run"
    <2>1. Goto("commit") /\ UNCHANGED caps BY <1>5 DEF MakeRun
    <2>2. cmd' \in FileCommand /\ cmd'.pc = "commit" /\ cmd'.kind = cmd.kind /\ cmd'.op = cmd.op
      BY <1>1, <2>1, Going
    <2>3. Shape' /\ Fences' BY <1>2, <1>5, <2>2 DEF Inv, Shape, Fences
    <2>4. Files' BY <1>2, <1>3, <2>1 DEF Inv, Files, CurrentResolves
    <2>5. Owners' BY <1>1, <1>2, <1>3, <2>1, <2>2 DEF Inv, Owners
    <2> QED BY <1>4, <2>3, <2>4, <2>5 DEF Inv
  <1>6. CASE cmd.kind = "evidence"
    <2>1. caps' = caps \cup {cmd.op} /\ cmd' = Idle BY <1>6 DEF MakeRun, End
    <2>2. Shape' /\ Fences' BY <1>2, <2>1, IdleFacts DEF Inv, Shape, Fences
    <2>3. Files' BY <1>1, <1>2, <1>3, <2>1 DEF Inv, Files, CurrentResolves
    <2>4. Owners' BY <1>1, <1>2, <1>3, <1>6, <2>1, IdleFacts DEF Inv, Owners
    <2> QED BY <1>4, <2>2, <2>3, <2>4 DEF Inv
  <1> QED BY <1>1, <1>5, <1>6

-----------------------------------------------------------------------------
(* Evidence runs                                                            *)

LEMMA RunInitInv ==
  ASSUME Inv, RunInit
  PROVE  Inv'
  <1>1. /\ hour \in Int /\ nextOp \in Nat /\ hour' = hour /\ UNCHANGED files
        /\ "evidence" \in Producers
    BY DEF Inv, Shape, Accounts, Producers, RunInit, bounds
  <1>2. cmd' \in FileCommand /\ cmd'.pc = "mkdir" /\ cmd'.kind = "evidence" /\ cmd'.op = nextOp
    BY <1>1, Beginning DEF RunInit
  <1>3. Shape' /\ Fences' BY <1>1, <1>2 DEF Inv, Shape, Fences
  <1> QED BY <1>1, <1>2, <1>3, Starting DEF RunInit

LEMMA EvidenceAppendInv ==
  ASSUME Inv, NEW id \in ToSet(runs), EvidenceAppend(id)
  PROVE  Inv'
  <1>1. id \in Ops BY Runs DEF Inv
  <1>2. /\ runs' = Append(Without(runs, id), id)
        /\ evidence' \cup temps' = (evidence \cup temps) \cup {id}
        /\ UNCHANGED <<cmd, pointer, versions, manifest, caps, ledger, nextOp, hour>>
    BY DEF EvidenceAppend
  <1>3. /\ Without(runs, id) \in Seq(Ops) /\ ToSet(Without(runs, id)) = ToSet(runs) \ {id}
        /\ IsInjective(Without(runs, id))
    BY Removed DEF Inv, Files
  <1>4. runs' \in Seq(Ops) /\ IsInjective(runs') /\ ToSet(runs') = ToSet(runs)
    <2> DEFINE w == Without(runs, id)
    <2> HIDE DEF w
    <2>1. w \in Seq(Ops) /\ IsInjective(w) /\ ToSet(w) = ToSet(runs) \ {id} BY <1>3 DEF w
    <2>2. /\ Append(w, id) \in Seq(Ops) /\ IsInjective(Append(w, id))
          /\ ToSet(Append(w, id)) = ToSet(w) \cup {id}
      BY <1>1, <2>1, Appended
    <2>3. runs' = Append(w, id) BY <1>2 DEF w
    <2> QED BY <1>1, <2>1, <2>2, <2>3
  <1>5. Shape' BY <1>2 DEF Inv, Shape
  <1>6. Files' BY <1>1, <1>2, <1>4 DEF Inv, Files, CurrentResolves
  <1>7. Fences' BY <1>2 DEF Inv, Fences, ProtectedSet
  <1>8. Accounts' BY <1>2 DEF Inv, Accounts, Tombed, CapacityExact
  <1>9. Owners' BY <1>2, <1>4 DEF Inv, Owners
  <1> QED BY <1>5, <1>6, <1>7, <1>8, <1>9 DEF Inv

\* The holder of a capability settles what its run takes.
LEMMA SettlingEvidence ==
  ASSUME Inv, NEW id \in caps, Settle(id, Bytes(id), hour), UNCHANGED nextOp
  PROVE  Accounts' /\ ledger'.open \subseteq ledger.open
  <1>1. id \in Nat /\ Bytes(id) \in Int BY DEF Inv, Files, Ops, Bytes
  <1>2. hour \in Int /\ Accounts BY DEF Inv, Shape
  <1> QED BY <1>1, <1>2, Settling

LEMMA RunCommitInv ==
  ASSUME Inv, NEW id \in caps, RunCommit(id)
  PROVE  Inv'
  <1>1. UNCHANGED <<cmd, files, nextOp, hour>> BY DEF RunCommit, bounds
  <1>2. Accounts' /\ ledger'.open \subseteq ledger.open BY <1>1, SettlingEvidence DEF RunCommit
  <1> QED BY <1>1, <1>2, Charging

LEMMA RunAbortInv ==
  ASSUME Inv, NEW id \in caps, RunAbort(id)
  PROVE  Inv'
  <1>1. UNCHANGED <<files, nextOp, hour>> BY DEF RunAbort, bounds
  <1>2. CASE id \in ToSet(runs) /\ EmptyRun(id)
    <2>1. Begin("evidence", "rmdir", hour, id, None) /\ UNCHANGED ledger
      BY <1>2 DEF RunAbort
    <2>2. id \in Nat /\ hour \in Int /\ "evidence" \in Producers
      BY DEF Inv, Files, Ops, Shape, Producers
    <2>3. cmd' \in FileCommand /\ cmd'.pc = "rmdir" /\ cmd'.kind = "evidence" /\ cmd'.op = id
      BY <2>1, <2>2, Beginning
    <2>5. Shape' /\ Fences' BY <1>1, <2>3 DEF Inv, Shape, Fences
    <2>6. Files' BY <1>1 DEF Inv, Files, files, CurrentResolves
    <2>7. Accounts' BY <1>1, <2>1 DEF Inv, Accounts, Tombed, CapacityExact
    <2>8. Owners' BY <1>1, <2>1, <2>3 DEF Inv, Owners, files
    <2> QED BY <2>5, <2>6, <2>7, <2>8 DEF Inv
  <1>3. CASE ~(id \in ToSet(runs) /\ EmptyRun(id))
    <2>1. Settle(id, Bytes(id), hour) /\ UNCHANGED cmd BY <1>3 DEF RunAbort
    <2>2. Accounts' /\ ledger'.open \subseteq ledger.open BY <1>1, <2>1, SettlingEvidence
    <2> QED BY <1>1, <2>1, <2>2, Charging
  <1> QED BY <1>2, <1>3

LEMMA RemoveRunInv ==
  ASSUME Inv, RemoveRun
  PROVE  Inv'
  <1>1. cmd \in FileCommand /\ cmd.pc = "rmdir" /\ cmd.kind = "evidence" /\ cmd # Idle
    BY Commands DEF Inv, Shape, RemoveRun, At
  <1>2. UNCHANGED <<pointer, versions, manifest, evidence, temps, caps, ledger, nextOp, hour>>
    BY DEF RemoveRun, bounds
  <1>3. Accounts' BY <1>2 DEF Inv, Accounts, Tombed, CapacityExact
  <1>4. CASE EmptyRun(cmd.op) /\ runs' = Without(runs, cmd.op) /\ Goto("abort")
    <2>1. /\ cmd' \in FileCommand /\ cmd'.pc = "abort" /\ cmd'.kind = cmd.kind /\ cmd'.op = cmd.op
      BY <1>1, <1>4, Going
    <2>2. runs' \in Seq(Ops) /\ IsInjective(runs') /\ ToSet(runs') = ToSet(runs) \ {cmd.op}
      BY <1>4, Removed DEF Inv, Files
    <2>3. Shape' /\ Fences' BY <1>1, <1>2, <2>1 DEF Inv, Shape, Fences
    <2>4. Files' BY <1>2, <1>4, <2>2 DEF Inv, Files, CurrentResolves, EmptyRun
    <2>5. Owners' BY <1>1, <1>2, <2>1, <2>2 DEF Inv, Owners
    <2> QED BY <1>3, <2>3, <2>4, <2>5 DEF Inv
  <1>5. CASE UNCHANGED runs /\ End
    <2>1. Files' BY <1>2, <1>5 DEF Inv, Files, CurrentResolves
    <2> QED BY <1>2, <1>3, <1>5, <2>1, Ending DEF Inv, Shape, Owners
  <1> QED BY <1>4, <1>5 DEF RemoveRun

-----------------------------------------------------------------------------
(* Failures and the clock                                                   *)

LEMMA CrashInv ==
  ASSUME Inv, Crash
  PROVE  Inv'
  <1>1. UNCHANGED <<files, ledger, nextOp, hour>> /\ End BY DEF Crash
  <1>2. Files' BY <1>1 DEF Inv, Files, files, CurrentResolves
  <1>3. Accounts' BY <1>1 DEF Inv, Accounts, Tombed, CapacityExact
  <1> QED BY <1>1, <1>2, <1>3, Ending DEF Inv, Shape, Owners, files

LEMMA HourInv ==
  ASSUME Inv, Hour
  PROVE  Inv'
  <1>1. UNCHANGED <<cmd, files, ledger, nextOp>> /\ hour' \in Nat BY DEF Hour, Inv, Shape
  <1>2. Files' /\ Fences' BY <1>1 DEF Inv, Files, Fences, files, CurrentResolves, ProtectedSet
  <1>3. Accounts' BY <1>1 DEF Inv, Accounts, Tombed, CapacityExact
  <1>4. Shape' BY <1>1 DEF Inv, Shape
  <1>5. Owners' BY <1>1 DEF Inv, Owners, files
  <1> QED BY <1>2, <1>3, <1>4, <1>5 DEF Inv

-----------------------------------------------------------------------------
(* Theorems                                                                 *)

LEMMA InitInv == Init => Inv
  <1> SUFFICES ASSUME Init PROVE Inv OBVIOUS
  <1>1. Shape /\ Fences BY IdleFacts DEF Init, Shape, Fences
  <1>2. Files BY EmptySet, EmptySeq DEF Init, Files, CurrentResolves
  <1>3. Accounts
    <2>1. IsFiniteSet({}) BY FS_EmptySet
    <2>2. ledger.reserved = Held(ledger.open) BY HeldByNone DEF Init
    <2> QED BY <2>1, <2>2 DEF Init, Accounts, CapacityExact
  <1>4. Owners BY IdleFacts, EmptySet DEF Init, Owners
  <1> QED BY <1>1, <1>2, <1>3, <1>4 DEF Inv

LEMMA StutterInv == Inv /\ UNCHANGED vars => Inv'
  <1> SUFFICES ASSUME Inv, UNCHANGED vars PROVE Inv' OBVIOUS
  <1>1. UNCHANGED <<cmd, files, nextOp, hour, ledger>> BY DEF vars, bounds
  <1>2. Accounts' BY <1>1 DEF Inv, Accounts, Tombed, CapacityExact
  <1> QED BY <1>1, <1>2, Charging

LEMMA NextInv == Inv /\ [Next]_vars => Inv'
  <1> SUFFICES ASSUME Inv, [Next]_vars PROVE Inv' OBVIOUS
  <1>1. CASE PromoteStep
    BY <1>1, PromoteInv, AlreadyCurrentInv, SettleMatchingInv, WriteVersionInv, SwitchPointerInv
    DEF PromoteStep
  <1>2. CASE ManifestStep BY <1>2, ProtectInv, WriteManifestInv DEF ManifestStep
  <1>3. CASE AuditStep
    BY <1>3, AuditInv, SweepReportInv, ClaimRunInv, SweepRunInv, SweepVersionInv DEF AuditStep
  <1>4. CASE EvidenceStep
    BY <1>4, RunInitInv, RemoveRunInv, AbortRunInv, EvidenceAppendInv, RunCommitInv, RunAbortInv
    DEF EvidenceStep
  <1>5. CASE MakeRun BY <1>5, MakeRunInv
  <1>6. CASE Commit BY <1>6, CommitInv
  <1>7. CASE WriteFails BY <1>7, WriteFailsInv
  <1>8. CASE Crash BY <1>8, CrashInv
  <1>10. CASE Hour BY <1>10, HourInv
  <1>11. CASE UNCHANGED vars BY <1>11, StutterInv
  <1> QED BY <1>1, <1>2, <1>3, <1>4, <1>5, <1>6, <1>7, <1>8, <1>10, <1>11 DEF Next

\* The inductive invariant: command records, files, fences, accounts and owners.
THEOREM Invariance == Spec => []Inv
  BY InitInv, NextInv, PTL DEF Spec

\* Files and ledger are well formed: no version or run twice, evidence only in a
\* run that is there, no operation open and settled.
THEOREM TypeCorrect == Spec => []TypeOK
  <1>1. Inv => TypeOK
    <2> SUFFICES ASSUME Inv PROVE TypeOK OBVIOUS
    <2>1. ledger.total \in Nat /\ ledger.reserved \in Nat BY DEF Inv, Accounts
    <2>2. \A r \in ledger.open : r.id < nextOp /\ r.kind \in Producers /\ ~Tombed(r.id)
      BY DEF Inv, Accounts, Reservation
    <2> QED BY <2>1, <2>2 DEF Inv, Files, TypeOK
  <1> QED BY Invariance, <1>1, PTL

\* current.json names a version file that is there, wherever a promotion
\* (promote_locked_inner) crashes or fails and whatever a sweep removes.
THEOREM PointerResolves == Spec => []CurrentResolves
  <1>1. Inv => CurrentResolves BY DEF Inv, Files
  <1> QED BY Invariance, <1>1, PTL

\* The reserved bytes of the capacity ledger are those of the open reservations,
\* whatever settle_locked charges for them, whether it is less or more than was
\* held, and whatever is aborted, reclaimed or settled by a later command.
THEOREM CapacityIsExact == Spec => []CapacityExact
  <1>1. Inv => CapacityExact BY DEF Inv, Accounts
  <1> QED BY Invariance, <1>1, PTL

\* Which steps move the versions or the pointer, and how.
LEMMA FileSteps ==
  ASSUME Inv, [Next]_vars
  PROVE  /\ \A d \in ToSet(versions) \ ToSet(versions') : d # pointer /\ d \notin manifest
         /\ pointer' # pointer => cmd.fence = pointer
  <1>1. CASE UNCHANGED <<pointer, versions>> BY <1>1
  <1>2. CASE WriteVersion
    <2>1. versions' = WithVersion(cmd.d) /\ cmd.d \in Digests /\ pointer' = pointer
      BY <1>2 DEF WriteVersion, At, Inv, Shape
    <2> QED BY <2>1, Versions DEF Inv
  <1>3. CASE SwitchPointer
    BY <1>3 DEF SwitchPointer, At, Inv, Fences
  <1>4. CASE WriteFails
    <2>1. CASE At("version") /\ versions' = WithVersion(cmd.d) /\ UNCHANGED <<pointer, manifest, runs>>
      <3>1. cmd.d \in Digests BY <2>1 DEF At, Inv, Shape
      <3> QED BY <2>1, <3>1, Versions DEF Inv
    <2>2. CASE At("pointer") /\ pointer' = cmd.d /\ UNCHANGED <<versions, manifest, runs>>
      BY <2>2 DEF At, Inv, Fences
    <2> QED BY <1>1, <1>4, <2>1, <2>2 DEF WriteFails
  <1>5. ASSUME NEW d \in Digests, SweepVersion(d)
        PROVE  /\ \A e \in ToSet(versions) \ ToSet(versions') : e # pointer /\ e \notin manifest
               /\ pointer' = pointer
    BY <1>5, SweepVersionInv DEF SweepVersion
  <1>6. CASE PromoteStep
    BY <1>1, <1>2, <1>3, <1>6 DEF PromoteStep, Promote, AlreadyCurrent, SettleMatching, files
  <1>7. CASE ManifestStep
    BY <1>1, <1>7 DEF ManifestStep, Protect, Unprotect, WriteManifest, files
  <1>8. CASE AuditStep
    <2>1. CASE \E d \in Digests : SweepVersion(d) BY <1>5, <2>1
    <2>2. CASE Audit \/ SweepReport \/ ClaimRun \/ \E r \in ToSet(runs) : SweepRun(r)
      BY <1>1, <2>2 DEF Audit, SweepReport, ClaimRun, SweepRun, files
    <2> QED BY <1>8, <2>1, <2>2 DEF AuditStep
  <1>9. CASE EvidenceStep
    BY <1>1, <1>9
    DEF EvidenceStep, RunInit, RunAbort, RemoveRun, AbortRun, EvidenceAppend, RunCommit, files
  <1>10. CASE MakeRun \/ Commit \/ Crash \/ Hour \/ UNCHANGED vars
    BY <1>1, <1>10 DEF MakeRun, Commit, Crash, Hour, vars, files
  <1> QED BY <1>4, <1>6, <1>7, <1>8, <1>9, <1>10 DEF Next

\* execute_removal_plan deletes no version that is current or protected at that
\* moment, although the plan was made, and the report admitted, in earlier steps.
THEOREM ProtectedIsKept == Spec => ProtectedKept
  <1>1. Inv /\ [Next]_vars =>
          [\A d \in ToSet(versions) \ ToSet(versions') : d # pointer /\ d \notin manifest]_vars
    BY FileSteps
  <1> QED BY Invariance, <1>1, PTL DEF Spec, ProtectedKept

\* Whenever write_current_pointer changes the pointer it replaces the digest that
\* the operator of the promotion expected.
THEOREM PromotionsAreFenced == Spec => PromotedFromExpected
  <1>1. Inv /\ [Next]_vars => [pointer' # pointer => cmd.fence = pointer]_vars
    BY FileSteps
  <1> QED BY Invariance, <1>1, PTL DEF Spec, PromotedFromExpected
=============================================================================
