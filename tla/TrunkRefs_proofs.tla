-------------------------- MODULE TrunkRefs_proofs --------------------------
(***************************************************************************)
(* Theorems about TrunkRefs: while every writer holds the lock and none    *)
(* detaches an import repository, the rows are the root tree's subtrees    *)
(* (I3); and whatever happens no row's history is rewritten.               *)
(***************************************************************************)
EXTENDS TrunkRefs, FiniteSetTheorems, TLAPS

TypeInv == RowsOK /\ OpsOK /\ WalksOK
Inv == TypeInv /\ ViewConsistent

----------------------------------------------------------------------------
(* Trees.                                                                  *)

LEMMA UnderFacts ==
  ASSUME NEW p \in Paths
  PROVE  /\ p \in Under[p] /\ Under[p] \subseteq Paths
         /\ Above(p) \subseteq Paths /\ p \notin Above(p) /\ p \notin Below(p)
         /\ p # Root => Root \in Above(p)
         /\ \A q \in Under[p] : Under[q] \subseteq Under[p]
  BY RefsAssumption DEF Above, Below

LEMMA SubTyped ==
  ASSUME NEW t \in TreesAt(Root), NEW p \in Paths, t[p] # Absent
  PROVE  Sub(t, p) \in TreesAt(p)
  <1>1. t \in [Paths -> Versions \cup {Absent}]
    BY RefsAssumption DEF TreesAt
  <1>2. \A q \in Paths : t[q] # Absent => \A a \in Above(q) \cap Paths : t[a] # Absent
    BY RefsAssumption DEF TreesAt
  <1>3. \A q \in Under[p] : q \in Paths BY UnderFacts
  <1>4. Sub(t, p) \in [Under[p] -> Versions \cup {Absent}] BY <1>1, <1>3 DEF Sub
  <1>5. \A q \in Under[p] : Sub(t, p)[q] = t[q] BY DEF Sub
  <1>6. \A q \in Under[p] : Sub(t, p)[q] # Absent =>
           \A a \in Above(q) \cap Under[p] : Sub(t, p)[a] # Absent
    BY <1>2, <1>3, <1>5
  <1>7. Sub(t, p)[p] # Absent BY <1>5, UnderFacts
  <1> HIDE DEF Sub
  <1> QED BY <1>4, <1>6, <1>7 DEF TreesAt

LEMMA SubOfRoot == ASSUME NEW t \in TreesAt(Root) PROVE Sub(t, Root) = t
  BY RefsAssumption DEF Sub, TreesAt

\* Two trees that agree below p have the same subtrees there.
LEMMA SubAgrees ==
  ASSUME NEW p \in Paths, NEW q \in Under[p], NEW s, NEW t, Sub(s, p) = Sub(t, p)
  PROVE  Sub(s, q) = Sub(t, q)
  <1>1. \A x \in Under[p] : s[x] = t[x]
    <2> TAKE x \in Under[p]
    <2>1. Sub(s, p)[x] = s[x] /\ Sub(t, p)[x] = t[x] BY DEF Sub
    <2> QED BY <2>1
  <1>2. Under[q] \subseteq Under[p] BY UnderFacts
  <1> QED BY <1>1, <1>2 DEF Sub

LEMMA SubOfSub ==
  ASSUME NEW p \in Paths, NEW q \in Under[p], NEW t
  PROVE  Sub(Sub(t, p), q) = Sub(t, q)
  <1>1. Under[q] \subseteq Under[p] BY UnderFacts
  <1> QED BY <1>1 DEF Sub

LEMMA GraftFacts ==
  ASSUME rootTree \in TreesAt(Root), NEW p \in Paths, NEW t \in TreesAt(p)
  PROVE  /\ Graft(p, t) \in TreesAt(Root)
         /\ Sub(Graft(p, t), p) = t
         /\ \A a \in Above(p) : Graft(p, t)[a] # Absent
         /\ \A q \in Paths \ (Under[p] \cup Above(p)) :
              Sub(Graft(p, t), q) = Sub(rootTree, q)
  <1> DEFINE g == Graft(p, t)
  <1>1. /\ rootTree \in [Paths -> Versions \cup {Absent}] /\ rootTree[Root] # Absent
        /\ \A q \in Paths : rootTree[q] # Absent => \A a \in Above(q) : rootTree[a] # Absent
    BY RefsAssumption DEF TreesAt, Above
  <1>2. /\ t \in [Under[p] -> Versions \cup {Absent}] /\ t[p] # Absent
        /\ \A q \in Under[p] : t[q] # Absent => \A a \in Above(q) \cap Under[p] : t[a] # Absent
    BY DEF TreesAt
  <1>3. /\ \A q \in Under[p] : g[q] = t[q]
        /\ \A q \in Above(p) : q \notin Under[p]
              /\ g[q] = IF rootTree[q] = Absent THEN Placeholder ELSE rootTree[q]
        /\ \A q \in Paths \ (Under[p] \cup Above(p)) : g[q] = rootTree[q]
    BY RefsAssumption, UnderFacts DEF Graft, Above
  <1>4. g \in [Paths -> Versions \cup {Absent}]
    BY <1>1, <1>2, RefsAssumption, UnderFacts DEF Graft
  <1>5. \A a \in Above(p) : g[a] # Absent BY <1>3, RefsAssumption
  <1>6. \A q \in Paths : g[q] # Absent => \A a \in Above(q) : g[a] # Absent
    <2> SUFFICES ASSUME NEW q \in Paths, g[q] # Absent, NEW a \in Above(q)
                 PROVE  g[a] # Absent
      OBVIOUS
    <2>0. a \in Paths /\ q \in Under[a] /\ a # q BY DEF Above
    <2>1. CASE q \in Under[p]
      <3>1. a \in Under[p] \/ a \in Above(p)
        BY <2>0, <2>1, RefsAssumption DEF Above
      <3> QED BY <2>1, <3>1, <1>2, <1>3, <1>5
    <2>2. CASE q \in Above(p)
      <3>1. a \in Above(p) BY <2>0, <2>2, RefsAssumption DEF Above
      <3> QED BY <3>1, <1>5
    <2>3. CASE q \notin Under[p] /\ q \notin Above(p)
      <3>1. a \notin Under[p] BY <2>0, <2>3, RefsAssumption
      <3>2. rootTree[a] # Absent BY <2>3, <1>1, <1>3
      <3> QED BY <2>0, <3>1, <3>2, <1>3, <1>5
    <2> QED BY <2>1, <2>2, <2>3
  <1>7. g[Root] # Absent
    BY <1>1, <1>2, <1>3, <1>5, UnderFacts, RefsAssumption DEF Above
  <1>8. g \in TreesAt(Root)
    <2> HIDE DEF g
    <2> QED BY <1>4, <1>6, <1>7, RefsAssumption DEF TreesAt
  <1>9. Sub(g, p) = t BY <1>2, <1>3 DEF Sub
  <1>10. ASSUME NEW q \in Paths \ (Under[p] \cup Above(p)) PROVE Sub(g, q) = Sub(rootTree, q)
    <2>1. ASSUME NEW x \in Under[q] PROVE g[x] = rootTree[x]
      <3>1. x \in Paths BY UnderFacts
      <3>2. x \notin Under[p] BY <3>1, RefsAssumption DEF Above
      <3>3. x \notin Above(p) BY <3>1, UnderFacts, RefsAssumption DEF Above
      <3> QED BY <3>1, <3>2, <3>3, <1>3
    <2> QED BY <2>1 DEF Sub
  <1> QED BY <1>5, <1>8, <1>9, <1>10

----------------------------------------------------------------------------
(* Lines.                                                                  *)

LEMMA PrefixAppend ==
  ASSUME NEW s \in Lines, NEW c \in Nat
  PROVE  /\ IsPrefix(s, s) /\ IsPrefix(s, Append(s, c))
         /\ Append(s, c) \in Lines \ {<<>>}
  BY DEF IsPrefix, Lines

LEMMA RowFacts ==
  ASSUME RowsOK
  PROVE  /\ clock \in Nat /\ Commit \in Nat
         /\ Has(Root) /\ row[Root] \in RowsAt(Root) /\ rootTree \in TreesAt(Root)
         /\ \A p \in Paths : Has(p) => /\ row[p] \in RowsAt(p) /\ row[p].line \in Lines
                                       /\ row[p].tree \in TreesAt(p)
         /\ \A p \in Paths : row[p].line \in Lines
  <1>1. Root \in Paths BY RefsAssumption
  <1>2. row[Root] \in RowsAt(Root) BY <1>1 DEF RowsOK
  <1>3. row[Root].line # <<>> BY <1>2 DEF RowsAt
  <1>4. Has(Root) BY <1>3 DEF Has, NoRow
  <1>5. <<>> \in Lines /\ NoRow.line = <<>> BY DEF Lines, NoRow
  <1>6. \A p \in Paths : row[p] \in RowsAt(p) => row[p].line \in Lines BY DEF RowsAt
  <1>7. \A p \in Paths : row[p].line \in Lines BY <1>5, <1>6 DEF RowsOK
  <1> QED BY <1>2, <1>4, <1>7 DEF RowsOK, RowsAt, Has, rootTree, Commit

\* A row that is continued.
LEMMA ContinueRow ==
  ASSUME RowsOK, NEW p \in Paths, NEW t \in TreesAt(p)
  PROVE  /\ Continue(row[p], t) \in RowsAt(p) /\ Continue(row[p], t) # NoRow
         /\ Continue(row[p], t).tree = t
         /\ IsPrefix(row[p].line, Continue(row[p], t).line)
  <1>1. row[p].line \in Lines BY RowFacts
  <1>2. Commit \in Nat BY RowFacts
  <1>3. Append(row[p].line, Commit) \in Lines \ {<<>>}
        /\ IsPrefix(row[p].line, Append(row[p].line, Commit))
    BY <1>1, <1>2, PrefixAppend
  <1>4. Append(row[p].line, Commit) # <<>> BY <1>3
  <1> QED BY <1>3, <1>4 DEF Continue, RowsAt, NoRow

----------------------------------------------------------------------------
(* The transaction of a push or a merge.                                   *)

\* What a writing step may do to the history of a row.
Kept == \A p \in Paths : Has(p) =>
          IF row'[p] # NoRow THEN IsPrefix(row[p].line, row'[p].line)
          ELSE p # Root /\ tomb'[p] = row[p].line

Lifted(p, t, lift) == \A a \in Above(p) :
  /\ lift[a] \in RowsAt(a) \/ (a # Root /\ lift[a] = NoRow)
  /\ lift[a] # NoRow => lift[a].tree = Sub(t, a)
  /\ Has(a) => lift[a] # NoRow /\ IsPrefix(row[a].line, lift[a].line)

LEMMA AdvanceFacts ==
  ASSUME RowsOK, NEW p \in Paths, NEW t \in TreesAt(Root), NEW d \in Below(p), NEW old
  PROVE  LET r == Advance(d, p, old, t)
         IN /\ d \in Dirs
            /\ r \in RowsAt(d) \/ r = NoRow
            /\ r # row[d] /\ r # NoRow => r.tree = Sub(t, d)
            /\ Has(d) => \/ r # NoRow /\ IsPrefix(row[d].line, r.line)
                         \/ r = NoRow /\ Vanishes(d, p, old, t)
            /\ Vanishes(d, p, old, t) => Has(d) /\ r = NoRow
  <1>1. d \in Paths /\ d # Root BY RefsAssumption DEF Below
  <1>2. row[d] \in RowsAt(d) \/ row[d] = NoRow BY <1>1 DEF RowsOK
  <1>3. Has(d) => IsPrefix(row[d].line, row[d].line)
    BY <1>1, RowFacts, PrefixAppend, 0 \in Nat
  <1>4. CASE ~Has(d) \/ Unchanged(d, p, old, t)
    <2>1. Advance(d, p, old, t) = row[d] BY <1>4 DEF Advance
    <2>2. ~Vanishes(d, p, old, t) BY <1>4 DEF Vanishes
    <2> QED BY <1>1, <1>2, <1>3, <2>1, <2>2 DEF Has, Dirs
  <1>5. CASE Has(d) /\ ~Unchanged(d, p, old, t) /\ t[d] = Absent
    BY <1>1, <1>5 DEF Advance, Vanishes, Dirs
  <1>6. CASE Has(d) /\ ~Unchanged(d, p, old, t) /\ t[d] # Absent
    <2>1. Sub(t, d) \in TreesAt(d) BY <1>1, <1>6, SubTyped
    <2>2. Advance(d, p, old, t) = Continue(row[d], Sub(t, d)) BY <1>6 DEF Advance
    <2>3. ~Vanishes(d, p, old, t) BY <1>6 DEF Vanishes
    <2> QED BY <1>1, <2>1, <2>2, <2>3, ContinueRow DEF Dirs
  <1> QED BY <1>4, <1>5, <1>6

\* A row below the written path that is left alone already has the new tree.
LEMMA UnchangedView ==
  ASSUME RowsOK, ViewConsistent, NEW p \in Paths, NEW t, NEW d \in Below(p),
         Has(d), Unchanged(d, p, row[p].tree, t)
  PROVE  row[d].tree = Sub(t, d)
  <1>1. d \in Paths /\ d \in Under[p] BY RefsAssumption DEF Below
  <1>2. row[d].tree = Sub(rootTree, d) BY <1>1 DEF ViewConsistent
  <1>3. ASSUME NEW q \in Below(p), d \in Under[q], row[p].tree # <<>>,
               Sub(row[p].tree, q) = Sub(t, q)
        PROVE  row[d].tree = Sub(t, d)
    <2>1. q \in Paths /\ q \in Under[p] BY RefsAssumption DEF Below
    <2>2. Has(p) BY <1>3 DEF Has, NoRow
    <2>3. row[p].tree = Sub(rootTree, p) BY <2>2 DEF ViewConsistent
    <2>4. Sub(rootTree, q) = Sub(t, q) BY <1>3, <2>1, <2>3, SubOfSub
    <2> QED BY <1>2, <1>3, <2>1, <2>4, SubAgrees
  <1>4. ASSUME NEW u \in Below(p), d \in Under[u], Has(u), row[u].tree = Sub(t, u)
        PROVE  row[d].tree = Sub(t, d)
    <2>1. u \in Paths BY RefsAssumption DEF Below
    <2>2. Sub(rootTree, u) = Sub(t, u) BY <1>4, <2>1 DEF ViewConsistent
    <2> QED BY <1>2, <1>4, <2>1, <2>2, SubAgrees
  <1> QED BY <1>3, <1>4 DEF Unchanged

LEMMA WriteRows ==
  ASSUME RowsOK, NEW p \in Paths, NEW t \in TreesAt(Root), NEW top \in RowsAt(p), NEW lift,
         Lifted(p, t, lift), Write(p, t, top, lift),
         Has(p) => IsPrefix(row[p].line, top.line)
  PROVE  RowsOK' /\ Kept
  <1> DEFINE old == row[p].tree
  <1>1. /\ row' = [q \in Paths |->
                    IF q = p THEN top
                    ELSE IF q \in Above(p) THEN lift[q]
                    ELSE IF q \in Below(p) THEN Advance(q, p, old, t)
                    ELSE row[q]]
        /\ tomb' = [q \in Dirs |->
                     IF q \in Below(p) /\ Vanishes(q, p, old, t) THEN row[q].line
                     ELSE tomb[q]]
        /\ clock' = Commit
    BY DEF Write
  <1>2. top # NoRow
    <2>1. top.line # <<>> BY DEF RowsAt
    <2> QED BY <2>1 DEF NoRow
  <1>3. \A d \in Below(p) :
           /\ d \in Dirs
           /\ Advance(d, p, old, t) \in RowsAt(d) \/ Advance(d, p, old, t) = NoRow
           /\ Has(d) => \/ /\ Advance(d, p, old, t) # NoRow
                           /\ IsPrefix(row[d].line, Advance(d, p, old, t).line)
                        \/ Advance(d, p, old, t) = NoRow /\ Vanishes(d, p, old, t)
    BY AdvanceFacts
  <1>4. \A q \in Paths : row'[q] \in RowsAt(q) \/ (q # Root /\ row'[q] = NoRow)
    <2> TAKE q \in Paths
    <2>1. CASE q = p BY <1>1, <2>1
    <2>2. CASE q # p /\ q \in Above(p) BY <1>1, <2>2 DEF Lifted
    <2>3. CASE q # p /\ q \notin Above(p) /\ q \in Below(p) BY <1>1, <1>3, <2>3 DEF Dirs
    <2>4. CASE q # p /\ q \notin Above(p) /\ q \notin Below(p) BY <1>1, <2>4 DEF RowsOK
    <2> QED BY <2>1, <2>2, <2>3, <2>4
  <1>5. \A q \in Paths : row[q].line \in Lines BY RowFacts
  <1>6. tomb' \in [Dirs -> Lines] BY <1>1, <1>5 DEF RowsOK, Dirs
  <1>7. RowsOK' BY <1>1, <1>4, <1>6, RowFacts DEF RowsOK
  <1>8. Kept
    <2> SUFFICES ASSUME NEW q \in Paths, Has(q)
                 PROVE  IF row'[q] # NoRow THEN IsPrefix(row[q].line, row'[q].line)
                        ELSE q # Root /\ tomb'[q] = row[q].line
      BY DEF Kept
    <2>0. IsPrefix(row[q].line, row[q].line) BY <1>5, PrefixAppend, 0 \in Nat
    <2>1. CASE q = p BY <1>1, <1>2, <2>1
    <2>2. CASE q # p /\ q \in Above(p) BY <1>1, <2>2 DEF Lifted
    <2>3. CASE q # p /\ q \notin Above(p) /\ q \in Below(p) BY <1>1, <1>3, <2>3 DEF Dirs
    <2>4. CASE q # p /\ q \notin Above(p) /\ q \notin Below(p) BY <1>1, <2>0, <2>4 DEF Has
    <2> QED BY <2>1, <2>2, <2>3, <2>4
  <1> QED BY <1>7, <1>8

LEMMA WriteView ==
  ASSUME RowsOK, ViewConsistent,
         NEW p \in Paths, NEW t \in TreesAt(Root), NEW top, NEW lift,
         Lifted(p, t, lift), Write(p, t, top, lift), top.tree = Sub(t, p),
         \A q \in Paths \ (Under[p] \cup Above(p)) : Sub(t, q) = Sub(rootTree, q)
  PROVE  ViewConsistent'
  <1> DEFINE old == row[p].tree
  <1>1. row' = [q \in Paths |->
                    IF q = p THEN top
                    ELSE IF q \in Above(p) THEN lift[q]
                    ELSE IF q \in Below(p) THEN Advance(q, p, old, t)
                    ELSE row[q]]
    BY DEF Write
  <1>2. Root \in Paths /\ Has(Root) BY RowFacts, RefsAssumption
  <1>3. rootTree' = t
    <2>1. Sub(t, Root) = t BY SubOfRoot
    <2>2. CASE p = Root BY <1>1, <1>2, <2>1, <2>2 DEF rootTree
    <2>3. CASE p # Root
      <3>1. Root \in Above(p) BY <2>3, UnderFacts
      <3>2. row'[Root] = lift[Root] BY <1>1, <1>2, <2>3, <3>1
      <3>3. lift[Root].tree = Sub(t, Root) BY <1>2, <3>1 DEF Lifted
      <3> QED BY <2>1, <3>2, <3>3 DEF rootTree
    <2> QED BY <2>2, <2>3
  <1>4. ASSUME NEW q \in Paths, row'[q] # NoRow PROVE row'[q].tree = Sub(t, q)
    <2>1. CASE q = p BY <1>1, <2>1
    <2>2. CASE q # p /\ q \in Above(p) BY <1>1, <1>4, <2>2 DEF Lifted
    <2>3. CASE q # p /\ q \notin Above(p) /\ q \in Below(p)
      <3>1. row'[q] = Advance(q, p, old, t) BY <1>1, <2>3
      <3>2. CASE row'[q] # row[q] BY <1>4, <2>3, <3>1, <3>2, AdvanceFacts
      <3>3. CASE row'[q] = row[q]
        <4>1. Has(q) BY <1>4, <3>3 DEF Has
        <4>2. CASE Unchanged(q, p, old, t) BY <2>3, <3>3, <4>1, <4>2, UnchangedView
        <4>3. CASE ~Unchanged(q, p, old, t)
          <5>1. t[q] # Absent BY <1>4, <3>1, <4>1, <4>3 DEF Advance
          <5>2. row'[q] = Continue(row[q], Sub(t, q)) BY <3>1, <4>1, <4>3, <5>1 DEF Advance
          <5> QED BY <5>2 DEF Continue
        <4> QED BY <4>2, <4>3
      <3> QED BY <3>2, <3>3
    <2>4. CASE q # p /\ q \notin Above(p) /\ q \notin Below(p)
      <3>1. row'[q] = row[q] BY <1>1, <2>4
      <3>2. q \in Paths \ (Under[p] \cup Above(p)) BY <2>4 DEF Below
      <3>3. row[q].tree = Sub(rootTree, q) BY <1>4, <3>1 DEF ViewConsistent, Has
      <3> QED BY <3>1, <3>2, <3>3
    <2> QED BY <2>1, <2>2, <2>3, <2>4
  <1>5. \A q \in Paths : row'[q] # NoRow => row'[q].tree = Sub(rootTree', q) BY <1>3, <1>4
  <1> QED BY <1>5 DEF ViewConsistent, Has, Sub

\* A transaction that deletes rows, none of them the root's.
LEMMA BuryRows ==
  ASSUME RowsOK, NEW S, Root \notin S, Bury(S)
  PROVE  RowsOK' /\ Kept /\ (ViewConsistent => ViewConsistent')
  <1>1. /\ row' = [p \in Paths |-> IF p \in S THEN NoRow ELSE row[p]]
        /\ tomb' = [p \in Dirs |-> IF p \in S THEN row[p].line ELSE tomb[p]]
        /\ clock' = clock
    BY DEF Bury
  <1>2. \A q \in Paths : row[q].line \in Lines BY RowFacts
  <1>3. \A p \in Paths : row'[p] \in RowsAt(p) \/ (p # Root /\ row'[p] = NoRow)
    BY <1>1 DEF RowsOK
  <1>4. tomb' \in [Dirs -> Lines] BY <1>1, <1>2 DEF RowsOK, Dirs
  <1>5. RowsOK' BY <1>1, <1>3, <1>4 DEF RowsOK
  <1>6. \A q \in Paths : IsPrefix(row[q].line, row[q].line) BY <1>2, PrefixAppend, 0 \in Nat
  <1>7. Kept BY <1>1, <1>6 DEF Kept, Has, Dirs
  <1>8. Root \in Paths BY RefsAssumption
  <1>9. rootTree' = rootTree BY <1>1, <1>8 DEF rootTree
  <1>10. ViewConsistent => ViewConsistent' BY <1>1, <1>9 DEF ViewConsistent, Has, Sub
  <1> QED BY <1>5, <1>7, <1>10

LEMMA RootNotStale == ASSUME RowsOK PROVE ~Stale(Root)
  BY RowFacts, SubOfRoot DEF Stale, rootTree

LEMMA SameRows ==
  ASSUME RowsOK, UNCHANGED <<row, tomb, clock>>
  PROVE  RowsOK' /\ Kept /\ (ViewConsistent => ViewConsistent')
  <1>1. \A q \in Paths : IsPrefix(row[q].line, row[q].line)
    BY RowFacts, PrefixAppend, 0 \in Nat
  <1> QED BY <1>1 DEF RowsOK, Kept, Has, ViewConsistent, Sub, rootTree

----------------------------------------------------------------------------
(* What each action does to the rows.                                      *)

RowsStep == RowsOK' /\ Kept /\ (ViewConsistent => ViewConsistent')

LEMMA PushRows ==
  ASSUME RowsOK, OpsOK, NEW w \in Writers, LandPush(w)
  PROVE  RowsStep
  <1> DEFINE p == op[w].path
             t == Graft(p, op[w].tree)
             lift == [a \in Above(p) |-> RollUp(a, t)]
             top == [line |-> Append(op[w].old, Commit), tree |-> op[w].tree]
  <1>1. p \in Paths /\ op[w].tree \in TreesAt(p) /\ op[w].old \in Lines
    BY DEF LandPush, OpsOK
  <1>2. PushGate(w) /\ Write(p, t, top, lift) BY DEF LandPush
  <1>3. /\ t \in TreesAt(Root) /\ Sub(t, p) = op[w].tree
        /\ \A a \in Above(p) : t[a] # Absent
        /\ \A q \in Paths \ (Under[p] \cup Above(p)) : Sub(t, q) = Sub(rootTree, q)
    BY <1>1, RowFacts, GraftFacts
  <1>4. Append(op[w].old, Commit) \in Lines \ {<<>>}
        /\ IsPrefix(op[w].old, Append(op[w].old, Commit))
    BY <1>1, RowFacts, PrefixAppend
  <1>5. top \in RowsAt(p) /\ top.tree = op[w].tree BY <1>1, <1>4 DEF RowsAt
  <1>6. Has(p) => IsPrefix(row[p].line, top.line) BY <1>2, <1>4 DEF PushGate
  <1>7. Lifted(p, t, lift)
    <2> HIDE DEF p, t
    <2>1. ASSUME NEW a \in Above(p)
          PROVE  /\ lift[a] \in RowsAt(a) /\ lift[a] # NoRow /\ lift[a].tree = Sub(t, a)
                 /\ IsPrefix(row[a].line, lift[a].line)
      <3>1. a \in Paths BY UnderFacts, <1>1
      <3>2. lift[a] = RollUp(a, t) OBVIOUS
      <3>3. CASE Has(a) /\ row[a].tree = Sub(t, a)
        <4>1. lift[a] = row[a] BY <3>2, <3>3 DEF RollUp
        <4>2. IsPrefix(row[a].line, row[a].line) BY <3>1, RowFacts, PrefixAppend, 0 \in Nat
        <4>3. row[a] \in RowsAt(a) /\ row[a] # NoRow BY <3>1, <3>3, RowFacts DEF Has
        <4> QED BY <3>3, <4>1, <4>2, <4>3
      <3>4. CASE ~(Has(a) /\ row[a].tree = Sub(t, a))
        <4>1. lift[a] = Continue(row[a], Sub(t, a)) BY <3>2, <3>4 DEF RollUp
        <4>2. Sub(t, a) \in TreesAt(a) BY <1>3, <3>1, SubTyped
        <4> QED BY <3>1, <4>1, <4>2, ContinueRow
      <3> QED BY <3>3, <3>4
    <2> HIDE DEF lift
    <2> QED BY <2>1 DEF Lifted
  <1> HIDE DEF p, t, lift, top
  <1>8. RowsOK' /\ Kept BY <1>1, <1>2, <1>3, <1>5, <1>6, <1>7, WriteRows
  <1>9. ViewConsistent => ViewConsistent'
    BY <1>1, <1>2, <1>3, <1>5, <1>7, WriteView
  <1> QED BY <1>8, <1>9 DEF RowsStep

LEMMA MergeRows ==
  ASSUME RowsOK, OpsOK, NEW w \in Writers, LandMerge(w)
  PROVE  RowsStep
  <1> DEFINE p == op[w].path
             t == Graft(p, op[w].tree)
             lift == [a \in Above(p) |->
                        IF Has(a) THEN Continue(row[a], Sub(t, a)) ELSE NoRow]
             top == Continue(row[p], op[w].tree)
  <1>1. p \in Paths /\ op[w].tree \in TreesAt(p) BY DEF LandMerge, OpsOK
  <1>2. Write(p, t, top, lift) BY DEF LandMerge
  <1>3. /\ t \in TreesAt(Root) /\ Sub(t, p) = op[w].tree
        /\ \A a \in Above(p) : t[a] # Absent
        /\ \A q \in Paths \ (Under[p] \cup Above(p)) : Sub(t, q) = Sub(rootTree, q)
    BY <1>1, RowFacts, GraftFacts
  <1>4. /\ top \in RowsAt(p) /\ top.tree = op[w].tree
        /\ IsPrefix(row[p].line, top.line)
    BY <1>1, ContinueRow
  <1>5. Lifted(p, t, lift)
    <2> HIDE DEF p, t
    <2>1. ASSUME NEW a \in Above(p), Has(a)
          PROVE  /\ lift[a] \in RowsAt(a) /\ lift[a] # NoRow /\ lift[a].tree = Sub(t, a)
                 /\ IsPrefix(row[a].line, lift[a].line)
      <3>1. a \in Paths BY UnderFacts, <1>1
      <3>2. lift[a] = Continue(row[a], Sub(t, a)) BY <2>1
      <3>3. Sub(t, a) \in TreesAt(a) BY <1>3, <3>1, SubTyped
      <3> QED BY <3>1, <3>2, <3>3, ContinueRow
    <2>2. ASSUME NEW a \in Above(p), ~Has(a) PROVE a # Root /\ lift[a] = NoRow
      BY <2>2, RowFacts
    <2> HIDE DEF lift
    <2> QED BY <2>1, <2>2 DEF Lifted
  <1> HIDE DEF p, t, lift, top
  <1>6. RowsOK' /\ Kept BY <1>1, <1>2, <1>3, <1>4, <1>5, WriteRows
  <1>7. ViewConsistent => ViewConsistent'
    BY <1>1, <1>2, <1>3, <1>4, <1>5, WriteView
  <1> QED BY <1>6, <1>7 DEF RowsStep

LEMMA AttachRows ==
  ASSUME RowsOK, OpsOK, NEW w \in Writers, LandAttach(w)
  PROVE  RowsStep
  <1> DEFINE p == op[w].path
             m == [q \in Under[p] |-> IF q = p THEN Placeholder ELSE Absent]
             t == Graft(p, m)
  <1>1. p \in Paths BY DEF OpsOK
  <1>2. m \in TreesAt(p)
    <2>1. m[p] # Absent /\ \A q \in Under[p] : m[q] # Absent => q = p
      BY <1>1, RefsAssumption
    <2>2. \A a \in Above(p) : a \notin Under[p] BY <1>1, RefsAssumption DEF Above
    <2>3. m \in [Under[p] -> Versions \cup {Absent}] BY RefsAssumption
    <2> HIDE DEF m, p
    <2> QED BY <2>1, <2>2, <2>3 DEF TreesAt
  <1>3. /\ AttachGate(p) /\ row' = [row EXCEPT ![Root] = Continue(@, t)]
        /\ clock' = Commit /\ tomb' = tomb
    BY DEF LandAttach
  <1> HIDE DEF p, m
  <1>4. /\ t \in TreesAt(Root)
        /\ \A q \in Paths \ (Under[p] \cup Above(p)) : Sub(t, q) = Sub(rootTree, q)
    BY <1>1, <1>2, RowFacts, GraftFacts
  <1> HIDE DEF t
  <1>5. Root \in Paths /\ DOMAIN row = Paths BY RefsAssumption DEF RowsOK
  <1>6. /\ row'[Root] = Continue(row[Root], t)
        /\ \A q \in Dirs : row'[q] = row[q]
        /\ DOMAIN row' = Paths
    BY <1>3, <1>5 DEF Dirs
  <1>7. /\ row'[Root] \in RowsAt(Root) /\ row'[Root] # NoRow /\ row'[Root].tree = t
        /\ IsPrefix(row[Root].line, row'[Root].line)
    BY <1>4, <1>5, <1>6, ContinueRow
  <1>8. RowsOK'
    <2>1. \A q \in Paths : row'[q] \in RowsAt(q) \/ (q # Root /\ row'[q] = NoRow)
      BY <1>6, <1>7 DEF RowsOK, Dirs
    <2> QED BY <1>3, <1>6, <2>1, RowFacts DEF RowsOK
  <1>9. Kept
    <2>1. \A q \in Paths : IsPrefix(row[q].line, row[q].line)
      BY RowFacts, PrefixAppend, 0 \in Nat
    <2> QED BY <1>6, <1>7, <2>1 DEF Kept, Has, Dirs
  <1>10. ASSUME ViewConsistent, NEW q \in Paths, row'[q] # NoRow
         PROVE  row'[q].tree = Sub(t, q)
    <2>1. CASE q = Root BY <1>4, <1>7, <2>1, SubOfRoot
    <2>2. CASE q # Root
      <3>1. q \in Dirs /\ row'[q] = row[q] BY <1>6, <2>2 DEF Dirs
      <3>2. Has(q) BY <1>10, <3>1 DEF Has
      <3>3. q \notin Under[p] /\ q \notin Above(p) BY <1>3, <3>1, <3>2 DEF AttachGate
      <3>4. row[q].tree = Sub(rootTree, q) BY <1>10, <3>2 DEF ViewConsistent
      <3> QED BY <1>4, <3>1, <3>3, <3>4
    <2> QED BY <2>1, <2>2
  <1>11. ViewConsistent => ViewConsistent'
    <2>1. rootTree' = t BY <1>7 DEF rootTree
    <2> QED BY <1>10, <2>1 DEF ViewConsistent, Has, Sub
  <1> QED BY <1>8, <1>9, <1>11 DEF RowsStep

LEMMA PersistRows ==
  ASSUME RowsOK, WalksOK, NEW r \in Readers, Persist(r)
  PROVE  RowsStep
  <1> DEFINE p == walk[r].path
             new == [line |-> Append(tomb[p], Commit), tree |-> Sub(walk[r].root.tree, p)]
  <1>1. p \in Dirs /\ p \in Paths /\ p # Root BY DEF Persist, WalksOK, Dirs
  <1>2. walk[r].root.tree = rootTree /\ rootTree[p] # Absent
    BY DEF Persist, SameRoot, WalksOK, rootTree
  <1>3. Sub(rootTree, p) \in TreesAt(p) BY <1>1, <1>2, RowFacts, SubTyped
  <1>4. tomb[p] \in Lines BY <1>1 DEF RowsOK
  <1>5. Append(tomb[p], Commit) \in Lines \ {<<>>} BY <1>4, RowFacts, PrefixAppend
  <1>6. new \in RowsAt(p) /\ new.tree = Sub(rootTree, p) /\ new.line # <<>>
    BY <1>2, <1>3, <1>5 DEF RowsAt
  <1>7. new # NoRow BY <1>6 DEF NoRow
  <1>8. /\ row' = [row EXCEPT ![p] = IF Has(p) THEN @ ELSE new]
        /\ tomb' = [tomb EXCEPT ![p] = <<>>]
        /\ clock' = Commit
    BY DEF Persist
  <1> HIDE DEF p, new
  <1>9. /\ DOMAIN row' = Paths
        /\ row'[p] = IF Has(p) THEN row[p] ELSE new
        /\ \A q \in Paths \ {p} : row'[q] = row[q]
    BY <1>1, <1>8 DEF RowsOK
  <1>10. RowsOK'
    <2>1. \A q \in Paths : row'[q] \in RowsAt(q) \/ (q # Root /\ row'[q] = NoRow)
      BY <1>1, <1>6, <1>9 DEF RowsOK
    <2>2. <<>> \in Lines BY DEF Lines
    <2>3. tomb' \in [Dirs -> Lines] BY <1>8, <2>2 DEF RowsOK
    <2> QED BY <1>8, <1>9, <2>1, <2>3, RowFacts DEF RowsOK
  <1>11. Kept
    <2>1. \A q \in Paths : IsPrefix(row[q].line, row[q].line)
      BY RowFacts, PrefixAppend, 0 \in Nat
    <2> QED BY <1>9, <2>1 DEF Kept, Has
  <1>12. ViewConsistent => ViewConsistent'
    <2>1. Root \in Paths \ {p} BY <1>1, RefsAssumption
    <2>2. rootTree' = rootTree BY <1>9, <2>1 DEF rootTree
    <2> QED BY <1>6, <1>9, <2>2 DEF ViewConsistent, Has, Sub
  <1> QED BY <1>10, <1>11, <1>12 DEF RowsStep

\* An action that leaves the rows alone.
Quiet == \/ \E w \in Writers : \/ \E p \in Dirs : EnqueuePush(w, p)
                               \/ \E p \in Below(ImportDir) : EnqueueAttach(w, p)
                               \/ \E p \in Paths : EnqueueMerge(w, p)
                               \/ Withdraw(w)
         \/ \E r \in Readers : \/ \E p \in Dirs : NotMaterialized(r, p)
                               \/ WalkRoot(r) \/ Abandon(r)

LEMMA DisciplinedRows ==
  ASSUME TypeInv, [Disciplined]_vars
  PROVE  RowsStep
  <1> USE DEF TypeInv
  <1>1. CASE Quiet
    <2>1. UNCHANGED <<row, tomb, clock>>
      BY <1>1 DEF Quiet, EnqueuePush, EnqueueAttach, EnqueueMerge, Withdraw,
                  NotMaterialized, WalkRoot, Abandon
    <2> QED BY <2>1, SameRows DEF RowsStep
  <1>2. CASE UNCHANGED vars
    <2>1. UNCHANGED <<row, tomb, clock>> BY <1>2 DEF vars
    <2> QED BY <2>1, SameRows DEF RowsStep
  <1>3. ASSUME NEW w \in Writers, LandPush(w) PROVE RowsStep BY <1>3, PushRows
  <1>4. ASSUME NEW w \in Writers, LandMerge(w) PROVE RowsStep BY <1>4, MergeRows
  <1>5. ASSUME NEW w \in Writers, LandAttach(w) PROVE RowsStep BY <1>5, AttachRows
  <1>6. ASSUME NEW w \in Writers, Repair(w) PROVE RowsStep
    <2>1. Bury({op[w].path}) /\ Root \notin {op[w].path} BY <1>6, RootNotStale DEF Repair
    <2> QED BY <2>1, BuryRows DEF RowsStep
  <1>7. ASSUME NEW w \in Writers, Reap(w) PROVE RowsStep
    <2>1. PICK S : Bury(S \ {Root}) BY <1>7 DEF Reap
    <2>2. Root \notin S \ {Root} OBVIOUS
    <2> QED BY <2>1, <2>2, BuryRows DEF RowsStep
  <1>8. ASSUME NEW r \in Readers, Persist(r) PROVE RowsStep BY <1>8, PersistRows
  <1>9. CASE Inspect
    <2>1. Bury({p \in Page : Stale(p)}) BY <1>9 DEF Inspect
    <2>2. Root \notin {p \in Page : Stale(p)} BY RootNotStale
    <2> QED BY <2>1, <2>2, BuryRows DEF RowsStep
  <1> QED BY <1>1, <1>2, <1>3, <1>4, <1>5, <1>6, <1>7, <1>8, <1>9
          DEF Disciplined, WriterStep, ReaderStep, Quiet

\* A transaction that only moves the root: its line stays or is continued.
LEMMA RootMoves ==
  ASSUME RowsOK, NEW t \in TreesAt(Root), tomb' = tomb,
         \/ row' = [row EXCEPT ![Root].tree = t] /\ UNCHANGED clock
         \/ row' = [row EXCEPT ![Root] = Continue(@, t)] /\ clock' = Commit
  PROVE  RowsOK' /\ Kept
  <1>1. Root \in Paths /\ DOMAIN row = Paths BY RefsAssumption DEF RowsOK
  <1>2. row[Root] \in RowsAt(Root) BY RowFacts
  <1>3. \A q \in Paths : IsPrefix(row[q].line, row[q].line)
    BY RowFacts, PrefixAppend, 0 \in Nat
  <1>4. DOMAIN row' = Paths /\ \A q \in Dirs : row'[q] = row[q] BY <1>1 DEF Dirs
  <1>5. /\ row'[Root] \in RowsAt(Root) /\ row'[Root] # NoRow /\ clock' \in Nat
        /\ IsPrefix(row[Root].line, row'[Root].line)
    <2>1. CASE row' = [row EXCEPT ![Root].tree = t] /\ UNCHANGED clock
      <3>1. row'[Root] = [row[Root] EXCEPT !.tree = t] BY <1>1, <2>1
      <3>2. row'[Root] \in RowsAt(Root) BY <1>2, <3>1 DEF RowsAt
      <3>3. row'[Root].line = row[Root].line BY <1>2, <3>1 DEF RowsAt
      <3>4. row'[Root].line # <<>> BY <3>2 DEF RowsAt
      <3>5. row'[Root] # NoRow BY <3>4 DEF NoRow
      <3> QED BY <1>1, <1>3, <2>1, <3>2, <3>3, <3>5, RowFacts
    <2>2. CASE row' = [row EXCEPT ![Root] = Continue(@, t)] /\ clock' = Commit
      <3>1. row'[Root] = Continue(row[Root], t) BY <1>1, <2>2
      <3> QED BY <1>1, <2>2, <3>1, RowFacts, ContinueRow
    <2> QED BY <2>1, <2>2
  <1>6. \A q \in Paths : row'[q] \in RowsAt(q) \/ (q # Root /\ row'[q] = NoRow)
    BY <1>4, <1>5 DEF RowsOK, Dirs
  <1>7. RowsOK' BY <1>4, <1>5, <1>6 DEF RowsOK
  <1>8. Kept BY <1>3, <1>4, <1>5 DEF Kept, Has, Dirs
  <1> QED BY <1>7, <1>8

LEMMA BypassRows == ASSUME TypeInv, Bypass PROVE RowsOK' /\ Kept
  BY RootMoves DEF TypeInv, Bypass

LEMMA PruneTyped ==
  ASSUME RowsOK, NEW d \in Dirs
  PROVE  Prune(d) \in TreesAt(Root)
  <1> DEFINE g == Prune(d)
  <1>1. /\ rootTree \in [Paths -> Versions \cup {Absent}] /\ rootTree[Root] # Absent
        /\ \A q \in Paths : rootTree[q] # Absent => \A x \in Above(q) : rootTree[x] # Absent
    BY RowFacts, RefsAssumption DEF TreesAt, Above
  <1>2. \A q \in Paths : g[q] = IF q \in Under[d] THEN Absent ELSE rootTree[q]
    BY DEF Prune
  <1>3. g \in [Paths -> Versions \cup {Absent}] BY <1>1 DEF Prune
  <1>4. Root \notin Under[d] BY RefsAssumption DEF Dirs
  <1>5. ASSUME NEW q \in Paths, g[q] # Absent, NEW x \in Above(q) PROVE g[x] # Absent
    <2>1. x \in Paths /\ q \in Under[x] BY DEF Above
    <2>2. q \notin Under[d] /\ rootTree[q] # Absent BY <1>2, <1>5
    <2>3. x \notin Under[d] BY <2>1, <2>2, RefsAssumption DEF Dirs
    <2> QED BY <1>1, <1>2, <1>5, <2>1, <2>2, <2>3
  <1>6. g[Root] # Absent BY <1>1, <1>2, <1>4, RefsAssumption
  <1> HIDE DEF g
  <1> QED BY <1>3, <1>5, <1>6, RefsAssumption DEF TreesAt, g

LEMMA DetachRows ==
  ASSUME TypeInv, NEW w \in Writers, DetachStep(w)
  PROVE  RowsOK' /\ Kept
  <1>1. RowsOK BY DEF TypeInv
  <1>2. CASE UNCHANGED <<row, tomb, clock>> BY <1>1, <1>2, SameRows
  <1>3. ASSUME NEW d \in Below(ImportDir), row' = [row EXCEPT ![Root] = Continue(@, Prune(d))],
               clock' = Commit, tomb' = tomb
        PROVE  RowsOK' /\ Kept
    <2>1. d \in Dirs BY RefsAssumption DEF Below, Dirs
    <2>2. Prune(d) \in TreesAt(Root) BY <1>1, <2>1, PruneTyped
    <2> QED BY <1>1, <1>3, <2>2, RootMoves
  <1> QED BY <1>2, <1>3 DEF DetachStep, EnqueueDetach, LandDetach, Prunable

----------------------------------------------------------------------------
(* What operations and walks remember.                                     *)

LEMMA OpStep ==
  ASSUME TypeInv, NEW w \in Writers, WriterStep(w) \/ DetachStep(w)
  PROVE  OpsOK'
  <1>0. Below(ImportDir) \subseteq Dirs /\ Dirs \subseteq Paths
    BY RefsAssumption DEF Below, Dirs
  <1>1. RowsOK /\ OpsOK BY DEF TypeInv
  <1>mounts. mounted' \subseteq Below(ImportDir)
    <2>1. CASE UNCHANGED mounted BY <1>1, <2>1 DEF OpsOK
    <2>2. CASE LandAttach(w)
      <3>1. op[w].path \in Below(ImportDir) BY <1>1, <2>2 DEF LandAttach, OpsOK
      <3> QED BY <1>1, <2>2, <3>1 DEF LandAttach, OpsOK
    <2>3. CASE LandDetach(w) BY <1>1, <2>3 DEF LandDetach, OpsOK
    <2> QED BY <2>1, <2>2, <2>3
            DEF WriterStep, DetachStep, EnqueuePush, EnqueueAttach, EnqueueMerge, LandPush,
                LandMerge, EnqueueDetach, Repair, Withdraw, Reap
  <1>2. ASSUME NEW v, op' = [op EXCEPT ![w] = v],
               /\ v.kind \in {"none", "push", "merge", "attach", "detach"}
               /\ v.kind = "none" => v = IdleOp
               /\ v.path \in Paths
               /\ v.kind = "push" => v.path \in Dirs
               /\ v.kind \in {"attach", "detach"} => v.path \in Below(ImportDir)
               /\ v.kind \in {"push", "merge"} => v.tree \in TreesAt(v.path) /\ v.old \in Lines
        PROVE  OpsOK'
    <2>1. DOMAIN op' = Writers /\ op'[w] = v BY <1>1, <1>2 DEF OpsOK
    <2>2. \A x \in Writers : x # w => op'[x] = op[x] BY <1>2 DEF OpsOK
    <2> QED BY <1>1, <1>2, <1>mounts, <2>1, <2>2 DEF OpsOK
  <1>3. op' = [op EXCEPT ![w] = IdleOp] => OpsOK'
    <2>1. IdleOp.kind = "none" /\ IdleOp.path = Root BY DEF IdleOp
    <2>2. Root \in Paths BY RefsAssumption
    <2> QED BY <1>2, <2>1, <2>2
  <1>4. op' = op => OpsOK' BY <1>1, <1>mounts DEF OpsOK
  <1>5. ASSUME NEW p \in Dirs, EnqueuePush(w, p) PROVE OpsOK'
    <2>1. PICK t \in TreesAt(p) :
            op' = [op EXCEPT ![w] = [kind |-> "push", path |-> p, old |-> row[p].line,
                                     base |-> row[p].tree, tree |-> t]]
      BY <1>5 DEF EnqueuePush
    <2>2. p \in Paths /\ row[p].line \in Lines BY <1>1, RowFacts DEF Dirs
    <2> DEFINE v == [kind |-> "push", path |-> p, old |-> row[p].line,
                     base |-> row[p].tree, tree |-> t]
    <2>3. /\ v.kind = "push" /\ v.path = p /\ v.tree \in TreesAt(p)
          /\ v.old \in Lines
      BY <2>2
    <2>4. op' = [op EXCEPT ![w] = v] BY <2>1
    <2> HIDE DEF v
    <2> QED BY <1>2, <2>2, <2>3, <2>4
  <1>6. ASSUME NEW p \in Paths, EnqueueMerge(w, p) PROVE OpsOK'
    <2>1. PICK t \in TreesAt(p) :
            op' = [op EXCEPT ![w] = [kind |-> "merge", path |-> p, old |-> row[p].line,
                                     base |-> row[p].tree, tree |-> t]]
      BY <1>6 DEF EnqueueMerge
    <2>2. row[p].line \in Lines BY <1>1, RowFacts
    <2> DEFINE v == [kind |-> "merge", path |-> p, old |-> row[p].line,
                     base |-> row[p].tree, tree |-> t]
    <2>3. /\ v.kind = "merge" /\ v.path = p /\ v.tree \in TreesAt(p)
          /\ v.old \in Lines
      BY <2>2
    <2>4. op' = [op EXCEPT ![w] = v] BY <2>1
    <2> HIDE DEF v
    <2> QED BY <1>2, <2>2, <2>3, <2>4
  <1>7. ASSUME NEW p \in Below(ImportDir), NEW k \in {"attach", "detach"},
               op' = [op EXCEPT ![w] = [IdleOp EXCEPT !.kind = k, !.path = p]]
        PROVE  OpsOK'
    <2> DEFINE v == [IdleOp EXCEPT !.kind = k, !.path = p]
    <2>1. v.kind = k /\ v.path = p BY DEF IdleOp
    <2>2. p \in Paths /\ op' = [op EXCEPT ![w] = v] BY <1>0, <1>7
    <2> HIDE DEF v
    <2> QED BY <1>2, <2>1, <2>2
  <1>8. ASSUME NEW p \in Below(ImportDir), EnqueueAttach(w, p) PROVE OpsOK'
    BY <1>7, <1>8 DEF EnqueueAttach
  <1>9. ASSUME NEW p \in mounted, EnqueueDetach(w, p) PROVE OpsOK'
    <2>1. p \in Below(ImportDir) BY <1>1 DEF OpsOK
    <2> QED BY <1>7, <1>9, <2>1 DEF EnqueueDetach
  <1> QED BY <1>3, <1>4, <1>5, <1>6, <1>8, <1>9
          DEF WriterStep, DetachStep, LandPush, LandMerge, LandAttach, LandDetach,
              Repair, Withdraw, Reap

LEMMA WalkStep ==
  ASSUME TypeInv, NEW r \in Readers, ReaderStep(r)
  PROVE  WalksOK'
  <1>1. RowsOK /\ WalksOK BY DEF TypeInv
  <1>2. ASSUME NEW v, walk' = [walk EXCEPT ![r] = v],
               /\ v.pc \in {"idle", "walk", "persist"}
               /\ v.pc # "idle" => v.path \in Dirs
               /\ v.pc = "persist" => v.root \in RowsAt(Root) /\ v.root.tree[v.path] # Absent
        PROVE  WalksOK'
    <2>1. DOMAIN walk' = Readers /\ walk'[r] = v BY <1>1, <1>2 DEF WalksOK
    <2>2. \A x \in Readers : x # r => walk'[x] = walk[x] BY <1>2 DEF WalksOK
    <2> QED BY <1>1, <1>2, <2>1, <2>2 DEF WalksOK
  <1>3. walk' = [walk EXCEPT ![r] = IdleWalk] => WalksOK'
    <2>1. IdleWalk.pc = "idle" BY DEF IdleWalk
    <2> QED BY <1>2, <2>1
  <1>4. ASSUME NEW p \in Dirs, NotMaterialized(r, p) PROVE WalksOK'
    <2> DEFINE v == [IdleWalk EXCEPT !.pc = "walk", !.path = p]
    <2>1. walk' = [walk EXCEPT ![r] = v] BY <1>4 DEF NotMaterialized
    <2>2. v.pc = "walk" /\ v.path = p BY DEF IdleWalk
    <2> HIDE DEF v
    <2> QED BY <1>2, <2>1, <2>2
  <1>5. CASE WalkRoot(r)
    <2>1. CASE rootTree[walk[r].path] = Absent
      BY <1>3, <1>5, <2>1 DEF WalkRoot
    <2>2. CASE rootTree[walk[r].path] # Absent
      <3> DEFINE v == [walk[r] EXCEPT !.pc = "persist", !.root = row[Root]]
      <3>1. walk' = [walk EXCEPT ![r] = v] BY <1>5, <2>2 DEF WalkRoot
      <3>2. walk[r].path \in Dirs BY <1>1, <1>5 DEF WalkRoot, WalksOK
      <3>3. v.pc = "persist" /\ v.root = row[Root] /\ v.path = walk[r].path
        BY <1>1 DEF WalksOK
      <3>4. row[Root] \in RowsAt(Root) /\ row[Root].tree[walk[r].path] # Absent
        BY <1>1, <2>2, RowFacts DEF rootTree
      <3> HIDE DEF v
      <3> QED BY <1>2, <3>1, <3>2, <3>3, <3>4
    <2> QED BY <2>1, <2>2
  <1>6. CASE Persist(r) BY <1>3, <1>6 DEF Persist
  <1>7. CASE Abandon(r)
    <2>1. CASE walk[r].attempt = RetryLimit BY <1>3, <1>7, <2>1 DEF Abandon
    <2>2. CASE walk[r].attempt # RetryLimit
      <3> DEFINE v == [IdleWalk EXCEPT !.pc = "walk", !.path = walk[r].path,
                                       !.attempt = walk[r].attempt + 1]
      <3>1. walk' = [walk EXCEPT ![r] = v] BY <1>7, <2>2 DEF Abandon
      <3>2. walk[r].path \in Dirs BY <1>1, <1>7 DEF Abandon, WalksOK
      <3>3. v.pc = "walk" /\ v.path = walk[r].path BY DEF IdleWalk
      <3> HIDE DEF v
      <3> QED BY <1>2, <3>1, <3>2, <3>3
    <2> QED BY <2>1, <2>2
  <1> QED BY <1>4, <1>5, <1>6, <1>7 DEF ReaderStep

\* Writers leave the walks alone, readers the operations, the audit and the
\* writer outside the queue both.
LEMMA Apart ==
  /\ \A w \in Writers : WriterStep(w) \/ DetachStep(w) => UNCHANGED walk
  /\ \A r \in Readers : ReaderStep(r) => UNCHANGED <<op, mounted>>
  /\ Inspect \/ Bypass => UNCHANGED <<op, mounted, walk>>
  BY DEF WriterStep, EnqueuePush, EnqueueAttach, EnqueueMerge, LandPush, LandMerge,
         LandAttach, DetachStep, EnqueueDetach, LandDetach, Repair, Withdraw, Reap,
         ReaderStep, NotMaterialized, WalkRoot, Persist, Abandon, Inspect, Bypass

LEMMA TypeStep ==
  ASSUME TypeInv, [Next]_vars
  PROVE  TypeInv' /\ Kept
  <1>1. RowsOK' /\ Kept
    BY DisciplinedRows, DetachRows, BypassRows DEF Next, Locked, RowsStep
  <1>2. UNCHANGED <<op, mounted>> => OpsOK' BY DEF TypeInv, OpsOK
  <1>3. UNCHANGED walk => WalksOK' BY DEF TypeInv, WalksOK
  <1>4. CASE \E w \in Writers : WriterStep(w) \/ DetachStep(w)
    BY <1>1, <1>3, <1>4, Apart, OpStep DEF TypeInv
  <1>5. CASE \E r \in Readers : ReaderStep(r)
    BY <1>1, <1>2, <1>5, Apart, WalkStep DEF TypeInv
  <1>6. CASE Inspect \/ Bypass \/ UNCHANGED vars
    BY <1>1, <1>2, <1>3, <1>6, Apart DEF TypeInv, vars
  <1> QED BY <1>4, <1>5, <1>6 DEF Next, Locked, Disciplined

LEMMA InitInv == Init => Inv
  <1> SUFFICES ASSUME Init PROVE Inv OBVIOUS
  <1>1. PICK t \in TreesAt(Root) :
          row = [p \in Paths |-> IF p = Root THEN [line |-> <<1>>, tree |-> t] ELSE NoRow]
    BY DEF Init
  <1>2. Root \in Paths BY RefsAssumption
  <1>3. <<>> \in Lines /\ <<1>> \in Lines \ {<<>>} BY DEF Lines
  <1>4. row[Root] \in RowsAt(Root) /\ row[Root].tree = t BY <1>1, <1>2, <1>3 DEF RowsAt
  <1>5. RowsOK BY <1>1, <1>3, <1>4 DEF Init, RowsOK
  <1>6. OpsOK BY <1>2 DEF Init, OpsOK, IdleOp
  <1>7. WalksOK BY DEF Init, WalksOK, IdleWalk
  <1>8. ViewConsistent BY <1>1, <1>2, <1>4, SubOfRoot DEF ViewConsistent, Has, rootTree
  <1> QED BY <1>5, <1>6, <1>7, <1>8 DEF Inv, TypeInv

----------------------------------------------------------------------------
(* Row ids and the audit's cursor.                                         *)

\* The rows that a step inserts are on one line from the root.
OneLine == \E l \in Paths : \A q \in Dirs :
             ~Has(q) /\ row'[q] # NoRow => q = l \/ q \in Above(l)

LEMMA OnOneLine ==
  ASSUME OneLine, NEW p \in Dirs, NEW q \in Dirs, p # q,
         ~Has(p), row'[p] # NoRow, ~Has(q), row'[q] # NoRow
  PROVE  p \in Below(q) <=> q \notin Below(p)
  <1>1. PICK l \in Paths : \A x \in Dirs :
          ~Has(x) /\ row'[x] # NoRow => x = l \/ x \in Above(l)
    BY DEF OneLine
  <1>2. l \in Under[p] /\ l \in Under[q]
    <2>1. (p = l \/ p \in Above(l)) /\ (q = l \/ q \in Above(l)) BY <1>1
    <2> QED BY <2>1, UnderFacts DEF Above
  <1>3. p \in Paths /\ q \in Paths BY DEF Dirs
  <1>4. p \in Under[q] \/ q \in Under[p] BY <1>2, <1>3, RefsAssumption
  <1>5. p \in Under[q] => q \notin Under[p] BY <1>3, RefsAssumption
  <1> QED BY <1>4, <1>5 DEF Below

LEMMA BelowDirs ==
  ASSUME NEW q \in Dirs
  PROVE  /\ Below(q) \subseteq Dirs /\ q \notin Below(q)
         /\ \A p \in Below(q) : Below(p) \subseteq Below(q)
  <1>1. q \in Paths /\ q # Root BY DEF Dirs
  <1>2. \A p \in Under[q] : p \in Paths /\ Under[p] \subseteq Under[q] /\ (q \in Under[p] => p = q)
    BY <1>1, RefsAssumption
  <1>3. Root \notin Under[q]
    <2>1. Root \in Under[q] => Root = q BY <1>1, RefsAssumption
    <2> QED BY <1>1, <2>1
  <1> QED BY <1>2, <1>3 DEF Below, Dirs

LEMMA OlderStep ==
  ASSUME IdsOK, OneLine, Reindex
  PROVE  /\ IdsOK'
         /\ \A q \in Rows : older'[q] = {p \in older[q] : row'[p] # NoRow /\ row'[q] # NoRow}
  <1>1. \A q \in Dirs :
          older'[q] = {p \in IF Has(q) THEN older[q] ELSE Rows \cup Below(q) :
                         row'[p] # NoRow /\ row'[q] # NoRow}
    BY DEF Reindex
  <1>2. /\ \A q \in Dirs : q \in Rows <=> Has(q)
        /\ \A q \in Dirs : q \in Rows' <=> row'[q] # NoRow
        /\ Rows \subseteq Dirs /\ Rows' \subseteq Dirs
    BY DEF Rows, Has
  <1>3. \A q \in Dirs : older[q] \subseteq Rows BY DEF IdsOK
  <1>4. \A q \in Dirs : older'[q] \subseteq Rows'
    <2> SUFFICES ASSUME NEW q \in Dirs, NEW p \in older'[q] PROVE p \in Rows' OBVIOUS
    <2>1. row'[p] # NoRow /\ (p \in older[q] \/ p \in Rows \/ p \in Below(q)) BY <1>1
    <2>2. p \in Dirs BY <1>2, <1>3, <2>1, BelowDirs
    <2> QED BY <1>2, <2>1, <2>2
  <1>5. older' \in [Dirs -> SUBSET Rows']
    <2>1. DOMAIN older' = Dirs /\ older' = [q \in DOMAIN older' |-> older'[q]] BY DEF Reindex
    <2> QED BY <1>4, <2>1
  <1>6. \A q \in Dirs \ Rows' : older'[q] = {} BY <1>1, <1>2
  <1>7. \A q \in Rows : older'[q] = {p \in older[q] : row'[p] # NoRow /\ row'[q] # NoRow}
    BY <1>1, <1>2
  <1>8. ASSUME NEW p \in Rows', NEW q \in Rows'
        PROVE  p \in older'[q] <=> p # q /\ q \notin older'[p]
    <2>0. p \in Dirs /\ q \in Dirs /\ row'[p] # NoRow /\ row'[q] # NoRow BY <1>2
    <2>1. CASE p \in Rows /\ q \in Rows
      <3>1. p \in older[q] <=> p # q /\ q \notin older[p] BY <2>1 DEF IdsOK
      <3> QED BY <1>7, <2>0, <2>1, <3>1
    <2>2. CASE p \in Rows /\ q \notin Rows BY <1>1, <1>2, <1>3, <1>7, <2>0, <2>2
    <2>3. CASE p \notin Rows /\ q \in Rows BY <1>1, <1>2, <1>3, <1>7, <2>0, <2>3
    <2>4. CASE p \notin Rows /\ q \notin Rows
      <3>1. (p \in older'[q] <=> p \in Below(q)) /\ (q \in older'[p] <=> q \in Below(p))
        BY <1>1, <1>2, <2>0, <2>4
      <3>2. CASE p = q BY <2>0, <3>1, <3>2, BelowDirs
      <3>3. CASE p # q BY <1>2, <2>0, <2>4, <3>1, <3>3, OnOneLine
      <3> QED BY <3>2, <3>3
    <2> QED BY <2>1, <2>2, <2>3, <2>4
  <1>9. ASSUME NEW p \in Rows', NEW q \in Rows', p \in older'[q], NEW x \in older'[p]
        PROVE  x \in older'[q]
    <2>0. p \in Dirs /\ q \in Dirs /\ row'[q] # NoRow /\ row'[x] # NoRow BY <1>1, <1>2
    <2>1. CASE q \in Rows
      <3>1. p \in older[q] /\ p \in Rows BY <1>3, <1>7, <1>9, <2>0, <2>1
      <3>2. x \in older[p] BY <1>7, <3>1
      <3>3. older[p] \subseteq older[q] BY <2>1, <3>1 DEF IdsOK
      <3> QED BY <1>7, <2>0, <2>1, <3>2, <3>3
    <2>2. CASE q \notin Rows /\ p \in Rows
      <3>1. x \in Rows BY <1>3, <1>7, <2>0, <2>2
      <3> QED BY <1>1, <1>2, <2>0, <2>2, <3>1
    <2>3. CASE q \notin Rows /\ p \notin Rows
      <3>1. p \in Below(q) BY <1>1, <1>2, <1>9, <2>0, <2>3
      <3>2. x \in Rows \/ x \in Below(p) BY <1>1, <1>2, <2>0, <2>3
      <3>3. x \in Rows \/ x \in Below(q) BY <2>0, <3>1, <3>2, BelowDirs
      <3> QED BY <1>1, <1>2, <2>0, <2>3, <3>3
    <2> QED BY <2>1, <2>2, <2>3
  <1>10. IdsOK'
    <2>1. \A p, q \in Rows' : p \in older'[q] => older'[p] \subseteq older'[q] BY <1>9
    <2> QED BY <1>5, <1>6, <1>8, <2>1 DEF IdsOK
  <1> QED BY <1>7, <1>10

\* The cursor stays where it is: what it has passed goes only with its row.
LEMMA CursorStep ==
  ASSUME IdsOK, CursorOK, OneLine, Reindex, KeepCursor
  PROVE  IdsOK' /\ CursorOK'
  <1>1. /\ IdsOK'
        /\ \A q \in Rows : older'[q] = {p \in older[q] : row'[p] # NoRow /\ row'[q] # NoRow}
    BY OlderStep
  <1>2. passed' = {p \in passed : row'[p] # NoRow} BY DEF KeepCursor
  <1>3. \A q \in passed' : q \in passed /\ q \in Rows /\ q \in Rows'
    BY <1>2 DEF CursorOK, Rows, Has
  <1>4. \A q \in passed' : older'[q] \subseteq passed'
    BY <1>1, <1>2, <1>3 DEF CursorOK
  <1> QED BY <1>1, <1>3, <1>4 DEF CursorOK

\* The audit's page is the rows that follow the cursor, none left out.
LEMMA PageFacts ==
  ASSUME IdsOK, CursorOK
  PROVE  /\ Page \subseteq Rows
         /\ \A q \in Page : older[q] \subseteq passed \cup Page
  <1> DEFINE rest == Rows \ passed
  <1>1. Page = {p \in rest : Cardinality(older[p] \cap rest) < AuditBatch} BY DEF Page
  <1>2. Rows \subseteq Paths /\ Rows \subseteq Dirs BY DEF Rows, Dirs
  <1>3. \A p \in Rows : IsFiniteSet(older[p] \cap rest) /\ Cardinality(older[p] \cap rest) \in Nat
    <2> TAKE p \in Rows
    <2>1. older[p] \cap rest \subseteq Paths BY <1>2
    <2>2. IsFiniteSet(older[p] \cap rest) BY <2>1, RefsAssumption, FS_Subset
    <2> QED BY <2>2, FS_CardinalityType
  <1>4. AuditBatch \in Nat BY RefsAssumption
  <1>5. ASSUME NEW q \in Page, NEW p \in older[q], p \notin passed PROVE p \in Page
    <2>1. q \in Rows /\ Cardinality(older[q] \cap rest) < AuditBatch BY <1>1
    <2>2. p \in Rows BY <1>2, <2>1 DEF IdsOK
    <2>3. older[p] \subseteq older[q] BY <2>1, <2>2 DEF IdsOK
    <2>4. older[p] \cap rest \subseteq older[q] \cap rest BY <2>3
    <2> HIDE DEF rest
    <2>5. Cardinality(older[p] \cap rest) <= Cardinality(older[q] \cap rest)
      BY <1>3, <2>1, <2>4, FS_Subset
    <2>6. Cardinality(older[p] \cap rest) < AuditBatch BY <1>3, <1>4, <2>1, <2>2, <2>5
    <2>7. p \in rest BY <1>5, <2>2 DEF rest
    <2> QED BY <1>1, <2>6, <2>7
  <1> QED BY <1>1, <1>5

LEMMA BuryInserts == ASSUME NEW S, Bury(S) PROVE OneLine
  <1>1. \A q \in Dirs : ~Has(q) => row'[q] = NoRow BY DEF Bury, Has, Dirs
  <1>2. Root \in Paths BY RefsAssumption
  <1> QED BY <1>1, <1>2 DEF OneLine

LEMMA InspectIndex ==
  ASSUME IdsOK, CursorOK, Inspect
  PROVE  IdsOK' /\ CursorOK'
  <1>1. OneLine /\ Reindex /\ passed' = {p \in NextCursor : row'[p] # NoRow}
    BY BuryInserts DEF Inspect, Bury
  <1>2. /\ IdsOK'
        /\ \A q \in Rows : older'[q] = {p \in older[q] : row'[p] # NoRow /\ row'[q] # NoRow}
    BY <1>1, OlderStep
  <1>3. /\ NextCursor \subseteq Rows
        /\ \A q \in NextCursor : older[q] \subseteq NextCursor
    BY PageFacts DEF NextCursor, CursorOK
  <1>4. \A q \in passed' : q \in NextCursor /\ q \in Rows /\ q \in Rows'
    BY <1>1, <1>3 DEF Rows, Has
  <1>5. \A q \in passed' : older'[q] \subseteq passed' BY <1>1, <1>2, <1>3, <1>4
  <1> QED BY <1>2, <1>4, <1>5 DEF CursorOK

LEMMA WriteInserts ==
  ASSUME NEW p \in Paths, NEW t, NEW top, NEW lift, Write(p, t, top, lift)
  PROVE  OneLine
  <1>1. \A q \in Dirs : q # p /\ q \notin Above(p) /\ ~Has(q) => row'[q] = NoRow
    BY DEF Write, Advance, Has, Dirs
  <1> QED BY <1>1 DEF OneLine

LEMMA SameIndex ==
  ASSUME IdsOK, CursorOK, UNCHANGED <<older, passed>>, \A q \in Dirs : row'[q] = row[q]
  PROVE  IdsOK' /\ CursorOK'
  <1>1. Rows' = Rows BY DEF Rows, Has
  <1> QED BY <1>1 DEF IdsOK, CursorOK

LEMMA IndexStep ==
  ASSUME TypeInv, IdsOK, CursorOK, [Next]_vars
  PROVE  IdsOK' /\ CursorOK'
  <1>1. ASSUME NEW w \in Writers, LandPush(w) \/ LandMerge(w) PROVE IdsOK' /\ CursorOK'
    <2>1. op[w].path \in Paths BY DEF TypeInv, OpsOK
    <2>2. PICK t, top, lift : Write(op[w].path, t, top, lift) BY <1>1 DEF LandPush, LandMerge
    <2>3. Reindex /\ KeepCursor BY <2>2 DEF Write
    <2> QED BY <2>1, <2>2, <2>3, WriteInserts, CursorStep
  <1>2. ASSUME NEW w \in Writers, Repair(w) \/ Reap(w) PROVE IdsOK' /\ CursorOK'
    <2>1. (\E S : Bury(S)) /\ KeepCursor BY <1>2 DEF Repair, Reap
    <2>2. OneLine /\ Reindex BY <2>1, BuryInserts DEF Bury
    <2> QED BY <2>1, <2>2, CursorStep
  <1>3. ASSUME NEW r \in Readers, Persist(r) PROVE IdsOK' /\ CursorOK'
    <2>1. walk[r].path \in Paths /\ DOMAIN row = Paths
      BY <1>3 DEF Persist, TypeInv, WalksOK, RowsOK, Dirs
    <2>2. \A q \in Dirs : q # walk[r].path => row'[q] = row[q] BY <1>3, <2>1 DEF Persist, Dirs
    <2>3. OneLine BY <2>1, <2>2 DEF OneLine, Has
    <2>4. Reindex /\ KeepCursor BY <1>3 DEF Persist
    <2> QED BY <2>3, <2>4, CursorStep
  <1>4. CASE Inspect BY <1>4, InspectIndex
  <1>5. ASSUME UNCHANGED <<older, passed>>,
               row' = row \/ \E v : row' = [row EXCEPT ![Root] = v]
        PROVE  IdsOK' /\ CursorOK'
    <2>1. \A q \in Dirs : row'[q] = row[q] BY <1>5 DEF TypeInv, RowsOK, Dirs
    <2> QED BY <1>5, <2>1, SameIndex
  <1>6. ASSUME NEW w \in Writers, LandAttach(w) \/ DetachStep(w) PROVE IdsOK' /\ CursorOK'
    BY <1>5, <1>6 DEF LandAttach, DetachStep, EnqueueDetach, LandDetach
  <1>7. CASE Bypass
    <2>1. UNCHANGED <<older, passed>> BY <1>7 DEF Bypass
    <2>2. \E v : row' = [row EXCEPT ![Root] = v] BY <1>7 DEF Bypass
    <2> QED BY <1>5, <2>1, <2>2
  <1>8. CASE Quiet \/ UNCHANGED vars
    BY <1>5, <1>8 DEF Quiet, EnqueuePush, EnqueueAttach, EnqueueMerge, Withdraw,
                      NotMaterialized, WalkRoot, Abandon, vars
  <1> QED BY <1>1, <1>2, <1>3, <1>4, <1>6, <1>7, <1>8
          DEF Next, Locked, Disciplined, WriterStep, ReaderStep, Quiet

----------------------------------------------------------------------------
(* A tip names a tree: what a client saw under a tip is what the row holds *)
(* whenever it has that tip again.                                         *)

Newest(line) == line[Len(line)]

\* A row below the root that a step changes gets a commit nobody has seen.
Fresh == /\ clock' = clock \/ clock' = Commit
         /\ \A q \in Dirs : \/ row'[q] = row[q] \/ row'[q] = NoRow
                            \/ clock' = Commit /\ Newest(row'[q].line) = Commit

Dated == \A q \in Dirs : Has(q) => Newest(row[q].line) <= clock
Based == \A w \in Writers :
           LET p == op[w].path
           IN op[w].kind \in {"push", "merge"} /\ p # Root /\ op[w].old # <<>> =>
                /\ Newest(op[w].old) <= clock
                /\ row[p].line = op[w].old => row[p].tree = op[w].base

LEMMA NewestAppend == ASSUME NEW s \in Lines, NEW c \in Nat PROVE Newest(Append(s, c)) = c
  BY DEF Newest, Lines

LEMMA NewestContinue ==
  ASSUME RowsOK, NEW p \in Paths, NEW t
  PROVE  Newest(Continue(row[p], t).line) = Commit
  <1>1. row[p].line \in Lines /\ Commit \in Nat BY RowFacts
  <1>2. Continue(row[p], t).line = Append(row[p].line, Commit) BY DEF Continue
  <1> QED BY <1>1, <1>2, NewestAppend

LEMMA WriteFresh ==
  ASSUME RowsOK, NEW p \in Paths, NEW t, NEW top, NEW lift, Write(p, t, top, lift),
         Newest(top.line) = Commit,
         \A a \in Above(p) \cap Dirs :
           lift[a] \in {row[a], NoRow} \/ Newest(lift[a].line) = Commit
  PROVE  Fresh
  <1>1. clock' = Commit BY DEF Write
  <1>2. ASSUME NEW q \in Dirs
        PROVE  row'[q] = row[q] \/ row'[q] = NoRow \/ Newest(row'[q].line) = Commit
    <2>0. q \in Paths BY DEF Dirs
    <2>1. row'[q] = IF q = p THEN top
                    ELSE IF q \in Above(p) THEN lift[q]
                    ELSE IF q \in Below(p) THEN Advance(q, p, row[p].tree, t)
                    ELSE row[q]
      BY <2>0 DEF Write
    <2>2. CASE q \in Below(p) /\ q # p /\ q \notin Above(p)
      <3>1. row'[q] = row[q] \/ row'[q] = NoRow \/ row'[q] = Continue(row[q], Sub(t, q))
        BY <2>1, <2>2 DEF Advance
      <3> QED BY <2>0, <3>1, NewestContinue
    <2> QED BY <2>1, <2>2
  <1> QED BY <1>1, <1>2 DEF Fresh

LEMMA LandFresh ==
  ASSUME TypeInv, NEW w \in Writers, LandPush(w) \/ LandMerge(w)
  PROVE  Fresh
  <1> DEFINE p == op[w].path
             t == Graft(p, op[w].tree)
  <1>0. RowsOK /\ p \in Paths /\ Above(p) \subseteq Paths
    BY UnderFacts DEF TypeInv, OpsOK
  <1>1. CASE LandPush(w)
    <2> DEFINE lift == [a \in Above(p) |-> RollUp(a, t)]
               top == [line |-> Append(op[w].old, Commit), tree |-> op[w].tree]
    <2>1. Write(p, t, top, lift) BY <1>1 DEF LandPush
    <2>2. op[w].old \in Lines BY <1>1 DEF LandPush, TypeInv, OpsOK
    <2>3. Newest(top.line) = Commit BY <1>0, <2>2, RowFacts, NewestAppend
    <2> HIDE DEF p, t
    <2>4. \A a \in Above(p) : lift[a] = row[a] \/ Newest(lift[a].line) = Commit
      BY <1>0, NewestContinue DEF RollUp
    <2> HIDE DEF lift, top
    <2> QED BY <1>0, <2>1, <2>3, <2>4, WriteFresh
  <1>2. CASE LandMerge(w)
    <2> DEFINE lift == [a \in Above(p) |->
                          IF Has(a) THEN Continue(row[a], Sub(t, a)) ELSE NoRow]
               top == Continue(row[p], op[w].tree)
    <2>1. Write(p, t, top, lift) BY <1>2 DEF LandMerge
    <2>2. Newest(top.line) = Commit BY <1>0, NewestContinue
    <2> HIDE DEF p, t
    <2>3. \A a \in Above(p) : lift[a] = NoRow \/ Newest(lift[a].line) = Commit
      BY <1>0, NewestContinue
    <2> HIDE DEF lift, top
    <2> QED BY <1>0, <2>1, <2>2, <2>3, WriteFresh
  <1> QED BY <1>1, <1>2

LEMMA NextFresh ==
  ASSUME TypeInv, [Next]_vars
  PROVE  Fresh
  <1>0. RowsOK BY DEF TypeInv
  <1>1. ASSUME NEW w \in Writers, LandPush(w) \/ LandMerge(w) PROVE Fresh BY <1>1, LandFresh
  <1>2. ASSUME NEW S, Bury(S) PROVE Fresh BY <1>2 DEF Bury, Fresh, Dirs
  <1>3. ASSUME NEW w \in Writers, Repair(w) \/ Reap(w) PROVE Fresh BY <1>2, <1>3 DEF Repair, Reap
  <1>4. CASE Inspect BY <1>2, <1>4 DEF Inspect
  <1>5. ASSUME NEW r \in Readers, Persist(r) PROVE Fresh
    <2> DEFINE p == walk[r].path
               new == [line |-> Append(tomb[p], Commit), tree |-> Sub(walk[r].root.tree, p)]
    <2>1. p \in Dirs /\ tomb[p] \in Lines /\ DOMAIN row = Paths
      BY <1>5 DEF Persist, TypeInv, WalksOK, RowsOK
    <2>2. Newest(new.line) = Commit BY <1>0, <2>1, RowFacts, NewestAppend
    <2>3. row' = [row EXCEPT ![p] = IF Has(p) THEN @ ELSE new] /\ clock' = Commit
      BY <1>5 DEF Persist
    <2> HIDE DEF p, new
    <2>4. \A q \in Dirs : row'[q] = row[q] \/ row'[q] = new BY <2>1, <2>3 DEF Dirs
    <2> QED BY <2>2, <2>3, <2>4 DEF Fresh
  <1>6. ASSUME clock' = clock \/ clock' = Commit,
               row' = row \/ \E v : row' = [row EXCEPT ![Root] = v]
        PROVE  Fresh
    <2>1. \A q \in Dirs : row'[q] = row[q] BY <1>0, <1>6 DEF RowsOK, Dirs
    <2> QED BY <1>6, <2>1 DEF Fresh
  <1>7. ASSUME NEW w \in Writers, LandAttach(w) \/ DetachStep(w) PROVE Fresh
    BY <1>6, <1>7 DEF LandAttach, DetachStep, EnqueueDetach, LandDetach
  <1>8. CASE Bypass
    <2>1. clock' = clock \/ clock' = Commit BY <1>8 DEF Bypass
    <2>2. \E v : row' = [row EXCEPT ![Root] = v] BY <1>8 DEF Bypass
    <2> QED BY <1>6, <2>1, <2>2
  <1>9. CASE Quiet \/ UNCHANGED vars
    BY <1>6, <1>9 DEF Quiet, EnqueuePush, EnqueueAttach, EnqueueMerge, Withdraw,
                      NotMaterialized, WalkRoot, Abandon, vars
  <1> QED BY <1>1, <1>3, <1>4, <1>5, <1>7, <1>8, <1>9
          DEF Next, Locked, Disciplined, WriterStep, ReaderStep, Quiet

\* An operation is left alone, ends, or is enqueued with the tip and the tree
\* that the row has.
OpMoves == \A w \in Writers :
  \/ op'[w] = op[w] \/ op'[w].kind \notin {"push", "merge"}
  \/ /\ UNCHANGED <<row, clock>> /\ op'[w].path \in Paths
     /\ op'[w].old = row[op'[w].path].line /\ op'[w].base = row[op'[w].path].tree

LEMMA NextOps ==
  ASSUME TypeInv, [Next]_vars
  PROVE  OpMoves
  <1>0. DOMAIN op = Writers BY DEF TypeInv, OpsOK
  <1>1. CASE op' = op BY <1>1 DEF OpMoves
  <1>2. ASSUME NEW w \in Writers, NEW v, op' = [op EXCEPT ![w] = v],
               v.kind \notin {"push", "merge"}
        PROVE  OpMoves
    BY <1>0, <1>2 DEF OpMoves
  <1>3. IdleOp.kind = "none" BY DEF IdleOp
  <1>4. ASSUME NEW w \in Writers,
               WriterStep(w) \/ DetachStep(w)
        PROVE  OpMoves
    <2>1. CASE op' \in {op, [op EXCEPT ![w] = IdleOp]} BY <1>1, <1>2, <1>3, <2>1
    <2>2. ASSUME NEW p, NEW k \in {"attach", "detach"},
                 op' = [op EXCEPT ![w] = [IdleOp EXCEPT !.kind = k, !.path = p]]
          PROVE  OpMoves
      <3>1. [IdleOp EXCEPT !.kind = k, !.path = p].kind = k BY DEF IdleOp
      <3> QED BY <1>2, <2>2, <3>1
    <2>3. ASSUME NEW p \in Paths, EnqueuePush(w, p) \/ EnqueueMerge(w, p) PROVE OpMoves
      <3>1. PICK k, t : op' = [op EXCEPT ![w] = [kind |-> k, path |-> p, old |-> row[p].line,
                                                 base |-> row[p].tree, tree |-> t]]
        BY <2>3 DEF EnqueuePush, EnqueueMerge
      <3>2. /\ op'[w].path = p /\ op'[w].old = row[p].line /\ op'[w].base = row[p].tree
            /\ \A x \in Writers : x # w => op'[x] = op[x]
        BY <1>0, <3>1
      <3>3. UNCHANGED <<row, clock>> BY <2>3 DEF EnqueuePush, EnqueueMerge
      <3> QED BY <3>2, <3>3 DEF OpMoves
    <2>4. Dirs \subseteq Paths BY DEF Dirs
    <2> QED BY <1>4, <2>1, <2>2, <2>3, <2>4
            DEF WriterStep, DetachStep, EnqueueAttach, EnqueueDetach, LandPush, LandMerge,
                LandAttach, LandDetach, Repair, Withdraw, Reap
  <1> QED BY <1>1, <1>4, Apart DEF Next, Locked, Disciplined, vars

LEMMA BasedStep ==
  ASSUME TypeInv, Dated, Based, [Next]_vars
  PROVE  Dated' /\ Based'
  <1>0. Fresh /\ OpMoves BY NextFresh, NextOps
  <1>1. clock \in Nat /\ Commit = clock + 1 /\ RowsOK BY DEF TypeInv, RowsOK, Commit
  <1>2. clock' \in Nat /\ clock <= clock' BY <1>0, <1>1 DEF Fresh
  <1>3. \A p \in Paths : row[p].line \in Lines BY <1>1, RowFacts
  <1>num. \A l \in Lines : l # <<>> => Newest(l) \in Nat BY DEF Lines, Newest
  <1>has. \A p \in Dirs : Has(p) => row[p].line \in Lines /\ row[p].line # <<>>
    BY <1>1 DEF RowsOK, Has, RowsAt, Dirs
  <1>4. Dated'
    <2> SUFFICES ASSUME NEW q \in Dirs, row'[q] # NoRow
                 PROVE  Newest(row'[q].line) <= clock'
      BY DEF Dated, Has
    <2>1. CASE row'[q] = row[q]
      <3>1. Has(q) /\ Newest(row[q].line) <= clock BY <2>1 DEF Dated, Has
      <3>2. Newest(row[q].line) \in Nat BY <1>num, <1>has, <3>1
      <3> QED BY <1>1, <1>2, <2>1, <3>1, <3>2
    <2>2. CASE clock' = Commit /\ Newest(row'[q].line) = Commit BY <1>1, <2>2
    <2> QED BY <1>0, <2>1, <2>2 DEF Fresh
  <1>5. ASSUME NEW w \in Writers, op'[w].kind \in {"push", "merge"}, op'[w].path # Root,
               op'[w].old # <<>>
        PROVE  /\ Newest(op'[w].old) <= clock'
               /\ row'[op'[w].path].line = op'[w].old => row'[op'[w].path].tree = op'[w].base
    <2> DEFINE p == op'[w].path
    <2>1. CASE op'[w] = op[w]
      <3>1. p \in Dirs /\ op[w].old \in Lines BY <1>5, <2>1 DEF TypeInv, OpsOK, Dirs
      <3>2. /\ Newest(op[w].old) <= clock
            /\ row[p].line = op[w].old => row[p].tree = op[w].base
        BY <1>5, <2>1 DEF Based
      <3>3. Newest(op[w].old) \in Nat BY <1>5, <1>num, <2>1, <3>1
      <3>4. CASE row'[p] = row[p] BY <1>1, <1>2, <2>1, <3>2, <3>3, <3>4
      <3>5. CASE row'[p] = NoRow BY <1>1, <1>2, <1>5, <2>1, <3>2, <3>3, <3>5 DEF NoRow
      <3>6. CASE clock' = Commit /\ Newest(row'[p].line) = Commit
        BY <1>1, <1>2, <2>1, <3>2, <3>3, <3>6
      <3> QED BY <1>0, <3>1, <3>4, <3>5, <3>6 DEF Fresh
    <2>2. CASE /\ UNCHANGED <<row, clock>> /\ p \in Paths
               /\ op'[w].old = row[p].line /\ op'[w].base = row[p].tree
      <3>1. p \in Dirs BY <1>5, <2>2 DEF Dirs
      <3>2. Has(p) BY <1>5, <2>2 DEF Has, NoRow
      <3> QED BY <2>2, <3>1, <3>2 DEF Dated
    <2> QED BY <1>0, <1>5, <2>1, <2>2 DEF OpMoves
  <1> QED BY <1>4, <1>5 DEF Based

\* Only the transaction of a push or a merge ends it with a new commit.
LEMMA Landed ==
  ASSUME TypeInv, [Next]_vars, NEW w \in Writers, Landing(w)
  PROVE  LandPush(w) \/ LandMerge(w)
  <1>0. /\ DOMAIN op = Writers /\ clock \in Nat /\ IdleOp.kind = "none"
        /\ op[w].kind \in {"push", "merge"} /\ op'[w] = IdleOp /\ clock' = clock + 1
    BY DEF TypeInv, OpsOK, RowsOK, Landing, IdleOp
  <1>1. op'[w] # op[w] /\ op[w] # IdleOp /\ clock' # clock BY <1>0
  <1>2. PICK x \in Writers : WriterStep(x) \/ DetachStep(x)
    BY <1>1, Apart DEF Next, Locked, Disciplined, vars
  <1>3. x = w
    <2>1. \E v : op' = [op EXCEPT ![x] = v] \/ op' = op
      BY <1>2 DEF WriterStep, DetachStep, EnqueuePush, EnqueueMerge, EnqueueAttach,
                  EnqueueDetach, LandPush, LandMerge, LandAttach, LandDetach, Repair, Withdraw,
                  Reap
    <2> QED BY <1>0, <1>1, <2>1
  <1>4. ~(Repair(w) \/ Withdraw(w) \/ Reap(w))
    BY <1>1 DEF Repair, Withdraw, Reap, Bury
  <1> QED BY <1>0, <1>1, <1>2, <1>3, <1>4
          DEF WriterStep, DetachStep, EnqueuePush, EnqueueMerge, EnqueueAttach, EnqueueDetach,
              LandAttach, LandDetach

----------------------------------------------------------------------------
(* Theorems.                                                               *)

\* I3 for every tree of directories and any number of operations and
\* materialisations: while every writer of the refs holds MONO_WRITE_LOCK
\* (push_queue_service.rs, materialize.rs, mono_write_audit.rs) and nobody
\* detaches an import repository, main@p is at every moment the subtree at p
\* of the root tree.
THEOREM ViewIsConsistent == DisciplinedSpec => []ViewConsistent
  <1>1. Init => Inv BY InitInv
  <1>2. Inv /\ [Disciplined]_vars => Inv'
    <2> SUFFICES ASSUME Inv, [Disciplined]_vars PROVE Inv' OBVIOUS
    <2>1. TypeInv /\ [Next]_vars BY DEF Inv, Next, Locked
    <2>2. TypeInv' BY <2>1, TypeStep
    <2>3. ViewConsistent' BY <2>1, DisciplinedRows DEF Inv, RowsStep
    <2> QED BY <2>2, <2>3 DEF Inv
  <1>3. Inv => ViewConsistent BY DEF Inv
  <1> QED BY <1>1, <1>2, <1>3, PTL DEF DisciplinedSpec

\* No step of any writer, detaches and the one outside the queue included, rewrites the
\* history of a row: a tip stays in the history of the next tip, and the
\* deletion of a row leaves its tip in the tombstone (mono_storage.rs).
THEOREM HistoryIsKept == Spec => RowKeepsHistory
  <1>1. Init => TypeInv BY InitInv DEF Inv
  <1>2. TypeInv /\ [Next]_vars => TypeInv' BY TypeStep
  <1>3. TypeInv /\ [Next]_vars =>
          [\A p \in Paths : Has(p) =>
             IF row'[p] # NoRow THEN IsPrefix(row[p].line, row'[p].line)
             ELSE p # Root /\ tomb'[p] = row[p].line]_vars
    BY TypeStep DEF Kept
  <1> QED BY <1>1, <1>2, <1>3, PTL DEF Spec, RowKeepsHistory

\* Rows, tombstones and what the operations and the walks remember keep their
\* types; main@/ is never deleted; the row ids are an order of the rows
\* whatever a push inserts with the path it creates (mono_storage.rs); and the
\* audit's cursor (mono_write_audit.rs) never leaves a row behind it unseen.
THEOREM TypeCorrect == Spec => []TypeOK
  <1>1. Init => TypeOK
    <2> SUFFICES ASSUME Init PROVE TypeOK OBVIOUS
    <2>1. TypeInv BY InitInv DEF Inv
    <2>2. Rows = {} BY DEF Init, Rows, Has, Dirs
    <2>3. IdsOK /\ CursorOK BY <2>2 DEF Init, IdsOK, CursorOK
    <2> QED BY <2>1, <2>3 DEF TypeOK, TypeInv
  <1>2. TypeOK /\ [Next]_vars => TypeOK'
    BY TypeStep, IndexStep DEF TypeOK, TypeInv
  <1> QED BY <1>1, <1>2, PTL DEF Spec

\* A push or a merge below the root that lands was based on what the root
\* tree holds at its path at that moment (b3_execute_push_inner and
\* b3_execute_merge_inner in push_queue_service.rs), even though rows are
\* deleted and materialised again and the root moves outside the queue.
THEOREM LandingsUndoNothing == Spec => NothingUndone
  <1> DEFINE I == TypeInv /\ Dated /\ Based
  <1>1. Init => I
    <2> SUFFICES ASSUME Init PROVE I OBVIOUS
    <2>1. TypeInv BY InitInv DEF Inv
    <2>2. Dated BY DEF Init, Dated, Has, Dirs
    <2>3. Based BY DEF Init, Based, IdleOp
    <2> QED BY <2>1, <2>2, <2>3
  <1>2. I /\ [Next]_vars => I' BY TypeStep, BasedStep
  <1>3. I /\ [Next]_vars =>
          [\A w \in Writers : Landing(w) /\ op[w].old # <<>> =>
             op[w].base = Sub(rootTree, op[w].path)]_vars
    <2> SUFFICES ASSUME I, [Next]_vars, NEW w \in Writers, Landing(w), op[w].old # <<>>
                 PROVE  op[w].base = Sub(rootTree, op[w].path)
      OBVIOUS
    <2> DEFINE p == op[w].path
    <2>1. ~Stale(p) /\ (PushGate(w) \/ MergeGate(w))
      BY Landed DEF LandPush, LandMerge
    <2>2. Has(p) /\ row[p].line = op[w].old BY <2>1 DEF PushGate, MergeGate
    <2>3. row[p].tree = op[w].base BY <2>2 DEF Landing, Based
    <2> QED BY <2>1, <2>2, <2>3 DEF Stale
  <1> HIDE DEF I
  <1> QED BY <1>1, <1>2, <1>3, PTL DEF Spec, NothingUndone
=============================================================================
