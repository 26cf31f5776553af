-------------------------- MODULE VillageLifeProofs ---------------------------
(***************************************************************************)
(* Theorems about VillageLife for every village, catalog and player: what  *)
(* the overlay shows an honest one, and what an upload may make of the     *)
(* upgrades anyone declared.  The game's history is tied to its rows by    *)
(* counting, so the sums the model takes come first.                       *)
(***************************************************************************)
EXTENDS VillageLife, WellFoundedInduction, FiniteSetTheorems, TLAPS

-----------------------------------------------------------------------------
(***************************************************************************)
(* What Apply's loop computes, as in BuildNowProofs.                       *)
(***************************************************************************)
\* A set of naturals has a least element: induction without a predicate.
LEMMA Least ==
  ASSUME NEW T, T \subseteq Nat, T # {}
  PROVE  \E m \in T : \A k \in T : m <= k
<1>1. \E m \in T : \A k \in T : ~(<<k, m>> \in OpToRel(<, Nat))
  BY WFMin, NatLessThanWellFounded
<1>2. PICK m \in T : \A k \in T : ~(<<k, m>> \in OpToRel(<, Nat))
  BY <1>1
<1>3. ASSUME NEW k \in T PROVE m <= k
  <2>1. m \in Nat /\ k \in Nat
    OBVIOUS
  <2>2. ~(k < m)
    BY <1>2, <2>1 DEF OpToRel
  <2> QED BY <2>1, <2>2
<1> QED BY <1>3

-----------------------------------------------------------------------------
(***************************************************************************)
(* A function defined by recursion on Nat exists: [n |-> v0, then F[.]].   *)
(***************************************************************************)
Runs(V, v0, F, n) ==
  {g \in [0..n -> V] : g[0] = v0 /\ \A k \in 1..n : g[k] = F[<<g[k-1], k>>]}

LEMMA RunsExist ==
  ASSUME NEW V, NEW v0 \in V, NEW F \in [V \X Nat -> V]
  PROVE  \A n \in Nat : Runs(V, v0, F, n) # {}
<1> DEFINE Bad == {n \in Nat : Runs(V, v0, F, n) = {}}
<1> SUFFICES ASSUME Bad # {} PROVE FALSE
  OBVIOUS
<1>1. PICK m \in Bad : \A k \in Bad : m <= k
  BY Least
<1>2. m \in Nat /\ Runs(V, v0, F, m) = {}
  OBVIOUS
<1>3. m # 0
  <2>1. [k \in 0..0 |-> v0] \in Runs(V, v0, F, 0)
    BY DEF Runs
  <2> QED BY <1>2, <2>1
<1>4. m - 1 \in Nat /\ m - 1 \notin Bad
  BY <1>1, <1>2, <1>3
<1>5. PICK g : g \in Runs(V, v0, F, m - 1)
  BY <1>4
<1> DEFINE h == [k \in 0..m |-> IF k = m THEN F[<<g[m-1], m>>] ELSE g[k]]
<1>6. g \in [0..(m-1) -> V] /\ g[0] = v0 /\ \A k \in 1..(m-1) : g[k] = F[<<g[k-1], k>>]
  BY <1>5 DEF Runs
<1>7. g[m-1] \in V /\ F[<<g[m-1], m>>] \in V
  BY <1>2, <1>4, <1>6
<1>8. \A k \in 0..(m-1) : h[k] = g[k]
  BY <1>2
<1>9. h[m] = F[<<h[m-1], m>>]
  <2>1. m \in 0..m /\ m - 1 \in 0..(m-1)
    BY <1>2, <1>4
  <2>2. h[m] = F[<<g[m-1], m>>]
    BY <2>1
  <2> HIDE DEF h
  <2> QED BY <2>1, <2>2, <1>8
<1>10. h \in [0..m -> V]
  BY <1>2, <1>6, <1>7
<1>11. ASSUME NEW k \in 1..m PROVE h[k] = F[<<h[k-1], k>>]
  <2>1. CASE k = m
    BY <2>1, <1>9
  <2>2. CASE k # m
    <3>1. k \in 1..(m-1) /\ k \in 0..(m-1) /\ k-1 \in 0..(m-1)
      BY <1>2, <2>2
    <3> HIDE DEF h
    <3> QED BY <3>1, <1>6, <1>8
  <2> QED BY <2>1, <2>2
<1>12. h[0] = v0
  BY <1>2, <1>3, <1>6, <1>8
<1>13. h \in Runs(V, v0, F, m)
  <2> HIDE DEF h
  <2> QED BY <1>10, <1>11, <1>12 DEF Runs
<1> QED BY <1>2, <1>13

LEMMA RunsAgree ==
  ASSUME NEW V, NEW v0 \in V, NEW F \in [V \X Nat -> V],
         NEW n \in Nat, NEW m \in Nat, n <= m,
         NEW g \in Runs(V, v0, F, n), NEW h \in Runs(V, v0, F, m)
  PROVE  g[n] = h[n]
<1> DEFINE Bad == {k \in 0..n : g[k] # h[k]}
<1> SUFFICES ASSUME Bad # {} PROVE FALSE
  OBVIOUS
<1>1. PICK b \in Bad : \A k \in Bad : b <= k
  <2>1. Bad \subseteq Nat
    OBVIOUS
  <2> QED BY <2>1, Least
<1>2. b # 0
  BY DEF Runs
<1>3. b - 1 \in 0..n /\ b - 1 \notin Bad
  BY <1>1, <1>2
<1>4. g[b-1] = h[b-1]
  BY <1>3
<1>5. g[b] = F[<<g[b-1], b>>] /\ h[b] = F[<<h[b-1], b>>]
  BY <1>2 DEF Runs
<1> QED BY <1>4, <1>5

Recurs(g, v0, F) == g[0] = v0 /\ \A n \in Nat \ {0} : g[n] = F[<<g[n-1], n>>]

LEMMA RecursionExists ==
  ASSUME NEW V, NEW v0 \in V, NEW F \in [V \X Nat -> V]
  PROVE  \E g \in [Nat -> V] : Recurs(g, v0, F)
<1> DEFINE R(n) == CHOOSE g : g \in Runs(V, v0, F, n)
           G == [n \in Nat |-> R(n)[n]]
<1>1. \A n \in Nat : R(n) \in Runs(V, v0, F, n)
  BY RunsExist
<1> HIDE DEF R
<1>2. G[0] = v0
  BY <1>1 DEF Runs
<1>3. ASSUME NEW n \in Nat PROVE G[n] \in V
  BY <1>1 DEF Runs
<1>4. ASSUME NEW n \in Nat, n # 0 PROVE G[n] = F[<<G[n-1], n>>]
  <2>1. n - 1 \in Nat
    BY <1>4
  <2>2. R(n)[n] = F[<<R(n)[n-1], n>>]
    BY <1>1, <1>4 DEF Runs
  <2>3. R(n-1)[n-1] = R(n)[n-1]
    BY <1>1, <2>1, RunsAgree
  <2> QED BY <2>1, <2>2, <2>3
<1>5. G \in [Nat -> V]
  BY <1>3
<1> HIDE DEF G
<1> QED BY <1>2, <1>4, <1>5 DEF Recurs

\* One turn of Apply's loop.
Consider(rows, at, list, n) ==
  LET hit == {a \in list : a.id = n /\ Placeable(rows, at, a)}
  IN IF hit = {} THEN rows ELSE Split(rows, at, CHOOSE a \in hit : TRUE)

Cells == Items \X Levels \X Timers

LEMMA HereIsACell ==
  ASSUME NEW a \in Action PROVE <<a.item, a.from, 0>> \in Cells
BY OverlayAssumption DEF Action, Timers, Cells

Here(a) == <<a.item, a.from, 0>>

LEMMA StepTimeIsNat ==
  ASSUME NEW a \in Action PROVE StepTime(a) \in Nat
BY OverlayAssumption DEF Action, StepTime

LEMMA RemainingIsInt ==
  ASSUME NEW a \in Action, NEW at \in Nat PROVE Remaining(a, at) \in Int
<1>1. StepTime(a) \in Nat /\ a.startedAt \in Nat
  BY StepTimeIsNat DEF Action
<1> QED BY <1>1 DEF Remaining

LEMMA SplitCells ==
  ASSUME NEW rows \in Rows, NEW at \in Nat, NEW a \in Action, Placeable(rows, at, a)
  PROVE  /\ Split(rows, at, a) \in Rows
         /\ Here(a) \in Cells
         /\ Here(a) # Landing(a, at)
         /\ \A c \in Cells : Split(rows, at, a)[c] =
              IF c = Here(a) THEN rows[c] - 1
              ELSE IF c = Landing(a, at) THEN rows[c] + 1 ELSE rows[c]
<1> DEFINE here == Here(a)
           there == Landing(a, at)
           once == [rows EXCEPT ![here] = rows[here] - 1]
<1>1. here \in Cells /\ rows \in [Cells -> Nat]
  BY HereIsACell DEF Rows, Cells, Here
<1>2. rows[here] > 0
  BY DEF Placeable, Here
<1>3. Split(rows, at, a) = [once EXCEPT ![there] = rows[there] + 1]
  BY DEF Split, Here
<1>4. here # there
  <2>1. a.from # a.from + 1
    BY OverlayAssumption DEF Action, Levels
  <2>2. CASE StepTime(a) > 0
    <3>1. Remaining(a, at) \in Int /\ Remaining(a, at) > 0
      BY <2>2, RemainingIsInt DEF Placeable
    <3> QED BY <2>2, <3>1 DEF Landing, Here
  <2>3. CASE ~(StepTime(a) > 0)
    BY <2>1, <2>3 DEF Landing, Here
  <2> QED BY <2>2, <2>3
<1> HIDE DEF here, there
<1>5. once \in [Cells -> Nat]
  BY <1>1, <1>2
<1>6. rows[there] + 1 \in Nat \/ there \notin Cells
  BY <1>1
<1>7. \A c \in Cells : once[c] = IF c = here THEN rows[c] - 1 ELSE rows[c]
  BY <1>1
<1> HIDE DEF once
<1>8. Split(rows, at, a) \in [Cells -> Nat]
  BY <1>3, <1>5, <1>6
<1>9. \A c \in Cells : Split(rows, at, a)[c] =
              IF c = here THEN rows[c] - 1
              ELSE IF c = there THEN rows[c] + 1 ELSE rows[c]
  BY <1>3, <1>4, <1>5, <1>7
<1> QED BY <1>1, <1>4, <1>8, <1>9 DEF Rows, Cells, here, there

LEMMA ConsiderType ==
  ASSUME NEW rows \in Rows, NEW at \in Nat, NEW list, list \subseteq Action, NEW n
  PROVE  Consider(rows, at, list, n) \in Rows
BY SplitCells DEF Consider

LEMMA AfterActionDef ==
  ASSUME NEW e \in Export, NEW list, list \subseteq Action
  PROVE  /\ AfterAction(e, list)[0] = e.rows
         /\ \A n \in Nat \ {0} : AfterAction(e, list)[n] =
               Consider(AfterAction(e, list)[n-1], e.at, list, n)
<1> DEFINE F == [p \in Rows \X Nat |-> Consider(p[1], e.at, list, p[2])]
<1>0. e.rows \in Rows /\ e.at \in Nat
  BY DEF Export
<1>1. F \in [Rows \X Nat -> Rows]
  BY <1>0, ConsiderType
<1>1a. \A rows \in Rows, n \in Nat : F[<<rows, n>>] = Consider(rows, e.at, list, n)
  OBVIOUS
<1> HIDE DEF F
<1>2a. PICK g \in [Nat -> Rows] : Recurs(g, e.rows, F)
  BY <1>0, <1>1, RecursionExists
<1>2. g[0] = e.rows /\ \A n \in Nat \ {0} : g[n] = F[<<g[n-1], n>>]
  BY <1>2a DEF Recurs
<1>3. g = [n \in Nat |-> IF n = 0 THEN e.rows ELSE Consider(g[n-1], e.at, list, n)]
  <2> DEFINE h == [n \in Nat |-> IF n = 0 THEN e.rows ELSE Consider(g[n-1], e.at, list, n)]
  <2>1. ASSUME NEW n \in Nat PROVE g[n] = h[n]
    <3>1. CASE n = 0
      BY <1>2, <3>1
    <3>2. CASE n # 0
      <4>1. n - 1 \in Nat /\ g[n-1] \in Rows
        BY <3>2
      <4> QED BY <1>1a, <1>2, <3>2, <4>1
    <3> QED BY <3>1, <3>2
  <2> QED BY <2>1
<1>4. AfterAction(e, list) = [n \in Nat |-> IF n = 0 THEN e.rows ELSE Consider(AfterAction(e, list)[n-1], e.at, list, n)]
  BY <1>3, Zenon DEF AfterAction, Consider
<1> QED BY <1>4

\* What a village's list is: ids start at 1 and tell actions apart.
Listed(list) == /\ list \subseteq Action
                /\ \A a \in list : a.id > 0
                /\ \A a, b \in list : a.id = b.id => a = b

LEMMA AfterActionType ==
  ASSUME NEW e \in Export, NEW list, list \subseteq Action
  PROVE  \A n \in Nat : AfterAction(e, list)[n] \in Rows
<1> DEFINE Bad == {n \in Nat : AfterAction(e, list)[n] \notin Rows}
<1> SUFFICES ASSUME Bad # {} PROVE FALSE
  OBVIOUS
<1>1. PICK m \in Bad : \A k \in Bad : m <= k
  <2>1. Bad \subseteq Nat
    OBVIOUS
  <2> QED BY <2>1, Least
<1>2. e.rows \in Rows /\ e.at \in Nat
  BY DEF Export
<1>3. m \in Nat \ {0}
  BY <1>2, AfterActionDef
<1>4. AfterAction(e, list)[m-1] \in Rows
  BY <1>1, <1>3
<1> QED BY <1>2, <1>3, <1>4, AfterActionDef, ConsiderType

LEMMA ConsiderOne ==
  ASSUME NEW list, Listed(list), NEW rows, NEW at, NEW a \in list
  PROVE  Consider(rows, at, list, a.id) =
           IF Placeable(rows, at, a) THEN Split(rows, at, a) ELSE rows
<1> DEFINE hit == {b \in list : b.id = a.id /\ Placeable(rows, at, b)}
<1>1. hit = IF Placeable(rows, at, a) THEN {a} ELSE {}
  BY DEF Listed
<1>2. Placeable(rows, at, a) => (CHOOSE b \in hit : TRUE) = a
  BY <1>1
<1> HIDE DEF hit
<1>3. Consider(rows, at, list, a.id) =
        IF hit = {} THEN rows ELSE Split(rows, at, CHOOSE b \in hit : TRUE)
  BY DEF Consider, hit
<1> QED BY <1>1, <1>2, <1>3

LEMMA ConsiderNone ==
  ASSUME NEW list, NEW rows, NEW at, NEW n, \A a \in list : a.id # n
  PROVE  Consider(rows, at, list, n) = rows
BY DEF Consider

(***************************************************************************)
(* Lists that agree up to n, but for actions Apply skips, leave the same   *)
(* rows up to n.                                                           *)
(***************************************************************************)
SkippedUpTo(e, list, some, n) ==
  \A a \in list \ some :
    a.id <= n => ~Placeable(AfterAction(e, list)[a.id - 1], e.at, a)

LEMMA SameRows ==
  ASSUME NEW e \in Export, NEW list, Listed(list), NEW some, Listed(some),
         NEW n \in Nat,
         \A a \in some : a.id <= n => a \in list,
         SkippedUpTo(e, list, some, n)
  PROVE  \A k \in 0..n : AfterAction(e, some)[k] = AfterAction(e, list)[k]
<1> DEFINE Bad == {k \in 0..n : AfterAction(e, some)[k] # AfterAction(e, list)[k]}
<1> SUFFICES ASSUME Bad # {} PROVE FALSE
  OBVIOUS
<1>1. PICK m \in Bad : \A k \in Bad : m <= k
  <2>1. Bad \subseteq Nat
    OBVIOUS
  <2> QED BY <2>1, Least
<1>0. list \subseteq Action /\ some \subseteq Action
  BY DEF Listed
<1>2. m # 0
  BY <1>0, AfterActionDef
<1> DEFINE rows == AfterAction(e, list)[m-1]
<1>3. AfterAction(e, some)[m-1] = rows
  BY <1>1, <1>2
<1>4. /\ AfterAction(e, list)[m] = Consider(rows, e.at, list, m)
      /\ AfterAction(e, some)[m] = Consider(rows, e.at, some, m)
  BY <1>0, <1>2, <1>3, AfterActionDef
<1> SUFFICES Consider(rows, e.at, list, m) = Consider(rows, e.at, some, m)
  BY <1>4
<1>5. CASE \E a \in some : a.id = m
  <2>1. PICK a \in some : a.id = m
    BY <1>5
  <2>2. a \in list
    BY <2>1
  <2> HIDE DEF rows
  <2> QED BY <2>1, <2>2, ConsiderOne
<1>6. CASE (~\E a \in some : a.id = m) /\ \E a \in list : a.id = m
  <2>1. PICK a \in list : a.id = m
    BY <1>6
  <2>2. a \notin some /\ ~Placeable(rows, e.at, a)
    BY <1>6, <2>1 DEF SkippedUpTo
  <2> HIDE DEF rows
  <2> QED BY <1>6, <2>1, <2>2, ConsiderOne, ConsiderNone
<1>7. CASE (~\E a \in some : a.id = m) /\ ~\E a \in list : a.id = m
  BY <1>7, ConsiderNone
<1> QED BY <1>5, <1>6, <1>7

\* Removing stale actions, all or some, changes nothing: the same are stale
\* as before among those that stay, so a second overlay removes no more.
LEMMA StaleAgain ==
  ASSUME NEW e \in Export, NEW list, Listed(list), NEW some,
         Applied(e, list) \subseteq some, some \subseteq list
  PROVE  /\ \A n \in Nat : AfterAction(e, some)[n] = AfterAction(e, list)[n]
         /\ Stale(e, some) = Stale(e, list) \cap some
<1>1. Listed(some)
  BY DEF Listed
<1>2. \A n \in Nat : SkippedUpTo(e, list, some, n)
  BY DEF SkippedUpTo, Applied, Stale
<1>3. \A n \in Nat : AfterAction(e, some)[n] = AfterAction(e, list)[n]
  <2> TAKE n \in Nat
  <2>1. \A k \in 0..n : AfterAction(e, some)[k] = AfterAction(e, list)[k]
    BY <1>1, <1>2, SameRows
  <2> QED BY <2>1
<1>4. \A a \in some : a.id - 1 \in Nat
  BY DEF Listed, Action
<1> QED BY <1>3, <1>4 DEF Stale

LEMMA AppliedSettles ==
  ASSUME NEW e \in Export, NEW list, Listed(list)
  PROVE  Stale(e, Applied(e, list)) = {}
BY StaleAgain DEF Applied

\* The rows after the last action are the rows after any later id.
LEMMA LastIdIsLast ==
  ASSUME NEW list, Listed(list), NEW n \in Nat, \A a \in list : a.id <= n
  PROVE  LastId(list) \in 0..n /\ \A a \in list : a.id <= LastId(list)
<1>1. CASE list = {}
  BY <1>1 DEF LastId
<1>2. CASE list # {}
  <2> DEFINE ids == {a.id : a \in list}
             Tops == {m \in Nat : \A i \in ids : i <= m}
  <2>1. ids \subseteq Nat
    BY DEF Listed, Action
  <2>2. n \in Tops
    OBVIOUS
  <2>3. PICK m \in Tops : \A k \in Tops : m <= k
    <3>1. Tops \subseteq Nat /\ Tops # {}
      BY <2>2
    <3> HIDE DEF Tops
    <3> QED BY <3>1, Least
  <2>4. m \in ids
    <3> SUFFICES ASSUME m \notin ids PROVE FALSE
      OBVIOUS
    <3>1. \A i \in ids : i <= m - 1
      BY <2>1, <2>3
    <3>2. PICK i \in ids : i \in Nat /\ i <= m - 1
      BY <1>2, <2>1, <3>1
    <3>3. m - 1 \in Nat
      BY <2>3, <3>2
    <3> QED BY <2>3, <3>1, <3>3
  <2>5. Max(ids) \in ids /\ \A i \in ids : Max(ids) >= i
    <3>1. \E x \in ids : \A y \in ids : x >= y
      BY <2>1, <2>3, <2>4
    <3> HIDE DEF ids
    <3> QED BY <3>1 DEF Max
  <2>6. LastId(list) = Max(ids)
    BY <1>2 DEF LastId
  <2> QED BY <2>1, <2>5, <2>6
<1> QED BY <1>1, <1>2

LEMMA RowsPastLast ==
  ASSUME NEW e \in Export, NEW list, Listed(list), NEW n \in Nat,
         \A a \in list : a.id <= n
  PROVE  AfterAction(e, list)[n] = AfterAction(e, list)[LastId(list)]
<1> DEFINE last == LastId(list)
           Bad == {k \in last..n : AfterAction(e, list)[k] # AfterAction(e, list)[last]}
<1>1. last \in 0..n /\ \A a \in list : a.id <= last
  BY LastIdIsLast
<1> HIDE DEF last
<1> SUFFICES ASSUME Bad # {} PROVE FALSE
  BY <1>1 DEF last
<1>2. PICK m \in Bad : \A k \in Bad : m <= k
  <2>1. Bad \subseteq Nat
    BY <1>1
  <2> QED BY <2>1, Least
<1>3. m \in Nat \ {0} /\ m > last /\ m - 1 \in last..n
  BY <1>1
<1>4. AfterAction(e, list)[m-1] = AfterAction(e, list)[last]
  BY <1>1, <1>2, <1>3
<1>5. \A a \in list : a.id # m
  BY <1>1, <1>3 DEF Listed, Action
<1>6. AfterAction(e, list)[m] = Consider(AfterAction(e, list)[m-1], e.at, list, m)
  BY <1>3, AfterActionDef DEF Listed
<1> QED BY <1>4, <1>5, <1>6, ConsiderNone

(***************************************************************************)
(* The idle copies of item i at level l after the actions up to n: what an *)
(* action does to them, and how many there are.                            *)
(***************************************************************************)
IdleCell(i, l) == <<i, l, 0>>

LEMMA IdleCellIsACell ==
  ASSUME NEW i \in Items, NEW l \in Levels PROVE IdleCell(i, l) \in Cells
BY OverlayAssumption DEF IdleCell, Cells, Timers

\* One more if the action lands there at once, one less if it leaves there.
LEMMA SplitIdle ==
  ASSUME NEW rows \in Rows, NEW at \in Nat, NEW a \in Action, Placeable(rows, at, a),
         NEW i \in Items, NEW l \in Levels
  PROVE  Split(rows, at, a)[IdleCell(i, l)] =
           IF a.item = i /\ a.from = l THEN rows[IdleCell(i, l)] - 1
           ELSE IF a.item = i /\ a.from + 1 = l /\ StepTime(a) = 0
                THEN rows[IdleCell(i, l)] + 1 ELSE rows[IdleCell(i, l)]
<1>1. IdleCell(i, l) \in Cells
  BY IdleCellIsACell
<1>2. (IdleCell(i, l) = Here(a)) <=> (a.item = i /\ a.from = l)
  BY DEF IdleCell, Here
<1>3. StepTime(a) \in Nat
  BY StepTimeIsNat
<1>4. (IdleCell(i, l) = Landing(a, at)) <=>
         (a.item = i /\ a.from + 1 = l /\ StepTime(a) = 0)
  <2>1. CASE StepTime(a) > 0
    <3>1. Remaining(a, at) \in Int /\ Remaining(a, at) > 0
      BY <2>1, RemainingIsInt DEF Placeable
    <3> QED BY <2>1, <3>1 DEF IdleCell, Landing
  <2>2. CASE ~(StepTime(a) > 0)
    <3>1. StepTime(a) = 0
      BY <1>3, <2>2
    <3> QED BY <2>2, <3>1 DEF IdleCell, Landing
  <2> QED BY <2>1, <2>2
<1> QED BY <1>1, <1>2, <1>4, SplitCells

LEMMA RowsAreNat ==
  ASSUME NEW rows \in Rows, NEW c \in Cells PROVE rows[c] \in Nat
BY DEF Rows, Cells

\* A placeable action finds an idle copy.
LEMMA PlaceableCell ==
  ASSUME NEW rows, NEW at, NEW a
  PROVE  Placeable(rows, at, a) <=>
           /\ a.item \in Known
           /\ StepTime(a) > 0 => Remaining(a, at) > 0
           /\ a.item \in Arrayed
           /\ rows[IdleCell(a.item, a.from)] > 0
BY DEF Placeable, IdleCell

-----------------------------------------------------------------------------
(***************************************************************************)
(* Sums.  MapThenSumSet adds up in the order CHOOSE picks; of naturals the *)
(* sum is the same in any order, so any element can be taken out.          *)
(***************************************************************************)
OneOf(T) == CHOOSE x \in T : TRUE

SumFrom(g, f, T) == IF T = {} THEN 0 ELSE f[OneOf(T)] + g[T \ {OneOf(T)}]

Sums(g, f, S) == g = [T \in SUBSET S |-> SumFrom(g, f, T)]

\* One element less.
LEMMA FewerOf ==
  ASSUME NEW S, IsFiniteSet(S), NEW T \in SUBSET S, NEW x \in T
  PROVE  /\ T \ {x} \in SUBSET S
         /\ Cardinality(T) \in Nat /\ Cardinality(T \ {x}) \in Nat
         /\ Cardinality(T \ {x}) = Cardinality(T) - 1
<1>1. IsFiniteSet(T)
  BY FS_Subset
<1> QED BY <1>1, FS_RemoveElement, FS_CardinalityType

\* A function that adds f up over every subset: what each round of adding up
\* settles, for one element more, stays.
LEMMA SumsExist ==
  ASSUME NEW S, IsFiniteSet(S), NEW f \in [S -> Nat]
  PROVE  \E g \in [SUBSET S -> Nat] : Sums(g, f, S)
<1> DEFINE V == [SUBSET S -> Nat]
           Better(g) == [T \in SUBSET S |-> SumFrom(g, f, T)]
           F == [p \in V \X Nat |-> Better(p[1])]
           none == [T \in SUBSET S |-> 0]
<1>0. \A T \in SUBSET S : T # {} => OneOf(T) \in T
  BY DEF OneOf
<1>1. \A g \in V : Better(g) \in V
  <2> SUFFICES ASSUME NEW g \in V, NEW T \in SUBSET S PROVE SumFrom(g, f, T) \in Nat
    OBVIOUS
  <2>1. CASE T # {}
    <3>1. OneOf(T) \in S /\ T \ {OneOf(T)} \in SUBSET S
      BY <1>0, <2>1
    <3>2. f[OneOf(T)] \in Nat /\ g[T \ {OneOf(T)}] \in Nat
      BY <3>1
    <3> QED BY <3>2 DEF SumFrom
  <2> QED BY <2>1 DEF SumFrom
<1>2. F \in [V \X Nat -> V] /\ none \in V
  BY <1>1
<1>3. \A g \in V, n \in Nat : F[<<g, n>>] = Better(g)
  OBVIOUS
<1> HIDE DEF F, none
<1>4. PICK G \in [Nat -> V] : Recurs(G, none, F)
  BY <1>2, RecursionExists
<1>5. G[0] = none /\ \A n \in Nat \ {0} : G[n] = Better(G[n-1])
  <2>1. ASSUME NEW n \in Nat \ {0} PROVE G[n] = Better(G[n-1])
    <3>1. n - 1 \in Nat
      OBVIOUS
    <3>2. G[n] = F[<<G[n-1], n>>]
      BY <1>4 DEF Recurs
    <3> QED BY <1>3, <3>1, <3>2
  <2> QED BY <1>4, <2>1 DEF Recurs
<1>5a. \A n \in Nat \ {0} : \A T \in SUBSET S : G[n][T] = SumFrom(G[n-1], f, T)
  BY <1>5
<1> HIDE DEF Better, V
<1> DEFINE Done(n) == \A T \in SUBSET S : Cardinality(T) <= n => G[n+1][T] = G[n][T]
           Bad == {n \in Nat : ~Done(n)}
<1>6. ASSUME Bad # {} PROVE FALSE
  <2>1. PICK m \in Bad : \A k \in Bad : m <= k
    <3>1. Bad \subseteq Nat
      OBVIOUS
    <3> HIDE DEF Bad
    <3> QED BY <1>6, <3>1, Least
  <2>2. m \in Nat /\ ~Done(m)
    OBVIOUS
  <2>3. PICK T \in SUBSET S : Cardinality(T) <= m /\ G[m+1][T] # G[m][T]
    BY <2>2
  <2>4. G[m+1][T] = SumFrom(G[m], f, T)
    <3>1. m + 1 \in Nat \ {0} /\ (m + 1) - 1 = m
      BY <2>2
    <3> QED BY <1>5a, <3>1
  <2>5. CASE T = {}
    <3>1. G[m+1][T] = 0
      BY <2>4, <2>5 DEF SumFrom
    <3>2. CASE m = 0
      BY <1>5, <2>3, <3>1, <3>2 DEF none
    <3>3. CASE m # 0
      <4>1. m \in Nat \ {0}
        BY <2>2, <3>3
      <4>2. G[m][T] = SumFrom(G[m-1], f, T)
        BY <1>5a, <4>1
      <4> QED BY <2>3, <2>5, <3>1, <4>2 DEF SumFrom
    <3> QED BY <3>2, <3>3
  <2>6. CASE T # {}
    <3>1. OneOf(T) \in T
      BY <1>0, <2>6
    <3> DEFINE U == T \ {OneOf(T)}
    <3>2. U \in SUBSET S /\ Cardinality(T) \in Nat /\ Cardinality(U) \in Nat /\ Cardinality(U) = Cardinality(T) - 1
      BY <3>1, FewerOf
    <3>3. m - 1 \in Nat /\ (m - 1) + 1 = m /\ Cardinality(U) <= m - 1 /\ m \in Nat \ {0}
      BY <2>2, <2>3, <3>2
    <3>4. Done(m - 1)
      BY <2>1, <3>3
    <3>5. G[m][U] = G[m-1][U]
      <4>1. G[(m-1)+1][U] = G[m-1][U]
        BY <3>2, <3>3, <3>4
      <4> QED BY <3>3, <4>1
    <3>6. G[m][T] = SumFrom(G[m-1], f, T)
      BY <1>5a, <3>3
    <3> QED BY <2>3, <2>4, <2>6, <3>5, <3>6 DEF SumFrom
  <2> QED BY <2>5, <2>6
<1> DEFINE N == Cardinality(S)
<1>7. N \in Nat /\ G[N] \in V
  BY FS_CardinalityType
<1>8. \A T \in SUBSET S : Cardinality(T) <= N
  BY FS_Subset
<1>9. \A T \in SUBSET S : G[N][T] = SumFrom(G[N], f, T)
  <2>1. Done(N)
    BY <1>6, <1>7
  <2>2. \A T \in SUBSET S : G[N+1][T] = SumFrom(G[N], f, T)
    <3>1. N + 1 \in Nat \ {0} /\ (N + 1) - 1 = N
      BY <1>7
    <3> HIDE DEF N
    <3> QED BY <1>5a, <3>1
  <2> HIDE DEF N
  <2> QED BY <1>8, <2>1, <2>2
<1> HIDE DEF N
<1>10. Sums(G[N], f, S)
  BY <1>7, <1>9 DEF Sums, V
<1> QED BY <1>7, <1>10 DEF V

\* Any element may be taken out first.
LEMMA SumTakesAny ==
  ASSUME NEW S, IsFiniteSet(S), NEW f \in [S -> Nat],
         NEW g \in [SUBSET S -> Nat], Sums(g, f, S)
  PROVE  /\ g[{}] = 0
         /\ \A T \in SUBSET S : \A y \in T : g[T] = f[y] + g[T \ {y}]
<1>0. \A T \in SUBSET S : T # {} => OneOf(T) \in T
  BY DEF OneOf
<1>1. \A T \in SUBSET S : g[T] = SumFrom(g, f, T)
  BY DEF Sums
<1> DEFINE Fits(T) == \A y \in T : g[T] = f[y] + g[T \ {y}]
           Bad == {n \in Nat : \E T \in SUBSET S : Cardinality(T) = n /\ ~Fits(T)}
<1>2. ASSUME Bad # {} PROVE FALSE
  <2>1. PICK m \in Bad : \A k \in Bad : m <= k
    <3>1. Bad \subseteq Nat
      OBVIOUS
    <3> HIDE DEF Bad
    <3> QED BY <1>2, <3>1, Least
  <2>2. m \in Nat
    OBVIOUS
  <2>3. PICK T \in SUBSET S : Cardinality(T) = m /\ ~Fits(T)
    OBVIOUS
  <2>4. PICK y \in T : g[T] # f[y] + g[T \ {y}]
    BY <2>3
  <2> DEFINE x == OneOf(T)
             U == T \ {x}
             W == T \ {y}
             Both == U \ {y}
  <2>5. x \in T /\ g[T] = f[x] + g[U]
    BY <1>0, <1>1 DEF SumFrom
  <2>6. y # x
    BY <2>4, <2>5
  <2>7. /\ U \in SUBSET S /\ W \in SUBSET S /\ Both \in SUBSET S
        /\ y \in U /\ x \in W /\ Both = W \ {x}
    BY <2>5, <2>6
  <2>8. Cardinality(U) \in Nat /\ Cardinality(W) \in Nat /\ Cardinality(U) < m /\ Cardinality(W) < m
    BY <2>2, <2>3, <2>5, FewerOf
  <2>9. \A Q \in SUBSET S : Cardinality(Q) \in Nat /\ Cardinality(Q) < m => Fits(Q)
    <3> SUFFICES ASSUME NEW Q \in SUBSET S, Cardinality(Q) \in Nat, Cardinality(Q) < m, ~Fits(Q)
                 PROVE FALSE
      OBVIOUS
    <3>1. Cardinality(Q) \in Bad
      OBVIOUS
    <3> QED BY <2>1, <2>2, <3>1
  <2>10. g[U] = f[y] + g[Both] /\ g[W] = f[x] + g[W \ {x}]
    BY <2>7, <2>8, <2>9
  <2>11. f[x] \in Nat /\ f[y] \in Nat /\ g[U] \in Nat /\ g[W] \in Nat /\ g[Both] \in Nat
    BY <2>5, <2>7
  <2> HIDE DEF x, U, W, Both
  <2>12. g[T] = f[y] + g[W]
    BY <2>5, <2>7, <2>10, <2>11
  <2> QED BY <2>4, <2>12 DEF W
<1>3. \A T \in SUBSET S : Fits(T)
  <2> SUFFICES ASSUME NEW T \in SUBSET S, ~Fits(T) PROVE FALSE
    OBVIOUS
  <2>1. Cardinality(T) \in Nat
    BY FS_Subset, FS_CardinalityType
  <2>2. Cardinality(T) \in Bad
    BY <2>1
  <2> QED BY <1>2, <2>2
<1>4. g[{}] = 0
  BY <1>1 DEF SumFrom
<1> QED BY <1>3, <1>4

\* The copies of item i at level l with a timer in S, and the sum MapThenSumSet makes of it.
CopiesIn(rows, i, l, S) == MapThenSumSet(LAMBDA t : rows[i, l, t], S)
SumsUp(h, rows, i, l, S) ==
  h = [T \in SUBSET S |-> IF T = {} THEN 0 ELSE rows[i, l, OneOf(T)] + h[T \ {OneOf(T)}]]

\* If some function adds them up, the one MapThenSumSet picks does.
LEMMA IsSum ==
  ASSUME NEW S, NEW rows, NEW i, NEW l, \E h : SumsUp(h, rows, i, l, S)
  PROVE \E h : SumsUp(h, rows, i, l, S) /\ CopiesIn(rows, i, l, S) = h[S]
<1> DEFINE h == CHOOSE h : SumsUp(h, rows, i, l, S)
<1>1. SumsUp(h, rows, i, l, S)
  OBVIOUS
<1>2. CopiesIn(rows, i, l, S) = h[S]
  BY Zenon DEF CopiesIn, MapThenSumSet, MapThenFoldSet, SumsUp, OneOf
<1> QED BY <1>1, <1>2

SumUp(g, f, S) == \A T \in SUBSET S : g[T] = SumFrom(g, f, T)

\* No two functions add up differently.
LEMMA SumsAgree ==
  ASSUME NEW S, IsFiniteSet(S), NEW f, NEW g, NEW k, SumUp(g, f, S), SumUp(k, f, S)
  PROVE  \A T \in SUBSET S : g[T] = k[T]
<1> DEFINE Bad == {n \in Nat : \E T \in SUBSET S : Cardinality(T) = n /\ g[T] # k[T]}
<1>1. ASSUME Bad # {} PROVE FALSE
  <2>1. PICK m \in Bad : \A j \in Bad : m <= j
    <3>1. Bad \subseteq Nat
      OBVIOUS
    <3> HIDE DEF Bad
    <3> QED BY <1>1, <3>1, Least
  <2>2. PICK T \in SUBSET S : Cardinality(T) = m /\ g[T] # k[T]
    OBVIOUS
  <2>3. T # {}
    BY <2>2 DEF SumFrom, SumUp
  <2> DEFINE x == OneOf(T)
  <2>4. x \in T
    BY <2>3 DEF OneOf
  <2>5. T \ {x} \in SUBSET S /\ Cardinality(T \ {x}) \in Nat /\ Cardinality(T \ {x}) < m
    BY <2>2, <2>4, FewerOf
  <2>6. g[T \ {x}] = k[T \ {x}]
    <3>1. Cardinality(T \ {x}) \notin Bad
      <4>1. m \in Nat
        OBVIOUS
      <4> HIDE DEF Bad
      <4> QED BY <2>1, <2>5, <4>1
    <3> QED BY <2>5, <3>1
  <2> QED BY <2>2, <2>3, <2>6 DEF SumFrom, SumUp
<1> SUFFICES ASSUME NEW T \in SUBSET S, g[T] # k[T] PROVE FALSE
  OBVIOUS
<1>2. Cardinality(T) \in Nat
  BY FS_Subset, FS_CardinalityType
<1>3. Cardinality(T) \in Bad
  BY <1>2
<1> QED BY <1>1, <1>3

\* The sum of no timers is 0, and any timer may be taken out first.
LEMMA CopiesSums ==
  ASSUME NEW rows \in Rows, NEW i \in Items, NEW l \in Levels
  PROVE  \E g \in [SUBSET Timers -> Nat] :
           /\ g[{}] = 0
           /\ \A T \in SUBSET Timers : \A y \in T : g[T] = rows[<<i, l, y>>] + g[T \ {y}]
           /\ \A T \in SUBSET Timers : CopiesIn(rows, i, l, T) = g[T]
<1> DEFINE f == [t \in Timers |-> rows[<<i, l, t>>]]
<1>1. IsFiniteSet(Timers)
  BY FS_Interval, OverlayAssumption DEF Timers
<1>2. f \in [Timers -> Nat]
  BY DEF Rows
<1>2a. \A t \in Timers : f[t] = rows[i, l, t]
  BY Zenon
<1> HIDE DEF f
<1>3. PICK g \in [SUBSET Timers -> Nat] : Sums(g, f, Timers)
  BY <1>1, <1>2, SumsExist
<1>4. /\ g[{}] = 0
      /\ \A T \in SUBSET Timers : \A y \in T : g[T] = f[y] + g[T \ {y}]
  BY <1>1, <1>2, <1>3, SumTakesAny
<1>5. ASSUME NEW S \in SUBSET Timers PROVE CopiesIn(rows, i, l, S) = g[S]
  <2> DEFINE h == [T \in SUBSET S |-> g[T]]
  <2>1. \A T \in SUBSET S : T # {} => OneOf(T) \in T
    BY DEF OneOf
  <2>2. \A T \in SUBSET S : T # {} => h[T] = f[OneOf(T)] + h[T \ {OneOf(T)}]
    BY <1>4, <2>1
  <2>3. \A T \in SUBSET S : T # {} => f[OneOf(T)] = rows[i, l, OneOf(T)]
    BY <1>2a, <2>1, Zenon
  <2>4. h[{}] = 0
    BY <1>4
  <2> DEFINE better == [T \in SUBSET S |-> IF T = {} THEN 0 ELSE rows[i, l, OneOf(T)] + h[T \ {OneOf(T)}]]
  <2>5. \A T \in SUBSET S : h[T] = better[T]
    BY <2>2, <2>3, <2>4, Zenon
  <2>6. h = better
    BY <2>5
  <2>7. SumsUp(h, rows, i, l, S)
    BY <2>6, Zenon DEF SumsUp
  <2>8. PICK k : SumsUp(k, rows, i, l, S) /\ CopiesIn(rows, i, l, S) = k[S]
    <3> HIDE DEF h
    <3>1. \E j : SumsUp(j, rows, i, l, S)
      BY <2>7
    <3> QED BY <3>1, IsSum
  <2>9. \A T \in SUBSET S : k[T] = IF T = {} THEN 0 ELSE rows[i, l, OneOf(T)] + k[T \ {OneOf(T)}]
    BY <2>8, Zenon DEF SumsUp
  <2>10. \A T \in SUBSET S : k[T] = SumFrom(k, f, T)
    BY <2>3, <2>9, Zenon DEF SumFrom
  <2>11. \A T \in SUBSET S : g[T] = SumFrom(g, f, T)
    BY <1>3 DEF Sums
  <2>12. IsFiniteSet(S)
    BY <1>1, FS_Subset
  <2>13. SumUp(g, f, S) /\ SumUp(k, f, S)
    BY <2>10, <2>11 DEF SumUp
  <2>14. k[S] = g[S]
    <3> HIDE DEF h, better
    <3>1. \A T \in SUBSET S : g[T] = k[T]
      BY <2>12, <2>13, SumsAgree
    <3> QED BY <3>1
  <2> QED BY <2>8, <2>14
<1>6. \A t \in Timers : f[t] = rows[<<i, l, t>>]
  BY DEF f
<1> QED BY <1>4, <1>5, <1>6

\* What the proofs below use of it: it is a number,
LEMMA CopiesIsNat ==
  ASSUME NEW rows \in Rows, NEW i \in Items, NEW l \in Levels, NEW S \in SUBSET Timers
  PROVE  CopiesIn(rows, i, l, S) \in Nat
<1>1. PICK g \in [SUBSET Timers -> Nat] :
        \A T \in SUBSET Timers : CopiesIn(rows, i, l, T) = g[T]
  BY CopiesSums
<1> QED BY <1>1

\* of no timers it is 0,
LEMMA CopiesOfNone ==
  ASSUME NEW rows \in Rows, NEW i \in Items, NEW l \in Levels
  PROVE  CopiesIn(rows, i, l, {}) = 0
BY CopiesSums

\* and any timer may be counted first.
LEMMA CopiesTake ==
  ASSUME NEW rows \in Rows, NEW i \in Items, NEW l \in Levels,
         NEW S \in SUBSET Timers, NEW y \in S
  PROVE  CopiesIn(rows, i, l, S) = rows[<<i, l, y>>] + CopiesIn(rows, i, l, S \ {y})
<1>1. S \ {y} \in SUBSET Timers
  OBVIOUS
<1> QED BY <1>1, CopiesSums

\* Overlay's counts of a level are such sums.
LEMMA CopiesAtIs ==
  ASSUME NEW rows, NEW i, NEW l
  PROVE  /\ CopiesAt(rows, i, l) = CopiesIn(rows, i, l, Timers)
         /\ RunningAt(rows, i, l) = CopiesIn(rows, i, l, Timers \ {0})
BY Zenon DEF CopiesAt, RunningAt, CopiesIn

\* The copies that land at level l in d seconds.
Arrived(rows, d, i, l) == IF l = 0 THEN 0 ELSE CopiesIn(rows, i, l - 1, 1..d)

\* A cell with time on it, and an idle one.
LEMMA LaterTimed ==
  ASSUME NEW rows, NEW d, NEW i \in Items, NEW l \in Levels, NEW t \in Timers, t > 0
  PROVE  Later(rows, d)[<<i, l, t>>] = IF t + d \in Timers THEN rows[<<i, l, t + d>>] ELSE 0
<1>1. CopiesLater(rows, d, i, l, t) = IF t + d \in Timers THEN rows[<<i, l, t + d>>] ELSE 0
  BY Zenon DEF CopiesLater
<1>2. Later(rows, d)[<<i, l, t>>] = CopiesLater(rows, d, i, l, t)
  BY DEF Later
<1> QED BY <1>1, <1>2

LEMMA LaterIdle ==
  ASSUME NEW rows, NEW d, NEW i \in Items, NEW l \in Levels
  PROVE  Later(rows, d)[<<i, l, 0>>] = rows[<<i, l, 0>>] + Arrived(rows, d, i, l)
<1>1. PICK t \in Timers : t = 0
  BY OverlayAssumption DEF Timers
<1>2. ~(t > 0)
  BY <1>1
<1>3. CopiesLater(rows, d, i, l, t) = rows[<<i, l, 0>>] + Arrived(rows, d, i, l)
  BY <1>2, Zenon DEF CopiesLater, Arrived, CopiesIn
<1>4. Later(rows, d)[<<i, l, t>>] = CopiesLater(rows, d, i, l, t)
  BY DEF Later
<1> QED BY <1>1, <1>3, <1>4

\* Rows that agree on the timers in S have the same sum over it.
LEMMA CopiesAgree ==
  ASSUME NEW r \in Rows, NEW s \in Rows, NEW i \in Items, NEW l \in Levels,
         NEW k \in Levels, NEW S \in SUBSET Timers,
         \A t \in S : r[<<i, l, t>>] = s[<<i, k, t>>]
  PROVE  CopiesIn(r, i, l, S) = CopiesIn(s, i, k, S)
<1> DEFINE Differ(T) == CopiesIn(r, i, l, T) # CopiesIn(s, i, k, T)
           Bad == {n \in Nat : \E T \in SUBSET S : Cardinality(T) = n /\ Differ(T)}
<1>0. IsFiniteSet(S)
  <2>1. IsFiniteSet(Timers)
    BY FS_Interval, OverlayAssumption DEF Timers
  <2> QED BY <2>1, FS_Subset
<1>1. ASSUME Bad # {} PROVE FALSE
  <2>1. PICK m \in Bad : \A j \in Bad : m <= j
    <3>1. Bad \subseteq Nat
      OBVIOUS
    <3> HIDE DEF Bad
    <3> QED BY <1>1, <3>1, Least
  <2>2. PICK T \in SUBSET S : Cardinality(T) = m /\ Differ(T)
    OBVIOUS
  <2>3. T # {}
    BY <2>2, CopiesOfNone
  <2>4. PICK x \in T : TRUE
    BY <2>3
  <2>5. T \ {x} \in SUBSET S /\ Cardinality(T \ {x}) \in Nat /\ Cardinality(T \ {x}) < m
    BY <1>0, <2>2, <2>4, FewerOf
  <2>6. ~Differ(T \ {x})
    <3>1. Cardinality(T \ {x}) \notin Bad
      <4>1. m \in Nat
        OBVIOUS
      <4> HIDE DEF Bad
      <4> QED BY <2>1, <2>5, <4>1
    <3> QED BY <2>5, <3>1
  <2>7. /\ CopiesIn(r, i, l, T) = r[<<i, l, x>>] + CopiesIn(r, i, l, T \ {x})
        /\ CopiesIn(s, i, k, T) = s[<<i, k, x>>] + CopiesIn(s, i, k, T \ {x})
    BY CopiesTake
  <2>8. r[<<i, l, x>>] = s[<<i, k, x>>]
    BY <2>4
  <2> QED BY <2>2, <2>6, <2>7, <2>8
<1>2. Cardinality(S) \in Nat
  BY <1>0, FS_CardinalityType
<1>3. ASSUME Differ(S) PROVE FALSE
  <2>1. Cardinality(S) \in Bad
    BY <1>2, <1>3
  <2> QED BY <1>1, <2>1
<1> QED BY <1>3

\* A sum is 0 if every term is,
LEMMA CopiesAllZero ==
  ASSUME NEW r \in Rows, NEW i \in Items, NEW l \in Levels, NEW S \in SUBSET Timers,
         \A t \in S : r[<<i, l, t>>] = 0
  PROVE  CopiesIn(r, i, l, S) = 0
<1> DEFINE Some(T) == CopiesIn(r, i, l, T) # 0
           Bad == {n \in Nat : \E T \in SUBSET S : Cardinality(T) = n /\ Some(T)}
<1>0. IsFiniteSet(S)
  <2>1. IsFiniteSet(Timers)
    BY FS_Interval, OverlayAssumption DEF Timers
  <2> QED BY <2>1, FS_Subset
<1>1. ASSUME Bad # {} PROVE FALSE
  <2>1. PICK m \in Bad : \A j \in Bad : m <= j
    <3>1. Bad \subseteq Nat
      OBVIOUS
    <3> HIDE DEF Bad
    <3> QED BY <1>1, <3>1, Least
  <2>2. PICK T \in SUBSET S : Cardinality(T) = m /\ Some(T)
    OBVIOUS
  <2>3. PICK x \in T : TRUE
    BY <2>2, CopiesOfNone
  <2>4. T \ {x} \in SUBSET S /\ Cardinality(T \ {x}) \in Nat /\ Cardinality(T \ {x}) < m
    BY <1>0, <2>2, <2>3, FewerOf
  <2>5. ~Some(T \ {x})
    <3>1. Cardinality(T \ {x}) \notin Bad
      <4>1. m \in Nat
        OBVIOUS
      <4> HIDE DEF Bad
      <4> QED BY <2>1, <2>4, <4>1
    <3> QED BY <2>4, <3>1
  <2>6. CopiesIn(r, i, l, T) = r[<<i, l, x>>] + CopiesIn(r, i, l, T \ {x})
    BY CopiesTake
  <2>7. r[<<i, l, x>>] = 0
    BY <2>3
  <2> QED BY <2>2, <2>5, <2>6, <2>7
<1>2. Cardinality(S) \in Nat
  BY <1>0, FS_CardinalityType
<1>3. ASSUME Some(S) PROVE FALSE
  <2>1. Cardinality(S) \in Bad
    BY <1>2, <1>3
  <2> QED BY <1>1, <2>1
<1> QED BY <1>3

\* and positive exactly if some term is.
LEMMA CopiesPositive ==
  ASSUME NEW r \in Rows, NEW i \in Items, NEW l \in Levels, NEW S \in SUBSET Timers
  PROVE  CopiesIn(r, i, l, S) > 0 <=> \E t \in S : r[<<i, l, t>>] > 0
<1>0. \A t \in S : r[<<i, l, t>>] \in Nat
  BY DEF Rows
<1>1. ASSUME NEW t \in S, r[<<i, l, t>>] > 0 PROVE CopiesIn(r, i, l, S) > 0
  <2>1. S \ {t} \in SUBSET Timers
    OBVIOUS
  <2>2. CopiesIn(r, i, l, S) = r[<<i, l, t>>] + CopiesIn(r, i, l, S \ {t})
    BY CopiesTake
  <2>3. CopiesIn(r, i, l, S \ {t}) \in Nat
    BY <2>1, CopiesIsNat
  <2> QED BY <1>0, <1>1, <2>2, <2>3
<1>2. ASSUME ~\E t \in S : r[<<i, l, t>>] > 0 PROVE ~(CopiesIn(r, i, l, S) > 0)
  <2>1. \A t \in S : r[<<i, l, t>>] = 0
    BY <1>0, <1>2
  <2>2. CopiesIn(r, i, l, S) = 0
    BY <2>1, CopiesAllZero
  <2> QED BY <2>2
<1> QED BY <1>1, <1>2

\* A copy more or less in one cell is one in the sum.
LEMMA CopiesChange ==
  ASSUME NEW r \in Rows, NEW s \in Rows, NEW i \in Items, NEW l \in Levels,
         NEW S \in SUBSET Timers, NEW y \in S,
         \A t \in S : t # y => r[<<i, l, t>>] = s[<<i, l, t>>]
  PROVE  CopiesIn(s, i, l, S) = CopiesIn(r, i, l, S) - r[<<i, l, y>>] + s[<<i, l, y>>]
<1> DEFINE T == S \ {y}
<1>1. T \in SUBSET Timers /\ \A t \in T : r[<<i, l, t>>] = s[<<i, l, t>>]
  OBVIOUS
<1>2. /\ CopiesIn(r, i, l, S) = r[<<i, l, y>>] + CopiesIn(r, i, l, T)
      /\ CopiesIn(s, i, l, S) = s[<<i, l, y>>] + CopiesIn(s, i, l, T)
  BY CopiesTake
<1>3. r[<<i, l, y>>] \in Nat /\ s[<<i, l, y>>] \in Nat /\ CopiesIn(r, i, l, T) \in Nat
  BY <1>1, CopiesIsNat DEF Rows
<1> HIDE DEF T
<1>4. CopiesIn(r, i, l, T) = CopiesIn(s, i, l, T)
  BY <1>1, CopiesAgree
<1> QED BY <1>2, <1>3, <1>4

-----------------------------------------------------------------------------
(* The clock.                                                              *)
LEMMA SameCells ==
  ASSUME NEW r, NEW s, r = [c \in Cells |-> r[c]], s = [c \in Cells |-> s[c]],
         \A i \in Items, l \in Levels, t \in Timers : r[<<i, l, t>>] = s[<<i, l, t>>]
  PROVE  r = s
<1>1. ASSUME NEW c \in Cells PROVE r[c] = s[c]
  <2>1. PICK i \in Items, l \in Levels, t \in Timers : c = <<i, l, t>>
    BY DEF Cells
  <2>2. r[<<i, l, t>>] = s[<<i, l, t>>]
    OBVIOUS
  <2> QED BY <2>1, <2>2, Zenon
<1>2. [c \in Cells |-> r[c]] = [c \in Cells |-> s[c]]
  BY <1>1, Zenon
<1> QED BY <1>2

LEMMA ArrivedIsNat ==
  ASSUME NEW r \in Rows, NEW i \in Items, NEW l \in Levels, NEW d \in Nat, d <= MaxTimer
  PROVE  Arrived(r, d, i, l) \in Nat /\ (l # 0 => l - 1 \in Levels) /\ 1..d \in SUBSET Timers
<1>1. 1..d \in SUBSET Timers
  BY OverlayAssumption DEF Timers
<1>2. l # 0 => l - 1 \in Levels
  BY OverlayAssumption DEF Levels
<1> QED BY <1>1, <1>2, CopiesIsNat DEF Arrived

\* The rows later are rows, and no seconds later the same ones.
LEMMA LaterType ==
  ASSUME NEW r \in Rows, NEW d \in Nat, d <= MaxTimer
  PROVE  Later(r, d) \in Rows
<1>1. Later(r, d) = [c \in Cells |-> Later(r, d)[c]]
  BY Zenon DEF Later, Cells
<1>2. ASSUME NEW i \in Items, NEW l \in Levels, NEW t \in Timers
      PROVE  Later(r, d)[<<i, l, t>>] \in Nat
  <2>1. Arrived(r, d, i, l) \in Nat
    BY ArrivedIsNat
  <2>2. 0 \in Timers /\ \A k \in Timers : r[<<i, l, k>>] \in Nat
    BY OverlayAssumption DEF Rows, Timers
  <2>3. CASE t > 0
    <3>1. t + d \in Timers => r[<<i, l, t + d>>] \in Nat
      BY <2>2
    <3> QED BY <2>3, <3>1, LaterTimed
  <2>4. CASE ~(t > 0)
    <3>1. t = 0
      BY <2>4 DEF Timers
    <3> QED BY <2>1, <2>2, <3>1, LaterIdle
  <2> QED BY <2>3, <2>4
<1>3. \A c \in Cells : Later(r, d)[c] \in Nat
  BY <1>2 DEF Cells
<1> QED BY <1>1, <1>3 DEF Rows, Cells

LEMMA LaterNow ==
  ASSUME NEW r \in Rows
  PROVE  Later(r, 0) = r
<1>0. 0 <= MaxTimer
  BY OverlayAssumption
<1>1. Later(r, 0) \in Rows
  BY <1>0, LaterType
<1>2. ASSUME NEW i \in Items, NEW l \in Levels, NEW t \in Timers
      PROVE  Later(r, 0)[<<i, l, t>>] = r[<<i, l, t>>]
  <2>1. t \in Nat /\ t + 0 = t /\ r[<<i, l, t>>] \in Nat
    BY OverlayAssumption DEF Rows, Timers
  <2>2. Arrived(r, 0, i, l) = 0
    <3>1. 1..0 = {}
      OBVIOUS
    <3> QED BY <1>0, <3>1, ArrivedIsNat, CopiesOfNone DEF Arrived
  <2>3. CASE t > 0
    <3>1. t + 0 \in Timers
      BY <2>1
    <3> QED BY <2>1, <2>3, <3>1, LaterTimed
  <2>4. CASE ~(t > 0)
    <3>1. t = 0
      BY <2>1, <2>4
    <3> QED BY <2>1, <2>2, <3>1, LaterIdle
  <2> QED BY <2>3, <2>4
<1>3. r = [c \in Cells |-> r[c]] /\ Later(r, 0) = [c \in Cells |-> Later(r, 0)[c]]
  BY <1>1 DEF Rows, Cells
<1> QED BY <1>2, <1>3, SameCells

\* The timers up to k + 1.
LEMMA CopiesStep ==
  ASSUME NEW r \in Rows, NEW i \in Items, NEW l \in Levels, NEW d \in Nat, d + 1 <= MaxTimer
  PROVE  CopiesIn(r, i, l, 1..(d+1)) = r[<<i, l, d+1>>] + CopiesIn(r, i, l, 1..d)
<1>1. 1..(d+1) \in SUBSET Timers /\ d + 1 \in 1..(d+1) /\ (1..(d+1)) \ {d+1} = 1..d
  BY OverlayAssumption DEF Timers
<1> QED BY <1>1, CopiesTake

\* What lands in e seconds of the rows d seconds on.
LEMMA CopiesOfLater ==
  ASSUME NEW r \in Rows, NEW i \in Items, NEW l \in Levels,
         NEW a \in Nat, NEW b \in Nat, a + b <= MaxTimer
  PROVE  CopiesIn(Later(r, a), i, l, 1..b) = CopiesIn(r, i, l, 1..(a+b)) - CopiesIn(r, i, l, 1..a)
<1> DEFINE S(n) == CopiesIn(r, i, l, 1..n)
           L(n) == CopiesIn(Later(r, a), i, l, 1..n)
           Bad == {n \in 0..b : L(n) # S(a+n) - S(a)}
<1>0. MaxTimer \in Nat /\ Later(r, a) \in Rows
  BY OverlayAssumption, LaterType
<1>1. \A n \in 0..b : S(a+n) \in Nat /\ L(n) \in Nat /\ S(a) \in Nat
  <2> SUFFICES ASSUME NEW n \in 0..b PROVE S(a+n) \in Nat /\ L(n) \in Nat /\ S(a) \in Nat
    OBVIOUS
  <2>1. 1..(a+n) \in SUBSET Timers /\ 1..n \in SUBSET Timers /\ 1..a \in SUBSET Timers
    BY <1>0 DEF Timers
  <2> QED BY <1>0, <2>1, CopiesIsNat
<1>2. ASSUME Bad # {} PROVE FALSE
  <2>1. PICK m \in Bad : \A k \in Bad : m <= k
    <3>1. Bad \subseteq Nat
      OBVIOUS
    <3> HIDE DEF Bad
    <3> QED BY <1>2, <3>1, Least
  <2>2. m # 0
    <3>1. L(0) = 0
      <4>1. 1..0 = {}
        OBVIOUS
      <4> QED BY <1>0, <4>1, CopiesOfNone
    <3>2. a + 0 = a
      OBVIOUS
    <3> HIDE DEF L, S
    <3> QED BY <1>1, <3>1, <3>2
  <2> DEFINE p == m - 1
  <2>3. p \in 0..b /\ p \in Nat /\ p + 1 = m /\ p + 1 \in Timers /\ p + 1 <= MaxTimer
        /\ (p + 1) + a \in Timers /\ (a + p) + 1 = (p + 1) + a /\ a + p \in Nat
        /\ (a + p) + 1 <= MaxTimer /\ a + m = (a + p) + 1
    BY <1>0, <2>2 DEF Timers
  <2>4. L(p) = S(a+p) - S(a)
    BY <2>1, <2>3
  <2> HIDE DEF p
  <2>5. CopiesIn(Later(r, a), i, l, 1..(p+1)) = Later(r, a)[<<i, l, p+1>>] + CopiesIn(Later(r, a), i, l, 1..p)
    BY <1>0, <2>3, CopiesStep
  <2>6. CopiesIn(r, i, l, 1..((a+p)+1)) = r[<<i, l, (a+p)+1>>] + CopiesIn(r, i, l, 1..(a+p))
    BY <2>3, CopiesStep
  <2>7. Later(r, a)[<<i, l, p+1>>] = r[<<i, l, (a+p)+1>>]
    BY <2>3, LaterTimed
  <2>8. r[<<i, l, (a+p)+1>>] \in Nat
    BY <2>3 DEF Rows
  <2>9. L(m) = r[<<i, l, (a+p)+1>>] + L(p) /\ S(a+m) = r[<<i, l, (a+p)+1>>] + S(a+p)
    BY <2>3, <2>5, <2>6, <2>7
  <2>10. L(m) # S(a+m) - S(a)
    OBVIOUS
  <2> HIDE DEF L, S
  <2> QED BY <1>1, <2>3, <2>4, <2>8, <2>9, <2>10
<1> HIDE DEF L, S
<1>3. L(b) = S(a+b) - S(a)
  BY <1>2
<1> QED BY <1>3 DEF L, S

\* Timers that run down (and land) by a and then by b seconds do so by a + b:
\* what an export shows can be brought up to date in any number of steps.
THEOREM LaterTwice ==
  ASSUME NEW r \in Rows, NEW a \in Nat, NEW b \in Nat, a + b <= MaxTimer
  PROVE  Later(Later(r, a), b) = Later(r, a + b)
<1>0. MaxTimer \in Nat /\ a <= MaxTimer /\ b <= MaxTimer /\ a + b \in Nat
  BY OverlayAssumption
<1>1. Later(r, a) \in Rows /\ Later(r, a + b) \in Rows /\ Later(Later(r, a), b) \in Rows
  BY <1>0, LaterType
<1>2. ASSUME NEW i \in Items, NEW l \in Levels, NEW t \in Timers
      PROVE  Later(Later(r, a), b)[<<i, l, t>>] = Later(r, a + b)[<<i, l, t>>]
  <2>0. t \in Nat /\ 0 \in Timers
    BY OverlayAssumption DEF Timers
  <2>1. CASE t > 0
    <3>1. t + b \in Timers => Later(r, a)[<<i, l, t + b>>]
             = IF (t + b) + a \in Timers THEN r[<<i, l, (t + b) + a>>] ELSE 0
      BY <2>0, <2>1, LaterTimed
    <3>2. (t + b) + a = t + (a + b) /\ ((t + b) + a \in Timers => t + b \in Timers)
      BY <1>0, <2>0 DEF Timers
    <3>3. Later(Later(r, a), b)[<<i, l, t>>] = IF t + b \in Timers THEN Later(r, a)[<<i, l, t + b>>] ELSE 0
      BY <1>0, <2>1, LaterTimed
    <3>4. Later(r, a + b)[<<i, l, t>>] = IF t + (a + b) \in Timers THEN r[<<i, l, t + (a + b)>>] ELSE 0
      BY <1>0, <2>1, LaterTimed
    <3> QED BY <3>1, <3>2, <3>3, <3>4
  <2>2. CASE ~(t > 0)
    <3>1. t = 0
      BY <2>0, <2>2
    <3>2. Later(Later(r, a), b)[<<i, l, 0>>] = Later(r, a)[<<i, l, 0>>] + Arrived(Later(r, a), b, i, l)
      BY LaterIdle
    <3>3. Later(r, a)[<<i, l, 0>>] = r[<<i, l, 0>>] + Arrived(r, a, i, l)
      BY LaterIdle
    <3>4. Later(r, a + b)[<<i, l, 0>>] = r[<<i, l, 0>>] + Arrived(r, a + b, i, l)
      BY LaterIdle
    <3>5. /\ Arrived(r, a, i, l) \in Nat /\ Arrived(r, a + b, i, l) \in Nat
          /\ Arrived(Later(r, a), b, i, l) \in Nat /\ (l # 0 => l - 1 \in Levels)
      BY <1>0, <1>1, ArrivedIsNat
    <3>6. Arrived(Later(r, a), b, i, l) = Arrived(r, a + b, i, l) - Arrived(r, a, i, l)
      <4>1. CASE l = 0
        BY <4>1 DEF Arrived
      <4>2. CASE l # 0
        BY <4>2, <3>5, CopiesOfLater DEF Arrived
      <4> QED BY <4>1, <4>2
    <3>7. r[<<i, l, 0>>] \in Nat
      BY <2>0 DEF Rows
    <3> QED BY <3>1, <3>2, <3>3, <3>4, <3>5, <3>6, <3>7
  <2> QED BY <2>1, <2>2
<1>3. /\ Later(Later(r, a), b) = [c \in Cells |-> Later(Later(r, a), b)[c]]
      /\ Later(r, a + b) = [c \in Cells |-> Later(r, a + b)[c]]
  BY <1>1 DEF Rows, Cells
<1> QED BY <1>2, <1>3, SameCells

\* A placed upgrade, on the timers of the level it leaves.
LEMMA SplitTimed ==
  ASSUME NEW rows \in Rows, NEW at \in Nat, NEW a \in Action, Placeable(rows, at, a),
         NEW i \in Items, NEW l \in Levels, NEW t \in Timers, t > 0
  PROVE  Split(rows, at, a)[<<i, l, t>>] =
           IF StepTime(a) > 0 /\ a.item = i /\ a.from = l /\ t = Remaining(a, at)
           THEN rows[<<i, l, t>>] + 1 ELSE rows[<<i, l, t>>]
<1>1. <<i, l, t>> \in Cells /\ <<i, l, t>> # Here(a)
  BY DEF Cells, Here
<1>2. (<<i, l, t>> = Landing(a, at)) <=>
         (StepTime(a) > 0 /\ a.item = i /\ a.from = l /\ t = Remaining(a, at))
  BY DEF Landing
<1> QED BY <1>1, <1>2, SplitCells

\* An upgrade still running d seconds on may be placed before or after they pass.
LEMMA LaterSplit ==
  ASSUME NEW r \in Rows, NEW at \in Nat, NEW d \in Nat, d <= MaxTimer,
         NEW a \in Action, Placeable(r, at, a),
         StepTime(a) > 0 => Remaining(a, at) > d /\ Remaining(a, at) <= MaxTimer
  PROVE  /\ Placeable(Later(r, d), at + d, a)
         /\ Later(Split(r, at, a), d) = Split(Later(r, d), at + d, a)
<1> DEFINE L == Later(r, d)
           s == Split(r, at, a)
           rem == Remaining(a, at)
<1>0. /\ MaxTimer \in Nat /\ at + d \in Nat /\ L \in Rows /\ s \in Rows /\ rem \in Int
      /\ a.item \in Items /\ a.from \in Levels /\ StepTime(a) \in Nat
  BY OverlayAssumption, LaterType, SplitCells, RemainingIsInt, StepTimeIsNat DEF Action
<1>1. Remaining(a, at + d) = rem - d
  BY StepTimeIsNat DEF Remaining, Action
<1>2. \A i \in Items, l \in Levels :
        /\ L[IdleCell(i, l)] = r[IdleCell(i, l)] + Arrived(r, d, i, l)
        /\ r[IdleCell(i, l)] \in Nat /\ Arrived(r, d, i, l) \in Nat
  BY IdleCellIsACell, RowsAreNat, ArrivedIsNat, LaterIdle DEF IdleCell
<1>3. Placeable(L, at + d, a)
  <2>1. r[IdleCell(a.item, a.from)] > 0
    BY PlaceableCell
  <2>2. L[IdleCell(a.item, a.from)] > 0
    BY <1>0, <1>2, <2>1
  <2> HIDE DEF L, rem
  <2> QED BY <1>0, <1>1, <2>2, PlaceableCell DEF rem
<1>4. ASSUME NEW i \in Items, NEW l \in Levels
      PROVE  Later(s, d)[IdleCell(i, l)] = Split(L, at + d, a)[IdleCell(i, l)]
  <2>1. Later(s, d)[IdleCell(i, l)] = s[IdleCell(i, l)] + Arrived(s, d, i, l)
    BY LaterIdle DEF IdleCell
  <2>2. Arrived(s, d, i, l) = Arrived(r, d, i, l)
    <3>1. CASE l = 0
      BY <3>1 DEF Arrived
    <3>2. CASE l # 0
      <4>1. l - 1 \in Levels /\ 1..d \in SUBSET Timers
        BY <3>2, ArrivedIsNat
      <4>2. ASSUME NEW t \in 1..d PROVE s[<<i, l-1, t>>] = r[<<i, l-1, t>>]
        <5>1. t \in Timers /\ t > 0 /\ ~(StepTime(a) > 0 /\ t = rem)
          BY <1>0, <4>1
        <5> QED BY <4>1, <5>1, SplitTimed
      <4>3. CopiesIn(s, i, l-1, 1..d) = CopiesIn(r, i, l-1, 1..d)
        <5> DEFINE k == l - 1
                   T == 1..d
        <5>1. k \in Levels /\ s \in Rows /\ T \in SUBSET Timers
             /\ \A t \in T : s[<<i, k, t>>] = r[<<i, k, t>>]
          BY <1>0, <4>1, <4>2
        <5> HIDE DEF k, s, T
        <5>2. CopiesIn(s, i, k, T) = CopiesIn(r, i, k, T)
          BY <5>1, CopiesAgree
        <5> QED BY <5>2 DEF k, T
      <4> QED BY <3>2, <4>3 DEF Arrived
    <3> QED BY <3>1, <3>2
  <2>3. s[IdleCell(i, l)] =
           IF a.item = i /\ a.from = l THEN r[IdleCell(i, l)] - 1
           ELSE IF a.item = i /\ a.from + 1 = l /\ StepTime(a) = 0
                THEN r[IdleCell(i, l)] + 1 ELSE r[IdleCell(i, l)]
    BY SplitIdle
  <2>4. Split(L, at + d, a)[IdleCell(i, l)] =
           IF a.item = i /\ a.from = l THEN L[IdleCell(i, l)] - 1
           ELSE IF a.item = i /\ a.from + 1 = l /\ StepTime(a) = 0
                THEN L[IdleCell(i, l)] + 1 ELSE L[IdleCell(i, l)]
    BY <1>0, <1>3, SplitIdle
  <2>5. s[IdleCell(i, l)] \in Nat
    BY <1>0, IdleCellIsACell, RowsAreNat
  <2> HIDE DEF s, L
  <2> QED BY <1>2, <2>1, <2>2, <2>3, <2>4, <2>5
<1>5. ASSUME NEW i \in Items, NEW l \in Levels, NEW t \in Timers, t > 0
      PROVE  Later(s, d)[<<i, l, t>>] = Split(L, at + d, a)[<<i, l, t>>]
  <2>0. t \in Nat
    BY DEF Timers
  <2>1. Later(s, d)[<<i, l, t>>] = IF t + d \in Timers THEN s[<<i, l, t + d>>] ELSE 0
    BY <1>5, LaterTimed
  <2>2. L[<<i, l, t>>] = IF t + d \in Timers THEN r[<<i, l, t + d>>] ELSE 0
    BY <1>5, LaterTimed
  <2>3. Split(L, at + d, a)[<<i, l, t>>] =
           IF StepTime(a) > 0 /\ a.item = i /\ a.from = l /\ t = rem - d
           THEN L[<<i, l, t>>] + 1 ELSE L[<<i, l, t>>]
    BY <1>0, <1>1, <1>3, <1>5, SplitTimed
  <2>4. t + d \in Timers => s[<<i, l, t + d>>] =
           IF StepTime(a) > 0 /\ a.item = i /\ a.from = l /\ t + d = rem
           THEN r[<<i, l, t + d>>] + 1 ELSE r[<<i, l, t + d>>]
    <3>1. t + d > 0
      BY <1>5, <2>0
    <3> QED BY <3>1, SplitTimed
  <2>5. t = rem - d <=> t + d = rem
    BY <1>0, <2>0
  <2>6. StepTime(a) > 0 /\ t + d = rem => t + d \in Timers
    BY <1>0, <2>0 DEF Timers
  <2> HIDE DEF s, L, rem
  <2> QED BY <2>1, <2>2, <2>3, <2>4, <2>5, <2>6
<1>6. Later(s, d) \in Rows /\ Split(L, at + d, a) \in Rows
  BY <1>0, <1>3, LaterType, SplitCells
<1> HIDE DEF s, L
<1>7. ASSUME NEW i \in Items, NEW l \in Levels, NEW t \in Timers
      PROVE  Later(s, d)[<<i, l, t>>] = Split(L, at + d, a)[<<i, l, t>>]
  <2>1. CASE t > 0
    BY <1>5, <2>1
  <2>2. CASE ~(t > 0)
    <3>1. t = 0
      BY <2>2 DEF Timers
    <3> QED BY <1>4, <3>1 DEF IdleCell
  <2> QED BY <2>1, <2>2
<1>8. Later(s, d) = Split(L, at + d, a)
  <2>1. /\ Later(s, d) = [c \in Cells |-> Later(s, d)[c]]
        /\ Split(L, at + d, a) = [c \in Cells |-> Split(L, at + d, a)[c]]
    BY <1>6 DEF Rows, Cells
  <2> QED BY <1>7, <2>1, SameCells
<1> QED BY <1>3, <1>8 DEF s, L

\* Two upgrades placed in either order, where one takes time: the other
\* finds the copy it needs without it.
LEMMA SplitSwap ==
  ASSUME NEW r \in Rows, NEW at \in Nat, NEW a \in Action, NEW b \in Action,
         Placeable(r, at, a), Placeable(Split(r, at, a), at, b), StepTime(a) > 0
  PROVE  /\ Placeable(r, at, b) /\ Placeable(Split(r, at, b), at, a)
         /\ Split(Split(r, at, a), at, b) = Split(Split(r, at, b), at, a)
<1> DEFINE ra == Split(r, at, a)
           rb == Split(r, at, b)
<1>0. /\ a.item \in Items /\ a.from \in Levels /\ b.item \in Items /\ b.from \in Levels
      /\ StepTime(a) # 0 /\ StepTime(b) \in Nat /\ ra \in Rows
  BY StepTimeIsNat, SplitCells DEF Action
<1>1. \A i \in Items, l \in Levels :
        /\ ra[IdleCell(i, l)] = IF a.item = i /\ a.from = l THEN r[IdleCell(i, l)] - 1
                                ELSE r[IdleCell(i, l)]
        /\ r[IdleCell(i, l)] \in Nat /\ ra[IdleCell(i, l)] \in Nat
  BY <1>0, SplitIdle, IdleCellIsACell, RowsAreNat
<1>2. Placeable(r, at, b)
  <2>1. ra[IdleCell(b.item, b.from)] > 0
    BY PlaceableCell
  <2>2. r[IdleCell(b.item, b.from)] > 0
    <3> HIDE DEF ra
    <3> QED BY <1>0, <1>1, <2>1
  <2> QED BY <2>2, PlaceableCell
<1>3. rb \in Rows
  BY <1>2, SplitCells
<1>4. \A c \in Cells : rb[c] = IF c = Here(b) THEN r[c] - 1
                               ELSE IF c = Landing(b, at) THEN r[c] + 1 ELSE r[c]
  BY <1>2, SplitCells
<1>5. \A c \in Cells : ra[c] = IF c = Here(a) THEN r[c] - 1
                               ELSE IF c = Landing(a, at) THEN r[c] + 1 ELSE r[c]
  BY SplitCells
<1>6. \A c \in Cells : Split(ra, at, b)[c] = IF c = Here(b) THEN ra[c] - 1
                               ELSE IF c = Landing(b, at) THEN ra[c] + 1 ELSE ra[c]
  BY <1>0, SplitCells
<1>7. Placeable(rb, at, a)
  <2>1. rb[IdleCell(a.item, a.from)] > 0
    <3>1. rb[IdleCell(a.item, a.from)] =
           IF b.item = a.item /\ b.from = a.from THEN r[IdleCell(a.item, a.from)] - 1
           ELSE IF b.item = a.item /\ b.from + 1 = a.from /\ StepTime(b) = 0
                THEN r[IdleCell(a.item, a.from)] + 1 ELSE r[IdleCell(a.item, a.from)]
      BY <1>0, <1>2, SplitIdle
    <3>2. ra[IdleCell(b.item, b.from)] > 0 /\ r[IdleCell(a.item, a.from)] > 0
      BY PlaceableCell
    <3> HIDE DEF ra, rb
    <3> QED BY <1>0, <1>1, <3>1, <3>2
  <2>2. Placeable(r, at, a)
    OBVIOUS
  <2> HIDE DEF rb
  <2> QED BY <2>1, <2>2, PlaceableCell
<1>8. \A c \in Cells : Split(rb, at, a)[c] = IF c = Here(a) THEN rb[c] - 1
                               ELSE IF c = Landing(a, at) THEN rb[c] + 1 ELSE rb[c]
  BY <1>3, <1>7, SplitCells
<1>9. Here(a) # Landing(a, at) /\ Here(b) # Landing(b, at)
  BY <1>2, SplitCells
<1>10. Split(ra, at, b) \in Rows /\ Split(rb, at, a) \in Rows
  BY <1>0, <1>3, <1>7, SplitCells
<1> HIDE DEF ra, rb
<1>11. \A c \in Cells : r[c] \in Nat
  BY RowsAreNat
<1>12. ASSUME NEW c \in Cells PROVE Split(ra, at, b)[c] = Split(rb, at, a)[c]
  BY <1>4, <1>5, <1>6, <1>8, <1>9, <1>11
<1>13. Split(ra, at, b) = Split(rb, at, a)
  <2>1. /\ Split(ra, at, b) = [c \in Cells |-> Split(ra, at, b)[c]]
        /\ Split(rb, at, a) = [c \in Cells |-> Split(rb, at, a)[c]]
    BY <1>10 DEF Rows, Cells
  <2> HIDE DEF ra, rb
  <2> QED BY <1>12, <2>1
<1> QED BY <1>2, <1>7, <1>13 DEF ra, rb

\* Apply's result is the rows after any id past the last.
LEMMA LastRows ==
  ASSUME NEW e \in Export, NEW list, Listed(list), NEW n \in Nat, \A a \in list : a.id <= n
  PROVE  Overlaid(e, list).rows = AfterAction(e, list)[n]
<1>1. AfterAction(e, list)[n] = AfterAction(e, list)[LastId(list)]
  BY RowsPastLast
<1> QED BY <1>1 DEF Overlaid, Export

LEMMA OverlaidType ==
  ASSUME NEW e \in Export, NEW list, Listed(list), NEW n \in Nat, \A a \in list : a.id <= n
  PROVE  Overlaid(e, list).rows \in Rows
BY LastRows, AfterActionType DEF Listed

\* With nothing declared the overlay is the export.
LEMMA NoneOverlaid ==
  ASSUME NEW e \in Export
  PROVE  Overlaid(e, {}).rows = e.rows /\ Stale(e, {}) = {} /\ Listed({})
<1>1. Listed({})
  BY DEF Listed
<1>2. Overlaid(e, {}).rows = AfterAction(e, {})[0]
  BY <1>1, LastRows
<1> QED BY <1>1, <1>2, AfterActionDef DEF Stale

\* The first of a list, by id, fare as they do in the whole list.
LEMMA FirstOnes ==
  ASSUME NEW e \in Export, NEW list, Listed(list), NEW some \in SUBSET list,
         \A a \in some, b \in list \ some : a.id < b.id,
         NEW n \in Nat, \A a \in list \ some : a.id > n
  PROVE  /\ Listed(some)
         /\ \A k \in 0..n : AfterAction(e, some)[k] = AfterAction(e, list)[k]
<1>1. Listed(some)
  BY DEF Listed
<1>2. SkippedUpTo(e, list, some, n)
  <2>1. \A a \in list : a.id \in Nat
    BY DEF Listed, Action
  <2> QED BY <2>1 DEF SkippedUpTo
<1>3. \A a \in some : a.id <= n => a \in list
  OBVIOUS
<1> QED BY <1>1, <1>2, <1>3, SameRows

LEMMA FirstStay ==
  ASSUME NEW e \in Export, NEW list, Listed(list), NEW some \in SUBSET list,
         \A a \in some, b \in list \ some : a.id < b.id, Stale(e, list) = {}
  PROVE  Listed(some) /\ Stale(e, some) = {}
<1>1. Listed(some)
  BY DEF Listed
<1> SUFFICES ASSUME NEW a \in some PROVE Placeable(AfterAction(e, some)[a.id - 1], e.at, a)
  BY <1>1 DEF Stale
<1> DEFINE k == a.id - 1
<1>2. k \in Nat /\ k \in 0..k /\ a.id = k + 1 /\ \A b \in list : b.id \in Nat
  BY DEF Listed, Action
<1> HIDE DEF k
<1>3. \A b \in list \ some : b.id > k
  BY <1>2
<1>4. AfterAction(e, some)[k] = AfterAction(e, list)[k]
  BY <1>2, <1>3, FirstOnes
<1> QED BY <1>4 DEF Stale, k

\* One more upgrade, listed last.
LEMMA OverlayAdd ==
  ASSUME NEW e \in Export, NEW list, Listed(list), Stale(e, list) = {},
         NEW a \in Action, a.id > 0, \A b \in list : b.id < a.id,
         Placeable(Overlaid(e, list).rows, e.at, a)
  PROVE  /\ Listed(list \cup {a}) /\ Stale(e, list \cup {a}) = {}
         /\ Overlaid(e, list \cup {a}).rows = Split(Overlaid(e, list).rows, e.at, a)
<1> DEFINE more == list \cup {a}
           k == a.id - 1
<1>1. k \in Nat /\ a.id = k + 1 /\ a.id \in Nat \ {0} /\ \A b \in list : b.id \in Nat /\ b.id > 0 /\ b.id <= k
  BY DEF Action, Listed
<1>2. Listed(more)
  BY <1>1 DEF Listed
<1> HIDE DEF k
<1>3. \A j \in 0..k : AfterAction(e, list)[j] = AfterAction(e, more)[j]
  <2>1. list \in SUBSET more /\ \A b \in list, c \in more \ list : b.id < c.id
    OBVIOUS
  <2>2. \A c \in more \ list : c.id > k
    BY <1>1
  <2> HIDE DEF more
  <2> QED BY <1>1, <1>2, <2>1, <2>2, FirstOnes
<1>4. Overlaid(e, list).rows = AfterAction(e, more)[k]
  <2>1. Overlaid(e, list).rows = AfterAction(e, list)[k]
    BY <1>1, LastRows
  <2>2. k \in 0..k
    BY <1>1
  <2> HIDE DEF more
  <2> QED BY <1>3, <2>1, <2>2
<1>5. AfterAction(e, more)[a.id] = Split(Overlaid(e, list).rows, e.at, a)
  <2>1. AfterAction(e, more)[a.id] = Consider(AfterAction(e, more)[k], e.at, more, a.id)
    BY <1>1, <1>2, AfterActionDef DEF Listed, k
  <2> HIDE DEF more
  <2>2. a \in more
    BY DEF more
  <2> QED BY <1>2, <1>4, <2>1, <2>2, ConsiderOne
<1>6. Overlaid(e, more).rows = AfterAction(e, more)[a.id]
  <2>1. \A b \in more : b.id <= a.id
    BY <1>1
  <2> HIDE DEF more
  <2> QED BY <1>1, <1>2, <2>1, LastRows
<1>7. Stale(e, more) = {}
  <2> SUFFICES ASSUME NEW b \in more PROVE Placeable(AfterAction(e, more)[b.id - 1], e.at, b)
    BY DEF Stale
  <2>1. CASE b = a
    BY <1>4, <2>1 DEF k
  <2>2. CASE b \in list
    <3>1. b.id - 1 \in 0..k
      BY <1>1, <2>2
    <3> HIDE DEF more
    <3> QED BY <1>3, <2>2, <3>1 DEF Stale
  <2> QED BY <2>1, <2>2
<1> QED BY <1>2, <1>5, <1>6, <1>7

\* An upgrade that takes time can be withdrawn (deletePending) from anywhere in
\* the list: Apply still places all others, and it could as well be placed last.
THEOREM OverlayDrop ==
  ASSUME NEW e \in Export, NEW list, Listed(list), Stale(e, list) = {},
         NEW a \in list, StepTime(a) > 0,
         NEW last \in Nat, \A b \in list : b.id <= last
  PROVE  /\ Listed(list \ {a}) /\ Stale(e, list \ {a}) = {}
         /\ Placeable(Overlaid(e, list \ {a}).rows, e.at, a)
         /\ Overlaid(e, list).rows = Split(Overlaid(e, list \ {a}).rows, e.at, a)
<1> DEFINE less == list \ {a}
           R(n) == AfterAction(e, list)[n]
           Q(n) == AfterAction(e, less)[n]
           Without(n) == Placeable(Q(n), e.at, a) /\ R(n) = Split(Q(n), e.at, a)
           Bad == {n \in Nat : n >= a.id /\ ~Without(n)}
           k == a.id - 1
<1>1. Listed(less) /\ list \subseteq Action /\ less \subseteq Action /\ e.at \in Nat
  BY DEF Listed, Export
<1>2. k \in Nat /\ a.id = k + 1 /\ a.id \in Nat \ {0} /\ \A b \in list : b.id \in Nat \ {0}
  BY <1>1 DEF Listed, Action
<1>3. \A n \in Nat : R(n) \in Rows /\ Q(n) \in Rows
  BY <1>1, AfterActionType
<1>4. \A j \in 0..k : Q(j) = R(j)
  <2>1. \A b \in less : b.id <= k => b \in list
    OBVIOUS
  <2>2. SkippedUpTo(e, list, less, k)
    BY <1>2 DEF SkippedUpTo
  <2> HIDE DEF less, k
  <2>3. \A j \in 0..k : AfterAction(e, less)[j] = AfterAction(e, list)[j]
    BY <1>1, <1>2, <2>1, <2>2, SameRows
  <2> QED BY <2>3
<1>5. \A b \in list : Placeable(R(b.id - 1), e.at, b)
  BY DEF Stale
<1>6. \A b \in list : R(b.id) = Split(R(b.id - 1), e.at, b)
  <2> SUFFICES ASSUME NEW b \in list PROVE R(b.id) = Split(R(b.id - 1), e.at, b)
    OBVIOUS
  <2>1. R(b.id) = Consider(R(b.id - 1), e.at, list, b.id)
    BY <1>1, <1>2, AfterActionDef
  <2>2. Placeable(R(b.id - 1), e.at, b)
    BY <1>5
  <2> HIDE DEF R
  <2> QED BY <2>1, <2>2, ConsiderOne
<1>7. Without(a.id)
  <2>1. Q(a.id) = Consider(Q(k), e.at, less, a.id)
    BY <1>1, <1>2, AfterActionDef
  <2>2. \A b \in less : b.id # a.id
    BY DEF Listed
  <2>3. Q(a.id) = Q(k)
    <3> HIDE DEF Q, less
    <3> QED BY <2>1, <2>2, ConsiderNone
  <2>4. Q(k) = R(k)
    <3>1. k \in 0..k
      BY <1>2
    <3> HIDE DEF k, Q, R
    <3> QED BY <1>4, <3>1
  <2> HIDE DEF Q, R
  <2> QED BY <1>5, <1>6, <2>3, <2>4
<1>8. ASSUME Bad # {} PROVE FALSE
  <2>1. PICK m \in Bad : \A j \in Bad : m <= j
    <3>1. Bad \subseteq Nat
      OBVIOUS
    <3> HIDE DEF Bad
    <3> QED BY <1>8, <3>1, Least
  <2>2. m # a.id
    BY <1>7
  <2> DEFINE p == m - 1
  <2>3. m \in Nat \ {0} /\ p \in Nat /\ m = p + 1 /\ p >= a.id /\ ~Without(m)
    BY <1>2, <2>2
  <2>4. Without(p)
    <3>1. p \notin Bad
      <4> HIDE DEF Bad
      <4> QED BY <2>1, <2>3
    <3> HIDE DEF Without
    <3> QED BY <2>3, <3>1
  <2>5. /\ R(m) = Consider(R(p), e.at, list, m)
        /\ Q(m) = Consider(Q(p), e.at, less, m)
    BY <1>1, <2>3, AfterActionDef
  <2>6. Q(p) \in Rows /\ R(p) \in Rows
    BY <1>3, <2>3
  <2>7. CASE \E b \in list : b.id = m
    <3>1. PICK b \in list : b.id = m
      BY <2>7
    <3>2. b \in less /\ b \in Action /\ a \in Action
      BY <1>1, <2>2, <3>1
    <3>3. Placeable(R(p), e.at, b) /\ R(m) = Split(R(p), e.at, b)
      BY <1>5, <1>6, <2>3, <3>1
    <3>4. b.id - 1 = p
      BY <2>3, <3>1
    <3> HIDE DEF p, Q, R
    <3>5. /\ Placeable(Q(p), e.at, b) /\ Placeable(Split(Q(p), e.at, b), e.at, a)
          /\ Split(R(p), e.at, b) = Split(Split(Q(p), e.at, b), e.at, a)
      BY <1>1, <2>4, <2>6, <3>2, <3>3, SplitSwap
    <3>6. Q(m) = Split(Q(p), e.at, b)
      <4> HIDE DEF less
      <4> QED BY <1>1, <2>5, <3>1, <3>2, <3>5, ConsiderOne
    <3> QED BY <2>3, <3>3, <3>5, <3>6
  <2>8. CASE ~\E b \in list : b.id = m
    <3>1. R(m) = R(p)
      <4> HIDE DEF p, R
      <4> QED BY <2>5, <2>8, ConsiderNone
    <3>2. Q(m) = Q(p)
      <4>1. \A b \in less : b.id # m
        BY <2>8
      <4> HIDE DEF p, Q, less
      <4> QED BY <2>5, <4>1, ConsiderNone
    <3> HIDE DEF p, Q, R
    <3> QED BY <2>3, <2>4, <3>1, <3>2
  <2> QED BY <2>7, <2>8
<1>9. \A n \in Nat : n >= a.id => Without(n)
  BY <1>8
<1>10. Stale(e, less) = {}
  <2> SUFFICES ASSUME NEW b \in less PROVE Placeable(Q(b.id - 1), e.at, b)
    BY DEF Stale
  <2> DEFINE p == b.id - 1
  <2>1. b \in list /\ p \in Nat /\ b \in Action /\ a \in Action /\ b.id # a.id /\ Placeable(R(p), e.at, b)
    BY <1>1, <1>2, <1>5 DEF Listed
  <2>2. CASE b.id < a.id
    <3>1. p \in 0..k
      BY <1>2, <2>1, <2>2
    <3> QED BY <1>4, <2>1, <3>1
  <2>3. CASE ~(b.id < a.id)
    <3>1. Without(p)
      <4>1. p >= a.id
        BY <1>2, <2>1, <2>3
      <4> HIDE DEF Without, p
      <4> QED BY <1>9, <2>1, <4>1
    <3>2. Q(p) \in Rows /\ R(p) \in Rows
      BY <1>3, <2>1
    <3> HIDE DEF p, Q, R
    <3>3. Placeable(Q(p), e.at, b)
      BY <1>1, <2>1, <3>1, <3>2, SplitSwap
    <3> QED BY <3>3 DEF p
  <2> QED BY <2>2, <2>3
<1>11. Without(last)
  BY <1>2, <1>9
<1>12. Overlaid(e, list).rows = R(last) /\ Overlaid(e, less).rows = Q(last)
  BY <1>1, LastRows
<1> HIDE DEF Q, R
<1> QED BY <1>1, <1>10, <1>11, <1>12

\* An export captured d seconds on shows what the upgrades since do not, and
\* overlaid with those it is the older one, overlaid with all, d seconds on.
THEOREM OverlayLater ==
  ASSUME NEW b \in Export, NEW e \in Export, NEW list, Listed(list), Stale(b, list) = {},
         NEW last \in Nat, \A a \in list : a.id <= last,
         NEW d \in Nat, d <= MaxTimer, e.at = b.at + d,
         NEW since \in SUBSET list, \A a \in list \ since, c \in since : a.id < c.id,
         e.rows = Later(Overlaid(b, list \ since).rows, d),
         \A a \in since : StepTime(a) > 0 =>
            Remaining(a, b.at) > d /\ Remaining(a, b.at) <= MaxTimer
  PROVE  /\ Listed(since) /\ Stale(e, since) = {}
         /\ Overlaid(e, since).rows = Later(Overlaid(b, list).rows, d)
<1> DEFINE old == list \ since
           R(n) == AfterAction(b, list)[n]
           Q(n) == AfterAction(e, since)[n]
           p == LastId(old)
           Same(n) == Q(n) = Later(R(n), d)
           Bad == {n \in Nat : n >= p /\ ~Same(n)}
<1>0. Listed(since) /\ Listed(old) /\ list \subseteq Action /\ since \subseteq Action
      /\ b.at \in Nat /\ \A a \in list : a.id \in Nat \ {0}
  BY DEF Listed, Export, Action
<1>1. p \in 0..last /\ p \in Nat /\ \A a \in old : a.id <= p
  <2>1. \A a \in old : a.id <= last
    OBVIOUS
  <2> HIDE DEF old
  <2>2. p \in 0..last /\ \A a \in old : a.id <= p
    BY <1>0, <2>1, LastIdIsLast
  <2> QED BY <2>2
<1>2. \A c \in since : c.id > p
  <2>1. CASE old = {}
    BY <1>0, <2>1 DEF LastId
  <2>2. CASE old # {}
    <3>1. \E a \in old : a.id >= p
      <4>0. \A a \in old : a.id \in Nat
        BY <1>0
      <4> SUFFICES ASSUME \A a \in old : a.id < p PROVE FALSE
        <5> HIDE DEF old, p
        <5> QED BY <1>1, <4>0
      <4>3. PICK x \in old : TRUE
        BY <2>2
      <4>1. p - 1 \in Nat /\ \A a \in old : a.id <= p - 1
        <5>1. x.id \in Nat /\ x.id < p /\ \A a \in old : a.id \in Nat
          BY <1>0
        <5> HIDE DEF old, p
        <5> QED BY <1>1, <5>1
      <4> HIDE DEF old, p
      <4>2. LastId(old) \in 0..(p-1)
        BY <1>0, <4>1, LastIdIsLast
      <4> QED BY <1>1, <4>2 DEF p
    <3> QED BY <1>0, <1>1, <3>1
  <2> QED BY <2>1, <2>2
<1> HIDE DEF p
<1>3. \A n \in Nat : R(n) \in Rows /\ Q(n) \in Rows
  BY <1>0, AfterActionType
<1>4. Same(p)
  <2>1. Q(p) = e.rows
    <3>1. {} \in SUBSET since /\ (\A a \in {}, c \in since \ {} : a.id < c.id)
          /\ \A a \in since \ {} : a.id > p
      BY <1>2
    <3>2. AfterAction(e, {})[p] = AfterAction(e, since)[p]
      BY <1>0, <1>1, <3>1, FirstOnes
    <3>3. Overlaid(e, {}).rows = AfterAction(e, {})[p]
      BY <1>1, NoneOverlaid, LastRows
    <3> QED BY <3>2, <3>3, NoneOverlaid
  <2>2. R(p) = Overlaid(b, old).rows
    <3>1. old \in SUBSET list /\ (\A a \in old, c \in list \ old : a.id < c.id)
          /\ \A a \in list \ old : a.id > p
      BY <1>2
    <3> HIDE DEF old
    <3>2. AfterAction(b, old)[p] = AfterAction(b, list)[p]
      BY <1>1, <3>1, FirstOnes
    <3> QED BY <1>0, <1>1, <3>2, LastRows
  <2> QED BY <2>1, <2>2
<1>5. ASSUME NEW a \in since, NEW n \in Nat, a.id = n + 1, n >= p, Same(n)
      PROVE  /\ Placeable(Q(n), e.at, a) /\ Placeable(R(n), b.at, a)
             /\ Split(Q(n), e.at, a) = Later(Split(R(n), b.at, a), d)
  <2>1. Placeable(R(n), b.at, a)
    BY <1>5 DEF Stale
  <2>2. R(n) \in Rows /\ a \in Action
    BY <1>0, <1>3
  <2> HIDE DEF R, Q
  <2>3. /\ Placeable(Later(R(n), d), b.at + d, a)
        /\ Later(Split(R(n), b.at, a), d) = Split(Later(R(n), d), b.at + d, a)
    BY <1>0, <2>1, <2>2, LaterSplit
  <2> QED BY <1>5, <2>1, <2>3
<1>6. ASSUME Bad # {} PROVE FALSE
  <2>1. PICK m \in Bad : \A j \in Bad : m <= j
    <3>1. Bad \subseteq Nat
      OBVIOUS
    <3> HIDE DEF Bad
    <3> QED BY <1>6, <3>1, Least
  <2>2. m # p
    BY <1>4
  <2> DEFINE q == m - 1
  <2>3. m \in Nat \ {0} /\ q \in Nat /\ m = q + 1 /\ q >= p /\ m > p /\ ~Same(m)
    BY <1>1, <2>2
  <2>4. Same(q)
    BY <2>1, <2>3
  <2>5. /\ R(m) = Consider(R(q), b.at, list, m)
        /\ Q(m) = Consider(Q(q), e.at, since, m)
    BY <1>0, <2>3, AfterActionDef
  <2> HIDE DEF q, R, Q, old
  <2>6. CASE \E a \in list : a.id = m
    <3>1. PICK a \in list : a.id = m
      BY <2>6
    <3>2. a \in since
      <4>1. ~(a.id <= p)
        BY <1>1, <2>3, <3>1
      <4> QED BY <1>1, <4>1 DEF old
    <3>3. /\ Placeable(Q(q), e.at, a) /\ Placeable(R(q), b.at, a)
          /\ Split(Q(q), e.at, a) = Later(Split(R(q), b.at, a), d)
      BY <1>5, <2>3, <2>4, <3>1, <3>2
    <3>4. R(m) = Split(R(q), b.at, a)
      BY <2>5, <3>1, <3>3, ConsiderOne
    <3>5. Q(m) = Split(Q(q), e.at, a)
      BY <1>0, <2>5, <3>1, <3>2, <3>3, ConsiderOne
    <3> QED BY <2>3, <3>3, <3>4, <3>5
  <2>7. CASE ~\E a \in list : a.id = m
    <3>1. R(m) = R(q)
      BY <2>5, <2>7, ConsiderNone
    <3>2. \A a \in since : a.id # m
      BY <2>7
    <3>3. Q(m) = Q(q)
      BY <2>5, <3>2, ConsiderNone
    <3> QED BY <2>3, <2>4, <3>1, <3>3
  <2> QED BY <2>6, <2>7
<1>7. \A n \in Nat : n >= p => Same(n)
  BY <1>6
<1>8. Stale(e, since) = {}
  <2> SUFFICES ASSUME NEW a \in since PROVE Placeable(Q(a.id - 1), e.at, a)
    BY DEF Stale
  <2> DEFINE n == a.id - 1
  <2>1. n \in Nat /\ a.id = n + 1 /\ n >= p
    BY <1>0, <1>1, <1>2
  <2> HIDE DEF n, R, Q
  <2>2. Placeable(Q(n), e.at, a)
    BY <1>5, <1>7, <2>1
  <2> QED BY <2>2 DEF n
<1>9. Overlaid(b, list).rows = R(last) /\ Overlaid(e, since).rows = Q(last)
  BY <1>0, LastRows
<1>10. last >= p
  BY <1>1
<1> HIDE DEF Q, R
<1> QED BY <1>0, <1>7, <1>8, <1>9, <1>10

-----------------------------------------------------------------------------
(***************************************************************************)
(* A copy that moves from one cell to another.                             *)
(***************************************************************************)
Moved(r, c, d) == [r EXCEPT ![c] = @ - 1, ![d] = @ + 1]

LEMMA MovedCells ==
  ASSUME NEW r \in Rows, NEW c \in Cells, r[c] > 0, NEW d, c # d
  PROVE  /\ Moved(r, c, d) \in Rows
         /\ \A x \in Cells : Moved(r, c, d)[x] =
              IF x = c THEN r[x] - 1 ELSE IF x = d THEN r[x] + 1 ELSE r[x]
<1> DEFINE once == [r EXCEPT ![c] = r[c] - 1]
<1>1. Moved(r, c, d) = [once EXCEPT ![d] = r[d] + 1]
  BY DEF Moved
<1>2. r \in [Cells -> Nat]
  BY DEF Rows, Cells
<1>3. once \in [Cells -> Nat] /\ \A x \in Cells : once[x] = IF x = c THEN r[x] - 1 ELSE r[x]
  BY <1>2
<1> HIDE DEF once
<1>4. r[d] + 1 \in Nat \/ d \notin Cells
  BY <1>2
<1>5. Moved(r, c, d) \in [Cells -> Nat]
  BY <1>1, <1>3, <1>4
<1>6. \A x \in Cells : Moved(r, c, d)[x] =
              IF x = c THEN r[x] - 1 ELSE IF x = d THEN r[x] + 1 ELSE r[x]
  BY <1>1, <1>3
<1> QED BY <1>5, <1>6 DEF Rows, Cells

\* Within a level it leaves every level as many copies as it had ...
LEMMA MovedWithin ==
  ASSUME NEW r \in Rows, NEW i \in Items, NEW l \in Levels,
         NEW y \in Timers, NEW z \in Timers, y # z, r[<<i, l, y>>] > 0,
         NEW j \in Items, NEW k \in Levels
  PROVE  CopiesIn(Moved(r, <<i, l, y>>, <<i, l, z>>), j, k, Timers) = CopiesIn(r, j, k, Timers)
<1> DEFINE c == <<i, l, y>>
           d == <<i, l, z>>
           s == Moved(r, c, d)
           T == Timers \ {y}
           U == T \ {z}
<1>1. c \in Cells /\ d \in Cells /\ c # d
  BY DEF Cells
<1>2. s \in Rows /\ \A x \in Cells : s[x] = IF x = c THEN r[x] - 1 ELSE IF x = d THEN r[x] + 1 ELSE r[x]
  BY <1>1, MovedCells
<1>3. r[c] \in Nat /\ r[d] \in Nat /\ s[c] = r[c] - 1 /\ s[d] = r[d] + 1
  BY <1>1, <1>2, RowsAreNat
<1>4. \A t \in Timers : <<j, k, t>> \in Cells
  BY DEF Cells
<1> HIDE DEF s
<1>5. CASE j = i /\ k = l
  <2>1. T \in SUBSET Timers /\ U \in SUBSET Timers /\ z \in T /\ Timers \in SUBSET Timers
    OBVIOUS
  <2>2. \A t \in U : s[<<j, k, t>>] = r[<<j, k, t>>]
    BY <1>2, <1>4, <1>5
  <2> HIDE DEF U, T
  <2>3. CopiesIn(s, j, k, U) = CopiesIn(r, j, k, U)
    BY <1>2, <2>1, <2>2, CopiesAgree
  <2>4. /\ CopiesIn(s, j, k, T) = s[d] + CopiesIn(s, j, k, U)
        /\ CopiesIn(r, j, k, T) = r[d] + CopiesIn(r, j, k, U)
    BY <1>2, <1>5, <2>1, CopiesTake DEF U
  <2>5. /\ CopiesIn(s, j, k, Timers) = s[c] + CopiesIn(s, j, k, T)
        /\ CopiesIn(r, j, k, Timers) = r[c] + CopiesIn(r, j, k, T)
    BY <1>2, <1>5, <2>1, CopiesTake DEF T
  <2>6. CopiesIn(r, j, k, U) \in Nat
    BY <2>1, CopiesIsNat
  <2> QED BY <1>3, <2>3, <2>4, <2>5, <2>6 DEF s
<1>6. CASE ~(j = i /\ k = l)
  <2>1. Timers \in SUBSET Timers /\ \A t \in Timers : s[<<j, k, t>>] = r[<<j, k, t>>]
    BY <1>2, <1>4, <1>6
  <2>2. CopiesIn(s, j, k, Timers) = CopiesIn(r, j, k, Timers)
    BY <1>2, <2>1, CopiesAgree
  <2> QED BY <2>2 DEF s
<1> QED BY <1>5, <1>6

\* ... and from idle at one level to idle at the next, one moves up.
LEMMA MovedUp ==
  ASSUME NEW r \in Rows, NEW i \in Items, NEW l \in Levels, l + 1 \in Levels,
         r[<<i, l, 0>>] > 0, NEW j \in Items, NEW k \in Levels
  PROVE  CopiesIn(Moved(r, <<i, l, 0>>, <<i, l + 1, 0>>), j, k, Timers) =
           IF j = i /\ k = l THEN CopiesIn(r, j, k, Timers) - 1
           ELSE IF j = i /\ k = l + 1 THEN CopiesIn(r, j, k, Timers) + 1
           ELSE CopiesIn(r, j, k, Timers)
<1> DEFINE c == <<i, l, 0>>
           d == <<i, l + 1, 0>>
           s == Moved(r, c, d)
           x == <<j, k, 0>>
<1>0. 0 \in Timers /\ l # l + 1 /\ Timers \in SUBSET Timers
  BY OverlayAssumption DEF Timers, Levels
<1>1. c \in Cells /\ d \in Cells /\ c # d /\ x \in Cells
  BY <1>0 DEF Cells
<1>2. s \in Rows /\ \A y \in Cells : s[y] = IF y = c THEN r[y] - 1 ELSE IF y = d THEN r[y] + 1 ELSE r[y]
  BY <1>1, MovedCells
<1>3. \A t \in Timers : t # 0 => s[<<j, k, t>>] = r[<<j, k, t>>]
  <2> SUFFICES ASSUME NEW t \in Timers, t # 0 PROVE s[<<j, k, t>>] = r[<<j, k, t>>]
    OBVIOUS
  <2>1. <<j, k, t>> \in Cells /\ <<j, k, t>> # c /\ <<j, k, t>> # d
    BY DEF Cells
  <2> HIDE DEF s, c, d
  <2> QED BY <1>2, <2>1
<1>4. r[x] \in Nat /\ CopiesIn(r, j, k, Timers) \in Nat
  BY <1>0, <1>1, RowsAreNat, CopiesIsNat
<1> HIDE DEF s
<1>5. CopiesIn(s, j, k, Timers) = CopiesIn(r, j, k, Timers) - r[x] + s[x]
  BY <1>0, <1>2, <1>3, CopiesChange
<1>6. (x = c <=> j = i /\ k = l) /\ (x = d <=> j = i /\ k = l + 1)
  OBVIOUS
<1>7. s[x] = IF x = c THEN r[x] - 1 ELSE IF x = d THEN r[x] + 1 ELSE r[x]
  BY <1>1, <1>2
<1>8. CopiesIn(s, j, k, Timers) =
           IF j = i /\ k = l THEN CopiesIn(r, j, k, Timers) - 1
           ELSE IF j = i /\ k = l + 1 THEN CopiesIn(r, j, k, Timers) + 1
           ELSE CopiesIn(r, j, k, Timers)
  <2> HIDE DEF x, c, d
  <2> QED BY <1>0, <1>4, <1>5, <1>6, <1>7
<1> QED BY <1>8 DEF s

\* A tick takes those whose last second it is a level up.
LEMMA CopiesTick ==
  ASSUME NEW r \in Rows, NEW i \in Items, NEW l \in Levels, 1 <= MaxTimer
  PROVE  CopiesIn(Later(r, 1), i, l, Timers) =
           CopiesIn(r, i, l, Timers) - r[<<i, l, 1>>]
             + (IF l = 0 THEN 0 ELSE r[<<i, l - 1, 1>>])
<1> DEFINE s == Later(r, 1)
           m == MaxTimer - 1
<1>0. m \in Nat /\ m + 1 = MaxTimer /\ MaxTimer \in Nat /\ 1 + m = MaxTimer /\ s \in Rows
  BY OverlayAssumption, LaterType
<1> HIDE DEF s, m
<1>1. 0 \in Timers /\ 1 \in Timers /\ MaxTimer \in Timers /\ ~(MaxTimer + 1 \in Timers) /\ MaxTimer > 0
      /\ Timers \ {0} = 1..MaxTimer /\ Timers \in SUBSET Timers /\ 1..MaxTimer \in SUBSET Timers
      /\ 1..1 \in SUBSET Timers /\ 1 \in 1..1 /\ (1..1) \ {1} = {} /\ 1 <= MaxTimer /\ 1 \in Nat
  BY <1>0 DEF Timers
<1>2. /\ CopiesIn(r, i, l, Timers) = r[<<i, l, 0>>] + CopiesIn(r, i, l, 1..MaxTimer)
      /\ CopiesIn(s, i, l, Timers) = s[<<i, l, 0>>] + CopiesIn(s, i, l, 1..MaxTimer)
  <2> DEFINE T == Timers \ {0}
  <2>0. T = 1..MaxTimer
    BY <1>1
  <2>1. CopiesIn(r, i, l, Timers) = r[<<i, l, 0>>] + CopiesIn(r, i, l, T)
    BY <1>1, CopiesTake
  <2>2. CopiesIn(s, i, l, Timers) = s[<<i, l, 0>>] + CopiesIn(s, i, l, T)
    <3>1. s \in Rows /\ 0 \in Timers /\ Timers \in SUBSET Timers
      BY <1>0, <1>1
    <3> QED BY <3>1, CopiesTake
  <2> HIDE DEF T
  <2> QED BY <2>0, <2>1, <2>2
<1>3. CopiesIn(s, i, l, 1..MaxTimer) = CopiesIn(s, i, l, 1..m)
  <2>1. CopiesIn(s, i, l, 1..(m+1)) = s[<<i, l, m+1>>] + CopiesIn(s, i, l, 1..m)
    BY <1>0, <1>1, CopiesStep
  <2>2. s[<<i, l, MaxTimer>>] = 0
    <3>1. MaxTimer \in Timers /\ MaxTimer > 0 /\ ~(MaxTimer + 1 \in Timers) /\ 1 \in Nat
      BY <1>1
    <3>2. Later(r, 1)[<<i, l, MaxTimer>>] =
            IF MaxTimer + 1 \in Timers THEN r[<<i, l, MaxTimer + 1>>] ELSE 0
      BY <3>1, LaterTimed
    <3> QED BY <3>1, <3>2 DEF s
  <2>3. CopiesIn(s, i, l, 1..m) \in Nat
    <3>1. 1..m \in SUBSET Timers
      BY <1>0 DEF Timers
    <3> QED BY <1>0, <3>1, CopiesIsNat
  <2> QED BY <1>0, <2>1, <2>2, <2>3
<1>4. \A k \in Levels : CopiesIn(r, i, k, 1..1) = r[<<i, k, 1>>] /\ r[<<i, k, 1>>] \in Nat
  <2> SUFFICES ASSUME NEW k \in Levels
               PROVE CopiesIn(r, i, k, 1..1) = r[<<i, k, 1>>] /\ r[<<i, k, 1>>] \in Nat
    OBVIOUS
  <2>1. <<i, k, 1>> \in Cells
    BY <1>1 DEF Cells
  <2>2. CopiesIn(r, i, k, 1..1) = r[<<i, k, 1>>] + CopiesIn(r, i, k, {})
    BY <1>1, CopiesTake
  <2>3. r[<<i, k, 1>>] \in Nat
    BY <2>1, RowsAreNat
  <2> QED BY <2>2, <2>3, CopiesOfNone
<1>5. CopiesIn(s, i, l, 1..m) = CopiesIn(r, i, l, 1..MaxTimer) - CopiesIn(r, i, l, 1..1)
  <2>1. CopiesIn(Later(r, 1), i, l, 1..m) = CopiesIn(r, i, l, 1..(1+m)) - CopiesIn(r, i, l, 1..1)
    <3>1. 1 \in Nat /\ m \in Nat /\ 1 + m <= MaxTimer
      BY <1>0
    <3> QED BY <3>1, CopiesOfLater
  <2> QED BY <1>0, <2>1 DEF s
<1>6. s[<<i, l, 0>>] = r[<<i, l, 0>>] + Arrived(r, 1, i, l)
  BY LaterIdle DEF s
<1>7. Arrived(r, 1, i, l) = IF l = 0 THEN 0 ELSE r[<<i, l - 1, 1>>]
  <2>1. l # 0 => l - 1 \in Levels
    BY OverlayAssumption DEF Levels
  <2> QED BY <1>4, <2>1 DEF Arrived
<1>8. /\ CopiesIn(r, i, l, 1..MaxTimer) \in Nat /\ r[<<i, l, 0>>] \in Nat
      /\ Arrived(r, 1, i, l) \in Nat
  <2>1. <<i, l, 0>> \in Cells
    BY <1>1 DEF Cells
  <2> QED BY <1>1, <2>1, CopiesIsNat, RowsAreNat, ArrivedIsNat
<1>9. CopiesIn(s, i, l, Timers) = CopiesIn(r, i, l, Timers) - r[<<i, l, 1>>] + Arrived(r, 1, i, l)
  <2>1. CopiesIn(r, i, l, 1..1) = r[<<i, l, 1>>] /\ r[<<i, l, 1>>] \in Nat
    BY <1>4
  <2> QED BY <1>2, <1>3, <1>5, <1>6, <1>8, <2>1
<1> QED BY <1>7, <1>9 DEF s

-----------------------------------------------------------------------------
(***************************************************************************)
(* The history of the game's steps against its rows: what runs is what was *)
(* begun and neither landed nor was cancelled.                             *)
(***************************************************************************)
Until(i, l, u) == {s \in steps : s.item = i /\ s.from = l /\ s.until = u}

\* n tells the steps of an item's level apart.
Names ==
  /\ \A s, o \in steps : s.n = o.n /\ s.item = o.item /\ s.from = o.from => s = o
  /\ \A s \in steps : s.n[1] = 0 => s.n[2] <= Cardinality(steps)

Times ==
  \A s \in steps :
    /\ s.begun <= now /\ s.begun <= s.until
    /\ s.until <= s.begun + Seconds[s.item][s.from]
    /\ s.until > now /\ s.begun > 0 => s.until = s.begun + Seconds[s.item][s.from]

Counts ==
  \A i \in Items, l \in Levels, t \in Timers \ {0} :
    game[<<i, l, t>>] = Cardinality(Until(i, l, now + t))

GameType == game \in Rows /\ now \in 0..MaxNow /\ steps \subseteq GameStep /\ IsFiniteSet(steps)

GameInv == GameType /\ Names /\ Times /\ Counts

-----------------------------------------------------------------------------
\* The steps running at the start are one for each copy with time on it.
StepAt(i, l, t, k) == [n |-> <<t, k>>, item |-> i, from |-> l, begun |-> 0, until |-> t]

LEMMA StepsAtIs ==
  ASSUME NEW i, NEW l, NEW t, NEW s
  PROVE  s \in StepsAt(i, l, t) <=> \E k \in 1..Built[<<i, l, t>>] : s = StepAt(i, l, t, k)
<1> DEFINE R == [n : {t} \X (1..Built[<<i, l, t>>]), item : {i}, from : {l},
                 begun : {0}, until : {t}]
           b == Built[<<i, l, t>>]
<1>1. StepsAt(i, l, t) = R
  BY Zenon DEF StepsAt
<1>2. s \in R <=> \E k \in 1..b : s = StepAt(i, l, t, k)
  <2>1. ASSUME s \in R PROVE \E k \in 1..b : s = StepAt(i, l, t, k)
    BY <2>1 DEF StepAt
  <2>2. ASSUME NEW k \in 1..b, s = StepAt(i, l, t, k) PROVE s \in R
    BY <2>2 DEF StepAt
  <2> QED BY <2>1, <2>2
<1> HIDE DEF R
<1> QED BY <1>1, <1>2, Zenon

LEMMA BuiltIs ==
  /\ Built \in Rows /\ MaxNow \in Nat /\ MaxNow <= MaxTimer /\ None \notin Export /\ IsFiniteSet(Items)
  /\ \A i \in Items, l \in Levels : MaxNow + Seconds[i][l] <= MaxTimer
  /\ \A i \in Items, l \in Levels, t \in Timers \ {0} :
       Built[<<i, l, t>>] > 0 => t <= Seconds[i][l]
BY VillageLifeAssumption, Zenon

\* As many as there are such copies,
LEMMA StepsAtCount ==
  ASSUME NEW i \in Items, NEW l \in Levels, NEW t \in Timers
  PROVE  /\ Built[<<i, l, t>>] \in Nat
         /\ IsFiniteSet(StepsAt(i, l, t))
         /\ Cardinality(StepsAt(i, l, t)) = Built[<<i, l, t>>]
         /\ StepsAt(i, l, t) \subseteq GameStep
<1> DEFINE b == Built[<<i, l, t>>]
           f == [k \in 1..b |-> StepAt(i, l, t, k)]
<1>1. b \in Nat
  <2>1. <<i, l, t>> \in Cells
    BY DEF Cells
  <2> QED BY <2>1, BuiltIs, RowsAreNat
<1>2. StepsAt(i, l, t) = {StepAt(i, l, t, k) : k \in 1..b}
  BY StepsAtIs
<1>3. t \in Nat /\ 0 \in Nat
  BY OverlayAssumption DEF Timers
<1>4. StepsAt(i, l, t) \subseteq GameStep
  BY <1>2, <1>3 DEF StepAt, GameStep
<1> HIDE DEF b
<1>5. \A k, m \in 1..b : StepAt(i, l, t, k) = StepAt(i, l, t, m) => k = m
  BY DEF StepAt
<1>6. f \in Bijection(1..b, StepsAt(i, l, t))
  <2>1. f \in [1..b -> StepsAt(i, l, t)]
    BY <1>2
  <2>2. \A k, m \in 1..b : f[k] = f[m] => k = m
    BY <1>5
  <2>3. \A s \in StepsAt(i, l, t) : \E k \in 1..b : f[k] = s
    BY <1>2
  <2>4. DOMAIN f = 1..b
    OBVIOUS
  <2> HIDE DEF f
  <2>5. IsInjective(f)
    BY <2>2, <2>4 DEF IsInjective
  <2> QED BY <2>1, <2>3, <2>5 DEF Bijection, Injection, Surjection
<1>7. IsFiniteSet(1..b) /\ Cardinality(1..b) = b
  BY <1>1, FS_Interval
<1>8. ExistsBijection(1..b, StepsAt(i, l, t))
  BY <1>6 DEF ExistsBijection
<1>9. IsFiniteSet(StepsAt(i, l, t)) /\ Cardinality(StepsAt(i, l, t)) = b
  BY <1>7, <1>8, FS_Bijection
<1> QED BY <1>1, <1>4, <1>9 DEF b

\* The cells with time on them, as pairs for the library's finite products.
Running == (Items \X Levels) \X (Timers \ {0})

StepsIn(p) == StepsAt(p[1][1], p[1][2], p[2])

\* finitely many in all,
LEMMA BuiltSteps ==
  ASSUME Init
  PROVE  /\ IsFiniteSet(steps) /\ steps \subseteq GameStep
         /\ \A s : s \in steps <=> \E i \in Items, l \in Levels, t \in Timers \ {0} :
                                     s \in StepsAt(i, l, t)
<1>1. \A s : s \in steps <=> \E i \in Items, l \in Levels, t \in Timers \ {0} :
                                     s \in StepsAt(i, l, t)
  <2>1. steps = UNION {StepsAt(i, l, t) : i \in Items, l \in Levels, t \in Timers \ {0}}
    BY DEF Init
  <2> QED BY <2>1
<1>2. IsFiniteSet(Running)
  <2>1. IsFiniteSet(Levels) /\ IsFiniteSet(Timers \ {0})
    <3>1. IsFiniteSet(0..MaxLevel) /\ IsFiniteSet(0..MaxTimer)
      BY OverlayAssumption, FS_Interval
    <3> QED BY <3>1, FS_RemoveElement DEF Levels, Timers
  <2> QED BY <2>1, BuiltIs, FS_Product DEF Running
<1> DEFINE f == [p \in Running |-> StepsIn(p)]
           All == {StepsIn(p) : p \in Running}
<1>3. f \in Surjection(Running, All)
  BY DEF Surjection
<1>4. IsFiniteSet(All)
  BY <1>2, <1>3, FS_Surjection
<1>5. \A S \in All : IsFiniteSet(S) /\ S \subseteq GameStep
  <2>1. ASSUME NEW p \in Running PROVE IsFiniteSet(StepsIn(p)) /\ StepsIn(p) \subseteq GameStep
    <3>1. p[1][1] \in Items /\ p[1][2] \in Levels /\ p[2] \in Timers
      BY DEF Running
    <3> QED BY <3>1, StepsAtCount DEF StepsIn
  <2> QED BY <2>1
<1>6. steps = UNION All
  <2>1. ASSUME NEW s \in steps PROVE s \in UNION All
    <3>1. PICK i \in Items, l \in Levels, t \in Timers \ {0} : s \in StepsAt(i, l, t)
      BY <1>1
    <3>2. <<<<i, l>>, t>> \in Running /\ StepsIn(<<<<i, l>>, t>>) = StepsAt(i, l, t)
      BY DEF Running, StepsIn
    <3> QED BY <3>1, <3>2
  <2>2. ASSUME NEW s \in UNION All PROVE s \in steps
    <3>1. PICK p \in Running : s \in StepsIn(p)
      OBVIOUS
    <3>2. p[1][1] \in Items /\ p[1][2] \in Levels /\ p[2] \in Timers \ {0}
      BY DEF Running
    <3> QED BY <1>1, <3>1, <3>2 DEF StepsIn
  <2> QED BY <2>1, <2>2
<1>7. IsFiniteSet(steps)
  BY <1>4, <1>5, <1>6, FS_UNION
<1> QED BY <1>1, <1>5, <1>6, <1>7

\* so the history of the start matches its rows.
LEMMA GameInit ==
  ASSUME Init PROVE GameInv
<1>1. IsFiniteSet(steps) /\ steps \subseteq GameStep
  BY BuiltSteps
<1>2. now = 0 /\ game = Built /\ game \in Rows /\ now \in 0..MaxNow
    <2>1. now = 0 /\ game = Built
    BY Zenon DEF Init
  <2> QED BY <2>1, BuiltIs
<1>3. ASSUME NEW s \in steps
      PROVE  /\ s.item \in Items /\ s.from \in Levels /\ s.until \in Timers \ {0}
             /\ s.begun = 0 /\ s.n[1] = s.until
             /\ s \in StepsAt(s.item, s.from, s.until)
             /\ s = StepAt(s.item, s.from, s.until, s.n[2])
             /\ s.until <= Seconds[s.item][s.from]
  <2>1. PICK i \in Items, l \in Levels, t \in Timers \ {0} : s \in StepsAt(i, l, t)
    BY BuiltSteps
  <2>2. /\ s.item = i /\ s.from = l /\ s.until = t /\ s.begun = 0 /\ s.n[1] = t
        /\ s.n[2] \in 1..Built[<<i, l, t>>] /\ s.n = <<t, s.n[2]>>
        /\ s = StepAt(i, l, t, s.n[2])
    <3>1. \E k \in 1..Built[<<i, l, t>>] : s = StepAt(i, l, t, k)
      BY <2>1, StepsAtIs
    <3> QED BY <3>1 DEF StepAt
  <2>3. Built[<<i, l, t>>] \in Nat
    BY StepsAtCount
  <2>4. Built[<<i, l, t>>] > 0
    BY <2>2, <2>3
  <2>5. t <= Seconds[i][l]
    BY <2>4, BuiltIs
  <2> QED BY <2>1, <2>2, <2>5 DEF StepAt
<1>4. \A t \in Timers \ {0} : t \in Nat /\ t > 0
  BY OverlayAssumption DEF Timers
<1>5. Names
  <2>1. ASSUME NEW s \in steps, NEW o \in steps, s.n = o.n, s.item = o.item, s.from = o.from
        PROVE  s = o
    <3>1. s.until = o.until
      BY <1>3, <2>1
    <3> QED BY <1>3, <2>1, <3>1
  <2>2. ASSUME NEW s \in steps, s.n[1] = 0 PROVE FALSE
    BY <1>3, <1>4, <2>2
  <2> QED BY <2>1, <2>2 DEF Names
<1>6. Times
  <2> SUFFICES ASSUME NEW s \in steps
               PROVE  /\ s.begun <= now /\ s.begun <= s.until
                      /\ s.until <= s.begun + Seconds[s.item][s.from]
                      /\ ~(s.begun > 0)
    BY DEF Times
  <2>1. s.until \in Nat /\ s.begun = 0 /\ s.until <= Seconds[s.item][s.from]
    BY <1>3, <1>4
  <2>2. Seconds[s.item][s.from] \in Nat
    BY <1>3, OverlayAssumption
  <2> QED BY <1>2, <2>1, <2>2
<1>7. Counts
  <2> SUFFICES ASSUME NEW i \in Items, NEW l \in Levels, NEW t \in Timers \ {0}
               PROVE  game[<<i, l, t>>] = Cardinality(Until(i, l, now + t))
    BY DEF Counts
  <2>1. now + t = t
    BY <1>2, <1>4
  <2>2. Until(i, l, t) = StepsAt(i, l, t)
    <3>1. StepsAt(i, l, t) \subseteq steps
      BY BuiltSteps
    <3>2. \A s \in StepsAt(i, l, t) : s.item = i /\ s.from = l /\ s.until = t
      <4> SUFFICES ASSUME NEW s \in StepsAt(i, l, t)
                   PROVE  s.item = i /\ s.from = l /\ s.until = t
        OBVIOUS
      <4>1. \E k \in 1..Built[<<i, l, t>>] : s = StepAt(i, l, t, k)
        BY StepsAtIs
      <4> QED BY <4>1 DEF StepAt
    <3> QED BY <1>3, <3>1, <3>2 DEF Until
  <2> QED BY <1>2, <2>1, <2>2, StepsAtCount
<1> QED BY <1>1, <1>2, <1>5, <1>6, <1>7 DEF GameInv, GameType

-----------------------------------------------------------------------------
\* The shape of a step: none ends past the last timer.
LEMMA StepRange ==
  ASSUME GameInv, NEW s \in steps
  PROVE  /\ s.item \in Items /\ s.from \in Levels /\ s.begun \in Nat /\ s.until \in Nat
         /\ Seconds[s.item][s.from] \in Nat /\ s.until <= MaxTimer
         /\ s = [n |-> s.n, item |-> s.item, from |-> s.from, begun |-> s.begun, until |-> s.until]
         /\ s.n \in Timers \X Nat /\ now \in Nat /\ now <= MaxNow
<1>1. s \in GameStep /\ now \in Nat /\ now <= MaxNow
  BY BuiltIs DEF GameInv, GameType
<1>2. /\ s.item \in Items /\ s.from \in Levels /\ s.begun \in Nat /\ s.until \in Nat
      /\ s = [n |-> s.n, item |-> s.item, from |-> s.from, begun |-> s.begun, until |-> s.until]
      /\ s.n \in Timers \X Nat
  BY <1>1 DEF GameStep
<1>3. Seconds[s.item][s.from] \in Nat
  BY <1>2, OverlayAssumption
<1>4. s.begun <= now /\ s.until <= s.begun + Seconds[s.item][s.from]
  BY DEF GameInv, Times
<1>5. MaxNow + Seconds[s.item][s.from] <= MaxTimer /\ MaxNow \in Nat /\ MaxTimer \in Nat
  BY <1>2, BuiltIs, OverlayAssumption
<1> QED BY <1>1, <1>2, <1>3, <1>4, <1>5

\* A tick lands the steps that end with it.
LEMMA GameTick ==
  ASSUME GameInv, Tick PROVE GameInv' /\ 1 <= MaxTimer
<1>0. /\ now \in Nat /\ now <= MaxNow /\ MaxNow \in Nat /\ MaxTimer \in Nat /\ MaxNow <= MaxTimer
      /\ now < MaxNow /\ now' = now + 1 /\ game' = Later(game, 1) /\ steps' = steps /\ game \in Rows
  BY BuiltIs, OverlayAssumption DEF GameInv, GameType, Tick
<1>1. 1 <= MaxTimer /\ 1 \in Nat
  BY <1>0
<1>2. GameType'
  <2>1. game' \in Rows
    BY <1>0, <1>1, LaterType
  <2> QED BY <1>0, <2>1 DEF GameInv, GameType
<1>3. Names'
  BY <1>0 DEF GameInv, Names
<1>4. Times'
  <2> SUFFICES ASSUME NEW s \in steps
               PROVE  /\ s.begun <= now + 1 /\ s.begun <= s.until
                      /\ s.until <= s.begun + Seconds[s.item][s.from]
                      /\ s.until > now + 1 /\ s.begun > 0 => s.until = s.begun + Seconds[s.item][s.from]
    BY <1>0 DEF Times
  <2>1. s.begun \in Nat /\ s.until \in Nat
    BY StepRange
  <2> QED BY <1>0, <2>1 DEF GameInv, Times
<1>5. Counts'
  <2> SUFFICES ASSUME NEW i \in Items, NEW l \in Levels, NEW t \in Timers \ {0}
               PROVE  game'[<<i, l, t>>] = Cardinality(Until(i, l, now + t)')
    BY DEF Counts
  <2>1. t \in Timers /\ t > 0 /\ t \in Nat
    BY <1>0 DEF Timers
  <2>2. game'[<<i, l, t>>] = IF t + 1 \in Timers THEN game[<<i, l, t + 1>>] ELSE 0
    BY <1>0, <2>1, LaterTimed
  <2>3. Until(i, l, now + t)' = Until(i, l, now + (t + 1))
    BY <1>0, <2>1 DEF Until
  <2>4. CASE t + 1 \in Timers
    <3>1. t + 1 \in Timers \ {0}
      BY <2>1, <2>4
    <3> QED BY <2>2, <2>3, <2>4, <3>1 DEF GameInv, Counts
  <2>5. CASE t + 1 \notin Timers
    <3>1. t + 1 > MaxTimer
      BY <1>0, <2>1, <2>5 DEF Timers
    <3>2. ASSUME NEW s \in steps PROVE s.until # now + (t + 1)
      <4>1. s.until \in Nat /\ s.until <= MaxTimer
        BY StepRange
      <4> QED BY <1>0, <2>1, <3>1, <4>1
    <3>3. Until(i, l, now + (t + 1)) = {}
      BY <3>2 DEF Until
    <3> QED BY <2>2, <2>3, <2>5, <3>3, FS_EmptySet
  <2> QED BY <2>4, <2>5
<1> QED BY <1>1, <1>2, <1>3, <1>4, <1>5 DEF GameInv

-----------------------------------------------------------------------------
\* The step that Begin adds, and the cell its copy moves to.
Begun(i, l) == [n |-> <<0, Cardinality(steps) + 1>>, item |-> i, from |-> l,
                begun |-> now, until |-> now + Seconds[i][l]]

Arrival(i, l) == IF Seconds[i][l] > 0 THEN <<i, l, Seconds[i][l]>> ELSE <<i, l + 1, 0>>

LEMMA BeginIs ==
  ASSUME NEW i, NEW l, Begin(i, l)
  PROVE  /\ game[<<i, l, 0>>] > 0 /\ l < Reach[i]
         /\ game' = Moved(game, <<i, l, 0>>, Arrival(i, l))
         /\ steps' = steps \cup {Begun(i, l)}
<1>1. game[<<i, l, 0>>] > 0 /\ l < Reach[i]
  BY Zenon DEF Begin
<1>2. game' = Moved(game, <<i, l, 0>>, Arrival(i, l))
  BY Zenon DEF Begin, Moved, Arrival
<1>3. steps' = steps \cup {Begun(i, l)}
  BY Zenon DEF Begin, Begun
<1> QED BY <1>1, <1>2, <1>3

\* The new step is told apart from every other by the number of steps so far.
LEMMA GameBegin ==
  ASSUME GameInv, NEW i \in Items, NEW l \in Levels, Begin(i, l), now' = now
  PROVE  GameInv' /\ Begun(i, l) \notin steps /\ Begun(i, l) \in GameStep /\ l + 1 \in Levels
         /\ Seconds[i][l] \in Nat /\ Seconds[i][l] \in Timers
<1> DEFINE new == Begun(i, l)
           d == Seconds[i][l]
<1>0. /\ now \in Nat /\ now <= MaxNow /\ MaxNow \in Nat /\ MaxTimer \in Nat
      /\ game \in Rows /\ IsFiniteSet(steps) /\ steps \subseteq GameStep
  BY BuiltIs, OverlayAssumption DEF GameInv, GameType
<1>1. d \in Nat /\ MaxNow + d <= MaxTimer /\ d \in Timers
  <2>1. d \in Nat /\ MaxNow + d <= MaxTimer
    BY BuiltIs, OverlayAssumption
  <2> QED BY <1>0, <2>1 DEF Timers
<1>2. l + 1 \in Levels /\ l \in Nat
  <2>1. Reach[i] \in Levels /\ l < Reach[i]
    BY BeginIs, OverlayAssumption
  <2> QED BY <2>1, OverlayAssumption DEF Levels
<1>3. Cardinality(steps) \in Nat
  BY <1>0, FS_CardinalityType
<1>4. /\ new.n = <<0, Cardinality(steps) + 1>> /\ new.item = i /\ new.from = l
      /\ new.begun = now /\ new.until = now + d
  BY DEF Begun
<1>5. new \in GameStep
  <2>1. <<0, Cardinality(steps) + 1>> \in Timers \X Nat
    BY <1>0, <1>3 DEF Timers
  <2> QED BY <1>0, <1>1, <2>1 DEF GameStep, Begun
<1> HIDE DEF new, d
<1>6. ASSUME NEW s \in steps PROVE s.n # new.n
  <2>1. s.n \in Timers \X Nat
    BY <1>0 DEF GameStep
  <2>2. s.n[1] = 0 => s.n[2] <= Cardinality(steps)
    BY DEF GameInv, Names
  <2>3. s.n[2] \in Nat
    BY <2>1
  <2> QED BY <1>3, <1>4, <2>2, <2>3
<1>7. steps' = steps \cup {new} /\ new \notin steps
  BY <1>6, BeginIs DEF new
<1>8. IsFiniteSet(steps') /\ Cardinality(steps') = Cardinality(steps) + 1
  BY <1>0, <1>7, FS_AddElement
<1> DEFINE here == <<i, l, 0>>
           there == Arrival(i, l)
<1>9. here \in Cells /\ there \in Cells /\ here # there /\ game[here] > 0
  <2>1. 0 \in Timers
    BY <1>0 DEF Timers
  <2>2. there \in Cells /\ here # there
    BY <1>1, <1>2, <2>1 DEF Arrival, Cells, d
  <2> QED BY <2>1, <2>2, BeginIs DEF Cells
<1>10. game' \in Rows /\ \A x \in Cells : game'[x] =
          IF x = here THEN game[x] - 1 ELSE IF x = there THEN game[x] + 1 ELSE game[x]
  BY <1>0, <1>9, MovedCells, BeginIs
<1>11. GameType'
  BY <1>0, <1>5, <1>7, <1>8, <1>10 DEF GameType
<1>12. Names'
  <2>1. ASSUME NEW s \in steps', NEW o \in steps', s.n = o.n, s.item = o.item, s.from = o.from
        PROVE  s = o
    BY <1>6, <1>7, <2>1 DEF GameInv, Names
  <2>2. ASSUME NEW s \in steps', s.n[1] = 0 PROVE s.n[2] <= Cardinality(steps)'
    <3>1. CASE s = new
      BY <1>3, <1>4, <1>8, <3>1
    <3>2. CASE s \in steps
      <4>1. s.n \in Timers \X Nat
        BY <1>0, <3>2 DEF GameStep
      <4>2. s.n[2] <= Cardinality(steps) /\ s.n[2] \in Nat
        BY <2>2, <3>2, <4>1 DEF GameInv, Names
      <4> QED BY <1>3, <1>8, <4>2
    <3> QED BY <1>7, <3>1, <3>2
  <2> QED BY <2>1, <2>2 DEF Names
<1>13. Times'
  <2> SUFFICES ASSUME NEW s \in steps'
               PROVE  /\ s.begun <= now /\ s.begun <= s.until
                      /\ s.until <= s.begun + Seconds[s.item][s.from]
                      /\ s.until > now /\ s.begun > 0 => s.until = s.begun + Seconds[s.item][s.from]
    BY DEF Times
  <2>1. CASE s = new
    <3>1. Seconds[s.item][s.from] = d
      BY <1>4, <2>1 DEF d
    <3> QED BY <1>0, <1>1, <1>4, <2>1, <3>1
  <2>2. CASE s \in steps
    BY <2>2 DEF GameInv, Times
  <2> QED BY <1>7, <2>1, <2>2
<1>14. Counts'
  <2> SUFFICES ASSUME NEW j \in Items, NEW k \in Levels, NEW t \in Timers \ {0}
               PROVE  game'[<<j, k, t>>] = Cardinality(Until(j, k, now + t)')
    BY DEF Counts
  <2>1. t \in Nat /\ t > 0
    BY <1>0 DEF Timers
  <2>2. <<j, k, t>> \in Cells /\ <<j, k, t>> # here
    BY <2>1 DEF Cells
  <2>3. <<j, k, t>> = there <=> j = i /\ k = l /\ t = d
    BY <1>1, <2>1 DEF Arrival, d
  <2>4. game[<<j, k, t>>] = Cardinality(Until(j, k, now + t)) /\ IsFiniteSet(Until(j, k, now + t))
    <3>1. Until(j, k, now + t) \subseteq steps
      BY DEF Until
    <3> QED BY <1>0, <3>1, FS_Subset DEF GameInv, Counts
  <2>5. CASE j = i /\ k = l /\ t = d
    <3>1. Until(j, k, now + t)' = Until(j, k, now + t) \cup {new}
      BY <1>4, <1>7, <2>5 DEF Until
    <3>2. new \notin Until(j, k, now + t)
      BY <1>7 DEF Until
    <3>3. Cardinality(Until(j, k, now + t)') = Cardinality(Until(j, k, now + t)) + 1
      BY <2>4, <3>1, <3>2, FS_AddElement
    <3>4. game'[<<j, k, t>>] = game[<<j, k, t>>] + 1
      BY <1>10, <2>2, <2>3, <2>5
    <3> QED BY <2>4, <3>3, <3>4
  <2>6. CASE ~(j = i /\ k = l /\ t = d)
    <3>1. now + d = now + t => d = t
      BY <1>0, <1>1, <2>1
    <3>2. Until(j, k, now + t)' = Until(j, k, now + t)
      BY <1>4, <1>7, <2>6, <3>1 DEF Until
    <3>3. game'[<<j, k, t>>] = game[<<j, k, t>>]
      BY <1>10, <2>2, <2>3, <2>6
    <3> QED BY <2>4, <3>2, <3>3
  <2> QED BY <2>5, <2>6
<1>15. GameInv'
  BY <1>11, <1>12, <1>13, <1>14 DEF GameInv
<1> QED BY <1>1, <1>2, <1>5, <1>7, <1>15 DEF new, d

-----------------------------------------------------------------------------
\* What CancelTrue does to the game, for the step it cancels.
Cancels(s) ==
  /\ s \in steps /\ s.until > now
  /\ game' = Moved(game, <<s.item, s.from, s.until - now>>, <<s.item, s.from, 0>>)
  /\ steps' = (steps \ {s}) \cup {[s EXCEPT !.until = now]}

LEMMA CancelIs ==
  ASSUME NEW a, CancelTrue(a)
  PROVE  /\ Withdraw(a)
         /\ \E s \in steps : /\ Cancels(s)
                             /\ s.item = a.item /\ s.from = a.from /\ s.begun = a.startedAt
                             /\ honest => \A e \in files : e.at < s.begun
BY DEF CancelTrue, Cancels, Moved

\* The cancelled step no longer runs, and its copy is idle again.
LEMMA GameCancel ==
  ASSUME GameInv, NEW s, Cancels(s), now' = now
  PROVE  /\ GameInv'
         /\ s.until - now \in Timers \ {0} /\ game[<<s.item, s.from, s.until - now>>] > 0
<1> DEFINE new == [s EXCEPT !.until = now]
           i == s.item
           l == s.from
           d == s.until - now
           here == <<i, l, d>>
           there == <<i, l, 0>>
<1>0. /\ now \in Nat /\ now <= MaxNow /\ MaxNow \in Nat /\ MaxTimer \in Nat
      /\ game \in Rows /\ IsFiniteSet(steps) /\ steps \subseteq GameStep
  BY BuiltIs, OverlayAssumption DEF GameInv, GameType
<1>1. s \in steps /\ s.until > now
  BY DEF Cancels
<1>2. /\ s.item \in Items /\ s.from \in Levels /\ s.begun \in Nat /\ s.until \in Nat
      /\ Seconds[s.item][s.from] \in Nat /\ s.until <= MaxTimer
      /\ s = [n |-> s.n, item |-> s.item, from |-> s.from, begun |-> s.begun, until |-> s.until]
      /\ s.n \in Timers \X Nat
  BY <1>1, StepRange
<1>3. d \in Nat /\ d > 0 /\ d \in Timers \ {0} /\ now + d = s.until /\ 0 \in Timers
  BY <1>0, <1>1, <1>2 DEF Timers
<1>4. /\ new.n = s.n /\ new.item = i /\ new.from = l /\ new.begun = s.begun /\ new.until = now
  BY <1>2
<1>5. new \in GameStep
  BY <1>0, <1>2 DEF GameStep
<1> HIDE DEF new
<1>6. new \notin steps \ {s}
  BY <1>1, <1>4 DEF GameInv, Names
<1>7. steps' = (steps \ {s}) \cup {new}
  BY DEF Cancels, new
<1>8. IsFiniteSet(steps') /\ Cardinality(steps') = Cardinality(steps)
  <2>1. IsFiniteSet(steps \ {s}) /\ Cardinality(steps \ {s}) = Cardinality(steps) - 1
    BY <1>0, <1>1, FS_RemoveElement
  <2>2. IsFiniteSet(steps') /\ Cardinality(steps') = Cardinality(steps \ {s}) + 1
    BY <1>6, <1>7, <2>1, FS_AddElement
  <2>3. Cardinality(steps) \in Nat
    BY <1>0, FS_CardinalityType
  <2> QED BY <2>1, <2>2, <2>3
<1>9. \A j \in Items, k \in Levels, t \in Timers \ {0} :
         game[<<j, k, t>>] = Cardinality(Until(j, k, now + t)) /\ IsFiniteSet(Until(j, k, now + t))
  <2> SUFFICES ASSUME NEW j \in Items, NEW k \in Levels, NEW t \in Timers \ {0}
               PROVE  game[<<j, k, t>>] = Cardinality(Until(j, k, now + t))
                      /\ IsFiniteSet(Until(j, k, now + t))
    OBVIOUS
  <2>1. Until(j, k, now + t) \subseteq steps
    BY DEF Until
  <2> QED BY <1>0, <2>1, FS_Subset DEF GameInv, Counts
<1>10. game[here] > 0
  <2>1. s \in Until(i, l, now + d)
    BY <1>1, <1>3 DEF Until
  <2>2. game[here] = Cardinality(Until(i, l, now + d)) /\ IsFiniteSet(Until(i, l, now + d))
    BY <1>2, <1>3, <1>9
  <2>3. Cardinality(Until(i, l, now + d)) # 0 /\ Cardinality(Until(i, l, now + d)) \in Nat
    BY <2>1, <2>2, FS_EmptySet, FS_CardinalityType
  <2> QED BY <2>2, <2>3
<1>11. here \in Cells /\ there \in Cells /\ here # there
  BY <1>2, <1>3 DEF Cells
<1>12. game' = Moved(game, here, there)
  BY DEF Cancels
<1>13. game' \in Rows /\ \A x \in Cells : game'[x] =
          IF x = here THEN game[x] - 1 ELSE IF x = there THEN game[x] + 1 ELSE game[x]
  BY <1>0, <1>10, <1>11, <1>12, MovedCells
<1>14. GameType'
  BY <1>0, <1>5, <1>7, <1>8, <1>13 DEF GameType
<1>15. Names'
  <2>1. ASSUME NEW p \in steps', NEW o \in steps', p.n = o.n, p.item = o.item, p.from = o.from
        PROVE  p = o
    BY <1>1, <1>4, <1>7, <2>1 DEF GameInv, Names
  <2>2. ASSUME NEW p \in steps', p.n[1] = 0 PROVE p.n[2] <= Cardinality(steps)'
    <3>1. \E o \in steps : p.n = o.n
      BY <1>1, <1>4, <1>7
    <3> QED BY <1>8, <2>2, <3>1 DEF GameInv, Names
  <2> QED BY <2>1, <2>2 DEF Names
<1>16. Times'
  <2> SUFFICES ASSUME NEW p \in steps'
               PROVE  /\ p.begun <= now /\ p.begun <= p.until
                      /\ p.until <= p.begun + Seconds[p.item][p.from]
                      /\ p.until > now /\ p.begun > 0 => p.until = p.begun + Seconds[p.item][p.from]
    BY DEF Times
  <2>1. CASE p = new
    <3>1. s.begun <= now /\ s.until <= s.begun + Seconds[s.item][s.from]
      BY <1>1 DEF GameInv, Times
    <3> QED BY <1>0, <1>1, <1>2, <1>4, <2>1, <3>1
  <2>2. CASE p \in steps
    BY <2>2 DEF GameInv, Times
  <2> QED BY <1>7, <2>1, <2>2
<1>17. Counts'
  <2> SUFFICES ASSUME NEW j \in Items, NEW k \in Levels, NEW t \in Timers \ {0}
               PROVE  game'[<<j, k, t>>] = Cardinality(Until(j, k, now + t)')
    BY DEF Counts
  <2>1. t \in Nat /\ t > 0 /\ now + t # now
    BY <1>0 DEF Timers
  <2>2. <<j, k, t>> \in Cells /\ <<j, k, t>> # there
    BY <2>1 DEF Cells
  <2>3. <<j, k, t>> = here <=> j = i /\ k = l /\ t = d
    OBVIOUS
  <2>4. game[<<j, k, t>>] = Cardinality(Until(j, k, now + t)) /\ IsFiniteSet(Until(j, k, now + t))
    BY <1>9
  <2>5. CASE j = i /\ k = l /\ t = d
    <3>1. Until(j, k, now + t)' = Until(j, k, now + t) \ {s} /\ s \in Until(j, k, now + t)
      BY <1>1, <1>3, <1>4, <1>7, <2>1, <2>5 DEF Until
    <3>2. Cardinality(Until(j, k, now + t)') = Cardinality(Until(j, k, now + t)) - 1
      BY <2>4, <3>1, FS_RemoveElement
    <3>3. game'[<<j, k, t>>] = game[<<j, k, t>>] - 1
      BY <1>13, <2>2, <2>3, <2>5
    <3> QED BY <2>4, <3>2, <3>3
  <2>6. CASE ~(j = i /\ k = l /\ t = d)
    <3>1. now + t = s.until => t = d
      BY <1>0, <1>3, <2>1
    <3>2. Until(j, k, now + t)' = Until(j, k, now + t)
      BY <1>4, <1>7, <2>1, <2>6, <3>1 DEF Until
    <3>3. game'[<<j, k, t>>] = game[<<j, k, t>>]
      BY <1>13, <2>2, <2>3, <2>6
    <3> QED BY <2>4, <3>2, <3>3
  <2> QED BY <2>5, <2>6
<1>18. GameInv'
  BY <1>14, <1>15, <1>16, <1>17 DEF GameInv
<1> QED BY <1>3, <1>10, <1>18

-----------------------------------------------------------------------------
(***************************************************************************)
(* The tracker's part.                                                     *)
(***************************************************************************)
FilesInv ==
  /\ files \subseteq Export /\ \A e \in files : e.at <= now
  /\ base # None => base \in files

ActsInv ==
  /\ nextId \in Nat \ {0}
  /\ Listed(acts) /\ \A a \in acts : a.id < nextId /\ a.startedAt <= now
  /\ base = None => acts = {}
  /\ base # None => Stale(base, acts) = {}

LifeInv == honest \in BOOLEAN /\ GameInv /\ FilesInv /\ ActsInv

\* A settled list is part of the list it settles.
LEMMA AppliedWithin ==
  ASSUME NEW e, NEW some PROVE Applied(e, some) \subseteq some
BY DEF Applied

LEMMA ListedWithin ==
  ASSUME NEW list, Listed(list), NEW some \in SUBSET list PROVE Listed(some)
BY DEF Listed

\* No other action moves the game.
LEMMA GameNext ==
  ASSUME GameInv, [Next]_vars
  PROVE  GameInv'
<1>1. CASE Tick
  BY <1>1, GameTick
<1>2. CASE UNCHANGED <<game, now, steps>>
  BY <1>2 DEF GameInv, GameType, Names, Times, Counts, Until
<1>3. ASSUME NEW i \in Items, NEW l \in Levels, Begin(i, l), now' = now PROVE GameInv'
  BY <1>3, GameBegin
<1>4. ASSUME NEW s, Cancels(s), now' = now PROVE GameInv'
  BY <1>4, GameCancel
<1>5. CASE Capture
  BY <1>2, <1>5 DEF Capture
<1>6. ASSUME NEW i \in Items, NEW l \in Levels, Play(i, l) PROVE GameInv'
  BY <1>3, <1>6 DEF Play
<1>7. ASSUME NEW i \in Items, NEW l \in Levels, DeclareTrue(i, l) PROVE GameInv'
  BY <1>3, <1>7 DEF DeclareTrue, Declare
<1>8. ASSUME NEW i \in Items, NEW l \in Levels, DeclareFalse(i, l) PROVE GameInv'
  BY <1>2, <1>8 DEF DeclareFalse, Declare
<1>9. ASSUME NEW e \in files, Upload(e) PROVE GameInv'
  BY <1>2, <1>9 DEF Upload
<1>10. ASSUME NEW a \in acts, CancelTrue(a) PROVE GameInv'
  <2>1. PICK s \in steps : Cancels(s)
    BY <1>10, CancelIs
  <2> QED BY <1>4, <1>10, <2>1, CancelIs DEF Withdraw
<1>11. ASSUME NEW a \in acts, CancelFalse(a) PROVE GameInv'
  BY <1>2, <1>11 DEF CancelFalse, Withdraw
<1>12. CASE UNCHANGED vars
  BY <1>2, <1>12 DEF vars
<1> QED BY <1>1, <1>5, <1>6, <1>7, <1>8, <1>9, <1>10, <1>11, <1>12 DEF Next

-----------------------------------------------------------------------------
\* The newest export and the list that is settled under it, after Upload.
Best(e) == IF base = None \/ e.at > base.at THEN e ELSE base
Left(e) == IF base = None THEN acts ELSE acts \ Retired(acts, e)

LEMMA UploadIs ==
  ASSUME LifeInv, NEW e, Upload(e)
  PROVE  /\ e \in files /\ base' = Best(e) /\ base' \in files /\ base' \in Export /\ base' # None
         /\ acts' = Applied(base', Left(e)) /\ acts' \subseteq Left(e) /\ Left(e) \subseteq acts
         /\ Stale(base', acts') = {} /\ Listed(acts')
         /\ honest' = honest /\ game' = game /\ now' = now /\ files' = files
         /\ nextId' = nextId /\ steps' = steps
<1>1. e \in files /\ base' = Best(e) /\ acts' = Applied(base', Left(e))
      /\ honest' = honest /\ game' = game /\ now' = now /\ files' = files
      /\ nextId' = nextId /\ steps' = steps
  BY DEF Upload, Best, Left
<1>2. base' \in files /\ base' \in Export
  BY <1>1 DEF LifeInv, FilesInv, Best
<1>3. base' # None
  BY <1>2, BuiltIs
<1>4. Left(e) \subseteq acts /\ acts' \subseteq Left(e)
  BY <1>1 DEF Left, Applied
<1>5. Listed(acts') /\ Listed(Left(e))
  BY <1>4, ListedWithin DEF LifeInv, ActsInv
<1>6. Stale(base', acts') = {}
  BY <1>1, <1>2, <1>5, AppliedSettles
<1> QED BY <1>1, <1>2, <1>3, <1>4, <1>5, <1>6

\* The upgrade a declaration adds: it is placed last.
Declared(i, l) == [id |-> nextId, item |-> i, from |-> l, startedAt |-> now]

LEMMA DeclareIs ==
  ASSUME LifeInv, NEW i \in Items, NEW l \in Levels, Declare(i, l)
  PROVE  /\ base # None /\ base \in Export /\ base \in files
         /\ Declared(i, l) \in Action /\ Declared(i, l) \notin acts
         /\ i \in Known /\ i \in Arrayed /\ l < Reach[i]
         /\ Placeable(Overlaid(base, acts).rows, base.at, Declared(i, l))
         /\ acts' = acts \cup {Declared(i, l)} /\ Listed(acts') /\ Stale(base, acts') = {}
         /\ Overlaid(base, acts').rows = Split(Overlaid(base, acts).rows, base.at, Declared(i, l))
         /\ nextId' = nextId + 1
         /\ honest' = honest /\ now' = now /\ files' = files /\ base' = base
<1> DEFINE a == Declared(i, l)
           over == Overlaid(base, acts)
<1>1. base # None /\ base \in Export /\ base \in files /\ now \in Nat /\ nextId \in Nat \ {0}
      /\ Stale(base, acts) = {} /\ Listed(acts) /\ \A b \in acts : b.id < nextId
  BY BuiltIs DEF Declare, Accepts, LifeInv, FilesInv, ActsInv, GameInv, GameType
<1>2. a \in Action /\ a.id = nextId /\ a.item = i /\ a.from = l /\ a.startedAt = now
  BY <1>1 DEF Declared, Action
<1>3. over.at = base.at
  BY <1>1 DEF Overlaid, Export
<1>4. Placeable(over.rows, over.at, [id |-> 0, item |-> i, from |-> l, startedAt |-> now])
      /\ [item |-> i, from |-> l] \in Suggested(over, now)
  BY DEF Declare, Accepts
<1>5. i \in Known /\ l < Reach[i]
  BY <1>4 DEF Suggested
<1>6. Placeable(over.rows, base.at, a)
  <2>1. [id |-> 0, item |-> i, from |-> l, startedAt |-> now].item = i
        /\ [id |-> 0, item |-> i, from |-> l, startedAt |-> now].from = l
        /\ [id |-> 0, item |-> i, from |-> l, startedAt |-> now].startedAt = now
    OBVIOUS
  <2> DEFINE b == [id |-> 0, item |-> i, from |-> l, startedAt |-> now]
  <2>2. StepTime(b) = StepTime(a) /\ Remaining(b, base.at) = Remaining(a, base.at)
    BY <1>2, <2>1 DEF StepTime, Remaining
  <2>3. b.item = a.item /\ b.from = a.from /\ Placeable(over.rows, base.at, b)
    BY <1>2, <1>3, <1>4
  <2> HIDE DEF a, b, over
  <2> QED BY <2>2, <2>3, PlaceableCell
<1>7. i \in Arrayed
  BY <1>2, <1>6 DEF Placeable
<1> HIDE DEF a
<1>8. Listed(acts \cup {a}) /\ Stale(base, acts \cup {a}) = {}
      /\ Overlaid(base, acts \cup {a}).rows = Split(over.rows, base.at, a)
  BY <1>1, <1>2, <1>6, OverlayAdd
<1>9. acts' = acts \cup {a}
  BY <1>8 DEF Declare, Applied, a, Declared
<1>10. a \notin acts
  BY <1>1, <1>2
<1>11. nextId' = nextId + 1 /\ honest' = honest /\ now' = now /\ files' = files /\ base' = base
  BY DEF Declare
<1> QED BY <1>1, <1>2, <1>5, <1>6, <1>7, <1>8, <1>9, <1>10, <1>11 DEF a

LEMMA WithdrawIs ==
  ASSUME LifeInv, NEW a, Withdraw(a)
  PROVE  /\ a \in acts /\ base # None /\ base \in Export /\ base \in files
         /\ acts' = Applied(base, acts \ {a}) /\ acts' \subseteq acts \ {a}
         /\ Listed(acts') /\ Stale(base, acts') = {}
         /\ honest' = honest /\ now' = now /\ files' = files /\ base' = base /\ nextId' = nextId
<1>1. a \in acts /\ acts' = Applied(base, acts \ {a})
      /\ honest' = honest /\ now' = now /\ files' = files /\ base' = base /\ nextId' = nextId
  BY DEF Withdraw
<1>2. base # None /\ base \in files /\ base \in Export
  BY <1>1 DEF LifeInv, ActsInv, FilesInv
<1>3. acts' \subseteq acts \ {a}
  BY <1>1, AppliedWithin
<1>4. Listed(acts') /\ Listed(acts \ {a})
  BY <1>3, ListedWithin DEF LifeInv, ActsInv
<1>5. Stale(base, acts') = {}
  BY <1>1, <1>2, <1>4, AppliedSettles
<1> QED BY <1>1, <1>2, <1>3, <1>4, <1>5

LEMMA NowIsNat ==
  ASSUME LifeInv PROVE now \in Nat /\ now <= MaxNow /\ game \in Rows /\ MaxNow \in Nat
BY BuiltIs DEF LifeInv, GameInv, GameType

LEMMA LifeInit ==
  ASSUME Init PROVE LifeInv
<1>1. GameInv
  BY GameInit
<1>2. now = 0 /\ base = None /\ acts = {} /\ nextId = 1 /\ files = {[at |-> 0, rows |-> Built]} /\ honest \in Players
  BY Zenon DEF Init
<1>3. Built \in Rows /\ honest \in BOOLEAN
  <2>1. Players \subseteq BOOLEAN
    BY VillageLifeAssumption, Zenon
  <2> QED BY <1>2, <2>1, BuiltIs
<1> QED BY <1>1, <1>2, <1>3 DEF LifeInv, FilesInv, ActsInv, Listed, Export

LEMMA LifeNext ==
  ASSUME LifeInv, [Next]_vars
  PROVE  LifeInv'
<1>0. GameInv' /\ now \in Nat /\ game \in Rows
  BY GameNext, NowIsNat DEF LifeInv
<1>1. CASE Tick
  <2>1. now' = now + 1 /\ UNCHANGED <<honest, files, base, acts, nextId>>
    BY <1>1 DEF Tick
  <2>2. FilesInv'
    <3>1. \A e \in files : e.at \in Nat
      BY DEF LifeInv, FilesInv, Export
    <3> QED BY <1>0, <2>1, <3>1 DEF LifeInv, FilesInv
  <2>3. ActsInv'
    <3>1. \A a \in acts : a.startedAt \in Nat
      BY DEF LifeInv, ActsInv, Listed, Action
    <3> QED BY <1>0, <2>1, <3>1 DEF LifeInv, ActsInv
  <2> QED BY <1>0, <2>1, <2>2, <2>3 DEF LifeInv
<1>2. CASE UNCHANGED <<honest, now, files, base, acts, nextId>>
  BY <1>0, <1>2 DEF LifeInv, FilesInv, ActsInv
<1>3. CASE Capture
  <2>1. files' = files \cup {[at |-> now, rows |-> game]}
        /\ UNCHANGED <<honest, now, base, acts, nextId>>
    BY <1>3 DEF Capture
  <2>2. FilesInv'
    BY <1>0, <2>1 DEF LifeInv, FilesInv, Export
  <2> QED BY <1>0, <2>1, <2>2 DEF LifeInv, ActsInv
<1>4. ASSUME NEW i \in Items, NEW l \in Levels, Play(i, l) PROVE LifeInv'
  BY <1>2, <1>4 DEF Play
<1>5. ASSUME NEW i \in Items, NEW l \in Levels, Declare(i, l) PROVE LifeInv'
  <2> DEFINE a == Declared(i, l)
  <2>1. /\ base # None /\ acts' = acts \cup {a} /\ Listed(acts') /\ Stale(base, acts') = {}
        /\ nextId' = nextId + 1 /\ honest' = honest /\ now' = now /\ files' = files /\ base' = base
    BY <1>5, DeclareIs
  <2>2. a.id = nextId /\ a.startedAt = now
    BY DEF Declared
  <2>3. nextId \in Nat \ {0} /\ \A b \in acts : b.id \in Nat /\ b.id < nextId /\ b.startedAt <= now
    BY DEF LifeInv, ActsInv, Listed, Action
  <2> HIDE DEF a
  <2>4. ActsInv'
    <3>1. nextId' \in Nat \ {0}
      BY <2>1, <2>3
    <3>2. \A b \in acts' : b.id < nextId' /\ b.startedAt <= now'
      <4>1. now <= now /\ nextId < nextId + 1 /\ \A b \in acts : b.id < nextId + 1
        BY <1>0, <2>3
      <4> QED BY <2>1, <2>2, <2>3, <4>1
    <3>3. Stale(base, acts)' = {}
      BY <2>1
    <3>4. Listed(acts)'
      BY <2>1
    <3> QED BY <2>1, <3>1, <3>2, <3>3, <3>4 DEF ActsInv
  <2>5. FilesInv'
    BY <2>1 DEF LifeInv, FilesInv
  <2> QED BY <1>0, <2>1, <2>4, <2>5 DEF LifeInv
<1>6. ASSUME NEW e, Upload(e) PROVE LifeInv'
  <2>1. /\ base' \in files /\ base' # None /\ acts' \subseteq acts
        /\ Stale(base', acts') = {} /\ Listed(acts')
        /\ UNCHANGED <<honest, now, files, nextId>>
    BY <1>6, UploadIs
  <2> QED BY <1>0, <2>1 DEF LifeInv, FilesInv, ActsInv
<1>7. ASSUME NEW a, Withdraw(a) PROVE LifeInv'
  <2>1. /\ base # None /\ acts' \subseteq acts /\ Listed(acts') /\ Stale(base, acts') = {}
        /\ UNCHANGED <<honest, now, files, base, nextId>>
    BY <1>7, WithdrawIs
  <2>2. FilesInv'
    BY <2>1 DEF LifeInv, FilesInv
  <2>3. ActsInv'
    BY <2>1 DEF LifeInv, ActsInv
  <2> QED BY <1>0, <2>1, <2>2, <2>3 DEF LifeInv
<1> QED
  BY <1>1, <1>2, <1>3, <1>4, <1>5, <1>6, <1>7
  DEF Next, vars, DeclareTrue, DeclareFalse, CancelTrue, CancelFalse

\* The strengthening the theorems below rest on: the game's history explains
\* its rows, and the settled list is placed under the newest export.
LEMMA LifeInvariant == Spec => []LifeInv
<1>1. Init => LifeInv
  BY LifeInit
<1>2. LifeInv /\ [Next]_vars => LifeInv'
  BY LifeNext
<1> QED BY <1>1, <1>2, PTL DEF Spec

\* Every upload, declaration, withdrawal and second leaves the village, the
\* exports and the declared upgrades in the shapes the tracker stores.
THEOREM LifeTypeCorrect == Spec => []TypeOK
<1>1. LifeInv => TypeOK
  BY DEF LifeInv, GameInv, GameType, FilesInv, ActsInv, Listed, TypeOK
<1> QED BY <1>1, LifeInvariant, PTL

-----------------------------------------------------------------------------
(***************************************************************************)
(* The overlay of an honest player's upgrades.                             *)
(***************************************************************************)
Start == [at |-> 0, rows |-> Built]

\* The export the dashboard shows, the first one captured before any upload.
Shown == IF base = None THEN Start ELSE base

Before(t) == {a \in acts : a.startedAt < t}

InOrder(list) == \A a, b \in list : a.id < b.id => a.startedAt <= b.startedAt

FileIsView(f) == f.rows = Later(Overlaid(Shown, Before(f.at)).rows, f.at - Shown.at)

\* What the overlay shows is the village, and what every export captured
\* since shows is the overlay of what had been begun by then.
TruthInv ==
  honest =>
    /\ Start \in files
    /\ \A a \in acts : Shown.at <= a.startedAt /\ \E s \in steps : s.begun = a.startedAt
    /\ InOrder(acts)
    /\ Later(Overlaid(Shown, acts).rows, now - Shown.at) = game
    /\ \A f \in files : f.at >= Shown.at => FileIsView(f)

LEMMA ShownIs ==
  ASSUME LifeInv, Start \in files
  PROVE  /\ Shown \in Export /\ Shown \in files /\ Shown.at \in Nat /\ Shown.at <= now
         /\ Listed(acts) /\ Stale(Shown, acts) = {} /\ nextId \in Nat
         /\ \A a \in acts : a.id < nextId /\ a.id \in Nat /\ a.id <= nextId
         /\ \A a \in acts : a \in Action /\ a.startedAt \in Nat /\ a.startedAt <= now
<1>1. Shown \in files /\ Shown \in Export /\ Shown.at <= now
  BY DEF LifeInv, FilesInv, Shown
<1>2. Shown.at \in Nat
  BY <1>1 DEF Export
<1>3. Listed(acts) /\ nextId \in Nat
      /\ \A a \in acts : a.id < nextId /\ a \in Action /\ a.startedAt <= now
  BY DEF LifeInv, ActsInv, Listed
<1>4. \A a \in acts : a.id \in Nat /\ a.startedAt \in Nat /\ a.id <= nextId
  BY <1>3 DEF Action
<1>5. Stale(Shown, acts) = {}
  <2>1. CASE base = None
    BY <1>1, <2>1, NoneOverlaid DEF LifeInv, ActsInv, Shown
  <2>2. CASE base # None
    BY <2>2 DEF LifeInv, ActsInv, Shown
  <2> QED BY <2>1, <2>2
<1> QED BY <1>1, <1>2, <1>3, <1>4, <1>5

\* The time since an export fits a timer, and so does what an upgrade has left.
LEMMA FitsTimer ==
  ASSUME LifeInv, NEW a \in acts, NEW at \in Nat, NEW t \in Nat, at <= t, t <= a.startedAt
  PROVE  /\ t - at \in Nat /\ t - at <= MaxTimer
         /\ StepTime(a) > 0 => Remaining(a, at) > t - at /\ Remaining(a, at) <= MaxTimer
<1>1. a \in Action /\ a.startedAt \in Nat /\ a.startedAt <= now
  BY DEF LifeInv, ActsInv, Listed, Action
<1>2. StepTime(a) \in Nat /\ MaxNow + StepTime(a) <= MaxTimer
  BY <1>1, BuiltIs, StepTimeIsNat DEF StepTime, Action
<1>3. now \in Nat /\ now <= MaxNow /\ MaxNow \in Nat /\ MaxTimer \in Nat
  BY NowIsNat, OverlayAssumption
<1>4. Remaining(a, at) = a.startedAt + StepTime(a) - at
  BY DEF Remaining
<1> QED BY <1>1, <1>2, <1>3, <1>4

\* The upgrades begun before a moment come first in the list.
LEMMA BeforeFirst ==
  ASSUME LifeInv, InOrder(acts), NEW t
  PROVE  /\ Before(t) \in SUBSET acts
         /\ \A a \in acts : a.startedAt \in Nat /\ a.id \in Nat
         /\ t \in Nat => \A a \in Before(t), b \in acts \ Before(t) : a.id < b.id
<1>1. \A a \in acts : a.startedAt \in Nat /\ a.id \in Nat
  BY DEF LifeInv, ActsInv, Listed, Action
<1>2. ASSUME t \in Nat, NEW a \in Before(t), NEW b \in acts \ Before(t) PROVE a.id < b.id
  <2>1. a \in acts /\ b \in acts /\ a.startedAt < t /\ ~(b.startedAt < t)
    BY DEF Before
  <2>2. a.id # b.id
    BY <2>1 DEF LifeInv, ActsInv, Listed
  <2>3. ~(b.id < a.id)
    BY <1>1, <1>2, <2>1 DEF InOrder
  <2> QED BY <1>1, <2>1, <2>2, <2>3
<1> QED BY <1>1, <1>2 DEF Before

\* An export shown next: with what it was captured before overlaid, it is the
\* one shown now with the list overlaid, as of its capture.
LEMMA Rebase ==
  ASSUME LifeInv, TruthInv, honest, NEW e \in files, e.at >= Shown.at,
         NEW list, list = acts \/ (\E f \in files : f.at >= e.at /\ list = Before(f.at))
  PROVE  LET since == {a \in list : ~(a.startedAt < e.at)}
         IN  /\ Listed(since) /\ Stale(e, since) = {}
             /\ Overlaid(e, since).rows = Later(Overlaid(Shown, list).rows, e.at - Shown.at)
             /\ Listed(list) /\ Overlaid(Shown, list).rows \in Rows
<1> DEFINE since == {a \in list : ~(a.startedAt < e.at)}
           d == e.at - Shown.at
<1>1. /\ Shown \in Export /\ Shown.at \in Nat /\ Listed(acts) /\ Stale(Shown, acts) = {}
      /\ nextId \in Nat /\ \A a \in acts : a.id <= nextId /\ a.startedAt \in Nat
      /\ InOrder(acts) /\ FileIsView(e)
  BY ShownIs DEF TruthInv
<1>2. e \in Export /\ e.at \in Nat /\ e.at <= now
  BY DEF LifeInv, FilesInv, Export
<1>3. d \in Nat /\ d <= MaxTimer /\ e.at = Shown.at + d
  <2>1. now \in Nat /\ now <= MaxNow /\ MaxNow \in Nat /\ MaxTimer \in Nat /\ MaxNow <= MaxTimer
    BY NowIsNat, BuiltIs, OverlayAssumption
  <2> QED BY <1>1, <1>2, <2>1
<1>4. list \subseteq acts /\ Listed(list) /\ Stale(Shown, list) = {} /\ Before(e.at) \subseteq list
  <2>1. CASE list = acts
    BY <1>1, <2>1 DEF Before
  <2>2. ASSUME NEW f \in files, f.at >= e.at, list = Before(f.at)
        PROVE  list \subseteq acts /\ Listed(list) /\ Stale(Shown, list) = {} /\ Before(e.at) \subseteq list
    <3>1. f.at \in Nat
      BY DEF LifeInv, FilesInv, Export
    <3>2. list \in SUBSET acts /\ \A a \in list, b \in acts \ list : a.id < b.id
      BY <1>1, <2>2, <3>1, BeforeFirst
    <3>3. Listed(list) /\ Stale(Shown, list) = {}
      BY <1>1, <3>2, FirstStay
    <3>4. Before(e.at) \subseteq Before(f.at)
      BY <1>1, <1>2, <2>2, <3>1 DEF Before
    <3> QED BY <2>2, <3>2, <3>3, <3>4
  <2> QED BY <2>1, <2>2
<1>5. since \in SUBSET list /\ list \ since = Before(e.at)
  BY <1>4 DEF Before
<1>6. \A a \in list \ since, c \in since : a.id < c.id
  <2> SUFFICES ASSUME NEW a \in Before(e.at), NEW c \in since PROVE a.id < c.id
    BY <1>5
  <2>1. c \in acts \ Before(e.at)
    BY <1>4 DEF Before
  <2> QED BY <1>1, <1>2, <2>1, BeforeFirst
<1>7. \A a \in since : StepTime(a) > 0 => Remaining(a, Shown.at) > d /\ Remaining(a, Shown.at) <= MaxTimer
  <2> SUFFICES ASSUME NEW a \in since
               PROVE  StepTime(a) > 0 => Remaining(a, Shown.at) > d /\ Remaining(a, Shown.at) <= MaxTimer
    OBVIOUS
  <2>1. a \in acts /\ ~(a.startedAt < e.at)
    BY <1>4
  <2>2. e.at <= a.startedAt
    BY <1>1, <1>2, <2>1
  <2> QED BY <1>1, <1>2, <2>1, <2>2, FitsTimer
<1>8. e.rows = Later(Overlaid(Shown, list \ since).rows, d)
  BY <1>1, <1>5 DEF FileIsView
<1> HIDE DEF since, d
<1>9. Listed(since) /\ Stale(e, since) = {}
      /\ Overlaid(e, since).rows = Later(Overlaid(Shown, list).rows, d)
  <2>1. \A a \in list : a.id <= nextId
    BY <1>1, <1>4
  <2>2. /\ Shown \in Export /\ e \in Export /\ nextId \in Nat /\ Listed(list) /\ Stale(Shown, list) = {}
        /\ d \in Nat /\ d <= MaxTimer /\ e.at = Shown.at + d /\ since \in SUBSET list
    BY <1>1, <1>2, <1>3, <1>4, <1>5
  <2> QED BY ONLY <1>6, <1>7, <1>8, <2>1, <2>2, OverlayLater
<1>10. Overlaid(Shown, list).rows \in Rows
  BY <1>1, <1>4, OverlaidType
<1> QED BY <1>4, <1>9, <1>10 DEF since, d

-----------------------------------------------------------------------------
\* With no upload and nothing declared the overlay is the village as built.
LEMMA TruthInit ==
  ASSUME Init PROVE TruthInv
<1>1. now = 0 /\ base = None /\ acts = {} /\ files = {Start} /\ game = Built
  BY Zenon DEF Init, Start
<1>2. Start \in Export /\ Start.at = 0 /\ Start.rows = Built /\ Built \in Rows
  BY BuiltIs DEF Start, Export
<1>3. Shown = Start /\ \A t : Before(t) = {}
  BY <1>1 DEF Shown, Before
<1>4. Overlaid(Start, {}).rows = Built
  BY <1>2, NoneOverlaid
<1>5. Later(Built, 0) = Built
  BY <1>2, LaterNow
<1>6. \A f \in files : FileIsView(f)
  BY <1>1, <1>2, <1>3, <1>4, <1>5 DEF FileIsView
<1> QED BY <1>1, <1>2, <1>3, <1>4, <1>5, <1>6 DEF TruthInv, InOrder

\* A second on, the overlay is a second on as well.
LEMMA TruthTick ==
  ASSUME LifeInv, TruthInv, Tick PROVE TruthInv'
<1> SUFFICES ASSUME honest PROVE TruthInv'
  BY DEF Tick, TruthInv
<1>1. /\ now' = now + 1 /\ game' = Later(game, 1) /\ now < MaxNow
      /\ UNCHANGED <<honest, files, base, acts, nextId, steps>>
  BY DEF Tick
<1>2. /\ Start \in files /\ Later(Overlaid(Shown, acts).rows, now - Shown.at) = game
      /\ \A f \in files : f.at >= Shown.at => FileIsView(f)
  BY DEF TruthInv
<1>3. Shown' = Shown /\ \A f \in files : FileIsView(f)' <=> FileIsView(f)
  BY <1>1 DEF Shown, FileIsView, Before, Start
<1>4. /\ Shown \in Export /\ Listed(acts) /\ nextId \in Nat /\ \A a \in acts : a.id <= nextId
      /\ Shown.at \in Nat /\ Shown.at <= now
  BY <1>2, ShownIs
<1> DEFINE r == Overlaid(Shown, acts).rows
           d == now - Shown.at
<1>5. r \in Rows
  BY <1>4, OverlaidType
<1>6. d \in Nat /\ 1 \in Nat /\ d + 1 <= MaxTimer /\ now + 1 - Shown.at = d + 1
  <2>1. now \in Nat /\ MaxNow \in Nat /\ MaxTimer \in Nat /\ MaxNow <= MaxTimer
    BY NowIsNat, BuiltIs, OverlayAssumption
  <2> QED BY <1>1, <1>4, <2>1
<1>7. Later(r, d) = game
  BY <1>2
<1> HIDE DEF r, d
<1>8. Later(Later(r, d), 1) = Later(r, d + 1)
  BY <1>5, <1>6, LaterTwice
<1>9. Later(Overlaid(Shown, acts).rows, now + 1 - Shown.at) = Later(game, 1)
  BY <1>6, <1>7, <1>8 DEF r
<1>10. (Later(Overlaid(Shown, acts).rows, now - Shown.at) = game)'
  <2>1. Shown' = Shown /\ acts' = acts /\ now' = now + 1 /\ game' = Later(game, 1)
    BY <1>1 DEF Shown, Start
  <2>2. now' - Shown'.at = now + 1 - Shown.at
    <3>1. now \in Nat
      BY NowIsNat
    <3> QED BY <1>4, <2>1, <3>1
  <2>3. Overlaid(Shown', acts').rows = Overlaid(Shown, acts).rows
    BY <2>1
  <2>4. Later(Overlaid(Shown', acts').rows, now' - Shown'.at) = Later(Overlaid(Shown, acts).rows, now + 1 - Shown.at)
    BY <2>2, <2>3
  <2> QED BY <1>9, <2>1, <2>4
<1>11. InOrder(acts)' /\ \A a \in acts' : Shown'.at <= a.startedAt /\ \E s \in steps' : s.begun = a.startedAt
  BY <1>1, <1>3 DEF TruthInv, InOrder
<1>12. Start' \in files' /\ \A f \in files' : f.at >= Shown'.at => FileIsView(f)'
  BY <1>1, <1>2, <1>3 DEF Start
<1> QED BY <1>10, <1>11, <1>12 DEF TruthInv

\* A capture shows the village, which is the overlay.
LEMMA TruthCapture ==
  ASSUME LifeInv, TruthInv, Capture PROVE TruthInv'
<1> SUFFICES ASSUME honest PROVE TruthInv'
  BY DEF Capture, TruthInv
<1> DEFINE new == [at |-> now, rows |-> game]
<1>1. /\ files' = files \cup {new} /\ \A s \in steps : s.begun < now
      /\ UNCHANGED <<honest, game, now, base, acts, nextId, steps>>
  BY DEF Capture
<1>2. /\ Start \in files /\ Later(Overlaid(Shown, acts).rows, now - Shown.at) = game
      /\ \A f \in files : f.at >= Shown.at => FileIsView(f)
      /\ \A a \in acts : \E s \in steps : s.begun = a.startedAt
  BY DEF TruthInv
<1>3. Shown' = Shown /\ \A f : FileIsView(f)' <=> FileIsView(f)
  BY <1>1 DEF Shown, FileIsView, Before, Start
<1>4. Before(now) = acts
  BY <1>1, <1>2 DEF Before
<1>5. FileIsView(new)
  BY <1>2, <1>4 DEF FileIsView
<1> QED BY <1>1, <1>2, <1>3, <1>5 DEF TruthInv, InOrder

-----------------------------------------------------------------------------
\* An upload: what it retires the new export shows, and Rebase does the rest.
LEMMA TruthUpload ==
  ASSUME LifeInv, TruthInv, NEW e, Upload(e) PROVE TruthInv'
<1> SUFFICES ASSUME honest PROVE TruthInv'
  BY UploadIs DEF TruthInv
<1>1. /\ e \in files /\ base' = Best(e) /\ acts' = Applied(base', Left(e)) /\ base' # None
      /\ UNCHANGED <<honest, game, now, files, nextId, steps>>
  BY UploadIs
<1>2. /\ Start \in files /\ Later(Overlaid(Shown, acts).rows, now - Shown.at) = game
      /\ \A a \in acts : Shown.at <= a.startedAt /\ \E s \in steps : s.begun = a.startedAt
      /\ InOrder(acts)
  BY DEF TruthInv
<1>3. /\ Shown \in Export /\ Shown.at \in Nat /\ Shown.at <= now /\ Stale(Shown, acts) = {}
      /\ \A a \in acts : a.startedAt \in Nat
      /\ e \in Export /\ e.at \in Nat /\ e.at <= now
  BY <1>1, <1>2, ShownIs DEF LifeInv, FilesInv, Export
<1>4. Shown' = base'
  BY <1>1 DEF Shown
<1>5. CASE base # None /\ ~(e.at > base.at)
  <2>1. Shown' = Shown
    BY <1>1, <1>4, <1>5 DEF Best, Shown
  <2>2. Left(e) = acts
    BY <1>2, <1>3, <1>5 DEF Left, Retired, Shown
  <2>3. acts' = acts
    BY <1>1, <1>3, <1>4, <2>1, <2>2 DEF Applied
  <2>4. \A f : FileIsView(f)' <=> FileIsView(f)
    BY <2>1, <2>3 DEF FileIsView, Before
  <2> QED BY <1>1, <2>1, <2>3, <2>4 DEF TruthInv, InOrder, Start
<1>6. CASE base = None \/ e.at > base.at
  <2>1. Shown' = e /\ base' = e
    BY <1>1, <1>4, <1>6 DEF Best
  <2>2. e.at >= Shown.at
    BY <1>3, <1>6 DEF Shown, Start
  <2> DEFINE since == {a \in acts : ~(a.startedAt < e.at)}
             d == e.at - Shown.at
  <2>3. Left(e) = since
    <3>1. CASE base = None
      BY <3>1 DEF Left, LifeInv, ActsInv
    <3>2. CASE base # None
      BY <1>3, <3>2 DEF Left, Retired
    <3> QED BY <3>1, <3>2
  <2>4. /\ Listed(since) /\ Stale(e, since) = {}
        /\ Overlaid(e, since).rows = Later(Overlaid(Shown, acts).rows, d)
        /\ Overlaid(Shown, acts).rows \in Rows
    BY <1>1, <2>2, Rebase
  <2>5. acts' = since
    BY <1>1, <2>1, <2>3, <2>4 DEF Applied
  <2>6. d \in Nat /\ \A t \in Nat : e.at <= t /\ t <= now =>
          t - e.at \in Nat /\ d + (t - e.at) <= MaxTimer /\ d + (t - e.at) = t - Shown.at
    <3>1. now \in Nat /\ now <= MaxNow /\ MaxNow \in Nat /\ MaxTimer \in Nat /\ MaxNow <= MaxTimer
      BY NowIsNat, BuiltIs, OverlayAssumption
    <3> QED BY <1>3, <2>2, <3>1
  <2>7. ASSUME NEW r \in Rows, NEW t \in Nat, e.at <= t, t <= now
        PROVE  Later(Later(r, d), t - e.at) = Later(r, t - Shown.at)
    <3> DEFINE b == t - e.at
    <3>1. b \in Nat /\ d + b <= MaxTimer /\ d + b = t - Shown.at
      BY <2>6, <2>7
    <3> HIDE DEF d, b
    <3>2. Later(Later(r, d), b) = Later(r, d + b)
      BY <2>6, <3>1, LaterTwice
    <3> QED BY <3>1, <3>2 DEF b
  <2>8. Later(Overlaid(e, since).rows, now - e.at) = game
    <3>1. now \in Nat
      BY NowIsNat
    <3>2. Later(Later(Overlaid(Shown, acts).rows, d), now - e.at) = Later(Overlaid(Shown, acts).rows, now - Shown.at)
      BY <1>3, <2>4, <2>7, <3>1
    <3> QED BY <1>2, <2>4, <3>2
  <2>9. ASSUME NEW f \in files, f.at >= e.at
        PROVE  f.rows = Later(Overlaid(e, {a \in since : a.startedAt < f.at}).rows, f.at - e.at)
    <3> DEFINE list == Before(f.at)
               some == {a \in list : ~(a.startedAt < e.at)}
    <3>1. f.at \in Nat /\ f.at <= now
      BY DEF LifeInv, FilesInv, Export
    <3>2. Overlaid(e, some).rows = Later(Overlaid(Shown, list).rows, d) /\ Overlaid(Shown, list).rows \in Rows
      <4>1. list = acts \/ (\E g \in files : g.at >= e.at /\ list = Before(g.at))
        BY <2>9
      <4> HIDE DEF list
      <4> QED BY <1>1, <2>2, <4>1, Rebase
    <3>3. some = {a \in since : a.startedAt < f.at}
      BY DEF Before
    <3>4. f.rows = Later(Overlaid(Shown, list).rows, f.at - Shown.at)
      BY <1>3, <2>2, <2>9, <3>1 DEF TruthInv, FileIsView
    <3> HIDE DEF list, some, since, d
    <3>5. Later(Later(Overlaid(Shown, list).rows, d), f.at - e.at) = Later(Overlaid(Shown, list).rows, f.at - Shown.at)
      BY <1>3, <2>7, <2>9, <3>1, <3>2
    <3> QED BY <3>2, <3>3, <3>4, <3>5
  <2>10. \A a \in since : e.at <= a.startedAt /\ \E s \in steps : s.begun = a.startedAt
    BY <1>2, <1>3
  <2>11. InOrder(since)
    BY <1>2 DEF InOrder
  <2>12. \A f \in files : f.at >= e.at => FileIsView(f)'
    BY <2>1, <2>5, <2>9 DEF FileIsView, Before
  <2> HIDE DEF since, d
  <2> QED BY <1>1, <1>2, <2>1, <2>5, <2>8, <2>10, <2>11, <2>12 DEF TruthInv, Start
<1> QED BY <1>5, <1>6

-----------------------------------------------------------------------------
\* What an honest player's upgrade takes off a view, the game's step takes.
LEMMA TruthDeclare ==
  ASSUME LifeInv, TruthInv, NEW i \in Items, NEW l \in Levels, DeclareTrue(i, l)
  PROVE  TruthInv'
<1> SUFFICES ASSUME honest PROVE TruthInv'
  BY DeclareIs DEF TruthInv, DeclareTrue
<1> DEFINE a == Declared(i, l)
           r == Overlaid(base, acts).rows
           d == now - base.at
<1>1. /\ base # None /\ base \in Export /\ a \in Action /\ a \notin acts
      /\ Placeable(r, base.at, a) /\ acts' = acts \cup {a}
      /\ Overlaid(base, acts').rows = Split(r, base.at, a)
      /\ nextId' = nextId + 1 /\ honest' = honest /\ now' = now /\ files' = files /\ base' = base
      /\ Begin(i, l)
  BY DeclareIs DEF DeclareTrue
<1>2. /\ game' = Moved(game, <<i, l, 0>>, Arrival(i, l)) /\ steps' = steps \cup {Begun(i, l)}
  BY <1>1, BeginIs
<1>3. Shown = base /\ Shown' = base
  BY <1>1 DEF Shown
<1>4. /\ Start \in files /\ Later(r, d) = game
      /\ \A f \in files : f.at >= base.at => FileIsView(f)
      /\ \A b \in acts : base.at <= b.startedAt /\ \E s \in steps : s.begun = b.startedAt
      /\ InOrder(acts)
  BY <1>3 DEF TruthInv
<1>5. /\ Listed(acts) /\ base.at \in Nat /\ base.at <= now /\ nextId \in Nat
      /\ \A b \in acts : b.id < nextId /\ b.id \in Nat /\ b.id <= nextId
      /\ \A b \in acts : b.startedAt \in Nat /\ b.startedAt <= now
  BY <1>3, <1>4, ShownIs
<1>6. /\ a.id = nextId /\ a.item = i /\ a.from = l /\ a.startedAt = now
      /\ Begun(i, l).begun = now
  BY DEF Declared, Begun
<1>7. now \in Nat /\ now <= MaxNow /\ MaxNow \in Nat /\ MaxTimer \in Nat /\ MaxNow <= MaxTimer
  BY NowIsNat, BuiltIs, OverlayAssumption
<1>8. StepTime(a) = Seconds[i][l] /\ StepTime(a) \in Nat /\ MaxNow + StepTime(a) <= MaxTimer
  BY <1>6, BuiltIs, OverlayAssumption DEF StepTime
<1>9. r \in Rows
  BY <1>1, <1>5, OverlaidType
<1>10. /\ Remaining(a, base.at) = now + StepTime(a) - base.at /\ Remaining(a, now) = StepTime(a)
  BY <1>5, <1>6, <1>7, <1>8 DEF Remaining
<1>11. /\ d \in Nat /\ d <= MaxTimer /\ base.at + d = now
       /\ StepTime(a) > 0 => Remaining(a, base.at) > d /\ Remaining(a, base.at) <= MaxTimer
  BY <1>5, <1>7, <1>8, <1>10
<1>12. game' = Split(game, now, a)
  <2>1. Arrival(i, l) = Landing(a, now)
    BY <1>6, <1>8, <1>10 DEF Arrival, Landing
  <2> HIDE DEF a
  <2> QED BY <1>2, <1>6, <2>1 DEF Split, Moved
<1> HIDE DEF a, r, d
<1>13. Later(Split(r, base.at, a), d) = Split(Later(r, d), base.at + d, a)
  BY <1>1, <1>5, <1>9, <1>11, LaterSplit
<1>14. Later(Overlaid(base, acts').rows, d) = game'
  BY <1>1, <1>4, <1>11, <1>12, <1>13
<1>15. \A f \in files : Before(f.at)' = Before(f.at)
  <2> SUFFICES ASSUME NEW f \in files PROVE Before(f.at)' = Before(f.at)
    OBVIOUS
  <2>1. f.at \in Nat /\ f.at <= now
    BY DEF LifeInv, FilesInv, Export
  <2>2. ~(a.startedAt < f.at)
    BY <1>6, <1>7, <2>1
  <2> QED BY <1>1, <2>2 DEF Before
<1>16. \A f \in files : f.at >= base.at => FileIsView(f)'
  <2> SUFFICES ASSUME NEW f \in files, f.at >= base.at PROVE FileIsView(f)'
    OBVIOUS
  <2>1. FileIsView(f) /\ Before(f.at)' = Before(f.at) /\ Shown' = Shown
    BY <1>3, <1>4, <1>15
  <2> QED BY <2>1 DEF FileIsView
<1>17. InOrder(acts')
  <2> SUFFICES ASSUME NEW b \in acts', NEW c \in acts', b.id < c.id PROVE b.startedAt <= c.startedAt
    BY DEF InOrder
  <2>1. CASE c = a
    BY <1>1, <1>5, <1>6, <1>7, <2>1
  <2>2. CASE c # a
    <3>1. c \in acts /\ c.id < nextId /\ c.id \in Nat
      BY <1>1, <1>5, <2>2
    <3>2. b # a
      BY <1>5, <1>6, <3>1
    <3> QED BY <1>1, <1>4, <3>1, <3>2 DEF InOrder
  <2> QED BY <2>1, <2>2
<1>18. \A b \in acts' : base.at <= b.startedAt /\ \E s \in steps' : s.begun = b.startedAt
  <2> SUFFICES ASSUME NEW b \in acts'
               PROVE  base.at <= b.startedAt /\ \E s \in steps' : s.begun = b.startedAt
    OBVIOUS
  <2>1. CASE b = a
    BY <1>2, <1>5, <1>6, <2>1
  <2>2. CASE b \in acts
    BY <1>2, <1>4, <2>2
  <2> QED BY <1>1, <2>1, <2>2
<1>19. (Later(Overlaid(Shown, acts).rows, now - Shown.at) = game)'
  <2>1. (now - Shown.at)' = d
    BY <1>1, <1>3 DEF d
  <2> QED BY <1>3, <1>14, <2>1
<1>20. Start' = Start
  BY DEF Start
<1> QED BY <1>1, <1>3, <1>4, <1>16, <1>17, <1>18, <1>19, <1>20 DEF TruthInv

\* A cancelled upgrade leaves the overlay as the game leaves the village.
LEMMA TruthCancel ==
  ASSUME LifeInv, TruthInv, NEW a, CancelTrue(a)
  PROVE  TruthInv'
<1> SUFFICES ASSUME honest PROVE TruthInv'
  BY CancelIs, WithdrawIs DEF TruthInv
<1> DEFINE less == acts \ {a}
           r == Overlaid(base, acts).rows
           q == Overlaid(base, less).rows
           d == now - base.at
<1>1. /\ a \in acts /\ base # None /\ base \in Export /\ acts' = Applied(base, less)
      /\ honest' = honest /\ now' = now /\ files' = files /\ base' = base /\ nextId' = nextId
  BY CancelIs, WithdrawIs
<1>2. PICK s \in steps : /\ Cancels(s) /\ s.item = a.item /\ s.from = a.from /\ s.begun = a.startedAt
                         /\ \A e \in files : e.at < s.begun
  BY CancelIs
<1>3. Shown = base /\ Shown' = base
  BY <1>1 DEF Shown
<1>4. /\ Start \in files /\ Later(r, d) = game
      /\ \A f \in files : f.at >= base.at => FileIsView(f)
      /\ \A b \in acts : base.at <= b.startedAt /\ \E o \in steps : o.begun = b.startedAt
      /\ InOrder(acts)
  BY <1>3 DEF TruthInv
<1>5. /\ Listed(acts) /\ base.at \in Nat /\ base.at <= now /\ nextId \in Nat /\ Stale(base, acts) = {}
      /\ \A b \in acts : b.id <= nextId
      /\ \A b \in acts : b \in Action /\ b.startedAt \in Nat /\ b.startedAt <= now
  BY <1>3, <1>4, ShownIs
<1>6. /\ s.item \in Items /\ s.from \in Levels /\ s.begun \in Nat /\ s.until \in Nat
      /\ s.until <= MaxTimer /\ Seconds[s.item][s.from] \in Nat /\ now \in Nat
      /\ now <= MaxNow /\ MaxNow \in Nat /\ MaxTimer \in Nat /\ MaxNow <= MaxTimer
  BY <1>2, StepRange, NowIsNat, BuiltIs, OverlayAssumption DEF LifeInv
<1>7. s.until = a.startedAt + StepTime(a) /\ s.until > now
  <2>1. s.begun > 0
    BY <1>2, <1>4 DEF Start
  <2>2. s.until > now
    BY <1>2 DEF Cancels
  <2> QED BY <1>2, <2>1, <2>2 DEF LifeInv, GameInv, Times, StepTime
<1>8. StepTime(a) \in Nat /\ StepTime(a) > 0
  BY <1>1, <1>5, <1>6, <1>7, StepTimeIsNat
<1> HIDE DEF less
<1>9. Listed(less) /\ Stale(base, less) = {} /\ Placeable(q, base.at, a) /\ r = Split(q, base.at, a)
  BY <1>1, <1>5, <1>8, OverlayDrop DEF less
<1>10. acts' = less
  BY <1>1, <1>9 DEF Applied
<1>11. q \in Rows
  <2>1. \A b \in less : b.id <= nextId
    BY <1>5 DEF less
  <2> QED BY <1>1, <1>5, <1>9, <2>1, OverlaidType
<1>12. /\ d \in Nat /\ d <= MaxTimer /\ base.at + d = now
       /\ Remaining(a, base.at) > d /\ Remaining(a, base.at) <= MaxTimer /\ Remaining(a, now) = s.until - now
  BY <1>1, <1>5, <1>6, <1>7, <1>8 DEF Remaining
<1> HIDE DEF r, q, d
<1>13. /\ Placeable(Later(q, d), base.at + d, a)
       /\ Later(Split(q, base.at, a), d) = Split(Later(q, d), base.at + d, a)
  BY <1>1, <1>5, <1>9, <1>11, <1>12, LaterSplit
<1> DEFINE g == Later(q, d)
           here == <<s.item, s.from, s.until - now>>
           there == <<s.item, s.from, 0>>
<1>14. g \in Rows
  BY <1>11, <1>12, LaterType
<1>15. game = Split(g, now, a) /\ Placeable(g, now, a)
  BY <1>4, <1>9, <1>12, <1>13
<1>16. Here(a) = there /\ Landing(a, now) = here
  BY <1>2, <1>8, <1>12 DEF Here, Landing
<1> HIDE DEF g
<1>17. \A c \in Cells : game[c] = IF c = there THEN g[c] - 1 ELSE IF c = here THEN g[c] + 1 ELSE g[c]
  <2>1. a \in Action /\ now \in Nat
    BY <1>1, <1>5, <1>6
  <2> QED BY <1>14, <1>15, <1>16, <2>1, SplitCells
<1>18. game \in Rows /\ game[here] > 0 /\ here \in Cells /\ there \in Cells /\ here # there
  <2>1. s.until - now \in Timers \ {0} /\ game[here] > 0
    BY <1>1, <1>2, GameCancel DEF LifeInv
  <2>2. s.until - now # 0 /\ s.until - now \in Timers /\ 0 \in Timers
    BY <1>6, <2>1 DEF Timers
  <2> QED BY <1>6, <2>1, <2>2, NowIsNat DEF Cells
<1>19. \A c \in Cells : game'[c] = IF c = here THEN game[c] - 1 ELSE IF c = there THEN game[c] + 1 ELSE game[c]
  <2>1. game' = Moved(game, here, there)
    BY <1>2 DEF Cancels
  <2> QED BY <1>18, <2>1, MovedCells
<1>20. game' \in Rows
  BY <1>1, <1>2, GameCancel DEF LifeInv, GameInv, GameType
<1>21. game' = g
  <2>1. \A c \in Cells : g[c] \in Nat
    BY <1>14, RowsAreNat
  <2>2. \A c \in Cells : game'[c] = g[c]
    BY <1>17, <1>18, <1>19, <2>1
  <2>3. g = [c \in Cells |-> g[c]] /\ game' = [c \in Cells |-> game'[c]]
    BY <1>14, <1>20 DEF Rows, Cells
  <2> QED BY <2>2, <2>3
<1>22. \A f \in files : Before(f.at)' = Before(f.at)
  <2> SUFFICES ASSUME NEW f \in files PROVE Before(f.at)' = Before(f.at)
    OBVIOUS
  <2>1. f.at \in Nat /\ f.at < a.startedAt /\ a.startedAt \in Nat
    BY <1>1, <1>2, <1>5 DEF LifeInv, FilesInv, Export
  <2>2. ~(a.startedAt < f.at)
    BY <2>1
  <2> QED BY <1>10, <2>2 DEF Before, less
<1>23. \A f \in files : f.at >= base.at => FileIsView(f)'
  <2> SUFFICES ASSUME NEW f \in files, f.at >= base.at PROVE FileIsView(f)'
    OBVIOUS
  <2>1. FileIsView(f) /\ Before(f.at)' = Before(f.at) /\ Shown' = Shown
    BY <1>3, <1>4, <1>22
  <2> QED BY <2>1 DEF FileIsView
<1>24. InOrder(acts')
  BY <1>4, <1>10 DEF InOrder, less
<1>25. \A b \in acts' : base.at <= b.startedAt /\ \E o \in steps' : o.begun = b.startedAt
  <2> SUFFICES ASSUME NEW b \in acts
               PROVE  base.at <= b.startedAt /\ \E o \in steps' : o.begun = b.startedAt
    BY <1>10 DEF less
  <2>1. PICK o \in steps : o.begun = b.startedAt
    BY <1>4
  <2>2. [s EXCEPT !.until = now].begun = s.begun
    <3>1. s = [n |-> s.n, item |-> s.item, from |-> s.from, begun |-> s.begun, until |-> s.until]
      BY <1>2, StepRange DEF LifeInv
    <3> QED BY <3>1
  <2>3. o \in steps' \/ (o = s /\ [s EXCEPT !.until = now] \in steps')
    BY <1>2, <2>1 DEF Cancels
  <2> QED BY <1>4, <2>1, <2>2, <2>3
<1>26. (Later(Overlaid(Shown, acts).rows, now - Shown.at) = game)'
  <2>1. (now - Shown.at)' = d
    BY <1>1, <1>3 DEF d
  <2>2. Overlaid(base, acts').rows = q
    BY <1>10 DEF q
  <2> QED BY <1>3, <1>21, <2>1, <2>2 DEF g
<1>27. Start' = Start
  BY DEF Start
<1> QED BY <1>1, <1>3, <1>4, <1>23, <1>24, <1>25, <1>26, <1>27 DEF TruthInv

\* For a player who declares every upgrade as it begins, the newest export
\* with the declared upgrades overlaid (Apply) and the clock run on is the
\* village, whatever was uploaded (postReport) late, again or out of order.
THEOREM OverlayIsTheTruth == Spec => []OverlayIsTruth
<1>1. Init => LifeInv /\ TruthInv
  BY LifeInit, TruthInit
<1>2. LifeInv /\ TruthInv /\ [Next]_vars => (LifeInv /\ TruthInv)'
  <2> SUFFICES ASSUME LifeInv, TruthInv, [Next]_vars PROVE TruthInv'
    BY LifeNext
  <2>1. CASE UNCHANGED <<honest, game, now, files, base, acts, steps>>
    BY <2>1 DEF TruthInv, Shown, FileIsView, Before, InOrder, Start
  <2>2. ASSUME ~honest, honest' = honest PROVE TruthInv'
    BY <2>2 DEF TruthInv
  <2>3. ASSUME NEW i \in Items, NEW l \in Levels, Play(i, l) \/ DeclareFalse(i, l) PROVE TruthInv'
    BY <2>2, <2>3 DEF Play, DeclareFalse, Declare
  <2>4. ASSUME NEW a, CancelFalse(a) PROVE TruthInv'
    BY <2>2, <2>4 DEF CancelFalse, Withdraw
  <2> QED
    BY <2>1, <2>3, <2>4, TruthTick, TruthCapture, TruthUpload, TruthDeclare, TruthCancel
    DEF Next, vars
<1>3. LifeInv /\ TruthInv => OverlayIsTruth
  BY DEF TruthInv, OverlayIsTruth, Shown
<1> QED BY <1>1, <1>2, <1>3, PTL DEF Spec

-----------------------------------------------------------------------------
(***************************************************************************)
(* What two exports show of the game's steps between them.                 *)
(***************************************************************************)
Copies(r, i, l) == CopiesIn(r, i, l, Timers)

LEMMA CopiesNat ==
  ASSUME NEW r \in Rows, NEW i \in Items, NEW l \in Levels
  PROVE  Copies(r, i, l) \in Nat
<1>1. Timers \in SUBSET Timers
  OBVIOUS
<1> QED BY <1>1, CopiesIsNat DEF Copies

\* What a step can do to the game, the clock and the exports.
LEMMA Moves ==
  ASSUME LifeInv, [Next]_vars
  PROVE  /\ honest' = honest
         /\ \/ Tick
            \/ Capture
            \/ (\E i \in Items, l \in Levels : Begin(i, l)) /\ UNCHANGED <<now, files>>
            \/ (\E s \in steps : Cancels(s)) /\ UNCHANGED <<now, files>>
            \/ UNCHANGED <<game, now, steps, files>>
<1>1. ASSUME NEW a, CancelTrue(a) PROVE honest' = honest /\ (\E s \in steps : Cancels(s)) /\ UNCHANGED <<now, files>>
  BY <1>1, CancelIs DEF Withdraw
<1>2. ASSUME NEW e, Upload(e) PROVE UNCHANGED <<honest, game, now, steps, files>>
  BY <1>2 DEF Upload
<1> QED
  BY <1>1, <1>2 DEF Next, vars, Tick, Capture, Play, DeclareTrue, DeclareFalse, Declare,
     CancelFalse, Withdraw

\* A step begun moves no copy to another level unless it takes no time,
LEMMA CopiesBegin ==
  ASSUME GameInv, NEW i \in Items, NEW l \in Levels, Begin(i, l), now' = now,
         NEW j \in Items, NEW k \in Levels
  PROVE  Copies(game', j, k) =
           IF Seconds[i][l] > 0 THEN Copies(game, j, k)
           ELSE IF j = i /\ k = l THEN Copies(game, j, k) - 1
           ELSE IF j = i /\ k = l + 1 THEN Copies(game, j, k) + 1
           ELSE Copies(game, j, k)
<1>1. /\ game[<<i, l, 0>>] > 0 /\ game' = Moved(game, <<i, l, 0>>, Arrival(i, l))
      /\ l + 1 \in Levels /\ Seconds[i][l] \in Nat /\ Seconds[i][l] \in Timers
  BY BeginIs, GameBegin
<1>2. game \in Rows /\ 0 \in Timers
  BY OverlayAssumption DEF GameInv, GameType, Timers
<1>3. CASE Seconds[i][l] > 0
  <2> DEFINE d == Seconds[i][l]
  <2>1. d # 0 /\ d \in Timers /\ game' = Moved(game, <<i, l, 0>>, <<i, l, d>>)
    BY <1>1, <1>3 DEF Arrival
  <2> HIDE DEF d
  <2>2. CopiesIn(Moved(game, <<i, l, 0>>, <<i, l, d>>), j, k, Timers) = CopiesIn(game, j, k, Timers)
    BY <1>1, <1>2, <2>1, MovedWithin
  <2> QED BY <1>3, <2>1, <2>2 DEF Copies
<1>4. CASE ~(Seconds[i][l] > 0)
  <2>1. game' = Moved(game, <<i, l, 0>>, <<i, l + 1, 0>>)
    BY <1>1, <1>4 DEF Arrival
  <2> QED BY <1>1, <1>2, <1>4, <2>1, MovedUp DEF Copies
<1> QED BY <1>3, <1>4

\* nor does one that is cancelled.
LEMMA CopiesCancel ==
  ASSUME GameInv, NEW s \in steps, Cancels(s), now' = now, NEW j \in Items, NEW k \in Levels
  PROVE  Copies(game', j, k) = Copies(game, j, k)
<1> DEFINE d == s.until - now
<1>1. /\ s.item \in Items /\ s.from \in Levels /\ game \in Rows
      /\ d \in Timers /\ d # 0 /\ 0 \in Timers
      /\ game[<<s.item, s.from, d>>] > 0
      /\ game' = Moved(game, <<s.item, s.from, d>>, <<s.item, s.from, 0>>)
  <2>1. s.item \in Items /\ s.from \in Levels
    BY StepRange
  <2>2. d \in Timers \ {0} /\ game[<<s.item, s.from, d>>] > 0
    BY GameCancel
  <2>3. game \in Rows /\ 0 \in Timers
    BY OverlayAssumption DEF GameInv, GameType, Timers
  <2>4. game' = Moved(game, <<s.item, s.from, d>>, <<s.item, s.from, 0>>)
    BY DEF Cancels
  <2> QED BY <2>1, <2>2, <2>3, <2>4
<1> HIDE DEF d
<1>2. CopiesIn(Moved(game, <<s.item, s.from, d>>, <<s.item, s.from, 0>>), j, k, Timers)
        = CopiesIn(game, j, k, Timers)
  BY <1>1, MovedWithin
<1> QED BY <1>1, <1>2 DEF Copies

\* The copies of item i at level k a tick lands.
LEMMA CopiesTicked ==
  ASSUME GameInv, Tick, NEW j \in Items, NEW k \in Levels
  PROVE  /\ Copies(game', j, k) = Copies(game, j, k) - game[<<j, k, 1>>]
                                   + (IF k = 0 THEN 0 ELSE game[<<j, k - 1, 1>>])
         /\ game[<<j, k, 1>>] = Cardinality(Until(j, k, now + 1))
         /\ game[<<j, k, 1>>] \in Nat /\ IsFiniteSet(Until(j, k, now + 1))
<1>1. 1 <= MaxTimer /\ game' = Later(game, 1) /\ game \in Rows
  BY GameTick DEF Tick, GameInv, GameType
<1>2. 1 \in Timers \ {0} /\ 1 \in Timers
  BY <1>1, OverlayAssumption DEF Timers
<1>3. game[<<j, k, 1>>] = Cardinality(Until(j, k, now + 1))
  BY <1>2 DEF GameInv, Counts
<1>4. IsFiniteSet(Until(j, k, now + 1))
  <2>1. Until(j, k, now + 1) \subseteq steps
    BY DEF Until
  <2> QED BY <2>1, FS_Subset DEF GameInv, GameType
<1>5. game[<<j, k, 1>>] \in Nat
  BY <1>3, <1>4, FS_CardinalityType
<1> QED BY <1>1, <1>3, <1>4, <1>5, CopiesTick DEF Copies

-----------------------------------------------------------------------------
\* A step once seen between two moments stays seen, cancelled or not.
LEMMA SeenStays ==
  ASSUME LifeInv, [Next]_vars, NEW e \in files, NEW i, NEW t, NEW s \in Seen(i, e.at, t)
  PROVE  \E o \in Seen(i, e.at, t)' : o.from = s.from
<1>1. s \in steps /\ s.item = i /\ s.begun <= t /\ s.until >= e.at
  BY DEF Seen
<1>2. CASE s \in steps'
  BY <1>1, <1>2 DEF Seen
<1>3. CASE s \notin steps'
  <2>1. PICK c \in steps : Cancels(c) /\ now' = now
    BY <1>1, <1>3, Moves, BeginIs DEF Tick, Capture
  <2>2. c = s
    BY <1>1, <1>3, <2>1 DEF Cancels
  <2> DEFINE new == [s EXCEPT !.until = now]
  <2>3. new \in steps'
    BY <2>1, <2>2 DEF Cancels
  <2>4. new.item = s.item /\ new.from = s.from /\ new.begun = s.begun /\ new.until = now
    <3>1. s = [n |-> s.n, item |-> s.item, from |-> s.from, begun |-> s.begun, until |-> s.until]
      BY <1>1, StepRange DEF LifeInv
    <3> QED BY <3>1
  <2>5. now >= e.at
    <3>1. e.at \in Nat /\ e.at <= now /\ now \in Nat
      BY NowIsNat DEF LifeInv, FilesInv, Export
    <3> QED BY <3>1
  <2> HIDE DEF new
  <2> QED BY <1>1, <2>3, <2>4, <2>5 DEF Seen
<1> QED BY <1>2, <1>3

\* Levels of which rows r show fewer copies than export e were left by a step
\* that some moment from e's capture to t saw.
Gone(e, r, t) ==
  \A i \in Items, l \in Levels :
    Copies(r, i, l) < Copies(e.rows, i, l) => \E s \in Seen(i, e.at, t) : s.from = l

\* A copy with time on it has its step.
LEMMA RunningNow ==
  ASSUME GameInv, NEW i \in Items, NEW l \in Levels, NEW t \in Timers \ {0}, game[<<i, l, t>>] > 0
  PROVE  \E s \in Seen(i, now, now) : s.from = l /\ s.until = now + t
<1>1. Cardinality(Until(i, l, now + t)) > 0
  BY DEF GameInv, Counts
<1>2. PICK s \in steps : s.item = i /\ s.from = l /\ s.until = now + t
  <2>1. Until(i, l, now + t) # {}
    BY <1>1, FS_EmptySet
  <2> QED BY <2>1 DEF Until
<1>3. s.begun <= now /\ now \in Nat /\ t \in Nat
  BY StepRange, OverlayAssumption DEF GameInv, Times, Timers
<1>4. s.until >= now
  BY <1>2, <1>3
<1> QED BY <1>2, <1>3, <1>4 DEF Seen

\* What an export shows running was running when it was captured.
RunningThen(e) ==
  \A i \in Items, l \in Levels, t \in Timers \ {0} :
    e.rows[<<i, l, t>>] > 0 => \E s \in Seen(i, e.at, e.at) : s.from = l

TracesInv ==
  \A e \in files :
    /\ RunningThen(e) /\ Gone(e, game, now)
    /\ \A f \in files : e.at < f.at => Gone(e, f.rows, f.at)

LEMMA TracesInit ==
  ASSUME Init PROVE TracesInv
<1>1. GameInv /\ files = {Start} /\ now = 0 /\ game = Built /\ Built \in Rows
  <2>1. files = {Start} /\ now = 0 /\ game = Built
    BY Zenon DEF Init, Start
  <2> QED BY <2>1, GameInit, BuiltIs
<1>2. Start.at = 0 /\ Start.rows = Built
  BY DEF Start
<1>3. RunningThen(Start)
  <2> SUFFICES ASSUME NEW i \in Items, NEW l \in Levels, NEW t \in Timers \ {0}, game[<<i, l, t>>] > 0
               PROVE  \E s \in Seen(i, 0, 0) : s.from = l
    BY <1>1, <1>2 DEF RunningThen
  <2>1. \E s \in Seen(i, now, now) : s.from = l
    BY <1>1, RunningNow
  <2> QED BY <1>1, <2>1
<1>4. \A i \in Items, l \in Levels : ~(Copies(Built, i, l) < Copies(Built, i, l))
  BY <1>1, CopiesNat
<1> QED BY <1>1, <1>2, <1>3, <1>4 DEF TracesInv, Gone

\* Every move of the game leaves the levels it takes copies from a trace.
LEMMA GoneNow ==
  ASSUME LifeInv, [Next]_vars, NEW e \in files, Gone(e, game, now)
  PROVE  Gone(e, game, now)'
<1> SUFFICES ASSUME NEW i \in Items, NEW l \in Levels, Copies(game', i, l) < Copies(e.rows, i, l)
             PROVE  \E s \in Seen(i, e.at, now)' : s.from = l
  BY DEF Gone
<1>0. /\ e.at \in Nat /\ e.at <= now /\ e.rows \in Rows /\ now \in Nat /\ game \in Rows /\ GameInv
      /\ Copies(e.rows, i, l) \in Nat /\ Copies(game, i, l) \in Nat
  <2>1. e.at \in Nat /\ e.at <= now /\ e.rows \in Rows /\ now \in Nat /\ game \in Rows /\ GameInv
    BY NowIsNat DEF LifeInv, FilesInv, Export
  <2> QED BY <2>1, CopiesNat
<1>1. ASSUME Copies(game, i, l) < Copies(e.rows, i, l), now' \in Nat, now' >= now
      PROVE  \E s \in Seen(i, e.at, now)' : s.from = l
  <2>1. PICK s \in Seen(i, e.at, now) : s.from = l
    BY <1>1 DEF Gone
  <2>2. PICK o \in Seen(i, e.at, now)' : o.from = l
    <3> DEFINE t == now
    <3>1. PICK o \in steps' : o.from = l /\ o.item = i /\ o.begun <= now /\ o.until >= e.at
      BY <2>1, SeenStays DEF Seen
    <3>2. o.begun \in Nat
      BY GameNext, StepRange, <1>0 DEF GameInv, GameType, GameStep
    <3>3. o.begun <= now'
      BY <1>0, <1>1, <3>1, <3>2
    <3> QED BY <3>1, <3>3 DEF Seen
  <2> QED BY <2>2
<1>2. CASE Tick
  <2>1. now' = now + 1 /\ steps' = steps
    BY <1>2 DEF Tick
  <2>2. CASE Copies(game, i, l) < Copies(e.rows, i, l)
    BY <1>0, <1>1, <2>1, <2>2
  <2>3. CASE ~(Copies(game, i, l) < Copies(e.rows, i, l))
    <3> DEFINE up == IF l = 0 THEN 0 ELSE game[<<i, l - 1, 1>>]
    <3>1. Copies(game', i, l) = Copies(game, i, l) - game[<<i, l, 1>>] + up /\ game[<<i, l, 1>>] \in Nat
      BY <1>0, <1>2, CopiesTicked
    <3>2. up \in Nat
      <4>1. l # 0 => l - 1 \in Levels
        BY OverlayAssumption DEF Levels
      <4> QED BY <1>0, <1>2, <4>1, CopiesTicked
    <3> HIDE DEF up
    <3>3. game[<<i, l, 1>>] > 0
      BY <1>0, <2>3, <3>1, <3>2
    <3>4. 1 \in Timers \ {0}
      BY <1>0, <1>2, GameTick, OverlayAssumption DEF Timers
    <3>5. PICK s \in Seen(i, now, now) : s.from = l /\ s.until = now + 1
      BY <1>0, <3>3, <3>4, RunningNow
    <3>6. s \in steps /\ s.item = i /\ s.begun <= now
      BY <3>5 DEF Seen
    <3>7. s.begun \in Nat
      BY <1>0, <3>6, StepRange
    <3>8. s.begun <= now' /\ s.until >= e.at
      BY <1>0, <2>1, <3>5, <3>6, <3>7
    <3> QED BY <2>1, <3>5, <3>6, <3>8 DEF Seen
  <2> QED BY <2>2, <2>3
<1>3. ASSUME NEW j \in Items, NEW m \in Levels, Begin(j, m), now' = now
      PROVE  \E s \in Seen(i, e.at, now)' : s.from = l
  <2>1. CASE Copies(game, i, l) < Copies(e.rows, i, l)
    BY <1>0, <1>1, <1>3, <2>1
  <2>2. CASE ~(Copies(game, i, l) < Copies(e.rows, i, l))
    <3>1. i = j /\ l = m /\ ~(Seconds[j][m] > 0)
      BY <1>0, <1>3, <2>2, CopiesBegin
    <3>2. Begun(j, m) \in steps' /\ Seconds[j][m] \in Nat
      BY <1>0, <1>3, BeginIs, GameBegin
    <3>3. /\ Begun(j, m).item = i /\ Begun(j, m).from = l /\ Begun(j, m).begun = now
          /\ Begun(j, m).until = now + Seconds[j][m]
      BY <3>1 DEF Begun
    <3>4. Begun(j, m).begun <= now' /\ Begun(j, m).until >= e.at
      BY <1>0, <1>3, <3>2, <3>3
    <3> QED BY <3>2, <3>3, <3>4 DEF Seen
  <2> QED BY <2>1, <2>2
<1>4. ASSUME NEW s \in steps, Cancels(s), now' = now
      PROVE  \E o \in Seen(i, e.at, now)' : o.from = l
  <2>1. Copies(game', i, l) = Copies(game, i, l)
    BY <1>0, <1>4, CopiesCancel
  <2> QED BY <1>0, <1>1, <1>4, <2>1
<1>5. CASE UNCHANGED <<game, now, steps>>
  BY <1>0, <1>1, <1>5
<1> QED BY <1>2, <1>3, <1>4, <1>5, Moves DEF Capture

LEMMA TracesNext ==
  ASSUME LifeInv, TracesInv, [Next]_vars
  PROVE  TracesInv'
<1>1. ASSUME NEW e \in files, NEW r, NEW t, Gone(e, r, t) PROVE Gone(e, r, t)'
  BY <1>1, SeenStays DEF Gone
<1>2. ASSUME NEW e \in files PROVE RunningThen(e)' /\ Gone(e, game, now)'
  <2>1. RunningThen(e)'
    <3> SUFFICES ASSUME NEW i \in Items, NEW l \in Levels, NEW t \in Timers \ {0},
                        e.rows[<<i, l, t>>] > 0
                 PROVE  \E s \in Seen(i, e.at, e.at)' : s.from = l
      BY DEF RunningThen
    <3>1. PICK s \in Seen(i, e.at, e.at) : s.from = l
      BY <1>2 DEF TracesInv, RunningThen
    <3> QED BY <1>2, <3>1, SeenStays
  <2> QED BY <1>2, <2>1, GoneNow DEF TracesInv
<1>3. ASSUME NEW e \in files, NEW f \in files, e.at < f.at PROVE Gone(e, f.rows, f.at)'
  BY <1>1, <1>3 DEF TracesInv
<1>4. CASE files' = files
  BY <1>2, <1>3, <1>4 DEF TracesInv
<1>5. CASE Capture
  <2>1. PICK new : /\ new = [at |-> now, rows |-> game] /\ files' = files \cup {new}
                   /\ game' = game /\ now' = now /\ steps' = steps
    BY <1>5 DEF Capture
  <2>2. new.at = now /\ new.rows = game /\ now \in Nat /\ game \in Rows /\ GameInv
    BY <2>1, NowIsNat DEF LifeInv
  <2>3. \A f \in files : f.at \in Nat /\ f.at <= now
    BY DEF LifeInv, FilesInv, Export
  <2>4. \A i, x, y : Seen(i, x, y)' = Seen(i, x, y)
    BY <2>1 DEF Seen
  <2>5. RunningThen(new)'
    <3> SUFFICES ASSUME NEW i \in Items, NEW l \in Levels, NEW t \in Timers \ {0},
                        new.rows[<<i, l, t>>] > 0
                 PROVE  \E s \in Seen(i, new.at, new.at)' : s.from = l
      BY DEF RunningThen
    <3>1. \E s \in Seen(i, now, now) : s.from = l
      BY <2>2, RunningNow
    <3> QED BY <2>2, <2>4, <3>1
  <2>6. Gone(new, game, now)'
    <3>1. \A i \in Items, l \in Levels : ~(Copies(game, i, l) < Copies(game, i, l))
      BY <2>2, CopiesNat
    <3> QED BY <2>1, <2>2, <3>1 DEF Gone
  <2>7. ASSUME NEW e \in files PROVE Gone(e, new.rows, new.at)'
    <3> SUFFICES ASSUME NEW i \in Items, NEW l \in Levels,
                        Copies(new.rows, i, l) < Copies(e.rows, i, l)
                 PROVE  \E s \in Seen(i, e.at, new.at)' : s.from = l
      BY DEF Gone
    <3>1. \E s \in Seen(i, e.at, now) : s.from = l
      BY <2>2 DEF TracesInv, Gone
    <3> QED BY <2>2, <2>4, <3>1
  <2>8. \A f \in files' : ~(new.at < f.at)
    BY <2>1, <2>2, <2>3
  <2>9. ASSUME NEW e \in files'
        PROVE  /\ RunningThen(e)' /\ Gone(e, game, now)'
               /\ \A f \in files' : e.at < f.at => Gone(e, f.rows, f.at)'
    <3>1. CASE e = new
      BY <2>5, <2>6, <2>8, <3>1
    <3>2. CASE e \in files
      BY <1>2, <1>3, <2>1, <2>7, <3>2
    <3> QED BY <2>1, <3>1, <3>2
  <2> QED BY <2>9 DEF TracesInv
<1> QED BY <1>4, <1>5, Moves DEF Tick

-----------------------------------------------------------------------------
\* Every declared upgrade was the catalog's, at the newest export or after it.
GatesInv ==
  \A a \in acts :
    /\ base # None /\ base.at <= a.startedAt
    /\ a.item \in Known \cap Arrayed /\ a.from < Reach[a.item]

LEMMA GatesNext ==
  ASSUME LifeInv, GatesInv, [Next]_vars
  PROVE  GatesInv'
<1>1. CASE UNCHANGED <<base, acts>>
  BY <1>1 DEF GatesInv
<1>2. ASSUME NEW i \in Items, NEW l \in Levels, Declare(i, l) PROVE GatesInv'
  <2>1. /\ base # None /\ base \in files /\ i \in Known /\ i \in Arrayed /\ l < Reach[i]
        /\ acts' = acts \cup {Declared(i, l)} /\ base' = base
    BY <1>2, DeclareIs
  <2>2. base.at <= now
    BY <2>1 DEF LifeInv, FilesInv
  <2>3. Declared(i, l).item = i /\ Declared(i, l).from = l /\ Declared(i, l).startedAt = now
    BY DEF Declared
  <2> QED BY <2>1, <2>2, <2>3 DEF GatesInv
<1>3. ASSUME NEW a, Withdraw(a) PROVE GatesInv'
  <2>1. acts' \subseteq acts /\ base' = base
    BY <1>3, WithdrawIs
  <2> QED BY <2>1 DEF GatesInv
<1>4. ASSUME NEW e, Upload(e) PROVE GatesInv'
  <2>1. /\ base' = Best(e) /\ base' # None /\ acts' \subseteq Left(e) /\ Left(e) \subseteq acts /\ e \in files
    BY <1>4, UploadIs
  <2>2. ASSUME NEW a \in acts' PROVE base'.at <= a.startedAt
    <3>1. a \in acts /\ a \in Left(e) /\ base # None /\ base.at <= a.startedAt
      BY <2>1, <2>2 DEF GatesInv
    <3>2. e.at \in Nat /\ a.startedAt \in Nat
      BY <2>1, <3>1 DEF LifeInv, FilesInv, ActsInv, Listed, Export, Action
    <3>3. ~(e.at > a.startedAt)
      BY <3>1 DEF Left, Retired
    <3> QED BY <2>1, <3>1, <3>2, <3>3 DEF Best
  <2> QED BY <2>1, <2>2 DEF GatesInv
<1> QED BY <1>1, <1>2, <1>3, <1>4
  DEF Next, vars, Tick, Capture, Play, DeclareTrue, DeclareFalse, CancelTrue, CancelFalse

LEMMA GatesInvariant == Spec => []GatesInv
<1>1. ASSUME Init PROVE GatesInv
  <2>1. base = None /\ acts = {}
    BY <1>1, Zenon DEF Init
  <2> QED BY <2>1 DEF GatesInv
<1> QED BY <1>1, GatesNext, LifeInvariant, PTL DEF Spec

LEMMA TracesInvariant == Spec => []TracesInv
BY TracesInit, TracesNext, LifeInvariant, PTL DEF Spec

\* A level at which an export shows a copy running has a step seen then.
LEMMA RunningTrace ==
  ASSUME LifeInv, TracesInv, NEW e \in files, NEW i \in Items, NEW l \in Levels,
         RunningAt(e.rows, i, l) > 0
  PROVE  \E s \in Seen(i, e.at, e.at) : s.from = l
<1>1. e.rows \in Rows /\ Timers \ {0} \in SUBSET Timers
  BY DEF LifeInv, FilesInv, Export
<1> DEFINE T == Timers \ {0}
<1>2. CopiesIn(e.rows, i, l, T) > 0
  BY CopiesAtIs
<1> HIDE DEF T
<1>3. T \in SUBSET Timers
  BY DEF T
<1>4. PICK t \in T : e.rows[<<i, l, t>>] > 0
  BY <1>1, <1>2, <1>3, CopiesPositive
<1> QED BY <1>4 DEF TracesInv, RunningThen, T

\* Whoever plays, Reconcile confirms a declared upgrade only if a step of that
\* item from that level was begun, running or landed between the two exports.
THEOREM WhatIsConfirmedHappened == Spec => ConfirmedHappened
<1>1. ASSUME LifeInv, TracesInv, GatesInv, NEW e \in files, base # None, NEW a \in Confirmed(e)
      PROVE  \E s \in Seen(a.item, base.at, e.at) : s.from = a.from
  <2>1. /\ a \in acts /\ e.at > a.startedAt
        /\ ConfirmedByChange(a, base, e) \/ ConfirmedStillRunning(a, e)
    BY <1>1 DEF Confirmed, Mismatched, Retired
  <2>2. /\ base \in files /\ base.at \in Nat /\ e.at \in Nat /\ base.rows \in Rows /\ e.rows \in Rows
        /\ a.item \in Items /\ a.from \in Levels /\ a.startedAt \in Nat /\ base.at <= a.startedAt
    BY <1>1, <2>1 DEF LifeInv, FilesInv, ActsInv, GatesInv, Listed, Export, Action
  <2>3. base.at < e.at
    BY <2>1, <2>2
  <2>4. ASSUME RunningAt(e.rows, a.item, a.from) > 0
        PROVE  \E s \in Seen(a.item, base.at, e.at) : s.from = a.from
    <3>1. PICK s \in Seen(a.item, e.at, e.at) : s.from = a.from
      BY <1>1, <2>2, <2>4, RunningTrace
    <3>2. s \in steps /\ s.item = a.item /\ s.begun <= e.at /\ s.until >= e.at /\ s.until \in Nat
      BY <1>1, <3>1, StepRange DEF Seen, LifeInv
    <3>3. s.until >= base.at
      BY <2>2, <2>3, <3>2
    <3> QED BY <3>1, <3>2, <3>3 DEF Seen
  <2>5. CASE LandedChange(base, e, a.item, a.from)
    <3>1. Copies(e.rows, a.item, a.from) < Copies(base.rows, a.item, a.from)
      BY <2>5, CopiesAtIs DEF LandedChange, Copies
    <3> QED BY <1>1, <2>2, <2>3, <3>1 DEF TracesInv, Gone
  <2>6. CASE StartedChange(base, e, a.item, a.from)
    <3> DEFINE T == Timers \ {0}
    <3>1. CopiesIn(e.rows, a.item, a.from, T) > CopiesIn(base.rows, a.item, a.from, T)
      BY <2>6, CopiesAtIs DEF StartedChange
    <3>2. T \in SUBSET Timers
      OBVIOUS
    <3> HIDE DEF T
    <3>3. CopiesIn(base.rows, a.item, a.from, T) \in Nat /\ CopiesIn(e.rows, a.item, a.from, T) \in Nat
      BY <2>2, <3>2, CopiesIsNat
    <3>4. CopiesIn(e.rows, a.item, a.from, T) > 0
      BY <3>1, <3>3
    <3> QED BY <2>4, <3>4, CopiesAtIs DEF T
  <2> QED BY <2>1, <2>4, <2>5, <2>6 DEF ConfirmedByChange, ConfirmedStillRunning
<1>2. LifeInv /\ TracesInv /\ GatesInv /\ [Next]_vars =>
        [\A e \in files : base # None /\ Upload(e) =>
           \A a \in Confirmed(e) :
             \E s \in Seen(a.item, base.at, e.at) : s.from = a.from]_vars
  BY <1>1
<1> QED BY <1>2, LifeInvariant, TracesInvariant, GatesInvariant, PTL DEF Spec, ConfirmedHappened

-----------------------------------------------------------------------------
(***************************************************************************)
(* What two exports show of a step that nothing else blurs.                *)
(***************************************************************************)
\* Never cancelled, and begun after export e was captured.
Whole(s) == s.until = s.begun + Seconds[s.item][s.from]
Fresh(s, e) == s.begun > e.at \/ (honest /\ s.begun = e.at)

Kept(r, q, i) == \A k \in Levels : Copies(q, i, k) = Copies(r, i, k)

Shift(r, q, i, l) ==
  \A k \in Levels : Copies(q, i, k) = Copies(r, i, k) - (IF k = l THEN 1 ELSE 0)
                                                      + (IF k = l + 1 THEN 1 ELSE 0)

Since(i, e) == {s \in steps : s.item = i /\ s.until >= e.at}

\* The village against an export: alike as long as no step of the item or
\* only a running one was seen, one copy a level up once that has landed.
Marks(e) ==
  \A i \in Items :
    /\ Since(i, e) = {} => Kept(e.rows, game, i)
    /\ \A s \in steps : Since(i, e) = {s} =>
         IF s.until > now THEN Kept(e.rows, game, i)
         ELSE Whole(s) /\ Fresh(s, e) => Shift(e.rows, game, i, s.from)

\* Two exports: one copy a level up if the only step seen landed in between.
Pairs(e, f) ==
  \A i \in Items, s \in steps :
    /\ Seen(i, e.at, f.at) = {s} /\ s.begun < f.at /\ s.until <= f.at
    /\ Whole(s) /\ Fresh(s, e)
    => Shift(e.rows, f.rows, i, s.from)

\* An export captured while a step ran, one not cancelled since, shows it.
Shows(e) ==
  \A s \in steps :
    Whole(s) /\ s.begun < e.at /\ e.at < s.until => e.rows[<<s.item, s.from, s.until - e.at>>] > 0

MarksInv ==
  \A e \in files :
    /\ Marks(e) /\ Shows(e)
    /\ \A f \in files : e.at < f.at => Pairs(e, f)

LEMMA KeptThen ==
  ASSUME NEW r, NEW q, NEW p, NEW i, Kept(q, p, i)
  PROVE  /\ Kept(r, q, i) => Kept(r, p, i)
         /\ \A l : Shift(r, q, i, l) => Shift(r, p, i, l)
         /\ \A l : Kept(r, q, i) /\ Shift(q, p, i, l) => Shift(r, p, i, l)
BY DEF Kept, Shift

LEMMA ShiftThen ==
  ASSUME NEW r, NEW q, NEW p, NEW i, NEW l, Kept(r, q, i), Shift(q, p, i, l)
  PROVE  Shift(r, p, i, l)
BY DEF Kept, Shift

\* A tick that lands nothing of an item leaves its levels alone,
LEMMA TickQuiet ==
  ASSUME GameInv, Tick, NEW i \in Items, \A k \in Levels : Until(i, k, now + 1) = {}
  PROVE  Kept(game, game', i)
<1> SUFFICES ASSUME NEW k \in Levels PROVE Copies(game', i, k) = Copies(game, i, k)
  BY DEF Kept
<1>0. GameInv /\ Tick /\ game \in Rows /\ Copies(game, i, k) \in Nat
  BY CopiesNat DEF GameInv, GameType
<1>1. \A m \in Levels : game[<<i, m, 1>>] = 0
  BY <1>0, CopiesTicked, FS_EmptySet
<1>2. k # 0 => k - 1 \in Levels
  BY OverlayAssumption DEF Levels
<1>3. Copies(game', i, k) = Copies(game, i, k) - game[<<i, k, 1>>]
                                   + (IF k = 0 THEN 0 ELSE game[<<i, k - 1, 1>>])
  BY <1>0, CopiesTicked
<1> QED BY <1>0, <1>1, <1>2, <1>3

\* and one that lands a single step takes one copy up.
LEMMA TickOne ==
  ASSUME GameInv, Tick, NEW i \in Items, NEW l \in Levels, NEW s,
         \A k \in Levels : Until(i, k, now + 1) = IF k = l THEN {s} ELSE {}
  PROVE  Shift(game, game', i, l)
<1> SUFFICES ASSUME NEW k \in Levels
             PROVE  Copies(game', i, k) = Copies(game, i, k) - (IF k = l THEN 1 ELSE 0)
                                                             + (IF k = l + 1 THEN 1 ELSE 0)
  BY DEF Shift
<1>0. GameInv /\ Tick /\ game \in Rows /\ Copies(game, i, k) \in Nat
  BY CopiesNat DEF GameInv, GameType
<1>1. \A m \in Levels : game[<<i, m, 1>>] = IF m = l THEN 1 ELSE 0
  <2> SUFFICES ASSUME NEW m \in Levels PROVE game[<<i, m, 1>>] = IF m = l THEN 1 ELSE 0
    OBVIOUS
  <2>1. game[<<i, m, 1>>] = Cardinality(Until(i, m, now + 1))
    BY <1>0, CopiesTicked
  <2>2. Cardinality({s}) = 1 /\ Cardinality({}) = 0
    BY FS_EmptySet, FS_Singleton
  <2> QED BY <2>1, <2>2
<1>2. (k # 0 => k - 1 \in Levels) /\ k \in Nat /\ l \in Nat /\ (k = 0 => k # l + 1)
      /\ (k # 0 => (k - 1 = l <=> k = l + 1))
  BY OverlayAssumption DEF Levels
<1>3. Copies(game', i, k) = Copies(game, i, k) - game[<<i, k, 1>>]
                                   + (IF k = 0 THEN 0 ELSE game[<<i, k - 1, 1>>])
  BY <1>0, CopiesTicked
<1>4. (IF k = 0 THEN 0 ELSE game[<<i, k - 1, 1>>]) = IF k = l + 1 THEN 1 ELSE 0
  BY <1>1, <1>2
<1>5. game[<<i, k, 1>>] = IF k = l THEN 1 ELSE 0
  BY <1>1
<1> QED BY <1>3, <1>4, <1>5

\* A cancelled step is not whole any more.
LEMMA NotWhole ==
  ASSUME GameInv, NEW c \in steps, Cancels(c)
  PROVE  LET new == [c EXCEPT !.until = now]
         IN  /\ ~Whole(new) /\ new.item = c.item /\ new.from = c.from
             /\ new.begun = c.begun /\ new.until = now
<1> DEFINE new == [c EXCEPT !.until = now]
<1>1. /\ c.begun \in Nat /\ c.until \in Nat /\ now \in Nat /\ Seconds[c.item][c.from] \in Nat
      /\ c = [n |-> c.n, item |-> c.item, from |-> c.from, begun |-> c.begun, until |-> c.until]
  BY StepRange
<1>2. c.until > now /\ c.until <= c.begun + Seconds[c.item][c.from]
  BY DEF Cancels, GameInv, Times
<1>3. new.item = c.item /\ new.from = c.from /\ new.begun = c.begun /\ new.until = now
  BY <1>1
<1> HIDE DEF new
<1>4. ~Whole(new)
  BY <1>1, <1>2, <1>3 DEF Whole
<1> QED BY <1>3, <1>4 DEF new

-----------------------------------------------------------------------------
\* A tick, a beginning and a cancellation keep the village in line with every export.
LEMMA MarksTick ==
  ASSUME LifeInv, NEW e \in files, Marks(e), Tick
  PROVE  Marks(e)'
<1>0. /\ now' = now + 1 /\ steps' = steps /\ honest' = honest /\ GameInv /\ now \in Nat
      /\ e.at \in Nat /\ e.at <= now
  BY NowIsNat DEF Tick, LifeInv, FilesInv, Export
<1> SUFFICES ASSUME NEW i \in Items
             PROVE  /\ Since(i, e) = {} => Kept(e.rows, game', i)
                    /\ \A s \in steps : Since(i, e) = {s} =>
                         IF s.until > now + 1 THEN Kept(e.rows, game', i)
                         ELSE Whole(s) /\ Fresh(s, e) => Shift(e.rows, game', i, s.from)
  BY <1>0 DEF Marks, Since, Fresh, Whole
<1>1. \A k \in Levels : Until(i, k, now + 1) = {s \in Since(i, e) : s.from = k /\ s.until = now + 1}
  BY <1>0 DEF Until, Since
<1>2. ASSUME \A s \in Since(i, e) : s.until # now + 1
      PROVE  Kept(game, game', i)
  <2>1. \A k \in Levels : Until(i, k, now + 1) = {}
    BY <1>1, <1>2
  <2> QED BY <1>0, <2>1, TickQuiet
<1>3. ASSUME Since(i, e) = {} PROVE Kept(e.rows, game', i)
  <2>1. Kept(game, game', i) /\ Kept(e.rows, game, i)
    BY <1>2, <1>3 DEF Marks
  <2> QED BY <2>1, KeptThen
<1>4. ASSUME NEW s \in steps, Since(i, e) = {s}
      PROVE  IF s.until > now + 1 THEN Kept(e.rows, game', i)
             ELSE Whole(s) /\ Fresh(s, e) => Shift(e.rows, game', i, s.from)
  <2>1. s.until \in Nat /\ s.from \in Levels
    BY <1>0, StepRange
  <2>2. CASE s.until > now + 1
    <3>1. s.until > now /\ s.until # now + 1
      BY <1>0, <2>1, <2>2
    <3>2. Kept(game, game', i) /\ Kept(e.rows, game, i)
      BY <1>2, <1>4, <3>1 DEF Marks
    <3> QED BY <2>2, <3>2, KeptThen
  <2>3. CASE s.until = now + 1
    <3>1. s.until > now /\ ~(s.until > now + 1)
      BY <1>0, <2>3
    <3>2. Kept(e.rows, game, i)
      BY <1>4, <3>1 DEF Marks
    <3>3. \A k \in Levels : Until(i, k, now + 1) = IF k = s.from THEN {s} ELSE {}
      BY <1>1, <1>4, <2>3
    <3>4. Shift(game, game', i, s.from)
      BY <1>0, <2>1, <3>3, TickOne
    <3> QED BY <3>1, <3>2, <3>4, ShiftThen
  <2>4. CASE s.until <= now
    <3>1. ~(s.until > now) /\ ~(s.until > now + 1) /\ s.until # now + 1
      BY <1>0, <2>1, <2>4
    <3>2. Kept(game, game', i)
      BY <1>2, <1>4, <3>1
    <3>3. Whole(s) /\ Fresh(s, e) => Shift(e.rows, game, i, s.from)
      BY <1>4, <3>1 DEF Marks
    <3> QED BY <3>1, <3>2, <3>3, KeptThen
  <2> QED BY <1>0, <2>1, <2>2, <2>3, <2>4
<1> QED BY <1>3, <1>4

LEMMA MarksBegin ==
  ASSUME LifeInv, NEW e \in files, Marks(e), NEW j \in Items, NEW m \in Levels, Begin(j, m),
         now' = now, honest' = honest
  PROVE  Marks(e)'
<1> DEFINE new == Begun(j, m)
<1>0. /\ GameInv /\ now \in Nat /\ e.at \in Nat /\ e.at <= now
      /\ steps' = steps \cup {new} /\ new \notin steps
      /\ new.item = j /\ new.from = m /\ new.begun = now /\ new.until = now + Seconds[j][m]
      /\ Seconds[j][m] \in Nat /\ new.until >= e.at
  <2>1. GameInv /\ now \in Nat /\ e.at \in Nat /\ e.at <= now
    BY NowIsNat DEF LifeInv, FilesInv, Export
  <2>2. steps' = steps \cup {new} /\ new \notin steps /\ Seconds[j][m] \in Nat
    BY <2>1, BeginIs, GameBegin
  <2>3. new.item = j /\ new.from = m /\ new.begun = now /\ new.until = now + Seconds[j][m]
    BY DEF Begun
  <2> HIDE DEF new
  <2>4. new.until >= e.at
    BY <2>1, <2>2, <2>3
  <2> QED BY <2>1, <2>2, <2>3, <2>4
<1> HIDE DEF new
<1> SUFFICES ASSUME NEW i \in Items
             PROVE  /\ Since(i, e)' = {} => Kept(e.rows, game', i)
                    /\ \A s \in steps' : Since(i, e)' = {s} =>
                         IF s.until > now THEN Kept(e.rows, game', i)
                         ELSE Whole(s) /\ Fresh(s, e) => Shift(e.rows, game', i, s.from)
  BY DEF Marks, Whole, Fresh
<1>1. CASE i # j
  <2>1. Since(i, e)' = Since(i, e)
    BY <1>0, <1>1 DEF Since
  <2>2. Kept(game, game', i)
    <3> SUFFICES ASSUME NEW k \in Levels PROVE Copies(game', i, k) = Copies(game, i, k)
      BY DEF Kept
    <3> QED BY <1>0, <1>1, CopiesBegin
  <2>3. \A s : Since(i, e) = {s} => s \in steps
    BY DEF Since
  <2> QED BY <2>1, <2>2, <2>3, KeptThen DEF Marks
<1>2. CASE i = j
  <2>1. Since(i, e)' = Since(i, e) \cup {new}
    BY <1>0, <1>2 DEF Since
  <2>2. ASSUME NEW s \in steps', Since(i, e)' = {s} PROVE s = new /\ Kept(e.rows, game, i)
    <3>1. s = new /\ Since(i, e) \subseteq {new}
      BY <2>1, <2>2
    <3>2. Since(i, e) = {}
      BY <1>0, <3>1 DEF Since
    <3> QED BY <3>1, <3>2 DEF Marks
  <2>3. CASE Seconds[j][m] > 0
    <3>1. new.until > now
      BY <1>0, <2>3
    <3>2. Kept(game, game', i)
      <4> SUFFICES ASSUME NEW k \in Levels PROVE Copies(game', i, k) = Copies(game, i, k)
        BY DEF Kept
      <4> QED BY <1>0, <2>3, CopiesBegin
    <3> QED BY <2>1, <2>2, <3>1, <3>2, KeptThen
  <2>4. CASE ~(Seconds[j][m] > 0)
    <3>1. ~(new.until > now)
      BY <1>0, <2>4
    <3>2. Shift(game, game', i, m)
      <4> SUFFICES ASSUME NEW k \in Levels
                   PROVE  Copies(game', i, k) = Copies(game, i, k) - (IF k = m THEN 1 ELSE 0)
                                                                   + (IF k = m + 1 THEN 1 ELSE 0)
        BY DEF Shift
      <4>1. Copies(game', i, k) = IF k = m THEN Copies(game, i, k) - 1
                                  ELSE IF k = m + 1 THEN Copies(game, i, k) + 1
                                  ELSE Copies(game, i, k)
        BY <1>0, <1>2, <2>4, CopiesBegin
      <4>2. Copies(game, i, k) \in Nat
        BY <1>0, CopiesNat DEF GameInv, GameType
      <4>3. k \in Nat /\ m \in Nat /\ m # m + 1
        BY OverlayAssumption DEF Levels
      <4> QED BY <4>1, <4>2, <4>3
    <3> QED BY <1>0, <2>1, <2>2, <3>1, <3>2, ShiftThen
  <2> QED BY <2>3, <2>4
<1> QED BY <1>1, <1>2

LEMMA MarksCancel ==
  ASSUME LifeInv, NEW e \in files, Marks(e), NEW c \in steps, Cancels(c),
         now' = now, honest' = honest
  PROVE  Marks(e)'
<1>1. PICK new : /\ new = [c EXCEPT !.until = now] /\ steps' = (steps \ {c}) \cup {new}
  BY DEF Cancels
<1>2. /\ ~Whole(new) /\ new.item = c.item /\ new.from = c.from
      /\ new.begun = c.begun /\ new.until = now
  BY <1>1, NotWhole DEF LifeInv
<1>3. now \in Nat /\ e.at \in Nat /\ e.at <= now /\ now >= e.at /\ ~(now > now)
  <2>1. now \in Nat /\ e.at \in Nat /\ e.at <= now
    BY NowIsNat DEF LifeInv, FilesInv, Export
  <2> QED BY <2>1
<1> SUFFICES ASSUME NEW i \in Items
             PROVE  /\ Since(i, e)' = {} => Kept(e.rows, game', i)
                    /\ \A s \in steps' : Since(i, e)' = {s} =>
                         IF s.until > now THEN Kept(e.rows, game', i)
                         ELSE Whole(s) /\ Fresh(s, e) => Shift(e.rows, game', i, s.from)
  BY DEF Marks, Whole, Fresh
<1>4. CASE c.item = i
  <2>1. new \in Since(i, e)'
    BY <1>1, <1>2, <1>3, <1>4 DEF Since
  <2> QED BY <1>2, <1>3, <2>1
<1>5. CASE c.item # i
  <2>1. Since(i, e)' = Since(i, e)
    BY <1>1, <1>2, <1>5 DEF Since
  <2>2. Kept(game, game', i)
    BY CopiesCancel DEF LifeInv, Kept
  <2>3. \A s : Since(i, e) = {s} => s \in steps
    BY DEF Since
  <2> QED BY <2>1, <2>2, <2>3, KeptThen DEF Marks
<1> QED BY <1>4, <1>5

-----------------------------------------------------------------------------
\* What two exports captured before say of a step stays said: a step begun or
\* cancelled later is not whole within them, or not between them.
LEMMA PairsStay ==
  ASSUME LifeInv, [Next]_vars, NEW e \in files, NEW f \in files, e.at < f.at, Pairs(e, f)
  PROVE  Pairs(e, f)'
<1>0. /\ GameInv /\ now \in Nat /\ e.at \in Nat /\ e.at <= now /\ f.at \in Nat /\ f.at <= now
      /\ honest' = honest
  BY NowIsNat, Moves DEF LifeInv, FilesInv, Export
<1> SUFFICES ASSUME NEW i \in Items, NEW s \in steps', Seen(i, e.at, f.at)' = {s},
                    s.begun < f.at, s.until <= f.at, Whole(s), Fresh(s, e)
             PROVE  Shift(e.rows, f.rows, i, s.from)
  BY <1>0 DEF Pairs, Whole, Fresh
<1>1. s \in Seen(i, e.at, f.at)'
  OBVIOUS
<1>2. ASSUME s \in steps, Seen(i, e.at, f.at) \subseteq {s}
      PROVE  Shift(e.rows, f.rows, i, s.from)
  <2>1. s \in Seen(i, e.at, f.at)
    BY <1>1, <1>2 DEF Seen
  <2>2. Seen(i, e.at, f.at) = {s}
    BY <1>2, <2>1
  <2> QED BY <1>2, <2>2 DEF Pairs
<1>3. CASE steps' = steps
  <2>1. Seen(i, e.at, f.at) = Seen(i, e.at, f.at)'
    BY <1>3 DEF Seen
  <2> QED BY <1>2, <1>3, <2>1
<1>4. ASSUME NEW j \in Items, NEW m \in Levels, Begin(j, m), now' = now
      PROVE  Shift(e.rows, f.rows, i, s.from)
  <2>1. steps' = steps \cup {Begun(j, m)} /\ Begun(j, m).begun = now
    BY <1>4, BeginIs DEF Begun
  <2>2. s # Begun(j, m)
    BY <1>0, <2>1
  <2>3. Seen(i, e.at, f.at) \subseteq Seen(i, e.at, f.at)'
    BY <2>1 DEF Seen
  <2> QED BY <1>2, <2>1, <2>2, <2>3
<1>5. ASSUME NEW c \in steps, Cancels(c), now' = now
      PROVE  Shift(e.rows, f.rows, i, s.from)
  <2>1. PICK new : /\ new = [c EXCEPT !.until = now] /\ steps' = (steps \ {c}) \cup {new}
    BY <1>5 DEF Cancels
  <2>2. /\ ~Whole(new) /\ new.item = c.item /\ new.from = c.from
        /\ new.begun = c.begun /\ new.until = now
    BY <1>0, <1>5, <2>1, NotWhole
  <2>3. s # new
    BY <2>2
  <2>4. ASSUME NEW o \in Seen(i, e.at, f.at) PROVE o = s
    <3>1. CASE o = c
      <4>1. new \in Seen(i, e.at, f.at)'
        BY <1>0, <2>1, <2>2, <2>4, <3>1 DEF Seen
      <4> QED BY <2>3, <4>1
    <3>2. CASE o # c
      BY <2>1, <2>4, <3>2 DEF Seen
    <3> QED BY <3>1, <3>2
  <2> QED BY <1>2, <2>1, <2>3, <2>4
<1> QED BY <1>3, <1>4, <1>5, Moves DEF Tick, Capture

LEMMA ShowsStay ==
  ASSUME LifeInv, [Next]_vars, NEW e \in files, Shows(e)
  PROVE  Shows(e)'
<1>0. GameInv /\ now \in Nat /\ e.at \in Nat /\ e.at <= now
  BY NowIsNat DEF LifeInv, FilesInv, Export
<1> SUFFICES ASSUME NEW s \in steps', Whole(s), s.begun < e.at, e.at < s.until
             PROVE  s \in steps
  BY DEF Shows, Whole
<1>1. ASSUME NEW j \in Items, NEW m \in Levels, Begin(j, m), now' = now PROVE s \in steps
  <2>1. steps' = steps \cup {Begun(j, m)} /\ Begun(j, m).begun = now
    BY <1>1, BeginIs DEF Begun
  <2> QED BY <1>0, <2>1
<1>2. ASSUME NEW c \in steps, Cancels(c), now' = now PROVE s \in steps
  <2>1. PICK new : /\ new = [c EXCEPT !.until = now] /\ steps' = (steps \ {c}) \cup {new}
    BY <1>2 DEF Cancels
  <2>2. ~Whole(new)
    BY <1>0, <1>2, <2>1, NotWhole
  <2> QED BY <2>1, <2>2
<1> QED BY <1>1, <1>2, Moves DEF Tick, Capture

LEMMA MarksStay ==
  ASSUME LifeInv, [Next]_vars, NEW e \in files, Marks(e)
  PROVE  Marks(e)'
<1>1. CASE UNCHANGED <<honest, game, now, steps>>
  BY <1>1 DEF Marks, Since, Fresh, Whole
<1> QED BY <1>1, Moves, MarksTick, MarksBegin, MarksCancel DEF Capture

\* What a capture adds to it.
LEMMA MarksCapture ==
  ASSUME LifeInv, MarksInv, Capture, NEW new, new = [at |-> now, rows |-> game]
  PROVE  /\ Marks(new)' /\ Shows(new)' /\ \A e \in files : Pairs(e, new)'
<1>0. /\ new.at = now /\ new.rows = game /\ now \in Nat /\ game \in Rows /\ GameInv
      /\ UNCHANGED <<honest, game, now, steps>>
      /\ honest => \A s \in steps : s.begun < now
  BY NowIsNat DEF LifeInv, Capture
<1>1. \A s \in steps : /\ s.begun \in Nat /\ s.until \in Nat /\ s.begun <= now
                       /\ s.item \in Items /\ s.from \in Levels /\ s.until <= MaxTimer
  BY <1>0, StepRange DEF GameInv, Times
<1>2. Marks(new)
  <2>1. \A i : Kept(new.rows, game, i)
    BY <1>0 DEF Kept
  <2>2. \A s \in steps : ~Fresh(s, new)
    BY <1>0, <1>1 DEF Fresh
  <2> QED BY <2>1, <2>2 DEF Marks
<1>3. Shows(new)
  <2> SUFFICES ASSUME NEW s \in steps, now < s.until
               PROVE  game[<<s.item, s.from, s.until - now>>] > 0
    BY <1>0 DEF Shows
  <2> DEFINE t == s.until - now
  <2>1. t \in Timers \ {0} /\ now + t = s.until
    BY <1>0, <1>1, OverlayAssumption DEF Timers
  <2> HIDE DEF t
  <2>2. game[<<s.item, s.from, t>>] = Cardinality(Until(s.item, s.from, now + t))
    BY <1>0, <1>1, <2>1 DEF GameInv, Counts
  <2>3. IsFiniteSet(Until(s.item, s.from, now + t))
    <3>1. Until(s.item, s.from, now + t) \subseteq steps
      BY DEF Until
    <3> QED BY <1>0, <3>1, FS_Subset DEF GameInv, GameType
  <2>4. s \in Until(s.item, s.from, now + t)
    BY <2>1 DEF Until
  <2>5. Cardinality(Until(s.item, s.from, now + t)) \in Nat \ {0}
    BY <2>3, <2>4, FS_EmptySet, FS_CardinalityType
  <2> QED BY <2>2, <2>5 DEF t
<1>4. ASSUME NEW e \in files PROVE Pairs(e, new)
  <2> SUFFICES ASSUME NEW i \in Items, NEW s \in steps, Seen(i, e.at, now) = {s},
                      s.until <= now, Whole(s), Fresh(s, e)
               PROVE  Shift(e.rows, game, i, s.from)
    BY <1>0 DEF Pairs
  <2>1. Since(i, e) = {s}
    BY <1>1 DEF Since, Seen
  <2>2. ~(s.until > now)
    BY <1>0, <1>1
  <2> QED BY <1>4, <2>1, <2>2 DEF MarksInv, Marks
<1>5. (Marks(new) => Marks(new)') /\ (Shows(new) => Shows(new)')
  BY <1>0 DEF Marks, Shows, Since, Fresh, Whole
<1>6. \A e \in files : Pairs(e, new) => Pairs(e, new)'
  BY <1>0 DEF Pairs, Seen, Fresh, Whole
<1> QED BY <1>2, <1>3, <1>4, <1>5, <1>6

LEMMA MarksNext ==
  ASSUME LifeInv, MarksInv, [Next]_vars
  PROVE  MarksInv'
<1>1. ASSUME NEW e \in files PROVE Marks(e)' /\ Shows(e)'
  BY <1>1, MarksStay, ShowsStay DEF MarksInv
<1>2. ASSUME NEW e \in files, NEW f \in files, e.at < f.at PROVE Pairs(e, f)'
  BY <1>2, PairsStay DEF MarksInv
<1>3. CASE files' = files
  BY <1>1, <1>2, <1>3 DEF MarksInv
<1>4. CASE Capture
  <2>1. PICK new : new = [at |-> now, rows |-> game] /\ files' = files \cup {new}
    BY <1>4 DEF Capture
  <2>2. Marks(new)' /\ Shows(new)' /\ \A e \in files : Pairs(e, new)'
    BY <1>4, <2>1, MarksCapture
  <2>3. \A f \in files' : ~(new.at < f.at)
    <3>1. new.at = now /\ now \in Nat
      BY <2>1, NowIsNat
    <3>2. \A f \in files : f.at \in Nat /\ f.at <= now
      BY DEF LifeInv, FilesInv, Export
    <3> QED BY <2>1, <3>1, <3>2
  <2>4. ASSUME NEW e \in files'
        PROVE  Marks(e)' /\ Shows(e)' /\ \A f \in files' : e.at < f.at => Pairs(e, f)'
    <3>1. CASE e = new
      BY <2>2, <2>3, <3>1
    <3>2. CASE e \in files
      BY <1>1, <1>2, <2>1, <2>2, <3>2
    <3> QED BY <2>1, <3>1, <3>2
  <2> QED BY <2>4 DEF MarksInv
<1> QED BY <1>3, <1>4, Moves DEF Tick

LEMMA MarksInit ==
  ASSUME Init PROVE MarksInv
<1>1. GameInv /\ files = {Start} /\ now = 0 /\ game = Built
  <2>1. files = {Start} /\ now = 0 /\ game = Built
    BY Zenon DEF Init, Start
  <2> QED BY <2>1, GameInit
<1>2. Start.at = 0 /\ Start.rows = Built
  BY DEF Start
<1>3. \A s \in steps : s.begun = 0 /\ s.until > 0
  <2> SUFFICES ASSUME NEW s \in steps PROVE s.begun = 0 /\ s.until > 0
    OBVIOUS
  <2>1. PICK i \in Items, l \in Levels, t \in Timers \ {0} : s \in StepsAt(i, l, t)
    BY BuiltSteps
  <2>2. PICK k \in 1..Built[<<i, l, t>>] : s = StepAt(i, l, t, k)
    BY <2>1, StepsAtIs
  <2>3. t > 0
    BY OverlayAssumption DEF Timers
  <2> QED BY <2>2, <2>3 DEF StepAt
<1>4. Marks(Start)
  <2>1. \A i : Kept(Start.rows, game, i)
    BY <1>1, <1>2 DEF Kept
  <2> QED BY <1>1, <1>3, <2>1 DEF Marks
<1>5. Shows(Start)
  BY <1>2, <1>3 DEF Shows
<1> QED BY <1>1, <1>2, <1>4, <1>5 DEF MarksInv

LEMMA MarksInvariant == Spec => []MarksInv
BY MarksInit, MarksNext, LifeInvariant, PTL DEF Spec

\* Reconcile contradicts an upgrade that was begun as declared, and ran to its
\* end, only if another step of the item was seen between the two exports, or
\* its player is no honest one and it began in the second of the older export.
THEOREM MismatchesHaveACause == Spec => MismatchHasCause
<1>1. ASSUME LifeInv, MarksInv, GatesInv, NEW e \in files, base # None,
             NEW a \in Mismatched(acts, base, e),
             NEW s \in Seen(a.item, base.at, e.at),
             s.from = a.from, s.begun = a.startedAt, s.until = s.begun + StepTime(a),
             honest \/ s.begun > base.at,
             ~\E other \in Seen(a.item, base.at, e.at) : other # s
      PROVE  FALSE
  <2>1. /\ a \in acts /\ e.at > a.startedAt
        /\ ~ConfirmedByChange(a, base, e) /\ ~ConfirmedStillRunning(a, e)
    BY <1>1 DEF Mismatched, Retired
  <2>2. /\ base \in files /\ base.at \in Nat /\ e.at \in Nat /\ base.rows \in Rows /\ e.rows \in Rows
        /\ a.item \in Items /\ a.from \in Levels /\ a.startedAt \in Nat /\ base.at <= a.startedAt
        /\ a.item \in Known \cap Arrayed /\ a.from < Reach[a.item]
    BY <1>1, <2>1 DEF LifeInv, FilesInv, ActsInv, GatesInv, Listed, Export, Action
  <2>3. base.at < e.at /\ s.begun < e.at
    BY <1>1, <2>1, <2>2
  <2>4. s \in steps /\ s.item = a.item /\ s.until \in Nat /\ Seen(a.item, base.at, e.at) = {s}
    BY <1>1, StepRange DEF Seen, LifeInv
  <2>5. Whole(s) /\ Fresh(s, base)
    BY <1>1, <2>2, <2>4 DEF Whole, Fresh, StepTime
  <2>6. CASE s.until > e.at
    <3> DEFINE t == s.until - e.at
               T == Timers \ {0}
    <3>1. e.rows[<<a.item, a.from, t>>] > 0
      BY <1>1, <2>3, <2>4, <2>5, <2>6 DEF MarksInv, Shows
    <3>2. t \in T
      <4>1. s.until <= MaxTimer
        BY <1>1, <2>4, StepRange DEF LifeInv
      <4> QED BY <2>2, <2>4, <2>6, <4>1, OverlayAssumption DEF Timers
    <3>3. T \in SUBSET Timers
      OBVIOUS
    <3> HIDE DEF t, T
    <3>4. CopiesIn(e.rows, a.item, a.from, T) > 0
      BY <2>2, <3>1, <3>2, <3>3, CopiesPositive
    <3>5. RunningAt(e.rows, a.item, a.from) > 0
      BY <3>4, CopiesAtIs DEF T
    <3> QED BY <2>1, <2>2, <3>5 DEF ConfirmedStillRunning
  <2>7. CASE s.until <= e.at
    <3>1. Shift(base.rows, e.rows, a.item, a.from)
      BY <1>1, <2>2, <2>3, <2>4, <2>5, <2>7 DEF MarksInv, Pairs
    <3>2. a.from < MaxLevel /\ a.from + 1 \in Levels /\ a.from # a.from + 1
      BY <2>2, OverlayAssumption DEF Levels
    <3>3. /\ Copies(base.rows, a.item, a.from) \in Nat
          /\ Copies(base.rows, a.item, a.from + 1) \in Nat
      BY <2>2, <3>2, CopiesNat
    <3>4. /\ Copies(e.rows, a.item, a.from) = Copies(base.rows, a.item, a.from) - 1
          /\ Copies(e.rows, a.item, a.from + 1) = Copies(base.rows, a.item, a.from + 1) + 1
      BY <2>2, <3>1, <3>2, <3>3 DEF Shift
    <3>5. /\ Copies(e.rows, a.item, a.from) < Copies(base.rows, a.item, a.from)
          /\ Copies(e.rows, a.item, a.from + 1) > Copies(base.rows, a.item, a.from + 1)
      BY <3>3, <3>4
    <3>6. LandedChange(base, e, a.item, a.from)
      BY <3>2, <3>5, CopiesAtIs DEF LandedChange, Copies
    <3> QED BY <2>1, <3>6 DEF ConfirmedByChange
  <2> QED BY <2>2, <2>4, <2>6, <2>7
<1>2. LifeInv /\ MarksInv /\ GatesInv /\ [Next]_vars =>
        [\A e \in files : base # None /\ Upload(e) =>
           \A a \in Mismatched(acts, base, e) :
           \A s \in Seen(a.item, base.at, e.at) :
             /\ s.from = a.from /\ s.begun = a.startedAt
             /\ s.until = s.begun + StepTime(a)
             /\ honest \/ s.begun > base.at
             => \E other \in Seen(a.item, base.at, e.at) : other # s]_vars
  BY <1>1
<1> QED BY <1>2, LifeInvariant, MarksInvariant, GatesInvariant, PTL DEF Spec, MismatchHasCause
=============================================================================
