--------------------------- MODULE BuildNowProofs ---------------------------
(***************************************************************************)
(* Theorems about BuildNow for every number of requests, villages, items,  *)
(* levels and exports: first what the overlay computes, then the handlers. *)
(***************************************************************************)
EXTENDS BuildNow, WellFoundedInduction, FiniteSetTheorems, TLAPS

-----------------------------------------------------------------------------
(***************************************************************************)
(* What Apply's loop computes, for every export and every list of declared *)
(* upgrades.  The loop is a recursive function, so its equation has to be  *)
(* earned: a function recursive on Nat is shown to exist step by step, and *)
(* induction is by the least counterexample, a set of numbers being a      *)
(* value the provers can name where a predicate is not.                    *)
(***************************************************************************)
\* A set of naturals has a least element: induction without a predicate.
LEMMA Least ==
  ASSUME NEW T, T \subseteq Nat, T # {}
  PROVE  \E m \in T : \A k \in T : m <= k
<1>1. \E m \in T : \A k \in T : ~(<<k, m>> \in OpToRel(<, Nat))
  BY WFMin, NatLessThanWellFounded
<1>2. PICK m \in T : \A k \in T : ~(<<k, m>> \in OpToRel(<, Nat))
  BY <1>1
<1>3. ASSUME NEW k \in T PROVE m <= k
  <2>1. m \in Nat /\ k \in Nat
    OBVIOUS
  <2>2. ~(k < m)
    BY <1>2, <2>1 DEF OpToRel
  <2> QED BY <2>1, <2>2
<1> QED BY <1>3

\* Of those of S at least as new as s, the one with the fewest above it.
LEMMA HasNewestOf ==
  ASSUME NEW S, IsFiniteSet(S), \A o \in S : o.at \in Nat, NEW s \in S
  PROVE  \E m \in S : m.at >= s.at /\ \A o \in S : o.at <= m.at
<1> DEFINE Above(m) == {o \in S : o.at > m.at}
           Aboves == {Above(m) : m \in {o \in S : o.at >= s.at}}
<1>1. Aboves \subseteq FiniteSubsetsOf(S) /\ Above(s) \in Aboves
  <2>1. FiniteSubsetsOf(S) = SUBSET S
    BY FS_FiniteSubsetsOfFinite
  <2>2. Aboves \subseteq SUBSET S
    OBVIOUS
  <2>3. QED BY <2>1, <2>2
<1>2. PICK U \in Aboves : \A V \in Aboves : ~(<<V, U>> \in StrictSubsetOrdering(S))
  BY <1>1, WFMin, FS_StrictSubsetOrderingWellFounded
<1>3. PICK m \in S : m.at >= s.at /\ U = Above(m)
  BY <1>2
<1>4. ASSUME NEW o \in S, ~(o.at <= m.at) PROVE FALSE
  <2>1. o.at \in Nat /\ m.at \in Nat /\ s.at \in Nat /\ o.at > m.at /\ m.at >= s.at
    BY <1>3, <1>4
  <2>2. o.at >= s.at /\ o \in Above(m) /\ o \notin Above(o)
    BY <2>1
  <2>3. ASSUME NEW x \in S, x.at > o.at PROVE x.at > m.at
    BY <2>1, <2>3
  <2>4. <<Above(o), U>> \in StrictSubsetOrdering(S)
    BY <1>3, <2>2, <2>3 DEF StrictSubsetOrdering
  <2>5. Above(o) \in Aboves
    BY <2>2
  <2>6. QED BY <1>2, <2>4, <2>5
<1>5. QED BY <1>3, <1>4

-----------------------------------------------------------------------------
(***************************************************************************)
(* A function defined by recursion on Nat exists: [n |-> v0, then F[.]].   *)
(***************************************************************************)
Runs(V, v0, F, n) ==
  {g \in [0..n -> V] : g[0] = v0 /\ \A k \in 1..n : g[k] = F[<<g[k-1], k>>]}

LEMMA RunsExist ==
  ASSUME NEW V, NEW v0 \in V, NEW F \in [V \X Nat -> V]
  PROVE  \A n \in Nat : Runs(V, v0, F, n) # {}
<1> DEFINE Bad == {n \in Nat : Runs(V, v0, F, n) = {}}
<1> SUFFICES ASSUME Bad # {} PROVE FALSE
  OBVIOUS
<1>1. PICK m \in Bad : \A k \in Bad : m <= k
  BY Least
<1>2. m \in Nat /\ Runs(V, v0, F, m) = {}
  OBVIOUS
<1>3. m # 0
  <2>1. [k \in 0..0 |-> v0] \in Runs(V, v0, F, 0)
    BY DEF Runs
  <2> QED BY <1>2, <2>1
<1>4. m - 1 \in Nat /\ m - 1 \notin Bad
  BY <1>1, <1>2, <1>3
<1>5. PICK g : g \in Runs(V, v0, F, m - 1)
  BY <1>4
<1> DEFINE h == [k \in 0..m |-> IF k = m THEN F[<<g[m-1], m>>] ELSE g[k]]
<1>6. g \in [0..(m-1) -> V] /\ g[0] = v0 /\ \A k \in 1..(m-1) : g[k] = F[<<g[k-1], k>>]
  BY <1>5 DEF Runs
<1>7. g[m-1] \in V /\ F[<<g[m-1], m>>] \in V
  BY <1>2, <1>4, <1>6
<1>8. \A k \in 0..(m-1) : h[k] = g[k]
  BY <1>2
<1>9. h[m] = F[<<h[m-1], m>>]
  <2>1. m \in 0..m /\ m - 1 \in 0..(m-1)
    BY <1>2, <1>4
  <2>2. h[m] = F[<<g[m-1], m>>]
    BY <2>1
  <2> HIDE DEF h
  <2> QED BY <2>1, <2>2, <1>8
<1>10. h \in [0..m -> V]
  BY <1>2, <1>6, <1>7
<1>11. ASSUME NEW k \in 1..m PROVE h[k] = F[<<h[k-1], k>>]
  <2>1. CASE k = m
    BY <2>1, <1>9
  <2>2. CASE k # m
    <3>1. k \in 1..(m-1) /\ k \in 0..(m-1) /\ k-1 \in 0..(m-1)
      BY <1>2, <2>2
    <3> HIDE DEF h
    <3> QED BY <3>1, <1>6, <1>8
  <2> QED BY <2>1, <2>2
<1>12. h[0] = v0
  BY <1>2, <1>3, <1>6, <1>8
<1>13. h \in Runs(V, v0, F, m)
  <2> HIDE DEF h
  <2> QED BY <1>10, <1>11, <1>12 DEF Runs
<1> QED BY <1>2, <1>13

LEMMA RunsAgree ==
  ASSUME NEW V, NEW v0 \in V, NEW F \in [V \X Nat -> V],
         NEW n \in Nat, NEW m \in Nat, n <= m,
         NEW g \in Runs(V, v0, F, n), NEW h \in Runs(V, v0, F, m)
  PROVE  g[n] = h[n]
<1> DEFINE Bad == {k \in 0..n : g[k] # h[k]}
<1> SUFFICES ASSUME Bad # {} PROVE FALSE
  OBVIOUS
<1>1. PICK b \in Bad : \A k \in Bad : b <= k
  <2>1. Bad \subseteq Nat
    OBVIOUS
  <2> QED BY <2>1, Least
<1>2. b # 0
  BY DEF Runs
<1>3. b - 1 \in 0..n /\ b - 1 \notin Bad
  BY <1>1, <1>2
<1>4. g[b-1] = h[b-1]
  BY <1>3
<1>5. g[b] = F[<<g[b-1], b>>] /\ h[b] = F[<<h[b-1], b>>]
  BY <1>2 DEF Runs
<1> QED BY <1>4, <1>5

Recurs(g, v0, F) == g[0] = v0 /\ \A n \in Nat \ {0} : g[n] = F[<<g[n-1], n>>]

LEMMA RecursionExists ==
  ASSUME NEW V, NEW v0 \in V, NEW F \in [V \X Nat -> V]
  PROVE  \E g \in [Nat -> V] : Recurs(g, v0, F)
<1> DEFINE R(n) == CHOOSE g : g \in Runs(V, v0, F, n)
           G == [n \in Nat |-> R(n)[n]]
<1>1. \A n \in Nat : R(n) \in Runs(V, v0, F, n)
  BY RunsExist
<1> HIDE DEF R
<1>2. G[0] = v0
  BY <1>1 DEF Runs
<1>3. ASSUME NEW n \in Nat PROVE G[n] \in V
  BY <1>1 DEF Runs
<1>4. ASSUME NEW n \in Nat, n # 0 PROVE G[n] = F[<<G[n-1], n>>]
  <2>1. n - 1 \in Nat
    BY <1>4
  <2>2. R(n)[n] = F[<<R(n)[n-1], n>>]
    BY <1>1, <1>4 DEF Runs
  <2>3. R(n-1)[n-1] = R(n)[n-1]
    BY <1>1, <2>1, RunsAgree
  <2> QED BY <2>1, <2>2, <2>3
<1>5. G \in [Nat -> V]
  BY <1>3
<1> HIDE DEF G
<1> QED BY <1>2, <1>4, <1>5 DEF Recurs

\* One turn of Apply's loop.
Consider(rows, at, acts, n) ==
  LET hit == {a \in acts : a.id = n /\ Placeable(rows, at, a)}
  IN IF hit = {} THEN rows ELSE Split(rows, at, CHOOSE a \in hit : TRUE)

Cells == Items \X Levels \X Timers

LEMMA HereIsACell ==
  ASSUME NEW a \in Action PROVE <<a.item, a.from, 0>> \in Cells
BY OverlayAssumption DEF Action, Timers, Cells

Here(a) == <<a.item, a.from, 0>>

LEMMA StepTimeIsNat ==
  ASSUME NEW a \in Action PROVE StepTime(a) \in Nat
BY OverlayAssumption DEF Action, StepTime

LEMMA RemainingIsInt ==
  ASSUME NEW a \in Action, NEW at \in Nat PROVE Remaining(a, at) \in Int
<1>1. StepTime(a) \in Nat /\ a.startedAt \in Nat
  BY StepTimeIsNat DEF Action
<1> QED BY <1>1 DEF Remaining

LEMMA SplitCells ==
  ASSUME NEW rows \in Rows, NEW at \in Nat, NEW a \in Action, Placeable(rows, at, a)
  PROVE  /\ Split(rows, at, a) \in Rows
         /\ Here(a) \in Cells
         /\ Here(a) # Landing(a, at)
         /\ \A c \in Cells : Split(rows, at, a)[c] =
              IF c = Here(a) THEN rows[c] - 1
              ELSE IF c = Landing(a, at) THEN rows[c] + 1 ELSE rows[c]
<1> DEFINE here == Here(a)
           there == Landing(a, at)
           once == [rows EXCEPT ![here] = rows[here] - 1]
<1>1. here \in Cells /\ rows \in [Cells -> Nat]
  BY HereIsACell DEF Rows, Cells, Here
<1>2. rows[here] > 0
  BY DEF Placeable, Here
<1>3. Split(rows, at, a) = [once EXCEPT ![there] = rows[there] + 1]
  BY DEF Split, Here
<1>4. here # there
  <2>1. a.from # a.from + 1
    BY OverlayAssumption DEF Action, Levels
  <2>2. CASE StepTime(a) > 0
    <3>1. Remaining(a, at) \in Int /\ Remaining(a, at) > 0
      BY <2>2, RemainingIsInt DEF Placeable
    <3> QED BY <2>2, <3>1 DEF Landing, Here
  <2>3. CASE ~(StepTime(a) > 0)
    BY <2>1, <2>3 DEF Landing, Here
  <2> QED BY <2>2, <2>3
<1> HIDE DEF here, there
<1>5. once \in [Cells -> Nat]
  BY <1>1, <1>2
<1>6. rows[there] + 1 \in Nat \/ there \notin Cells
  BY <1>1
<1>7. \A c \in Cells : once[c] = IF c = here THEN rows[c] - 1 ELSE rows[c]
  BY <1>1
<1> HIDE DEF once
<1>8. Split(rows, at, a) \in [Cells -> Nat]
  BY <1>3, <1>5, <1>6
<1>9. \A c \in Cells : Split(rows, at, a)[c] =
              IF c = here THEN rows[c] - 1
              ELSE IF c = there THEN rows[c] + 1 ELSE rows[c]
  BY <1>3, <1>4, <1>5, <1>7
<1> QED BY <1>1, <1>4, <1>8, <1>9 DEF Rows, Cells, here, there

LEMMA ConsiderType ==
  ASSUME NEW rows \in Rows, NEW at \in Nat, NEW acts, acts \subseteq Action, NEW n
  PROVE  Consider(rows, at, acts, n) \in Rows
BY SplitCells DEF Consider

LEMMA AfterActionDef ==
  ASSUME NEW e \in Export, NEW acts, acts \subseteq Action
  PROVE  /\ AfterAction(e, acts)[0] = e.rows
         /\ \A n \in Nat \ {0} : AfterAction(e, acts)[n] =
               Consider(AfterAction(e, acts)[n-1], e.at, acts, n)
<1> DEFINE F == [p \in Rows \X Nat |-> Consider(p[1], e.at, acts, p[2])]
<1>0. e.rows \in Rows /\ e.at \in Nat
  BY DEF Export
<1>1. F \in [Rows \X Nat -> Rows]
  BY <1>0, ConsiderType
<1>1a. \A rows \in Rows, n \in Nat : F[<<rows, n>>] = Consider(rows, e.at, acts, n)
  OBVIOUS
<1> HIDE DEF F
<1>2a. PICK g \in [Nat -> Rows] : Recurs(g, e.rows, F)
  BY <1>0, <1>1, RecursionExists
<1>2. g[0] = e.rows /\ \A n \in Nat \ {0} : g[n] = F[<<g[n-1], n>>]
  BY <1>2a DEF Recurs
<1>3. g = [n \in Nat |-> IF n = 0 THEN e.rows ELSE Consider(g[n-1], e.at, acts, n)]
  <2> DEFINE h == [n \in Nat |-> IF n = 0 THEN e.rows ELSE Consider(g[n-1], e.at, acts, n)]
  <2>1. ASSUME NEW n \in Nat PROVE g[n] = h[n]
    <3>1. CASE n = 0
      BY <1>2, <3>1
    <3>2. CASE n # 0
      <4>1. n - 1 \in Nat /\ g[n-1] \in Rows
        BY <3>2
      <4> QED BY <1>1a, <1>2, <3>2, <4>1
    <3> QED BY <3>1, <3>2
  <2> QED BY <2>1
<1>4. AfterAction(e, acts) = [n \in Nat |-> IF n = 0 THEN e.rows ELSE Consider(AfterAction(e, acts)[n-1], e.at, acts, n)]
  BY <1>3, Zenon DEF AfterAction, Consider
<1> QED BY <1>4

\* What a village's list is: ids start at 1 and tell actions apart.
Listed(acts) == /\ acts \subseteq Action
                /\ \A a \in acts : a.id > 0
                /\ \A a, b \in acts : a.id = b.id => a = b

LEMMA AfterActionType ==
  ASSUME NEW e \in Export, NEW acts, acts \subseteq Action
  PROVE  \A n \in Nat : AfterAction(e, acts)[n] \in Rows
<1> DEFINE Bad == {n \in Nat : AfterAction(e, acts)[n] \notin Rows}
<1> SUFFICES ASSUME Bad # {} PROVE FALSE
  OBVIOUS
<1>1. PICK m \in Bad : \A k \in Bad : m <= k
  <2>1. Bad \subseteq Nat
    OBVIOUS
  <2> QED BY <2>1, Least
<1>2. e.rows \in Rows /\ e.at \in Nat
  BY DEF Export
<1>3. m \in Nat \ {0}
  BY <1>2, AfterActionDef
<1>4. AfterAction(e, acts)[m-1] \in Rows
  BY <1>1, <1>3
<1> QED BY <1>2, <1>3, <1>4, AfterActionDef, ConsiderType

LEMMA ConsiderOne ==
  ASSUME NEW acts, Listed(acts), NEW rows, NEW at, NEW a \in acts
  PROVE  Consider(rows, at, acts, a.id) =
           IF Placeable(rows, at, a) THEN Split(rows, at, a) ELSE rows
<1> DEFINE hit == {b \in acts : b.id = a.id /\ Placeable(rows, at, b)}
<1>1. hit = IF Placeable(rows, at, a) THEN {a} ELSE {}
  BY DEF Listed
<1>2. Placeable(rows, at, a) => (CHOOSE b \in hit : TRUE) = a
  BY <1>1
<1> HIDE DEF hit
<1>3. Consider(rows, at, acts, a.id) =
        IF hit = {} THEN rows ELSE Split(rows, at, CHOOSE b \in hit : TRUE)
  BY DEF Consider, hit
<1> QED BY <1>1, <1>2, <1>3

LEMMA ConsiderNone ==
  ASSUME NEW acts, NEW rows, NEW at, NEW n, \A a \in acts : a.id # n
  PROVE  Consider(rows, at, acts, n) = rows
BY DEF Consider

(***************************************************************************)
(* Lists that agree up to n, but for actions Apply skips, leave the same   *)
(* rows up to n.                                                           *)
(***************************************************************************)
SkippedUpTo(e, acts, some, n) ==
  \A a \in acts \ some :
    a.id <= n => ~Placeable(AfterAction(e, acts)[a.id - 1], e.at, a)

LEMMA SameRows ==
  ASSUME NEW e \in Export, NEW acts, Listed(acts), NEW some, Listed(some),
         NEW n \in Nat,
         \A a \in some : a.id <= n => a \in acts,
         SkippedUpTo(e, acts, some, n)
  PROVE  \A k \in 0..n : AfterAction(e, some)[k] = AfterAction(e, acts)[k]
<1> DEFINE Bad == {k \in 0..n : AfterAction(e, some)[k] # AfterAction(e, acts)[k]}
<1> SUFFICES ASSUME Bad # {} PROVE FALSE
  OBVIOUS
<1>1. PICK m \in Bad : \A k \in Bad : m <= k
  <2>1. Bad \subseteq Nat
    OBVIOUS
  <2> QED BY <2>1, Least
<1>0. acts \subseteq Action /\ some \subseteq Action
  BY DEF Listed
<1>2. m # 0
  BY <1>0, AfterActionDef
<1> DEFINE rows == AfterAction(e, acts)[m-1]
<1>3. AfterAction(e, some)[m-1] = rows
  BY <1>1, <1>2
<1>4. /\ AfterAction(e, acts)[m] = Consider(rows, e.at, acts, m)
      /\ AfterAction(e, some)[m] = Consider(rows, e.at, some, m)
  BY <1>0, <1>2, <1>3, AfterActionDef
<1> SUFFICES Consider(rows, e.at, acts, m) = Consider(rows, e.at, some, m)
  BY <1>4
<1>5. CASE \E a \in some : a.id = m
  <2>1. PICK a \in some : a.id = m
    BY <1>5
  <2>2. a \in acts
    BY <2>1
  <2> HIDE DEF rows
  <2> QED BY <2>1, <2>2, ConsiderOne
<1>6. CASE (~\E a \in some : a.id = m) /\ \E a \in acts : a.id = m
  <2>1. PICK a \in acts : a.id = m
    BY <1>6
  <2>2. a \notin some /\ ~Placeable(rows, e.at, a)
    BY <1>6, <2>1 DEF SkippedUpTo
  <2> HIDE DEF rows
  <2> QED BY <1>6, <2>1, <2>2, ConsiderOne, ConsiderNone
<1>7. CASE (~\E a \in some : a.id = m) /\ ~\E a \in acts : a.id = m
  BY <1>7, ConsiderNone
<1> QED BY <1>5, <1>6, <1>7

\* Removing stale actions, all or some, changes nothing: the same are stale
\* as before among those that stay, so a second overlay removes no more.
THEOREM StaleAgain ==
  ASSUME NEW e \in Export, NEW acts, Listed(acts), NEW some,
         Applied(e, acts) \subseteq some, some \subseteq acts
  PROVE  /\ \A n \in Nat : AfterAction(e, some)[n] = AfterAction(e, acts)[n]
         /\ Stale(e, some) = Stale(e, acts) \cap some
<1>1. Listed(some)
  BY DEF Listed
<1>2. \A n \in Nat : SkippedUpTo(e, acts, some, n)
  BY DEF SkippedUpTo, Applied, Stale
<1>3. \A n \in Nat : AfterAction(e, some)[n] = AfterAction(e, acts)[n]
  <2> TAKE n \in Nat
  <2>1. \A k \in 0..n : AfterAction(e, some)[k] = AfterAction(e, acts)[k]
    BY <1>1, <1>2, SameRows
  <2> QED BY <2>1
<1>4. \A a \in some : a.id - 1 \in Nat
  BY DEF Listed, Action
<1> QED BY <1>3, <1>4 DEF Stale

LEMMA AppliedSettles ==
  ASSUME NEW e \in Export, NEW acts, Listed(acts)
  PROVE  Stale(e, Applied(e, acts)) = {}
BY StaleAgain DEF Applied

\* The rows after the last action are the rows after any later id.
LEMMA LastIdIsLast ==
  ASSUME NEW acts, Listed(acts), NEW n \in Nat, \A a \in acts : a.id <= n
  PROVE  LastId(acts) \in 0..n /\ \A a \in acts : a.id <= LastId(acts)
<1>1. CASE acts = {}
  BY <1>1 DEF LastId
<1>2. CASE acts # {}
  <2> DEFINE ids == {a.id : a \in acts}
             Tops == {m \in Nat : \A i \in ids : i <= m}
  <2>1. ids \subseteq Nat
    BY DEF Listed, Action
  <2>2. n \in Tops
    OBVIOUS
  <2>3. PICK m \in Tops : \A k \in Tops : m <= k
    <3>1. Tops \subseteq Nat /\ Tops # {}
      BY <2>2
    <3> HIDE DEF Tops
    <3> QED BY <3>1, Least
  <2>4. m \in ids
    <3> SUFFICES ASSUME m \notin ids PROVE FALSE
      OBVIOUS
    <3>1. \A i \in ids : i <= m - 1
      BY <2>1, <2>3
    <3>2. m - 1 \in Nat
      BY <1>2, <2>1, <3>1
    <3> QED BY <2>3, <3>1, <3>2
  <2>5. Max(ids) \in ids /\ \A i \in ids : Max(ids) >= i
    <3>1. \E x \in ids : \A y \in ids : x >= y
      BY <2>1, <2>3, <2>4
    <3> HIDE DEF ids
    <3> QED BY <3>1 DEF Max
  <2>6. LastId(acts) = Max(ids)
    BY <1>2 DEF LastId
  <2> QED BY <2>1, <2>5, <2>6
<1> QED BY <1>1, <1>2

LEMMA RowsPastLast ==
  ASSUME NEW e \in Export, NEW acts, Listed(acts), NEW n \in Nat,
         \A a \in acts : a.id <= n
  PROVE  AfterAction(e, acts)[n] = AfterAction(e, acts)[LastId(acts)]
<1> DEFINE last == LastId(acts)
           Bad == {k \in last..n : AfterAction(e, acts)[k] # AfterAction(e, acts)[last]}
<1>1. last \in 0..n /\ \A a \in acts : a.id <= last
  BY LastIdIsLast
<1> HIDE DEF last
<1> SUFFICES ASSUME Bad # {} PROVE FALSE
  BY <1>1 DEF last
<1>2. PICK m \in Bad : \A k \in Bad : m <= k
  <2>1. Bad \subseteq Nat
    BY <1>1
  <2> QED BY <2>1, Least
<1>3. m \in Nat \ {0} /\ m > last /\ m - 1 \in last..n
  BY <1>1
<1>4. AfterAction(e, acts)[m-1] = AfterAction(e, acts)[last]
  BY <1>1, <1>2, <1>3
<1>5. \A a \in acts : a.id # m
  BY <1>1, <1>3 DEF Listed, Action
<1>6. AfterAction(e, acts)[m] = Consider(AfterAction(e, acts)[m-1], e.at, acts, m)
  BY <1>3, AfterActionDef DEF Listed
<1> QED BY <1>4, <1>5, <1>6, ConsiderNone

(***************************************************************************)
(* The idle copies of item i at level l after the actions up to n: what an *)
(* action does to them, and how many there are.                            *)
(***************************************************************************)
IdleCell(i, l) == <<i, l, 0>>

LEMMA IdleCellIsACell ==
  ASSUME NEW i \in Items, NEW l \in Levels PROVE IdleCell(i, l) \in Cells
BY OverlayAssumption DEF IdleCell, Cells, Timers

\* One more if the action lands there at once, one less if it leaves there.
LEMMA SplitIdle ==
  ASSUME NEW rows \in Rows, NEW at \in Nat, NEW a \in Action, Placeable(rows, at, a),
         NEW i \in Items, NEW l \in Levels
  PROVE  Split(rows, at, a)[IdleCell(i, l)] =
           IF a.item = i /\ a.from = l THEN rows[IdleCell(i, l)] - 1
           ELSE IF a.item = i /\ a.from + 1 = l /\ StepTime(a) = 0
                THEN rows[IdleCell(i, l)] + 1 ELSE rows[IdleCell(i, l)]
<1>1. IdleCell(i, l) \in Cells
  BY IdleCellIsACell
<1>2. (IdleCell(i, l) = Here(a)) <=> (a.item = i /\ a.from = l)
  BY DEF IdleCell, Here
<1>3. StepTime(a) \in Nat
  BY StepTimeIsNat
<1>4. (IdleCell(i, l) = Landing(a, at)) <=>
         (a.item = i /\ a.from + 1 = l /\ StepTime(a) = 0)
  <2>1. CASE StepTime(a) > 0
    <3>1. Remaining(a, at) \in Int /\ Remaining(a, at) > 0
      BY <2>1, RemainingIsInt DEF Placeable
    <3> QED BY <2>1, <3>1 DEF IdleCell, Landing
  <2>2. CASE ~(StepTime(a) > 0)
    <3>1. StepTime(a) = 0
      BY <1>3, <2>2
    <3> QED BY <2>2, <3>1 DEF IdleCell, Landing
  <2> QED BY <2>1, <2>2
<1> QED BY <1>1, <1>2, <1>4, SplitCells

LEMMA RowsAreNat ==
  ASSUME NEW rows \in Rows, NEW c \in Cells PROVE rows[c] \in Nat
BY DEF Rows, Cells

\* A placeable action finds an idle copy.
LEMMA PlaceableCell ==
  ASSUME NEW rows, NEW at, NEW a
  PROVE  Placeable(rows, at, a) <=>
           /\ a.item \in Known
           /\ StepTime(a) > 0 => Remaining(a, at) > 0
           /\ a.item \in Arrayed
           /\ rows[IdleCell(a.item, a.from)] > 0
BY DEF Placeable, IdleCell

(***************************************************************************)
(* At a level no declared upgrade reaches at once, the fewer are declared  *)
(* the more copies stay idle, so withdrawing one makes no other stale.     *)
(***************************************************************************)
LEMMA FewerLeaveMoreIdle ==
  ASSUME NEW e \in Export, NEW acts, Listed(acts), NEW some, some \subseteq acts,
         NEW i \in Items, NEW l \in Levels,
         \A a \in acts : a.item = i /\ a.from + 1 = l => StepTime(a) # 0
  PROVE  \A n \in Nat :
           AfterAction(e, some)[n][IdleCell(i, l)] >= AfterAction(e, acts)[n][IdleCell(i, l)]
<1> DEFINE c == IdleCell(i, l)
           Fewer(n) == AfterAction(e, some)[n][c] >= AfterAction(e, acts)[n][c]
           Bad == {n \in Nat : ~Fewer(n)}
<1> SUFFICES ASSUME Bad # {} PROVE FALSE
  OBVIOUS
<1>0. /\ Listed(some) /\ acts \subseteq Action /\ some \subseteq Action
      /\ e.rows \in Rows /\ e.at \in Nat /\ c \in Cells
  BY IdleCellIsACell DEF Listed, Export
<1>1. PICK m \in Bad : \A k \in Bad : m <= k
  <2>1. Bad \subseteq Nat
    OBVIOUS
  <2> HIDE DEF Bad
  <2> QED BY <2>1, Least
<1>2. m # 0
  <2>1. Fewer(0)
    BY <1>0, AfterActionDef, RowsAreNat
  <2> QED BY <2>1
<1>3. m - 1 \in Nat /\ Fewer(m - 1)
  BY <1>1, <1>2
<1> DEFINE R == AfterAction(e, acts)[m-1]
           Q == AfterAction(e, some)[m-1]
<1>4. R \in Rows /\ Q \in Rows
  BY <1>0, <1>3, AfterActionType
<1>5. /\ AfterAction(e, acts)[m] = Consider(R, e.at, acts, m)
      /\ AfterAction(e, some)[m] = Consider(Q, e.at, some, m)
  BY <1>0, <1>2, AfterActionDef
<1>6. R[c] \in Nat /\ Q[c] \in Nat /\ Q[c] >= R[c]
  BY <1>0, <1>3, <1>4, RowsAreNat
<1> HIDE DEF R, Q
<1> SUFFICES Consider(Q, e.at, some, m)[c] >= Consider(R, e.at, acts, m)[c]
  BY <1>5
<1>7. ASSUME NEW a \in acts, NEW rows \in Rows, Placeable(rows, e.at, a)
      PROVE  Split(rows, e.at, a)[c] = IF a.item = i /\ a.from = l THEN rows[c] - 1
                                                                   ELSE rows[c]
  BY <1>0, <1>7, SplitIdle
<1>8. CASE \E a \in some : a.id = m
  <2>1. PICK a \in some : a.id = m
    BY <1>8
  <2>2. a \in acts /\ a.item \in Items /\ a.from \in Levels
    BY <1>0 DEF Action
  <2>3. /\ Consider(Q, e.at, some, m) = IF Placeable(Q, e.at, a) THEN Split(Q, e.at, a) ELSE Q
        /\ Consider(R, e.at, acts, m) = IF Placeable(R, e.at, a) THEN Split(R, e.at, a) ELSE R
    BY <1>0, <2>1, <2>2, ConsiderOne
  <2>4. CASE ~(a.item = i /\ a.from = l)
    BY <1>4, <1>6, <1>7, <2>2, <2>3, <2>4
  <2>5. CASE a.item = i /\ a.from = l
    <3>1. Placeable(R, e.at, a) => Placeable(Q, e.at, a)
      BY <1>6, <2>5, PlaceableCell
    <3>2. Placeable(Q, e.at, a) => Q[c] > 0
      BY <2>5, PlaceableCell
    <3>3. Placeable(Q, e.at, a) /\ ~Placeable(R, e.at, a) => ~(R[c] > 0)
      BY <2>5, PlaceableCell
    <3>4. CASE Placeable(R, e.at, a)
      BY <1>4, <1>6, <1>7, <2>2, <2>3, <3>1, <3>4
    <3>5. CASE ~Placeable(R, e.at, a) /\ Placeable(Q, e.at, a)
      BY <1>4, <1>6, <1>7, <2>2, <2>3, <2>5, <3>2, <3>3, <3>5
    <3>6. CASE ~Placeable(R, e.at, a) /\ ~Placeable(Q, e.at, a)
      BY <1>6, <2>3, <3>6
    <3> QED BY <3>4, <3>5, <3>6
  <2> QED BY <2>4, <2>5
<1>9. CASE ~\E a \in some : a.id = m
  <2>1. Consider(Q, e.at, some, m) = Q
    BY <1>9, ConsiderNone
  <2>2. CASE \E a \in acts : a.id = m
    <3>1. PICK a \in acts : a.id = m
      BY <2>2
    <3>2. Consider(R, e.at, acts, m) = IF Placeable(R, e.at, a) THEN Split(R, e.at, a) ELSE R
      BY <3>1, ConsiderOne
    <3> QED BY <1>4, <1>6, <1>7, <2>1, <3>2
  <2>3. CASE ~\E a \in acts : a.id = m
    <3>1. Consider(R, e.at, acts, m) = R
      BY <2>3, ConsiderNone
    <3> QED BY <1>6, <2>1, <3>1
  <2> QED BY <2>2, <2>3
<1> QED BY <1>8, <1>9

LEMMA FewerStale ==
  ASSUME NEW e \in Export, NEW acts, Listed(acts), NEW some, some \subseteq acts,
         NEW a \in Stale(e, some),
         \A b \in acts : b.item = a.item /\ b.from + 1 = a.from => StepTime(b) # 0
  PROVE  a \in Stale(e, acts)
<1>1. ASSUME Placeable(AfterAction(e, acts)[a.id - 1], e.at, a)
      PROVE  Placeable(AfterAction(e, some)[a.id - 1], e.at, a)
  <2>0. a \in some
    BY DEF Stale
  <2>1. a.id - 1 \in Nat /\ a.item \in Items /\ a.from \in Levels
    BY <2>0 DEF Listed, Action
  <2> DEFINE R == AfterAction(e, acts)[a.id - 1]
             Q == AfterAction(e, some)[a.id - 1]
             c == IdleCell(a.item, a.from)
  <2>2. Q[c] >= R[c]
    BY <2>1, FewerLeaveMoreIdle
  <2>3. R \in Rows /\ Q \in Rows
    BY <2>1, AfterActionType DEF Listed
  <2>4. R[c] \in Nat /\ Q[c] \in Nat
    BY <2>1, <2>3, RowsAreNat, IdleCellIsACell
  <2> HIDE DEF R, Q
  <2> QED BY <1>1, <2>2, <2>4, PlaceableCell DEF R, Q
<1> QED BY <1>1 DEF Stale

\* The actions up to n that leave level l of item i, and those that reach it
\* at once.
LeftBy(acts, i, l, n) == {a \in acts : a.id <= n /\ a.item = i /\ a.from = l}

ReachedBy(acts, i, l, n) ==
  {a \in acts : a.id <= n /\ a.item = i /\ StepTime(a) = 0 /\ a.from + 1 = l}

\* If none is stale, the idle copies of a level are those of the export, and
\* those that reached it, less those that left it.
THEOREM IdleCount ==
  ASSUME NEW e \in Export, NEW acts, Listed(acts), IsFiniteSet(acts), Stale(e, acts) = {},
         NEW i \in Items, NEW l \in Levels
  PROVE  \A n \in Nat :
           AfterAction(e, acts)[n][IdleCell(i, l)] =
             e.rows[IdleCell(i, l)] + Cardinality(ReachedBy(acts, i, l, n))
                                    - Cardinality(LeftBy(acts, i, l, n))
<1> DEFINE c == IdleCell(i, l)
           Came(n) == Cardinality(ReachedBy(acts, i, l, n))
           Went(n) == Cardinality(LeftBy(acts, i, l, n))
           Holds(n) == AfterAction(e, acts)[n][c] = e.rows[c] + Came(n) - Went(n)
           Bad == {n \in Nat : ~Holds(n)}
<1> SUFFICES ASSUME Bad # {} PROVE FALSE
  OBVIOUS
<1>0. /\ acts \subseteq Action /\ e.rows \in Rows /\ e.at \in Nat /\ c \in Cells
      /\ e.rows[c] \in Nat
  BY IdleCellIsACell, RowsAreNat DEF Listed, Export
<1>1. PICK m \in Bad : \A k \in Bad : m <= k
  <2>1. Bad \subseteq Nat
    OBVIOUS
  <2> HIDE DEF Bad
  <2> QED BY <2>1, Least
<1>2. \A n \in Nat : /\ IsFiniteSet(ReachedBy(acts, i, l, n)) /\ Came(n) \in Nat
                     /\ IsFiniteSet(LeftBy(acts, i, l, n)) /\ Went(n) \in Nat
  BY FS_Subset, FS_CardinalityType DEF ReachedBy, LeftBy
<1>3. m # 0
  <2>1. ReachedBy(acts, i, l, 0) = {} /\ LeftBy(acts, i, l, 0) = {}
    BY DEF ReachedBy, LeftBy, Listed, Action
  <2>2. Came(0) = 0 /\ Went(0) = 0
    BY <2>1, FS_EmptySet
  <2>3. Holds(0)
    BY <1>0, <2>2, AfterActionDef
  <2> QED BY <2>3
<1> DEFINE R == AfterAction(e, acts)[m-1]
           p == m - 1
<1>4. p \in Nat /\ m \in Nat /\ m = p + 1 /\ Holds(p)
  BY <1>1, <1>3
<1>5. R \in Rows /\ R[c] \in Nat
  BY <1>0, <1>4, AfterActionType, RowsAreNat
<1>6. AfterAction(e, acts)[m] = Consider(R, e.at, acts, m)
  BY <1>0, <1>3, AfterActionDef
<1>7. R[c] = e.rows[c] + Came(p) - Went(p)
  BY <1>4
<1> HIDE DEF R, p, c
<1>8. CASE ~\E a \in acts : a.id = m
  <2>1. Consider(R, e.at, acts, m) = R
    BY <1>8, ConsiderNone
  <2>2. \A a \in acts : a.id <= m <=> a.id <= p
    BY <1>0, <1>4, <1>8 DEF Action
  <2>3. ReachedBy(acts, i, l, m) = ReachedBy(acts, i, l, p) /\ LeftBy(acts, i, l, m) = LeftBy(acts, i, l, p)
    BY <2>2 DEF ReachedBy, LeftBy
  <2> QED BY <1>6, <1>7, <2>1, <2>3
<1>9. CASE \E a \in acts : a.id = m
  <2>1. PICK a \in acts : a.id = m
    BY <1>9
  <2>2. a \in Action /\ Placeable(R, e.at, a)
    BY <1>0, <2>1 DEF Stale, R
  <2>3. Consider(R, e.at, acts, m) = Split(R, e.at, a)
    BY <2>1, <2>2, ConsiderOne
  <2>4. \A b \in acts : b.id <= m <=> (b.id <= p \/ b = a)
    BY <1>0, <1>4, <2>1 DEF Action, Listed
  <2>5. ~(a.id <= p)
    BY <1>4, <2>1
  <2>6. Split(R, e.at, a)[c] =
           IF a.item = i /\ a.from = l THEN R[c] - 1
           ELSE IF a.item = i /\ a.from + 1 = l /\ StepTime(a) = 0 THEN R[c] + 1 ELSE R[c]
    BY <1>0, <1>5, <2>2, SplitIdle DEF c
  <2>7. CASE a.item = i /\ a.from = l
    <3>1. a.from + 1 # l
      BY <2>2, <2>7, OverlayAssumption DEF Action, Levels
    <3>2. LeftBy(acts, i, l, m) = LeftBy(acts, i, l, p) \cup {a} /\ a \notin LeftBy(acts, i, l, p)
      BY <2>4, <2>5, <2>7 DEF LeftBy
    <3>3. ReachedBy(acts, i, l, m) = ReachedBy(acts, i, l, p)
      BY <2>4, <3>1 DEF ReachedBy
    <3>4. Went(m) = Went(p) + 1
      BY <1>2, <1>4, <3>2, FS_AddElement
    <3> HIDE DEF Went, Came
    <3>5. Came(m) = Came(p)
      BY <3>3 DEF Came
    <3> QED BY <1>0, <1>1, <1>2, <1>4, <1>6, <1>7, <2>3, <2>6, <2>7, <3>4, <3>5 DEF c
  <2>8. CASE ~(a.item = i /\ a.from = l) /\ a.item = i /\ a.from + 1 = l /\ StepTime(a) = 0
    <3>2. ReachedBy(acts, i, l, m) = ReachedBy(acts, i, l, p) \cup {a} /\ a \notin ReachedBy(acts, i, l, p)
      BY <2>4, <2>5, <2>8 DEF ReachedBy
    <3>3. LeftBy(acts, i, l, m) = LeftBy(acts, i, l, p)
      BY <2>4, <2>8 DEF LeftBy
    <3>4. Came(m) = Came(p) + 1
      BY <1>2, <1>4, <3>2, FS_AddElement
    <3> HIDE DEF Went, Came
    <3>5. Went(m) = Went(p)
      BY <3>3 DEF Went
    <3> QED BY <1>0, <1>1, <1>2, <1>4, <1>6, <1>7, <2>3, <2>6, <2>8, <3>4, <3>5 DEF c
  <2>9. CASE ~(a.item = i /\ a.from = l) /\ ~(a.item = i /\ a.from + 1 = l /\ StepTime(a) = 0)
    <3>2. ReachedBy(acts, i, l, m) = ReachedBy(acts, i, l, p)
      BY <2>4, <2>9 DEF ReachedBy
    <3>3. LeftBy(acts, i, l, m) = LeftBy(acts, i, l, p)
      BY <2>4, <2>9 DEF LeftBy
    <3> QED BY <1>6, <1>7, <2>3, <2>6, <2>9, <3>2, <3>3
  <2> QED BY <2>7, <2>8, <2>9
<1> QED BY <1>8, <1>9

\* An action younger than those in the list that finds a copy in the overlaid
\* export finds it still when it is listed and the stale ones are gone.
THEOREM NextIsPlaced ==
  ASSUME NEW e \in Export, NEW acts, Listed(acts), NEW a \in Action, a.id > 0,
         \A b \in acts : b.id < a.id,
         Placeable(Overlaid(e, acts).rows, e.at, a)
  PROVE  a \in Applied(e, Applied(e, acts) \cup {a})
<1> DEFINE some == Applied(e, acts) \cup {a}
           k == a.id - 1
<1>1. k \in Nat /\ k \in 0..k /\ (\A b \in acts : b.id <= k) /\ ~(a.id <= k)
  BY DEF Action, Listed
<1>2. Applied(e, acts) \subseteq acts
  BY DEF Applied
<1>3. Listed(some)
  BY <1>2 DEF Listed, Action
<1>4. SkippedUpTo(e, acts, some, k)
  BY DEF SkippedUpTo, Applied, Stale
<1> HIDE DEF k
<1>5. AfterAction(e, some)[k] = AfterAction(e, acts)[k]
  <2>1. \A b \in some : b.id <= k => b \in acts
    BY <1>1, <1>2
  <2> HIDE DEF some
  <2> QED BY <1>1, <1>3, <1>4, <2>1, SameRows
<1>6. AfterAction(e, acts)[k] = AfterAction(e, acts)[LastId(acts)]
  BY <1>1, RowsPastLast
<1>7. Overlaid(e, acts).rows = AfterAction(e, acts)[LastId(acts)]
  BY DEF Overlaid, Export
<1> HIDE DEF some
<1>8. a \notin Stale(e, some)
  BY <1>5, <1>6, <1>7 DEF Stale, k
<1> QED BY <1>8 DEF Applied, some

-----------------------------------------------------------------------------
(***************************************************************************)
(* The handlers.  The history variables are left alone by most steps, so   *)
(* their tuple is expanded throughout.                                     *)
(***************************************************************************)
USE DEF history

LEMMA NewestType ==
  ASSUME NEW S, S \subseteq Export
  PROVE  /\ Newest(S) \in Export \cup {None}
         /\ Newest(S) # None => Newest(S) \in S
BY DEF Newest

LEMMA SavedType ==
  ASSUME NEW S, S \subseteq Export, NEW e \in Export
  PROVE  Saved(S, e) \subseteq Export
BY DEF Saved

LEMMA NewJobType ==
  ASSUME NEW pc \in PCs, NEW op \in AllOps \cup {"none"}, NEW t \in Tags,
         NEW e \in Export \cup {None}
  PROVE  NewJob(pc, op, t, e) \in Job
BY DEF NewJob, Job

LEMMA IdleJobType == IdleJob \in Job
<1>1. (CHOOSE t \in Tags : TRUE) \in Tags
  BY BuildNowAssumption
<1>2. "idle" \in PCs
  BY DEF PCs
<1>3. QED BY <1>1, <1>2, NewJobType DEF IdleJob

LEMMA AfterOverlayPC ==
  ASSUME NEW j PROVE AfterOverlay(j) \in {"check", "ok"}
BY DEF AfterOverlay

\* What is suggested does not matter to any proof below: checking a claim
\* rewrites two fields of its job and nothing else.
LEMMA ClaimShape ==
  ASSUME TypeOK, NEW r \in Requests, CheckClaim(r)
  PROVE  /\ job[r].pc = "check"
         /\ UNCHANGED <<snaps, pending, nextId, now, history>>
         /\ \A q \in Requests \ {r} : job'[q] = job[q]
         /\ job'[r].pc \in {"add", "conflict"}
         /\ job'[r].op = job[r].op /\ job'[r].tag = job[r].tag
         /\ job'[r].upload = job[r].upload
         /\ job'[r].acts = job[r].acts /\ job'[r].mm = job[r].mm
         /\ job'[r].snap = job[r].snap
<1> DEFINE startable == Startable(Overlaid(job[r].snap, job[r].acts), now)
<1>1. Claim(r, startable, now)
  BY DEF CheckClaim
<1> HIDE DEF startable
<1>2. PICK i \in Items, l \in Levels :
        LET ask == [item |-> i, from |-> l]
        IN job' = [job EXCEPT
             ![r].cand = IF ask \in startable THEN Candidate(ask, now) ELSE None,
             ![r].pc = IF ask \in startable THEN "add" ELSE "conflict"]
  BY <1>1 DEF Claim
<1> DEFINE ask == [item |-> i, from |-> l]
           c == IF ask \in startable THEN Candidate(ask, now) ELSE None
           pc == IF ask \in startable THEN "add" ELSE "conflict"
<1>3. job' = [job EXCEPT ![r].cand = c, ![r].pc = pc]
  BY <1>2
<1>4. pc \in {"add", "conflict"}
  OBVIOUS
<1> HIDE DEF c, pc
<1> QED BY <1>1, <1>3, <1>4 DEF Claim, TypeOK, Job

(***************************************************************************)
(* A request about to add holds a candidate and one about to save an       *)
(* export.  With the types this is inductive.                              *)
(***************************************************************************)
HasCandidate == \A r \in Requests : job[r].pc = "add" => job[r].cand \in Action
HasUpload == \A r \in Requests :
               job[r].pc \in {"prev", "save"} => job[r].upload \in Export
TypeInv == TypeOK /\ HasCandidate /\ HasUpload

LEMMA InitTypeInv == Init => TypeInv
<1> SUFFICES ASSUME Init PROVE TypeInv
  OBVIOUS
<1>1. TypeOK
  BY IdleJobType DEF Init, TypeOK
<1>2. HasCandidate
  BY DEF Init, HasCandidate, IdleJob, NewJob
<1>3. HasUpload
  BY DEF Init, HasUpload, IdleJob, NewJob
<1> QED BY <1>1, <1>2, <1>3 DEF TypeInv

LEMMA ArriveTypeInv ==
  ASSUME TypeInv, NEW r \in Requests, Arrive(r) PROVE TypeInv'
<1> USE DEF TypeInv, TypeOK, HasCandidate, HasUpload
<1>1. PICK op \in AllOps, pc \in {"recent", "prev", "remove", "forget"},
           t \in Tags, e \in Export \cup {None} :
               Start(r, op, pc, t, e) /\ (pc = "prev" => e \in Export)
  BY BuildNowAssumption
     DEF Arrive, GetReport, PostReport, PostPending, DeletePending,
         ForgetVillage, AllOps
<1>2. NewJob(pc, op, t, e) \in Job
  BY NewJobType DEF PCs
<1>3. /\ job' = [job EXCEPT ![r] = NewJob(pc, op, t, e)]
      /\ UNCHANGED <<snaps, pending, nextId, now, history>>
  BY <1>1 DEF Start
<1>4. TypeOK'
  BY <1>2, <1>3
<1>5. HasCandidate'
  BY <1>3 DEF NewJob
<1>6. HasUpload'
  BY <1>1, <1>3 DEF NewJob
<1> QED BY <1>4, <1>5, <1>6

\* Every step of a handler rewrites some fields of its own job record.
LEMMA StepTypeInv ==
  ASSUME TypeInv, NEW r \in Requests, Step(r) PROVE TypeInv'
<1> USE DEF TypeInv, TypeOK, HasCandidate, HasUpload
<1>0. /\ job[r] \in Job
      /\ job[r].tag \in Tags
      /\ snaps[job[r].tag] \subseteq Export
      /\ pending[job[r].tag] \subseteq Action
  BY DEF Job
<1>1. CASE Recent(r)
  <2>1. Newest(snaps[job[r].tag]) \in Export \cup {None}
    BY <1>0, NewestType
  <2> QED BY <1>0, <1>1, <2>1 DEF Recent, Job, PCs, Answers
<1>16. CASE RecentFails(r)
  BY <1>0, <1>16 DEF RecentFails, Job, PCs, Answers
<1>17. CASE ReadPrevFails(r)
  BY <1>0, <1>17 DEF ReadPrevFails, Job, PCs
<1>2. CASE List(r)
  BY <1>0, <1>2, AfterOverlayPC DEF List, Job, PCs, Answers
<1>3. CASE Retire(r)
  BY <1>0, <1>3, AfterOverlayPC DEF Retire, Without, Job, PCs, Answers
<1>4. CASE ReadPrev(r)
  <2>1. Newest(snaps[job[r].tag]) \in Export \cup {None}
    BY <1>0, NewestType
  <2> QED BY <1>0, <1>4, <2>1 DEF ReadPrev, Job, PCs
<1>5. CASE Save(r)
  <2>1. Saved(snaps[job[r].tag], job[r].upload) \subseteq Export
    BY <1>0, <1>5, SavedType DEF Save
  <2> QED BY <1>0, <1>5, <2>1 DEF Save, AfterSave, Job, PCs
<1>6. CASE SaveFails(r)
  BY <1>0, <1>6 DEF SaveFails, AfterSave, Job, PCs, Answers
<1>7. CASE JudgePending(r)
  BY <1>0, <1>7 DEF JudgePending, UnjudgedAfter, Mismatched, Retired, Job, PCs
<1>8. CASE DropRetired(r)
  BY <1>0, <1>8 DEF DropRetired, UnjudgedAfter, Without, Job, PCs
<1>9. CASE CheckClaim(r)
  BY <1>0, <1>9 DEF CheckClaim, Claim, Candidate, Job, Action, PCs, Answers
<1>10. CASE Add(r)
  <2> DEFINE a == [job[r].cand EXCEPT !.id = nextId]
  <2>1. a \in Action
    BY <1>10 DEF Add, Action
  <2>2. Bridging(job[r].tag, a) \subseteq Tags \X Items \X Nat
    <3>1. a.item \in Items /\ a.from + 1 \in Nat
      BY <2>1, OverlayAssumption DEF Action, Levels
    <3>2. job[r].tag \in Tags
      BY DEF Job
    <3> HIDE DEF a
    <3> QED BY <3>1, <3>2 DEF Bridging
  <2>3. /\ job' = [job EXCEPT ![r].cand = a, ![r].pc = "recent"]
        /\ pending' = [pending EXCEPT ![job[r].tag] = @ \cup {a}]
        /\ nextId' = nextId + 1 /\ UNCHANGED <<snaps, now, unread, unjudged>>
        /\ bridged' = Bridging(job[r].tag, a)
    BY <1>10 DEF Add
  <2> HIDE DEF a
  <2>4. job' \in [Requests -> Job]
    BY <1>0, <2>1, <2>3 DEF Job, PCs
  <2>5. HasCandidate' /\ HasUpload'
    BY <2>3
  <2>6. pending' \in [Tags -> SUBSET Action]
    BY <2>1, <2>3 DEF Job
  <2> QED BY <2>2, <2>3, <2>4, <2>5, <2>6
<1>11. CASE RemoveOne(r)
  BY <1>0, <1>11 DEF RemoveOne, Job, PCs
<1>12. CASE Forget(r)
  BY <1>0, <1>12 DEF Forget, Job, PCs
<1>13. CASE ForgetList(r)
  BY <1>0, <1>13 DEF ForgetList, Job, PCs, Answers
<1>14. CASE ForgetDrop(r)
  BY <1>0, <1>14 DEF ForgetDrop, Without, Job, PCs, Answers
<1>15. CASE Respond(r)
  BY <1>15, IdleJobType DEF Respond, IdleJob, NewJob
<1> QED
  BY <1>1, <1>2, <1>3, <1>4, <1>5, <1>6, <1>7, <1>8, <1>9, <1>10, <1>11,
     <1>12, <1>13, <1>14, <1>15, <1>16, <1>17 DEF Step

LEMMA NextTypeInv == TypeInv /\ [Next]_vars => TypeInv'
<1> SUFFICES ASSUME TypeInv, [Next]_vars PROVE TypeInv'
  OBVIOUS
<1>1. CASE \E r \in Requests : Arrive(r) \/ Step(r)
  BY <1>1, ArriveTypeInv, StepTypeInv
<1>2. CASE Restart
  <2>1. job' = [r \in Requests |-> IdleJob]
    BY <1>2 DEF Restart
  <2>2. IdleJob.pc = "idle"
    BY DEF IdleJob, NewJob
  <2> QED BY <1>2, <2>1, <2>2, IdleJobType DEF Restart, TypeInv, TypeOK, HasCandidate, HasUpload
<1>3. CASE Tick
  BY <1>3 DEF Tick, TypeInv, TypeOK, HasCandidate, HasUpload
<1>4. CASE UNCHANGED vars
  BY <1>4 DEF vars, TypeInv, TypeOK, HasCandidate, HasUpload
<1> QED BY <1>1, <1>2, <1>3, <1>4 DEF Next

\* The stores and the handlers' locals always hold what their types say.
THEOREM TypeCorrect == Spec => []TypeOK
<1>1. Spec => []TypeInv
  BY InitTypeInv, NextTypeInv, PTL DEF Spec
<1>2. TypeInv => TypeOK
  BY DEF TypeInv
<1> QED BY <1>1, <1>2, PTL

-----------------------------------------------------------------------------
(***************************************************************************)
(* Ids: an action in a list, or in the copy of a list a request holds, has *)
(* an id that was handed out, and no other such action has the same one.   *)
(***************************************************************************)
Held == (UNION {pending[t] : t \in Tags})
          \cup (UNION {job[r].acts : r \in Requests})

UniqueIds == \A a \in Held : /\ a.id < nextId
                             /\ \A b \in Held : a.id = b.id => a = b

\* Each step either adds one action under the next id, or leaves Held no
\* larger and nextId alone.
Grows == /\ nextId' = nextId + 1
         /\ \E a \in Action : a.id = nextId /\ Held' \subseteq Held \cup {a}
Shrinks == nextId' = nextId /\ Held' \subseteq Held

LEMMA HeldStep ==
  ASSUME TypeInv, [Next]_vars PROVE Grows \/ Shrinks
<1> USE DEF TypeInv, TypeOK
<1>1. ASSUME NEW r \in Requests, Add(r) PROVE Grows
  <2> DEFINE a == [job[r].cand EXCEPT !.id = nextId]
  <2>1. a \in Action /\ a.id = nextId
    BY <1>1 DEF Add, HasCandidate, Action
  <2>2. \A t \in Tags : pending'[t] \subseteq pending[t] \cup {a}
    BY <1>1 DEF Add
  <2>3. \A q \in Requests : job'[q].acts = job[q].acts
    BY <1>1 DEF Add, Job
  <2>4. Held' \subseteq Held \cup {a}
    BY <2>2, <2>3 DEF Held
  <2> QED BY <1>1, <2>1, <2>4 DEF Add, Grows
<1>2. ASSUME NEW r \in Requests, Arrive(r) PROVE Shrinks
  <2>1. \A q \in Requests : job'[q].acts \subseteq job[q].acts
    BY <1>2 DEF Arrive, GetReport, PostReport, PostPending, DeletePending,
                ForgetVillage, Start, NewJob, Job
  <2>2. UNCHANGED <<pending, nextId>>
    BY <1>2 DEF Arrive, GetReport, PostReport, PostPending, DeletePending,
                ForgetVillage, Start
  <2> QED BY <2>1, <2>2 DEF Held, Shrinks
<1>3. ASSUME NEW r \in Requests, Step(r), ~Add(r) PROVE Shrinks
  <2>1. nextId' = nextId
    BY <1>3, ClaimShape DEF Step, Recent, RecentFails, List, Retire, ReadPrev,
       ReadPrevFails, Save,
         SaveFails, JudgePending, DropRetired, RemoveOne, Forget, ForgetList,
         ForgetDrop, Respond
  <2>2. \A t \in Tags : pending'[t] \subseteq pending[t]
    <3>1. CASE CheckClaim(r)
      BY <3>1, ClaimShape
    <3>2. CASE ~CheckClaim(r)
      BY <1>3, <3>2 DEF Step, Recent, RecentFails, List, Retire, ReadPrev,
       ReadPrevFails, Save, SaveFails,
           JudgePending, DropRetired, RemoveOne, Forget, ForgetList,
           ForgetDrop, Respond, Without
    <3> QED BY <3>1, <3>2
  <2>3. \A q \in Requests : job'[q].acts \subseteq job[q].acts
                              \/ \E t \in Tags : job'[q].acts = pending[t]
    <3>1. job[r].tag \in Tags
      BY DEF Job
    <3>2. CASE List(r) \/ JudgePending(r) \/ ForgetList(r)
      BY <3>1, <3>2 DEF List, JudgePending, ForgetList, Job
    <3>3. CASE Respond(r)
      BY <3>3 DEF Respond, IdleJob, NewJob, Job
    <3>4. CASE \/ Recent(r) \/ RecentFails(r) \/ Retire(r)
               \/ ReadPrev(r) \/ ReadPrevFails(r) \/ Save(r)
               \/ SaveFails(r) \/ DropRetired(r)
               \/ RemoveOne(r) \/ Forget(r) \/ ForgetDrop(r)
      BY <3>4 DEF Recent, RecentFails, Retire, ReadPrev, ReadPrevFails, Save, SaveFails,
           DropRetired, RemoveOne, Forget, ForgetDrop, Job
    <3>5. CASE CheckClaim(r)
      BY <3>5, ClaimShape DEF Job
    <3> QED BY <1>3, <3>2, <3>3, <3>4, <3>5 DEF Step
  <2> QED BY <2>1, <2>2, <2>3 DEF Held, Shrinks
<1>4. CASE Restart
  <2>1. \A t \in Tags : pending'[t] = {}
    BY <1>4 DEF Restart
  <2>2. \A r \in Requests : job'[r].acts = {}
    BY <1>4 DEF Restart, IdleJob, NewJob
  <2> QED BY <1>4, <2>1, <2>2 DEF Held, Shrinks, Restart
<1>5. CASE Tick \/ UNCHANGED vars
  BY <1>5 DEF Tick, vars, Held, Shrinks
<1> QED BY <1>1, <1>2, <1>3, <1>4, <1>5 DEF Next

LEMMA UniqueIdsInv == Spec => []UniqueIds
<1>1. Init => UniqueIds
  BY DEF Init, UniqueIds, Held, IdleJob, NewJob
<1>2. TypeInv /\ UniqueIds /\ [Next]_vars => UniqueIds'
  <2> SUFFICES ASSUME TypeInv, UniqueIds, [Next]_vars PROVE UniqueIds'
    OBVIOUS
  <2>0. nextId \in Nat /\ \A a \in Held : a \in Action
    BY DEF TypeInv, TypeOK, Held, Job
  <2>1. CASE Grows
    BY <2>0, <2>1 DEF Grows, UniqueIds, Action
  <2>2. CASE Shrinks
    BY <2>2 DEF Shrinks, UniqueIds
  <2> QED BY <2>1, <2>2, HeldStep
<1>3. Spec => []TypeInv
  BY InitTypeInv, NextTypeInv, PTL DEF Spec
<1> QED BY <1>1, <1>2, <1>3, PTL DEF Spec

\* An upgrade declared between a handler's List and its Remove is not lost:
\* what is removed was listed, and ids tell actions apart.
THEOREM ClaimsSurvive == Spec => ConcurrentClaimSurvives
<1>1. ASSUME TypeInv, UniqueIds, NEW r \in Requests, NEW t \in Tags,
             Retire(r) \/ DropRetired(r) \/ ForgetDrop(r)
      PROVE  pending[t] \ job[r].acts \subseteq pending'[t]
  <2>1. PICK gone \in SUBSET job[r].acts :
          pending' = [pending EXCEPT ![job[r].tag] = Without(@, gone)]
    BY <1>1 DEF Retire, DropRetired, ForgetDrop, Stale, Retired
  <2>2. pending \in [Tags -> SUBSET Action]
    BY <1>1 DEF TypeInv, TypeOK
  <2>3. ASSUME NEW a \in pending[t], a \notin job[r].acts, NEW g \in gone
        PROVE  a.id # g.id
    BY <1>1, <2>1, <2>3 DEF UniqueIds, Held
  <2> QED BY <2>1, <2>2, <2>3 DEF Without
<1>2. Spec => []TypeInv
  BY InitTypeInv, NextTypeInv, PTL DEF Spec
<1>3. TypeInv /\ UniqueIds /\ [Next]_vars =>
        [\A r \in Requests :
           \/ Retire(r) \/ DropRetired(r) \/ ForgetDrop(r)
           => \A t \in Tags : pending[t] \ job[r].acts \subseteq pending'[t]]_vars
  BY <1>1
<1> QED BY <1>2, <1>3, UniqueIdsInv, PTL DEF Spec, ConcurrentClaimSurvives

-----------------------------------------------------------------------------
(* The handlers implement Declarations.                                    *)

Live == UNION {{<<t, a.id>> : a \in pending[t]} : t \in Tags}

LEMMA LiveStep ==
  ASSUME TypeInv, [Next]_vars
  PROVE  \/ /\ nextId' = nextId + 1
            /\ \E t \in Tags : Live' = Live \cup {<<t, nextId>>}
         \/ nextId' = nextId /\ Live' \subseteq Live
<1> USE DEF TypeInv, TypeOK
<1>1. ASSUME NEW r \in Requests, Add(r)
      PROVE  /\ nextId' = nextId + 1
             /\ \E t \in Tags : Live' = Live \cup {<<t, nextId>>}
  <2> DEFINE tag == job[r].tag
             a == [job[r].cand EXCEPT !.id = nextId]
  <2>1. tag \in Tags /\ a.id = nextId
    BY <1>1 DEF Add, HasCandidate, Action, Job
  <2>2. /\ pending'[tag] = pending[tag] \cup {a}
        /\ \A t \in Tags \ {tag} : pending'[t] = pending[t]
    BY <1>1, <2>1 DEF Add
  <2> HIDE DEF a
  <2>3. ASSUME NEW x
        PROVE  (x \in Live') <=> (x \in Live \/ x = <<tag, nextId>>)
    <3>1. x \in Live' <=>
            \E t \in Tags : \E b \in pending'[t] : x = <<t, b.id>>
      BY DEF Live
    <3>2. x \in Live <=>
            \E t \in Tags : \E b \in pending[t] : x = <<t, b.id>>
      BY DEF Live
    <3> QED BY <2>1, <2>2, <3>1, <3>2
  <2>4. Live' = Live \cup {<<tag, nextId>>}
    BY <2>3
  <2> QED BY <1>1, <2>1, <2>4 DEF Add
<1>2. ASSUME nextId' = nextId, \A t \in Tags : pending'[t] \subseteq pending[t]
      PROVE  nextId' = nextId /\ Live' \subseteq Live
  BY <1>2 DEF Live
<1>3. ASSUME NEW r \in Requests, Arrive(r)
      PROVE  UNCHANGED <<pending, nextId>>
  BY <1>3 DEF Arrive, GetReport, PostReport, PostPending, DeletePending,
              ForgetVillage, Start
<1>4. ASSUME NEW r \in Requests, Step(r), ~Add(r)
      PROVE  nextId' = nextId /\ \A t \in Tags : pending'[t] \subseteq pending[t]
  <2>1. CASE CheckClaim(r)
    BY <2>1, ClaimShape
  <2>2. CASE Retire(r) \/ DropRetired(r) \/ RemoveOne(r) \/ ForgetDrop(r)
    BY <2>2 DEF Retire, DropRetired, RemoveOne, ForgetDrop, Without
  <2>3. CASE \/ Recent(r) \/ RecentFails(r) \/ List(r) \/ ReadPrev(r)
             \/ ReadPrevFails(r) \/ Save(r) \/ SaveFails(r)
             \/ JudgePending(r) \/ Forget(r) \/ ForgetList(r) \/ Respond(r)
    BY <2>3 DEF Recent, RecentFails, List, ReadPrev, ReadPrevFails, Save, SaveFails, JudgePending, Forget,
         ForgetList, Respond
  <2> QED BY <1>4, <2>1, <2>2, <2>3 DEF Step
<1>5. CASE Restart \/ Tick \/ UNCHANGED vars
  BY <1>2, <1>5 DEF Restart, Tick, vars
<1> QED BY <1>1, <1>2, <1>3, <1>4, <1>5 DEF Next

\* Every behaviour of the handlers is one of Declarations: an upgrade is
\* declared once, under a fresh id, and never returns once it is gone.
THEOREM HandlersImplementDeclarations == Spec => DeclaredOnce
<1>1. Init => Decl!Init
  BY DEF Init, Decl!Init
<1>2. TypeInv /\ [Next]_vars => [Decl!Next]_(Decl!vars)
  <2> SUFFICES ASSUME TypeInv, [Next]_vars PROVE Decl!Next
    OBVIOUS
  <2>1. CASE \E t \in Tags : Live' = Live \cup {<<t, nextId>>}
                            /\ nextId' = nextId + 1
    BY <2>1 DEF Live, Decl!Next, Decl!Declare
  <2>2. CASE nextId' = nextId /\ Live' \subseteq Live
    BY <2>2 DEF Live, Decl!Next, Decl!Withdraw
  <2> QED BY <2>1, <2>2, LiveStep
<1>3. Spec => []TypeInv
  BY InitTypeInv, NextTypeInv, PTL DEF Spec
<1> QED BY <1>1, <1>2, <1>3, PTL DEF Spec, DeclaredOnce, Decl!Spec

-----------------------------------------------------------------------------
(***************************************************************************)
(* In a hosted deployment whose store neither trims nor forgets, an upload *)
(* past its Save has its export in the store for good.                     *)
(***************************************************************************)
StoredBy(r) == \E s \in snaps[job[r].tag] : s.at = job[r].upload.at

UploadStored == \A r \in Requests : job[r].op = "post" =>
                  \/ job[r].pc \in {"prev", "save", "error"} /\ job[r].mm = {}
                  \/ StoredBy(r)

LEMMA SavedKeeps ==
  ASSUME SnapLimit = 0, NEW S, NEW e
  PROVE  S \subseteq Saved(S, e) /\ \E s \in Saved(S, e) : s.at = e.at
BY DEF Saved

\* Nothing but the upload itself touches its job, and snapshots only grow.
LEMMA OthersKeepStored ==
  ASSUME TypeInv, UploadStored, NEW r \in Requests,
         \A q \in Requests \ {r} : job'[q] = job[q],
         \A t \in Tags : snaps[t] \subseteq snaps'[t],
         job'[r].op = "post" => \/ job'[r].pc \in {"prev", "save", "error"}
                                  /\ job'[r].mm = {}
                               \/ StoredBy(r)'
  PROVE  UploadStored'
<1>1. ASSUME NEW q \in Requests \ {r}, StoredBy(q) PROVE StoredBy(q)'
  BY <1>1 DEF StoredBy, TypeInv, TypeOK, Job
<1> QED BY <1>1 DEF UploadStored

LEMMA StepKeepsStored ==
  ASSUME Hosted, SnapLimit = 0, "forget" \notin Ops,
         TypeInv, UploadStored, NEW r \in Requests, Step(r),
         job[r].pc \notin {"forget", "forgetList", "forgetDrop"}
  PROVE  UploadStored'
<1> USE DEF TypeInv, TypeOK
<1>1. /\ job[r].tag \in Tags
      /\ job[r] \in Job
  BY DEF Job
<1>2. \A q \in Requests \ {r} : job'[q] = job[q]
  <2>1. CASE CheckClaim(r)
    BY <2>1, ClaimShape
  <2>2. CASE ~CheckClaim(r)
    BY <2>2 DEF Step, Recent, RecentFails, List, Retire, ReadPrev,
       ReadPrevFails, Save, SaveFails,
         JudgePending, DropRetired, Add, RemoveOne, Forget, ForgetList,
         ForgetDrop, Respond
  <2> QED BY <2>1, <2>2
<1>3. CASE Save(r)
  <2>1. /\ \A t \in Tags : snaps[t] \subseteq snaps'[t]
        /\ \E s \in snaps'[job[r].tag] : s.at = job[r].upload.at
    BY <1>1, <1>3, SavedKeeps DEF Save
  <2>2. job'[r].tag = job[r].tag /\ job'[r].upload = job[r].upload
    BY <1>1, <1>3 DEF Save, Job
  <2> QED BY <1>2, <2>1, <2>2, OthersKeepStored DEF StoredBy
<1>4. CASE ReadPrev(r) \/ ReadPrevFails(r)
  <2>1. UNCHANGED snaps /\ job'[r].pc = "save" /\ job[r].pc = "prev"
        /\ job'[r].mm = job[r].mm /\ job'[r].op = job[r].op
        /\ job'[r].tag = job[r].tag /\ job'[r].upload = job[r].upload
    BY <1>1, <1>4 DEF ReadPrev, ReadPrevFails, Job
  <2> QED BY <1>2, <2>1, OthersKeepStored DEF StoredBy, UploadStored
<1>5. CASE SaveFails(r)
  <2>1. UNCHANGED snaps /\ job'[r].pc = "error"
        /\ job'[r].mm = job[r].mm /\ job'[r].op = job[r].op
        /\ job'[r].tag = job[r].tag /\ job'[r].upload = job[r].upload
    BY <1>1, <1>5 DEF SaveFails, Job
  <2> QED BY <1>2, <2>1, OthersKeepStored DEF StoredBy, UploadStored
<1>6. CASE Respond(r)
  <2>1. UNCHANGED snaps /\ job'[r].op = "none"
    BY <1>1, <1>6 DEF Respond, IdleJob, NewJob
  <2> QED BY <1>2, <2>1, OthersKeepStored
<1>7. CASE \/ Recent(r) \/ RecentFails(r) \/ List(r) \/ Retire(r) \/ JudgePending(r)
           \/ DropRetired(r) \/ Add(r) \/ RemoveOne(r)
  <2>1. /\ UNCHANGED snaps
        /\ job[r].pc \notin {"prev", "save", "error"}
        /\ job'[r].op = job[r].op /\ job'[r].tag = job[r].tag
        /\ job'[r].upload = job[r].upload
    BY <1>1, <1>7 DEF Recent, RecentFails, List, Retire, JudgePending,
         DropRetired, Add, RemoveOne, Job
  <2> QED BY <1>2, <2>1, OthersKeepStored DEF StoredBy, UploadStored
<1>8. CASE CheckClaim(r)
  BY <1>8, ClaimShape, OthersKeepStored DEF StoredBy, UploadStored
<1> QED BY <1>3, <1>4, <1>5, <1>6, <1>7, <1>8
        DEF Step, Forget, ForgetList, ForgetDrop

NoForget == \A r \in Requests :
              job[r].pc \notin {"forget", "forgetList", "forgetDrop"}

LEMMA NoneForgets ==
  ASSUME "forget" \notin Ops, TypeInv, NoForget, [Next]_vars PROVE NoForget'
<1> USE DEF TypeInv, TypeOK, NoForget
<1>1. ASSUME NEW r \in Requests, Arrive(r) PROVE NoForget'
  BY <1>1 DEF Arrive, GetReport, PostReport, PostPending, DeletePending,
              ForgetVillage, Start, NewJob
<1>2. ASSUME NEW r \in Requests, Step(r) PROVE NoForget'
  <2>1. CASE CheckClaim(r)
    BY <2>1, ClaimShape
  <2>2. CASE ~CheckClaim(r)
    BY <1>2, <2>2, AfterOverlayPC
       DEF Step, Recent, RecentFails, List, Retire, ReadPrev,
       ReadPrevFails, Save, SaveFails,
           JudgePending, DropRetired, Add, RemoveOne, Forget, ForgetList,
           ForgetDrop, Respond, IdleJob, NewJob, AfterSave, Job
  <2> QED BY <2>1, <2>2
<1>3. CASE Restart
  BY <1>3 DEF Restart, IdleJob, NewJob
<1>4. CASE Tick \/ UNCHANGED vars
  BY <1>4 DEF Tick, vars
<1> QED BY <1>1, <1>2, <1>3, <1>4 DEF Next

\* Hosted uploads judge declared upgrades only by an export that is stored,
\* whatever saves fail and whatever else is in flight.
THEOREM HostedJudgesByStored ==
  ASSUME Hosted, SnapLimit = 0, "forget" \notin Ops
  PROVE  Spec => []JudgedByStoredExport
<1>1. Spec => []TypeInv
  BY InitTypeInv, NextTypeInv, PTL DEF Spec
<1>2. Init => NoForget /\ UploadStored
  BY DEF Init, NoForget, UploadStored, IdleJob, NewJob
<1>3. TypeInv /\ NoForget /\ [Next]_vars => NoForget'
  BY NoneForgets
<1>4. TypeInv /\ NoForget /\ UploadStored /\ [Next]_vars => UploadStored'
  <2> SUFFICES ASSUME TypeInv, NoForget, UploadStored, [Next]_vars
               PROVE  UploadStored'
    OBVIOUS
  <2>1. ASSUME NEW r \in Requests, Arrive(r) PROVE UploadStored'
    <3>1. /\ UNCHANGED snaps
          /\ \A q \in Requests \ {r} : job'[q] = job[q]
          /\ job'[r].op = "post" => job'[r].pc = "prev" /\ job'[r].mm = {}
      BY <2>1 DEF Arrive, GetReport, PostReport, PostPending, DeletePending,
                  ForgetVillage, Start, NewJob, TypeInv, TypeOK
    <3> QED BY <3>1, OthersKeepStored
  <2>2. ASSUME NEW r \in Requests, Step(r) PROVE UploadStored'
    BY <2>2, StepKeepsStored DEF NoForget
  <2>3. CASE Restart
    BY <2>3 DEF Restart, UploadStored, IdleJob, NewJob
  <2>4. CASE Tick \/ UNCHANGED vars
    BY <2>4 DEF Tick, vars, UploadStored, StoredBy
  <2> QED BY <2>1, <2>2, <2>3, <2>4 DEF Next
<1>5. UploadStored => JudgedByStoredExport
  BY DEF UploadStored, JudgedByStoredExport, StoredBy
<1> QED BY <1>1, <1>2, <1>3, <1>4, <1>5, PTL DEF Spec

-----------------------------------------------------------------------------
(* The handlers use the snapshots as a snapshot store.                     *)

AllFinite == \A t \in Tags : IsFiniteSet(snaps[t])

Times(S) == {s.at : s \in S}

\* Whatever the limit trims, something as new as each snapshot stays, and only
\* the one saved is new.
LEMMA SavedSpares ==
  ASSUME NEW S \in SUBSET Export, IsFiniteSet(S), NEW e \in Export
  PROVE  /\ IsFiniteSet(Saved(S, e))
         /\ Times(Saved(S, e)) \subseteq Times(S) \cup {e.at}
         /\ Store!Spares(Times(S), Times(Saved(S, e)))
<1>1. \A s \in S \cup {e} : s.at \in Nat
  BY DEF Export
<1>2. CASE \E s \in S : s.at = e.at
  <2>1. Saved(S, e) = S
    BY <1>2 DEF Saved
  <2>2. \A at \in Times(S) : at >= at
    BY <1>1 DEF Times
  <2>3. QED BY <2>1, <2>2 DEF Store!Spares
<1>3. CASE ~ \E s \in S : s.at = e.at
  <2> DEFINE all == S \cup {e}
             newerThan(s) == {other \in all : other.at > s.at}
  <2>1. Saved(S, e) = {s \in all : SnapLimit = 0 \/ Cardinality(newerThan(s)) < SnapLimit}
    BY <1>3 DEF Saved
  <2>2. IsFiniteSet(all) /\ Saved(S, e) \subseteq all
    BY <2>1, FS_AddElement
  <2>3. ASSUME NEW s \in S PROVE \E m \in Saved(S, e) : m.at >= s.at
    <3>1. PICK m \in all : m.at >= s.at /\ \A o \in all : o.at <= m.at
      BY <1>1, <2>2, HasNewestOf
    <3>2. newerThan(m) = {}
      BY <1>1, <3>1
    <3>3. Cardinality(newerThan(m)) = 0
      BY <3>2, FS_EmptySet
    <3>4. SnapLimit = 0 \/ 0 < SnapLimit
      BY BuildNowAssumption
    <3>5. m \in Saved(S, e)
      BY <2>1, <3>3, <3>4
    <3>6. QED BY <3>1, <3>5
  <2>4. IsFiniteSet(Saved(S, e))
    BY <2>2, FS_Subset
  <2> HIDE DEF all
  <2>5. Store!Spares(Times(S), Times(Saved(S, e)))
    BY <2>3 DEF Times, Store!Spares
  <2>6. Times(Saved(S, e)) \subseteq Times(S) \cup {e.at}
    BY <2>2 DEF Times, all
  <2>7. QED BY <2>4, <2>5, <2>6
<1>4. QED BY <1>2, <1>3

\* What changes the snapshots.
LEMMA SnapsChange ==
  ASSUME TypeInv, [Next]_vars
  PROVE  \/ \E r \in Requests : Save(r) \/ Forget(r)
         \/ Restart
         \/ snaps' = snaps
<1>1. ASSUME NEW r \in Requests, CheckClaim(r) PROVE snaps' = snaps
  BY <1>1, ClaimShape DEF TypeInv
<1>2. QED
  BY <1>1 DEF Next, Arrive, GetReport, PostReport, PostPending, DeletePending,
     ForgetVillage, Start, Step, Recent, RecentFails, List, Retire, ReadPrev,
       ReadPrevFails, SaveFails,
     JudgePending, DropRetired, Add, RemoveOne, ForgetList, ForgetDrop, Respond,
     Tick, vars

LEMMA SaveSaves ==
  ASSUME TypeInv, AllFinite, NEW r \in Requests, Save(r)
  PROVE  /\ AllFinite'
         /\ Store!Save
<1>1. PICK tag \in Tags, e \in Export : tag = job[r].tag /\ e = job[r].upload
  BY DEF TypeInv, TypeOK, HasUpload, Save, Job
<1>2. /\ snaps' = [snaps EXCEPT ![tag] = Saved(@, e)]
      /\ job' = [job EXCEPT ![r].pc = AfterSave(job[r])] /\ job[r].pc = "save"
  BY <1>1 DEF Save
<1>3. /\ snaps'[tag] = Saved(snaps[tag], e)
      /\ \A t \in Tags \ {tag} : snaps'[t] = snaps[t]
      /\ snaps[tag] \in SUBSET Export
  BY <1>2 DEF TypeInv, TypeOK
<1>4. /\ IsFiniteSet(snaps'[tag])
      /\ Times(snaps'[tag]) \subseteq Times(snaps[tag]) \cup {e.at}
      /\ Store!Spares(Times(snaps[tag]), Times(snaps'[tag]))
  BY <1>3, SavedSpares DEF AllFinite
<1>5. AllFinite'
  BY <1>3, <1>4 DEF AllFinite
<1>6. Times(snaps'[tag]) \subseteq Nat
  <2>1. snaps'[tag] \subseteq Export
    BY <1>3, SavedType
  <2>2. QED BY <2>1 DEF Times, Export
<1>7. {job'[q].tag : q \in {k \in Requests : job'[k].pc = "forget"}} =
      {job[q].tag : q \in {k \in Requests : job[k].pc = "forget"}}
  <2>1. /\ \A q \in Requests \ {r} : job'[q] = job[q]
        /\ job'[r].pc # "forget" /\ job[r].pc # "forget"
    BY <1>2 DEF TypeInv, TypeOK, AfterSave, Job
  <2>2. QED BY <2>1
<1>8. \A new, other \in Times(snaps'[tag]) \ Times(snaps[tag]) : new = other
  BY <1>4
<1>9. Store!Save
  BY <1>3, <1>4, <1>6, <1>7, <1>8 DEF Store!Save, Times
<1>10. QED BY <1>5, <1>9

\* For any number of requests and any limit, the handlers and their restarts
\* only lose a village's newest snapshot by forgetting the village or with a
\* store that dies with the process (Store.Save, Forget).
THEOREM HandlersImplementStore == Spec => ImplementsStore
<1>1. Init => AllFinite /\ Store!Init
  <2> SUFFICES ASSUME Init PROVE AllFinite /\ Store!Init
    OBVIOUS
  <2>1. AllFinite
    BY FS_EmptySet DEF Init, AllFinite
  <2>2. \A r \in Requests : job[r].pc = "idle"
    BY DEF Init, IdleJob, NewJob
  <2>3. QED BY <2>1, <2>2 DEF Init, Store!Init
<1>2. TypeInv /\ AllFinite /\ [Next]_vars => AllFinite' /\ [Store!Next]_(Store!vars)
  <2> SUFFICES ASSUME TypeInv, AllFinite, [Next]_vars
               PROVE  AllFinite' /\ Store!Next
    OBVIOUS
  <2> DEFINE forgetting == {job[q].tag : q \in {k \in Requests : job[k].pc = "forget"}}
  <2>1. forgetting' \subseteq Tags
    BY NextTypeInv DEF TypeInv, TypeOK, Job
  <2>2. ASSUME NEW r \in Requests, Save(r) PROVE AllFinite' /\ Store!Next
    BY <2>2, SaveSaves DEF Store!Next
  <2>3. ASSUME NEW r \in Requests, Forget(r) PROVE AllFinite' /\ Store!Next
    <3>1. PICK tag \in Tags : tag = job[r].tag
      BY DEF TypeInv, TypeOK, Job
    <3>2. snaps'[tag] = {} /\ \A t \in Tags \ {tag} : snaps'[t] = snaps[t]
      BY <2>3, <3>1 DEF Forget, TypeInv, TypeOK
    <3>3. tag \in forgetting
      BY <2>3, <3>1 DEF Forget
    <3>4. AllFinite'
      BY <3>2, FS_EmptySet DEF AllFinite
    <3> HIDE DEF forgetting
    <3>5. \A t \in Tags : /\ Times(snaps'[t]) \subseteq Times(snaps[t])
                          /\ t \notin forgetting => Times(snaps'[t]) = Times(snaps[t])
      BY <3>2, <3>3 DEF Times
    <3>6. Store!Forget
      BY <3>5 DEF Store!Forget, Times, forgetting
    <3>7. QED BY <3>4, <3>6 DEF Store!Next
  <2>4. CASE snaps' = snaps
    <3>1. [t \in Tags |-> {s.at : s \in snaps[t]}]' = [t \in Tags |-> {s.at : s \in snaps[t]}]
      BY <2>4
    <3>2. Store!Turn
      BY <2>1, <3>1 DEF Store!Turn
    <3>3. QED BY <2>4, <3>2 DEF AllFinite, Store!Next
  <2>5. CASE Restart /\ snaps' # snaps
    <3>1. ~Durable /\ \A t \in Tags : snaps'[t] = {}
      BY <2>5 DEF Restart
    <3>2. AllFinite'
      BY <3>1, FS_EmptySet DEF AllFinite
    <3>3. Store!Restart
      BY <2>1, <3>1 DEF Store!Restart
    <3>4. QED BY <3>2, <3>3 DEF Store!Next
  <2>6. QED BY <2>2, <2>3, <2>4, <2>5, SnapsChange
<1>3. QED BY <1>1, <1>2, InitTypeInv, NextTypeInv, PTL
          DEF Spec, ImplementsStore, Store!Spec

-----------------------------------------------------------------------------
(***************************************************************************)
(* An upload past its Save has something as new as itself in the store,    *)
(* whatever is trimmed, and past its last read has it at hand.             *)
(***************************************************************************)
Covered(r) == \E s \in snaps[job[r].tag] : s.at >= job[r].upload.at

OnItsWay(r) ==
  /\ job[r].upload \in Export
  /\ \/ job[r].pc \in {"prev", "save", "error"}
     \/ job[r].pc \in {"reconcile", "drop", "recent"} /\ Covered(r)
     \/ /\ job[r].pc \in {"list", "retire", "ok"}
        /\ job[r].snap.at >= job[r].upload.at

UploadsOnTheirWay == \A r \in Requests : job[r].op = "post" => OnItsWay(r)

\* Of finitely many snapshots, Newest is the newest.
LEMMA NewestIsLatest ==
  ASSUME NEW S \in SUBSET Export, IsFiniteSet(S), NEW s \in S
  PROVE  Newest(S) # None /\ Newest(S).at >= s.at
<1>1. \A o \in S : o.at \in Nat
  BY DEF Export
<1>2. PICK m \in S : m.at >= s.at /\ \A o \in S : o.at <= m.at
  BY <1>1, HasNewestOf
<1>3. /\ Newest(S) \in S
      /\ \A o \in S : o.at <= Newest(S).at
  BY <1>2 DEF Newest
<1>4. QED BY <1>1, <1>3, BuildNowAssumption

\* A step of r leaves the other uploads on their way if it spares their
\* village's newest snapshot.
LEMMA OthersStayOnTheirWay ==
  ASSUME TypeInv, TypeInv', UploadsOnTheirWay, NEW r \in Requests,
         \A q \in Requests \ {r} : job'[q] = job[q],
         \A t \in Tags : \A s \in snaps[t] : \E n \in snaps'[t] : n.at >= s.at,
         job'[r].op = "post" => OnItsWay(r)'
  PROVE  UploadsOnTheirWay'
<1>1. ASSUME NEW q \in Requests \ {r}, job[q].upload \in Export, Covered(q)
      PROVE  Covered(q)'
  <2>1. job'[q] = job[q] /\ job[q].tag \in Tags
    BY DEF TypeInv, TypeOK, Job
  <2>2. PICK s \in snaps[job[q].tag] : s.at >= job[q].upload.at
    BY <1>1 DEF Covered
  <2>3. PICK n \in snaps'[job[q].tag] : n.at >= s.at
    BY <2>1
  <2>4. s.at \in Nat /\ n.at \in Nat /\ job[q].upload.at \in Nat
    BY <1>1, <2>1 DEF TypeInv, TypeOK, Export
  <2>5. QED BY <2>1, <2>2, <2>3, <2>4 DEF Covered
<1>2. ASSUME NEW q \in Requests \ {r}, job[q].op = "post" PROVE OnItsWay(q)'
  BY <1>1, <1>2 DEF UploadsOnTheirWay, OnItsWay
<1>3. QED BY <1>2 DEF UploadsOnTheirWay

\* A save leaves something as new as what it saved, even if the limit trims that.
LEMMA SavedHolds ==
  ASSUME NEW S \in SUBSET Export, IsFiniteSet(S), NEW e \in Export
  PROVE  \E s \in Saved(S, e) : s.at >= e.at
<1> DEFINE all == S \cup {e}
           newerThan(s) == {other \in all : other.at > s.at}
<1>1. \A o \in all : o.at \in Nat
  BY DEF Export
<1>2. CASE \E s \in S : s.at = e.at
  BY <1>1, <1>2 DEF Saved
<1>3. CASE ~ \E s \in S : s.at = e.at
  <2>1. Saved(S, e) = {s \in all : SnapLimit = 0 \/ Cardinality(newerThan(s)) < SnapLimit}
    BY <1>3 DEF Saved
  <2>2. IsFiniteSet(all)
    BY FS_AddElement
  <2>3. PICK m \in all : m.at >= e.at /\ \A o \in all : o.at <= m.at
    BY <1>1, <2>2, HasNewestOf
  <2>4. newerThan(m) = {}
    BY <1>1, <2>3
  <2>5. Cardinality(newerThan(m)) = 0
    BY <2>4, FS_EmptySet
  <2>6. SnapLimit = 0 \/ 0 < SnapLimit
    BY BuildNowAssumption
  <2>7. m \in Saved(S, e)
    BY <2>1, <2>5, <2>6
  <2>8. QED BY <2>3, <2>7
<1>4. QED BY <1>2, <1>3

\* A step of r itself keeps its upload on its way.
LEMMA StepStaysOnItsWay ==
  ASSUME Hosted \/ ~SaveMayFail, TypeInv, TypeInv', AllFinite, NoForget,
         UploadsOnTheirWay, NEW r \in Requests, Step(r), job'[r].op = "post"
  PROVE  OnItsWay(r)'
<1> USE DEF TypeInv, TypeOK
<1>1. job[r] \in Job /\ job[r].tag \in Tags
  BY DEF Job
<1>2. CASE Save(r)
  <2>1. /\ job'[r].op = job[r].op /\ job'[r].tag = job[r].tag
        /\ job'[r].upload = job[r].upload
        /\ job'[r].pc \in {"recent", "reconcile"}
        /\ snaps'[job[r].tag] = Saved(snaps[job[r].tag], job[r].upload)
    BY <1>1, <1>2 DEF Save, AfterSave, Job
  <2>2. job[r].upload \in Export /\ job[r].upload.at \in Nat
    BY <1>2 DEF Save, HasUpload, Export
  <2>3. \E s \in Saved(snaps[job[r].tag], job[r].upload) : s.at >= job[r].upload.at
    BY <1>1, <2>2, SavedHolds DEF AllFinite
  <2>4. QED BY <2>1, <2>2, <2>3 DEF OnItsWay, Covered
<1>3. CASE Recent(r)
  <2>1. /\ UNCHANGED snaps
        /\ job'[r].op = job[r].op /\ job'[r].tag = job[r].tag
        /\ job'[r].upload = job[r].upload
        /\ job'[r].snap = Newest(snaps[job[r].tag])
        /\ job'[r].pc = IF job'[r].snap = None THEN "notfound" ELSE "list"
        /\ job[r].pc = "recent"
    BY <1>1, <1>3 DEF Recent, Job
  <2>2. job[r].upload \in Export /\ Covered(r)
    BY <2>1 DEF UploadsOnTheirWay, OnItsWay
  <2>3. PICK s \in snaps[job[r].tag] : s.at >= job[r].upload.at
    BY <2>2 DEF Covered
  <2>4. Newest(snaps[job[r].tag]) # None /\ Newest(snaps[job[r].tag]).at >= s.at
    BY <1>1, NewestIsLatest DEF AllFinite
  <2>5. /\ s.at \in Nat /\ job[r].upload.at \in Nat
        /\ Newest(snaps[job[r].tag]).at \in Nat
    BY <1>1, <2>2, <2>4, NewestType DEF Export
  <2>6. job'[r].snap.at >= job'[r].upload.at
    BY <2>1, <2>3, <2>4, <2>5
  <2>7. QED BY <2>1, <2>2, <2>4, <2>6 DEF OnItsWay
<1>4. CASE ReadPrev(r) \/ ReadPrevFails(r) \/ SaveFails(r)
  <2>1. /\ job'[r].upload = job[r].upload /\ job'[r].pc \in {"save", "error"}
        /\ job[r].upload \in Export
    BY <1>1, <1>4 DEF ReadPrev, ReadPrevFails, SaveFails, HasUpload, Job
  <2>2. QED BY <2>1 DEF OnItsWay
<1>5. CASE Respond(r)
  BY <1>1, <1>5 DEF Respond, IdleJob, NewJob
<1>11. CASE RecentFails(r)
  <2>1. /\ job'[r].upload = job[r].upload /\ job'[r].pc = "error"
        /\ job'[r].op = job[r].op /\ job[r].pc = "recent"
    BY <1>1, <1>11 DEF RecentFails, Job
  <2>2. QED BY <2>1 DEF UploadsOnTheirWay, OnItsWay
<1>6. CASE JudgePending(r) \/ DropRetired(r)
  <2>1. /\ UNCHANGED snaps
        /\ job'[r].op = job[r].op /\ job'[r].tag = job[r].tag
        /\ job'[r].upload = job[r].upload
        /\ job'[r].pc \in {"drop", "recent"}
        /\ job[r].pc \in {"reconcile", "drop"}
    BY <1>1, <1>6 DEF JudgePending, DropRetired, Job
  <2>2. QED BY <2>1 DEF UploadsOnTheirWay, OnItsWay, Covered
<1>7. CASE List(r) \/ Retire(r)
  <2>1. /\ job'[r].op = job[r].op /\ job'[r].tag = job[r].tag
        /\ job'[r].upload = job[r].upload /\ job'[r].snap = job[r].snap
        /\ job[r].pc \in {"list", "retire"}
        /\ job'[r].pc \in {AfterOverlay(job[r]), "retire"}
    BY <1>1, <1>7 DEF List, Retire, Job
  <2>2. AfterOverlay(job[r]) = "ok"
    BY <2>1 DEF AfterOverlay
  <2>3. QED BY <2>1, <2>2 DEF UploadsOnTheirWay, OnItsWay
<1>8. CASE CheckClaim(r)
  BY <1>8, ClaimShape DEF UploadsOnTheirWay, OnItsWay
<1>9. CASE Add(r) \/ RemoveOne(r)
  <2>1. job'[r].op = job[r].op /\ job[r].pc \in {"add", "remove"}
    BY <1>1, <1>9 DEF Add, RemoveOne, Job
  <2>2. QED BY <2>1 DEF UploadsOnTheirWay, OnItsWay
<1>10. QED
  BY <1>2, <1>3, <1>4, <1>5, <1>6, <1>7, <1>8, <1>9, <1>11
     DEF Step, NoForget, Forget, ForgetList, ForgetDrop

\* Without forgets something as new as any snapshot stays, whoever takes a step.
LEMMA StepSpares ==
  ASSUME TypeInv, AllFinite, NoForget, NEW r \in Requests, Step(r)
  PROVE  /\ AllFinite'
         /\ \A q \in Requests \ {r} : job'[q] = job[q]
         /\ \A t \in Tags : \A s \in snaps[t] : \E n \in snaps'[t] : n.at >= s.at
<1> USE DEF TypeInv, TypeOK
<1>1. \A q \in Requests \ {r} : job'[q] = job[q]
  <2>1. CASE CheckClaim(r)
    BY <2>1, ClaimShape
  <2>2. CASE ~CheckClaim(r)
    BY <2>2 DEF Step, Recent, RecentFails, List, Retire, ReadPrev,
       ReadPrevFails, Save, SaveFails,
         JudgePending, DropRetired, Add, RemoveOne, Forget, ForgetList,
         ForgetDrop, Respond
  <2> QED BY <2>1, <2>2
<1>2. ASSUME NEW t \in Tags, NEW s \in snaps[t] PROVE s.at >= s.at
  BY DEF Export
<1>3. CASE Save(r)
  <2>1. PICK tag \in Tags, e \in Export : tag = job[r].tag /\ e = job[r].upload
    BY <1>3 DEF HasUpload, Save, Job
  <2>2. /\ snaps'[tag] = Saved(snaps[tag], e)
        /\ \A t \in Tags \ {tag} : snaps'[t] = snaps[t]
        /\ snaps[tag] \in SUBSET Export
    BY <1>3, <2>1 DEF Save
  <2>3. Store!Spares(Times(snaps[tag]), Times(snaps'[tag]))
    BY <2>2, SavedSpares DEF AllFinite
  <2>4. \A s \in snaps[tag] : \E n \in snaps'[tag] : n.at >= s.at
    BY <2>3 DEF Store!Spares, Times
  <2>5. QED BY <1>1, <1>2, <1>3, <2>2, <2>4, SaveSaves
<1>4. CASE ~Save(r)
  <2>1. snaps' = snaps
    <3>1. CASE CheckClaim(r)
      BY <3>1, ClaimShape
    <3>2. CASE ~CheckClaim(r)
      BY <1>4, <3>2 DEF Step, Recent, RecentFails, List, Retire, ReadPrev,
       ReadPrevFails, SaveFails, JudgePending,
           DropRetired, Add, RemoveOne, Forget, ForgetList, ForgetDrop, Respond, NoForget
    <3> QED BY <3>1, <3>2
  <2>2. QED BY <1>1, <1>2, <2>1 DEF AllFinite
<1>5. QED BY <1>3, <1>4

\* An upload is answered with its own analysis or a newer one's, for any number of
\* requests and any limit on snapshots, if no village is forgotten and a save
\* that fails ends its upload.
THEOREM UploadsAnswered ==
  ASSUME Hosted \/ ~SaveMayFail, "forget" \notin Ops
  PROVE  Spec => []UploadIsAnalysed
<1> DEFINE Inv == TypeInv /\ AllFinite /\ NoForget /\ UploadsOnTheirWay
<1>1. Init => Inv
  BY InitTypeInv, FS_EmptySet
     DEF Init, AllFinite, NoForget, UploadsOnTheirWay, IdleJob, NewJob
<1>2. Inv /\ [Next]_vars => Inv'
  <2> SUFFICES ASSUME Inv, [Next]_vars PROVE AllFinite' /\ UploadsOnTheirWay'
    BY NextTypeInv, NoneForgets
  <2>1. TypeInv'
    BY NextTypeInv
  <2>2. ASSUME NEW t \in Tags, NEW s \in snaps[t] PROVE s.at >= s.at
    BY DEF TypeInv, TypeOK, Export
  <2>3. ASSUME NEW r \in Requests, Arrive(r) PROVE AllFinite' /\ UploadsOnTheirWay'
    <3>1. /\ UNCHANGED snaps
          /\ \A q \in Requests \ {r} : job'[q] = job[q]
          /\ job'[r].op = "post" => job'[r].pc = "prev"
      BY <2>3 DEF Arrive, GetReport, PostReport, PostPending, DeletePending,
                  ForgetVillage, Start, NewJob, TypeInv, TypeOK
    <3>2. job'[r].op = "post" => OnItsWay(r)'
      BY <2>1, <3>1 DEF OnItsWay, TypeInv, HasUpload
    <3>3. QED BY <2>1, <2>2, <3>1, <3>2, OthersStayOnTheirWay DEF AllFinite
  <2>4. ASSUME NEW r \in Requests, Step(r) PROVE AllFinite' /\ UploadsOnTheirWay'
    BY <2>1, <2>4, StepSpares, StepStaysOnItsWay, OthersStayOnTheirWay
  <2>5. CASE Restart
    BY <2>5, FS_EmptySet DEF Restart, AllFinite, UploadsOnTheirWay, IdleJob, NewJob
  <2>6. CASE Tick \/ UNCHANGED vars
    BY <2>6 DEF Tick, vars, AllFinite, UploadsOnTheirWay, OnItsWay, Covered
  <2> QED BY <2>3, <2>4, <2>5, <2>6 DEF Next
<1>3. Inv => UploadIsAnalysed
  BY DEF UploadsOnTheirWay, OnItsWay, UploadIsAnalysed
<1> QED BY <1>1, <1>2, <1>3, PTL DEF Spec

-----------------------------------------------------------------------------
(***************************************************************************)
(* The lists as Apply needs them: ids start at 1 and tell actions apart.   *)
(***************************************************************************)
PositiveIds == nextId > 0 /\ \A a \in Held : a.id > 0

IdInv == TypeInv /\ UniqueIds /\ PositiveIds

LEMMA IdInvHolds ==
  /\ Init => IdInv
  /\ IdInv /\ [Next]_vars => IdInv'
<1>1. Init => IdInv
  BY InitTypeInv DEF Init, IdInv, UniqueIds, PositiveIds, Held, IdleJob, NewJob
<1>2. ASSUME IdInv, [Next]_vars PROVE IdInv'
  <2>0. nextId \in Nat /\ \A a \in Held : a \in Action
    BY <1>2 DEF IdInv, TypeInv, TypeOK, Held, Job
  <2>1. TypeInv'
    BY <1>2, NextTypeInv DEF IdInv
  <2>2. UniqueIds' /\ PositiveIds'
    <3>1. CASE Grows
      BY <1>2, <2>0, <3>1 DEF Grows, IdInv, UniqueIds, PositiveIds, Action
    <3>2. CASE Shrinks
      BY <1>2, <3>2 DEF Shrinks, IdInv, UniqueIds, PositiveIds
    <3> QED BY <1>2, <3>1, <3>2, HeldStep DEF IdInv
  <2> QED BY <2>1, <2>2 DEF IdInv
<1> QED BY <1>1, <1>2

LEMMA ListsAreListed ==
  ASSUME IdInv
  PROVE  /\ \A t \in Tags : Listed(pending[t])
         /\ \A r \in Requests : Listed(job[r].acts)
BY DEF IdInv, UniqueIds, PositiveIds, Held, Listed, TypeInv, TypeOK, Job

\* Removing by id what was listed removes just that.
LEMMA WithoutIsMinus ==
  ASSUME IdInv, NEW t \in Tags, NEW r \in Requests, NEW gone, gone \subseteq job[r].acts
  PROVE  Without(pending[t], gone) = pending[t] \ gone
<1>1. \A a \in pending[t], g \in gone : a.id = g.id => a = g
  BY DEF IdInv, UniqueIds, Held
<1> QED BY <1>1 DEF Without

\* A step of one request leaves the others' jobs and the other villages alone.
LEMMA StepFrame ==
  ASSUME TypeInv, NEW r \in Requests, Step(r)
  PROVE  /\ \A q \in Requests \ {r} : job'[q] = job[q]
         /\ \A t \in Tags \ {job[r].tag} :
              /\ snaps'[t] = snaps[t] /\ pending'[t] = pending[t]
              /\ t \in unread' <=> t \in unread
              /\ t \in unjudged' <=> t \in unjudged
         /\ now' = now
         /\ bridged \subseteq bridged'
<1> USE DEF TypeInv, TypeOK
<1>1. CASE CheckClaim(r)
  BY <1>1, ClaimShape
<1>2. CASE ~CheckClaim(r)
  BY <1>2 DEF Step, Recent, RecentFails, List, Retire, ReadPrev,
       ReadPrevFails, Save, SaveFails,
       JudgePending, DropRetired, UnjudgedAfter, Add, Bridging, RemoveOne, Forget,
       ForgetList, ForgetDrop, Respond
<1> QED BY <1>1, <1>2

LEMMA ArriveFrame ==
  ASSUME TypeInv, NEW r \in Requests, Arrive(r)
  PROVE  /\ \A q \in Requests \ {r} : job'[q] = job[q]
         /\ UNCHANGED <<snaps, pending, nextId, now, history>>
         /\ job[r].pc = "idle"
         /\ job'[r].pc \in {"recent", "prev", "remove", "forget"}
         /\ job'[r].cand = None
         /\ job'[r].prev = None
BY DEF TypeInv, TypeOK, Arrive, GetReport, PostReport, PostPending, DeletePending,
       ForgetVillage, Start, NewJob

\* An action joins a list by being added.
LEMMA OnlyAddAdds ==
  ASSUME TypeInv, [Next]_vars, NEW t \in Tags, NEW a \in pending'[t] \ pending[t]
  PROVE  \E r \in Requests : Add(r) /\ job[r].tag = t /\ a = [job[r].cand EXCEPT !.id = nextId]
<1> USE DEF TypeInv, TypeOK
<1>1. CASE \E r \in Requests : Add(r)
  <2>1. PICK r \in Requests : Add(r)
    BY <1>1
  <2> QED BY <2>1 DEF Add
<1>2. CASE ~\E r \in Requests : Add(r)
  <2>1. ASSUME NEW r \in Requests, Step(r) PROVE FALSE
    <3>1. CASE CheckClaim(r)
      BY <3>1, ClaimShape
    <3>2. CASE ~CheckClaim(r)
      BY <1>2, <2>1, <3>2 DEF Step, Recent, RecentFails, List, Retire, ReadPrev,
       ReadPrevFails, Save, SaveFails,
           JudgePending, DropRetired, RemoveOne, Forget, ForgetList,
           ForgetDrop, Respond, Without
    <3> QED BY <3>1, <3>2
  <2>2. ASSUME NEW r \in Requests, Arrive(r) PROVE FALSE
    BY <2>2, ArriveFrame
  <2>3. CASE Restart \/ Tick \/ UNCHANGED vars
    BY <2>3 DEF Restart, Tick, vars
  <2> QED BY <2>1, <2>2, <2>3 DEF Next
<1> QED BY <1>1, <1>2

-----------------------------------------------------------------------------
(***************************************************************************)
(* Settled: whichever request made a list unplaceable, some request will   *)
(* still list that village against its newest export and remove what is    *)
(* stale, unless it could not be read.                                     *)
(***************************************************************************)
HasBase(t) == Newest(snaps[t]) # None

Placed(t) == pending[t] # {} => HasBase(t) /\ Stale(Newest(snaps[t]), pending[t]) = {}

\* Stale in a list of village t, and not resting on an instant upgrade.
Loose(e, acts, t) == {a \in Stale(e, acts) : <<t, a.item, a.from>> \notin bridged}

Firm(t) == pending[t] # {} => HasBase(t) /\ Loose(Newest(snaps[t]), pending[t], t) = {}

\* r will list village t, has listed it, or will leave it firm.
WillList(r, t) ==
  /\ job[r].tag = t
  /\ \/ job[r].pc \in {"reconcile", "drop", "recent"}
     \/ job[r].pc = "list" /\ job[r].snap = Newest(snaps[t])
     \/ /\ job[r].pc = "retire"
        /\ job[r].snap = Newest(snaps[t])
        /\ Loose(job[r].snap, pending[t] \ Stale(job[r].snap, job[r].acts), t) = {}

\* A claim past its read of the snapshots, and a village with a list, has one.
Based ==
  /\ \A t \in Tags : pending[t] # {} => HasBase(t)
  /\ \A r \in Requests : job[r].pc \in {"list", "retire", "check", "add"}
       => HasBase(job[r].tag) /\ job[r].snap # None

FirmOrListed ==
  \A t \in Tags \ unread : Firm(t) \/ \E r \in Requests : WillList(r, t)

\* The history knows every level a declared upgrade reaches at once.
Bridges == \A t \in Tags : \A a \in pending[t] :
             StepTime(a) = 0 => <<t, a.item, a.from + 1>> \in bridged

LEMMA BridgesStep ==
  ASSUME TypeInv, Bridges, [Next]_vars PROVE Bridges'
<1> SUFFICES ASSUME NEW t \in Tags, NEW a \in pending'[t], StepTime(a) = 0
             PROVE  <<t, a.item, a.from + 1>> \in bridged'
  BY DEF Bridges
<1>1. CASE a \notin pending[t]
  <2>1. PICK r \in Requests : Add(r) /\ job[r].tag = t /\ a = [job[r].cand EXCEPT !.id = nextId]
    BY <1>1, OnlyAddAdds
  <2>2. bridged' = Bridging(t, a)
    BY <2>1 DEF Add
  <2> QED BY <2>2 DEF Bridging
<1>2. CASE a \in pending[t]
  <2>1. ~Restart
    BY DEF Restart
  <2>2. bridged \subseteq bridged'
    BY <2>1, StepFrame, ArriveFrame DEF Next, Tick, vars
  <2> QED BY <1>2, <2>2 DEF Bridges
<1> QED BY <1>1, <1>2

LEMMA BaseIsExport ==
  ASSUME TypeInv, NEW t \in Tags, HasBase(t)
  PROVE  Newest(snaps[t]) \in Export
BY NewestType DEF TypeInv, TypeOK, HasBase

LEMMA BaseStays ==
  ASSUME TypeInv, TypeInv', AllFinite, NoForget, NEW r \in Requests, Step(r), NEW t \in Tags, HasBase(t)
  PROVE  HasBase(t)'
<1>1. Newest(snaps[t]) \in snaps[t]
  BY NewestType DEF TypeInv, TypeOK, HasBase
<1>2. PICK n \in snaps'[t] : n.at >= Newest(snaps[t]).at
  BY <1>1, StepSpares
<1>3. AllFinite'
  BY StepSpares
<1>4. snaps'[t] \in SUBSET Export /\ IsFiniteSet(snaps'[t])
  BY <1>3 DEF TypeInv, TypeOK, AllFinite
<1> QED BY <1>2, <1>4, NewestIsLatest DEF HasBase

LEMMA SaveGivesBase ==
  ASSUME TypeInv, TypeInv', AllFinite, NoForget, NEW r \in Requests, Save(r)
  PROVE  HasBase(job[r].tag)'
<1> USE DEF TypeInv, TypeOK
<1>1. job[r].tag \in Tags /\ job[r].upload \in Export /\ job'[r].tag = job[r].tag
  BY DEF Save, HasUpload, Job
<1>2. snaps'[job[r].tag] = Saved(snaps[job[r].tag], job[r].upload)
  BY <1>1 DEF Save
<1>3. PICK n \in snaps'[job[r].tag] : n.at >= job[r].upload.at
  BY <1>1, <1>2, SavedHolds DEF AllFinite
<1>4. AllFinite'
  BY StepSpares DEF Step
<1>5. snaps'[job[r].tag] \in SUBSET Export /\ IsFiniteSet(snaps'[job[r].tag])
  BY <1>1, <1>4 DEF AllFinite
<1> QED BY <1>1, <1>3, <1>5, NewestIsLatest DEF HasBase

LEMMA BasedStep ==
  ASSUME TypeInv, TypeInv', AllFinite, NoForget, Based, NEW r \in Requests, Step(r)
  PROVE  Based'
<1> USE DEF TypeInv, TypeOK
<1>0. PICK tag \in Tags : tag = job[r].tag
  BY DEF Job
<1>1. job[r] \in Job
  BY DEF Job
<1>2. \A t \in Tags : HasBase(t) => HasBase(t)'
  BY BaseStays
<1>3. \A q \in Requests \ {r} : job'[q] = job[q] /\ job[q].tag \in Tags
  BY StepFrame DEF Job
<1> SUFFICES /\ pending'[tag] # {} => HasBase(tag)'
             /\ job'[r].pc \in {"list", "retire", "check", "add"}
                  => job'[r].tag = tag /\ HasBase(tag)' /\ job'[r].snap # None
  BY <1>0, <1>2, <1>3, StepFrame DEF Based
<1>4. CASE Add(r)
  <2>1. HasBase(tag) /\ job'[r].pc = "recent"
    BY <1>0, <1>1, <1>4 DEF Add, Based, Job
  <2> QED BY <1>0, <1>1, <1>2, <2>1
<1>5. ASSUME ~Add(r) PROVE pending'[tag] # {} => HasBase(tag)'
  <2>1. pending'[tag] \subseteq pending[tag]
    <3>1. CASE CheckClaim(r)
      BY <3>1, ClaimShape
    <3>2. CASE ~CheckClaim(r)
      BY <1>0, <1>1, <1>5, <3>2 DEF Step, Recent, RecentFails, List, Retire, ReadPrev,
       ReadPrevFails, Save, SaveFails,
           JudgePending, DropRetired, RemoveOne, Forget, ForgetList,
           ForgetDrop, Respond, Without
    <3> QED BY <3>1, <3>2
  <2> QED BY <1>0, <1>1, <1>2, <2>1 DEF Based
<1>6. CASE Recent(r)
  BY <1>0, <1>1, <1>2, <1>5, <1>6 DEF Recent, HasBase, Job, Add
<1>7. CASE List(r) \/ Retire(r)
  <2>1. job'[r].tag = job[r].tag /\ job'[r].snap = job[r].snap /\ job[r].pc \in {"list", "retire"}
    BY <1>0, <1>1, <1>7 DEF List, Retire, Job
  <2>2. HasBase(tag) /\ job[r].snap # None /\ ~Add(r)
    BY <1>0, <2>1 DEF Based, Add
  <2> QED BY <1>0, <1>2, <1>5, <2>1, <2>2
<1>8. CASE CheckClaim(r)
  <2>1. job[r].pc = "check" /\ job'[r].tag = job[r].tag /\ job'[r].snap = job[r].snap
    BY <1>0, <1>1, <1>8, ClaimShape DEF CheckClaim, Claim
  <2>2. HasBase(tag) /\ job[r].snap # None /\ ~Add(r)
    BY <1>0, <2>1 DEF Based, Add
  <2> QED BY <1>0, <1>2, <1>5, <2>1, <2>2
<1>9. CASE \/ RecentFails(r) \/ ReadPrev(r) \/ ReadPrevFails(r) \/ Save(r) \/ SaveFails(r)
           \/ JudgePending(r) \/ DropRetired(r) \/ RemoveOne(r) \/ Respond(r)
  <2>1. job'[r].pc \notin {"list", "retire", "check", "add"}
    BY <1>0, <1>1, <1>9 DEF RecentFails, ReadPrev, ReadPrevFails, Save, SaveFails, AfterSave,
         JudgePending, DropRetired, RemoveOne, Answers, Respond, IdleJob, NewJob, Job
  <2> QED BY <1>0, <1>1, <1>5, <1>9, <2>1 DEF RecentFails, ReadPrev, ReadPrevFails, Save, SaveFails,
         AfterSave, JudgePending, DropRetired, RemoveOne, Respond, Add
<1> QED BY <1>4, <1>6, <1>7, <1>8, <1>9
        DEF Step, NoForget, Forget, ForgetList, ForgetDrop

LEMMA BasedHolds ==
  ASSUME "forget" \notin Ops
  PROVE  LET Inv == IdInv /\ AllFinite /\ NoForget /\ Based
         IN /\ Init => Inv
            /\ Inv /\ [Next]_vars => Inv'
<1> DEFINE Inv == IdInv /\ AllFinite /\ NoForget /\ Based
<1>1. Init => Inv
  BY IdInvHolds, FS_EmptySet
     DEF Init, AllFinite, NoForget, Based, IdleJob, NewJob
<1>2. ASSUME Inv, [Next]_vars PROVE Inv'
  <2>1. IdInv' /\ NoForget' /\ TypeInv /\ TypeInv'
    BY <1>2, IdInvHolds, NoneForgets DEF IdInv
  <2> SUFFICES AllFinite' /\ Based'
    BY <2>1
  <2>2. ASSUME NEW r \in Requests, Arrive(r) PROVE AllFinite' /\ Based'
    BY <1>2, <2>1, <2>2, ArriveFrame DEF AllFinite, Based, HasBase
  <2>3. ASSUME NEW r \in Requests, Step(r) PROVE AllFinite' /\ Based'
    BY <1>2, <2>1, <2>3, StepSpares, BasedStep
  <2>4. CASE Restart
    BY <1>2, <2>4, FS_EmptySet DEF Restart, AllFinite, Based, IdleJob, NewJob
  <2>5. CASE Tick \/ UNCHANGED vars
    BY <1>2, <2>5 DEF Tick, vars, AllFinite, Based, HasBase
  <2> QED BY <1>2, <2>2, <2>3, <2>4, <2>5 DEF Next
<1> QED BY <1>1, <1>2

\* A list that shrinks stays firm.
LEMMA ShrinksStayFirm ==
  ASSUME IdInv, Bridges, NEW e \in Export, NEW t \in Tags, NEW some, some \subseteq pending[t],
         NEW fewer, fewer \subseteq some, Loose(e, some, t) = {}
  PROVE  Loose(e, fewer, t) = {}
<1>1. Listed(some)
  BY ListsAreListed DEF Listed
<1>2. ASSUME NEW a \in Loose(e, fewer, t) PROVE FALSE
  <2>1. a \in Stale(e, fewer) /\ <<t, a.item, a.from>> \notin bridged
    BY <1>2 DEF Loose
  <2>2. \A b \in some : b.item = a.item /\ b.from + 1 = a.from => StepTime(b) # 0
    BY <2>1 DEF Bridges
  <2>3. a \in Stale(e, some)
    BY <1>1, <2>1, <2>2, FewerStale
  <2> QED BY <2>1, <2>3 DEF Loose
<1> QED BY <1>2

\* A step of r changes one village; there it leaves r to list it, or the list
\* firm, or the village unread, or r was not the one counted on and only removed.
LEMMA ListedOrFirm ==
  ASSUME IdInv, IdInv', Based, Bridges, FirmOrListed, NEW r \in Requests,
         NEW tag \in Tags, tag = job[r].tag,
         \A q \in Requests \ {r} : job'[q] = job[q],
         \A t \in Tags \ {tag} : /\ snaps'[t] = snaps[t] /\ pending'[t] = pending[t]
                                 /\ t \in unread' <=> t \in unread,
         bridged \subseteq bridged',
         \/ WillList(r, tag)'
         \/ Firm(tag)'
         \/ tag \in unread'
         \/ /\ ~WillList(r, tag)
            /\ snaps'[tag] = snaps[tag]
            /\ pending'[tag] \subseteq pending[tag]
            /\ unread' = unread
  PROVE  FirmOrListed'
<1>0. TypeInv
  BY DEF IdInv
<1>1. ASSUME NEW t \in Tags, snaps'[t] = snaps[t], pending'[t] \subseteq pending[t],
             t = tag => ~WillList(r, t), t \notin unread
      PROVE  Firm(t)' \/ \E q \in Requests : WillList(q, t)'
  <2>1. ASSUME pending'[t] # {}, Firm(t) PROVE Firm(t)'
    <3>1. HasBase(t) /\ Newest(snaps[t]) \in Export
      BY <1>0, <1>1, <2>1, BaseIsExport DEF Firm
    <3>2. Loose(Newest(snaps[t]), pending'[t], t) = {}
      BY <1>1, <2>1, <3>1, ShrinksStayFirm DEF Firm
    <3> QED BY <1>1, <3>1, <3>2 DEF Firm, HasBase, Loose
  <2>2. ASSUME NEW q \in Requests, WillList(q, t) PROVE WillList(q, t)'
    <3>1. q # r /\ job'[q] = job[q]
      BY <1>1, <2>2 DEF WillList
    <3>2. CASE job[q].pc # "retire"
      BY <1>1, <2>2, <3>1, <3>2 DEF WillList
    <3>3. CASE job[q].pc = "retire"
      <4> DEFINE snap == job[q].snap
                 stale == Stale(snap, job[q].acts)
      <4>1. snap = Newest(snaps[t]) /\ snap \in Export
        BY <1>0, <2>2, <3>3, BaseIsExport DEF WillList, Based
      <4>2. Loose(snap, pending[t] \ stale, t) = {}
        BY <2>2, <3>3 DEF WillList
      <4> HIDE DEF stale, snap
      <4>3. Loose(snap, pending'[t] \ stale, t) = {}
        BY <1>1, <4>1, <4>2, ShrinksStayFirm
      <4>4. {a \in Stale(snap, pending'[t] \ stale) : <<t, a.item, a.from>> \notin bridged'} = {}
        BY <4>3 DEF Loose
      <4> QED BY <1>1, <2>2, <3>1, <3>3, <4>1, <4>4 DEF WillList, Loose, snap, stale
    <3> QED BY <3>2, <3>3
  <2> QED BY <1>1, <2>1, <2>2 DEF FirmOrListed, Firm
<1>2. ASSUME NEW t \in Tags \ unread', t # tag
      PROVE  Firm(t)' \/ \E q \in Requests : WillList(q, t)'
  BY <1>1, <1>2
<1>3. ASSUME tag \notin unread' PROVE Firm(tag)' \/ \E q \in Requests : WillList(q, tag)'
  <2>1. CASE WillList(r, tag)' \/ Firm(tag)'
    BY <2>1
  <2>2. CASE ~(WillList(r, tag)' \/ Firm(tag)')
    BY <1>0, <1>1, <1>3, <2>2
  <2> QED BY <2>1, <2>2
<1> QED BY <1>2, <1>3 DEF FirmOrListed

LEMMA StepListsOrFirm ==
  ASSUME IdInv, IdInv', AllFinite, NoForget, Based, Bridges, FirmOrListed,
         NEW r \in Requests, Step(r)
  PROVE  FirmOrListed'
<1> USE DEF TypeInv, TypeOK
<1>0. PICK tag \in Tags : tag = job[r].tag
  BY DEF IdInv, Job
<1>1. TypeInv /\ TypeInv' /\ job[r] \in Job
  BY DEF IdInv
<1> SUFFICES \/ WillList(r, tag)'
             \/ Firm(tag)'
             \/ tag \in unread'
             \/ /\ ~WillList(r, tag)
                /\ snaps'[tag] = snaps[tag]
                /\ pending'[tag] \subseteq pending[tag]
                /\ unread' = unread
  BY <1>0, <1>1, StepFrame, ListedOrFirm
<1>2. CASE Recent(r)
  <2>1. /\ UNCHANGED <<snaps, pending>>
        /\ job'[r].tag = tag
        /\ job'[r].snap = Newest(snaps[tag])
        /\ job'[r].pc = IF HasBase(tag) THEN "list" ELSE "notfound"
    BY <1>0, <1>1, <1>2 DEF Recent, HasBase, Job
  <2> QED BY <2>1 DEF WillList, Firm, Based, HasBase
<1>8. CASE RecentFails(r)
  BY <1>0, <1>8 DEF RecentFails
<1>3. CASE List(r)
  <2>1. /\ UNCHANGED <<snaps, pending, unread>> /\ job[r].pc = "list"
        /\ job'[r].tag = tag /\ job'[r].snap = job[r].snap /\ job'[r].acts = pending[tag]
        /\ Stale(job[r].snap, pending[tag]) # {} => job'[r].pc = "retire"
    BY <1>0, <1>1, <1>3 DEF List, Job
  <2>2. CASE ~WillList(r, tag)
    BY <2>1, <2>2
  <2>3. CASE job[r].snap = Newest(snaps[tag])
    <3>1. HasBase(tag) /\ Newest(snaps[tag]) \in Export
      BY <1>0, <1>1, <2>1, BaseIsExport DEF Based
    <3>2. CASE Stale(job[r].snap, pending[tag]) = {}
      BY <2>1, <2>3, <3>1, <3>2 DEF Firm, HasBase, Loose
    <3>3. CASE Stale(job[r].snap, pending[tag]) # {}
      <4>1. Stale(job[r].snap, Applied(job[r].snap, pending[tag])) = {}
        BY <2>3, <3>1, AppliedSettles, ListsAreListed
      <4>2. WillList(r, tag)'
        BY <2>1, <2>3, <3>3, <4>1 DEF WillList, Applied, Loose
      <4> QED BY <4>2
    <3> QED BY <3>2, <3>3
  <2> QED BY <1>0, <2>1, <2>2, <2>3 DEF WillList
<1>4. CASE Retire(r)
  <2> DEFINE stale == Stale(job[r].snap, job[r].acts)
  <2>1. /\ UNCHANGED <<snaps, unread, bridged>> /\ job[r].pc = "retire"
        /\ pending'[tag] = Without(pending[tag], stale)
    BY <1>0, <1>1, <1>4 DEF Retire
  <2>2. stale \subseteq job[r].acts
    BY DEF Stale
  <2> HIDE DEF stale
  <2>3. pending'[tag] = pending[tag] \ stale
    BY <2>1, <2>2, WithoutIsMinus
  <2>4. CASE ~WillList(r, tag)
    BY <2>1, <2>3, <2>4
  <2>5. CASE WillList(r, tag)
    <3>1. HasBase(tag)
      BY <1>0, <2>1 DEF Based
    <3>2. Loose(Newest(snaps[tag]), pending[tag] \ stale, tag) = {}
      BY <2>1, <2>5 DEF WillList, stale
    <3> QED BY <2>1, <2>3, <3>1, <3>2 DEF Firm, HasBase, Loose
  <2> QED BY <2>4, <2>5
<1>5. CASE ReadPrev(r) \/ ReadPrevFails(r) \/ SaveFails(r) \/ Respond(r)
  BY <1>0, <1>1, <1>5 DEF ReadPrev, ReadPrevFails, SaveFails, Respond, WillList, Answers
<1>6. CASE CheckClaim(r)
  BY <1>0, <1>1, <1>6, ClaimShape DEF WillList
<1>7. CASE Save(r) \/ JudgePending(r) \/ DropRetired(r) \/ Add(r) \/ RemoveOne(r)
  <2>1. job'[r].tag = tag /\ job'[r].pc \in {"reconcile", "drop", "recent"}
    BY <1>0, <1>1, <1>7 DEF Save, AfterSave, JudgePending, DropRetired, Add, RemoveOne, Job
  <2> QED BY <2>1 DEF WillList
<1> QED BY <1>2, <1>3, <1>4, <1>5, <1>6, <1>7, <1>8
        DEF Step, NoForget, Forget, ForgetList, ForgetDrop

\* For any number of requests, villages and exports, and any limit on the
\* snapshots, with failed reads and saves and restarts: once all are answered
\* nothing declared is left that the next read would drop, if no village is
\* forgotten, but in a village that could not be read last and at a level that
\* an instant upgrade was declared to.  (What rests on an instant upgrade is
\* lost when a request that overlaid an export no longer the newest takes that
\* one away.)
THEOREM ListsSettle ==
  ASSUME "forget" \notin Ops
  PROVE  Spec => []SettledPlaceable
<1> DEFINE Known0 == IdInv /\ AllFinite /\ NoForget /\ Based
           Inv == Known0 /\ Bridges /\ FirmOrListed
<1>1. /\ Init => Known0
      /\ Known0 /\ [Next]_vars => Known0'
  BY BasedHolds
<1>2. Init => Bridges /\ FirmOrListed
  BY DEF Init, Bridges, FirmOrListed, Firm
<1>3. ASSUME Inv, [Next]_vars, Known0' PROVE Bridges' /\ FirmOrListed'
  <2>1. TypeInv
    BY <1>3 DEF IdInv
  <2>6. Bridges'
    BY <1>3, <2>1, BridgesStep
  <2>2. ASSUME NEW r \in Requests, Arrive(r) PROVE FirmOrListed'
    <3>1. /\ UNCHANGED <<snaps, pending, unread, bridged>>
          /\ \A q \in Requests \ {r} : job'[q] = job[q]
          /\ job[r].pc = "idle"
      BY <2>1, <2>2, ArriveFrame
    <3>2. ASSUME NEW q \in Requests, NEW t \in Tags, WillList(q, t) PROVE WillList(q, t)'
      BY <3>1, <3>2 DEF WillList, Loose
    <3> QED BY <1>3, <3>1, <3>2 DEF FirmOrListed, Firm, HasBase, Loose
  <2>3. ASSUME NEW r \in Requests, Step(r) PROVE FirmOrListed'
    BY <1>3, <2>3, StepListsOrFirm
  <2>4. ASSUME Restart PROVE FirmOrListed'
    BY <2>4 DEF Restart, FirmOrListed, Firm
  <2>5. ASSUME Tick \/ UNCHANGED vars PROVE FirmOrListed'
    <3>1. UNCHANGED <<snaps, pending, job, unread, bridged>>
      BY <2>5 DEF Tick, vars
    <3>2. ASSUME NEW t \in Tags PROVE Firm(t) => Firm(t)'
      BY <3>1 DEF Firm, HasBase, Loose
    <3>3. ASSUME NEW t \in Tags, NEW q \in Requests, WillList(q, t) PROVE WillList(q, t)'
      BY <3>1, <3>3 DEF WillList, Loose
    <3> QED BY <1>3, <3>1, <3>2, <3>3 DEF FirmOrListed
  <2> QED BY <1>3, <2>2, <2>3, <2>4, <2>5, <2>6 DEF Next
<1>4. Inv => SettledPlaceable
  <2> SUFFICES ASSUME Inv, Quiet, NEW t \in Tags \ unread, pending[t] # {}
               PROVE  /\ snaps[t] # {}
                      /\ \A a \in Stale(Newest(snaps[t]), pending[t]) :
                           <<t, a.item, a.from>> \in bridged
    BY DEF SettledPlaceable
  <2>1. \A r \in Requests : ~WillList(r, t)
    BY DEF Quiet, WillList
  <2>2. HasBase(t) /\ Loose(Newest(snaps[t]), pending[t], t) = {}
    BY <2>1 DEF FirmOrListed, Firm
  <2> QED BY <2>2 DEF HasBase, Newest, Loose
<1>5. Inv /\ [Next]_vars => Inv'
  BY <1>1, <1>3
<1>6. Init => Inv
  BY <1>1, <1>2
<1> QED BY <1>4, <1>5, <1>6, PTL DEF Spec

-----------------------------------------------------------------------------
(***************************************************************************)
(* One request at a time: what holds of every village at each point of the *)
(* request r that is being served.                                         *)
(***************************************************************************)
LEMMA AllFiniteStep ==
  ASSUME TypeInv, AllFinite, [Next]_vars PROVE AllFinite'
<1>1. ASSUME NEW r \in Requests, Save(r) PROVE AllFinite'
  BY <1>1, SaveSaves
<1>2. ASSUME NEW r \in Requests, Forget(r) PROVE AllFinite'
  BY <1>2, FS_EmptySet DEF Forget, AllFinite, TypeInv, TypeOK
<1>3. CASE Restart
  BY <1>3, FS_EmptySet DEF Restart, AllFinite
<1>4. CASE snaps' = snaps
  BY <1>4 DEF AllFinite
<1> QED BY <1>1, <1>2, <1>3, <1>4, SnapsChange

\* No export of a store or on its way is from the future.
NotFuture ==
  /\ \A t \in Tags : \A s \in snaps[t] : s.at <= now
  /\ \A r \in Requests : job[r].upload # None => job[r].upload.at <= now

LEMMA NotFutureStep ==
  ASSUME TypeInv, NotFuture, [Next]_vars PROVE NotFuture'
<1> USE DEF TypeInv, TypeOK
<1>1. ASSUME NEW r \in Requests, Arrive(r) PROVE NotFuture'
  <2>1. PICK op \in AllOps, pc \in {"recent", "prev", "remove", "forget"},
             t \in Tags, e \in Export \cup {None} :
                 Start(r, op, pc, t, e) /\ (e # None => e.at <= now)
    BY <1>1, BuildNowAssumption
       DEF Arrive, GetReport, PostReport, PostPending, DeletePending,
           ForgetVillage, AllOps
  <2> QED BY <2>1 DEF Start, NewJob, NotFuture
<1>2. ASSUME NEW r \in Requests, Step(r) PROVE NotFuture'
  <2>0. PICK tag \in Tags : tag = job[r].tag
    BY DEF Job
  <2>1. job'[r].upload \in {job[r].upload, None}
    <3>1. CASE CheckClaim(r)
      BY <3>1, ClaimShape
    <3>2. CASE ~CheckClaim(r)
      BY <1>2, <3>2 DEF Step, Recent, RecentFails, List, Retire, ReadPrev,
       ReadPrevFails, Save, SaveFails,
           JudgePending, DropRetired, Add, RemoveOne, Forget, ForgetList,
           ForgetDrop, Respond, IdleJob, NewJob, Job
    <3> QED BY <3>1, <3>2
  <2>2. \A s \in snaps'[tag] : s.at <= now
    <3>1. CASE Save(r)
      <4>1. snaps'[tag] = Saved(snaps[tag], job[r].upload) /\ job[r].upload \in Export
        BY <2>0, <3>1 DEF Save, HasUpload
      <4>2. Saved(snaps[tag], job[r].upload) \subseteq snaps[tag] \cup {job[r].upload}
        BY DEF Saved
      <4> QED BY <4>1, <4>2, BuildNowAssumption DEF NotFuture
    <3>2. CASE Forget(r)
      BY <2>0, <3>2 DEF Forget
    <3>3. CASE CheckClaim(r)
      BY <3>3, ClaimShape DEF NotFuture
    <3>4. CASE ~Save(r) /\ ~Forget(r) /\ ~CheckClaim(r)
      BY <1>2, <3>4 DEF Step, Recent, RecentFails, List, Retire, ReadPrev,
       ReadPrevFails, SaveFails,
           JudgePending, DropRetired, Add, RemoveOne, ForgetList,
           ForgetDrop, Respond, NotFuture
    <3> QED BY <3>1, <3>2, <3>3, <3>4
  <2> QED BY <1>2, <2>0, <2>1, <2>2, StepFrame DEF NotFuture
<1>3. CASE Restart
  BY <1>3 DEF Restart, NotFuture, IdleJob, NewJob
<1>4. CASE Tick
  <2>1. \A t \in Tags : \A s \in snaps[t] : s.at \in Nat
    BY DEF Export
  <2>2. \A r \in Requests : job[r].upload # None => job[r].upload.at \in Nat
    BY DEF Job, Export
  <2> QED BY <1>4, <2>1, <2>2 DEF Tick, NotFuture
<1>5. CASE UNCHANGED vars
  BY <1>5 DEF vars, NotFuture
<1> QED BY <1>1, <1>2, <1>3, <1>4, <1>5 DEF Next

ListBased(t) == pending[t] # {} => HasBase(t)

\* No action of acts is older than the newest export, unless that export's
\* upload could not read the one before it.
Judged(t, acts) == t \notin unjudged => \A a \in acts : Newest(snaps[t]).at <= a.startedAt

Settled(t) ==
  /\ ListBased(t)
  /\ t \notin unread => Placed(t)
  /\ Judged(t, pending[t])

\* What the request r still owes the village t it names.
Phase(r, t) ==
  /\ job[r].pc \in {"idle", "prev", "save", "remove", "forget", "check", "add"} \cup Answers
       => Settled(t)
  /\ job[r].pc = "prev" => job[r].prev = None
  /\ job[r].pc = "save" => \/ job[r].prev = Newest(snaps[t])
                           \/ job[r].prev = None /\ t \in unjudged
  /\ job[r].pc \in {"reconcile", "drop"} =>
       /\ job[r].upload \in Export
       /\ ListBased(t)
       /\ Judged(t, pending[t] \ Retired(pending[t], job[r].upload))
  /\ job[r].pc \in {"recent", "list", "retire"} => ListBased(t) /\ Judged(t, pending[t])
  /\ job[r].pc \in {"list", "retire", "check", "add"} =>
       HasBase(t) /\ job[r].snap = Newest(snaps[t])
  /\ job[r].pc \in {"drop", "retire", "forgetDrop"} => job[r].acts = pending[t]
  /\ job[r].pc \in {"check", "add"} => pending[t] = Applied(job[r].snap, job[r].acts)
  /\ job[r].pc = "add" =>
       /\ Placeable(Overlaid(job[r].snap, job[r].acts).rows, job[r].snap.at, job[r].cand)
       /\ job[r].snap.at <= job[r].cand.startedAt

Served(r) == \A t \in Tags : IF t = job[r].tag THEN Phase(r, t) ELSE Settled(t)

SerialBase == IdInv /\ AllFinite /\ NotFuture

LEMMA SerialBaseHolds ==
  /\ Init => SerialBase
  /\ SerialBase /\ [Next]_vars => SerialBase'
<1>1. Init => SerialBase
  BY IdInvHolds, FS_EmptySet DEF Init, SerialBase, AllFinite, NotFuture, IdleJob, NewJob
<1>2. SerialBase /\ [Next]_vars => SerialBase'
  BY IdInvHolds, AllFiniteStep, NotFutureStep DEF SerialBase, IdInv
<1> QED BY <1>1, <1>2

LEMMA InitServed == ASSUME NEW r \in Requests, Init PROVE Served(r)
BY DEF Init, Served, Phase, Settled, Placed, ListBased, Judged, IdleJob, NewJob

\* A step that stays with its village owes the others nothing.
LEMMA ServedOnward ==
  ASSUME TypeInv, NEW r \in Requests, Served(r), Step(r), NEW tag \in Tags, tag = job[r].tag,
         job'[r].tag = tag, Phase(r, tag)'
  PROVE  Served(r)'
<1>1. \A t \in Tags \ {tag} :
        /\ Settled(t) /\ snaps'[t] = snaps[t] /\ pending'[t] = pending[t]
        /\ t \in unread' <=> t \in unread
        /\ t \in unjudged' <=> t \in unjudged
  BY StepFrame DEF Served
<1>2. \A t \in Tags \ {tag} : Settled(t)'
  BY <1>1 DEF Settled, Placed, ListBased, Judged, HasBase
<1> QED BY <1>2 DEF Served

\* When r is done every village is settled, so whichever it names next is.
LEMMA ServedAnew ==
  ASSUME NEW r \in Requests, \A t \in Tags : Settled(t)',
         job'[r].pc \in {"idle", "recent", "prev", "remove", "forget"},
         job'[r].pc = "prev" => job'[r].prev = None
  PROVE  Served(r)'
BY DEF Served, Phase, Settled, Answers

\* A snapshot store that holds what it was given names what it was given, or
\* what it named before, as its newest.
LEMMA NewestOfSaved ==
  ASSUME NEW S \in SUBSET Export, IsFiniteSet(S), NEW e \in Export
  PROVE  /\ Newest(Saved(S, e)) \in Export
         /\ Newest(Saved(S, e)) # e => /\ Newest(S) \in Export
                                       /\ Newest(Saved(S, e)).at <= Newest(S).at
<1>1. Saved(S, e) \in SUBSET Export /\ IsFiniteSet(Saved(S, e)) /\ Saved(S, e) \subseteq S \cup {e}
  <2>1. Saved(S, e) \subseteq S \cup {e}
    BY DEF Saved
  <2> QED BY <2>1, FS_AddElement, FS_Subset
<1>2. PICK n \in Saved(S, e) : n.at >= e.at
  BY SavedHolds
<1>3. Newest(Saved(S, e)) # None
  BY <1>1, <1>2, NewestIsLatest
<1>4. Newest(Saved(S, e)) \in Export /\ Newest(Saved(S, e)) \in Saved(S, e)
  BY <1>1, <1>3, NewestType
<1>5. ASSUME Newest(Saved(S, e)) # e
      PROVE  Newest(S) \in Export /\ Newest(Saved(S, e)).at <= Newest(S).at
  <2>1. Newest(Saved(S, e)) \in S
    BY <1>1, <1>4, <1>5
  <2>2. Newest(S) # None /\ Newest(Saved(S, e)).at <= Newest(S).at
    BY <2>1, NewestIsLatest DEF Export
  <2> QED BY <2>2, NewestType
<1> QED BY <1>4, <1>5

\* A village's newest export, once an upload that nothing stored postdates has
\* judged its list: what is left of the list is no older.
LEMMA NowJudged ==
  ASSUME TypeInv, NEW r \in Requests, job[r].upload \in Export, job[r].tag \in Tags,
         HasBase(job[r].tag), job[r].tag \in unjudged, job[r].tag \notin UnjudgedAfter(r),
         NEW acts \in SUBSET Action,
         \A a \in acts : ~(job[r].upload.at > a.startedAt)
  PROVE  \A a \in acts : Newest(snaps[job[r].tag]).at <= a.startedAt
<1> DEFINE e == Newest(snaps[job[r].tag])
<1>1. e \in Export /\ e \in snaps[job[r].tag]
  BY NewestType, BaseIsExport DEF HasBase, TypeInv, TypeOK
<1>2. e.at <= job[r].upload.at
  BY <1>1 DEF UnjudgedAfter
<1>3. e.at \in Nat /\ job[r].upload.at \in Nat /\ \A a \in acts : a.startedAt \in Nat
  BY <1>1 DEF Export, Action
<1> HIDE DEF e
<1> QED BY <1>2, <1>3 DEF e

\* Every step of the request leaves the village it names where the next one
\* expects it.
LEMMA StepServed ==
  ASSUME SerialBase, SerialBase', NEW r \in Requests, Served(r), Step(r)
  PROVE  Served(r)'
<1> USE DEF TypeInv, TypeOK
<1>0. PICK tag \in Tags : tag = job[r].tag
  BY DEF SerialBase, IdInv, Job
<1>1. TypeInv /\ TypeInv' /\ job[r] \in Job /\ IdInv
  BY DEF SerialBase, IdInv
<1>2. Phase(r, tag) /\ \A t \in Tags \ {tag} : Settled(t)
  BY <1>0 DEF Served
<1>3. \A a \in pending[tag] : a \in Action /\ a.startedAt \in Nat
  BY <1>1 DEF Action
<1>4. ASSUME HasBase(tag) PROVE Newest(snaps[tag]) \in Export /\ Newest(snaps[tag]).at \in Nat
  BY <1>1, <1>4, BaseIsExport DEF Export
<1>5. CASE Respond(r)
  <2>1. UNCHANGED <<snaps, pending, unread, unjudged>> /\ job[r].pc \in Answers /\ job'[r].pc = "idle"
    BY <1>1, <1>5 DEF Respond, IdleJob, NewJob
  <2>2. Settled(tag)
    BY <1>2, <2>1 DEF Phase
  <2>3. \A t \in Tags : Settled(t)'
    BY <1>2, <2>1, <2>2 DEF Settled, Placed, ListBased, Judged, HasBase
  <2> QED BY <2>1, <2>3, ServedAnew
<1>6. ASSUME job'[r].tag = tag, Phase(r, tag)' PROVE Served(r)'
  BY <1>0, <1>1, <1>6, ServedOnward
<1>7. CASE Recent(r)
  <2>1. /\ UNCHANGED <<snaps, pending, unjudged>> /\ job[r].pc = "recent"
        /\ job'[r].tag = tag /\ job'[r].snap = Newest(snaps[tag])
        /\ job'[r].pc = IF HasBase(tag) THEN "list" ELSE "notfound"
    BY <1>0, <1>1, <1>7 DEF Recent, HasBase, Job
  <2>2. ListBased(tag) /\ Judged(tag, pending[tag])
    BY <1>2, <2>1 DEF Phase
  <2>3. Phase(r, tag)'
    BY <2>1, <2>2 DEF Phase, ListBased, Judged, HasBase, Settled, Placed, Answers
  <2> QED BY <1>6, <2>1, <2>3
<1>20. CASE RecentFails(r)
  <2>1. /\ UNCHANGED <<snaps, pending, unjudged>> /\ job[r].pc = "recent"
        /\ job'[r].tag = tag /\ job'[r].pc = "error" /\ tag \in unread'
    BY <1>0, <1>1, <1>20 DEF RecentFails, Job
  <2>2. ListBased(tag) /\ Judged(tag, pending[tag])
    BY <1>2, <2>1 DEF Phase
  <2>3. Phase(r, tag)'
    BY <2>1, <2>2 DEF Phase, ListBased, Judged, HasBase, Settled, Answers
  <2> QED BY <1>6, <2>1, <2>3
<1>8. CASE List(r)
  <2>1. /\ UNCHANGED <<snaps, pending, unread, unjudged>> /\ job[r].pc = "list"
        /\ job'[r].tag = tag /\ job'[r].snap = job[r].snap /\ job'[r].acts = pending[tag]
        /\ job'[r].pc = IF Stale(job[r].snap, pending[tag]) = {}
                        THEN AfterOverlay(job[r]) ELSE "retire"
    BY <1>0, <1>1, <1>8 DEF List, Job
  <2>2. ListBased(tag) /\ Judged(tag, pending[tag]) /\ HasBase(tag) /\ job[r].snap = Newest(snaps[tag])
    BY <1>2, <2>1 DEF Phase
  <2>3. CASE Stale(job[r].snap, pending[tag]) = {}
    <3>1. Settled(tag)
      BY <2>2, <2>3 DEF Settled, Placed
    <3>2. job'[r].pc \in {"check", "ok"}
      BY <2>1, <2>3 DEF AfterOverlay
    <3>3. pending[tag] = Applied(job[r].snap, pending[tag])
      BY <2>3 DEF Applied
    <3> HIDE DEF Settled
    <3>4. Settled(tag)' /\ HasBase(tag)'
      BY <2>1, <2>2, <3>1 DEF Settled, Placed, ListBased, Judged, HasBase
    <3>5. Phase(r, tag)'
      BY <2>1, <2>2, <3>2, <3>3, <3>4 DEF Phase, HasBase, Answers
    <3> QED BY <1>6, <2>1, <3>5
  <2>4. CASE Stale(job[r].snap, pending[tag]) # {}
    <3>1. Phase(r, tag)'
      BY <2>1, <2>2, <2>4 DEF Phase, HasBase, ListBased, Judged, Answers
    <3> QED BY <1>6, <2>1, <3>1
  <2> QED BY <2>3, <2>4
<1>9. CASE Retire(r)
  <2> DEFINE stale == Stale(job[r].snap, job[r].acts)
  <2>1. /\ UNCHANGED <<snaps, unread, unjudged>> /\ job[r].pc = "retire"
        /\ pending'[tag] = Without(pending[tag], stale)
        /\ job'[r].tag = tag /\ job'[r].snap = job[r].snap /\ job'[r].acts = job[r].acts
        /\ job'[r].pc = AfterOverlay(job[r])
    BY <1>0, <1>1, <1>9 DEF Retire, Job
  <2>2. /\ Judged(tag, pending[tag]) /\ HasBase(tag) /\ job[r].snap = Newest(snaps[tag])
        /\ job[r].acts = pending[tag]
    BY <1>2, <2>1 DEF Phase
  <2>3. pending'[tag] = Applied(job[r].snap, pending[tag])
    <3>1. stale \subseteq job[r].acts
      BY DEF Stale
    <3> HIDE DEF stale
    <3>2. Without(pending[tag], stale) = pending[tag] \ stale
      BY <1>1, <3>1, WithoutIsMinus
    <3> QED BY <2>1, <2>2, <3>2 DEF Applied, stale
  <2>4. Stale(job[r].snap, pending'[tag]) = {}
    BY <1>1, <1>4, <2>2, <2>3, AppliedSettles, ListsAreListed
  <2>5. pending'[tag] \subseteq pending[tag]
    BY <2>3 DEF Applied
  <2>6. Settled(tag)' /\ HasBase(tag)'
    BY <2>1, <2>2, <2>4, <2>5 DEF Settled, Placed, ListBased, Judged, HasBase
  <2>7. job'[r].pc \in {"check", "ok"}
    BY <2>1 DEF AfterOverlay
  <2>8. Phase(r, tag)'
    BY <2>1, <2>2, <2>3, <2>6, <2>7 DEF Phase, Answers
  <2> QED BY <1>6, <2>1, <2>8
<1>10. CASE ReadPrev(r)
  <2>1. /\ UNCHANGED <<snaps, pending, unread, unjudged>> /\ job[r].pc = "prev" /\ job'[r].pc = "save"
        /\ job'[r].tag = tag /\ job'[r].prev = Newest(snaps[tag])
    BY <1>0, <1>1, <1>10 DEF ReadPrev, Job
  <2>2. Settled(tag)
    BY <1>2, <2>1 DEF Phase
  <2>3. Phase(r, tag)'
    BY <2>1, <2>2 DEF Phase, Settled, Placed, ListBased, Judged, HasBase, Answers
  <2> QED BY <1>6, <2>1, <2>3
<1>21. CASE ReadPrevFails(r)
  <2>1. /\ UNCHANGED <<snaps, pending, unread>> /\ job[r].pc = "prev" /\ job'[r].pc = "save"
        /\ job'[r].tag = tag /\ job'[r].prev = job[r].prev /\ unjudged' = unjudged \cup {tag}
    BY <1>0, <1>1, <1>21 DEF ReadPrevFails, Job
  <2>2. Settled(tag) /\ job[r].prev = None
    BY <1>2, <2>1 DEF Phase
  <2>3. Phase(r, tag)'
    BY <2>1, <2>2 DEF Phase, Settled, Placed, ListBased, Judged, HasBase, Answers
  <2> QED BY <1>6, <2>1, <2>3
<1>11. CASE Save(r) \/ SaveFails(r)
  <2>1. /\ UNCHANGED <<pending, unread, unjudged>> /\ job[r].pc = "save" /\ job'[r].tag = tag
        /\ job'[r].upload = job[r].upload /\ job[r].upload \in Export
        /\ job'[r].pc \in {"error", IF job[r].prev = None THEN "recent" ELSE "reconcile"}
        /\ job'[r].pc = "error" => snaps' = snaps
        /\ snaps'[tag] \in {snaps[tag], Saved(snaps[tag], job[r].upload)}
    BY <1>0, <1>1, <1>11 DEF Save, SaveFails, AfterSave, HasUpload, Job
  <2>2. Settled(tag)
    BY <1>2, <2>1 DEF Phase
  <2>3. CASE job'[r].pc = "error"
    <3>1. Phase(r, tag)'
      BY <2>1, <2>2, <2>3 DEF Phase, Settled, Placed, ListBased, Judged, HasBase, Answers
    <3> QED BY <1>6, <2>1, <3>1
  <2>4. CASE job'[r].pc = "recent" /\ ~HasBase(tag)
    <3>1. pending'[tag] = {}
      BY <2>1, <2>2, <2>4 DEF Settled, ListBased
    <3>2. Phase(r, tag)'
      BY <2>4, <3>1 DEF Phase, ListBased, Judged, Answers
    <3> QED BY <1>6, <2>1, <3>2
  <2>8. CASE job'[r].pc = "recent" /\ HasBase(tag)
    <3>1. tag \in unjudged'
      BY <1>2, <2>1, <2>8 DEF Phase, HasBase
    <3>2. HasBase(tag)'
      <4>1. CASE snaps'[tag] = snaps[tag]
        BY <2>8, <4>1 DEF HasBase
      <4>2. CASE snaps'[tag] = Saved(snaps[tag], job[r].upload)
        BY <1>1, <2>1, <4>2, NewestOfSaved, BuildNowAssumption DEF SerialBase, AllFinite, HasBase
      <4> QED BY <2>1, <4>1, <4>2
    <3>3. Phase(r, tag)'
      BY <2>8, <3>1, <3>2 DEF Phase, ListBased, Judged, Answers
    <3> QED BY <1>6, <2>1, <3>3
  <2>5. CASE job'[r].pc = "reconcile"
    <3>1. CASE snaps'[tag] = snaps[tag]
      <4>1. Phase(r, tag)'
        BY <2>1, <2>2, <2>5, <3>1 DEF Phase, Settled, Judged, ListBased, HasBase, Answers
      <4> QED BY <1>6, <2>1, <4>1
    <3>2. CASE snaps'[tag] = Saved(snaps[tag], job[r].upload)
      <4>1. /\ Newest(snaps'[tag]) \in Export
            /\ Newest(snaps'[tag]) # job[r].upload =>
                 /\ Newest(snaps[tag]) \in Export
                 /\ Newest(snaps'[tag]).at <= Newest(snaps[tag]).at
        BY <1>1, <2>1, <3>2, NewestOfSaved DEF SerialBase, AllFinite
      <4>2. HasBase(tag)'
        BY <4>1, BuildNowAssumption DEF HasBase
      <4>3. ASSUME NEW a \in pending[tag], ~(job[r].upload.at > a.startedAt), tag \notin unjudged
            PROVE  Newest(snaps'[tag]).at <= a.startedAt
        <5>1. Newest(snaps[tag]).at <= a.startedAt
          BY <2>2, <4>3 DEF Settled, Judged
        <5> QED BY <1>3, <2>1, <4>1, <4>3, <5>1 DEF Export
      <4>4. Phase(r, tag)'
        BY <2>1, <2>5, <4>2, <4>3 DEF Phase, ListBased, Judged, Retired, Answers
      <4> QED BY <1>6, <2>1, <4>4
    <3> QED BY <2>1, <3>1, <3>2
  <2> QED BY <2>1, <2>3, <2>4, <2>5, <2>8
<1>12. CASE JudgePending(r)
  <2> DEFINE retired == Retired(pending[tag], job[r].upload)
  <2>1. /\ UNCHANGED <<snaps, pending>> /\ job[r].pc = "reconcile" /\ job'[r].tag = tag
        /\ job'[r].upload = job[r].upload /\ job'[r].acts = pending[tag]
        /\ job'[r].pc = IF retired = {} THEN "recent" ELSE "drop"
        /\ unjudged' = IF retired = {} THEN UnjudgedAfter(r) ELSE unjudged
    BY <1>0, <1>1, <1>12 DEF JudgePending, Job
  <2>2. /\ job[r].upload \in Export /\ ListBased(tag)
        /\ Judged(tag, pending[tag] \ retired)
    BY <1>2, <2>1 DEF Phase
  <2>3. CASE retired # {}
    <3>1. Phase(r, tag)'
      BY <2>1, <2>2, <2>3 DEF Phase, ListBased, Judged, HasBase, Answers
    <3> QED BY <1>6, <2>1, <3>1
  <2>4. CASE retired = {}
    <3>1. ASSUME tag \notin unjudged', pending[tag] # {}
          PROVE  \A a \in pending[tag] : Newest(snaps[tag]).at <= a.startedAt
      <4>1. CASE tag \notin unjudged
        BY <2>2, <2>4, <4>1 DEF Judged
      <4>2. CASE tag \in unjudged
        <5>1. \A a \in pending[tag] : ~(job[r].upload.at > a.startedAt)
          BY <2>4 DEF Retired
        <5>2. HasBase(tag) /\ pending[tag] \in SUBSET Action
          BY <1>3, <2>2, <3>1 DEF ListBased
        <5>3. tag \notin UnjudgedAfter(r)
          BY <2>1, <2>4, <3>1
        <5> HIDE DEF retired
        <5> QED BY <1>0, <1>1, <2>2, <4>2, <5>1, <5>2, <5>3, NowJudged
      <4> QED BY <4>1, <4>2
    <3>2. Phase(r, tag)'
      BY <2>1, <2>2, <2>4, <3>1 DEF Phase, ListBased, Judged, HasBase, Answers
    <3> QED BY <1>6, <2>1, <3>2
  <2> QED BY <2>3, <2>4
<1>13. CASE DropRetired(r)
  <2> DEFINE retired == Retired(job[r].acts, job[r].upload)
  <2>1. /\ UNCHANGED snaps /\ job[r].pc = "drop" /\ job'[r].tag = tag
        /\ pending'[tag] = Without(pending[tag], retired)
        /\ job'[r].pc = "recent" /\ unjudged' = UnjudgedAfter(r)
    BY <1>0, <1>1, <1>13 DEF DropRetired, Job
  <2>2. /\ ListBased(tag) /\ job[r].acts = pending[tag] /\ job[r].upload \in Export
        /\ Judged(tag, pending[tag] \ retired)
    BY <1>2, <2>1 DEF Phase
  <2>6. \A a \in pending[tag] \ retired : ~(job[r].upload.at > a.startedAt)
    BY <2>2 DEF Retired
  <2>3. retired \subseteq job[r].acts
    BY DEF Retired
  <2> HIDE DEF retired
  <2>4. pending'[tag] = pending[tag] \ retired
    BY <1>1, <2>1, <2>3, WithoutIsMinus
  <2>7. ASSUME tag \notin unjudged', pending'[tag] # {}
        PROVE  \A a \in pending'[tag] : Newest(snaps[tag]).at <= a.startedAt
    <3>1. CASE tag \notin unjudged
      BY <2>2, <2>4, <3>1 DEF Judged
    <3>2. CASE tag \in unjudged
      <4>1. HasBase(tag) /\ pending'[tag] \in SUBSET Action
        BY <1>3, <2>2, <2>4, <2>7 DEF ListBased
      <4>2. \A a \in pending'[tag] : ~(job[r].upload.at > a.startedAt)
        BY <2>4, <2>6
      <4>3. tag \notin UnjudgedAfter(r)
        BY <2>1, <2>7
      <4> QED BY <1>0, <1>1, <2>2, <3>2, <4>1, <4>2, <4>3, NowJudged
    <3> QED BY <3>1, <3>2
  <2>5. Phase(r, tag)'
    BY <2>1, <2>2, <2>4, <2>7 DEF Phase, ListBased, Judged, HasBase, Answers
  <2> QED BY <1>6, <2>1, <2>5
<1>14. CASE CheckClaim(r)
  <2> DEFINE over == Overlaid(job[r].snap, job[r].acts)
  <2>1. /\ UNCHANGED <<snaps, pending, unread, unjudged>> /\ job[r].pc = "check" /\ job'[r].tag = tag
        /\ job'[r].acts = job[r].acts /\ job'[r].snap = job[r].snap
        /\ job'[r].pc \in {"add", "conflict"}
    BY <1>0, <1>1, <1>14, ClaimShape DEF CheckClaim, Claim
  <2>2. /\ Settled(tag) /\ HasBase(tag) /\ job[r].snap = Newest(snaps[tag])
        /\ pending[tag] = Applied(job[r].snap, job[r].acts)
    BY <1>2, <2>1 DEF Phase
  <2>3. job'[r].pc = "add" => /\ Placeable(over.rows, over.at, job'[r].cand)
                              /\ job'[r].cand.startedAt = now
    BY <1>1, <1>14 DEF CheckClaim, Claim, Startable, Candidate
  <2>4. over.at = job[r].snap.at
    BY <1>4, <2>2 DEF Overlaid, Export
  <2>5. job[r].snap.at <= now
    BY <1>1, <2>2, NewestType DEF SerialBase, NotFuture, HasBase
  <2> HIDE DEF over
  <2>6. Settled(tag)' /\ HasBase(tag)'
    BY <2>1, <2>2 DEF Settled, Placed, ListBased, Judged, HasBase
  <2>7. Phase(r, tag)'
    BY <2>1, <2>2, <2>3, <2>4, <2>5, <2>6 DEF Phase, over, Answers
  <2> QED BY <1>6, <2>1, <2>7
<1>15. CASE Add(r)
  <2> DEFINE new == [job[r].cand EXCEPT !.id = nextId]
  <2>1. /\ UNCHANGED <<snaps, unread, unjudged>> /\ job[r].pc = "add" /\ job'[r].tag = tag
        /\ pending'[tag] = pending[tag] \cup {new} /\ job'[r].pc = "recent"
    BY <1>0, <1>1, <1>15 DEF Add, Job
  <2>2. /\ Settled(tag) /\ HasBase(tag) /\ job[r].snap = Newest(snaps[tag])
        /\ job[r].snap.at <= job[r].cand.startedAt
    BY <1>2, <2>1 DEF Phase
  <2>3. new.startedAt = job[r].cand.startedAt
    BY <1>1, <2>1 DEF HasCandidate, Action
  <2> HIDE DEF new
  <2>4. ListBased(tag)' /\ Judged(tag, pending[tag])'
    BY <2>1, <2>2, <2>3 DEF Settled, Judged, ListBased, HasBase
  <2>5. Phase(r, tag)'
    BY <2>1, <2>4 DEF Phase, Answers
  <2> QED BY <1>6, <2>1, <2>5
<1>16. CASE RemoveOne(r)
  <2>1. /\ UNCHANGED <<snaps, unread, unjudged>> /\ job[r].pc = "remove" /\ job'[r].tag = tag
        /\ pending'[tag] \subseteq pending[tag] /\ job'[r].pc = "recent"
    BY <1>0, <1>1, <1>16 DEF RemoveOne, Job
  <2>2. Settled(tag)
    BY <1>2, <2>1 DEF Phase
  <2>3. Phase(r, tag)'
    BY <2>1, <2>2 DEF Phase, Settled, Judged, ListBased, HasBase, Answers
  <2> QED BY <1>6, <2>1, <2>3
<1>17. CASE Forget(r)
  <2>1. job'[r].tag = tag /\ job'[r].pc = "forgetList"
    BY <1>0, <1>1, <1>17 DEF Forget, Job
  <2>2. Phase(r, tag)'
    BY <2>1 DEF Phase, Answers
  <2> QED BY <1>6, <2>1, <2>2
<1>18. CASE ForgetList(r)
  <2>1. /\ UNCHANGED <<snaps, pending>> /\ job'[r].tag = tag /\ job'[r].acts = pending[tag]
        /\ job'[r].pc = IF pending[tag] = {} THEN "ok" ELSE "forgetDrop"
    BY <1>0, <1>1, <1>18 DEF ForgetList, Job
  <2>2. Phase(r, tag)'
    BY <2>1 DEF Phase, Settled, Placed, ListBased, Judged, Answers
  <2> QED BY <1>6, <2>1, <2>2
<1>19. CASE ForgetDrop(r)
  <2>1. /\ job[r].pc = "forgetDrop" /\ job'[r].tag = tag /\ job'[r].pc = "ok"
        /\ pending'[tag] = Without(pending[tag], job[r].acts)
    BY <1>0, <1>1, <1>19 DEF ForgetDrop, Job
  <2>2. job[r].acts = pending[tag]
    BY <1>2, <2>1 DEF Phase
  <2>3. pending'[tag] = {}
    BY <2>1, <2>2 DEF Without
  <2>4. Phase(r, tag)'
    BY <2>1, <2>3 DEF Phase, Settled, Placed, ListBased, Judged, Answers
  <2> QED BY <1>6, <2>1, <2>4
<1> QED BY <1>5, <1>7, <1>8, <1>9, <1>10, <1>11, <1>12, <1>13, <1>14, <1>15, <1>16,
           <1>17, <1>18, <1>19, <1>20, <1>21 DEF Step

FiniteLists == \A t \in Tags : IsFiniteSet(pending[t])

LEMMA FiniteListsStep ==
  ASSUME TypeInv, FiniteLists, [Next]_vars PROVE FiniteLists'
<1> SUFFICES ASSUME NEW t \in Tags PROVE IsFiniteSet(pending'[t])
  BY DEF FiniteLists
<1>1. IsFiniteSet(pending[t])
  BY DEF FiniteLists
<1>2. CASE pending'[t] \subseteq pending[t]
  BY <1>1, <1>2, FS_Subset
<1>3. CASE ~(pending'[t] \subseteq pending[t])
  <2>1. PICK a \in pending'[t] \ pending[t] : TRUE
    BY <1>3
  <2>2. PICK r \in Requests : Add(r) /\ job[r].tag = t
    BY <2>1, OnlyAddAdds
  <2>3. \E x : pending'[t] = pending[t] \cup {x}
    BY <2>2 DEF Add, TypeInv, TypeOK
  <2>4. PICK x : pending'[t] = pending[t] \cup {x}
    BY <2>3
  <2> QED BY <1>1, <2>4, FS_AddElement
<1> QED BY <1>2, <1>3

SerialInv(r) == SerialBase /\ FiniteLists /\ Served(r)

LEMMA SerialInvHolds ==
  ASSUME NEW r, Requests = {r}
  PROVE  /\ Init => SerialInv(r)
         /\ SerialInv(r) /\ [Next]_vars => SerialInv(r)'
<1>1. Init => SerialInv(r)
  BY SerialBaseHolds, InitServed, FS_EmptySet DEF Init, SerialInv, FiniteLists
<1>2. ASSUME SerialInv(r), [Next]_vars PROVE SerialInv(r)'
  <2>1. SerialBase /\ FiniteLists /\ Served(r) /\ SerialBase'
    BY <1>2, SerialBaseHolds DEF SerialInv
  <2>2. TypeInv
    BY <2>1 DEF SerialBase, IdInv
  <2>3. FiniteLists'
    BY <1>2, <2>1, <2>2, FiniteListsStep
  <2> SUFFICES Served(r)'
    BY <2>1, <2>3 DEF SerialInv
  <2>4. CASE Arrive(r)
    <3>1. /\ UNCHANGED <<snaps, pending, unread, unjudged>> /\ job[r].pc = "idle"
          /\ job'[r].pc \in {"recent", "prev", "remove", "forget"} /\ job'[r].prev = None
      BY <2>2, <2>4, ArriveFrame
    <3>2. \A t \in Tags : Settled(t)
      BY <2>1, <3>1 DEF Served, Phase
    <3>3. \A t \in Tags : Settled(t)'
      BY <3>1, <3>2 DEF Settled, Placed, ListBased, Judged, HasBase
    <3> QED BY <3>1, <3>3, ServedAnew
  <2>5. CASE Step(r)
    BY <2>1, <2>5, StepServed
  <2>6. CASE Restart
    <3>1. \A t \in Tags : Settled(t)'
      BY <2>6 DEF Restart, Settled, Placed, ListBased, Judged
    <3>2. job'[r].pc = "idle"
      BY <2>6 DEF Restart, IdleJob, NewJob
    <3> QED BY <3>1, <3>2, ServedAnew
  <2>7. CASE Tick \/ UNCHANGED vars
    BY <2>1, <2>7 DEF Tick, vars, Served, Phase, Settled, Placed, Judged, HasBase, ListBased
  <2> QED BY <1>2, <2>4, <2>5, <2>6, <2>7 DEF Next
<1> QED BY <1>1, <1>2

\* With every request answered every village is settled.
LEMMA QuietIsSettled ==
  ASSUME NEW r, Requests = {r}, SerialInv(r), Quiet, NEW t \in Tags
  PROVE  Settled(t)
BY DEF SerialInv, Served, Phase, Quiet

\* Served one at a time, requests leave only upgrades the newest export can be
\* overlaid with, chains of instant ones, forgets, failed saves, failed reads of
\* the previous export and restarts included.
THEOREM ListsSettleSerially ==
  ASSUME NEW r, Requests = {r}
  PROVE  Spec => []SettledSerially
<1>1. SerialInv(r) => SettledSerially
  <2> SUFFICES ASSUME SerialInv(r), Quiet, NEW t \in Tags \ unread, pending[t] # {}
               PROVE  snaps[t] # {} /\ Stale(Newest(snaps[t]), pending[t]) = {}
    BY DEF SettledSerially
  <2>1. HasBase(t) /\ Stale(Newest(snaps[t]), pending[t]) = {}
    BY QuietIsSettled DEF Settled, Placed
  <2> QED BY <2>1 DEF HasBase, Newest
<1> QED BY <1>1, SerialInvHolds, PTL DEF Spec

\* Served one at a time, requests leave no upgrade that the newest export
\* postdates, but where that export's upload found the one before it unreadable
\* and judged nothing: the next upload that is the newest makes up for it.
THEOREM UploadsJudge ==
  ASSUME NEW r, Requests = {r}
  PROVE  Spec => []CoveredActionsGone
<1>1. SerialInv(r) => CoveredActionsGone
  <2> SUFFICES ASSUME SerialInv(r), Quiet, NEW t \in Tags, NEW a \in pending[t]
               PROVE  /\ snaps[t] # {}
                      /\ t \notin unjudged => Newest(snaps[t]).at <= a.startedAt
    BY DEF CoveredActionsGone
  <2>1. HasBase(t) /\ (t \notin unjudged => Newest(snaps[t]).at <= a.startedAt)
    BY QuietIsSettled DEF Settled, ListBased, Judged
  <2> QED BY <2>1 DEF HasBase, Newest
<1> QED BY <1>1, SerialInvHolds, PTL DEF Spec

\* Served one at a time, a claim is stored only with a copy of its own in the
\* newest export, next to every upgrade declared before it.
THEOREM ClaimsAreBacked ==
  ASSUME NEW r, Requests = {r}
  PROVE  Spec => ClaimTakesFreeCopy
<1>1. ASSUME SerialInv(r), [Next]_vars
      PROVE  [\A t \in Tags : \A a \in pending'[t] \ pending[t] :
                /\ snaps[t] # {}
                /\ a \in Applied(Newest(snaps[t]), pending'[t])]_vars
  <2>0. SerialBase /\ Served(r) /\ TypeInv /\ IdInv
    BY <1>1 DEF SerialInv, SerialBase, IdInv
  <2> SUFFICES ASSUME NEW t \in Tags, NEW a \in pending'[t] \ pending[t]
               PROVE  snaps[t] # {} /\ a \in Applied(Newest(snaps[t]), pending'[t])
    OBVIOUS
  <2>1. /\ Add(r) /\ job[r].tag = t /\ a = [job[r].cand EXCEPT !.id = nextId]
    BY <1>1, <2>0, OnlyAddAdds
  <2>2. /\ job[r].pc = "add" /\ job[r].cand \in Action /\ nextId \in Nat /\ nextId > 0
        /\ pending'[t] = pending[t] \cup {a}
    BY <2>0, <2>1 DEF Add, TypeInv, TypeOK, HasCandidate, IdInv, PositiveIds
  <2> DEFINE e == Newest(snaps[t])
             acts == job[r].acts
  <2>3. /\ HasBase(t) /\ job[r].snap = e /\ pending[t] = Applied(e, acts)
        /\ Placeable(Overlaid(e, acts).rows, e.at, job[r].cand)
    BY <2>0, <2>1, <2>2 DEF Served, Phase
  <2>4. a \in Action /\ a.id = nextId
    BY <2>1, <2>2 DEF Action
  <2>5. Placeable(Overlaid(e, acts).rows, e.at, a)
    <3>1. a.item = job[r].cand.item /\ a.from = job[r].cand.from /\ a.startedAt = job[r].cand.startedAt
      BY <2>1, <2>2 DEF Action
    <3> QED BY <2>3, <3>1 DEF Placeable, StepTime, Remaining
  <2>6. Listed(acts) /\ \A b \in acts : b.id < a.id
    BY <2>0, <2>4, ListsAreListed DEF IdInv, UniqueIds, Held
  <2>7. e \in Export
    BY <2>0, <2>3, BaseIsExport
  <2> HIDE DEF e, acts
  <2>8. a \in Applied(e, Applied(e, acts) \cup {a})
    BY <2>2, <2>4, <2>5, <2>6, <2>7, NextIsPlaced
  <2> QED BY <2>2, <2>3, <2>8 DEF e, HasBase, Newest
<1> QED BY <1>1, SerialInvHolds, PTL DEF Spec, ClaimTakesFreeCopy

\* Served one at a time, and where the village could be read last, a claim for a
\* suggested step is refused only for want of a copy: the newest export shows as
\* many idle as are declared already.
THEOREM RefusalsAreEarned ==
  ASSUME NEW r, Requests = {r}
  PROVE  Spec => []RefusedForCause
<1>1. ASSUME SerialInv(r) PROVE RefusedForCause
  <2>0. SerialBase /\ FiniteLists /\ TypeInv /\ IdInv /\ NotFuture /\ now \in Nat
    BY <1>1 DEF SerialInv, SerialBase, IdInv, TypeInv, TypeOK
  <2> DEFINE over(t) == Overlaid(Newest(snaps[t]), pending[t])
  <2> SUFFICES ASSUME Quiet, NEW t \in Tags \ unread, snaps[t] # {},
                      NEW ask \in Suggested(over(t), now) \ Startable(over(t), now),
                      ask.item \in Arrayed
               PROVE  Idle(t, ask) = Taken(t, ask)
    BY DEF RefusedForCause
  <2> DEFINE e == Newest(snaps[t])
             acts == pending[t]
             i == ask.item
             l == ask.from
             last == LastId(acts)
             cand == Candidate(ask, now)
  <2>1. e # None /\ e \in Export /\ e \in snaps[t] /\ e.at <= now
    <3>1. snaps[t] \in SUBSET Export /\ IsFiniteSet(snaps[t])
      BY <2>0 DEF TypeInv, TypeOK, SerialBase, AllFinite
    <3>2. e # None
      BY <3>1, NewestIsLatest
    <3> QED BY <2>0, <3>1, <3>2, NewestType DEF NotFuture
  <2>2. Listed(acts) /\ IsFiniteSet(acts) /\ acts \subseteq Action
    BY <2>0, ListsAreListed DEF FiniteLists, Listed
  <2>3. Stale(e, acts) = {}
    <3>1. Placed(t)
      BY <1>1, QuietIsSettled DEF Settled
    <3>2. CASE acts = {}
      BY <3>2 DEF Stale
    <3> QED BY <3>1, <3>2 DEF Placed
  <2>4. i \in Known /\ i \in Items /\ l \in Levels
    BY OverlayAssumption DEF Suggested
  <2>5. e.at \in Nat /\ over(t).at = e.at /\ over(t).rows = AfterAction(e, acts)[last]
    BY <2>1 DEF Overlaid, Export
  <2>6. cand.item = i /\ cand.from = l /\ cand.startedAt = now
    BY DEF Candidate
  <2>7. ~Placeable(over(t).rows, over(t).at, cand)
    BY DEF Startable
  <2>8. last \in Nat /\ \A a \in acts : a.id <= last
    <3>1. \A a \in acts : a.id <= nextId
      BY <2>0 DEF IdInv, UniqueIds, Held, TypeInv, TypeOK, Action
    <3>2. nextId \in Nat
      BY <2>0 DEF TypeInv, TypeOK
    <3> QED BY <2>2, <3>1, <3>2, LastIdIsLast
  <2> HIDE DEF e, acts, i, l, last, cand, over
  <2>9. Remaining(cand, e.at) > 0 \/ ~(StepTime(cand) > 0)
    <3>1. StepTime(cand) \in Nat
      BY <2>4, <2>6, OverlayAssumption DEF StepTime
    <3> QED BY <2>0, <2>1, <2>5, <2>6, <3>1 DEF Remaining
  <2>10. IdleCell(i, l) \in Cells /\ AfterAction(e, acts)[last][IdleCell(i, l)] \in Nat
    BY <2>1, <2>2, <2>4, <2>8, IdleCellIsACell, AfterActionType, RowsAreNat
  <2>11. AfterAction(e, acts)[last][IdleCell(i, l)] = 0
    <3>1. ~(AfterAction(e, acts)[last][IdleCell(i, l)] > 0)
      BY <2>4, <2>5, <2>6, <2>7, <2>9, PlaceableCell DEF i
    <3> QED BY <2>10, <3>1
  <2>12. e.rows[IdleCell(i, l)] + Cardinality(ReachedBy(acts, i, l, last))
           - Cardinality(LeftBy(acts, i, l, last)) = 0
    BY <2>1, <2>2, <2>3, <2>4, <2>8, <2>11, IdleCount
  <2>13. LeftBy(acts, i, l, last) = {a \in pending[t] : a.item = ask.item /\ a.from = ask.from}
    BY <2>8 DEF LeftBy, acts, i, l
  <2>14. ReachedBy(acts, i, l, last) =
           {a \in pending[t] : /\ a.item = ask.item /\ StepTime(a) = 0
                               /\ a.from + 1 = ask.from}
    BY <2>8 DEF ReachedBy, acts, i, l
  <2>15. /\ Cardinality(LeftBy(acts, i, l, last)) \in Nat
         /\ Cardinality(ReachedBy(acts, i, l, last)) \in Nat
         /\ e.rows[IdleCell(i, l)] \in Nat
    BY <2>1, <2>2, <2>10, FS_Subset, FS_CardinalityType, RowsAreNat DEF LeftBy, ReachedBy, Export
  <2>16. Taken(t, ask) = Cardinality(LeftBy(acts, i, l, last))
    BY <2>13 DEF Taken
  <2>17. Idle(t, ask) = e.rows[IdleCell(i, l)] + Cardinality(ReachedBy(acts, i, l, last))
    BY <2>14 DEF Idle, IdleCell, e, i, l
  <2> QED BY <2>12, <2>15, <2>16, <2>17
<1> QED BY <1>1, SerialInvHolds, PTL DEF Spec
=============================================================================
