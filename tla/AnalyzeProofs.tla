---------------------------- MODULE AnalyzeProofs ----------------------------
(***************************************************************************)
(* Theorems about Analyze for every catalog, account, player and clock.    *)
(* The villages are bags and everything the report says of them is a sum   *)
(* or an image, so the first lemmas make bags countable: a bag's copies    *)
(* are paired with numbers, and the sums of the model, which add up in the *)
(* order CHOOSE picks, are cardinalities of such sets of pairs.  Then come *)
(* the actions, counted, and with them the change log, the report of a     *)
(* player who waits, and the game's rules for levels and halls.            *)
(***************************************************************************)
EXTENDS Analyze, WellFoundedInduction, FiniteSetTheorems, TLAPS

-----------------------------------------------------------------------------
(* Counting.                                                               *)

\* Induction over the subsets of a finite set, for a set of them.
LEMMA SubsetInduction ==
  ASSUME NEW S, IsFiniteSet(S), NEW Good,
         \A T \in SUBSET S : (\A x \in T : T \ {x} \in Good) => T \in Good
  PROVE  \A T \in SUBSET S : T \in Good
<1> DEFINE Bad == {T \in SUBSET S : T \notin Good}
<1>1. ASSUME Bad # {} PROVE FALSE
  <2>1. Bad \subseteq FiniteSubsetsOf(S)
    BY FS_FiniteSubsetsOfFinite
  <2> HIDE DEF Bad
  <2>2. PICK T \in Bad : \A U \in Bad : ~(<<U, T>> \in StrictSubsetOrdering(S))
    BY <1>1, <2>1, WFMin, FS_StrictSubsetOrderingWellFounded
  <2> USE DEF Bad
  <2>3. T \in SUBSET S /\ T \notin Good
    BY <2>2
  <2>4. ASSUME NEW x \in T PROVE T \ {x} \in Good
    <3>1. T \ {x} \in SUBSET S
      BY <2>3
    <3>2. <<T \ {x}, T>> \in StrictSubsetOrdering(S)
      BY <2>3, <3>1 DEF StrictSubsetOrdering
    <3> QED BY <2>2, <3>1, <3>2
  <2> QED BY <2>3, <2>4
<1> QED BY <1>1

\* The copies of the elements of T in a bag, one by one.
Heap(T, B)  == {p \in (BagToSet(B) \cap T) \X (Nat \ {0}) : p[2] <= B[p[1]]}
Tally(T, B) == Cardinality(Heap(T, B))
Finite(B)   == IsABag(B) /\ IsFiniteSet(BagToSet(B))

\* The copies of one element,
LEMMA HeapOfOne ==
  ASSUME NEW x, NEW n \in Nat, NEW H, H = {p \in {x} \X (Nat \ {0}) : p[2] <= n}
  PROVE  IsFiniteSet(H) /\ Cardinality(H) = n
<1> DEFINE f == [k \in 1..n |-> <<x, k>>]
<1>1. f \in Injection(1..n, H)
  BY DEF Injection, IsInjective
<1>2. f \in Surjection(1..n, H)
  <2> SUFFICES ASSUME NEW p \in H PROVE \E k \in 1..n : f[k] = p
    BY <1>1 DEF Surjection, Injection
  <2>1. p[2] \in 1..n /\ p = <<x, p[2]>>
    OBVIOUS
  <2> QED BY <2>1
<1>3. ExistsBijection(1..n, H)
  BY <1>1, <1>2 DEF ExistsBijection, Bijection
<1>4. IsFiniteSet(1..n) /\ Cardinality(1..n) = n
  BY FS_Interval
<1> HIDE DEF f
<1> QED BY <1>3, <1>4, FS_Bijection

\* and those of one element and the others.
LEMMA HeapSplits ==
  ASSUME NEW B, Finite(B), NEW T, NEW x
  PROVE  /\ x \notin T => Heap(T, B) = Heap(T \ {x}, B)
         /\ x \in T => /\ Heap(T, B) = Heap({x}, B) \cup Heap(T \ {x}, B)
                       /\ Heap({x}, B) \cap Heap(T \ {x}, B) = {}
                       /\ IsFiniteSet(Heap({x}, B))
                       /\ Cardinality(Heap({x}, B)) = Copies(x, B)
<1>1. x \notin T => Heap(T, B) = Heap(T \ {x}, B)
  BY DEF Heap
<1>2. x \in T => /\ Heap(T, B) = Heap({x}, B) \cup Heap(T \ {x}, B)
                 /\ Heap({x}, B) \cap Heap(T \ {x}, B) = {}
  BY DEF Heap
<1>3. CASE BagIn(x, B)
  <2>1. B[x] \in Nat
    BY <1>3 DEF Finite, IsABag, BagIn, BagToSet
  <2>2. Heap({x}, B) = {p \in {x} \X (Nat \ {0}) : p[2] <= B[x]}
    BY <1>3 DEF Heap, BagIn
  <2>3. IsFiniteSet(Heap({x}, B)) /\ Cardinality(Heap({x}, B)) = B[x]
    BY <2>1, <2>2, HeapOfOne
  <2> QED BY <1>1, <1>2, <1>3, <2>3 DEF Copies
<1>4. CASE ~BagIn(x, B)
  <2>1. Heap({x}, B) = {}
    BY <1>4 DEF Heap, BagIn
  <2> QED BY <1>1, <1>2, <1>4, <2>1, FS_EmptySet DEF Copies
<1> QED BY <1>3, <1>4

\* Counting copies counts finitely many things.
LEMMA HeapIsFinite ==
  ASSUME NEW B, Finite(B), NEW T
  PROVE  IsFiniteSet(Heap(T, B))
<1> DEFINE S == BagToSet(B)
           Good == {U \in SUBSET S : IsFiniteSet(Heap(U, B))}
<1>1. IsFiniteSet(S)
  BY DEF Finite
<1>2. {} \in Good
  <2>1. Heap({}, B) = {}
    BY DEF Heap
  <2> QED BY <2>1, FS_EmptySet
<1>3. ASSUME NEW U \in SUBSET S, \A x \in U : U \ {x} \in Good, U # {} PROVE U \in Good
  <2>0. PICK x \in U : TRUE
    BY <1>3
  <2>1. IsFiniteSet(Heap(U \ {x}, B))
    BY <1>3
  <2>2. Heap(U, B) = Heap({x}, B) \cup Heap(U \ {x}, B) /\ IsFiniteSet(Heap({x}, B))
    BY HeapSplits
  <2> QED BY <2>1, <2>2, FS_Union
<1>4. \A U \in SUBSET S : U \in Good
  <2> HIDE DEF Good, S
  <2> QED BY <1>1, <1>2, <1>3, SubsetInduction
<1>5. Heap(T, B) = Heap(S \cap T, B)
  BY DEF Heap
<1> QED BY <1>4, <1>5

\* Copies are naturals, and positive of what is in the bag.
LEMMA CopiesIsNat ==
  ASSUME NEW B, IsABag(B), NEW x
  PROVE  Copies(x, B) \in Nat /\ (Copies(x, B) > 0 <=> x \in BagToSet(B))
<1>1. CASE x \in BagToSet(B)
  <2>1. B[x] \in Nat /\ B[x] > 0
    BY <1>1 DEF IsABag, BagToSet
  <2> QED BY <1>1, <2>1 DEF Copies, BagIn
<1> QED BY <1>1 DEF Copies, BagIn

\* A tally counts each element's copies,
LEMMA TallyTakes ==
  ASSUME NEW B, Finite(B), NEW T
  PROVE  /\ Tally({}, B) = 0 /\ Tally(T, B) \in Nat
         /\ \A x \in T : /\ Tally(T, B) = Copies(x, B) + Tally(T \ {x}, B)
                         /\ Tally(T \ {x}, B) \in Nat /\ Copies(x, B) \in Nat
         /\ \A x : x \notin T => Tally(T, B) = Tally(T \ {x}, B)
<1>1. Tally({}, B) = 0
  <2>1. Heap({}, B) = {}
    BY DEF Heap
  <2> QED BY <2>1, FS_EmptySet DEF Tally
<1>2. \A U : Tally(U, B) \in Nat
  BY HeapIsFinite, FS_CardinalityType DEF Tally
<1>3. ASSUME NEW x \in T PROVE Tally(T, B) = Copies(x, B) + Tally(T \ {x}, B)
  <2> DEFINE One == Heap({x}, B)
             Rest == Heap(T \ {x}, B)
  <2>1. /\ Heap(T, B) = One \cup Rest /\ One \cap Rest = {}
        /\ IsFiniteSet(One) /\ Cardinality(One) = Copies(x, B)
    BY HeapSplits
  <2>2. IsFiniteSet(Rest)
    BY HeapIsFinite
  <2>3. Copies(x, B) \in Nat /\ Cardinality(Rest) \in Nat
    BY <2>2, CopiesIsNat, FS_CardinalityType DEF Finite
  <2> HIDE DEF One, Rest
  <2>4. Cardinality(Heap(T, B)) = Cardinality(One) + Cardinality(Rest) - Cardinality(One \cap Rest)
    BY <2>1, <2>2, FS_Union
  <2>5. Cardinality(One \cap Rest) = 0
    BY <2>1, FS_EmptySet
  <2>6. Cardinality(Heap(T, B)) = Copies(x, B) + Cardinality(Rest)
    BY <2>1, <2>3, <2>4, <2>5
  <2> QED BY <2>6 DEF Tally, Rest
<1>4. \A x : x \notin T => Tally(T, B) = Tally(T \ {x}, B)
  BY HeapSplits DEF Tally
<1>5. \A x : Copies(x, B) \in Nat
  BY CopiesIsNat DEF Finite
<1> QED BY <1>1, <1>2, <1>3, <1>4, <1>5

\* so that only they matter,
LEMMA TallyAgrees ==
  ASSUME NEW B, Finite(B), NEW C, Finite(C), NEW T, \A x \in T : Copies(x, B) = Copies(x, C)
  PROVE  Tally(T, B) = Tally(T, C)
<1>1. \A x \in T : x \in BagToSet(B) <=> x \in BagToSet(C)
  BY CopiesIsNat DEF Finite
<1>2. \A x \in T \cap BagToSet(B) : B[x] = C[x]
  BY <1>1 DEF Copies, BagIn
<1>3. Heap(T, B) = Heap(T, C)
  BY <1>1, <1>2 DEF Heap
<1> QED BY <1>3 DEF Tally

\* and what is not in the bag adds nothing;
LEMMA TallyWithin ==
  ASSUME NEW B, NEW T, NEW U, T \cap BagToSet(B) = U \cap BagToSet(B)
  PROVE  Tally(T, B) = Tally(U, B)
<1>1. Heap(T, B) = Heap(U, B)
  BY DEF Heap
<1> QED BY <1>1 DEF Tally

\* disjoint parts add up,
LEMMA TallySplits ==
  ASSUME NEW B, Finite(B), NEW T, NEW U, T \cap U \cap BagToSet(B) = {}
  PROVE  Tally(T \cup U, B) = Tally(T, B) + Tally(U, B)
<1> DEFINE H == Heap(T, B)
           K == Heap(U, B)
<1>1. Heap(T \cup U, B) = H \cup K /\ H \cap K = {}
  BY DEF Heap
<1>2. IsFiniteSet(H) /\ IsFiniteSet(K)
  BY HeapIsFinite
<1>3. Cardinality(H) \in Nat /\ Cardinality(K) \in Nat
  BY <1>2, FS_CardinalityType
<1>4. Cardinality(H \cap K) = 0
  BY <1>1, FS_EmptySet
<1> HIDE DEF H, K
<1>4a. Cardinality(H \cup K) = Cardinality(H) + Cardinality(K) - Cardinality(H \cap K)
  BY <1>2, FS_Union
<1>5. Cardinality(H \cup K) = Cardinality(H) + Cardinality(K)
  BY <1>3, <1>4, <1>4a
<1> QED BY <1>1, <1>5 DEF Tally, H, K

\* a part counts no more than the whole,
LEMMA TallyOfPart ==
  ASSUME NEW B, Finite(B), NEW T, NEW U, T \cap BagToSet(B) \subseteq U
  PROVE  Tally(T, B) <= Tally(U, B)
<1>1. Heap(T, B) \in SUBSET Heap(U, B)
  BY DEF Heap
<1> QED BY <1>1, HeapIsFinite, FS_Subset DEF Tally

\* and it is positive when an element of the bag is counted.
LEMMA TallyIsPositive ==
  ASSUME NEW B, Finite(B), NEW T
  PROVE  Tally(T, B) > 0 <=> T \cap BagToSet(B) # {}
<1>1. ASSUME NEW x \in T \cap BagToSet(B) PROVE Tally(T, B) > 0
  <2>1. Copies(x, B) > 0
    BY CopiesIsNat DEF Finite
  <2>2. /\ Tally(T, B) = Copies(x, B) + Tally(T \ {x}, B)
        /\ Tally(T \ {x}, B) \in Nat /\ Copies(x, B) \in Nat
    BY TallyTakes
  <2> QED BY <2>1, <2>2
<1>2. ASSUME T \cap BagToSet(B) = {} PROVE Tally(T, B) = 0
  BY <1>2, TallyWithin, TallyTakes
<1> QED BY <1>1, <1>2

-----------------------------------------------------------------------------
(* The model's own sums.                                                   *)

\* Adding up a function over subsets, one chosen element after another.
OneOf(T) == CHOOSE x \in T : TRUE
SumUp(g, f, S) ==
  \A T \in SUBSET S : g[T] = IF T = {} THEN 0 ELSE f[OneOf(T)] + g[T \ {OneOf(T)}]

\* It can be done in one way only.
LEMMA SumsAgree ==
  ASSUME NEW S, IsFiniteSet(S), NEW f, NEW g, NEW k, SumUp(g, f, S), SumUp(k, f, S)
  PROVE  g[S] = k[S]
<1> DEFINE Good == {T \in SUBSET S : g[T] = k[T]}
<1>1. ASSUME NEW T \in SUBSET S, \A x \in T : T \ {x} \in Good PROVE T \in Good
  <2>1. CASE T = {}
    BY <2>1 DEF SumUp
  <2>2. CASE T # {}
    <3>1. OneOf(T) \in T
      BY <2>2 DEF OneOf
    <3>2. g[T \ {OneOf(T)}] = k[T \ {OneOf(T)}]
      BY <1>1, <3>1
    <3> QED BY <2>2, <3>2 DEF SumUp
  <2> QED BY <2>1, <2>2
<1>2. \A T \in SUBSET S : T \in Good
  <2> HIDE DEF Good
  <2> QED BY <1>1, SubsetInduction
<1> QED BY <1>2

\* If some function does it, the one MapThenSumSet picks does.
SumsUp(h, B, S) == h = [T \in SUBSET S |-> IF T = {} THEN 0 ELSE B[OneOf(T)] + h[T \ {OneOf(T)}]]

\* If some function sums up the copies, the one SumFunction picks does.
LEMMA SumPicked ==
  ASSUME NEW B, \E h : SumsUp(h, B, DOMAIN B)
  PROVE  \E h : SumsUp(h, B, DOMAIN B) /\ SumFunction(B) = h[DOMAIN B]
<1> DEFINE h == CHOOSE h : SumsUp(h, B, DOMAIN B)
<1>1. SumsUp(h, B, DOMAIN B)
  OBVIOUS
<1>2. SumFunction(B) = h[DOMAIN B]
  BY Zenon DEF SumFunction, SumFunctionOnSet, FoldFunctionOnSet, MapThenFoldSet, SumsUp, OneOf
<1> QED BY <1>1, <1>2

\* A sum of naturals is the tally of a bag with as many copies of each.
Bagged(f) == [x \in {x \in DOMAIN f : f[x] > 0} |-> f[x]]

\* The sum of a function is the tally of the bag it makes.
LEMMA SumIsTally ==
  ASSUME NEW S, IsFiniteSet(S), NEW f \in [S -> Nat]
  PROVE  /\ Finite(Bagged(f)) /\ \A x \in S : Copies(x, Bagged(f)) = f[x]
         /\ SumFunction(f) = Tally(S, Bagged(f))
<1> DEFINE B == Bagged(f)
           tally == [T \in SUBSET S |-> Tally(T, B)]
           better == [T \in SUBSET S |-> IF T = {} THEN 0 ELSE f[OneOf(T)] + tally[T \ {OneOf(T)}]]
<1>0. /\ BagToSet(B) = {x \in S : f[x] > 0} /\ \A x \in BagToSet(B) : B[x] = f[x]
      /\ IsABag(B)
  BY DEF Bagged, BagToSet, IsABag
<1>1. Finite(B)
  BY <1>0, FS_Subset DEF Finite
<1>1a. \A x \in S : Copies(x, B) = f[x]
  BY <1>0 DEF Copies, BagIn
<1> HIDE DEF B
<1>2. ASSUME NEW T \in SUBSET S PROVE tally[T] = better[T]
  <2>1. CASE T = {}
    BY <1>1, <2>1, TallyTakes
  <2>2. CASE T # {}
    <3>1. OneOf(T) \in T
      BY <2>2 DEF OneOf
    <3>2. Tally(T, B) = Copies(OneOf(T), B) + Tally(T \ {OneOf(T)}, B)
      BY <1>1, <3>1, TallyTakes
    <3>3. Copies(OneOf(T), B) = f[OneOf(T)]
      BY <1>1a, <3>1
    <3>4. T \ {OneOf(T)} \in SUBSET S
      OBVIOUS
    <3> QED BY <2>2, <3>2, <3>3, <3>4
  <2> QED BY <2>1, <2>2
<1>3. SumsUp(tally, f, S)
  <2>1. tally = better
    BY <1>2
  <2> QED BY <2>1 DEF SumsUp
<1>3a. DOMAIN f = S
  OBVIOUS
<1>4. PICK k : SumsUp(k, f, S) /\ SumFunction(f) = k[S]
  <2> HIDE DEF tally
  <2>1. \E h : SumsUp(h, f, DOMAIN f)
    BY <1>3, <1>3a
  <2> QED BY <1>3a, <2>1, SumPicked
<1>5. SumUp(k, f, S)
  <2>1. ASSUME NEW T \in SUBSET S
        PROVE  k[T] = IF T = {} THEN 0 ELSE f[OneOf(T)] + k[T \ {OneOf(T)}]
    BY <1>4, Zenon DEF SumsUp
  <2> QED BY <2>1 DEF SumUp
<1>6. SumUp(tally, f, S)
  BY <1>2 DEF SumUp
<1>7. k[S] = tally[S]
  <2> HIDE DEF tally
  <2> QED BY <1>5, <1>6, SumsAgree
<1> QED BY <1>1, <1>1a, <1>4, <1>7 DEF B

\* The size of a bag is the tally of everything in it,
LEMMA SizeIsTally ==
  ASSUME NEW B, Finite(B)
  PROVE  Size(B) = Tally(BagToSet(B), B)
<1>1. IsFiniteSet(DOMAIN B) /\ BagToSet(B) = DOMAIN B
  BY DEF Finite, BagToSet
<1>2. B \in [DOMAIN B -> Nat] /\ \A x \in DOMAIN B : B[x] > 0
  BY DEF Finite, IsABag
<1>3. Bagged(B) = B
  BY <1>2 DEF Bagged
<1> QED BY <1>1, <1>2, <1>3, SumIsTally DEF Size

\* and that of a part of it is the tally of the part.
LEMMA SizeOfPart ==
  ASSUME NEW B, Finite(B), NEW T \in SUBSET BagToSet(B)
  PROVE  /\ Finite(Restrict(B, T)) /\ BagToSet(Restrict(B, T)) = T
         /\ \A x \in T : Copies(x, Restrict(B, T)) = Copies(x, B)
         /\ \A U : Tally(U, Restrict(B, T)) = Tally(U \cap T, B)
         /\ Size(Restrict(B, T)) = Tally(T, B)
<1> DEFINE P == Restrict(B, T)
<1>1. DOMAIN P = T /\ \A x \in T : P[x] = B[x]
  BY DEF Restrict
<1>2. \A x \in T : B[x] \in {n \in Nat : n > 0}
  BY DEF Finite, IsABag, BagToSet
<1>2a. P = [x \in DOMAIN P |-> P[x]]
  BY DEF Restrict
<1> HIDE DEF P
<1>3. Finite(P) /\ BagToSet(P) = T
  <2>1. IsABag(P)
    BY <1>1, <1>2, <1>2a DEF IsABag
  <2>2. IsFiniteSet(T)
    BY FS_Subset DEF Finite
  <2> QED BY <1>1, <2>1, <2>2 DEF Finite, BagToSet
<1>4. ASSUME NEW x \in T PROVE Copies(x, P) = Copies(x, B)
  BY <1>1, <1>3 DEF Copies, BagIn
<1>5. ASSUME NEW U PROVE Tally(U, P) = Tally(U \cap T, B)
  <2>1. Heap(U, P) = Heap(U \cap T, B)
    BY <1>1, <1>3 DEF Heap
  <2> QED BY <2>1 DEF Tally
<1>6. Size(P) = Tally(T, B)
  <2>1. Size(P) = Tally(T, P)
    BY <1>3, SizeIsTally
  <2>2. Tally(T, P) = Tally(T \cap T, B)
    BY <1>5
  <2>3. T \cap T = T
    OBVIOUS
  <2> QED BY <2>1, <2>2, <2>3
<1> QED BY <1>3, <1>4, <1>5, <1>6 DEF P

-----------------------------------------------------------------------------
(* Sums of naturals.                                                       *)

\* What a function is on part of its domain.
Part(f, T) == [x \in T |-> f[x]]

\* Sums of naturals are naturals, and any term may be taken out first.
LEMMA SumTakes ==
  ASSUME NEW S, IsFiniteSet(S), NEW f \in [S -> Nat]
  PROVE  /\ SumFunction(f) \in Nat
         /\ S = {} => SumFunction(f) = 0
         /\ \A T \in SUBSET S :
              /\ Part(f, T) \in [T -> Nat] /\ SumFunction(Part(f, T)) \in Nat
              /\ SumFunction(Part(f, T)) = Tally(T, Bagged(f))
         /\ \A x \in S : SumFunction(f) = f[x] + SumFunction(Part(f, S \ {x}))
<1>1. /\ Finite(Bagged(f)) /\ \A x \in S : Copies(x, Bagged(f)) = f[x]
      /\ SumFunction(f) = Tally(S, Bagged(f))
  BY SumIsTally
<1>2. SumFunction(f) \in Nat /\ (S = {} => SumFunction(f) = 0)
  BY <1>1, TallyTakes
<1>3. ASSUME NEW T \in SUBSET S
      PROVE  /\ Part(f, T) \in [T -> Nat] /\ SumFunction(Part(f, T)) \in Nat
             /\ SumFunction(Part(f, T)) = Tally(T, Bagged(f))
  <2>1. IsFiniteSet(T) /\ Part(f, T) \in [T -> Nat]
    BY FS_Subset DEF Part
  <2>2. /\ Finite(Bagged(Part(f, T))) /\ \A x \in T : Copies(x, Bagged(Part(f, T))) = Part(f, T)[x]
        /\ SumFunction(Part(f, T)) = Tally(T, Bagged(Part(f, T)))
    BY <2>1, SumIsTally
  <2>3. \A x \in T : Copies(x, Bagged(Part(f, T))) = Copies(x, Bagged(f))
    BY <1>1, <2>2 DEF Part
  <2>4. Tally(T, Bagged(Part(f, T))) = Tally(T, Bagged(f))
    BY <1>1, <2>2, <2>3, TallyAgrees
  <2> QED BY <1>1, <2>1, <2>2, <2>4, TallyTakes
<1>4. ASSUME NEW x \in S PROVE SumFunction(f) = f[x] + SumFunction(Part(f, S \ {x}))
  <2>1. Tally(S, Bagged(f)) = Copies(x, Bagged(f)) + Tally(S \ {x}, Bagged(f))
    BY <1>1, TallyTakes
  <2>2. SumFunction(Part(f, S \ {x})) = Tally(S \ {x}, Bagged(f))
    BY <1>3
  <2> QED BY <1>1, <2>1, <2>2
<1> QED BY <1>2, <1>3, <1>4

\* A sum is that over two parts that have nothing in common,
LEMMA SumSplits ==
  ASSUME NEW S, IsFiniteSet(S), NEW f \in [S -> Nat], NEW T \in SUBSET S
  PROVE  SumFunction(f) = SumFunction(Part(f, T)) + SumFunction(Part(f, S \ T))
<1>1. Finite(Bagged(f)) /\ SumFunction(f) = Tally(S, Bagged(f))
  BY SumIsTally
<1>2. T \cap (S \ T) \cap BagToSet(Bagged(f)) = {} /\ T \cup (S \ T) = S
  OBVIOUS
<1>3. Tally(T \cup (S \ T), Bagged(f)) = Tally(T, Bagged(f)) + Tally(S \ T, Bagged(f))
  BY <1>1, <1>2, TallySplits
<1>4. /\ SumFunction(Part(f, T)) = Tally(T, Bagged(f))
      /\ SumFunction(Part(f, S \ T)) = Tally(S \ T, Bagged(f))
  BY SumTakes
<1> QED BY <1>1, <1>2, <1>3, <1>4

\* it grows with what is added up,
LEMMA SumsCompare ==
  ASSUME NEW S, IsFiniteSet(S), NEW f \in [S -> Nat], NEW g \in [S -> Nat],
         \A x \in S : f[x] <= g[x]
  PROVE  /\ SumFunction(f) <= SumFunction(g)
         /\ (\E x \in S : f[x] < g[x]) => SumFunction(f) < SumFunction(g)
         /\ SumFunction(f) = SumFunction(g) => \A x \in S : f[x] = g[x]
<1> DEFINE F(T) == SumFunction(Part(f, T))
           G(T) == SumFunction(Part(g, T))
           Good == {T \in SUBSET S : F(T) <= G(T)}
<1>1. ASSUME NEW T \in SUBSET S, NEW x \in T
      PROVE  /\ F(T) = f[x] + F(T \ {x}) /\ G(T) = g[x] + G(T \ {x})
             /\ F(T \ {x}) \in Nat /\ G(T \ {x}) \in Nat
  <2>1. IsFiniteSet(T) /\ Part(f, T) \in [T -> Nat] /\ Part(g, T) \in [T -> Nat]
    BY FS_Subset DEF Part
  <2>2. /\ F(T) = Part(f, T)[x] + SumFunction(Part(Part(f, T), T \ {x}))
        /\ G(T) = Part(g, T)[x] + SumFunction(Part(Part(g, T), T \ {x}))
    BY <2>1, SumTakes
  <2>3. /\ Part(Part(f, T), T \ {x}) = Part(f, T \ {x}) /\ Part(Part(g, T), T \ {x}) = Part(g, T \ {x})
        /\ Part(f, T)[x] = f[x] /\ Part(g, T)[x] = g[x]
    BY DEF Part
  <2>4. T \ {x} \in SUBSET S
    OBVIOUS
  <2>5. F(T \ {x}) \in Nat /\ G(T \ {x}) \in Nat
    BY <2>4, SumTakes
  <2> QED BY <2>2, <2>3, <2>5
<1>2. ASSUME NEW T \in SUBSET S, \A x \in T : T \ {x} \in Good PROVE T \in Good
  <2>1. CASE T = {}
    <3>1. Part(f, T) = Part(g, T)
      BY <2>1 DEF Part
    <3>2. F(T) \in Nat
      BY SumTakes
    <3> QED BY <3>1, <3>2
  <2>2. CASE T # {}
    <3>1. PICK x \in T : TRUE
      BY <2>2
    <3>2. F(T \ {x}) <= G(T \ {x}) /\ f[x] <= g[x] /\ f[x] \in Nat /\ g[x] \in Nat
      BY <1>2, <3>1
    <3> QED BY <1>1, <3>1, <3>2
  <2> QED BY <2>1, <2>2
<1> HIDE DEF Good
<1>3. \A T \in SUBSET S : T \in Good
  BY <1>2, SubsetInduction
<1>4. \A T \in SUBSET S : F(T) <= G(T)
  BY <1>3 DEF Good
<1>5. F(S) = SumFunction(f) /\ G(S) = SumFunction(g)
  <2>1. Part(f, S) = f /\ Part(g, S) = g
    BY DEF Part
  <2> QED BY <2>1
<1>6. ASSUME NEW x \in S, f[x] < g[x] PROVE SumFunction(f) < SumFunction(g)
  <2>1. F(S \ {x}) <= G(S \ {x})
    BY <1>4
  <2>2. /\ F(S) = f[x] + F(S \ {x}) /\ G(S) = g[x] + G(S \ {x})
        /\ F(S \ {x}) \in Nat /\ G(S \ {x}) \in Nat
    BY <1>1
  <2>3. f[x] \in Nat /\ g[x] \in Nat
    OBVIOUS
  <2> HIDE DEF F, G
  <2> QED BY <1>5, <1>6, <2>1, <2>2, <2>3
<1>7. SumFunction(f) = SumFunction(g) => \A x \in S : f[x] = g[x]
  <2>1. \A x \in S : f[x] \in Nat /\ g[x] \in Nat /\ f[x] <= g[x]
    OBVIOUS
  <2>2. SumFunction(f) \in Nat
    BY SumTakes
  <2> QED BY <1>6, <2>1, <2>2
<1> QED BY <1>4, <1>5, <1>6, <1>7

-----------------------------------------------------------------------------
(* What the operations on bags do to copies and tallies.                   *)

\* Two bags with the same copies of everything are the same.
LEMMA BagsAgree ==
  ASSUME NEW B, IsABag(B), NEW C, IsABag(C), \A x : Copies(x, B) = Copies(x, C)
  PROVE  B = C
<1>1. \A x : x \in DOMAIN B <=> x \in DOMAIN C
  BY CopiesIsNat DEF BagToSet
<1>2. DOMAIN B = DOMAIN C
  BY <1>1
<1>3. \A x \in DOMAIN B : B[x] = C[x]
  BY <1>2 DEF Copies, BagIn, BagToSet
<1>4. B = [x \in DOMAIN B |-> B[x]] /\ C = [x \in DOMAIN C |-> C[x]]
  BY DEF IsABag
<1>5. [x \in DOMAIN B |-> B[x]] = [x \in DOMAIN C |-> C[x]]
  BY <1>2, <1>3
<1> QED BY <1>4, <1>5

\* Nothing is in the empty bag.
LEMMA EmptyIsFinite ==
  /\ Finite(EmptyBag) /\ BagToSet(EmptyBag) = {}
  /\ \A x : Copies(x, EmptyBag) = 0 /\ ~BagIn(x, EmptyBag)
BY FS_EmptySet DEF Finite, IsABag, EmptyBag, SetToBag, BagToSet, Copies, BagIn

\* BagAdd adds a copy of x and no other,
LEMMA AddedCopy ==
  ASSUME NEW B, Finite(B), NEW x
  PROVE  /\ Finite(BagAdd(B, x)) /\ BagToSet(BagAdd(B, x)) = BagToSet(B) \cup {x}
         /\ \A y : Copies(y, BagAdd(B, x)) = Copies(y, B) + IF y = x THEN 1 ELSE 0
<1>1. IsABag(BagAdd(B, x)) /\ BagToSet(BagAdd(B, x)) = BagToSet(B) \cup {x}
  BY DEF Finite, IsABag, BagAdd, BagToSet
<1>2. IsFiniteSet(BagToSet(B) \cup {x})
  BY FS_AddElement DEF Finite
<1>3. \A y : Copies(y, BagAdd(B, x)) = Copies(y, B) + IF y = x THEN 1 ELSE 0
  <2>1. \A y \in DOMAIN B : B[y] \in Nat
    BY DEF Finite, IsABag
  <2> QED BY <2>1 DEF Copies, BagIn, BagToSet, BagAdd
<1> QED BY <1>1, <1>2, <1>3 DEF Finite

\* and so counts one more wherever x is counted.
LEMMA AddedTally ==
  ASSUME NEW B, Finite(B), NEW x, NEW T
  PROVE  Tally(T, BagAdd(B, x)) = Tally(T, B) + IF x \in T THEN 1 ELSE 0
<1> DEFINE C == BagAdd(B, x)
<1>1. Finite(C) /\ \A y : Copies(y, C) = Copies(y, B) + IF y = x THEN 1 ELSE 0
  BY AddedCopy
<1>1a. \A y : y # x => Copies(y, C) = Copies(y, B)
  BY <1>1, CopiesIsNat DEF Finite
<1> HIDE DEF C
<1>2. Tally(T \ {x}, C) = Tally(T \ {x}, B)
  BY <1>1, <1>1a, TallyAgrees
<1>3. CASE x \in T
  <2>1. Tally(T, C) = Copies(x, C) + Tally(T \ {x}, C)
    BY <1>1, <1>3, TallyTakes
  <2>2. /\ Tally(T, B) = Copies(x, B) + Tally(T \ {x}, B)
        /\ Copies(x, B) \in Nat /\ Tally(T \ {x}, B) \in Nat
    BY <1>3, TallyTakes
  <2>3. Copies(x, C) = Copies(x, B) + 1
    BY <1>1
  <2> QED BY <1>2, <1>3, <2>1, <2>2, <2>3 DEF C
<1>4. CASE x \notin T
  <2>1. Tally(T, C) = Tally(T \ {x}, C) /\ Tally(T, B) = Tally(T \ {x}, B) /\ Tally(T, B) \in Nat
    BY <1>1, <1>4, TallyTakes
  <2> QED BY <1>2, <1>4, <2>1 DEF C
<1> QED BY <1>3, <1>4

\* BagRemove takes one copy of x.
LEMMA RemovedCopy ==
  ASSUME NEW B, Finite(B), NEW x \in BagToSet(B)
  PROVE  /\ Finite(BagRemove(B, x)) /\ BagToSet(BagRemove(B, x)) \subseteq BagToSet(B)
         /\ \A y : Copies(y, BagRemove(B, x)) = Copies(y, B) - IF y = x THEN 1 ELSE 0
         /\ \A T : Tally(T, BagRemove(B, x)) = Tally(T, B) - IF x \in T THEN 1 ELSE 0
<1> DEFINE C == BagRemove(B, x)
<1>0. \A y \in DOMAIN B : B[y] \in Nat /\ B[y] > 0
  BY DEF Finite, IsABag
<1>1. IsABag(C) /\ BagToSet(C) \subseteq BagToSet(B)
  <2>1. CASE B[x] = 1
    BY <1>0, <2>1 DEF IsABag, BagRemove, BagToSet
  <2>2. CASE B[x] # 1
    BY <1>0, <2>2 DEF IsABag, BagRemove, BagToSet
  <2> QED BY <2>1, <2>2
<1>2. Finite(C)
  BY <1>1, FS_Subset DEF Finite
<1>3. \A y : Copies(y, C) = Copies(y, B) - IF y = x THEN 1 ELSE 0
  BY <1>0 DEF Copies, BagIn, BagToSet, BagRemove
<1> HIDE DEF C
<1>4. ASSUME NEW T PROVE Tally(T, C) = Tally(T, B) - IF x \in T THEN 1 ELSE 0
  <2>0. \A y : Copies(y, B) \in Nat
    BY CopiesIsNat DEF Finite
  <2>1. Tally(T \ {x}, C) = Tally(T \ {x}, B)
    <3>1. \A y \in T \ {x} : Copies(y, C) = Copies(y, B)
      BY <1>3, <2>0
    <3> QED BY <1>2, <3>1, TallyAgrees
  <2>2. CASE x \in T
    <3>1. Tally(T, C) = Copies(x, C) + Tally(T \ {x}, C)
      BY <1>2, <2>2, TallyTakes
    <3>2. Tally(T, B) = Copies(x, B) + Tally(T \ {x}, B) /\ Tally(T \ {x}, B) \in Nat
      BY <2>2, TallyTakes
    <3>3. Copies(x, C) = Copies(x, B) - 1
      BY <1>3
    <3> QED BY <2>0, <2>1, <2>2, <3>1, <3>2, <3>3
  <2>3. CASE x \notin T
    <3>1. Tally(T, C) = Tally(T \ {x}, C) /\ Tally(T, B) = Tally(T \ {x}, B) /\ Tally(T, B) \in Nat
      BY <1>2, <2>3, TallyTakes
    <3> QED BY <2>1, <2>3, <3>1
  <2> QED BY <2>2, <2>3
<1> QED BY <1>1, <1>2, <1>3, <1>4 DEF C

\* The copies of two bags add up,
LEMMA JoinedCopies ==
  ASSUME NEW B, Finite(B), NEW C, Finite(C)
  PROVE  /\ Finite(B (+) C) /\ BagToSet(B (+) C) = BagToSet(B) \cup BagToSet(C)
         /\ \A x : Copies(x, B (+) C) = Copies(x, B) + Copies(x, C)
<1>1. \A x \in DOMAIN B : B[x] \in Nat /\ B[x] > 0
  BY DEF Finite, IsABag
<1>2. \A x \in DOMAIN C : C[x] \in Nat /\ C[x] > 0
  BY DEF Finite, IsABag
<1>3. IsABag(B (+) C) /\ BagToSet(B (+) C) = BagToSet(B) \cup BagToSet(C)
  BY <1>1, <1>2 DEF IsABag, BagToSet, (+)
<1>4. IsFiniteSet(BagToSet(B) \cup BagToSet(C))
  BY FS_Union DEF Finite
<1>5. \A x : Copies(x, B (+) C) = Copies(x, B) + Copies(x, C)
  BY <1>1, <1>2 DEF Copies, BagIn, BagToSet, (+)
<1> QED BY <1>3, <1>4, <1>5 DEF Finite

\* and a difference of bags stops at none.
LEMMA DroppedCopies ==
  ASSUME NEW B, IsABag(B), NEW C, IsABag(C), NEW x
  PROVE  Copies(x, B (-) C) = IF Copies(x, B) > Copies(x, C) THEN Copies(x, B) - Copies(x, C) ELSE 0
<1>1. \A y \in DOMAIN B : B[y] \in Nat /\ B[y] > 0
  BY DEF IsABag
<1>2. \A y \in DOMAIN C : C[y] \in Nat /\ C[y] > 0
  BY DEF IsABag
<1> QED BY <1>1, <1>2 DEF Copies, BagIn, BagToSet, (-)

\* The bag of h[x] for the elements x of a bag: an operator's Image, of a function.
Im(h, B) == [y \in {h[x] : x \in BagToSet(B)} |-> Size(Restrict(B, {x \in BagToSet(B) : h[x] = y}))]

\* An image has as many copies of y as there are elements that become y.
LEMMA ImageCopies ==
  ASSUME NEW B, Finite(B), NEW h
  PROVE  /\ Finite(Im(h, B)) /\ BagToSet(Im(h, B)) = {h[x] : x \in BagToSet(B)}
         /\ \A y : Copies(y, Im(h, B)) = Tally({x \in BagToSet(B) : h[x] = y}, B)
<1> DEFINE S == BagToSet(B)
           Of(y) == {x \in S : h[x] = y}
           C == Im(h, B)
<1>1. BagToSet(C) = {h[x] : x \in S}
  BY DEF Im, BagToSet
<1>2. \A y \in BagToSet(C) : C[y] = Tally(Of(y), B)
  <2> SUFFICES ASSUME NEW y \in {h[x] : x \in S} PROVE C[y] = Tally(Of(y), B)
    BY <1>1
  <2>1. C[y] = Size(Restrict(B, Of(y)))
    BY DEF Im
  <2>2. Of(y) \in SUBSET BagToSet(B)
    OBVIOUS
  <2> QED BY <2>1, <2>2, SizeOfPart
<1>3. \A y : y \notin BagToSet(C) => Tally(Of(y), B) = 0
  <2> SUFFICES ASSUME NEW y, y \notin BagToSet(C) PROVE Tally(Of(y), B) = 0
    OBVIOUS
  <2>1. Of(y) = {}
    BY <1>1
  <2> QED BY <2>1, TallyTakes
<1>4. \A y \in BagToSet(C) : Tally(Of(y), B) \in Nat /\ Tally(Of(y), B) > 0
  <2> SUFFICES ASSUME NEW y \in BagToSet(C) PROVE Tally(Of(y), B) \in Nat /\ Tally(Of(y), B) > 0
    OBVIOUS
  <2>1. PICK x \in S : h[x] = y
    BY <1>1
  <2>2. Of(y) \cap BagToSet(B) # {}
    BY <2>1
  <2> QED BY <2>2, TallyIsPositive, TallyTakes
<1>5. IsABag(C)
  <2>1. C = [y \in DOMAIN C |-> C[y]]
    BY DEF Im
  <2> HIDE DEF C, Of
  <2>2. \A y \in DOMAIN C : C[y] \in {n \in Nat : n > 0}
    BY <1>2, <1>4 DEF BagToSet
  <2> QED BY <2>1, <2>2 DEF IsABag
<1>6. IsFiniteSet({h[x] : x \in S})
  <2> DEFINE f == [x \in S |-> h[x]]
  <2>1. f \in Surjection(S, {h[x] : x \in S})
    BY DEF Surjection
  <2> HIDE DEF f
  <2> QED BY <2>1, FS_Surjection DEF Finite
<1>7. \A y : Copies(y, C) = Tally(Of(y), B)
  <2> HIDE DEF C, Of
  <2> QED BY <1>2, <1>3 DEF Copies, BagIn
<1> QED BY <1>1, <1>5, <1>6, <1>7 DEF Finite

\* Its tallies are those of what is mapped there.
LEMMA ImageTally ==
  ASSUME NEW B, Finite(B), NEW h, NEW T
  PROVE  Tally(T, Im(h, B)) = Tally({x \in BagToSet(B) : h[x] \in T}, B)
<1> DEFINE C == Im(h, B)
           S == BagToSet(C)
           From(U) == {x \in BagToSet(B) : h[x] \in U}
           Good == {U \in SUBSET S : Tally(U, C) = Tally(From(U), B)}
<1>1. /\ Finite(C) /\ S = {h[x] : x \in BagToSet(B)}
      /\ \A y : Copies(y, C) = Tally({x \in BagToSet(B) : h[x] = y}, B)
  BY ImageCopies
<1> HIDE DEF C
<1>2. ASSUME NEW U \in SUBSET S, \A y \in U : U \ {y} \in Good PROVE U \in Good
  <2>1. CASE U = {}
    <3>1. From(U) = {}
      BY <2>1
    <3>2. Tally(U, C) = 0 /\ Tally(From(U), B) = 0
      BY <1>1, <2>1, <3>1, TallyTakes
    <3> QED BY <3>2
  <2>2. CASE U # {}
    <3>1. PICK y \in U : TRUE
      BY <2>2
    <3>2. Tally(U \ {y}, C) = Tally(From(U \ {y}), B)
      BY <1>2, <3>1
    <3>3. Tally(U, C) = Copies(y, C) + Tally(U \ {y}, C)
      BY <1>1, <3>1, TallyTakes
    <3>4. Copies(y, C) = Tally({x \in BagToSet(B) : h[x] = y}, B)
      BY <1>1
    <3>5. /\ From(U) = {x \in BagToSet(B) : h[x] = y} \cup From(U \ {y})
          /\ {x \in BagToSet(B) : h[x] = y} \cap From(U \ {y}) \cap BagToSet(B) = {}
      BY <3>1
    <3>6. Tally(From(U), B) = Tally({x \in BagToSet(B) : h[x] = y}, B) + Tally(From(U \ {y}), B)
      <4> HIDE DEF From
      <4> QED BY <3>5, TallySplits
    <3> HIDE DEF From
    <3>7. Tally(U, C) = Tally(From(U), B)
      BY <3>2, <3>3, <3>4, <3>6
    <3> QED BY <3>7
  <2> QED BY <2>1, <2>2
<1>3. \A U \in SUBSET S : U \in Good
  <2>1. IsFiniteSet(S)
    BY <1>1 DEF Finite
  <2> HIDE DEF Good, S
  <2> QED BY <1>2, <2>1, SubsetInduction
<1>4. Tally(T \cap S, C) = Tally(From(T \cap S), B)
  BY <1>3
<1>5. Tally(T \cap S, C) = Tally(T, C)
  BY TallyWithin
<1>6. From(T \cap S) = From(T)
  BY <1>1
<1> QED BY <1>4, <1>5, <1>6 DEF C

\* One image after another.
LEMMA ImageOfImage ==
  ASSUME NEW B, Finite(B), NEW h, NEW k, NEW m, \A x \in BagToSet(B) : m[x] = k[h[x]]
  PROVE  Im(k, Im(h, B)) = Im(m, B)
<1> DEFINE C == Im(h, B)
<1>1. Finite(C) /\ BagToSet(C) = {h[x] : x \in BagToSet(B)}
  BY ImageCopies
<1>2. ASSUME NEW z PROVE Copies(z, Im(k, C)) = Copies(z, Im(m, B))
  <2> DEFINE U == {y \in BagToSet(C) : k[y] = z}
  <2>1. Copies(z, Im(k, C)) = Tally(U, C)
    <3> HIDE DEF C
    <3> QED BY <1>1, ImageCopies
  <2>2. Tally(U, C) = Tally({x \in BagToSet(B) : h[x] \in U}, B)
    <3> HIDE DEF U
    <3> QED BY ImageTally
  <2>3. {x \in BagToSet(B) : h[x] \in U} = {x \in BagToSet(B) : m[x] = z}
    BY <1>1
  <2>4. Copies(z, Im(m, B)) = Tally({x \in BagToSet(B) : m[x] = z}, B)
    BY ImageCopies
  <2> QED BY <2>1, <2>2, <2>3, <2>4
<1>3. IsABag(Im(k, C)) /\ IsABag(Im(m, B))
  <2>1. Finite(Im(m, B))
    BY ImageCopies
  <2>2. Finite(Im(k, C))
    <3> HIDE DEF C
    <3> QED BY <1>1, ImageCopies
  <2> QED BY <2>1, <2>2 DEF Finite
<1> HIDE DEF C
<1>4. Im(k, C) = Im(m, B)
  BY <1>2, <1>3, BagsAgree
<1> QED BY <1>4 DEF C

-----------------------------------------------------------------------------
(* The invariants.                                                         *)

\* The rows of an item at a level, those with a timer, and all of an item.
At(i, l)   == {i} \X {l} \X (0..MaxTimer)
Busy(i, l) == {i} \X {l} \X (1..MaxTimer)
AllOf(i)   == {i} \X (0..MaxLevel) \X (0..MaxTimer)

\* What is under way has a level to land at, and only what has levels is.
Landable ==
  \A r \in BagToSet(village) : r[3] > 0 => r[1] \in Leveled /\ (r[2] < MaxLevel \/ Helper(r[1]))

\* What the levels gained since the stored export add up to: above 0 what is
\* at a level, and what left it since, was at it or came from the level below.
\* At 0 what came was built.
LevelsAddUp ==
  \A i \in Logged :
    /\ \A l \in 1..MaxLevel :
         Tally(At(i, l), village) + Copies(<<i, l>>, ended)
           = Tally(At(i, l), seen.rows) + Copies(<<i, l - 1>>, ended)
    /\ Tally(At(i, 0), seen.rows) <= Tally(At(i, 0), village) + Copies(<<i, 0>>, ended)
    /\ Tally(At(i, 0), village) + Copies(<<i, 0>>, ended)
         <= Tally(At(i, 0), seen.rows) + Copies(<<i, 0>>, begun)

\* A timer that was not there then was begun since.
TimersWereBegun ==
  \A i \in Logged : \A l \in 0..MaxLevel :
    Tally(Busy(i, l), village) <= Tally(Busy(i, l), seen.rows) + Copies(<<i, l>>, begun)

\* Obstacles and decorations: those there are are those there were, with what
\* grew and without what was cleared.
ObstaclesAddUp ==
  \A i \in Items \ Leveled :
    Tally(AllOf(i), village) + Copies(<<i, 0>>, ended) = Tally(AllOf(i), seen.rows) + Copies(<<i, 0>>, begun)

\* Levels gained have a next one.
GainsAreSteps == \A s \in BagToSet(ended) : s[1] \in Logged => s[2] < MaxLevel

-----------------------------------------------------------------------------
(* Rows and steps.                                                         *)

\* There are finitely many rows and steps, so bags of them can be counted.
LEMMA RowsAreFinite ==
  /\ IsFiniteSet(Row) /\ IsFiniteSet(Step)
  /\ \A B : IsABag(B) /\ BagToSet(B) \subseteq Row => Finite(B)
  /\ \A B : IsABag(B) /\ BagToSet(B) \subseteq Step => Finite(B)
<1>1. IsFiniteSet(0..MaxLevel) /\ IsFiniteSet(0..MaxTimer)
  BY AnalyzeAssumption, FS_Interval
<1>2. IsFiniteSet(Items \X (0..MaxLevel))
  BY <1>1, AnalyzeAssumption, FS_Product
<1>3. IsFiniteSet((Items \X (0..MaxLevel)) \X (0..MaxTimer))
  BY <1>1, <1>2, FS_Product
<1>4. IsFiniteSet(Row)
  <2> DEFINE pairs == (Items \X (0..MaxLevel)) \X (0..MaxTimer)
             f == [p \in pairs |-> <<p[1][1], p[1][2], p[2]>>]
  <2>1. f \in Surjection(pairs, Row)
    <3>1. f \in [pairs -> Row]
      BY DEF Row
    <3>2. ASSUME NEW r \in Row PROVE \E p \in pairs : f[p] = r
      <4>1. <<<<r[1], r[2]>>, r[3]>> \in pairs /\ r = <<r[1], r[2], r[3]>>
        BY DEF Row
      <4>2. f[<<<<r[1], r[2]>>, r[3]>>] = <<r[1], r[2], r[3]>>
        BY <4>1
      <4> QED BY <4>1, <4>2
    <3> HIDE DEF f, pairs
    <3> QED BY <3>1, <3>2 DEF Surjection
  <2> HIDE DEF f
  <2> QED BY <1>3, <2>1, FS_Surjection
<1> QED BY <1>2, <1>4, FS_Subset DEF Finite, Step

\* The parts of a row.
LEMMA RowParts ==
  ASSUME NEW r \in Row
  PROVE  /\ r = <<r[1], r[2], r[3]>> /\ r[1] \in Items
         /\ r[2] \in 0..MaxLevel /\ r[3] \in 0..MaxTimer
         /\ r[2] \in Nat /\ r[3] \in Nat
BY AnalyzeAssumption DEF Row

\* Where the rows of a part of an export stand.
step == [r \in Row |-> <<r[1], r[2]>>]

\* The steps of some rows, counted.
LEMMA StepsCopies ==
  ASSUME NEW B, IsABag(B), BagToSet(B) \subseteq Row, NEW T \in SUBSET BagToSet(B)
  PROVE  /\ Finite(StepsOf(Restrict(B, T)))
         /\ BagToSet(StepsOf(Restrict(B, T))) = {<<r[1], r[2]>> : r \in T}
         /\ BagToSet(StepsOf(Restrict(B, T))) \subseteq Step
         /\ \A s : Copies(s, StepsOf(Restrict(B, T))) = Tally({r \in T : <<r[1], r[2]>> = s}, B)
<1> DEFINE C == Restrict(B, T)
<1>1. Finite(B)
  BY RowsAreFinite
<1>2. /\ Finite(C) /\ BagToSet(C) = T
      /\ \A U : Tally(U, C) = Tally(U \cap T, B)
  BY <1>1, SizeOfPart
<1> HIDE DEF C
<1>3. \A r \in T : step[r] = <<r[1], r[2]>>
  BY DEF step
<1>4. StepsOf(C) = Im(step, C)
  <2>1. {step[r] : r \in T} = {<<r[1], r[2]>> : r \in T}
    BY <1>3
  <2>2. \A y : {r \in T : <<r[1], r[2]>> = y} = {r \in T : step[r] = y}
    BY <1>3
  <2> QED BY <1>2, <2>1, <2>2 DEF StepsOf, Image, Im
<1>5. /\ Finite(Im(step, C)) /\ BagToSet(Im(step, C)) = {step[r] : r \in T}
      /\ \A y : Copies(y, Im(step, C)) = Tally({r \in T : step[r] = y}, C)
  BY <1>2, ImageCopies
<1>6. ASSUME NEW s PROVE Copies(s, StepsOf(C)) = Tally({r \in T : <<r[1], r[2]>> = s}, B)
  <2> DEFINE U == {r \in T : <<r[1], r[2]>> = s}
  <2>1. {r \in T : step[r] = s} = U
    BY <1>3
  <2>2. U \cap T = U
    OBVIOUS
  <2> HIDE DEF U
  <2>3. Tally(U, C) = Tally(U, B)
    BY <1>2, <2>2
  <2> QED BY <1>4, <1>5, <2>1, <2>3 DEF U
<1>7. {<<r[1], r[2]>> : r \in T} \subseteq Step
  BY DEF Row, Step
<1>8. {step[r] : r \in T} = {<<r[1], r[2]>> : r \in T}
  BY <1>3
<1> QED BY <1>4, <1>5, <1>6, <1>7, <1>8 DEF C

\* A second later, as a function.
aged == [r \in Row |-> Aged(r)]
Landing(B) == {r \in BagToSet(B) : r[3] = 1 /\ ~Helper(r[1])}

\* A row one second later, by its timer.
LEMMA AgedRow ==
  ASSUME NEW r \in Row
  PROVE  /\ r[3] = 0 => Aged(r) = r
         /\ r[3] = 1 => Aged(r) = <<r[1], IF Helper(r[1]) THEN r[2] ELSE r[2] + 1, 0>>
         /\ r[3] > 1 => Aged(r) = <<r[1], r[2], r[3] - 1>>
         /\ aged[r] = Aged(r)
         /\ Aged(r)[1] = r[1]
         /\ r[3] = 1 => Aged(r)[2] = (IF Helper(r[1]) THEN r[2] ELSE r[2] + 1) /\ Aged(r)[3] = 0
         /\ r[3] # 1 => Aged(r)[2] = r[2]
         /\ r[3] > 1 => Aged(r)[3] = r[3] - 1
<1>1. r[3] \in Nat
  BY RowParts
<1>2. CASE r[3] = 0
  BY <1>2 DEF Aged, aged
<1>3. CASE r[3] = 1
  BY <1>3 DEF Aged, aged
<1>4. CASE r[3] > 1
  BY <1>1, <1>4 DEF Aged, aged
<1> QED BY <1>1, <1>2, <1>3, <1>4

\* A tick, counted: what the rows become and which steps have landed.
LEMMA VillageAges ==
  ASSUME TypeOK, Tick
  PROVE  /\ village' = Im(aged, village)
         /\ \A T : Tally(T, village') = Tally({r \in BagToSet(village) : Aged(r) \in T}, village)
         /\ BagToSet(village') = {Aged(r) : r \in BagToSet(village)}
         /\ Finite(village')
         /\ \A s : Copies(s, ended') = Copies(s, ended)
                     + Tally({r \in Landing(village) : <<r[1], r[2]>> = s}, village)
         /\ Finite(ended') /\ BagToSet(ended') \subseteq Step
         /\ BagToSet(ended') = BagToSet(ended) \cup {<<r[1], r[2]>> : r \in Landing(village)}
<1>1. /\ Finite(village) /\ BagToSet(village) \subseteq Row /\ IsABag(village)
      /\ Finite(ended) /\ BagToSet(ended) \subseteq Step
  BY RowsAreFinite DEF TypeOK
<1>2. \A r \in BagToSet(village) : aged[r] = Aged(r)
  BY <1>1, AgedRow
<1>3. village' = Im(aged, village)
  <2>1. {aged[r] : r \in BagToSet(village)} = {Aged(r) : r \in BagToSet(village)}
    BY <1>2
  <2>2. \A y : {r \in BagToSet(village) : Aged(r) = y} = {r \in BagToSet(village) : aged[r] = y}
    BY <1>2
  <2>3. village' = Image(Aged, village)
    BY DEF Tick
  <2> QED BY <2>1, <2>2, <2>3 DEF Image, Im
<1>4. ASSUME NEW T
      PROVE  Tally(T, Im(aged, village)) = Tally({r \in BagToSet(village) : Aged(r) \in T}, village)
  <2>1. {r \in BagToSet(village) : Aged(r) \in T} = {r \in BagToSet(village) : aged[r] \in T}
    BY <1>2
  <2> QED BY <1>1, <2>1, ImageTally
<1>5. /\ Finite(Im(aged, village))
      /\ BagToSet(Im(aged, village)) = {Aged(r) : r \in BagToSet(village)}
  <2>1. {aged[r] : r \in BagToSet(village)} = {Aged(r) : r \in BagToSet(village)}
    BY <1>2
  <2>2. /\ Finite(Im(aged, village))
        /\ BagToSet(Im(aged, village)) = {aged[r] : r \in BagToSet(village)}
    BY <1>1, ImageCopies
  <2> QED BY <2>1, <2>2
<1> DEFINE L == Landing(village)
           C == StepsOf(Restrict(village, L))
<1>6. /\ Finite(C) /\ BagToSet(C) \subseteq Step /\ BagToSet(C) = {<<r[1], r[2]>> : r \in L}
      /\ \A s : Copies(s, C) = Tally({r \in L : <<r[1], r[2]>> = s}, village)
  <2>1. L \in SUBSET BagToSet(village)
    BY DEF Landing
  <2> HIDE DEF L
  <2> QED BY <1>1, <2>1, StepsCopies
<1>7. ended' = ended (+) C
  BY DEF Tick, Landing
<1> HIDE DEF C
<1>8. /\ Finite(ended (+) C) /\ BagToSet(ended (+) C) = BagToSet(ended) \cup BagToSet(C)
      /\ \A s : Copies(s, ended (+) C) = Copies(s, ended) + Copies(s, C)
  BY <1>1, <1>6, JoinedCopies
<1>9. \A s : Copies(s, ended') = Copies(s, ended) + Tally({r \in L : <<r[1], r[2]>> = s}, village)
  BY <1>6, <1>7, <1>8
<1> QED BY <1>1, <1>3, <1>4, <1>5, <1>6, <1>7, <1>8, <1>9

\* The game asks a number of everything, and time within the bounds.
LEMMA AskedIsNat ==
  ASSUME NEW i \in Leveled \cap Known, NEW l \in DOMAIN Table(i)
  PROVE  /\ l \in 1..MaxLevel
         /\ Asked(i, l).seconds \in 0..MaxTimer /\ (Helper(i) => Asked(i, l).seconds = 0)
         /\ \A c \in BillColumns : Entered(i, Asked(i, l), c) \in Nat
<1> DEFINE lv == Table(i)[l]
<1>0. /\ DOMAIN Table(i) = 1..Len(Table(i)) /\ Len(Table(i)) \in 0..MaxLevel
      /\ lv.build_time \in Nat /\ lv.upgrade_time \in Nat
      /\ lv.build_time + lv.upgrade_time <= IF Helper(i) THEN 0 ELSE MaxTimer
      /\ IF SectionOf[i] = "equipment" THEN lv.upgrade_cost \in [Ores -> Nat]
         ELSE lv.build_cost \in Nat /\ lv.upgrade_cost \in Nat
  BY GameAssumption, Zenon
<1>1. l \in 1..MaxLevel
  BY <1>0, AnalyzeAssumption
<1>2. /\ lv.build_time + lv.upgrade_time \in 0..MaxTimer
      /\ Helper(i) => lv.build_time + lv.upgrade_time = 0
      /\ SectionOf[i] = "equipment" => lv.upgrade_cost \in [Ores -> Nat]
      /\ SectionOf[i] # "equipment" => lv.build_cost \in Nat /\ lv.upgrade_cost \in Nat
  BY <1>0, AnalyzeAssumption
<1> HIDE DEF lv
<1>3. Asked(i, l).seconds = lv.build_time + lv.upgrade_time
  BY DEF Asked, lv
<1>4. ASSUME NEW c \in Currencies PROVE Asked(i, l)[c] \in Nat
  <2>1. CASE c = "seconds"
    BY <1>2, <2>1 DEF Asked, lv
  <2>2. CASE c # "seconds" /\ SectionOf[i] = "equipment"
    <3>1. Asked(i, l)[c] = IF c \in Ores THEN lv.upgrade_cost[c] ELSE 0
      BY <2>2 DEF Asked, lv
    <3> QED BY <1>2, <2>2, <3>1
  <2>3. CASE c # "seconds" /\ SectionOf[i] # "equipment"
    <3>1. \/ Asked(i, l)[c] = lv.build_cost + lv.upgrade_cost
          \/ Asked(i, l)[c] = 0
      BY <2>3 DEF Asked, lv
    <3> QED BY <1>2, <2>3, <3>1
  <2> QED BY <2>1, <2>2, <2>3
<1>5. Asked(i, l).seconds \in 0..MaxTimer /\ (Helper(i) => Asked(i, l).seconds = 0)
  BY <1>2, <1>3
<1>6. \A c \in BillColumns : Entered(i, Asked(i, l), c) \in Nat
  BY <1>4, <1>5 DEF Entered
<1> QED BY <1>1, <1>5, <1>6

\* The row a step up leaves: at once one level up and idle, or timed.
Climbed(i, l) ==
  IF Asked(i, l + 1).seconds = 0 THEN <<i, l + 1, 0>> ELSE <<i, l, Asked(i, l + 1).seconds>>

\* A begun step is within the bounds, whichever row it leaves.
LEMMA ClimbedRow ==
  ASSUME NEW i \in Leveled \cap Known, NEW l \in Nat, l + 1 \in DOMAIN Table(i)
  PROVE  /\ Climbed(i, l) \in Row
         /\ l \in 0..MaxLevel /\ l < MaxLevel /\ <<i, l>> \in Step
         /\ Asked(i, l + 1).seconds = 0 => Climbed(i, l) = <<i, l + 1, 0>>
         /\ Asked(i, l + 1).seconds # 0 =>
              /\ Climbed(i, l) = <<i, l, Asked(i, l + 1).seconds>>
              /\ Asked(i, l + 1).seconds \in 1..MaxTimer
<1>1. l + 1 \in 1..MaxLevel /\ Asked(i, l + 1).seconds \in 0..MaxTimer
  BY AskedIsNat
<1>2. l \in 0..MaxLevel /\ l < MaxLevel /\ l + 1 \in 0..MaxLevel /\ 0 \in 0..MaxTimer
  BY <1>1, AnalyzeAssumption
<1>3. i \in Items
  BY DEF Leveled
<1>4. <<i, l + 1, 0>> \in Row /\ <<i, l, Asked(i, l + 1).seconds>> \in Row /\ <<i, l>> \in Step
  BY <1>1, <1>2, <1>3 DEF Row, Step
<1>5. Asked(i, l + 1).seconds # 0 => Asked(i, l + 1).seconds \in 1..MaxTimer
  BY <1>1
<1> QED BY <1>2, <1>4, <1>5 DEF Climbed

\* What Upgrade and Build do, with what is left of the village without the copy.
LEMMA ClimbDoes ==
  ASSUME TypeOK, NEW i \in Leveled \cap Known, NEW l \in Nat, l + 1 \in DOMAIN Table(i),
         NEW others, Finite(others), BagToSet(others) \subseteq Row, Climb(i, l, others)
  PROVE  /\ village' = BagAdd(others, Climbed(i, l))
         /\ Finite(village') /\ BagToSet(village') = BagToSet(others) \cup {Climbed(i, l)}
         /\ BagToSet(village') \subseteq Row
         /\ \A T : Tally(T, village') = Tally(T, others) + IF Climbed(i, l) \in T THEN 1 ELSE 0
         /\ begun' = BagAdd(begun, <<i, l>>)
         /\ Finite(begun') /\ BagToSet(begun') \subseteq Step
         /\ \A s : Copies(s, begun') = Copies(s, begun) + IF s = <<i, l>> THEN 1 ELSE 0
         /\ Finite(ended') /\ BagToSet(ended') \subseteq Step
         /\ BagToSet(ended') \subseteq BagToSet(ended) \cup {<<i, l>>}
         /\ \A s : Copies(s, ended') = Copies(s, ended)
                     + IF s = <<i, l>> /\ Asked(i, l + 1).seconds = 0 THEN 1 ELSE 0
         /\ paid' \in [BillColumns -> Nat]
         /\ UNCHANGED <<now, seen>>
<1>1. /\ Finite(begun) /\ BagToSet(begun) \subseteq Step
      /\ Finite(ended) /\ BagToSet(ended) \subseteq Step
  BY RowsAreFinite DEF TypeOK
<1>2. Climbed(i, l) \in Row /\ <<i, l>> \in Step
  BY ClimbedRow
<1>3. /\ village' = BagAdd(others, Climbed(i, l)) /\ begun' = BagAdd(begun, <<i, l>>)
      /\ ended' = IF Asked(i, l + 1).seconds = 0 THEN BagAdd(ended, <<i, l>>) ELSE ended
      /\ paid' = [c \in BillColumns |-> paid[c] + Entered(i, Asked(i, l + 1), c)]
      /\ UNCHANGED <<now, seen>>
  BY DEF Climb, Climbed
<1>4. /\ Finite(village') /\ BagToSet(village') = BagToSet(others) \cup {Climbed(i, l)}
      /\ \A T : Tally(T, village') = Tally(T, others) + IF Climbed(i, l) \in T THEN 1 ELSE 0
  BY <1>3, AddedCopy, AddedTally
<1>5. /\ Finite(begun') /\ BagToSet(begun') \subseteq Step
      /\ \A s : Copies(s, begun') = Copies(s, begun) + IF s = <<i, l>> THEN 1 ELSE 0
  <2>1. /\ Finite(BagAdd(begun, <<i, l>>)) /\ BagToSet(BagAdd(begun, <<i, l>>)) = BagToSet(begun) \cup {<<i, l>>}
        /\ \A s : Copies(s, BagAdd(begun, <<i, l>>)) = Copies(s, begun) + IF s = <<i, l>> THEN 1 ELSE 0
    BY <1>1, AddedCopy
  <2> QED BY <1>1, <1>2, <1>3, <2>1
<1>6. /\ Finite(ended') /\ BagToSet(ended') \subseteq Step
      /\ BagToSet(ended') \subseteq BagToSet(ended) \cup {<<i, l>>}
      /\ \A s : Copies(s, ended') = Copies(s, ended)
                  + IF s = <<i, l>> /\ Asked(i, l + 1).seconds = 0 THEN 1 ELSE 0
  <2>1. CASE Asked(i, l + 1).seconds = 0
    <3>1. /\ Finite(BagAdd(ended, <<i, l>>)) /\ BagToSet(BagAdd(ended, <<i, l>>)) = BagToSet(ended) \cup {<<i, l>>}
          /\ \A s : Copies(s, BagAdd(ended, <<i, l>>)) = Copies(s, ended) + IF s = <<i, l>> THEN 1 ELSE 0
      BY <1>1, AddedCopy
    <3> QED BY <1>1, <1>2, <1>3, <2>1, <3>1
  <2>2. CASE Asked(i, l + 1).seconds # 0
    <3>1. \A s : Copies(s, ended) \in Nat
      BY <1>1, CopiesIsNat DEF Finite
    <3> QED BY <1>1, <1>3, <2>2, <3>1
  <2> QED BY <2>1, <2>2
<1>7. paid' \in [BillColumns -> Nat]
  <2>1. \A c \in BillColumns : paid[c] \in Nat
    BY DEF TypeOK
  <2>2. \A c \in BillColumns : Entered(i, Asked(i, l + 1), c) \in Nat
    BY AskedIsNat
  <2> QED BY <1>3, <2>1, <2>2
<1> QED BY <1>2, <1>3, <1>4, <1>5, <1>6, <1>7

\* Upgrade takes an idle copy, Build none.
LEMMA UpgradeDoes ==
  ASSUME TypeOK, NEW r \in BagToSet(village), Upgrade(r)
  PROVE  /\ r[1] \in Leveled \cap Known /\ r[2] \in Nat /\ r[3] = 0 /\ r = <<r[1], r[2], 0>>
         /\ r[2] + 1 \in DOMAIN Table(r[1])
         /\ Finite(BagRemove(village, r)) /\ BagToSet(BagRemove(village, r)) \subseteq BagToSet(village)
         /\ BagToSet(BagRemove(village, r)) \subseteq Row
         /\ \A T : Tally(T, BagRemove(village, r)) = Tally(T, village) - IF r \in T THEN 1 ELSE 0
         /\ Climb(r[1], r[2], BagRemove(village, r))
<1>1. Finite(village) /\ BagToSet(village) \subseteq Row
  BY RowsAreFinite DEF TypeOK
<1>2. r = <<r[1], r[2], r[3]>> /\ r[2] \in Nat
  BY <1>1, RowParts
<1>3. /\ r[1] \in Leveled \cap Known /\ r[3] = 0 /\ r[2] + 1 \in DOMAIN Table(r[1])
      /\ Climb(r[1], r[2], BagRemove(village, r))
  BY DEF Upgrade, Allows
<1>4. /\ Finite(BagRemove(village, r)) /\ BagToSet(BagRemove(village, r)) \subseteq BagToSet(village)
      /\ \A T : Tally(T, BagRemove(village, r)) = Tally(T, village) - IF r \in T THEN 1 ELSE 0
  BY <1>1, RemovedCopy
<1> QED BY <1>1, <1>2, <1>3, <1>4

\* Build begins the first level of an item the tables know.
LEMMA BuildDoes ==
  ASSUME TypeOK, NEW i \in Unbuilt, Build(i)
  PROVE  /\ i \in Leveled \cap Known /\ 0 \in Nat /\ 0 + 1 \in DOMAIN Table(i)
         /\ Finite(village) /\ BagToSet(village) \subseteq Row
         /\ Climb(i, 0, village)
<1>1. Finite(village) /\ BagToSet(village) \subseteq Row
  BY RowsAreFinite DEF TypeOK
<1>2. i \in Leveled \cap Known
  BY DEF Unbuilt
<1>3. 1 \in DOMAIN Table(i) /\ Climb(i, 0, village)
  BY DEF Build, Allows
<1> QED BY <1>1, <1>2, <1>3

\* Send, counted: one row of the helper gets its timer.
LEMMA SendDoes ==
  ASSUME TypeOK, NEW i \in Items, Helper(i), Send(i)
  PROVE  \E r \in BagToSet(village) :
           /\ r[1] = i /\ r[3] = 0
           /\ Finite(village') /\ BagToSet(village') \subseteq BagToSet(village) \cup {<<i, r[2], MaxTimer>>}
           /\ BagToSet(village') \subseteq Row
           /\ \A T : Tally(T, village') = Tally(T, village) - (IF r \in T THEN 1 ELSE 0)
                                            + IF <<i, r[2], MaxTimer>> \in T THEN 1 ELSE 0
           /\ begun' = BagAdd(begun, <<i, r[2]>>)
           /\ Finite(begun') /\ BagToSet(begun') \subseteq Step
           /\ \A s : Copies(s, begun') = Copies(s, begun) + IF s = <<i, r[2]>> THEN 1 ELSE 0
           /\ UNCHANGED <<now, seen, ended, paid>>
<1>1. /\ Finite(village) /\ BagToSet(village) \subseteq Row
      /\ Finite(begun) /\ BagToSet(begun) \subseteq Step
  BY RowsAreFinite DEF TypeOK
<1>2. PICK r \in BagToSet(village) :
        /\ r[1] = i /\ r[3] = 0
        /\ village' = BagAdd(BagRemove(village, r), <<i, r[2], MaxTimer>>)
        /\ begun' = BagAdd(begun, <<i, r[2]>>)
        /\ UNCHANGED <<now, seen, ended, paid>>
  BY DEF Send
<1> DEFINE rest == BagRemove(village, r)
           row  == <<i, r[2], MaxTimer>>
<1>3. /\ Finite(rest) /\ BagToSet(rest) \subseteq BagToSet(village)
      /\ \A T : Tally(T, rest) = Tally(T, village) - IF r \in T THEN 1 ELSE 0
  BY <1>1, RemovedCopy
<1>4. row \in Row /\ <<i, r[2]>> \in Step
  <2>1. r \in Row
    BY <1>1
  <2>2. r[2] \in 0..MaxLevel
    BY <2>1, RowParts
  <2> QED BY <2>2, AnalyzeAssumption DEF Row, Step
<1>5. village' = BagAdd(rest, row)
  BY <1>2
<1> HIDE DEF rest, row
<1>6. /\ Finite(village') /\ BagToSet(village') = BagToSet(rest) \cup {row}
      /\ \A T : Tally(T, village') = Tally(T, rest) + IF row \in T THEN 1 ELSE 0
  BY <1>3, <1>5, AddedCopy, AddedTally
<1>7. \A T : Tally(T, village') = Tally(T, village) - (IF r \in T THEN 1 ELSE 0)
                                    + IF row \in T THEN 1 ELSE 0
  BY <1>3, <1>6
<1>8. /\ Finite(begun') /\ BagToSet(begun') \subseteq Step
      /\ \A s : Copies(s, begun') = Copies(s, begun) + IF s = <<i, r[2]>> THEN 1 ELSE 0
  <2>1. /\ Finite(BagAdd(begun, <<i, r[2]>>))
        /\ BagToSet(BagAdd(begun, <<i, r[2]>>)) = BagToSet(begun) \cup {<<i, r[2]>>}
        /\ \A s : Copies(s, BagAdd(begun, <<i, r[2]>>)) = Copies(s, begun) + IF s = <<i, r[2]>> THEN 1 ELSE 0
    BY <1>1, AddedCopy
  <2> QED BY <1>1, <1>2, <1>4, <2>1
<1>9. BagToSet(village') \subseteq BagToSet(village) \cup {row} /\ BagToSet(village') \subseteq Row
  BY <1>1, <1>3, <1>4, <1>6
<1> QED BY <1>2, <1>6, <1>7, <1>8, <1>9 DEF row

\* What comes and goes that has no levels.
LEMMA ObstacleRow ==
  ASSUME NEW i \in Items \ Leveled
  PROVE  <<i, 0, 0>> \in Row /\ <<i, 0>> \in Step
BY AnalyzeAssumption DEF Row, Step

\* Clear, counted: one obstacle less.
LEMMA ClearDoes ==
  ASSUME TypeOK, NEW i \in Items \ Leveled, Clear(i)
  PROVE  /\ Finite(village') /\ BagToSet(village') \subseteq BagToSet(village)
         /\ <<i, 0, 0>> \in BagToSet(village)
         /\ \A T : Tally(T, village') = Tally(T, village) - IF <<i, 0, 0>> \in T THEN 1 ELSE 0
         /\ Finite(ended') /\ BagToSet(ended') = BagToSet(ended) \cup {<<i, 0>>}
         /\ BagToSet(ended') \subseteq Step
         /\ \A s : Copies(s, ended') = Copies(s, ended) + IF s = <<i, 0>> THEN 1 ELSE 0
         /\ UNCHANGED <<now, seen, begun, paid>>
<1>1. Finite(village) /\ Finite(ended) /\ BagToSet(ended) \subseteq Step
  BY RowsAreFinite DEF TypeOK
<1>2. /\ <<i, 0, 0>> \in BagToSet(village)
      /\ village' = BagRemove(village, <<i, 0, 0>>) /\ ended' = BagAdd(ended, <<i, 0>>)
      /\ UNCHANGED <<now, seen, begun, paid>>
  BY DEF Clear
<1>3. <<i, 0>> \in Step
  BY ObstacleRow
<1>4. /\ Finite(village') /\ BagToSet(village') \subseteq BagToSet(village)
      /\ \A T : Tally(T, village') = Tally(T, village) - IF <<i, 0, 0>> \in T THEN 1 ELSE 0
  BY <1>1, <1>2, RemovedCopy
<1>5. /\ Finite(ended') /\ BagToSet(ended') = BagToSet(ended) \cup {<<i, 0>>}
      /\ \A s : Copies(s, ended') = Copies(s, ended) + IF s = <<i, 0>> THEN 1 ELSE 0
  BY <1>1, <1>2, AddedCopy
<1> QED BY <1>1, <1>2, <1>3, <1>4, <1>5

\* Grow, counted: one obstacle more.
LEMMA GrowDoes ==
  ASSUME TypeOK, NEW i \in Items \ Leveled, Grow(i)
  PROVE  /\ Finite(village') /\ BagToSet(village') = BagToSet(village) \cup {<<i, 0, 0>>}
         /\ BagToSet(village') \subseteq Row
         /\ \A T : Tally(T, village') = Tally(T, village) + IF <<i, 0, 0>> \in T THEN 1 ELSE 0
         /\ begun' = BagAdd(begun, <<i, 0>>)
         /\ Finite(begun') /\ BagToSet(begun') \subseteq Step
         /\ \A s : Copies(s, begun') = Copies(s, begun) + IF s = <<i, 0>> THEN 1 ELSE 0
         /\ UNCHANGED <<now, seen, ended, paid>>
<1>1. /\ Finite(village) /\ BagToSet(village) \subseteq Row
      /\ Finite(begun) /\ BagToSet(begun) \subseteq Step
  BY RowsAreFinite DEF TypeOK
<1>2. /\ village' = BagAdd(village, <<i, 0, 0>>) /\ begun' = BagAdd(begun, <<i, 0>>)
      /\ UNCHANGED <<now, seen, ended, paid>>
  BY DEF Grow
<1>3. <<i, 0, 0>> \in Row /\ <<i, 0>> \in Step
  BY ObstacleRow
<1>4. /\ Finite(village') /\ BagToSet(village') = BagToSet(village) \cup {<<i, 0, 0>>}
      /\ \A T : Tally(T, village') = Tally(T, village) + IF <<i, 0, 0>> \in T THEN 1 ELSE 0
  BY <1>1, <1>2, AddedCopy, AddedTally
<1>5. /\ Finite(begun') /\ BagToSet(begun') = BagToSet(begun) \cup {<<i, 0>>}
      /\ \A s : Copies(s, begun') = Copies(s, begun) + IF s = <<i, 0>> THEN 1 ELSE 0
  BY <1>1, <1>2, AddedCopy
<1> QED BY <1>1, <1>2, <1>3, <1>4, <1>5

-----------------------------------------------------------------------------
(* The types.                                                              *)

\* The first and every captured state.
LEMMA NothingSince ==
  /\ IsABag(EmptyBag) /\ BagToSet(EmptyBag) \subseteq Step
  /\ [c \in BillColumns |-> 0] \in [BillColumns -> Nat]
BY EmptyIsFinite DEF Finite

\* Types and room to land, at first
LEMMA InitTyped == Init => TypeOK /\ Landable
<1> SUFFICES ASSUME Init PROVE TypeOK /\ Landable
  OBVIOUS
<1>1. /\ IsABag(village) /\ BagToSet(village) \subseteq Row
      /\ \A r \in BagToSet(village) : r[3] > 0 => r[1] \in Leveled /\ (r[2] < MaxLevel \/ Helper(r[1]))
  BY StartsAssumption DEF Init
<1>2. /\ now = 1 /\ seen.at = now /\ seen.rows = village
      /\ begun = EmptyBag /\ ended = EmptyBag /\ paid = [c \in BillColumns |-> 0]
  BY DEF Init, Current
<1>3. now \in 1..MaxNow /\ seen.at \in 1..now
  BY <1>2, AnalyzeAssumption
<1> QED BY <1>1, <1>2, <1>3, NothingSince DEF TypeOK, Landable

\* and after a tick: a copy with a timer has room for its next level.
LEMMA TickTyped == ASSUME TypeOK, Landable, Tick PROVE (TypeOK /\ Landable)'
<1>1. /\ BagToSet(village') = {Aged(r) : r \in BagToSet(village)} /\ Finite(village')
      /\ Finite(ended') /\ BagToSet(ended') \subseteq Step
  BY VillageAges
<1>2. ASSUME NEW r \in BagToSet(village)
      PROVE  /\ Aged(r) \in Row
             /\ Aged(r)[3] > 0 => Aged(r)[1] \in Leveled /\ (Aged(r)[2] < MaxLevel \/ Helper(Aged(r)[1]))
  <2>1. r \in Row
    BY DEF TypeOK
  <2>2. /\ r[1] \in Items /\ r[2] \in 0..MaxLevel /\ r[3] \in 0..MaxTimer
        /\ r[2] \in Nat /\ r[3] \in Nat
    BY <2>1, RowParts
  <2>3. r[3] > 0 => r[1] \in Leveled /\ (r[2] < MaxLevel \/ Helper(r[1]))
    BY DEF Landable
  <2>4. CASE r[3] = 0
    BY <2>1, <2>4, AgedRow
  <2>5. CASE r[3] = 1
    <3>1. Aged(r) = <<r[1], IF Helper(r[1]) THEN r[2] ELSE r[2] + 1, 0>>
      BY <2>1, <2>5, AgedRow
    <3>2. r[2] + 1 \in 0..MaxLevel \/ Helper(r[1])
      BY <2>2, <2>3, <2>5, AnalyzeAssumption
    <3>3. (IF Helper(r[1]) THEN r[2] ELSE r[2] + 1) \in 0..MaxLevel
      BY <2>2, <3>2
    <3>4. 0 \in 0..MaxTimer /\ Aged(r)[3] = 0
      BY <3>1, AnalyzeAssumption
    <3>5. Aged(r) \in Row
      BY <2>2, <3>1, <3>3, <3>4 DEF Row
    <3> QED BY <3>4, <3>5
  <2>6. CASE r[3] > 1
    <3>1. Aged(r) = <<r[1], r[2], r[3] - 1>>
      BY <2>1, <2>6, AgedRow
    <3>2. r[3] - 1 \in 0..MaxTimer /\ r[3] > 0
      BY <2>2, <2>6, AnalyzeAssumption
    <3> QED BY <2>2, <2>3, <3>1, <3>2 DEF Row
  <2> QED BY <2>2, <2>4, <2>5, <2>6
<1>3. now' \in 1..MaxNow /\ seen'.at \in 1..now'
  BY AnalyzeAssumption DEF TypeOK, Tick
<1>4. Landable' /\ BagToSet(village') \subseteq Row
  BY <1>1, <1>2 DEF Landable
<1>5. UNCHANGED <<seen, begun, paid>>
  BY DEF Tick
<1> QED BY <1>1, <1>3, <1>4, <1>5 DEF TypeOK, Finite

\* A step begun stays within the bounds of the tables.
LEMMA ClimbTyped ==
  ASSUME TypeOK, Landable, NEW i \in Leveled \cap Known, NEW l \in Nat, l + 1 \in DOMAIN Table(i),
         NEW others, Finite(others), BagToSet(others) \subseteq BagToSet(village), Climb(i, l, others)
  PROVE  (TypeOK /\ Landable)'
<1>0. BagToSet(others) \subseteq Row
  BY DEF TypeOK
<1>1. /\ Finite(village') /\ BagToSet(village') = BagToSet(others) \cup {Climbed(i, l)}
      /\ BagToSet(village') \subseteq Row
      /\ Finite(begun') /\ BagToSet(begun') \subseteq Step
      /\ Finite(ended') /\ BagToSet(ended') \subseteq Step
      /\ paid' \in [BillColumns -> Nat]
      /\ UNCHANGED <<now, seen>>
  BY <1>0, ClimbDoes
<1>2. TypeOK'
  BY <1>1 DEF TypeOK, Finite
<1>3. Climbed(i, l)[3] > 0 => Climbed(i, l)[1] \in Leveled /\ Climbed(i, l)[2] < MaxLevel
  <2>1. /\ l < MaxLevel
        /\ Asked(i, l + 1).seconds = 0 => Climbed(i, l) = <<i, l + 1, 0>>
        /\ Asked(i, l + 1).seconds # 0 => Climbed(i, l) = <<i, l, Asked(i, l + 1).seconds>>
    BY ClimbedRow
  <2> QED BY <2>1
<1>4. Landable'
  BY <1>1, <1>3 DEF Landable
<1> QED BY <1>2, <1>4

LEMMA OtherTyped ==
  ASSUME TypeOK, Landable, NEW i \in Items,
         \/ Helper(i) /\ Send(i)
         \/ i \notin Leveled /\ (Clear(i) \/ Grow(i))
  PROVE  (TypeOK /\ Landable)'
<1>1. CASE Helper(i) /\ Send(i)
  <2>1. PICK r \in BagToSet(village) :
          /\ r[1] = i
          /\ Finite(village') /\ BagToSet(village') \subseteq BagToSet(village) \cup {<<i, r[2], MaxTimer>>}
          /\ BagToSet(village') \subseteq Row
          /\ Finite(begun') /\ BagToSet(begun') \subseteq Step
          /\ UNCHANGED <<now, seen, ended, paid>>
    BY <1>1, SendDoes
  <2>2. TypeOK'
    BY <2>1 DEF TypeOK, Finite
  <2>3. i \in Leveled
    BY <1>1 DEF Helper, Leveled, Sections
  <2>4. Landable'
    BY <1>1, <2>1, <2>3 DEF Landable
  <2> QED BY <2>2, <2>4
<1>2. CASE i \notin Leveled /\ Clear(i)
  <2>1. /\ Finite(village') /\ BagToSet(village') \subseteq BagToSet(village)
        /\ Finite(ended') /\ BagToSet(ended') \subseteq Step
        /\ UNCHANGED <<now, seen, begun, paid>>
    BY <1>2, ClearDoes
  <2> QED BY <2>1 DEF TypeOK, Finite, Landable
<1>3. CASE i \notin Leveled /\ Grow(i)
  <2>1. /\ Finite(village') /\ BagToSet(village') = BagToSet(village) \cup {<<i, 0, 0>>}
        /\ BagToSet(village') \subseteq Row
        /\ Finite(begun') /\ BagToSet(begun') \subseteq Step
        /\ UNCHANGED <<now, seen, ended, paid>>
    BY <1>3, GrowDoes
  <2> QED BY <2>1 DEF TypeOK, Finite, Landable
<1> QED BY <1>1, <1>2, <1>3

LEMMA CaptureTyped == ASSUME TypeOK, Landable, Capture PROVE (TypeOK /\ Landable)'
<1>1. /\ seen'.at = now /\ seen'.rows = village /\ now' = now /\ village' = village
      /\ begun' = EmptyBag /\ ended' = EmptyBag /\ paid' = [c \in BillColumns |-> 0]
  BY DEF Capture, Current
<1>2. now \in 1..now
  BY DEF TypeOK
<1> QED BY <1>1, <1>2, NothingSince DEF TypeOK, Landable

\* No step leaves the types.
LEMMA NextTyped == ASSUME TypeOK, Landable, [Next]_vars PROVE (TypeOK /\ Landable)'
<1>1. CASE Tick
  BY <1>1, TickTyped
<1>2. ASSUME NEW i \in Unbuilt, Build(i) PROVE (TypeOK /\ Landable)'
  <2>1. /\ i \in Leveled \cap Known /\ 0 + 1 \in DOMAIN Table(i)
        /\ Finite(village) /\ Climb(i, 0, village)
    BY <1>2, BuildDoes
  <2> QED BY <2>1, ClimbTyped
<1>3. ASSUME NEW r \in BagToSet(village), Upgrade(r) PROVE (TypeOK /\ Landable)'
  <2>1. /\ r[1] \in Leveled \cap Known /\ r[2] \in Nat /\ r[2] + 1 \in DOMAIN Table(r[1])
        /\ Finite(BagRemove(village, r)) /\ BagToSet(BagRemove(village, r)) \subseteq BagToSet(village)
        /\ Climb(r[1], r[2], BagRemove(village, r))
    BY <1>3, UpgradeDoes
  <2> QED BY <2>1, ClimbTyped
<1>4. ASSUME NEW i \in Items, Helper(i) /\ Send(i) PROVE (TypeOK /\ Landable)'
  BY <1>4, OtherTyped
<1>5. ASSUME NEW i \in Items \ Leveled, Clear(i) \/ Grow(i) PROVE (TypeOK /\ Landable)'
  BY <1>5, OtherTyped
<1>6. CASE Capture
  BY <1>6, CaptureTyped
<1>7. CASE UNCHANGED vars
  BY <1>7 DEF vars, TypeOK, Landable
<1> QED BY <1>1, <1>2, <1>3, <1>4, <1>5, <1>6, <1>7 DEF Next

\* The types of the villages and exports.
THEOREM TypeCorrect == Spec => []TypeOK
<1>1. Init => TypeOK /\ Landable
  BY InitTyped
<1>2. TypeOK /\ Landable /\ [Next]_vars => (TypeOK /\ Landable)'
  BY NextTyped
<1> QED BY <1>1, <1>2, PTL DEF Spec

-----------------------------------------------------------------------------
(* The change log.                                                         *)

\* What the model reads off an export, as tallies of its rows.
LEMMA RowsCopies ==
  ASSUME NEW e, IsABag(e.rows), BagToSet(e.rows) \subseteq Row, NEW i \in Logged, NEW l
  PROVE  /\ Copies(<<i, l>>, Rows(e)) = Tally(At(i, l), e.rows)
         /\ Copies(<<i, l>>, Timed(e)) = Tally(Busy(i, l), e.rows)
         /\ Finite(Rows(e)) /\ Finite(Timed(e))
<1> DEFINE B == e.rows
           T == {r \in BagToSet(B) : r[1] \in Logged}
           U == {r \in BagToSet(B) : r[1] \in Logged /\ r[3] > 0}
           t == {r \in T : <<r[1], r[2]>> = <<i, l>>}
           u == {r \in U : <<r[1], r[2]>> = <<i, l>>}
<1>1. /\ Finite(StepsOf(Restrict(B, T)))
      /\ \A s : Copies(s, StepsOf(Restrict(B, T))) = Tally({r \in T : <<r[1], r[2]>> = s}, B)
  <2>1. T \in SUBSET BagToSet(B)
    OBVIOUS
  <2> HIDE DEF T
  <2> QED BY <2>1, StepsCopies
<1>2. /\ Finite(StepsOf(Restrict(B, U)))
      /\ \A s : Copies(s, StepsOf(Restrict(B, U))) = Tally({r \in U : <<r[1], r[2]>> = s}, B)
  <2>1. U \in SUBSET BagToSet(B)
    OBVIOUS
  <2> HIDE DEF U
  <2> QED BY <2>1, StepsCopies
<1>3. Rows(e) = StepsOf(Restrict(B, T)) /\ Timed(e) = StepsOf(Restrict(B, U))
  BY DEF Rows, Timed
<1>4. t \cap BagToSet(B) = At(i, l) \cap BagToSet(B)
  <2>1. ASSUME NEW r \in BagToSet(B) PROVE r \in t <=> r \in At(i, l)
    <3>1. r = <<r[1], r[2], r[3]>> /\ r[3] \in 0..MaxTimer
      BY RowParts
    <3>2. r \in At(i, l) <=> r[1] = i /\ r[2] = l
      BY <3>1 DEF At
    <3> QED BY <3>2
  <2> QED BY <2>1
<1>5. u \cap BagToSet(B) = Busy(i, l) \cap BagToSet(B)
  <2>1. ASSUME NEW r \in BagToSet(B) PROVE r \in u <=> r \in Busy(i, l)
    <3>1. r = <<r[1], r[2], r[3]>> /\ r[3] \in 0..MaxTimer
      BY RowParts
    <3>2. r \in Busy(i, l) <=> r[1] = i /\ r[2] = l /\ r[3] \in 1..MaxTimer
      BY <3>1 DEF Busy
    <3>3. r[3] \in 1..MaxTimer <=> r[3] > 0
      BY <3>1, AnalyzeAssumption
    <3> QED BY <3>2, <3>3
  <2> QED BY <2>1
<1>6. Tally(t, B) = Tally(At(i, l), B)
  <2> HIDE DEF t
  <2> QED BY <1>4, TallyWithin
<1>7. Tally(u, B) = Tally(Busy(i, l), B)
  <2> HIDE DEF u
  <2> QED BY <1>5, TallyWithin
<1> HIDE DEF T, U
<1> QED BY <1>1, <1>2, <1>3, <1>6, <1>7

\* The copies of an item, counted.
LEMMA OwnedIsTally ==
  ASSUME NEW e, IsABag(e.rows), BagToSet(e.rows) \subseteq Row, NEW i
  PROVE  /\ Owned(e, i) = Tally({r \in BagToSet(e.rows) : r[1] = i}, e.rows)
         /\ Owned(e, i) = Tally(AllOf(i), e.rows)
<1> DEFINE B == e.rows
           T == {r \in BagToSet(B) : r[1] = i}
<1>1. Finite(B)
  BY RowsAreFinite
<1>2. Owned(e, i) = Tally(T, B)
  <2>1. T \in SUBSET BagToSet(B) /\ Owned(e, i) = Size(Restrict(B, T))
    BY DEF Owned, RowsOf
  <2> HIDE DEF T, B
  <2> QED BY <1>1, <2>1, SizeOfPart
<1>3. T \cap BagToSet(B) = AllOf(i) \cap BagToSet(B)
  <2>1. ASSUME NEW r \in BagToSet(B) PROVE r \in T <=> r \in AllOf(i)
    <3>1. r = <<r[1], r[2], r[3]>> /\ r[2] \in 0..MaxLevel /\ r[3] \in 0..MaxTimer
      BY RowParts
    <3> QED BY <3>1 DEF AllOf
  <2> QED BY <2>1
<1>4. Tally(T, B) = Tally(AllOf(i), B)
  <2> HIDE DEF T
  <2> QED BY <1>3, TallyWithin
<1> QED BY <1>2, <1>4

\* Beyond the last level there is nothing.
LEMMA NoneAbove ==
  ASSUME NEW B, BagToSet(B) \subseteq Row, IsABag(B), NEW i, NEW l, l \notin 0..MaxLevel
  PROVE  Tally(At(i, l), B) = 0
<1>1. At(i, l) \cap BagToSet(B) = {}
  <2>1. ASSUME NEW r \in At(i, l), r \in Row PROVE FALSE
    BY <2>1 DEF At, Row
  <2> QED BY <2>1
<1>2. Finite(B)
  BY RowsAreFinite
<1>3. Tally(At(i, l), B) = Tally({}, B)
  BY <1>1, TallyWithin
<1> QED BY <1>2, <1>3, TallyTakes

\* The one row of an item at a level about to land.
LastSecond(i, l) == {<<i, l, 1>>}

\* A tick moves the copies whose timer runs out up a level, and logs them.
LEMMA TickLevels ==
  ASSUME TypeOK, Landable, Tick, NEW i \in Logged, NEW l \in 0..MaxLevel
  PROVE  /\ Tally(At(i, l), village') + Tally(LastSecond(i, l), village)
              = Tally(At(i, l), village) + Tally(LastSecond(i, l - 1), village)
         /\ Copies(<<i, l>>, ended') = Copies(<<i, l>>, ended) + Tally(LastSecond(i, l), village)
         /\ Tally(Busy(i, l), village') <= Tally(Busy(i, l), village)
<1> DEFINE V == BagToSet(village)
           Stay == {r \in V : r \in At(i, l) /\ r[3] # 1}
<1>1. Finite(village) /\ V \subseteq Row
  BY RowsAreFinite DEF TypeOK
<1>2. i \in Items /\ ~Helper(i) /\ l \in Nat
  BY AnalyzeAssumption DEF Logged, Leveled
<1>3. ASSUME NEW r \in V
      PROVE  /\ Aged(r) \in At(i, l) <=> r \in Stay \cup LastSecond(i, l - 1)
             /\ r \in At(i, l) <=> r \in Stay \cup LastSecond(i, l)
             /\ r \in Landing(village) /\ <<r[1], r[2]>> = <<i, l>> <=> r \in LastSecond(i, l)
             /\ Aged(r) \in Busy(i, l) => r \in Busy(i, l)
  <2>1. r \in Row
    BY <1>1
  <2>2. /\ r = <<r[1], r[2], r[3]>> /\ r[3] \in 0..MaxTimer
        /\ r[2] \in Nat /\ r[3] \in Nat
    BY <2>1, RowParts
  <2>3. \A m : /\ r \in At(i, m) <=> r[1] = i /\ r[2] = m
               /\ r \in Busy(i, m) <=> r[1] = i /\ r[2] = m /\ r[3] \in 1..MaxTimer
               /\ r \in LastSecond(i, m) <=> r[1] = i /\ r[2] = m /\ r[3] = 1
    BY <2>2 DEF At, Busy, LastSecond
  <2>4. /\ r[3] = 0 => Aged(r) = r
        /\ r[3] = 1 => Aged(r) = <<r[1], IF Helper(r[1]) THEN r[2] ELSE r[2] + 1, 0>>
        /\ r[3] > 1 => Aged(r) = <<r[1], r[2], r[3] - 1>>
    BY <2>1, AgedRow
  <2>5. 0 \in 0..MaxTimer
    BY AnalyzeAssumption
  <2>6. CASE r[3] = 0
    BY <1>2, <2>3, <2>4, <2>6 DEF Landing
  <2>7. CASE r[3] = 1
    <3>1. CASE r[1] # i
      BY <2>3, <2>4, <2>7, <3>1 DEF At, Busy, Landing
    <3>2. CASE r[1] = i
      <4>1. Aged(r) = <<i, r[2] + 1, 0>>
        BY <1>2, <2>4, <2>7, <3>2
      <4>2. Aged(r) \in At(i, l) <=> r[2] = l - 1
        BY <1>2, <2>2, <2>5, <4>1 DEF At
      <4>3. Aged(r) \notin Busy(i, l)
        BY <4>1 DEF Busy
      <4>4. r \in Landing(village)
        BY <1>2, <2>7, <3>2 DEF Landing
      <4> QED BY <2>3, <2>7, <3>2, <4>2, <4>3, <4>4
    <3> QED BY <3>1, <3>2
  <2>8. CASE r[3] > 1
    <3>1. Aged(r) = <<r[1], r[2], r[3] - 1>> /\ r[3] - 1 \in 0..MaxTimer /\ r[3] # 1
      BY <2>2, <2>4, <2>8, AnalyzeAssumption
    <3>2. Aged(r) \in At(i, l) <=> r[1] = i /\ r[2] = l
      BY <3>1 DEF At
    <3>3. Aged(r) \in Busy(i, l) => r[1] = i /\ r[2] = l
      BY <3>1 DEF Busy
    <3>4. r[3] \in 1..MaxTimer
      BY <2>2, <2>8, AnalyzeAssumption
    <3> QED BY <2>3, <2>8, <3>1, <3>2, <3>3, <3>4 DEF Landing
  <2> QED BY <2>2, <2>6, <2>7, <2>8
<1>4. /\ \A T : Tally(T, village') = Tally({r \in V : Aged(r) \in T}, village)
      /\ \A s : Copies(s, ended') = Copies(s, ended)
                  + Tally({r \in Landing(village) : <<r[1], r[2]>> = s}, village)
  BY VillageAges
<1>5. Tally(At(i, l), village') = Tally(Stay \cup LastSecond(i, l - 1), village)
  <2> DEFINE From == {r \in V : Aged(r) \in At(i, l)}
  <2>1. From \cap V = (Stay \cup LastSecond(i, l - 1)) \cap V
    <3>1. \A r \in V : r \in From <=> r \in Stay \cup LastSecond(i, l - 1)
      BY <1>3
    <3> QED BY <3>1
  <2>2. Tally(At(i, l), village') = Tally(From, village)
    BY <1>4
  <2> HIDE DEF From, Stay
  <2> QED BY <2>1, <2>2, TallyWithin
<1>6. Tally(At(i, l), village) = Tally(Stay \cup LastSecond(i, l), village)
  <2>1. At(i, l) \cap V = (Stay \cup LastSecond(i, l)) \cap V
    BY <1>3
  <2> HIDE DEF Stay
  <2> QED BY <2>1, TallyWithin
<1>7. /\ Tally(Stay \cup LastSecond(i, l - 1), village) = Tally(Stay, village) + Tally(LastSecond(i, l - 1), village)
      /\ Tally(Stay \cup LastSecond(i, l), village) = Tally(Stay, village) + Tally(LastSecond(i, l), village)
  <2>1. Stay \cap LastSecond(i, l - 1) \cap V = {} /\ Stay \cap LastSecond(i, l) \cap V = {}
    BY DEF LastSecond
  <2> HIDE DEF Stay
  <2> QED BY <1>1, <2>1, TallySplits
<1>8. Copies(<<i, l>>, ended') = Copies(<<i, l>>, ended) + Tally(LastSecond(i, l), village)
  <2> DEFINE From == {r \in Landing(village) : <<r[1], r[2]>> = <<i, l>>}
  <2>1. From \cap V = LastSecond(i, l) \cap V
    <3>1. Landing(village) \subseteq V
      BY DEF Landing
    <3>2. \A r \in V : r \in From <=> r \in LastSecond(i, l)
      BY <1>3
    <3> QED BY <3>2
  <2>2. Copies(<<i, l>>, ended') = Copies(<<i, l>>, ended) + Tally(From, village)
    BY <1>4
  <2> HIDE DEF From
  <2>3. Tally(From, village) = Tally(LastSecond(i, l), village)
    BY <2>1, TallyWithin
  <2> QED BY <2>2, <2>3
<1>9. Tally(Busy(i, l), village') <= Tally(Busy(i, l), village)
  <2> DEFINE From == {r \in V : Aged(r) \in Busy(i, l)}
  <2>1. From \cap V \subseteq Busy(i, l)
    BY <1>3
  <2>2. Tally(Busy(i, l), village') = Tally(From, village)
    BY <1>4
  <2> HIDE DEF From
  <2>3. Tally(From, village) <= Tally(Busy(i, l), village)
    BY <1>1, <2>1, TallyOfPart
  <2> QED BY <2>2, <2>3
<1>10. Tally(Stay, village) \in Nat /\ Tally(LastSecond(i, l), village) \in Nat /\ Tally(LastSecond(i, l - 1), village) \in Nat
  <2> HIDE DEF Stay
  <2> QED BY <1>1, TallyTakes
<1> HIDE DEF Stay
<1> QED BY <1>5, <1>6, <1>7, <1>8, <1>9, <1>10

\* A tick leaves obstacles alone.
LEMMA TickObstacles ==
  ASSUME TypeOK, Landable, Tick, NEW i \in Items \ Leveled
  PROVE  /\ Tally(AllOf(i), village') = Tally(AllOf(i), village)
         /\ Copies(<<i, 0>>, ended') = Copies(<<i, 0>>, ended)
<1> DEFINE V == BagToSet(village)
<1>1. Finite(village) /\ V \subseteq Row /\ Finite(ended)
  BY RowsAreFinite DEF TypeOK
<1>2. /\ \A T : Tally(T, village') = Tally({r \in V : Aged(r) \in T}, village)
      /\ \A s : Copies(s, ended') = Copies(s, ended)
                  + Tally({r \in Landing(village) : <<r[1], r[2]>> = s}, village)
  BY VillageAges
<1>3. ASSUME NEW r \in V
      PROVE  Aged(r) \in AllOf(i) <=> r \in AllOf(i)
  <2>1. r \in Row /\ r[3] \in Nat
    BY <1>1, RowParts
  <2>2. CASE r[1] = i
    <3>1. r[3] = 0
      BY <2>1, <2>2 DEF Landable
    <3> QED BY <2>1, <3>1, AgedRow
  <2>3. CASE r[1] # i
    <3>1. Aged(r)[1] = r[1]
      BY <2>1, AgedRow
    <3> QED BY <2>3, <3>1 DEF AllOf
  <2> QED BY <2>2, <2>3
<1>4. Tally(AllOf(i), village') = Tally(AllOf(i), village)
  <2> DEFINE From == {r \in V : Aged(r) \in AllOf(i)}
  <2>1. From \cap V = AllOf(i) \cap V
    BY <1>3
  <2>2. Tally(AllOf(i), village') = Tally(From, village)
    BY <1>2
  <2> HIDE DEF From
  <2> QED BY <2>1, <2>2, TallyWithin
<1>5. Copies(<<i, 0>>, ended') = Copies(<<i, 0>>, ended)
  <2>1. {r \in Landing(village) : <<r[1], r[2]>> = <<i, 0>>} = {}
    BY DEF Landing, Landable
  <2>2. Copies(<<i, 0>>, ended) \in Nat
    BY <1>1, CopiesIsNat DEF Finite
  <2> QED BY <1>1, <1>2, <2>1, <2>2, TallyTakes
<1> QED BY <1>4, <1>5

\* Nothing is negative.
LEMMA TalliesAreNat ==
  ASSUME TypeOK
  PROVE  /\ Finite(village) /\ Finite(seen.rows) /\ Finite(begun) /\ Finite(ended)
         /\ \A T : Tally(T, village) \in Nat /\ Tally(T, seen.rows) \in Nat
         /\ \A s : Copies(s, begun) \in Nat /\ Copies(s, ended) \in Nat
<1>1. Finite(village) /\ Finite(seen.rows) /\ Finite(begun) /\ Finite(ended)
  BY RowsAreFinite DEF TypeOK
<1> QED BY <1>1, TallyTakes, CopiesIsNat DEF Finite

AllAddsUp == LevelsAddUp /\ TimersWereBegun /\ ObstaclesAddUp /\ GainsAreSteps

\* A stored export is where the count starts.
LEMMA InitAddsUp == ASSUME TypeOK, Init PROVE AllAddsUp
<1>0. seen.rows = village /\ begun = EmptyBag /\ ended = EmptyBag
  BY DEF Init, Current
<1>1. \A T : Tally(T, village) \in Nat
  BY TalliesAreNat
<1>2. \A s : Copies(s, begun) = 0 /\ Copies(s, ended) = 0
  BY <1>0, EmptyIsFinite
<1>3. LevelsAddUp
  BY <1>0, <1>1, <1>2 DEF LevelsAddUp
<1>4. TimersWereBegun
  BY <1>0, <1>1, <1>2 DEF TimersWereBegun
<1>5. ObstaclesAddUp
  BY <1>0, <1>1, <1>2 DEF ObstaclesAddUp
<1>6. GainsAreSteps
  BY <1>0, EmptyIsFinite DEF GainsAreSteps
<1> QED BY <1>3, <1>4, <1>5, <1>6 DEF AllAddsUp

\* The books after a tick,
LEMMA TickAddsUp ==
  ASSUME TypeOK, Landable, AllAddsUp, Tick
  PROVE  AllAddsUp'
<1>1. seen' = seen /\ begun' = begun
  BY DEF Tick
<1>2. /\ \A T : Tally(T, village) \in Nat /\ Tally(T, seen.rows) \in Nat
      /\ \A s : Copies(s, begun) \in Nat /\ Copies(s, ended) \in Nat
      /\ Finite(village)
  BY TalliesAreNat
<1>2a. \A T : Tally(T, village') \in Nat
  BY VillageAges, TallyTakes
<1>3. ASSUME NEW i \in Logged, NEW l \in 1..MaxLevel
      PROVE  Tally(At(i, l), village') + Copies(<<i, l>>, ended')
               = Tally(At(i, l), seen.rows) + Copies(<<i, l - 1>>, ended')
  <2>1. l \in 0..MaxLevel /\ l - 1 \in 0..MaxLevel
    BY AnalyzeAssumption
  <2>2. /\ Tally(At(i, l), village') + Tally(LastSecond(i, l), village)
              = Tally(At(i, l), village) + Tally(LastSecond(i, l - 1), village)
        /\ Copies(<<i, l>>, ended') = Copies(<<i, l>>, ended) + Tally(LastSecond(i, l), village)
    BY <2>1, TickLevels
  <2>3. Copies(<<i, l - 1>>, ended') = Copies(<<i, l - 1>>, ended) + Tally(LastSecond(i, l - 1), village)
    BY <2>1, TickLevels
  <2>4. Tally(At(i, l), village) + Copies(<<i, l>>, ended)
          = Tally(At(i, l), seen.rows) + Copies(<<i, l - 1>>, ended)
    BY DEF AllAddsUp, LevelsAddUp
  <2>5. /\ Tally(At(i, l), village') \in Nat /\ Tally(At(i, l), village) \in Nat
        /\ Tally(LastSecond(i, l), village) \in Nat /\ Tally(LastSecond(i, l - 1), village) \in Nat
        /\ Tally(At(i, l), seen.rows) \in Nat
        /\ Copies(<<i, l>>, ended) \in Nat /\ Copies(<<i, l - 1>>, ended) \in Nat
    BY <1>2, <1>2a
  <2> QED BY <2>2, <2>3, <2>4, <2>5
<1>4. ASSUME NEW i \in Logged
      PROVE  Tally(At(i, 0), village') + Copies(<<i, 0>>, ended')
               = Tally(At(i, 0), village) + Copies(<<i, 0>>, ended)
  <2>1. 0 \in 0..MaxLevel
    BY AnalyzeAssumption
  <2>2. /\ Tally(At(i, 0), village') + Tally(LastSecond(i, 0), village)
              = Tally(At(i, 0), village) + Tally(LastSecond(i, 0 - 1), village)
        /\ Copies(<<i, 0>>, ended') = Copies(<<i, 0>>, ended) + Tally(LastSecond(i, 0), village)
    BY <2>1, TickLevels
  <2>3. Tally(LastSecond(i, 0 - 1), village) = 0
    <3>1. LastSecond(i, 0 - 1) \cap BagToSet(village) = {}
      BY DEF LastSecond, TypeOK, Row
    <3> QED BY <1>2, <3>1, TallyWithin, TallyTakes
  <2>4. /\ Tally(At(i, 0), village') \in Nat /\ Tally(At(i, 0), village) \in Nat
        /\ Tally(LastSecond(i, 0), village) \in Nat /\ Copies(<<i, 0>>, ended) \in Nat
    BY <1>2, <1>2a
  <2> QED BY <2>2, <2>3, <2>4
<1>5. LevelsAddUp'
  <2>1. \A i \in Logged :
          /\ Tally(At(i, 0), seen.rows) <= Tally(At(i, 0), village) + Copies(<<i, 0>>, ended)
          /\ Tally(At(i, 0), village) + Copies(<<i, 0>>, ended)
               <= Tally(At(i, 0), seen.rows) + Copies(<<i, 0>>, begun)
    BY DEF AllAddsUp, LevelsAddUp
  <2> QED BY <1>1, <1>3, <1>4, <2>1 DEF LevelsAddUp
<1>6. TimersWereBegun'
  <2>1. ASSUME NEW i \in Logged, NEW l \in 0..MaxLevel
        PROVE  Tally(Busy(i, l), village') <= Tally(Busy(i, l), seen.rows) + Copies(<<i, l>>, begun)
    <3>1. Tally(Busy(i, l), village') <= Tally(Busy(i, l), village)
      BY TickLevels
    <3>2. Tally(Busy(i, l), village) <= Tally(Busy(i, l), seen.rows) + Copies(<<i, l>>, begun)
      BY DEF AllAddsUp, TimersWereBegun
    <3>3. /\ Tally(Busy(i, l), village') \in Nat /\ Tally(Busy(i, l), village) \in Nat
          /\ Tally(Busy(i, l), seen.rows) \in Nat /\ Copies(<<i, l>>, begun) \in Nat
      BY <1>2, <1>2a
    <3> QED BY <3>1, <3>2, <3>3
  <2> QED BY <1>1, <2>1 DEF TimersWereBegun
<1>7. ObstaclesAddUp'
  <2>1. ASSUME NEW i \in Items \ Leveled
        PROVE  Tally(AllOf(i), village') + Copies(<<i, 0>>, ended')
                 = Tally(AllOf(i), seen.rows) + Copies(<<i, 0>>, begun)
    BY TickObstacles DEF AllAddsUp, ObstaclesAddUp
  <2> QED BY <1>1, <2>1 DEF ObstaclesAddUp
<1>8. GainsAreSteps'
  <2>1. BagToSet(ended') = BagToSet(ended) \cup {<<r[1], r[2]>> : r \in Landing(village)}
    BY VillageAges
  <2>2. ASSUME NEW r \in Landing(village) PROVE r[2] < MaxLevel
    BY DEF Landing, Landable
  <2> QED BY <2>1, <2>2 DEF AllAddsUp, GainsAreSteps
<1> QED BY <1>5, <1>6, <1>7, <1>8 DEF AllAddsUp

\* A step up, of an idle copy that is there (took) or of one just built.
LEMMA ClimbAddsUp ==
  ASSUME TypeOK, Landable, AllAddsUp,
         NEW i \in Leveled \cap Known, NEW l \in Nat, l + 1 \in DOMAIN Table(i),
         NEW others, Finite(others), BagToSet(others) \subseteq Row, Climb(i, l, others),
         NEW took \in BOOLEAN, ~took => l = 0,
         \A T : Tally(T, others) = Tally(T, village) - IF took /\ <<i, l, 0>> \in T THEN 1 ELSE 0
  PROVE  AllAddsUp'
<1> DEFINE now0 == Asked(i, l + 1).seconds = 0
           row  == Climbed(i, l)
<1>1. /\ \A T : Tally(T, village') = Tally(T, others) + IF row \in T THEN 1 ELSE 0
      /\ \A s : Copies(s, begun') = Copies(s, begun) + IF s = <<i, l>> THEN 1 ELSE 0
      /\ \A s : Copies(s, ended') = Copies(s, ended) + IF s = <<i, l>> /\ now0 THEN 1 ELSE 0
      /\ BagToSet(ended') \subseteq BagToSet(ended) \cup {<<i, l>>}
      /\ seen' = seen
  BY ClimbDoes
<1>2. /\ l \in 0..MaxLevel /\ l < MaxLevel
      /\ now0 => row = <<i, l + 1, 0>>
      /\ ~now0 => row = <<i, l, Asked(i, l + 1).seconds>> /\ Asked(i, l + 1).seconds \in 1..MaxTimer
  BY ClimbedRow
<1>3. \A T : Tally(T, village) \in Nat /\ Tally(T, seen.rows) \in Nat
  BY TalliesAreNat
<1>4. \A s : Copies(s, begun) \in Nat /\ Copies(s, ended) \in Nat
  BY TalliesAreNat
<1>5. \A T : Tally(T, village') = Tally(T, village) - (IF took /\ <<i, l, 0>> \in T THEN 1 ELSE 0)
                                   + IF row \in T THEN 1 ELSE 0
  BY <1>1
<1>6. ASSUME NEW j, NEW m
      PROVE  /\ <<i, l, 0>> \in At(j, m) <=> i = j /\ l = m
             /\ row \in At(j, m) <=> i = j /\ m = IF now0 THEN l + 1 ELSE l
             /\ <<i, l, 0>> \notin Busy(j, m)
             /\ row \in Busy(j, m) => i = j /\ l = m
  <2>1. 0 \in 0..MaxTimer /\ 1..MaxTimer \subseteq 0..MaxTimer
    BY AnalyzeAssumption
  <2>2. CASE now0
    BY <1>2, <2>1, <2>2 DEF At, Busy
  <2>3. CASE ~now0
    <3> DEFINE t == Asked(i, l + 1).seconds
    <3>1. row = <<i, l, t>> /\ t \in 0..MaxTimer
      BY <1>2, <2>1, <2>3
    <3> HIDE DEF t, row, now0
    <3> QED BY <2>1, <2>3, <3>1 DEF At, Busy
  <2> QED BY <2>2, <2>3
<1> HIDE DEF now0, row
<1>7. ASSUME NEW j \in Logged, NEW m \in Int
      PROVE  /\ Tally(At(j, m), village') = Tally(At(j, m), village)
                   - (IF took /\ i = j /\ l = m THEN 1 ELSE 0)
                   + IF i = j /\ m = (IF now0 THEN l + 1 ELSE l) THEN 1 ELSE 0
             /\ Copies(<<j, m>>, ended') = Copies(<<j, m>>, ended)
                   + IF i = j /\ l = m /\ now0 THEN 1 ELSE 0
             /\ Copies(<<j, m>>, begun') = Copies(<<j, m>>, begun) + IF i = j /\ l = m THEN 1 ELSE 0
             /\ Tally(Busy(j, m), village') <= Tally(Busy(j, m), village) + IF i = j /\ l = m THEN 1 ELSE 0
  <2>1. /\ Tally(At(j, m), village') = Tally(At(j, m), village)
             - (IF took /\ <<i, l, 0>> \in At(j, m) THEN 1 ELSE 0) + IF row \in At(j, m) THEN 1 ELSE 0
        /\ Tally(Busy(j, m), village') = Tally(Busy(j, m), village)
             - (IF took /\ <<i, l, 0>> \in Busy(j, m) THEN 1 ELSE 0) + IF row \in Busy(j, m) THEN 1 ELSE 0
        /\ Tally(Busy(j, m), village) \in Nat /\ Tally(At(j, m), village) \in Nat
    BY <1>3, <1>5
  <2>2. <<j, m>> = <<i, l>> <=> i = j /\ l = m
    OBVIOUS
  <2>3. /\ Copies(<<j, m>>, ended') = Copies(<<j, m>>, ended)
                   + IF i = j /\ l = m /\ now0 THEN 1 ELSE 0
        /\ Copies(<<j, m>>, begun') = Copies(<<j, m>>, begun) + IF i = j /\ l = m THEN 1 ELSE 0
    BY <1>1, <2>2
  <2>4. Tally(At(j, m), village') = Tally(At(j, m), village)
                   - (IF took /\ i = j /\ l = m THEN 1 ELSE 0)
                   + IF i = j /\ m = (IF now0 THEN l + 1 ELSE l) THEN 1 ELSE 0
    BY <1>6, <2>1
  <2>5. Tally(Busy(j, m), village') <= Tally(Busy(j, m), village) + IF i = j /\ l = m THEN 1 ELSE 0
    BY <1>6, <2>1
  <2> QED BY <2>3, <2>4, <2>5
<1>8. LevelsAddUp'
  <2>1. ASSUME NEW j \in Logged, NEW m \in 1..MaxLevel
        PROVE  Tally(At(j, m), village') + Copies(<<j, m>>, ended')
                 = Tally(At(j, m), seen.rows) + Copies(<<j, m - 1>>, ended')
    <3>1. m \in Int /\ m - 1 \in Int /\ m > 0
      BY AnalyzeAssumption
    <3>2. /\ Tally(At(j, m), village') = Tally(At(j, m), village)
                - (IF took /\ i = j /\ l = m THEN 1 ELSE 0)
                + IF i = j /\ m = (IF now0 THEN l + 1 ELSE l) THEN 1 ELSE 0
          /\ Copies(<<j, m>>, ended') = Copies(<<j, m>>, ended) + IF i = j /\ l = m /\ now0 THEN 1 ELSE 0
      BY <1>7, <3>1
    <3>3. Copies(<<j, m - 1>>, ended') = Copies(<<j, m - 1>>, ended) + IF i = j /\ l = m - 1 /\ now0 THEN 1 ELSE 0
      BY <1>7, <3>1
    <3>4. Tally(At(j, m), village) + Copies(<<j, m>>, ended)
            = Tally(At(j, m), seen.rows) + Copies(<<j, m - 1>>, ended)
      BY DEF AllAddsUp, LevelsAddUp
    <3>5. /\ Tally(At(j, m), village) \in Nat /\ Tally(At(j, m), seen.rows) \in Nat
          /\ Copies(<<j, m>>, ended) \in Nat /\ Copies(<<j, m - 1>>, ended) \in Nat
      BY <1>3, <1>4
    <3>6. l = m => took
      BY <3>1
    <3> QED BY <3>1, <3>2, <3>3, <3>4, <3>5, <3>6
  <2>2. ASSUME NEW j \in Logged
        PROVE  /\ Tally(At(j, 0), seen.rows) <= Tally(At(j, 0), village') + Copies(<<j, 0>>, ended')
               /\ Tally(At(j, 0), village') + Copies(<<j, 0>>, ended')
                    <= Tally(At(j, 0), seen.rows) + Copies(<<j, 0>>, begun')
    <3>2. /\ Tally(At(j, 0), village') = Tally(At(j, 0), village)
                - (IF took /\ i = j /\ l = 0 THEN 1 ELSE 0)
                + IF i = j /\ 0 = (IF now0 THEN l + 1 ELSE l) THEN 1 ELSE 0
          /\ Copies(<<j, 0>>, ended') = Copies(<<j, 0>>, ended) + IF i = j /\ l = 0 /\ now0 THEN 1 ELSE 0
          /\ Copies(<<j, 0>>, begun') = Copies(<<j, 0>>, begun) + IF i = j /\ l = 0 THEN 1 ELSE 0
      BY <1>7
    <3>4. /\ Tally(At(j, 0), seen.rows) <= Tally(At(j, 0), village) + Copies(<<j, 0>>, ended)
          /\ Tally(At(j, 0), village) + Copies(<<j, 0>>, ended)
               <= Tally(At(j, 0), seen.rows) + Copies(<<j, 0>>, begun)
      BY DEF AllAddsUp, LevelsAddUp
    <3>5. /\ Tally(At(j, 0), village) \in Nat /\ Tally(At(j, 0), seen.rows) \in Nat
          /\ Copies(<<j, 0>>, ended) \in Nat /\ Copies(<<j, 0>>, begun) \in Nat
      BY <1>3, <1>4
    <3> QED BY <3>2, <3>4, <3>5
  <2> QED BY <1>1, <2>1, <2>2 DEF LevelsAddUp
<1>9. TimersWereBegun'
  <2>1. ASSUME NEW j \in Logged, NEW m \in 0..MaxLevel
        PROVE  Tally(Busy(j, m), village') <= Tally(Busy(j, m), seen.rows) + Copies(<<j, m>>, begun')
    <3>1. m \in Int
      BY AnalyzeAssumption
    <3>2. /\ Tally(Busy(j, m), village') <= Tally(Busy(j, m), village) + IF i = j /\ l = m THEN 1 ELSE 0
          /\ Copies(<<j, m>>, begun') = Copies(<<j, m>>, begun) + IF i = j /\ l = m THEN 1 ELSE 0
      BY <1>7, <3>1
    <3>3. Tally(Busy(j, m), village) <= Tally(Busy(j, m), seen.rows) + Copies(<<j, m>>, begun)
      BY DEF AllAddsUp, TimersWereBegun
    <3>4. /\ Tally(Busy(j, m), village) \in Nat /\ Tally(Busy(j, m), seen.rows) \in Nat
          /\ Copies(<<j, m>>, begun) \in Nat
      BY <1>3, <1>4
    <3>5. Tally(Busy(j, m), village') \in Int
      BY <1>3, <1>5
    <3> QED BY <3>2, <3>3, <3>4, <3>5
  <2> QED BY <1>1, <2>1 DEF TimersWereBegun
<1>10. ObstaclesAddUp'
  <2>1. ASSUME NEW j \in Items \ Leveled
        PROVE  Tally(AllOf(j), village') + Copies(<<j, 0>>, ended')
                 = Tally(AllOf(j), seen.rows) + Copies(<<j, 0>>, begun')
    <3>1. <<i, l, 0>> \notin AllOf(j) /\ row \notin AllOf(j) /\ <<j, 0>> # <<i, l>>
      BY <1>2 DEF AllOf
    <3>2. Tally(AllOf(j), village') = Tally(AllOf(j), village)
      BY <1>3, <1>5, <3>1
    <3>3. Copies(<<j, 0>>, ended') = Copies(<<j, 0>>, ended) /\ Copies(<<j, 0>>, begun') = Copies(<<j, 0>>, begun)
      BY <1>1, <1>4, <3>1
    <3> QED BY <3>2, <3>3 DEF AllAddsUp, ObstaclesAddUp
  <2> QED BY <1>1, <2>1 DEF ObstaclesAddUp
<1>11. GainsAreSteps'
  BY <1>1, <1>2 DEF AllAddsUp, GainsAreSteps
<1> QED BY <1>8, <1>9, <1>10, <1>11 DEF AllAddsUp

\* What changes rows, begun and ended of item i alone, none of it in the log.
LEMMA OtherAddsUp ==
  ASSUME TypeOK, AllAddsUp, NEW i \in Items \ Logged, seen' = seen,
         \A j : j # i => \A m : /\ Tally(At(j, m), village') = Tally(At(j, m), village)
                                /\ Tally(Busy(j, m), village') = Tally(Busy(j, m), village)
                                /\ Tally(AllOf(j), village') = Tally(AllOf(j), village)
                                /\ Copies(<<j, m>>, begun') = Copies(<<j, m>>, begun)
                                /\ Copies(<<j, m>>, ended') = Copies(<<j, m>>, ended),
         \A s \in BagToSet(ended') : s \in BagToSet(ended) \/ s[1] = i,
         i \notin Leveled =>
           Tally(AllOf(i), village') + Copies(<<i, 0>>, ended')
             = Tally(AllOf(i), seen.rows) + Copies(<<i, 0>>, begun')
  PROVE  AllAddsUp'
<1>1. \A j \in Logged : j # i
  OBVIOUS
<1>2. LevelsAddUp'
  <2>1. ASSUME NEW j \in Logged, NEW m
        PROVE  /\ Tally(At(j, m), village') = Tally(At(j, m), village)
               /\ Copies(<<j, m>>, begun') = Copies(<<j, m>>, begun)
               /\ Copies(<<j, m>>, ended') = Copies(<<j, m>>, ended)
    BY <1>1
  <2> QED BY <2>1 DEF AllAddsUp, LevelsAddUp
<1>3. TimersWereBegun'
  BY <1>1 DEF AllAddsUp, TimersWereBegun
<1>4. ObstaclesAddUp'
  <2>1. ASSUME NEW j \in Items \ Leveled
        PROVE  Tally(AllOf(j), village') + Copies(<<j, 0>>, ended')
                 = Tally(AllOf(j), seen.rows) + Copies(<<j, 0>>, begun')
    BY DEF AllAddsUp, ObstaclesAddUp
  <2> QED BY <2>1 DEF ObstaclesAddUp
<1>5. GainsAreSteps'
  BY <1>1 DEF AllAddsUp, GainsAreSteps
<1> QED BY <1>2, <1>3, <1>4, <1>5 DEF AllAddsUp

\* after a helper is sent,
LEMMA SendAddsUp ==
  ASSUME TypeOK, AllAddsUp, NEW i \in Items, Helper(i), Send(i)
  PROVE  AllAddsUp'
<1>1. PICK r \in BagToSet(village) :
        /\ r[1] = i
        /\ \A T : Tally(T, village') = Tally(T, village) - (IF r \in T THEN 1 ELSE 0)
                                         + IF <<i, r[2], MaxTimer>> \in T THEN 1 ELSE 0
        /\ \A s : Copies(s, begun') = Copies(s, begun) + IF s = <<i, r[2]>> THEN 1 ELSE 0
        /\ UNCHANGED <<now, seen, ended, paid>>
  BY SendDoes
<1>2. \A T : Tally(T, village) \in Nat
  BY TalliesAreNat
<1>3. \A s : Copies(s, begun) \in Nat
  BY TalliesAreNat
<1>4. i \notin Logged /\ i \in Leveled
  BY DEF Logged, Helper, Leveled, Sections
<1>5. ASSUME NEW j, j # i, NEW m
      PROVE  /\ Tally(At(j, m), village') = Tally(At(j, m), village)
             /\ Tally(Busy(j, m), village') = Tally(Busy(j, m), village)
             /\ Tally(AllOf(j), village') = Tally(AllOf(j), village)
             /\ Copies(<<j, m>>, begun') = Copies(<<j, m>>, begun)
             /\ Copies(<<j, m>>, ended') = Copies(<<j, m>>, ended)
  <2>1. ASSUME NEW T, \A x \in T : x[1] = j PROVE Tally(T, village') = Tally(T, village)
    <3>1. r \notin T /\ <<i, r[2], MaxTimer>> \notin T
      BY <1>1, <1>5, <2>1
    <3> QED BY <1>1, <1>2, <3>1
  <2>2. /\ \A x \in At(j, m) : x[1] = j
        /\ \A x \in Busy(j, m) : x[1] = j
        /\ \A x \in AllOf(j) : x[1] = j
    BY DEF At, Busy, AllOf
  <2>3. <<j, m>> # <<i, r[2]>>
    BY <1>5
  <2> QED BY <1>1, <1>3, <2>1, <2>2, <2>3
<1> QED BY <1>1, <1>4, <1>5, OtherAddsUp

\* after an obstacle is cleared or has grown,
LEMMA ObstacleAddsUp ==
  ASSUME TypeOK, AllAddsUp, NEW i \in Items \ Leveled, Clear(i) \/ Grow(i)
  PROVE  AllAddsUp'
<1>1. PICK grown \in BOOLEAN :
        /\ \A T : Tally(T, village') = Tally(T, village)
                    + IF <<i, 0, 0>> \in T THEN (IF grown THEN 1 ELSE -1) ELSE 0
        /\ \A s : Copies(s, begun') = Copies(s, begun) + IF s = <<i, 0>> /\ grown THEN 1 ELSE 0
        /\ \A s : Copies(s, ended') = Copies(s, ended) + IF s = <<i, 0>> /\ ~grown THEN 1 ELSE 0
        /\ BagToSet(ended') \subseteq BagToSet(ended) \cup {<<i, 0>>}
        /\ seen' = seen
  <2>1. CASE Clear(i)
    <3>1. /\ \A T : Tally(T, village') = Tally(T, village) - IF <<i, 0, 0>> \in T THEN 1 ELSE 0
          /\ BagToSet(ended') = BagToSet(ended) \cup {<<i, 0>>}
          /\ \A s : Copies(s, ended') = Copies(s, ended) + IF s = <<i, 0>> THEN 1 ELSE 0
          /\ UNCHANGED <<now, seen, begun, paid>>
      BY <2>1, ClearDoes
    <3>2. \A T : Tally(T, village) \in Nat
      BY TalliesAreNat
    <3>3. \A s : Copies(s, begun) \in Nat
      BY TalliesAreNat
    <3>4. \A T : Tally(T, village') = Tally(T, village) + IF <<i, 0, 0>> \in T THEN -1 ELSE 0
      BY <3>1, <3>2
    <3> WITNESS FALSE \in BOOLEAN
    <3> QED BY <3>1, <3>3, <3>4
  <2>2. CASE Grow(i)
    <3>1. /\ \A T : Tally(T, village') = Tally(T, village) + IF <<i, 0, 0>> \in T THEN 1 ELSE 0
          /\ \A s : Copies(s, begun') = Copies(s, begun) + IF s = <<i, 0>> THEN 1 ELSE 0
          /\ UNCHANGED <<now, seen, ended, paid>>
      BY <2>2, GrowDoes
    <3>2. \A s : Copies(s, ended) \in Nat
      BY TalliesAreNat
    <3> WITNESS TRUE \in BOOLEAN
    <3> QED BY <3>1, <3>2
  <2> QED BY <2>1, <2>2
<1>2. \A T : Tally(T, village) \in Nat /\ Tally(T, seen.rows) \in Nat
  BY TalliesAreNat
<1>3. \A s : Copies(s, begun) \in Nat /\ Copies(s, ended) \in Nat
  BY TalliesAreNat
<1>4. i \notin Logged
  BY DEF Logged
<1>5. ASSUME NEW j, j # i, NEW m
      PROVE  /\ Tally(At(j, m), village') = Tally(At(j, m), village)
             /\ Tally(Busy(j, m), village') = Tally(Busy(j, m), village)
             /\ Tally(AllOf(j), village') = Tally(AllOf(j), village)
             /\ Copies(<<j, m>>, begun') = Copies(<<j, m>>, begun)
             /\ Copies(<<j, m>>, ended') = Copies(<<j, m>>, ended)
  <2>1. <<i, 0, 0>> \notin At(j, m) /\ <<i, 0, 0>> \notin Busy(j, m) /\ <<i, 0, 0>> \notin AllOf(j)
    BY <1>5 DEF At, Busy, AllOf
  <2>2. <<j, m>> # <<i, 0>>
    BY <1>5
  <2>3. /\ Copies(<<j, m>>, begun') = Copies(<<j, m>>, begun)
        /\ Copies(<<j, m>>, ended') = Copies(<<j, m>>, ended)
    BY <1>1, <1>3, <2>2
  <2> QED BY <1>1, <1>2, <2>1, <2>3
<1>6. Tally(AllOf(i), village') + Copies(<<i, 0>>, ended')
        = Tally(AllOf(i), seen.rows) + Copies(<<i, 0>>, begun')
  <2>1. <<i, 0, 0>> \in AllOf(i)
    BY AnalyzeAssumption DEF AllOf
  <2>2. /\ Tally(AllOf(i), village') = Tally(AllOf(i), village) + IF grown THEN 1 ELSE -1
        /\ Copies(<<i, 0>>, begun') = Copies(<<i, 0>>, begun) + IF grown THEN 1 ELSE 0
        /\ Copies(<<i, 0>>, ended') = Copies(<<i, 0>>, ended) + IF grown THEN 0 ELSE 1
    BY <1>1, <2>1
  <2>3. Tally(AllOf(i), village) + Copies(<<i, 0>>, ended)
          = Tally(AllOf(i), seen.rows) + Copies(<<i, 0>>, begun)
    BY DEF AllAddsUp, ObstaclesAddUp
  <2>4. /\ Tally(AllOf(i), village) \in Nat /\ Tally(AllOf(i), seen.rows) \in Nat
        /\ Copies(<<i, 0>>, begun) \in Nat /\ Copies(<<i, 0>>, ended) \in Nat
    BY <1>2, <1>3
  <2> QED BY <2>2, <2>3, <2>4
<1>7. \A s \in BagToSet(ended') : s \in BagToSet(ended) \/ s[1] = i
  BY <1>1
<1> QED BY <1>1, <1>4, <1>5, <1>6, <1>7, OtherAddsUp

\* after a capture, which closes them,
LEMMA CaptureAddsUp == ASSUME TypeOK, Capture PROVE AllAddsUp'
<1>1. \A T : Tally(T, village) \in Nat
  BY TalliesAreNat
<1>2. /\ seen'.rows = village /\ village' = village /\ begun' = EmptyBag /\ ended' = EmptyBag
      /\ \A s : Copies(s, EmptyBag) = 0
  BY EmptyIsFinite DEF Capture, Current
<1>3. LevelsAddUp'
  BY <1>1, <1>2 DEF LevelsAddUp
<1>4. TimersWereBegun'
  BY <1>1, <1>2 DEF TimersWereBegun
<1>5. ObstaclesAddUp'
  BY <1>1, <1>2 DEF ObstaclesAddUp
<1>6. GainsAreSteps'
  BY <1>2, EmptyIsFinite DEF GainsAreSteps
<1> QED BY <1>3, <1>4, <1>5, <1>6 DEF AllAddsUp

\* and so after every step.
LEMMA NextAddsUp ==
  ASSUME TypeOK, Landable, AllAddsUp, [Next]_vars PROVE AllAddsUp'
<1>1. CASE Tick
  BY <1>1, TickAddsUp
<1>2. ASSUME NEW i \in Unbuilt, Build(i) PROVE AllAddsUp'
  <2>1. /\ i \in Leveled \cap Known /\ 0 + 1 \in DOMAIN Table(i)
        /\ Finite(village) /\ BagToSet(village) \subseteq Row /\ Climb(i, 0, village)
    BY <1>2, BuildDoes
  <2>2. \A T : Tally(T, village) = Tally(T, village) - IF FALSE /\ <<i, 0, 0>> \in T THEN 1 ELSE 0
    BY TalliesAreNat
  <2> QED BY <2>1, <2>2, ClimbAddsUp
<1>3. ASSUME NEW r \in BagToSet(village), Upgrade(r) PROVE AllAddsUp'
  <2>1. /\ r[1] \in Leveled \cap Known /\ r[2] \in Nat /\ r = <<r[1], r[2], 0>>
        /\ r[2] + 1 \in DOMAIN Table(r[1])
        /\ Finite(BagRemove(village, r)) /\ BagToSet(BagRemove(village, r)) \subseteq Row
        /\ \A T : Tally(T, BagRemove(village, r)) = Tally(T, village) - IF r \in T THEN 1 ELSE 0
        /\ Climb(r[1], r[2], BagRemove(village, r))
    BY <1>3, UpgradeDoes
  <2>2. \A T : Tally(T, BagRemove(village, r))
                 = Tally(T, village) - IF TRUE /\ <<r[1], r[2], 0>> \in T THEN 1 ELSE 0
    BY <2>1
  <2> DEFINE i == r[1]
             l == r[2]
             others == BagRemove(village, r)
  <2>3. /\ i \in Leveled \cap Known /\ l \in Nat /\ l + 1 \in DOMAIN Table(i)
        /\ Finite(others) /\ BagToSet(others) \subseteq Row /\ Climb(i, l, others)
        /\ \A T : Tally(T, others) = Tally(T, village) - IF TRUE /\ <<i, l, 0>> \in T THEN 1 ELSE 0
    BY <2>1, <2>2
  <2> HIDE DEF i, l, others
  <2> QED BY <2>3, ClimbAddsUp
<1>4. ASSUME NEW i \in Items, Helper(i) /\ Send(i) PROVE AllAddsUp'
  BY <1>4, SendAddsUp
<1>5. ASSUME NEW i \in Items \ Leveled, Clear(i) \/ Grow(i) PROVE AllAddsUp'
  BY <1>5, ObstacleAddsUp
<1>6. CASE Capture
  BY <1>6, CaptureAddsUp
<1>7. CASE UNCHANGED vars
  BY <1>7 DEF vars, AllAddsUp, LevelsAddUp, TimersWereBegun, ObstaclesAddUp, GainsAreSteps
<1> QED BY <1>1, <1>2, <1>3, <1>4, <1>5, <1>6, <1>7 DEF Next

\* The change log is right about every step.
LEMMA LandingsListed ==
  ASSUME TypeOK, Landable, AllAddsUp, NEW s \in Step, s[1] \in Logged
  PROVE  /\ LoggedLandings(seen, Current, s) <= Copies(s, ended)
         /\ LoggedStarts(seen, Current, s) <= Copies(s, begun)
         /\ s \in BagToSet(ended) /\ RowsOf(s[1], ended) = SetToBag({s}) /\ ~BagIn(<<s[1], 0>>, begun)
              => LoggedLandings(seen, Current, s) = 1
<1> DEFINE i == s[1]
           l == s[2]
<1>1. /\ s = <<i, l>> /\ l \in 0..MaxLevel /\ i \in Items
      /\ Above(s) = <<i, l + 1>>
  BY DEF Step, Above
<1>1a. l \in Nat
  BY <1>1, AnalyzeAssumption
<1>2. /\ IsABag(seen.rows) /\ BagToSet(seen.rows) \subseteq Row
      /\ IsABag(village) /\ BagToSet(village) \subseteq Row
      /\ Current.rows = village
  BY DEF TypeOK, Current
<1> HIDE DEF i, l
<1>2a. i \in Logged
  BY DEF i
<1>3. \A m : /\ Copies(<<i, m>>, Rows(seen)) = Tally(At(i, m), seen.rows)
             /\ Copies(<<i, m>>, Timed(seen)) = Tally(Busy(i, m), seen.rows)
             /\ Finite(Timed(seen))
  BY <1>2, <1>2a, RowsCopies
<1>4. \A m : /\ Copies(<<i, m>>, Rows(Current)) = Tally(At(i, m), village)
             /\ Copies(<<i, m>>, Timed(Current)) = Tally(Busy(i, m), village)
             /\ Finite(Timed(Current))
  BY <1>2, <1>2a, RowsCopies
<1> DEFINE N(m) == Tally(At(i, m), village)
           P(m) == Tally(At(i, m), seen.rows)
           E(m) == Copies(<<i, m>>, ended)
           B(m) == Copies(<<i, m>>, begun)
<1>5. \A m : N(m) \in Nat /\ P(m) \in Nat /\ E(m) \in Nat /\ B(m) \in Nat
  BY TalliesAreNat
<1>6. l + 1 <= MaxLevel => N(l + 1) + E(l + 1) = P(l + 1) + E(l)
  <2> SUFFICES ASSUME l + 1 <= MaxLevel PROVE N(l + 1) + E(l + 1) = P(l + 1) + E(l)
    OBVIOUS
  <2>1. l + 1 \in 1..MaxLevel /\ (l + 1) - 1 = l
    BY <1>1, <1>1a, AnalyzeAssumption
  <2> QED BY <1>2a, <2>1 DEF AllAddsUp, LevelsAddUp
<1>7. ~(l + 1 <= MaxLevel) => N(l + 1) = 0 /\ P(l + 1) = 0
  <2> SUFFICES ASSUME ~(l + 1 <= MaxLevel) PROVE N(l + 1) = 0 /\ P(l + 1) = 0
    OBVIOUS
  <2>1. l + 1 \notin 0..MaxLevel
    BY <1>1a, AnalyzeAssumption
  <2> QED BY <1>2, <2>1, NoneAbove
<1>8. Tally(Busy(i, l), village) <= Tally(Busy(i, l), seen.rows) + B(l)
  BY <1>1, <1>2a DEF AllAddsUp, TimersWereBegun
<1>9. /\ l = 0 => P(0) <= N(0) + E(0) /\ N(0) + E(0) <= P(0) + B(0)
      /\ l # 0 => N(l) + E(l) = P(l) + E(l - 1)
  <2>1. l # 0 => l \in 1..MaxLevel
    BY <1>1, <1>1a, AnalyzeAssumption
  <2> QED BY <1>2a, <2>1 DEF AllAddsUp, LevelsAddUp
<1> DEFINE lost   == P(l) - N(l)
           gained == N(l + 1) - P(l + 1)
<1>10. LoggedLandings(seen, Current, s)
         = IF lost > 0 /\ gained > 0 THEN Min({lost, gained}) ELSE 0
  BY <1>1, <1>3, <1>4 DEF LoggedLandings
<1> HIDE DEF N, P, E, B
<1>11. lost \in Int /\ gained \in Int /\ gained <= E(l)
  BY <1>1a, <1>5, <1>6, <1>7
<1> HIDE DEF lost, gained
<1>12. lost > 0 /\ gained > 0 => Min({lost, gained}) = IF lost <= gained THEN lost ELSE gained
  <2> SUFFICES ASSUME lost > 0, gained > 0
               PROVE  Min({lost, gained}) = IF lost <= gained THEN lost ELSE gained
    OBVIOUS
  <2> DEFINE m == IF lost <= gained THEN lost ELSE gained
  <2>1. m \in {lost, gained} /\ \A y \in {lost, gained} : m <= y
    BY <1>11
  <2>2. \A x \in {lost, gained} : (\A y \in {lost, gained} : x <= y) => x = m
    BY <1>11
  <2> HIDE DEF m
  <2>3. Min({lost, gained}) = m
    BY <2>1, <2>2 DEF Min
  <2> QED BY <2>3 DEF m
<1>13. LoggedLandings(seen, Current, s) <= E(l)
  <2>1. E(l) \in Nat
    BY <1>5
  <2> QED BY <1>10, <1>11, <1>12, <2>1
<1>14. LoggedStarts(seen, Current, s) <= B(l)
  <2> DEFINE now1 == Copies(s, Timed(Current))
             then == Copies(s, Timed(seen))
  <2>1. LoggedStarts(seen, Current, s) = IF now1 > then THEN now1 - then ELSE 0
    BY <1>3, <1>4, DroppedCopies DEF LoggedStarts, Finite
  <2>2. now1 = Tally(Busy(i, l), village) /\ then = Tally(Busy(i, l), seen.rows)
    BY <1>1, <1>3, <1>4
  <2>3. now1 \in Nat /\ then \in Nat /\ B(l) \in Nat
    BY <1>5, <2>2, TalliesAreNat
  <2> HIDE DEF now1, then
  <2> QED BY <1>8, <2>1, <2>2, <2>3
<1>15. ASSUME s \in BagToSet(ended), RowsOf(i, ended) = SetToBag({s}), ~BagIn(<<i, 0>>, begun)
       PROVE  LoggedLandings(seen, Current, s) = 1
  <2>1. l < MaxLevel
    BY <1>2a, <1>15 DEF AllAddsUp, GainsAreSteps, i, l
  <2>2. E(l) = 1 /\ \A m : m # l => E(m) = 0
    <3>1. DOMAIN RowsOf(i, ended) = {r \in BagToSet(ended) : r[1] = i}
      BY DEF RowsOf, Restrict
    <3>2. DOMAIN RowsOf(i, ended) = {s}
      BY <1>15 DEF SetToBag
    <3>3. RowsOf(i, ended)[s] = ended[s]
      BY <3>1, <3>2 DEF RowsOf, Restrict
    <3>4. ended[s] = 1
      BY <1>15, <3>3 DEF SetToBag
    <3>5. E(l) = 1
      BY <1>1, <1>15, <3>4 DEF E, Copies, BagIn
    <3>6. ASSUME NEW m, m # l PROVE E(m) = 0
      <4>1. <<i, m>> # s
        BY <1>1, <3>6
      <4>2. <<i, m>> \notin BagToSet(ended)
        BY <3>1, <3>2, <4>1
      <4> QED BY <4>2 DEF E, Copies, BagIn
    <3> QED BY <3>5, <3>6
  <2>3. B(0) = 0
    BY <1>15 DEF B, Copies
  <2>4. gained = 1
    <3>1. E(l + 1) = 0 /\ l + 1 <= MaxLevel
      BY <1>1a, <2>1, <2>2, AnalyzeAssumption
    <3>2. N(l + 1) \in Nat /\ P(l + 1) \in Nat
      BY <1>5
    <3> QED BY <1>6, <2>2, <3>1, <3>2 DEF gained
  <2>5. lost = 1
    <3>1. CASE l = 0
      <4>1. N(0) \in Nat /\ P(0) \in Nat
        BY <1>5
      <4>2. E(0) = 1
        BY <2>2, <3>1
      <4> QED BY <1>9, <2>3, <3>1, <4>1, <4>2 DEF lost
    <3>2. CASE l # 0
      <4>1. N(l) \in Nat /\ P(l) \in Nat /\ E(l) = 1 /\ E(l - 1) = 0
        BY <1>1a, <1>5, <2>2
      <4> QED BY <1>9, <3>2, <4>1 DEF lost
    <3> QED BY <3>1, <3>2
  <2> QED BY <1>10, <1>12, <2>4, <2>5
<1>16. E(l) = Copies(s, ended) /\ B(l) = Copies(s, begun)
  BY <1>1 DEF E, B
<1> QED BY <1>13, <1>14, <1>15, <1>16 DEF i

\* What the books say makes the change log true.
LEMMA LogFollows == ASSUME TypeOK, Landable, AllAddsUp PROVE LogIsTrue
<1>1. /\ IsABag(seen.rows) /\ BagToSet(seen.rows) \subseteq Row
      /\ IsABag(village) /\ BagToSet(village) \subseteq Row
      /\ Current.rows = village
      /\ BagToSet(ended) \subseteq Step
  BY DEF TypeOK, Current
<1>2. ASSUME NEW s \in BagToSet(Rows(seen)) \cup BagToSet(Timed(Current))
      PROVE  s \in Step /\ s[1] \in Logged
  <2>1. CASE s \in BagToSet(Rows(seen))
    <3> DEFINE T == {r \in BagToSet(seen.rows) : r[1] \in Logged}
    <3>1. T \in SUBSET BagToSet(seen.rows) /\ Rows(seen) = StepsOf(Restrict(seen.rows, T))
      BY DEF Rows
    <3> HIDE DEF T
    <3>2. s \in Step /\ s \in {<<r[1], r[2]>> : r \in T}
      BY <1>1, <2>1, <3>1, StepsCopies
    <3> QED BY <3>2 DEF T
  <2>2. CASE s \in BagToSet(Timed(Current))
    <3> DEFINE T == {r \in BagToSet(village) : r[1] \in Logged /\ r[3] > 0}
    <3>1. T \in SUBSET BagToSet(village) /\ Timed(Current) = StepsOf(Restrict(village, T))
      BY DEF Timed, Current
    <3> HIDE DEF T
    <3>2. s \in Step /\ s \in {<<r[1], r[2]>> : r \in T}
      BY <1>1, <2>2, <3>1, StepsCopies
    <3> QED BY <3>2 DEF T
  <2> QED BY <2>1, <2>2
<1>3. \A s \in BagToSet(Rows(seen)) \cup BagToSet(Timed(Current)) :
        /\ LoggedLandings(seen, Current, s) <= Copies(s, ended)
        /\ LoggedStarts(seen, Current, s) <= Copies(s, begun)
  BY <1>2, LandingsListed
<1>4. \A s \in BagToSet(ended) :
        s[1] \in Logged /\ RowsOf(s[1], ended) = SetToBag({s}) /\ ~BagIn(<<s[1], 0>>, begun)
          => LoggedLandings(seen, Current, s) = 1
  BY <1>1, LandingsListed
<1>5. ASSUME NEW i \in Items \ Leveled
      PROVE  Appeared(seen, Current, i) = Copies(<<i, 0>>, begun) - Copies(<<i, 0>>, ended)
  <2>1. Owned(Current, i) = Tally(AllOf(i), village) /\ Owned(seen, i) = Tally(AllOf(i), seen.rows)
    BY <1>1, OwnedIsTally
  <2>2. Tally(AllOf(i), village) + Copies(<<i, 0>>, ended)
          = Tally(AllOf(i), seen.rows) + Copies(<<i, 0>>, begun)
    BY DEF AllAddsUp, ObstaclesAddUp
  <2>3. /\ Tally(AllOf(i), village) \in Nat /\ Tally(AllOf(i), seen.rows) \in Nat
        /\ Copies(<<i, 0>>, begun) \in Nat /\ Copies(<<i, 0>>, ended) \in Nat
    BY TalliesAreNat
  <2> QED BY <2>1, <2>2, <2>3 DEF Appeared
<1> QED BY <1>3, <1>4, <1>5 DEF LogIsTrue

\* The change log is true for every village and every way to play it.
THEOREM ChangeLogIsTrue == Spec => []LogIsTrue
<1>1. Init => TypeOK /\ Landable /\ AllAddsUp
  BY InitTyped, InitAddsUp
<1>2. TypeOK /\ Landable /\ AllAddsUp /\ [Next]_vars => (TypeOK /\ Landable /\ AllAddsUp)'
  BY NextTyped, NextAddsUp
<1>3. TypeOK /\ Landable /\ AllAddsUp => LogIsTrue
  BY LogFollows
<1> QED BY <1>1, <1>2, <1>3, PTL DEF Spec

-----------------------------------------------------------------------------
(* The report of an old export.                                            *)

\* A row some seconds later, when nothing but time passed.
Later(r, d) ==
  IF r[3] = 0 THEN r
  ELSE IF r[3] > d THEN <<r[1], r[2], r[3] - d>>
  ELSE <<r[1], IF Helper(r[1]) THEN r[2] ELSE r[2] + 1, 0>>
later(d) == [r \in Row |-> Later(r, d)]

\* While the player waits, the village is the stored export, that much older.
WaitingIsAging == Waited => village = Im(later(now - seen.at), seen.rows)

\* A row d seconds later, by its timer.
LEMMA LaterRow ==
  ASSUME NEW r \in Row, NEW d \in Nat
  PROVE  /\ later(d)[r] = Later(r, d) /\ Later(r, d)[1] = r[1]
         /\ Later(r, 0) = r
         /\ r[3] = 0 => Later(r, d) = r
         /\ r[3] > d => Later(r, d) = <<r[1], r[2], r[3] - d>>
         /\ r[3] > 0 /\ ~(r[3] > d) =>
              Later(r, d) = <<r[1], IF Helper(r[1]) THEN r[2] ELSE r[2] + 1, 0>>
<1>1. r = <<r[1], r[2], r[3]>> /\ r[3] \in Nat
  BY RowParts
<1>2. later(d)[r] = Later(r, d)
  BY DEF later
<1>3. CASE r[3] = 0
  BY <1>1, <1>2, <1>3 DEF Later
<1>4. CASE r[3] > d
  <2>1. Later(r, d) = <<r[1], r[2], r[3] - d>>
    BY <1>1, <1>4 DEF Later
  <2>2. Later(r, 0) = <<r[1], r[2], r[3] - 0>>
    BY <1>1, <1>4 DEF Later
  <2> QED BY <1>1, <1>2, <1>4, <2>1, <2>2
<1>5. CASE r[3] > 0 /\ ~(r[3] > d)
  <2>1. Later(r, d) = <<r[1], IF Helper(r[1]) THEN r[2] ELSE r[2] + 1, 0>>
    BY <1>1, <1>5 DEF Later
  <2>2. Later(r, 0) = <<r[1], r[2], r[3] - 0>>
    BY <1>1, <1>5 DEF Later
  <2> QED BY <1>1, <1>2, <1>5, <2>1, <2>2
<1> QED BY <1>1, <1>3, <1>4, <1>5

\* A second more.
LEMMA LaterAgain ==
  ASSUME NEW r \in Row, NEW d \in Nat, Later(r, d) \in Row
  PROVE  Aged(Later(r, d)) = Later(r, d + 1)
<1>1. r[3] \in Nat /\ d + 1 \in Nat
  BY RowParts
<1>2. CASE r[3] = 0
  <2>1. Later(r, d) = r /\ Later(r, d + 1) = r
    BY <1>1, <1>2, LaterRow
  <2> QED BY <1>2, <2>1, AgedRow
<1>3. CASE r[3] > 0 /\ ~(r[3] > d)
  <2>1. /\ Later(r, d) = <<r[1], IF Helper(r[1]) THEN r[2] ELSE r[2] + 1, 0>>
        /\ Later(r, d + 1) = <<r[1], IF Helper(r[1]) THEN r[2] ELSE r[2] + 1, 0>>
    BY <1>1, <1>3, LaterRow
  <2>2. Later(r, d)[3] = 0
    BY <2>1
  <2> QED BY <2>1, <2>2, AgedRow
<1>4. CASE r[3] = d + 1
  <2>1. /\ Later(r, d) = <<r[1], r[2], 1>>
        /\ Later(r, d + 1) = <<r[1], IF Helper(r[1]) THEN r[2] ELSE r[2] + 1, 0>>
    BY <1>1, <1>4, LaterRow
  <2>2. Aged(<<r[1], r[2], 1>>) = <<r[1], IF Helper(r[1]) THEN r[2] ELSE r[2] + 1, 0>>
    BY DEF Aged
  <2> QED BY <2>1, <2>2
<1>5. CASE r[3] > d + 1
  <2>1. /\ Later(r, d) = <<r[1], r[2], r[3] - d>>
        /\ Later(r, d + 1) = <<r[1], r[2], r[3] - (d + 1)>>
    BY <1>1, <1>5, LaterRow
  <2>2. Later(r, d)[1] = r[1] /\ Later(r, d)[2] = r[2] /\ Later(r, d)[3] = r[3] - d /\ r[3] - d > 1
    BY <1>1, <1>5, <2>1
  <2>3. Aged(Later(r, d)) = <<r[1], r[2], (r[3] - d) - 1>>
    BY <2>2, AgedRow
  <2>4. (r[3] - d) - 1 = r[3] - (d + 1)
    BY <1>1
  <2> QED BY <2>1, <2>3, <2>4
<1> QED BY <1>1, <1>2, <1>3, <1>4, <1>5

\* No time at all.
LEMMA LaterIsNow ==
  ASSUME NEW B, IsABag(B), BagToSet(B) \subseteq Row
  PROVE  Im(later(0), B) = B
<1>1. Finite(B)
  BY RowsAreFinite
<1>2. \A r \in BagToSet(B) : later(0)[r] = r
  BY LaterRow
<1>3. ASSUME NEW y PROVE Copies(y, Im(later(0), B)) = Copies(y, B)
  <2>1. Copies(y, Im(later(0), B)) = Tally({r \in BagToSet(B) : later(0)[r] = y}, B)
    BY <1>1, ImageCopies
  <2>2. {r \in BagToSet(B) : later(0)[r] = y} \cap BagToSet(B) = {y} \cap BagToSet(B)
    BY <1>2
  <2> DEFINE T == {r \in BagToSet(B) : later(0)[r] = y}
  <2> HIDE DEF T
  <2>3. Tally(T, B) = Tally({y}, B)
    BY <2>2, TallyWithin DEF T
  <2>4. Tally({y}, B) = Copies(y, B)
    <3>1. Tally({y}, B) = Copies(y, B) + Tally({y} \ {y}, B)
      BY <1>1, TallyTakes
    <3>2. {y} \ {y} = {}
      OBVIOUS
    <3>3. Tally({}, B) = 0 /\ Copies(y, B) \in Nat
      BY <1>1, TallyTakes
    <3> QED BY <3>1, <3>2, <3>3
  <2> QED BY <2>1, <2>3, <2>4 DEF T
<1>4. IsABag(Im(later(0), B))
  BY <1>1, ImageCopies DEF Finite
<1> QED BY <1>3, <1>4, BagsAgree

\* Nothing has aged at first,
LEMMA InitWaits == ASSUME TypeOK, Init PROVE WaitingIsAging
<1>1. seen.at = now /\ seen.rows = village /\ now - seen.at = 0
  BY DEF Init, Current, TypeOK
<1>2. Im(later(0), village) = village
  BY LaterIsNow DEF TypeOK
<1> QED BY <1>1, <1>2 DEF WaitingIsAging

\* and a tick ages a waiting village by one second more.
LEMMA TickWaits ==
  ASSUME TypeOK, WaitingIsAging, Tick, Waited'
  PROVE  village' = Im(later(now' - seen'.at), seen'.rows)
<1> DEFINE d == now - seen.at
           S == seen.rows
<1>1. /\ now' = now + 1 /\ seen' = seen /\ begun' = begun
      /\ village' = Im(aged, village)
      /\ BagToSet(ended') = BagToSet(ended) \cup {<<r[1], r[2]>> : r \in Landing(village)}
  BY VillageAges DEF Tick
<1>2. Waited
  BY <1>1 DEF Waited, BagIn
<1>3. village = Im(later(d), S)
  BY <1>2 DEF WaitingIsAging
<1>4. d \in Nat /\ now' - seen'.at = d + 1
  BY <1>1 DEF TypeOK
<1>5. Finite(S) /\ BagToSet(S) \subseteq Row /\ BagToSet(village) \subseteq Row
  BY RowsAreFinite DEF TypeOK
<1>6. BagToSet(village) = {later(d)[r] : r \in BagToSet(S)}
  <2> HIDE DEF d, S
  <2> QED BY <1>3, <1>5, ImageCopies
<1> HIDE DEF d, S
<1>7. ASSUME NEW r \in BagToSet(S) PROVE later(d + 1)[r] = aged[later(d)[r]]
  <2>1. r \in Row /\ d + 1 \in Nat
    BY <1>4, <1>5
  <2>2. later(d)[r] = Later(r, d) /\ later(d + 1)[r] = Later(r, d + 1)
    BY <1>4, <2>1, LaterRow
  <2>3. Later(r, d) \in Row
    BY <1>5, <1>6, <2>2
  <2>4. aged[Later(r, d)] = Aged(Later(r, d))
    BY <2>3, AgedRow
  <2> QED BY <1>4, <2>1, <2>2, <2>3, <2>4, LaterAgain
<1>8. Im(aged, Im(later(d), S)) = Im(later(d + 1), S)
  BY <1>5, <1>7, ImageOfImage
<1> QED BY <1>1, <1>3, <1>4, <1>8 DEF S

\* Whatever else happens is not waiting.
LEMMA NextWaits ==
  ASSUME TypeOK, WaitingIsAging, [Next]_vars PROVE WaitingIsAging'
<1>0. \A B, x : Finite(B) => BagAdd(B, x) # EmptyBag
  <2> SUFFICES ASSUME NEW B, NEW x, Finite(B) PROVE BagAdd(B, x) # EmptyBag
    OBVIOUS
  <2>1. x \in BagToSet(BagAdd(B, x))
    BY AddedCopy
  <2> QED BY <2>1, EmptyIsFinite
<1>0a. Finite(begun)
  BY TalliesAreNat
<1>1. CASE Tick
  BY <1>1, TickWaits DEF WaitingIsAging
<1>2. ASSUME NEW i \in Unbuilt, Build(i) PROVE WaitingIsAging'
  <2>1. begun' = BagAdd(begun, <<i, 0>>)
    BY <1>2 DEF Build, Climb
  <2> QED BY <1>0, <1>0a, <2>1 DEF WaitingIsAging, Waited
<1>3. ASSUME NEW r \in BagToSet(village), Upgrade(r) PROVE WaitingIsAging'
  <2>1. begun' = BagAdd(begun, <<r[1], r[2]>>)
    BY <1>3 DEF Upgrade, Climb
  <2> QED BY <1>0, <1>0a, <2>1 DEF WaitingIsAging, Waited
<1>4. ASSUME NEW i \in Items, Helper(i) /\ Send(i) PROVE WaitingIsAging'
  <2>1. PICK r \in BagToSet(village) : begun' = BagAdd(begun, <<i, r[2]>>)
    BY <1>4 DEF Send
  <2> QED BY <1>0, <1>0a, <2>1 DEF WaitingIsAging, Waited
<1>5. ASSUME NEW i \in Items \ Leveled, Clear(i) \/ Grow(i) PROVE WaitingIsAging'
  <2>1. CASE Clear(i)
    <3>1. BagIn(<<i, 0>>, ended')
      BY <2>1, ClearDoes DEF BagIn
    <3> QED BY <3>1 DEF WaitingIsAging, Waited
  <2>2. CASE Grow(i)
    <3>1. begun' = BagAdd(begun, <<i, 0>>)
      BY <2>2 DEF Grow
    <3> QED BY <1>0, <1>0a, <3>1 DEF WaitingIsAging, Waited
  <2> QED BY <1>5, <2>1, <2>2
<1>6. CASE Capture
  <2>1. /\ seen'.at = now /\ seen'.rows = village /\ now' = now /\ village' = village
        /\ now - now = 0
    BY <1>6 DEF Capture, Current, TypeOK
  <2>2. Im(later(0), village) = village
    BY LaterIsNow DEF TypeOK
  <2>3. now' - seen'.at = 0
    BY <2>1
  <2> QED BY <2>1, <2>2, <2>3 DEF WaitingIsAging
<1>7. CASE UNCHANGED vars
  BY <1>7 DEF vars, WaitingIsAging, Waited
<1> QED BY <1>1, <1>2, <1>3, <1>4, <1>5, <1>6, <1>7 DEF Next

\* What an image of part of a bag holds, and a part of such an image.
LEMMA ImageOfPart ==
  ASSUME NEW B, Finite(B), NEW T \in SUBSET BagToSet(B), NEW h
  PROVE  LET C == Im(h, Restrict(B, T))
         IN /\ Finite(C) /\ BagToSet(C) = {h[r] : r \in T}
            /\ \A y : Copies(y, C) = Tally({r \in T : h[r] = y}, B)
            /\ \A W \in SUBSET BagToSet(C) :
                 Restrict(C, W) = Im(h, Restrict(B, {r \in T : h[r] \in W}))
<1> DEFINE P == Restrict(B, T)
           C == Im(h, P)
<1>1. /\ Finite(P) /\ BagToSet(P) = T
      /\ \A U : Tally(U, P) = Tally(U \cap T, B)
  BY SizeOfPart
<1>2. /\ Finite(C) /\ BagToSet(C) = {h[r] : r \in T}
      /\ \A y : Copies(y, C) = Tally({r \in T : h[r] = y}, P)
  <2> HIDE DEF P
  <2> QED BY <1>1, ImageCopies
<1> HIDE DEF P
<1>3. ASSUME NEW y PROVE Copies(y, C) = Tally({r \in T : h[r] = y}, B)
  <2> DEFINE U == {r \in T : h[r] = y}
  <2>1. U \cap T = U
    OBVIOUS
  <2> HIDE DEF U
  <2>2. Tally(U, P) = Tally(U, B)
    BY <1>1, <2>1
  <2> QED BY <1>2, <2>2 DEF U
<1>4. ASSUME NEW W \in SUBSET BagToSet(C)
      PROVE  Restrict(C, W) = Im(h, Restrict(B, {r \in T : h[r] \in W}))
  <2> DEFINE V == {r \in T : h[r] \in W}
             D == Restrict(B, V)
  <2>1. V \in SUBSET BagToSet(B)
    OBVIOUS
  <2>2. /\ Finite(D) /\ BagToSet(D) = V
        /\ \A U : Tally(U, D) = Tally(U \cap V, B)
    <3> HIDE DEF V
    <3> QED BY <2>1, SizeOfPart
  <2> HIDE DEF D
  <2>3. Finite(Im(h, D)) /\ \A y : Copies(y, Im(h, D)) = Tally({r \in V : h[r] = y}, D)
    BY <2>2, ImageCopies
  <2> HIDE DEF C
  <2>4. /\ Finite(Restrict(C, W)) /\ BagToSet(Restrict(C, W)) = W
        /\ \A y \in W : Copies(y, Restrict(C, W)) = Copies(y, C)
    BY <1>2, SizeOfPart
  <2>5. ASSUME NEW y PROVE Copies(y, Restrict(C, W)) = Copies(y, Im(h, D))
    <3> DEFINE U == {r \in V : h[r] = y}
    <3>1. Copies(y, Im(h, D)) = Tally(U \cap V, B)
      BY <2>2, <2>3
    <3>2. CASE y \in W
      <4>1. U \cap V = {r \in T : h[r] = y}
        BY <3>2
      <4>2. Copies(y, C) = Tally({r \in T : h[r] = y}, B)
        BY <1>3 DEF C
      <4> QED BY <2>4, <3>1, <3>2, <4>1, <4>2
    <3>3. CASE y \notin W
      <4>1. U \cap V = {}
        BY <3>3
      <4>2. Copies(y, Restrict(C, W)) = 0
        BY <2>4, <3>3 DEF Copies, BagIn
      <4> QED BY <3>1, <4>1, <4>2, TallyTakes
    <3> QED BY <3>2, <3>3
  <2> QED BY <2>3, <2>4, <2>5, BagsAgree DEF Finite, D
<1> QED BY <1>2, <1>3, <1>4 DEF P

-----------------------------------------------------------------------------
(* While the player waits.                                                 *)

Waiting == TypeOK /\ Waited /\ WaitingIsAging
Age     == now - seen.at

\* The rows of a village that only waited are those of the stored export, later.
LEMMA WaitingRows ==
  ASSUME Waiting
  PROVE  /\ IsABag(village) /\ Finite(village) /\ BagToSet(village) \subseteq Row
         /\ IsABag(seen.rows) /\ Finite(seen.rows) /\ BagToSet(seen.rows) \subseteq Row
         /\ Age \in Nat /\ now \in Nat /\ seen.at \in Nat
         /\ village = Im(later(Age), seen.rows)
         /\ \A r \in BagToSet(seen.rows) : later(Age)[r] = Later(r, Age)
         /\ BagToSet(village) = {Later(r, Age) : r \in BagToSet(seen.rows)}
<1>1. /\ IsABag(village) /\ Finite(village) /\ BagToSet(village) \subseteq Row
      /\ IsABag(seen.rows) /\ Finite(seen.rows) /\ BagToSet(seen.rows) \subseteq Row
  BY RowsAreFinite DEF Waiting, TypeOK
<1>2. Age \in Nat /\ now \in Nat /\ seen.at \in Nat
  BY AnalyzeAssumption DEF Waiting, TypeOK, Age
<1>3. village = Im(later(Age), seen.rows)
  BY DEF Waiting, WaitingIsAging, Age
<1>4. \A r \in BagToSet(seen.rows) : later(Age)[r] = Later(r, Age)
  BY <1>1, <1>2, LaterRow
<1>5. BagToSet(village) = {later(Age)[r] : r \in BagToSet(seen.rows)}
  BY <1>1, <1>3, ImageCopies
<1> QED BY <1>1, <1>2, <1>3, <1>4, <1>5

\* A row of the stored export and what has become of it count at one level,
\* and what is still under way ends when it was to end.
LEMMA RowKeepsUp ==
  ASSUME Waiting, NEW r \in BagToSet(seen.rows)
  PROVE  LET q == Later(r, Age)
         IN /\ q[1] = r[1]
            /\ LevelNow(Current, q, now) = LevelNow(seen, r, now)
            /\ q[3] > 0 <=> r[3] > Age
            /\ seen.at + r[3] > now <=> r[3] > Age
            /\ q[3] > 0 => q[2] = r[2] /\ now + q[3] = seen.at + r[3]
<1> DEFINE q == Later(r, Age)
<1>1. r \in Row /\ r[3] \in Nat /\ r[2] \in Nat /\ Age \in Nat /\ now \in Nat /\ seen.at \in Nat
  BY WaitingRows, RowParts
<1>2. q[1] = r[1]
  BY <1>1, LaterRow
<1>3. Current.at = now
  BY DEF Current
<1>4. seen.at + r[3] > now <=> r[3] > Age
  BY <1>1 DEF Age
<1>5. CASE r[3] = 0
  <2>1. q = r
    BY <1>1, <1>5, LaterRow
  <2>2. LevelNow(Current, q, now) = r[2] /\ LevelNow(seen, r, now) = r[2]
    BY <1>5, <2>1 DEF LevelNow, Elapsed
  <2> QED BY <1>1, <1>2, <1>4, <1>5, <2>1, <2>2
<1>6. CASE r[3] > Age
  <2>1. q = <<r[1], r[2], r[3] - Age>>
    BY <1>1, <1>6, LaterRow
  <2>2. q[2] = r[2] /\ q[3] = r[3] - Age /\ q[3] > 0 /\ now + q[3] = seen.at + r[3]
    BY <1>1, <1>6, <2>1 DEF Age
  <2>3. ~(Current.at + q[3] <= now) /\ ~(seen.at + r[3] <= now)
    BY <1>1, <1>3, <1>4, <1>6, <2>2
  <2>4. LevelNow(Current, q, now) = r[2] /\ LevelNow(seen, r, now) = r[2]
    BY <2>2, <2>3 DEF LevelNow, Elapsed
  <2> QED BY <1>2, <1>4, <1>6, <2>2, <2>4
<1>7. CASE r[3] > 0 /\ ~(r[3] > Age)
  <2>1. q = <<r[1], IF Helper(r[1]) THEN r[2] ELSE r[2] + 1, 0>>
    BY <1>1, <1>7, LaterRow
  <2>2. q[2] = (IF Helper(r[1]) THEN r[2] ELSE r[2] + 1) /\ q[3] = 0
    BY <2>1
  <2>3. seen.at + r[3] <= now
    BY <1>1, <1>4, <1>7
  <2>4. LevelNow(Current, q, now) = q[2]
    BY <2>2 DEF LevelNow, Elapsed
  <2>5. LevelNow(seen, r, now) = q[2]
    BY <1>7, <2>2, <2>3 DEF LevelNow, Elapsed
  <2> QED BY <1>2, <1>4, <1>7, <2>2, <2>4, <2>5
<1> QED BY <1>1, <1>5, <1>6, <1>7

\* Parts of the village and of the stored export that correspond have as many
\* copies, and as many of what corresponding functions make of them.
LEMMA PartsKeepUp ==
  ASSUME Waiting, NEW T \in SUBSET BagToSet(village), NEW U \in SUBSET BagToSet(seen.rows),
         \A r \in BagToSet(seen.rows) : Later(r, Age) \in T <=> r \in U
  PROVE  /\ Tally(T, village) = Tally(U, seen.rows)
         /\ Size(Restrict(village, T)) = Size(Restrict(seen.rows, U))
<1>1. {r \in BagToSet(seen.rows) : later(Age)[r] \in T} = U
  BY WaitingRows
<1>2. Tally(T, Im(later(Age), seen.rows)) = Tally(U, seen.rows)
  BY <1>1, WaitingRows, ImageTally
<1>3. Tally(T, village) = Tally(U, seen.rows)
  BY <1>2, WaitingRows
<1>4. /\ Size(Restrict(village, T)) = Tally(T, village)
      /\ Size(Restrict(seen.rows, U)) = Tally(U, seen.rows)
  BY WaitingRows, SizeOfPart
<1> QED BY <1>3, <1>4

\* So what is made of the one's rows is what is made of the other's.
LEMMA ImagesKeepUp ==
  ASSUME Waiting, NEW T \in SUBSET BagToSet(village), NEW U \in SUBSET BagToSet(seen.rows),
         \A r \in BagToSet(seen.rows) : Later(r, Age) \in T <=> r \in U,
         NEW h, NEW k, \A r \in U : h[Later(r, Age)] = k[r]
  PROVE  Im(h, Restrict(village, T)) = Im(k, Restrict(seen.rows, U))
<1> DEFINE C == Im(h, Restrict(village, T))
           D == Im(k, Restrict(seen.rows, U))
<1>1. /\ Finite(C) /\ \A y : Copies(y, C) = Tally({r \in T : h[r] = y}, village)
      /\ Finite(D) /\ \A y : Copies(y, D) = Tally({r \in U : k[r] = y}, seen.rows)
  BY WaitingRows, ImageOfPart
<1>2. ASSUME NEW y PROVE Copies(y, C) = Copies(y, D)
  <2> DEFINE X == {r \in T : h[r] = y}
             Y == {r \in U : k[r] = y}
  <2>1. X \in SUBSET BagToSet(village) /\ Y \in SUBSET BagToSet(seen.rows)
    OBVIOUS
  <2>2. \A r \in BagToSet(seen.rows) : Later(r, Age) \in X <=> r \in Y
    OBVIOUS
  <2> HIDE DEF X, Y
  <2>3. Tally(X, village) = Tally(Y, seen.rows)
    BY <2>1, <2>2, PartsKeepUp
  <2> HIDE DEF C, D
  <2> QED BY <1>1, <2>3 DEF X, Y
<1> HIDE DEF C, D
<1>3. C = D
  BY <1>1, <1>2, BagsAgree DEF Finite
<1> QED BY <1>3 DEF C, D

\* Gates,
LEMMA GatesKeepUp ==
  ASSUME Waiting PROVE GatesAt(seen, now) = GatesAt(Current, now)
<1> DEFINE Of(e, i) == {LevelNow(e, r, now) : r \in {r \in BagToSet(e.rows) : r[1] = i}}
<1>1. Current.rows = village
  BY DEF Current
<1>2. ASSUME NEW i PROVE Of(seen, i) = Of(Current, i)
  BY <1>1, WaitingRows, RowKeepsUp
<1>3. \A g \in GateNames : {0} \cup Of(seen, Id[g]) = {0} \cup Of(Current, Id[g])
  BY <1>2
<1> QED BY <1>3 DEF GatesAt

\* the copies owned and what is shown,
LEMMA OwnedKeepsUp ==
  ASSUME Waiting
  PROVE  /\ \A i : Owned(seen, i) = Owned(Current, i)
         /\ {r[1] : r \in BagToSet(seen.rows)} = {r[1] : r \in BagToSet(Current.rows)}
         /\ \A lane : Capacity(seen, lane) = Capacity(Current, lane)
<1>1. Current.rows = village
  BY DEF Current
<1>2. ASSUME NEW i PROVE Owned(seen, i) = Owned(Current, i)
  <2> DEFINE T == {r \in BagToSet(village) : r[1] = i}
             U == {r \in BagToSet(seen.rows) : r[1] = i}
  <2>1. T \in SUBSET BagToSet(village) /\ U \in SUBSET BagToSet(seen.rows)
    OBVIOUS
  <2>2. \A r \in BagToSet(seen.rows) : Later(r, Age) \in T <=> r \in U
    BY WaitingRows, RowKeepsUp
  <2> HIDE DEF T, U
  <2>3. Size(Restrict(village, T)) = Size(Restrict(seen.rows, U))
    BY <2>1, <2>2, PartsKeepUp
  <2> QED BY <1>1, <2>3 DEF Owned, RowsOf, T, U
<1>3. {r[1] : r \in BagToSet(seen.rows)} = {r[1] : r \in BagToSet(village)}
  BY WaitingRows, RowKeepsUp
<1>4. Size(Restrict(seen.rows, {r \in BagToSet(seen.rows) : Helper(r[1])}))
        = Size(Restrict(village, {r \in BagToSet(village) : Helper(r[1])}))
  <2> DEFINE T == {r \in BagToSet(village) : Helper(r[1])}
             U == {r \in BagToSet(seen.rows) : Helper(r[1])}
  <2>1. T \in SUBSET BagToSet(village) /\ U \in SUBSET BagToSet(seen.rows)
    OBVIOUS
  <2>2. \A r \in BagToSet(seen.rows) : Later(r, Age) \in T <=> r \in U
    BY WaitingRows, RowKeepsUp
  <2> HIDE DEF T, U
  <2>3. Size(Restrict(village, T)) = Size(Restrict(seen.rows, U))
    BY <2>1, <2>2, PartsKeepUp
  <2> QED BY <2>3 DEF T, U
<1>5. \A lane : Capacity(seen, lane) = Capacity(Current, lane)
  BY <1>1, <1>2, <1>4 DEF Capacity
<1> QED BY <1>1, <1>2, <1>3, <1>5

\* the copies of an item at each level, and so everything the panels are made
\* of,
LevelIn(e) == [r \in Row |-> LevelNow(e, r, now)]
Levelled(e, i) == Image(LAMBDA r : LevelNow(e, r, now), RowsOf(i, e.rows))

\* The levels of an item, as an image,
LEMMA LevelledIsImage ==
  ASSUME NEW e, IsABag(e.rows), BagToSet(e.rows) \subseteq Row, NEW i
  PROVE  Levelled(e, i) = Im(LevelIn(e), Restrict(e.rows, {r \in BagToSet(e.rows) : r[1] = i}))
<1> DEFINE T == {r \in BagToSet(e.rows) : r[1] = i}
           C == Restrict(e.rows, T)
<1>1. BagToSet(C) = T
  BY DEF Restrict, BagToSet
<1>2. RowsOf(i, e.rows) = C
  BY DEF RowsOf
<1>3. \A r \in T : LevelIn(e)[r] = LevelNow(e, r, now)
  BY DEF LevelIn
<1> HIDE DEF C, T
<1>4. {LevelIn(e)[r] : r \in T} = {LevelNow(e, r, now) : r \in T}
  BY <1>3
<1>5. \A y : {r \in T : LevelNow(e, r, now) = y} = {r \in T : LevelIn(e)[r] = y}
  BY <1>3
<1>6. Levelled(e, i) = Im(LevelIn(e), C)
  BY <1>1, <1>2, <1>4, <1>5 DEF Levelled, Image, Im
<1> QED BY <1>6 DEF C, T

\* are those of a fresh export,
LEMMA LevelsKeepUp ==
  ASSUME Waiting, NEW i PROVE Levelled(seen, i) = Levelled(Current, i)
<1> DEFINE T == {r \in BagToSet(village) : r[1] = i}
           U == {r \in BagToSet(seen.rows) : r[1] = i}
<1>1. Current.rows = village
  BY DEF Current
<1>2. T \in SUBSET BagToSet(village) /\ U \in SUBSET BagToSet(seen.rows)
  OBVIOUS
<1>3. \A r \in BagToSet(seen.rows) : Later(r, Age) \in T <=> r \in U
  BY WaitingRows, RowKeepsUp
<1>4. \A r \in U : LevelIn(Current)[Later(r, Age)] = LevelIn(seen)[r]
  <2> SUFFICES ASSUME NEW r \in U PROVE LevelIn(Current)[Later(r, Age)] = LevelIn(seen)[r]
    OBVIOUS
  <2>1. r \in BagToSet(seen.rows) /\ r \in Row /\ Later(r, Age) \in Row
    BY WaitingRows
  <2>2. LevelNow(Current, Later(r, Age), now) = LevelNow(seen, r, now)
    BY <2>1, RowKeepsUp
  <2> QED BY <2>1, <2>2 DEF LevelIn
<1>5. /\ Levelled(Current, i) = Im(LevelIn(Current), Restrict(village, T))
      /\ Levelled(seen, i) = Im(LevelIn(seen), Restrict(seen.rows, U))
  <2>1. Levelled(seen, i) = Im(LevelIn(seen), Restrict(seen.rows, U))
    BY WaitingRows, LevelledIsImage
  <2>2. IsABag(Current.rows) /\ BagToSet(Current.rows) \subseteq Row
    BY <1>1, WaitingRows
  <2>3. Levelled(Current, i)
          = Im(LevelIn(Current), Restrict(Current.rows, {r \in BagToSet(Current.rows) : r[1] = i}))
    BY <2>2, LevelledIsImage
  <2> QED BY <1>1, <2>1, <2>3
<1> HIDE DEF T, U
<1>6. Im(LevelIn(Current), Restrict(village, T)) = Im(LevelIn(seen), Restrict(seen.rows, U))
  BY <1>2, <1>3, <1>4, ImagesKeepUp
<1> QED BY <1>5, <1>6

\* and so are the statistics.
LEMMA StatsKeepUp ==
  ASSUME Waiting PROVE Stats(seen, now) = Stats(Current, now)
<1> DEFINE Shown(e) == {i \in {r[1] : r \in BagToSet(e.rows)} \cap Leveled :
                          GroupOf[i] \in Groups(VillageOf[i])}
           Of(e) == {[i |-> i, top |-> Reachable(i, GatesAt(e, now)), at |-> Levelled(e, i)] : i \in Shown(e)}
           All(s) == {ItemStat(x) : x \in s}
<1>1. Stats(seen, now) = All(Of(seen)) /\ Stats(Current, now) = All(Of(Current))
  BY DEF Stats, Levelled
<1>2. Shown(seen) = Shown(Current)
  BY OwnedKeepsUp
<1>3. \A i : Levelled(seen, i) = Levelled(Current, i)
  BY LevelsKeepUp
<1> HIDE DEF Shown
<1>4. Of(seen) = Of(Current)
  BY <1>2, <1>3, GatesKeepUp
<1> HIDE DEF Of, All
<1> QED BY <1>1, <1>4

\* the jobs under way,
JobOf(e) == [r \in Row |-> <<r[1], r[2], e.at + r[3]>>]
Ahead(e) == {r \in BagToSet(e.rows) : r[3] > 0 /\ r[1] \in Leveled /\ e.at + r[3] > now}

\* The running jobs, as an image,
LEMMA RunningIsImage ==
  ASSUME NEW e, IsABag(e.rows), BagToSet(e.rows) \subseteq Row
  PROVE  Running(e, now) = Im(JobOf(e), Restrict(e.rows, Ahead(e)))
<1> DEFINE T == {r \in BagToSet(e.rows) : r[3] > 0 /\ r[1] \in Leveled}
           C == Restrict(e.rows, T)
           J == Im(JobOf(e), C)
           W == {j \in BagToSet(J) : j[3] > now}
<1>1. BagToSet(C) = T
  BY DEF Restrict, BagToSet
<1>2. \A r \in T : JobOf(e)[r] = <<r[1], r[2], e.at + r[3]>>
  BY DEF JobOf
<1>3. Jobs(e) = J
  <2> HIDE DEF T
  <2>1. {JobOf(e)[r] : r \in T} = {<<r[1], r[2], e.at + r[3]>> : r \in T}
    BY <1>2
  <2>2. \A y : {r \in T : <<r[1], r[2], e.at + r[3]>> = y} = {r \in T : JobOf(e)[r] = y}
    BY <1>2
  <2>3. Jobs(e) = Image(LAMBDA r : <<r[1], r[2], e.at + r[3]>>, C)
    BY DEF Jobs, T
  <2> HIDE DEF C
  <2> QED BY <1>1, <2>1, <2>2, <2>3 DEF Image, Im
<1>4. Running(e, now) = Restrict(J, W)
  BY <1>3 DEF Running
<1>5. Finite(e.rows) /\ T \in SUBSET BagToSet(e.rows)
  BY RowsAreFinite
<1>6. BagToSet(J) = {JobOf(e)[r] : r \in T}
  <2> HIDE DEF T
  <2> QED BY <1>5, ImageOfPart
<1>7. W \in SUBSET BagToSet(J)
  OBVIOUS
<1> HIDE DEF W
<1>8. Restrict(J, W) = Im(JobOf(e), Restrict(e.rows, {r \in T : JobOf(e)[r] \in W}))
  <2> HIDE DEF T
  <2> QED BY <1>5, <1>7, ImageOfPart
<1>9. {r \in T : JobOf(e)[r] \in W} = Ahead(e)
  <2>1. ASSUME NEW r \in T PROVE JobOf(e)[r] \in W <=> e.at + r[3] > now
    <3>1. JobOf(e)[r] \in BagToSet(J)
      BY <1>6
    <3>2. JobOf(e)[r][3] = e.at + r[3]
      BY <1>2
    <3> HIDE DEF T, J
    <3> QED BY <3>1, <3>2 DEF W
  <2> QED BY <2>1 DEF Ahead
<1> QED BY <1>4, <1>8, <1>9

\* are those of a fresh export.
LEMMA RunningKeepsUp ==
  ASSUME Waiting PROVE Running(seen, now) = Running(Current, now)
<1>1. Current.rows = village /\ Current.at = now
  BY DEF Current
<1>2. ASSUME NEW r \in BagToSet(seen.rows)
      PROVE  /\ Later(r, Age) \in Ahead(Current) <=> r \in Ahead(seen)
             /\ r \in Ahead(seen) => JobOf(Current)[Later(r, Age)] = JobOf(seen)[r]
  <2> DEFINE q == Later(r, Age)
  <2>1. q \in BagToSet(village) /\ q \in Row /\ r \in Row /\ q[3] \in Nat /\ r[3] \in Nat
        /\ Age \in Nat /\ now \in Nat
    BY WaitingRows, RowParts
  <2>2. /\ q[1] = r[1] /\ (q[3] > 0 <=> r[3] > Age) /\ (seen.at + r[3] > now <=> r[3] > Age)
        /\ q[3] > 0 => q[2] = r[2] /\ now + q[3] = seen.at + r[3]
    BY RowKeepsUp
  <2> HIDE DEF q
  <2>3. q \in Ahead(Current) <=> q[3] > 0 /\ r[1] \in Leveled
    BY <1>1, <2>1, <2>2 DEF Ahead
  <2>4. r \in Ahead(seen) <=> r[3] > Age /\ r[1] \in Leveled
    BY <2>1, <2>2 DEF Ahead
  <2>5. JobOf(Current)[q] = <<q[1], q[2], now + q[3]>> /\ JobOf(seen)[r] = <<r[1], r[2], seen.at + r[3]>>
    BY <1>1, <2>1 DEF JobOf
  <2> QED BY <2>2, <2>3, <2>4, <2>5 DEF q
<1>3. Ahead(Current) \in SUBSET BagToSet(village) /\ Ahead(seen) \in SUBSET BagToSet(seen.rows)
  BY <1>1 DEF Ahead
<1>4. /\ Running(Current, now) = Im(JobOf(Current), Restrict(village, Ahead(Current)))
      /\ Running(seen, now) = Im(JobOf(seen), Restrict(seen.rows, Ahead(seen)))
  BY <1>1, WaitingRows, RunningIsImage
<1>5. \A r \in Ahead(seen) : JobOf(Current)[Later(r, Age)] = JobOf(seen)[r]
  BY <1>2, <1>3
<1>6. Im(JobOf(Current), Restrict(village, Ahead(Current))) = Im(JobOf(seen), Restrict(seen.rows, Ahead(seen)))
  BY <1>2, <1>3, <1>5, ImagesKeepUp
<1> QED BY <1>4, <1>6

\* and the halls and the lanes: the whole report.
LEMMA HallsKeepUp ==
  ASSUME Waiting, NEW g PROVE Halls(seen, g) = Halls(Current, g)
<1>1. \A i : Owned(seen, i) = Owned(Current, i)
  BY OwnedKeepsUp
<1>2. ASSUME NEW v, NEW n PROVE Missing(seen, v, n) = Missing(Current, v, n)
  <2> DEFINE Short(e) == {i \in Known : Levels(i) # <<>> /\ Allowed[v][n][i] > 0
                                         /\ Owned(e, i) < Allowed[v][n][i]}
  <2>1. \A i : i \in Short(seen) <=> i \in Short(Current)
    BY <1>1
  <2>1a. Short(seen) = Short(Current)
    <3> HIDE DEF Short
    <3>1. Short(seen) \subseteq Short(Current) /\ Short(Current) \subseteq Short(seen)
      BY <2>1
    <3> QED BY <3>1
  <2>2. \A e : Missing(e, v, n) = [i \in Short(e) |-> Allowed[v][n][i] - Owned(e, i)]
    BY DEF Missing
  <2> HIDE DEF Short
  <2> QED BY <1>1, <2>1a, <2>2
<1>3. ASSUME NEW v PROVE HallPreview(seen, g, v) = HallPreview(Current, g, v)
  <2> DEFINE Helped(e) == {i \in Leveled \cap Known :
                             /\ VillageOf[i] = v /\ Owned(e, i) > 0
                             /\ Reachable(i, Raised(g, v)) > Reachable(i, g)}
  <2>1. Helped(seen) = Helped(Current)
    BY <1>1
  <2> QED BY <2>1, Zenon DEF HallPreview
<1> QED BY <1>2, <1>3 DEF Halls

\* All parts of the report together.
LEMMA ReportHolds ==
  ASSUME TypeOK, WaitingIsAging PROVE ReportKeepsUp
<1> SUFFICES ASSUME Waited PROVE Report(seen, now) = Report(Current, now)
  BY DEF ReportKeepsUp
<1>1. Waiting
  BY DEF Waiting
<1>2. Panels(Stats(seen, now)) = Panels(Stats(Current, now))
  BY <1>1, StatsKeepUp
<1>3. Halls(seen, GatesAt(seen, now)) = Halls(Current, GatesAt(Current, now))
  BY <1>1, GatesKeepUp, HallsKeepUp
<1>4. Running(seen, now) = Running(Current, now)
  BY <1>1, RunningKeepsUp
<1>5. \A jobs : LanesOf(seen, jobs) = LanesOf(Current, jobs)
  BY <1>1, OwnedKeepsUp DEF LanesOf
<1>6. \A i : Owned(seen, i) = Owned(Current, i)
  BY <1>1, OwnedKeepsUp
<1> QED BY <1>2, <1>3, <1>4, <1>5, <1>6 DEF Report

\* However old the export is, its report is the one a fresh export would get,
\* for every village, catalog and wait.
THEOREM ReportIsCurrent == Spec => []ReportKeepsUp
<1>1. Init => TypeOK /\ Landable /\ WaitingIsAging
  BY InitTyped, InitWaits
<1>2. TypeOK /\ Landable /\ WaitingIsAging /\ [Next]_vars => (TypeOK /\ Landable /\ WaitingIsAging)'
  BY NextTyped, NextWaits
<1>3. TypeOK /\ Landable /\ WaitingIsAging => ReportKeepsUp
  BY ReportHolds
<1> QED BY <1>1, <1>2, <1>3, PTL DEF Spec

-----------------------------------------------------------------------------
(* Levels were allowed.                                                    *)

\* The least of some numbers,
LEMMA LeastNat ==
  ASSUME NEW S \in SUBSET Nat, S # {}
  PROVE  \E n \in S : \A m \in S : n <= m
<1>1. PICK n \in S : \A m \in S : ~(<<m, n>> \in OpToRel(<, Nat))
  BY WFMin, NatLessThanWellFounded
<1>2. ASSUME NEW m \in S PROVE n <= m
  <2>1. ~(m < n)
    BY <1>1 DEF OpToRel
  <2>2. m \in Nat /\ n \in Nat
    OBVIOUS
  <2> QED BY <2>1, <2>2
<1> QED BY <1>2

\* and the greatest of bounded ones, which Min and Max pick.
LEMMA Greatest ==
  ASSUME NEW N \in Nat, NEW S \in SUBSET (0..N), S # {}
  PROVE  /\ Max(S) \in S /\ \A m \in S : m <= Max(S)
         /\ Min(S) \in S /\ \A m \in S : Min(S) <= m
<1> DEFINE R == {N - m : m \in S}
<1>1. R \in SUBSET Nat /\ R # {}
  <2>1. ASSUME NEW k \in R PROVE k \in Nat
    <3>1. PICK m \in S : k = N - m
      OBVIOUS
    <3>2. m \in 0..N
      OBVIOUS
    <3> QED BY <3>1, <3>2
  <2>2. PICK m \in S : TRUE
    OBVIOUS
  <2>3. N - m \in R
    OBVIOUS
  <2> QED BY <2>1, <2>3
<1>2. PICK k \in R : \A m \in R : k <= m
  <2> HIDE DEF R
  <2> QED BY <1>1, LeastNat
<1>3. PICK n \in S : k = N - n
  BY <1>2
<1>4. \A m \in S : n >= m
  <2> SUFFICES ASSUME NEW m \in S PROVE n >= m
    OBVIOUS
  <2>1. N - m \in R
    OBVIOUS
  <2>2. k <= N - m
    BY <1>2, <2>1
  <2>3. n \in Nat /\ m \in Nat /\ n <= N /\ m <= N
    OBVIOUS
  <2> QED BY <1>3, <2>2, <2>3
<1>5. Max(S) \in S /\ \A m \in S : Max(S) >= m
  BY <1>4 DEF Max
<1>6. S \in SUBSET Nat
  OBVIOUS
<1>7. PICK j \in S : \A m \in S : j <= m
  BY <1>6, LeastNat
<1>8. Min(S) \in S /\ \A m \in S : Min(S) =< m
  BY <1>7 DEF Min
<1>9. \A m \in S : m \in Nat
  OBVIOUS
<1> QED BY <1>5, <1>8, <1>9

\* The level of a building: its highest copy's.
LEMMA BuiltIsHighest ==
  ASSUME NEW B, BagToSet(B) \subseteq Row, NEW i
  PROVE  /\ Built(i, B) \in 0..MaxLevel
         /\ \A r \in BagToSet(B) : r[1] = i => r[2] <= Built(i, B)
         /\ Built(i, B) > 0 => \E r \in BagToSet(B) : r[1] = i /\ r[2] = Built(i, B)
<1> DEFINE S == {0} \cup {r[2] : r \in {r \in BagToSet(B) : r[1] = i}}
<1>1. S \in SUBSET (0..MaxLevel) /\ S # {} /\ MaxLevel \in Nat
  BY RowParts, AnalyzeAssumption
<1>2. Built(i, B) = Max(S)
  BY DEF Built
<1> HIDE DEF S
<1>3. Max(S) \in S /\ \A m \in S : m <= Max(S)
  BY <1>1, Greatest
<1> QED BY <1>1, <1>2, <1>3 DEF S

\* It grows with each copy, and what it allows stays allowed.
LEMMA AllowedLater ==
  ASSUME NEW B, BagToSet(B) \subseteq Row, NEW C, BagToSet(C) \subseteq Row,
         \A r \in BagToSet(B) : r[2] > 0 => \E q \in BagToSet(C) : q[1] = r[1] /\ r[2] <= q[2]
  PROVE  /\ \A i : Built(i, B) <= Built(i, C)
         /\ \A i \in Leveled \cap Known : \A l : Allows(i, l, B) => Allows(i, l, C)
<1>1. ASSUME NEW i PROVE Built(i, B) <= Built(i, C)
  <2>1. Built(i, B) \in 0..MaxLevel /\ Built(i, C) \in 0..MaxLevel /\ MaxLevel \in Nat
    BY BuiltIsHighest, AnalyzeAssumption
  <2>2. CASE Built(i, B) > 0
    <3>1. PICK r \in BagToSet(B) : r[1] = i /\ r[2] = Built(i, B)
      BY <2>2, BuiltIsHighest
    <3>2. PICK q \in BagToSet(C) : q[1] = i /\ r[2] <= q[2]
      BY <2>2, <3>1
    <3>3. q[2] <= Built(i, C) /\ q[2] \in Nat
      BY <3>2, BuiltIsHighest, RowParts
    <3> QED BY <2>1, <3>1, <3>2, <3>3
  <2> QED BY <2>1, <2>2
<1>2. ASSUME NEW i \in Leveled \cap Known, NEW l, Allows(i, l, B) PROVE Allows(i, l, C)
  <2>1. l \in DOMAIN Table(i)
    BY <1>2 DEF Allows
  <2>2. ASSUME NEW c \in DOMAIN Table(i)[l].needs
        PROVE  \/ SectionOf[i] = "units2" /\ c = "townhall"
               \/ Built(Id[House(i)[c]], C) >= Table(i)[l].needs[c]
    <3>1. \/ SectionOf[i] = "units2" /\ c = "townhall"
          \/ Built(Id[House(i)[c]], B) >= Table(i)[l].needs[c]
      BY <1>2 DEF Allows
    <3>2. /\ Built(Id[House(i)[c]], B) \in Nat /\ Built(Id[House(i)[c]], C) \in Nat
          /\ Built(Id[House(i)[c]], B) <= Built(Id[House(i)[c]], C)
      BY <1>1, BuiltIsHighest, AnalyzeAssumption
    <3>3. Table(i)[l].needs[c] \in Nat
      BY <2>1, GameAssumption
    <3> QED BY <3>1, <3>2, <3>3
  <2> QED BY <2>1, <2>2 DEF Allows
<1> QED BY <1>1, <1>2

\* Where a row of the next village comes from: a row that stayed, landed, came
\* nearer to landing or was sent, or a step up that was allowed.
Stayed(r, q) ==
  /\ r[1] = q[1] /\ Heading(r) = Heading(q)
  /\ Climbing(q) => Climbing(r) /\ r[2] = q[2]
  /\ q[2] = r[2] \/ (Climbing(r) /\ q[2] = r[2] + 1)
Stepped(l, q) ==
  /\ q[1] \in Known /\ Allows(q[1], l + 1, village)
  /\ Heading(q) = l + 1 /\ q[2] \in {l, l + 1}
  /\ \/ \E r \in BagToSet(village) : r[1] = q[1] /\ r[2] = l
     \/ l = 0 /\ q[1] \in Unbuilt
RowsFollow ==
  /\ \A r \in BagToSet(village) : r[2] > 0 =>
       \E q \in BagToSet(village') : q[1] = r[1] /\ r[2] <= q[2]
  /\ \A q \in BagToSet(village') : q[1] \in Leveled =>
       \/ \E r \in BagToSet(village) : Stayed(r, q)
       \/ \E l \in Nat : Stepped(l, q)

\* A row that nothing happened to.
LEMMA StaysItself == ASSUME NEW r PROVE Stayed(r, r)
BY DEF Stayed

\* A tick ages every row.
LEMMA TickFollows == ASSUME TypeOK, Tick PROVE RowsFollow
<1>1. BagToSet(village') = {Aged(r) : r \in BagToSet(village)} /\ BagToSet(village) \subseteq Row
  BY VillageAges DEF TypeOK
<1>2. ASSUME NEW r \in BagToSet(village) PROVE Stayed(r, Aged(r)) /\ r[2] <= Aged(r)[2]
  <2>1. /\ r[3] = 0 => Aged(r) = r
        /\ Aged(r)[1] = r[1]
        /\ r[3] = 1 => Aged(r)[2] = (IF Helper(r[1]) THEN r[2] ELSE r[2] + 1) /\ Aged(r)[3] = 0
        /\ r[3] # 1 => Aged(r)[2] = r[2]
        /\ r[3] > 1 => Aged(r)[3] = r[3] - 1
    BY <1>1, AgedRow
  <2>2. r[2] \in Nat /\ r[3] \in Nat
    BY <1>1, RowParts
  <2>3. Climbing(r) <=> r[3] > 0 /\ ~Helper(r[1])
    BY DEF Climbing
  <2>4. Climbing(Aged(r)) <=> Aged(r)[3] > 0 /\ ~Helper(r[1])
    BY <2>1 DEF Climbing
  <2>5. CASE r[3] = 0
    BY <2>1, <2>2, <2>5, StaysItself
  <2>6. CASE r[3] = 1
    BY <2>1, <2>2, <2>3, <2>4, <2>6 DEF Stayed, Heading
  <2>7. CASE r[3] > 1
    <3>1. Aged(r)[3] > 0 /\ Aged(r)[2] = r[2] /\ (Climbing(Aged(r)) <=> Climbing(r))
      BY <2>1, <2>2, <2>3, <2>4, <2>7
    <3> QED BY <2>1, <2>2, <3>1 DEF Stayed, Heading
  <2> QED BY <2>2, <2>5, <2>6, <2>7
<1>3. \A r \in BagToSet(village) : Aged(r)[1] = r[1]
  BY <1>1, AgedRow
<1> QED BY <1>1, <1>2, <1>3 DEF RowsFollow

\* A step up from level l, of a copy there or a new one.
LEMMA ClimbFollows ==
  ASSUME TypeOK, NEW i \in Leveled \cap Known, NEW l \in Nat, Allows(i, l + 1, village),
         NEW others, Finite(others), BagToSet(others) \subseteq BagToSet(village),
         Climb(i, l, others),
         \/ \E r \in BagToSet(village) : r[1] = i /\ r[2] = l /\ BagToSet(village) \subseteq BagToSet(others) \cup {r}
         \/ l = 0 /\ i \in Unbuilt /\ others = village
  PROVE  RowsFollow
<1> DEFINE c == Climbed(i, l)
<1>1. l + 1 \in DOMAIN Table(i)
  BY DEF Allows
<1>2. BagToSet(village') = BagToSet(others) \cup {c}
  <2>1. BagToSet(others) \subseteq Row
    BY DEF TypeOK
  <2> QED BY <1>1, <2>1, ClimbDoes
<1>3. /\ Asked(i, l + 1).seconds = 0 => c = <<i, l + 1, 0>>
      /\ Asked(i, l + 1).seconds # 0 => c = <<i, l, Asked(i, l + 1).seconds>>
                                        /\ Asked(i, l + 1).seconds \in 1..MaxTimer
      /\ Helper(i) => Asked(i, l + 1).seconds = 0
  BY <1>1, ClimbedRow, AskedIsNat
<1> HIDE DEF c
<1>4. c[1] = i /\ c[2] \in {l, l + 1} /\ Heading(c) = l + 1
  <2>1. CASE Asked(i, l + 1).seconds = 0
    <3>1. c[1] = i /\ c[2] = l + 1 /\ c[3] = 0
      BY <1>3, <2>1
    <3> QED BY <3>1 DEF Heading, Climbing
  <2>2. CASE Asked(i, l + 1).seconds # 0
    <3>1. c[1] = i /\ c[2] = l /\ c[3] > 0 /\ ~Helper(i)
      BY <1>3, <2>2
    <3> QED BY <3>1 DEF Heading, Climbing
  <2> QED BY <2>1, <2>2
<1>5. Stepped(l, c)
  BY <1>4 DEF Stepped
<1>6. \A q \in BagToSet(others) : Stayed(q, q)
  BY StaysItself
<1>7. ASSUME NEW r \in BagToSet(village)
      PROVE  \E q \in BagToSet(village') : q[1] = r[1] /\ r[2] <= q[2]
  <2>1. r[2] \in Nat
    BY RowParts DEF TypeOK
  <2>2. CASE r \in BagToSet(others)
    BY <1>2, <2>1, <2>2
  <2>3. CASE r \notin BagToSet(others)
    <3>1. r[1] = i /\ r[2] = l
      BY <2>3
    <3>2. c[1] = r[1] /\ r[2] <= c[2]
      BY <1>4, <2>1, <3>1
    <3> QED BY <1>2, <3>2
  <2> QED BY <2>2, <2>3
<1>8. \A q \in BagToSet(village') : \/ \E r \in BagToSet(village) : Stayed(r, q)
                                    \/ \E k \in Nat : Stepped(k, q)
  BY <1>2, <1>5, <1>6
<1> QED BY <1>7, <1>8 DEF RowsFollow

\* After any step every row comes from one before it or was begun.
LEMMA NextFollows == ASSUME TypeOK, Landable, [Next]_vars PROVE RowsFollow
<1>0. Finite(village) /\ BagToSet(village) \subseteq Row /\ \A r \in BagToSet(village) : r[2] \in Nat
  BY RowsAreFinite, RowParts DEF TypeOK
<1>1. CASE Tick
  BY <1>1, TickFollows
<1>2. ASSUME NEW i \in Unbuilt, Build(i) PROVE RowsFollow
  <2>1. i \in Leveled \cap Known /\ Climb(i, 0, village) /\ Allows(i, 0 + 1, village) /\ 0 \in Nat
    BY <1>2 DEF Build, Unbuilt
  <2> QED BY <1>0, <2>1, ClimbFollows
<1>3. ASSUME NEW r \in BagToSet(village), Upgrade(r) PROVE RowsFollow
  <2> DEFINE others == BagRemove(village, r)
  <2>1. /\ r[1] \in Leveled \cap Known /\ r[2] \in Nat /\ Finite(others)
        /\ BagToSet(others) \subseteq BagToSet(village) /\ Climb(r[1], r[2], others)
    BY <1>3, UpgradeDoes
  <2>2. Allows(r[1], r[2] + 1, village)
    BY <1>3 DEF Upgrade
  <2>3. BagToSet(village) \subseteq BagToSet(others) \cup {r}
    <3>1. ASSUME NEW q \in BagToSet(village), q # r PROVE q \in BagToSet(others)
      <4>1. Copies(q, others) = Copies(q, village) - 0
        BY <1>0, <3>1, RemovedCopy
      <4>2. Copies(q, village) \in Nat /\ Copies(q, village) > 0
        BY <1>0, CopiesIsNat DEF Finite
      <4> QED BY <2>1, <4>1, <4>2, CopiesIsNat DEF Finite
    <3> QED BY <3>1
  <2> HIDE DEF others
  <2> QED BY <2>1, <2>2, <2>3, ClimbFollows
<1>4. ASSUME NEW i \in Items, Helper(i) /\ Send(i) PROVE RowsFollow
  <2>1. PICK r \in BagToSet(village) :
          /\ r[1] = i /\ r[3] = 0
          /\ village' = BagAdd(BagRemove(village, r), <<i, r[2], MaxTimer>>)
    BY <1>4 DEF Send
  <2> DEFINE others == BagRemove(village, r)
             s == <<i, r[2], MaxTimer>>
  <2>2. /\ Finite(others) /\ BagToSet(others) \subseteq BagToSet(village)
        /\ BagToSet(village') = BagToSet(others) \cup {s}
    BY <1>0, <2>1, RemovedCopy, AddedCopy
  <2>3. BagToSet(village) \subseteq BagToSet(others) \cup {r}
    <3>1. ASSUME NEW q \in BagToSet(village), q # r PROVE q \in BagToSet(others)
      <4>1. Copies(q, others) = Copies(q, village) - 0
        BY <1>0, <3>1, RemovedCopy
      <4>2. Copies(q, village) \in Nat /\ Copies(q, village) > 0
        BY <1>0, CopiesIsNat DEF Finite
      <4> QED BY <2>2, <4>1, <4>2, CopiesIsNat DEF Finite
    <3> QED BY <3>1
  <2>4. s[1] = i /\ s[2] = r[2]
    OBVIOUS
  <2>5. Stayed(r, s)
    <3>1. ~Climbing(s) /\ ~Climbing(r)
      BY <1>4, <2>1, <2>4 DEF Climbing
    <3> QED BY <2>1, <2>4, <3>1 DEF Stayed, Heading
  <2> HIDE DEF others, s
  <2>6. \A q \in BagToSet(village') : \E p \in BagToSet(village) : Stayed(p, q)
    BY <2>2, <2>5, StaysItself
  <2>7. \A p \in BagToSet(village) : \E q \in BagToSet(village') : q[1] = p[1] /\ p[2] <= q[2]
    BY <1>0, <2>1, <2>2, <2>3, <2>4
  <2> QED BY <2>6, <2>7 DEF RowsFollow
<1>5. ASSUME NEW i \in Items \ Leveled, Clear(i) \/ Grow(i) PROVE RowsFollow
  <2> DEFINE o == <<i, 0, 0>>
  <2>1. /\ BagToSet(village') \subseteq BagToSet(village) \cup {o}
        /\ BagToSet(village) \subseteq BagToSet(village') \cup {o}
    <3>1. CASE Clear(i)
      <4>1. o \in BagToSet(village) /\ village' = BagRemove(village, o)
        BY <3>1 DEF Clear
      <4>2. Finite(village') /\ BagToSet(village') \subseteq BagToSet(village)
        BY <1>0, <4>1, RemovedCopy
      <4>3. ASSUME NEW q \in BagToSet(village), q # o PROVE q \in BagToSet(village')
        <5>1. Copies(q, village') = Copies(q, village) - 0
          BY <1>0, <4>1, <4>3, RemovedCopy
        <5>2. Copies(q, village) \in Nat /\ Copies(q, village) > 0
          BY <1>0, CopiesIsNat DEF Finite
        <5> QED BY <4>2, <5>1, <5>2, CopiesIsNat DEF Finite
      <4> QED BY <4>2, <4>3
    <3>2. CASE Grow(i)
      BY <3>2, GrowDoes
    <3> QED BY <1>5, <3>1, <3>2
  <2>2. o[1] = i /\ o[2] = 0
    OBVIOUS
  <2> HIDE DEF o
  <2>3. \A q \in BagToSet(village') : q[1] \in Leveled => \E p \in BagToSet(village) : Stayed(p, q)
    BY <2>1, <2>2, StaysItself
  <2>4. \A p \in BagToSet(village) : p[2] > 0 =>
          \E q \in BagToSet(village') : q[1] = p[1] /\ p[2] <= q[2]
    BY <1>0, <2>1, <2>2
  <2> QED BY <2>3, <2>4 DEF RowsFollow
<1>6. CASE UNCHANGED village
  BY <1>0, <1>6, StaysItself DEF RowsFollow
<1>7. CASE Capture
  BY <1>6, <1>7 DEF Capture
<1>8. CASE UNCHANGED vars
  BY <1>6, <1>8 DEF vars
<1> QED BY <1>1, <1>2, <1>3, <1>4, <1>5, <1>7, <1>8 DEF Next

\* A copy has a level or is to have one, and each up to it was allowed.
LevelsAllowed ==
  \A r \in BagToSet(village) :
    /\ r[1] \in Leveled => Heading(r) > 0
    /\ r[1] \in Leveled \cap Known =>
         \A l \in DOMAIN Table(r[1]) : l <= Heading(r) => Allows(r[1], l, village)

\* Where there is a hall it has a level, and one being upgraded has a next.
HallsStand ==
  \A v \in Villages : \A r \in BagToSet(village) :
    r[1] = Id[HallOf[v]] =>
      /\ Built(r[1], village) > 0
      /\ Climbing(r) => r[2] < Len(Table(r[1]))

Earned == LevelsAllowed /\ HallsStand

\* A hall grants nothing before it stands.
LEMMA HallGrants ==
  ASSUME TypeOK, NEW i \in Unbuilt
  PROVE  Built(Id[HallOf[VillageOf[i]]], village) > 0
<1> DEFINE hall == Id[HallOf[VillageOf[i]]]
           n == Len(Table(hall))
           f == [h \in 1..Min({0, n}) |-> Gives(Table(hall)[h].unlocks, i)]
<1>1. SUFFICES ASSUME Built(hall, village) = 0 PROVE FALSE
  <2>1. Built(hall, village) \in Nat
    BY BuiltIsHighest, AnalyzeAssumption DEF TypeOK
  <2> QED BY <1>1, <2>1
<1>2. VillageOf[i] \in Villages
  <2>1. i \in Leveled
    BY DEF Unbuilt
  <2> QED BY <2>1 DEF VillageOf, Leveled, Sections, Villages
<1>3. n \in Nat
  <2>1. hall \in Leveled \cap Known
    BY <1>2, HallAssumption
  <2> QED BY <2>1, GameAssumption, AnalyzeAssumption
<1>4. Min({0, n}) = 0
  <2> HIDE DEF n
  <2>1. {0, n} \in SUBSET (0..n) /\ {0, n} # {}
    BY <1>3
  <2>2. Min({0, n}) \in {0, n} /\ \A m \in {0, n} : Min({0, n}) <= m
    BY <1>3, <2>1, Greatest
  <2> QED BY <1>3, <2>2
<1>5. Granted(i) = SumFunction(f)
  BY <1>1 DEF Granted
<1>6. f \in [{} -> Nat]
  <2>1. 1..0 = {}
    OBVIOUS
  <2> QED BY <1>4, <2>1
<1>7. SumFunction(f) = 0
  <2> HIDE DEF f
  <2> QED BY <1>6, FS_EmptySet, SumTakes
<1>8. Owned(Current, i) \in Nat
  <2>1. Current.rows = village
    BY DEF Current
  <2>2. Owned(Current, i) = Tally(AllOf(i), village)
    BY <2>1, OwnedIsTally DEF TypeOK
  <2> QED BY <2>2, TallyTakes, RowsAreFinite DEF TypeOK
<1> QED BY <1>5, <1>7, <1>8 DEF Unbuilt

\* The levels of the start are allowed,
LEMMA InitEarned == ASSUME TypeOK, Init PROVE Earned
<1>1. village \in Starts /\ BagToSet(village) \subseteq Row
  BY DEF Init, TypeOK
<1>2. LevelsAllowed
  BY <1>1, StartsAssumption DEF LevelsAllowed
<1>3. ASSUME NEW v \in Villages, NEW r \in BagToSet(village), r[1] = Id[HallOf[v]]
      PROVE  Built(r[1], village) > 0 /\ (Climbing(r) => r[2] < Len(Table(r[1])))
  <2>1. r[2] > 0 /\ (Climbing(r) => r[2] < Len(Table(r[1])))
    BY <1>1, <1>3, HallAssumption
  <2>2. r[2] <= Built(r[1], village) /\ Built(r[1], village) \in Nat /\ r[2] \in Nat
    BY <1>1, BuiltIsHighest, RowParts, AnalyzeAssumption
  <2> QED BY <2>1, <2>2
<1> QED BY <1>2, <1>3 DEF HallsStand, Earned

\* and no step gains one that is not.
LEMMA NextEarned == ASSUME TypeOK, Landable, Earned, [Next]_vars PROVE Earned'
<1>1. RowsFollow /\ TypeOK' /\ BagToSet(village) \subseteq Row /\ BagToSet(village') \subseteq Row
  <2>1. RowsFollow /\ TypeOK'
    BY NextFollows, NextTyped
  <2> QED BY <2>1 DEF TypeOK
<1>2. /\ \A i : Built(i, village) <= Built(i, village')
      /\ \A i \in Leveled \cap Known : \A l : Allows(i, l, village) => Allows(i, l, village')
  BY <1>1, AllowedLater DEF RowsFollow
<1>3. ASSUME NEW q \in BagToSet(village'), q[1] \in Leveled
      PROVE  Heading(q) > 0
  <2>1. CASE \E r \in BagToSet(village) : Stayed(r, q)
    BY <1>3, <2>1 DEF Stayed, Earned, LevelsAllowed
  <2>2. CASE \E l \in Nat : Stepped(l, q)
    BY <2>2 DEF Stepped
  <2> QED BY <1>1, <1>3, <2>1, <2>2 DEF RowsFollow
<1>4. ASSUME NEW q \in BagToSet(village'), q[1] \in Leveled \cap Known,
             NEW l \in DOMAIN Table(q[1]), l <= Heading(q)
      PROVE  Allows(q[1], l, village')
  <2>1. CASE \E r \in BagToSet(village) : Stayed(r, q)
    <3>1. PICK r \in BagToSet(village) : r[1] = q[1] /\ Heading(r) = Heading(q)
      BY <2>1 DEF Stayed
    <3>2. Allows(q[1], l, village)
      BY <1>4, <3>1 DEF Earned, LevelsAllowed
    <3> QED BY <1>2, <1>4, <3>2
  <2>2. CASE \E k \in Nat : Stepped(k, q)
    <3>1. PICK k \in Nat :
            /\ Allows(q[1], k + 1, village) /\ Heading(q) = k + 1
            /\ \/ \E r \in BagToSet(village) : r[1] = q[1] /\ r[2] = k
               \/ k = 0
      BY <2>2 DEF Stepped
    <3>2. l \in Nat /\ l > 0
      BY <1>4, GameAssumption
    <3>3. CASE l = k + 1
      BY <1>2, <1>4, <3>1, <3>3
    <3>4. CASE l <= k
      <4>1. PICK r \in BagToSet(village) : r[1] = q[1] /\ r[2] = k
        BY <3>1, <3>2, <3>4
      <4>2. l <= Heading(r)
        BY <3>4, <4>1, <3>2 DEF Heading
      <4>3. Allows(q[1], l, village)
        BY <1>4, <4>1, <4>2 DEF Earned, LevelsAllowed
      <4> QED BY <1>2, <1>4, <4>3
    <3> QED BY <1>4, <3>1, <3>2, <3>3, <3>4
  <2> QED BY <1>1, <1>4, <2>1, <2>2 DEF RowsFollow
<1>5. ASSUME NEW v \in Villages, NEW q \in BagToSet(village'), q[1] = Id[HallOf[v]]
      PROVE  Built(q[1], village') > 0 /\ (Climbing(q) => q[2] < Len(Table(q[1])))
  <2> DEFINE h == q[1]
  <2>1. h \in Leveled \cap Known /\ VillageOf[h] = v
    BY <1>5, HallAssumption
  <2>2. Built(h, village) \in Nat /\ Built(h, village') \in Nat
    BY <1>1, BuiltIsHighest, AnalyzeAssumption
  <2>3. CASE \E r \in BagToSet(village) : Stayed(r, q)
    <3>1. PICK r \in BagToSet(village) : Stayed(r, q)
      BY <2>3
    <3>2. Built(h, village) > 0 /\ (Climbing(r) => r[2] < Len(Table(h)))
      BY <1>5, <3>1 DEF Earned, HallsStand, Stayed
    <3> QED BY <1>2, <2>2, <3>1, <3>2 DEF Stayed
  <2>4. CASE \E l \in Nat : Stepped(l, q)
    <3>1. PICK l \in Nat : Stepped(l, q)
      BY <2>4
    <3>2. Built(h, village) > 0
      <4>1. CASE \E r \in BagToSet(village) : r[1] = h
        BY <1>5, <4>1 DEF Earned, HallsStand
      <4>2. CASE h \in Unbuilt
        BY <1>5, <2>1, <4>2, HallGrants
      <4> QED BY <3>1, <4>1, <4>2 DEF Stepped
    <3>3. l + 1 \in DOMAIN Table(h) /\ DOMAIN Table(h) = 1..Len(Table(h)) /\ Len(Table(h)) \in Nat
      BY <2>1, <3>1, GameAssumption, AnalyzeAssumption DEF Stepped, Allows
    <3>4. Climbing(q) => q[2] = l
      <4>1. Climbing(q) => q[2] + 1 = l + 1 /\ q[2] \in {l, l + 1}
        BY <3>1 DEF Stepped, Heading
      <4> QED BY <4>1
    <3> QED BY <1>2, <2>2, <3>2, <3>3, <3>4
  <2> QED BY <1>1, <2>1, <2>3, <2>4 DEF RowsFollow
<1> QED BY <1>3, <1>4, <1>5 DEF Earned, LevelsAllowed, HallsStand

-----------------------------------------------------------------------------
(* The catalog and the tables it is made from.                             *)

\* The catalog has the levels of the tables.
LEMMA CatalogIsTables ==
  ASSUME NEW i \in Leveled \cap Known
  PROVE  /\ Catalog[i] = Convert(Listing(i).category, Listing(i).raw)
         /\ DOMAIN Levels(i) = 1..Len(Table(i)) /\ DOMAIN Table(i) = 1..Len(Table(i))
         /\ Len(Table(i)) \in Nat /\ Len(Levels(i)) = Len(Table(i))
         /\ \A l \in DOMAIN Table(i) :
              Levels(i)[l] = LevelFor(Listing(i).category, Listing(i).raw.village, Table(i)[l])
<1>1. Listing(i).category \in CategoriesOf[SectionOf[i]] /\ SectionOf[i] \in DOMAIN Sections
  BY SectionAssumption DEF Leveled
<1>2. Listing(i).category \in {"buildings", "traps", "troops", "spells", "heroes", "pets",
                               "equipment", "helpers", "guardians"}
  BY <1>1 DEF CategoriesOf, Sections
<1>3. {"buildings", "traps", "troops", "spells", "heroes", "pets",
       "equipment", "helpers", "guardians"} \subseteq ToSet(LeveledCategories)
  BY DEF ToSet, LeveledCategories
<1>4. Catalog[i] = Convert(Listing(i).category, Listing(i).raw)
  <2>1. i \in DOMAIN Catalog
    BY DEF Known
  <2>2. Catalog[i] = Entry(Listing(i))
    BY <2>1 DEF Catalog, Merged, Listing
  <2> QED BY <1>2, <1>3, <2>2 DEF Entry
<1>5. Table(i) = Listing(i).raw.levels
  BY DEF Table, RawOf
<1>6. /\ Levels(i) = [l \in DOMAIN Table(i) |->
                        LevelFor(Listing(i).category, Listing(i).raw.village, Table(i)[l])]
  BY <1>4, <1>5 DEF Levels, Convert
<1>7. DOMAIN Table(i) = 1..Len(Table(i)) /\ Len(Table(i)) \in Nat
  BY GameAssumption, AnalyzeAssumption
<1>8. Len(Levels(i)) = Len(Table(i))
  BY <1>6, <1>7
<1> QED BY <1>4, <1>6, <1>7, <1>8

\* A gate of the village now is its highest building.
LEMMA GatesAreBuilt ==
  ASSUME TypeOK
  PROVE  /\ \A r \in BagToSet(village) : LevelNow(Current, r, now) = r[2]
         /\ GatesNow = [g \in GateNames |-> Built(Id[g], village)]
<1>1. Current.at = now /\ Current.rows = village /\ now \in Nat
  BY AnalyzeAssumption DEF Current, TypeOK
<1>2. ASSUME NEW r \in BagToSet(village) PROVE LevelNow(Current, r, now) = r[2]
  <2>1. r[3] \in Nat
    BY RowParts DEF TypeOK
  <2>2. ~(r[3] > 0 /\ Current.at + r[3] <= now)
    BY <1>1, <2>1
  <2> QED BY <2>2 DEF LevelNow, Elapsed
<1>3. ASSUME NEW i
      PROVE  {LevelNow(Current, r, now) : r \in {r \in BagToSet(village) : r[1] = i}}
               = {r[2] : r \in {r \in BagToSet(village) : r[1] = i}}
  BY <1>2
<1>4. \A g \in GateNames : Max({0} \cup {LevelNow(Current, r, now) :
                                  r \in {r \in BagToSet(village) : r[1] = Id[g]}})
                             = Built(Id[g], village)
  BY <1>3 DEF Built
<1> QED BY <1>1, <1>2, <1>4 DEF GatesNow, GatesAt

\* A hall's gate rises by a level that has a next, from one that has.
LEMMA HallRises ==
  ASSUME TypeOK, Landable, Earned, [Next]_vars, NEW v \in Villages,
         Built(Id[HallOf[v]], village') = Built(Id[HallOf[v]], village) + 1
  PROVE  Built(Id[HallOf[v]], village) \in 1..(Len(Table(Id[HallOf[v]])) - 1)
<1> DEFINE h == Id[HallOf[v]]
           n == Built(h, village)
<1>1. RowsFollow /\ BagToSet(village) \subseteq Row /\ BagToSet(village') \subseteq Row
  <2>1. RowsFollow /\ TypeOK'
    BY NextFollows, NextTyped
  <2> QED BY <2>1 DEF TypeOK
<1>2. h \in Leveled \cap Known
  BY HallAssumption
<1>3. n \in Nat
  BY <1>1, BuiltIsHighest, AnalyzeAssumption
<1>4. PICK q \in BagToSet(village') : q[1] = h /\ q[2] = n + 1
  <2>1. Built(h, village') > 0
    BY <1>3
  <2> QED BY <1>1, <2>1, BuiltIsHighest
<1> HIDE DEF n
<1>5. \A r \in BagToSet(village) : r[1] = h => r[2] <= n /\ r[2] \in Nat
  BY <1>1, BuiltIsHighest, RowParts DEF n
<1>6. \A r \in BagToSet(village) : r[1] = h => n > 0
  BY DEF Earned, HallsStand, n
<1>7. DOMAIN Table(h) = 1..Len(Table(h)) /\ Len(Table(h)) \in Nat
  BY <1>2, CatalogIsTables
<1>8. CASE \E r \in BagToSet(village) : Stayed(r, q)
  <2>1. PICK r \in BagToSet(village) : Stayed(r, q)
    BY <1>8
  <2>2. r[1] = h /\ Climbing(r) /\ r[2] = n
    BY <1>3, <1>4, <1>5, <2>1 DEF Stayed
  <2>3. r[2] < Len(Table(h))
    BY <2>2 DEF Earned, HallsStand
  <2> QED BY <1>3, <1>6, <1>7, <2>2, <2>3 DEF n
<1>9. CASE \E l \in Nat : Stepped(l, q)
  <2>1. PICK l \in Nat : Stepped(l, q)
    BY <1>9
  <2>2. CASE \E r \in BagToSet(village) : r[1] = h /\ r[2] = l
    <3>1. l <= n /\ n > 0
      BY <1>5, <1>6, <2>2
    <3>2. q[2] = l \/ q[2] = l + 1
      BY <2>1 DEF Stepped
    <3>3. l = n
      BY <1>3, <1>4, <3>1, <3>2
    <3>4. n + 1 \in DOMAIN Table(h)
      BY <1>4, <2>1, <3>3 DEF Stepped, Allows
    <3> QED BY <1>3, <1>7, <3>1, <3>4 DEF n
  <2>3. CASE l = 0 /\ h \in Unbuilt
    <3>1. n > 0
      BY <1>2, <2>3, HallGrants, HallAssumption DEF n
    <3>2. q[2] \in {0, 1}
      BY <2>1, <2>3 DEF Stepped
    <3> QED BY <1>3, <1>4, <3>1, <3>2
  <2> QED BY <1>4, <2>1, <2>2, <2>3 DEF Stepped
<1> QED BY <1>1, <1>2, <1>4, <1>8, <1>9 DEF RowsFollow

\* With one more hall level, what the hall allows is what that level gives more.
LEMMA OneMoreLevel ==
  ASSUME NEW v \in Villages, NEW n \in 1..(Len(Table(Id[HallOf[v]])) - 1), n + 1 \in 0..MaxLevel,
         NEW i \in Items
  PROVE  Allowed[v][n + 1][i] = Allowed[v][n][i] + Gives(Levels(Id[HallOf[v]])[n + 1].unlocks, i)
<1> DEFINE h == Id[HallOf[v]]
           N == Len(Levels(h))
           f == [k \in 1..(n + 1) |-> Gives(Levels(h)[k].unlocks, i)]
           e == [k \in 1..n |-> Gives(Levels(h)[k].unlocks, i)]
<1>1. h \in Leveled \cap Known
  BY HallAssumption
<1>2. N \in Nat /\ n + 1 <= N /\ n \in Nat /\ N = Len(Table(h))
  BY <1>1, CatalogIsTables
<1>3. Min({n + 1, N}) = n + 1 /\ Min({n, N}) = n
  <2> HIDE DEF N
  <2>1. /\ {n, N} \in SUBSET (0..N) /\ {n, N} # {}
        /\ {n + 1, N} \in SUBSET (0..N) /\ {n + 1, N} # {}
    BY <1>2
  <2>2. /\ Min({n + 1, N}) \in {n + 1, N} /\ \A m \in {n + 1, N} : Min({n + 1, N}) <= m
        /\ Min({n, N}) \in {n, N} /\ \A m \in {n, N} : Min({n, N}) <= m
    BY <1>2, <2>1, Greatest
  <2> QED BY <1>2, <2>2
<1>4. n \in 0..MaxLevel
  BY <1>2, AnalyzeAssumption
<1>5. Allowed[v][n + 1][i] = SumFunction(f) /\ Allowed[v][n][i] = SumFunction(e)
  BY <1>1, <1>3, <1>4 DEF Allowed
<1>6. f \in [1..(n + 1) -> Nat]
  <2> SUFFICES ASSUME NEW k \in 1..(n + 1) PROVE Gives(Levels(h)[k].unlocks, i) \in Nat
    OBVIOUS
  <2>1. k \in DOMAIN Table(h)
    BY <1>1, <1>2, CatalogIsTables
  <2>2. Levels(h)[k] = LevelFor(Listing(h).category, Listing(h).raw.village, Table(h)[k])
    BY <1>1, <2>1, CatalogIsTables
  <2>4. Levels(h)[k].unlocks = Table(h)[k].unlocks
    BY <2>2 DEF LevelFor
  <2>3. \A j \in DOMAIN Table(h)[k].unlocks : Table(h)[k].unlocks[j] \in Nat
    BY <1>1, <2>1, GameAssumption
  <2> QED BY <2>3, <2>4 DEF Gives
<1>7. IsFiniteSet(1..(n + 1)) /\ n + 1 \in 1..(n + 1) /\ (1..(n + 1)) \ {n + 1} = 1..n
  <2>1. n + 1 \in Int /\ 1 \in Int
    BY <1>2
  <2>2. IsFiniteSet(1..(n + 1))
    BY <2>1, FS_Interval
  <2>3. n + 1 \in 1..(n + 1) /\ (1..(n + 1)) \ {n + 1} = 1..n
    BY <1>2
  <2> QED BY <2>2, <2>3
<1>8. Part(f, 1..n) = e
  BY <1>2 DEF Part
<1>9. SumFunction(f) = f[n + 1] + SumFunction(e)
  <2> HIDE DEF f, e
  <2> QED BY <1>6, <1>7, <1>8, SumTakes
<1>10. SumFunction(e) \in Nat /\ f[n + 1] \in Nat
  <2>1. 1..n \in SUBSET (1..(n + 1))
    BY <1>2
  <2> HIDE DEF f, e
  <2> QED BY <1>6, <1>7, <1>8, <2>1, SumTakes
<1> QED BY <1>2, <1>5, <1>7, <1>9, <1>10

\* A step that raises the gate of a hall by one brings what its preview said.
LEMMA StepPreviews ==
  ASSUME TypeOK, Landable, Earned, [Next]_vars, NEW v \in Villages,
         GatesNow' = [GatesNow EXCEPT ![HallOf[v]] = @ + 1]
  PROVE  \E p \in HallPreview(Current, GatesNow, v) :
           /\ p.affected = Cardinality({i \in Leveled \cap Known :
                VillageOf[i] = v /\ Owned(Current, i) > 0
                /\ Reachable(i, GatesNow') > Reachable(i, GatesNow)})
           /\ \A i \in Items :
                Allowed[v][GatesNow'[HallOf[v]]][i]
                  = Allowed[v][GatesNow[HallOf[v]]][i] + Gives(p.unlocks, i)
<1> DEFINE h == Id[HallOf[v]]
           n == GatesNow[HallOf[v]]
<1>1. HallOf[v] \in GateNames
  BY DEF HallOf, GateNames, Villages
<1>2. TypeOK'
  BY NextTyped
<1>3. GatesNow' = [g \in GateNames |-> Built(Id[g], village')]
  <2>1. (GatesNow = [g \in GateNames |-> Built(Id[g], village)])'
    BY <1>2, GatesAreBuilt, PTL
  <2> QED BY <2>1
<1>4. GatesNow = [g \in GateNames |-> Built(Id[g], village)]
  BY GatesAreBuilt
<1>5. n = Built(h, village) /\ GatesNow'[HallOf[v]] = n + 1 /\ Built(h, village') = n + 1
  BY <1>1, <1>3, <1>4
<1>6. n \in 1..(Len(Table(h)) - 1)
  BY <1>5, HallRises
<1>7. h \in Leveled \cap Known /\ Len(Levels(h)) = Len(Table(h)) /\ n + 1 \in 0..MaxLevel
  <2>1. Built(h, village') \in 0..MaxLevel
    BY <1>2, BuiltIsHighest DEF TypeOK
  <2> QED BY <1>5, <2>1, HallAssumption, CatalogIsTables
<1>8. GatesNow' = Raised(GatesNow, v)
  BY DEF Raised
<1> DEFINE p == [price    |-> Between(h, n, n + 1),
                 unlocks  |-> Levels(h)[n + 1].unlocks,
                 affected |-> Cardinality({i \in Leveled \cap Known :
                                /\ VillageOf[i] = v /\ Owned(Current, i) > 0
                                /\ Reachable(i, Raised(GatesNow, v)) > Reachable(i, GatesNow)})]
<1>9. HallPreview(Current, GatesNow, v) = {p}
  BY <1>6, <1>7 DEF HallPreview
<1>10. ASSUME NEW i \in Items
       PROVE  Allowed[v][n + 1][i] = Allowed[v][n][i] + Gives(p.unlocks, i)
  BY <1>6, <1>7, OneMoreLevel
<1>11. p.affected = Cardinality({i \in Leveled \cap Known :
                VillageOf[i] = v /\ Owned(Current, i) > 0
                /\ Reachable(i, GatesNow') > Reachable(i, GatesNow)})
  BY <1>8
<1> QED BY <1>5, <1>9, <1>10, <1>11

\* A hall that lands brings what its preview said.
THEOREM PreviewIsKept == Spec => PreviewComesTrue
<1>1. Init => TypeOK /\ Landable /\ Earned
  BY InitTyped, InitEarned
<1>2. TypeOK /\ Landable /\ Earned /\ [Next]_vars => (TypeOK /\ Landable /\ Earned)'
  BY NextTyped, NextEarned
<1>3. TypeOK /\ Landable /\ Earned /\ [Next]_vars =>
        [\A v \in Villages :
           GatesNow' = [GatesNow EXCEPT ![HallOf[v]] = @ + 1] =>
             \E p \in HallPreview(Current, GatesNow, v) :
               /\ p.affected = Cardinality({i \in Leveled \cap Known :
                    VillageOf[i] = v /\ Owned(Current, i) > 0
                    /\ Reachable(i, GatesNow') > Reachable(i, GatesNow)})
               /\ \A i \in Items :
                    Allowed[v][GatesNow'[HallOf[v]]][i]
                      = Allowed[v][GatesNow[HallOf[v]]][i] + Gives(p.unlocks, i)]_vars
  BY StepPreviews
<1> QED BY <1>1, <1>2, <1>3, PTL DEF Spec, PreviewComesTrue

-----------------------------------------------------------------------------
(* Sums of sums.                                                           *)

\* Part of a sum, term by term,
LEMMA PartTakes ==
  ASSUME NEW S, IsFiniteSet(S), NEW f \in [S -> Nat]
  PROVE  /\ Part(f, S) = f /\ SumFunction(Part(f, {})) = 0
         /\ \A T \in SUBSET S : SumFunction(Part(f, T)) \in Nat
         /\ \A T \in SUBSET S : \A x \in T :
              SumFunction(Part(f, T)) = f[x] + SumFunction(Part(f, T \ {x}))
<1>1. Part(f, S) = f
  BY DEF Part
<1>2. \A T \in SUBSET S : SumFunction(Part(f, T)) \in Nat
  BY SumTakes
<1>3. SumFunction(Part(f, {})) = 0
  <2>1. Part(f, {}) \in [{} -> Nat] /\ IsFiniteSet({})
    BY FS_EmptySet DEF Part
  <2> QED BY <2>1, SumTakes
<1>4. ASSUME NEW T \in SUBSET S, NEW x \in T
      PROVE  SumFunction(Part(f, T)) = f[x] + SumFunction(Part(f, T \ {x}))
  <2>1. IsFiniteSet(T) /\ Part(f, T) \in [T -> Nat]
    BY FS_Subset DEF Part
  <2>2. SumFunction(Part(f, T)) = Part(f, T)[x] + SumFunction(Part(Part(f, T), T \ {x}))
    BY <2>1, SumTakes
  <2>3. Part(Part(f, T), T \ {x}) = Part(f, T \ {x}) /\ Part(f, T)[x] = f[x]
    BY DEF Part
  <2> QED BY <2>2, <2>3
<1> QED BY <1>1, <1>2, <1>3, <1>4

\* of multiples,
LEMMA SumOfMultiples ==
  ASSUME NEW S, IsFiniteSet(S), NEW f \in [S -> Nat], NEW k \in Nat
  PROVE  SumFunction([x \in S |-> k * f[x]]) = k * SumFunction(f)
<1> DEFINE g == [x \in S |-> k * f[x]]
           Good == {T \in SUBSET S : SumFunction(Part(g, T)) = k * SumFunction(Part(f, T))}
<1>1. g \in [S -> Nat] /\ \A x \in S : g[x] = k * f[x]
  OBVIOUS
<1> HIDE DEF g
<1>2. /\ Part(f, S) = f /\ SumFunction(Part(f, {})) = 0
      /\ \A T \in SUBSET S : SumFunction(Part(f, T)) \in Nat
      /\ \A T \in SUBSET S : \A x \in T :
           SumFunction(Part(f, T)) = f[x] + SumFunction(Part(f, T \ {x}))
  BY PartTakes
<1>3. /\ Part(g, S) = g /\ SumFunction(Part(g, {})) = 0
      /\ \A T \in SUBSET S : \A x \in T :
           SumFunction(Part(g, T)) = g[x] + SumFunction(Part(g, T \ {x}))
  BY <1>1, PartTakes
<1>4. ASSUME NEW T \in SUBSET S, \A x \in T : T \ {x} \in Good PROVE T \in Good
  <2>1. CASE T = {}
    <3>1. k * 0 = 0
      OBVIOUS
    <3> QED BY <1>2, <1>3, <2>1, <3>1
  <2>2. CASE T # {}
    <3>1. PICK x \in T : TRUE
      BY <2>2
    <3> DEFINE a == SumFunction(Part(f, T \ {x}))
    <3>2. a \in Nat /\ f[x] \in Nat
      BY <1>2
    <3>3. SumFunction(Part(g, T)) = k * f[x] + k * a
      BY <1>1, <1>3, <1>4, <3>1
    <3>4. SumFunction(Part(f, T)) = f[x] + a
      BY <1>2
    <3> HIDE DEF a
    <3>5. k * f[x] + k * a = k * (f[x] + a)
      BY <3>2
    <3> QED BY <3>3, <3>4, <3>5
  <2> QED BY <2>1, <2>2
<1> HIDE DEF Good
<1>5. S \in Good
  BY <1>4, SubsetInduction
<1> QED BY <1>2, <1>3, <1>5 DEF Good, g

\* and of sums,
LEMMA SumOfPairs ==
  ASSUME NEW S, IsFiniteSet(S), NEW f \in [S -> Nat], NEW g \in [S -> Nat]
  PROVE  SumFunction([x \in S |-> f[x] + g[x]]) = SumFunction(f) + SumFunction(g)
<1> DEFINE k == [x \in S |-> f[x] + g[x]]
           Good == {T \in SUBSET S : SumFunction(Part(k, T))
                                       = SumFunction(Part(f, T)) + SumFunction(Part(g, T))}
<1>1. k \in [S -> Nat] /\ \A x \in S : k[x] = f[x] + g[x]
  OBVIOUS
<1> HIDE DEF k
<1>2. /\ Part(f, S) = f /\ SumFunction(Part(f, {})) = 0
      /\ \A T \in SUBSET S : SumFunction(Part(f, T)) \in Nat
      /\ \A T \in SUBSET S : \A x \in T :
           SumFunction(Part(f, T)) = f[x] + SumFunction(Part(f, T \ {x}))
  BY PartTakes
<1>3. /\ Part(g, S) = g /\ SumFunction(Part(g, {})) = 0
      /\ \A T \in SUBSET S : SumFunction(Part(g, T)) \in Nat
      /\ \A T \in SUBSET S : \A x \in T :
           SumFunction(Part(g, T)) = g[x] + SumFunction(Part(g, T \ {x}))
  BY PartTakes
<1>4. /\ Part(k, S) = k /\ SumFunction(Part(k, {})) = 0
      /\ \A T \in SUBSET S : \A x \in T :
           SumFunction(Part(k, T)) = k[x] + SumFunction(Part(k, T \ {x}))
  BY <1>1, PartTakes
<1>5. ASSUME NEW T \in SUBSET S, \A x \in T : T \ {x} \in Good PROVE T \in Good
  <2>1. CASE T = {}
    BY <1>2, <1>3, <1>4, <2>1
  <2>2. CASE T # {}
    <3>1. PICK x \in T : TRUE
      BY <2>2
    <3> DEFINE a == SumFunction(Part(f, T \ {x}))
               b == SumFunction(Part(g, T \ {x}))
    <3>2. a \in Nat /\ b \in Nat /\ f[x] \in Nat /\ g[x] \in Nat
      BY <1>2, <1>3
    <3>3. SumFunction(Part(k, T)) = (f[x] + g[x]) + (a + b)
      BY <1>1, <1>4, <1>5, <3>1
    <3>4. SumFunction(Part(f, T)) = f[x] + a /\ SumFunction(Part(g, T)) = g[x] + b
      BY <1>2, <1>3
    <3> HIDE DEF a, b
    <3> QED BY <3>2, <3>3, <3>4
  <2> QED BY <2>1, <2>2
<1> HIDE DEF Good
<1>6. S \in Good
  BY <1>5, SubsetInduction
<1> QED BY <1>2, <1>3, <1>4, <1>6 DEF Good, k

\* and over the classes that something has been sorted into.
LEMMA SumOfClasses ==
  ASSUME NEW S, IsFiniteSet(S), NEW f \in [S -> Nat], NEW P, IsFiniteSet(P),
         NEW class, \A x \in S : class[x] \in P,
         NEW w \in [P -> Nat],
         \A p \in P : w[p] = SumFunction(Part(f, {x \in S : class[x] = p}))
  PROVE  SumFunction(w) = SumFunction(f)
<1> DEFINE In(Q) == {x \in S : class[x] \in Q}
           Good == {Q \in SUBSET P : SumFunction(Part(w, Q)) = SumFunction(Part(f, In(Q)))}
<1>1. /\ Part(f, S) = f /\ SumFunction(Part(f, {})) = 0
      /\ \A T \in SUBSET S : SumFunction(Part(f, T)) \in Nat
  BY PartTakes
<1>3. /\ Part(w, P) = w /\ SumFunction(Part(w, {})) = 0
      /\ \A T \in SUBSET P : \A x \in T :
           SumFunction(Part(w, T)) = w[x] + SumFunction(Part(w, T \ {x}))
  BY PartTakes
<1>4. ASSUME NEW Q \in SUBSET P, \A p \in Q : Q \ {p} \in Good PROVE Q \in Good
  <2>1. CASE Q = {}
    <3>1. In(Q) = {}
      BY <2>1
    <3> HIDE DEF In
    <3> QED BY <1>1, <1>3, <2>1, <3>1
  <2>2. CASE Q # {}
    <3>1. PICK p \in Q : TRUE
      BY <2>2
    <3>2. SumFunction(Part(w, Q)) = w[p] + SumFunction(Part(w, Q \ {p}))
      BY <1>3, <3>1
    <3>3. SumFunction(Part(w, Q \ {p})) = SumFunction(Part(f, In(Q \ {p})))
      BY <1>4, <3>1
    <3> DEFINE T == In(Q)
               U == {x \in S : class[x] = p}
    <3>4. T \in SUBSET S /\ U \in SUBSET T /\ T \ U = In(Q \ {p})
      BY <3>1
    <3>5. w[p] = SumFunction(Part(f, U))
      OBVIOUS
    <3> HIDE DEF T, U, In
    <3>6. SumFunction(Part(f, T)) = SumFunction(Part(f, U)) + SumFunction(Part(f, T \ U))
      <4>1. IsFiniteSet(T) /\ Part(f, T) \in [T -> Nat]
        BY <3>4, FS_Subset DEF Part
      <4>2. SumFunction(Part(f, T))
              = SumFunction(Part(Part(f, T), U)) + SumFunction(Part(Part(f, T), T \ U))
        BY <3>4, <4>1, SumSplits
      <4>3. Part(Part(f, T), U) = Part(f, U) /\ Part(Part(f, T), T \ U) = Part(f, T \ U)
        BY <3>4 DEF Part
      <4> QED BY <4>2, <4>3
    <3>7. SumFunction(Part(w, Q)) = SumFunction(Part(f, T))
      BY <3>2, <3>3, <3>4, <3>5, <3>6
    <3> QED BY <3>7 DEF T
  <2> QED BY <2>1, <2>2
<1>5. In(P) = S
  OBVIOUS
<1> HIDE DEF Good
<1>6. P \in Good
  <2>1. \A Q \in SUBSET P : (\A p \in Q : Q \ {p} \in Good) => Q \in Good
    BY <1>4
  <2>2. \A Q \in SUBSET P : Q \in Good
    BY <2>1, SubsetInduction
  <2> QED BY <2>2
<1> HIDE DEF In
<1> QED BY <1>1, <1>3, <1>5, <1>6 DEF Good

\* A total over an image is one over what the image is of.
LEMMA TotalOfImage ==
  ASSUME NEW B, Finite(B), NEW h, NEW w,
         \A x \in BagToSet(B) : w[h[x]] \in Nat
  PROVE  /\ \A x \in BagToSet(B) : B[x] \in Nat /\ B[x] > 0
         /\ IsFiniteSet(BagToSet(Im(h, B)))
         /\ BagToSet(Im(h, B)) = {h[x] : x \in BagToSet(B)}
         /\ [y \in BagToSet(Im(h, B)) |-> Im(h, B)[y] * w[y]] \in [BagToSet(Im(h, B)) -> Nat]
         /\ [x \in BagToSet(B) |-> B[x] * w[h[x]]] \in [BagToSet(B) -> Nat]
         /\ SumFunction([y \in BagToSet(Im(h, B)) |-> Im(h, B)[y] * w[y]])
              = SumFunction([x \in BagToSet(B) |-> B[x] * w[h[x]]])
<1> DEFINE S == BagToSet(B)
           P == BagToSet(Im(h, B))
           f == [x \in S |-> B[x] * w[h[x]]]
           v == [y \in P |-> Im(h, B)[y] * w[y]]
           Of(y) == {x \in S : h[x] = y}
<1>1. IsFiniteSet(S) /\ S = DOMAIN B /\ \A x \in S : B[x] \in Nat /\ B[x] > 0
  BY DEF Finite, IsABag, BagToSet
<1>2. /\ IsFiniteSet(P) /\ P = {h[x] : x \in S} /\ Finite(Im(h, B))
      /\ \A y : Copies(y, Im(h, B)) = Tally(Of(y), B)
  BY ImageCopies DEF Finite
<1>3. f \in [S -> Nat]
  BY <1>1
<1>4. \A x \in S : h[x] \in P
  BY <1>2
<1>5. ASSUME NEW y \in P PROVE v[y] = SumFunction(Part(f, Of(y)))
  <2> DEFINE b == [x \in Of(y) |-> B[x]]
  <2>1. w[y] \in Nat
    BY <1>2
  <2>2. Im(h, B)[y] = Tally(Of(y), B)
    <3>1. BagIn(y, Im(h, B))
      BY <1>2 DEF BagIn, BagToSet, Finite
    <3> QED BY <1>2, <3>1 DEF Copies
  <2>3. Of(y) \in SUBSET S /\ IsFiniteSet(Of(y)) /\ b \in [Of(y) -> Nat]
    BY <1>1, FS_Subset
  <2>4. SumFunction(b) = Tally(Of(y), B)
    <3>1. Size(Restrict(B, Of(y))) = Tally(Of(y), B)
      <4> HIDE DEF Of
      <4> QED BY <2>3, SizeOfPart
    <3>2. Restrict(B, Of(y)) = b
      BY DEF Restrict
    <3> QED BY <3>1, <3>2 DEF Size
  <2>5. Part(f, Of(y)) = [x \in Of(y) |-> w[y] * b[x]]
    <3>1. \A x \in Of(y) : f[x] = w[y] * b[x]
      <4> TAKE x \in Of(y)
      <4>1. x \in S /\ h[x] = y /\ B[x] \in Nat
        BY <1>1
      <4>2. f[x] = B[x] * w[y] /\ b[x] = B[x]
        BY <4>1
      <4>3. B[x] * w[y] = w[y] * B[x]
        BY <2>1, <4>1
      <4> QED BY <4>2, <4>3
    <3> HIDE DEF f, b, Of
    <3> QED BY <3>1 DEF Part
  <2>6. SumFunction([x \in Of(y) |-> w[y] * b[x]]) = w[y] * SumFunction(b)
    <3> HIDE DEF Of, b
    <3> QED BY <2>1, <2>3, SumOfMultiples
  <2>7. v[y] = SumFunction(b) * w[y] /\ SumFunction(b) \in Nat
    <3> HIDE DEF Of, b
    <3>1. SumFunction(b) \in Nat
      BY <2>3, SumTakes
    <3>2. v[y] = Im(h, B)[y] * w[y]
      OBVIOUS
    <3> QED BY <2>2, <2>4, <3>1, <3>2
  <2>8. SumFunction(b) * w[y] = w[y] * SumFunction(b)
    <3> HIDE DEF v, b
    <3> QED BY <2>1, <2>7
  <2> QED BY <2>5, <2>6, <2>7, <2>8
<1> DEFINE class == [x \in S |-> h[x]]
<1>6. \A x \in S : class[x] \in P
  BY <1>4
<1>7. \A y \in P : v[y] = SumFunction(Part(f, {x \in S : class[x] = y}))
  <2> TAKE y \in P
  <2>1. {x \in S : class[x] = y} = Of(y)
    OBVIOUS
  <2> QED BY <1>5, <2>1
<1>8. v \in [P -> Nat]
  <2>1. \A y \in P : v[y] \in Nat
    <3> TAKE y \in P
    <3>1. Of(y) \in SUBSET S /\ v[y] = SumFunction(Part(f, Of(y)))
      BY <1>5
    <3> HIDE DEF Of, v, f, S
    <3> QED BY <1>1, <1>3, <3>1, PartTakes
  <2> QED BY <2>1
<1> HIDE DEF S, P, f, v, class
<1>9. SumFunction(v) = SumFunction(f)
  BY <1>1, <1>2, <1>3, <1>6, <1>7, <1>8, SumOfClasses
<1> QED BY <1>1, <1>2, <1>3, <1>8, <1>9 DEF S, P, f, v

-----------------------------------------------------------------------------
(* The catalog's gates and prices against the game's.                      *)

\* The gates of an item's levels are read from the columns of the buildings they
\* stand for, in the item's own village.
LEMMA ColumnsAreHouses ==
  ASSUME NEW i \in Leveled \cap Known
  PROVE  LET column == Columns(Listing(i).category, Listing(i).raw.village)
         IN /\ \A g \in DOMAIN column :
                 /\ g \in GateNames /\ House(i)[column[g]] = g
                 /\ SectionOf[i] = "units2" => column[g] # "townhall"
            /\ \A g \in DOMAIN column :
                 SectionOf[i] # "units2" /\ column[g] = "lab" => VillageOf[i] = "home"
<1> DEFINE category == Listing(i).category
           where    == Listing(i).raw.village
           column   == Columns(category, where)
<1>1. /\ SectionOf[i] \in DOMAIN Sections /\ category \in CategoriesOf[SectionOf[i]]
      /\ VillageOf[i] = "builder" <=> where = "builderBase"
      /\ VillageOf[i] = Sections[SectionOf[i]][1]
  BY SectionAssumption DEF Leveled, VillageOf
<1> HIDE DEF category, where
<1>2. CASE VillageOf[i] = "home"
  <2>1. where # "builderBase"
    BY <1>1, <1>2
  <2>2. SectionOf[i] # "units2"
    BY <1>1, <1>2 DEF Sections
  <2>3. category \in {"buildings", "traps", "troops", "spells", "heroes", "pets",
                      "equipment", "helpers", "guardians"}
    BY <1>1 DEF Sections, CategoriesOf
  <2>4. House(i) = [townhall |-> "th", lab |-> "lab", smith |-> "smith", pethouse |-> "pethouse",
                    tavern |-> "herohall"]
    BY <1>2 DEF House
  <2>5. column \in {[th |-> "townhall"], [lab |-> "lab"], [th |-> "townhall", herohall |-> "tavern"],
                    [th |-> "townhall", smith |-> "smith"], [th |-> "townhall", pethouse |-> "pethouse"]}
    BY <2>1, <2>3 DEF Columns
  <2>6. \A g \in DOMAIN column : g \in GateNames /\ House(i)[column[g]] = g
    <3> HIDE DEF column
    <3> QED BY <2>4, <2>5 DEF GateNames
  <2> QED BY <1>2, <2>2, <2>6 DEF category, where
<1>3. CASE VillageOf[i] # "home"
  <2>1. /\ VillageOf[i] = "builder" /\ SectionOf[i] \in {"buildings2", "traps2", "units2", "heroes2"}
        /\ where = "builderBase"
    BY <1>1, <1>3 DEF Sections
  <2>2. /\ category \in {"buildings", "traps", "troops", "heroes"}
        /\ category = "troops" <=> SectionOf[i] = "units2"
    BY <1>1, <2>1 DEF CategoriesOf
  <2>3. House(i) = [townhall |-> "bh", lab |-> "starlab"]
    BY <1>3 DEF House
  <2>4. /\ category = "troops" => column = [starlab |-> "lab"]
        /\ category # "troops" => column = [bh |-> "townhall"]
    BY <2>1, <2>2 DEF Columns
  <2>5. \A g \in DOMAIN column : g \in GateNames /\ House(i)[column[g]] = g
    <3> HIDE DEF column
    <3> QED BY <2>3, <2>4 DEF GateNames
  <2>6. \A g \in DOMAIN column : column[g] = "lab" <=> SectionOf[i] = "units2"
    <3> HIDE DEF column
    <3> QED BY <2>2, <2>4
  <2>7. \A g \in DOMAIN column : SectionOf[i] = "units2" => column[g] # "townhall"
    <3> HIDE DEF column
    <3> QED BY <2>6
  <2> QED BY <2>5, <2>6, <2>7 DEF category, where
<1> QED BY <1>2, <1>3

\* The catalog's condition on a level.
Met(i, l, gates) == \A g \in DOMAIN Levels(i)[l].requires : gates[g] >= Levels(i)[l].requires[g]

\* What a level of the catalog requires is what the tables ask of a building of the
\* item's own village.
LEMMA RequiresNeeds ==
  ASSUME NEW i \in Leveled \cap Known, NEW l \in DOMAIN Table(i)
  PROVE  LET column == Columns(Listing(i).category, Listing(i).raw.village)
             needs  == Table(i)[l].needs
         IN /\ DOMAIN Levels(i)[l].requires = {g \in DOMAIN column : column[g] \in DOMAIN needs}
            /\ \A g \in DOMAIN Levels(i)[l].requires : Levels(i)[l].requires[g] = needs[column[g]]
            /\ \A c \in DOMAIN needs : needs[c] \in Nat
<1>1. Levels(i)[l] = LevelFor(Listing(i).category, Listing(i).raw.village, Table(i)[l])
  BY CatalogIsTables
<1>2. \A c \in DOMAIN Table(i)[l].needs : Table(i)[l].needs[c] \in Nat
  BY GameAssumption
<1> QED BY <1>1, <1>2 DEF LevelFor, RequiresFor

\* What the game allows with some buildings is met by gates as high as those.
LEMMA AllowedIsMet ==
  ASSUME NEW i \in Leveled \cap Known, NEW l, NEW B, BagToSet(B) \subseteq Row, Allows(i, l, B),
         NEW gates, \A g \in GateNames : gates[g] \in Nat /\ Built(Id[g], B) <= gates[g]
  PROVE  l \in DOMAIN Levels(i) /\ Met(i, l, gates)
<1> DEFINE column == Columns(Listing(i).category, Listing(i).raw.village)
           needs  == Table(i)[l].needs
<1>1. l \in DOMAIN Table(i)
  BY DEF Allows
<1>2. DOMAIN Levels(i) = DOMAIN Table(i)
  BY CatalogIsTables
<1>3. ASSUME NEW g \in DOMAIN Levels(i)[l].requires PROVE gates[g] >= Levels(i)[l].requires[g]
  <2>1. /\ g \in DOMAIN column /\ column[g] \in DOMAIN needs
        /\ Levels(i)[l].requires[g] = needs[column[g]] /\ needs[column[g]] \in Nat
    BY <1>1, <1>3, RequiresNeeds
  <2>2. /\ g \in GateNames /\ House(i)[column[g]] = g
        /\ SectionOf[i] = "units2" => column[g] # "townhall"
    BY <2>1, ColumnsAreHouses
  <2> HIDE DEF column
  <2>3. Built(Id[g], B) >= needs[column[g]]
    BY <2>1, <2>2 DEF Allows
  <2>4. Built(Id[g], B) \in Nat
    BY BuiltIsHighest, AnalyzeAssumption
  <2> QED BY <2>1, <2>2, <2>3, <2>4
<1> QED BY <1>1, <1>2, <1>3 DEF Met

\* The ceiling is a level of the table, at least as high as any level met, and is
\* itself met unless it is the first.
LEMMA CeilingIs ==
  ASSUME NEW i \in Leveled \cap Known, NEW gates
  PROVE  /\ Reachable(i, gates) \in Nat /\ Len(Levels(i)) \in Nat
         /\ Reachable(i, gates) = 0 <=> Levels(i) = <<>>
         /\ Reachable(i, gates) > 0 => Reachable(i, gates) \in DOMAIN Levels(i)
         /\ Reachable(i, gates) <= Len(Levels(i))
         /\ \A l \in DOMAIN Levels(i) : Met(i, l, gates) => l <= Reachable(i, gates)
         /\ Reachable(i, gates) > 1 => Met(i, Reachable(i, gates), gates)
<1> DEFINE N == Len(Levels(i))
           S == {1} \cup {l \in DOMAIN Levels(i) : Met(i, l, gates)}
<1>1. DOMAIN Levels(i) = 1..N /\ N \in Nat
  BY CatalogIsTables
<1>2. CASE Levels(i) = <<>>
  <2>1. N = 0
    BY <1>2
  <2>2. Reachable(i, gates) = 0
    BY <1>2 DEF Reachable
  <2> QED BY <1>1, <1>2, <2>1, <2>2
<1>3. CASE Levels(i) # <<>>
  <2>1. N > 0
    <3>1. Levels(i) = [l \in 1..N |-> Levels(i)[l]]
      <4>1. Levels(i) = [l \in DOMAIN Listing(i).raw.levels |->
                           LevelFor(Listing(i).category, Listing(i).raw.village, Listing(i).raw.levels[l])]
        <5>1. Catalog[i] = Convert(Listing(i).category, Listing(i).raw)
          BY CatalogIsTables
        <5> QED BY <5>1 DEF Levels, Convert
      <4> QED BY <1>1, <4>1
    <3>2. N = 0 => Levels(i) = <<>>
      BY <1>1, <3>1
    <3> QED BY <1>1, <1>3, <3>2
  <2>2. Reachable(i, gates) = Max(S)
    BY <1>3 DEF Reachable, Met
  <2>3. S \in SUBSET (0..N) /\ S # {}
    BY <1>1, <2>1
  <2>4. Max(S) \in S /\ \A l \in S : l <= Max(S)
    <3> HIDE DEF S, N
    <3> QED BY <1>1, <2>3, Greatest
  <2> QED BY <1>1, <1>3, <2>1, <2>2, <2>4
<1> QED BY <1>2, <1>3

Priced == Currencies \cup {"seconds"}

\* What every price is a function of.
LEMMA PricesAreFunctions ==
  ASSUME NEW i, NEW a, NEW b
  PROVE  /\ Charge(i, a) = [c \in Priced |-> Charge(i, a)[c]]
         /\ Asked(i, a) = [c \in Priced |-> Asked(i, a)[c]]
         /\ Between(i, a, b) = [c \in Priced |-> Between(i, a, b)[c]]
<1>1. Charge(i, a) = [c \in Priced |-> Charge(i, a)[c]]
  <2> DEFINE E(c) == CASE c = "seconds" -> Levels(i)[a].seconds
                       [] c \in Ores    -> Levels(i)[a].ore[c]
                       [] c = (IF Levels(i)[a].alt = "" THEN Catalog[i].resource ELSE Levels(i)[a].alt)
                            -> Levels(i)[a].cost
                       [] OTHER -> 0
  <2>1. Charge(i, a) = [c \in Priced |-> E(c)]
    BY DEF Charge, Priced
  <2> HIDE DEF E
  <2> QED BY <2>1
<1>2. Asked(i, a) = [c \in Priced |-> Asked(i, a)[c]]
  <2> DEFINE lv    == Table(i)[a]
             money == IF lv.alt # "" THEN lv.alt ELSE RawOf[i].resource
             E(c) == CASE c = "seconds" -> lv.build_time + lv.upgrade_time
                       [] c # "seconds" /\ SectionOf[i] = "equipment" ->
                            IF c \in Ores THEN lv.upgrade_cost[c] ELSE 0
                       [] c # "seconds" /\ SectionOf[i] # "equipment" ->
                            IF c = money THEN lv.build_cost + lv.upgrade_cost ELSE 0
  <2>1. Asked(i, a) = [c \in Priced |-> E(c)]
    BY DEF Asked, Priced
  <2> HIDE DEF E
  <2> QED BY <2>1
<1>3. Between(i, a, b) = [c \in Priced |-> Between(i, a, b)[c]]
  BY DEF Between, Priced
<1> QED BY <1>1, <1>2, <1>3

\* Of two amounts one of which is nothing, the other is their sum.
LEMMA EitherAmount ==
  ASSUME NEW x \in Nat, NEW y \in Nat, x = 0 \/ y = 0
  PROVE  (IF x > 0 THEN x ELSE y) = x + y
OBVIOUS

\* The catalog's price of a level is the game's.
LEMMA ChargeIsAsked ==
  ASSUME NEW i \in Leveled \cap Known, NEW l \in DOMAIN Table(i)
  PROVE  /\ Charge(i, l) = Asked(i, l)
         /\ DOMAIN Charge(i, l) = Priced /\ \A c \in Priced : Charge(i, l)[c] \in Nat
<1> DEFINE category == Listing(i).category
           lv       == Table(i)[l]
           cat      == Levels(i)[l]
           money    == IF lv.alt = "" THEN RawOf[i].resource ELSE lv.alt
<1>1. /\ lv.build_time \in Nat /\ lv.upgrade_time \in Nat
      /\ SectionOf[i] = "equipment" => lv.upgrade_cost \in [Ores -> Nat]
      /\ SectionOf[i] # "equipment" => lv.build_cost \in Nat /\ lv.upgrade_cost \in Nat
  <2>1. /\ lv.build_time \in Nat /\ lv.upgrade_time \in Nat
        /\ IF SectionOf[i] = "equipment" THEN lv.upgrade_cost \in [Ores -> Nat]
           ELSE lv.build_cost \in Nat /\ lv.upgrade_cost \in Nat
    BY GameAssumption, Zenon
  <2> QED BY <2>1
<1>2. /\ lv.build_time = 0 \/ lv.upgrade_time = 0
      /\ SectionOf[i] # "equipment" => lv.build_cost = 0 \/ lv.upgrade_cost = 0
      /\ money \notin Ores \cup {"seconds"}
  <2>1. lv.build_time = 0 \/ lv.upgrade_time = 0
    BY PriceAssumption
  <2>2. SectionOf[i] # "equipment" => lv.build_cost = 0 \/ lv.upgrade_cost = 0
    BY PriceAssumption
  <2>3. {lv.alt, RawOf[i].resource} \cap (Ores \cup {"seconds"}) = {}
    BY PriceAssumption
  <2>4. money \in {lv.alt, RawOf[i].resource}
    OBVIOUS
  <2> HIDE DEF money, lv
  <2> QED BY <2>1, <2>2, <2>3, <2>4
<1>3. category = "equipment" <=> SectionOf[i] = "equipment"
  BY SectionAssumption DEF CategoriesOf, Sections, Leveled
<1>4. Catalog[i].resource = RawOf[i].resource
  <2>1. Catalog[i] = Convert(category, Listing(i).raw)
    BY CatalogIsTables
  <2> QED BY <2>1 DEF Convert, RawOf
<1>5. cat = LevelFor(category, Listing(i).raw.village, lv)
  BY CatalogIsTables
<1> HIDE DEF category, lv, cat
<1>6. /\ cat.seconds = lv.build_time + lv.upgrade_time /\ cat.alt = lv.alt
      /\ category = "equipment" => cat.cost = 0 /\ cat.ore = lv.upgrade_cost
      /\ category # "equipment" => cat.cost = lv.build_cost + lv.upgrade_cost
                                   /\ cat.ore = [o \in Ores |-> 0]
  <2>1. cat.seconds = lv.build_time + lv.upgrade_time /\ cat.alt = lv.alt
    <3>1. cat.seconds = SecondsFor(lv) /\ cat.alt = lv.alt
      BY <1>5 DEF LevelFor
    <3>2. SecondsFor(lv) = lv.build_time + lv.upgrade_time
      BY <1>1, <1>2, EitherAmount DEF SecondsFor
    <3> QED BY <3>1, <3>2
  <2>2. category = "equipment" => cat.cost = 0 /\ cat.ore = lv.upgrade_cost
    BY <1>5 DEF LevelFor, CostFor, OreFor
  <2>3. ASSUME category # "equipment"
        PROVE  cat.cost = lv.build_cost + lv.upgrade_cost /\ cat.ore = [o \in Ores |-> 0]
    <3>1. cat.cost = CostFor(category, lv) /\ cat.ore = OreFor(category, lv)
      BY <1>5 DEF LevelFor
    <3>2. CostFor(category, lv) = IF lv.build_cost > 0 THEN lv.build_cost ELSE lv.upgrade_cost
      BY <2>3 DEF CostFor
    <3>3. CostFor(category, lv) = lv.build_cost + lv.upgrade_cost
      BY <1>1, <1>2, <1>3, <2>3, <3>2, EitherAmount
    <3> QED BY <2>3, <3>1, <3>3 DEF OreFor
  <2> QED BY <2>1, <2>2, <2>3
<1>7. \A c \in Priced : Charge(i, l)[c] = CASE c = "seconds" -> cat.seconds
                                            [] c \in Ores    -> cat.ore[c]
                                            [] c = money     -> cat.cost
                                            [] OTHER -> 0
  BY <1>4, <1>6 DEF Charge, Priced, cat
<1>8. \A c \in Priced : Asked(i, l)[c] =
        CASE c = "seconds" -> lv.build_time + lv.upgrade_time
          [] c # "seconds" /\ SectionOf[i] = "equipment" ->
               IF c \in Ores THEN lv.upgrade_cost[c] ELSE 0
          [] c # "seconds" /\ SectionOf[i] # "equipment" ->
               IF c = money THEN lv.build_cost + lv.upgrade_cost ELSE 0
  <2>1. money = IF lv.alt # "" THEN lv.alt ELSE RawOf[i].resource
    <3>1. CASE lv.alt = ""
      BY <3>1
    <3>2. CASE lv.alt # ""
      BY <3>2
    <3> QED BY <3>1, <3>2
  <2> DEFINE E(c) == CASE c = "seconds" -> lv.build_time + lv.upgrade_time
                       [] c # "seconds" /\ SectionOf[i] = "equipment" ->
                            IF c \in Ores THEN lv.upgrade_cost[c] ELSE 0
                       [] c # "seconds" /\ SectionOf[i] # "equipment" ->
                            IF c = money THEN lv.build_cost + lv.upgrade_cost ELSE 0
  <2> HIDE DEF money
  <2>2. Asked(i, l) = [c \in Priced |-> E(c)]
    BY <2>1 DEF Asked, Priced, lv
  <2> HIDE DEF E
  <2>4. \A c \in Priced : Asked(i, l)[c] = E(c)
    BY <2>2
  <2> QED BY <2>4 DEF E
<1> HIDE DEF money
<1>9. ASSUME NEW c \in Priced PROVE Charge(i, l)[c] = Asked(i, l)[c] /\ Charge(i, l)[c] \in Nat
  <2>1. CASE c = "seconds"
    <3>1. Charge(i, l)[c] = cat.seconds
      <4>1. c \notin Ores
        BY <2>1 DEF Ores
      <4> QED BY <1>2, <1>7, <2>1, <4>1
    <3>2. Asked(i, l)[c] = lv.build_time + lv.upgrade_time
      BY <1>8, <2>1
    <3> QED BY <1>1, <1>6, <3>1, <3>2
  <2>2. CASE c \in Ores
    <3>0. c # "seconds" /\ c # money
      BY <1>2, <2>2 DEF Ores
    <3>1. Charge(i, l)[c] = cat.ore[c]
      BY <1>7, <2>2, <3>0
    <3>2. Asked(i, l)[c] = IF SectionOf[i] = "equipment" THEN lv.upgrade_cost[c] ELSE 0
      BY <1>8, <2>2, <3>0
    <3> QED BY <1>1, <1>3, <1>6, <2>2, <3>1, <3>2
  <2>3. CASE c # "seconds" /\ c \notin Ores
    <3>1. Charge(i, l)[c] = IF c = money THEN cat.cost ELSE 0
      BY <1>7, <2>3
    <3>2. Asked(i, l)[c] = IF SectionOf[i] # "equipment" /\ c = money THEN lv.build_cost + lv.upgrade_cost
                           ELSE 0
      BY <1>8, <2>3
    <3> QED BY <1>1, <1>3, <1>6, <3>1, <3>2
  <2> QED BY <2>1, <2>2, <2>3
<1>10. Charge(i, l) = Asked(i, l)
  <2>1. /\ Charge(i, l) = [c \in Priced |-> Charge(i, l)[c]]
        /\ Asked(i, l) = [c \in Priced |-> Asked(i, l)[c]]
    BY PricesAreFunctions
  <2> QED BY <1>9, <2>1
<1>11. DOMAIN Charge(i, l) = Priced
  BY DEF Charge, Priced
<1> QED BY <1>9, <1>10, <1>11

\* The price of some steps is the first one's and that of the rest.
LEMMA BetweenIs ==
  ASSUME NEW i \in Leveled \cap Known, NEW a \in Nat, NEW b \in Nat, NEW c \in Priced
  PROVE  /\ Between(i, a, b)[c] \in Nat
         /\ (b <= a \/ Len(Levels(i)) <= a) => Between(i, a, b)[c] = 0
         /\ a < b /\ a < Len(Levels(i)) =>
              /\ Charge(i, a + 1)[c] \in Nat /\ Between(i, a + 1, b)[c] \in Nat
              /\ Between(i, a, b)[c] = Charge(i, a + 1)[c] + Between(i, a + 1, b)[c]
<1> DEFINE N    == Min({b, Len(Levels(i))})
           F(k) == [l \in (k + 1)..N |-> Charge(i, l)[c]]
<1>1. Len(Levels(i)) \in Nat /\ Len(Levels(i)) = Len(Table(i)) /\ DOMAIN Table(i) = 1..Len(Table(i))
  BY CatalogIsTables
<1>2. N \in {b, Len(Levels(i))} /\ N <= b /\ N <= Len(Levels(i)) /\ N \in Nat
  <2> DEFINE M == b + Len(Levels(i))
             S == {b, Len(Levels(i))}
  <2>1. M \in Nat /\ S \in SUBSET (0..M) /\ S # {}
    BY <1>1
  <2>2. Min(S) \in S /\ \A m \in S : Min(S) <= m
    <3> HIDE DEF M, S
    <3> QED BY <2>1, Greatest
  <2> QED BY <1>1, <2>2
<1>3. \A k \in Nat : Between(i, k, b)[c] = SumFunction(F(k))
  BY DEF Between, Priced
<1> HIDE DEF N
<1>4. \A k \in Nat : F(k) \in [(k + 1)..N -> Nat] /\ IsFiniteSet((k + 1)..N)
  <2> SUFFICES ASSUME NEW k \in Nat PROVE F(k) \in [(k + 1)..N -> Nat] /\ IsFiniteSet((k + 1)..N)
    OBVIOUS
  <2>1. \A l \in (k + 1)..N : l \in DOMAIN Table(i)
    BY <1>1, <1>2
  <2>2. \A l \in DOMAIN Table(i) : Charge(i, l)[c] \in Nat
    BY ChargeIsAsked
  <2>3. F(k) \in [(k + 1)..N -> Nat]
    BY <2>1, <2>2
  <2>4. IsFiniteSet((k + 1)..N)
    <3>1. k + 1 \in Int /\ N \in Int
      BY <1>2
    <3> QED BY <3>1, FS_Interval
  <2> HIDE DEF F
  <2> QED BY <2>3, <2>4
<1> HIDE DEF F
<1>5. \A k \in Nat : SumFunction(F(k)) \in Nat
  BY <1>4, SumTakes
<1>6. ASSUME b <= a \/ Len(Levels(i)) <= a PROVE SumFunction(F(a)) = 0
  <2>1. (a + 1)..N = {}
    BY <1>1, <1>2, <1>6
  <2> QED BY <1>4, <2>1, SumTakes
<1>7. ASSUME a < b, a < Len(Levels(i))
      PROVE  /\ Charge(i, a + 1)[c] \in Nat
             /\ SumFunction(F(a)) = Charge(i, a + 1)[c] + SumFunction(F(a + 1))
  <2>1. a + 1 \in (a + 1)..N
    BY <1>1, <1>2, <1>7
  <2>2. SumFunction(F(a)) = F(a)[a + 1] + SumFunction(Part(F(a), ((a + 1)..N) \ {a + 1}))
    <3> DEFINE S == (a + 1)..N
               f == F(a)
    <3>1. f \in [S -> Nat] /\ IsFiniteSet(S) /\ a + 1 \in S
      BY <1>4, <2>1
    <3> HIDE DEF S, f
    <3>2. SumFunction(f) = f[a + 1] + SumFunction(Part(f, S \ {a + 1}))
      BY <3>1, SumTakes
    <3> QED BY <3>2 DEF S, f
  <2>3. Part(F(a), ((a + 1)..N) \ {a + 1}) = F(a + 1)
    <3>1. ((a + 1)..N) \ {a + 1} = ((a + 1) + 1)..N
      BY <1>2
    <3>2. \A l \in ((a + 1) + 1)..N : F(a)[l] = Charge(i, l)[c]
      BY <3>1 DEF F
    <3> QED BY <3>1, <3>2 DEF Part, F
  <2>4. F(a)[a + 1] = Charge(i, a + 1)[c]
    BY <2>1 DEF F
  <2>5. F(a)[a + 1] \in Nat
    BY <1>4, <2>1
  <2> QED BY <2>2, <2>3, <2>4, <2>5
<1>8. a + 1 \in Nat
  OBVIOUS
<1> QED BY <1>3, <1>5, <1>6, <1>7, <1>8

\* One step costs what its level does.
LEMMA OneStep ==
  ASSUME NEW i \in Leveled \cap Known, NEW a \in Nat, a + 1 \in DOMAIN Table(i)
  PROVE  Between(i, a, a + 1) = Asked(i, a + 1)
<1>1. Charge(i, a + 1) = Asked(i, a + 1) /\ DOMAIN Charge(i, a + 1) = Priced
  BY ChargeIsAsked
<1>2. a < Len(Levels(i))
  BY CatalogIsTables
<1>3. ASSUME NEW c \in Priced PROVE Between(i, a, a + 1)[c] = Charge(i, a + 1)[c]
  <2>1. /\ Charge(i, a + 1)[c] \in Nat
        /\ Between(i, a, a + 1)[c] = Charge(i, a + 1)[c] + Between(i, a + 1, a + 1)[c]
    BY <1>2, BetweenIs
  <2>2. Between(i, a + 1, a + 1)[c] = 0
    <3>1. a + 1 \in Nat /\ a + 1 <= a + 1
      OBVIOUS
    <3> QED BY <3>1, BetweenIs
  <2> QED BY <2>1, <2>2
<1> QED BY <1>1, <1>3, PricesAreFunctions

-----------------------------------------------------------------------------
(* Suggestions.                                                            *)

\* What is shown of an item, and the items shown.
Stat(e, i) == ItemStat([i |-> i, top |-> Reachable(i, GatesAt(e, now)), at |-> Levelled(e, i)])
Shown(e)   == {i \in {r[1] : r \in BagToSet(e.rows)} \cap Leveled : GroupOf[i] \in Groups(VillageOf[i])}

\* The statistics are one for each item shown.
LEMMA StatsAre ==
  ASSUME NEW e
  PROVE  /\ Stats(e, now) = {Stat(e, i) : i \in Shown(e)}
         /\ \A i : /\ Stat(e, i).id = i /\ Stat(e, i).reachable = Reachable(i, GatesAt(e, now))
                   /\ Stat(e, i).buckets = Levelled(e, i)
<1> DEFINE Of   == {[i |-> i, top |-> Reachable(i, GatesAt(e, now)), at |-> Levelled(e, i)] : i \in Shown(e)}
<1>1. Stats(e, now) = {ItemStat(x) : x \in Of}
  BY DEF Stats, Levelled, Shown
<1>2. {ItemStat(x) : x \in Of} = {Stat(e, i) : i \in Shown(e)}
  BY DEF Stat
<1>3. \A i : /\ Stat(e, i).id = i /\ Stat(e, i).reachable = Reachable(i, GatesAt(e, now))
             /\ Stat(e, i).buckets = Levelled(e, i)
  BY DEF Stat, ItemStat
<1> QED BY <1>1, <1>2, <1>3

\* The levels an item shown is counted at.
LEMMA LevelsCounted ==
  ASSUME NEW e, IsABag(e.rows), BagToSet(e.rows) \subseteq Row, NEW i
  PROVE  /\ Finite(Levelled(e, i))
         /\ BagToSet(Levelled(e, i)) = {LevelNow(e, r, now) : r \in {r \in BagToSet(e.rows) : r[1] = i}}
         /\ BagToSet(Levelled(e, i)) \subseteq 0..(MaxLevel + 1)
         /\ i \in Shown(e) => BagToSet(Levelled(e, i)) # {}
<1> DEFINE T == {r \in BagToSet(e.rows) : r[1] = i}
<1>1. Levelled(e, i) = Im(LevelIn(e), Restrict(e.rows, T))
  BY LevelledIsImage
<1>2. Finite(e.rows) /\ T \in SUBSET BagToSet(e.rows)
  BY RowsAreFinite
<1>3. \A r \in T : LevelIn(e)[r] = LevelNow(e, r, now)
  BY DEF LevelIn
<1>4. i \in Shown(e) => T # {}
  BY DEF Shown
<1> HIDE DEF T
<1>5. Finite(Levelled(e, i)) /\ BagToSet(Levelled(e, i)) = {LevelIn(e)[r] : r \in T}
  BY <1>1, <1>2, ImageOfPart
<1>6. {LevelIn(e)[r] : r \in T} = {LevelNow(e, r, now) : r \in T}
  BY <1>3
<1>7. \A r \in T : LevelNow(e, r, now) \in 0..(MaxLevel + 1)
  <2> SUFFICES ASSUME NEW r \in T PROVE LevelNow(e, r, now) \in 0..(MaxLevel + 1)
    OBVIOUS
  <2>1. r[2] \in 0..MaxLevel /\ MaxLevel \in Nat
    BY <1>2, RowParts, AnalyzeAssumption
  <2> QED BY <2>1 DEF LevelNow
<1> QED BY <1>4, <1>5, <1>6, <1>7 DEF T

\* What is suggested of an export.
Low(e, i) == Min(BagToSet(Levelled(e, i)))
Pushed(e) == {i \in Shown(e) : 0 < Reachable(i, GatesAt(e, now)) /\ Low(e, i) < Reachable(i, GatesAt(e, now))}

\* What is suggested: a step for each item pushed.
LEMMA NextUpIs ==
  ASSUME NEW e
  PROVE  NextUp(Stats(e, now))
           = {Suggestion(i, Low(e, i), Between(i, Low(e, i), Low(e, i) + 1)) : i \in Pushed(e)}
<1> DEFINE Sug(x) == Suggestion(x.id, x.lowest, Between(x.id, x.lowest, x.lowest + 1))
           Is(i) == Suggestion(i, Low(e, i), Between(i, Low(e, i), Low(e, i) + 1))
           M == {x \in Stats(e, now) : x.reachable > 0 /\ x.lowest < x.reachable}
<1>1. NextUp(Stats(e, now)) = {Sug(x) : x \in M}
  BY DEF NextUp, Measured
<1>2. \A i : Stat(e, i).lowest = Low(e, i)
  BY DEF Stat, ItemStat, Low
<1>3. M = {Stat(e, i) : i \in Pushed(e)}
  BY <1>2, StatsAre DEF Pushed
<1>4. \A i : Sug(Stat(e, i)) = Is(i)
  BY <1>2, StatsAre
<1> HIDE DEF Sug, Is, M
<1>5. {Sug(x) : x \in {Stat(e, i) : i \in Pushed(e)}} = {Is(i) : i \in Pushed(e)}
  BY <1>4
<1> QED BY <1>1, <1>3, <1>5 DEF Is

\* A ceiling above a copy's level: the game allows the next level.
LEMMA CeilingIsAllowed ==
  ASSUME TypeOK, Earned, NEW i \in Leveled \cap Known, NEW r \in BagToSet(village), r[1] = i,
         r[2] < Reachable(i, GatesNow)
  PROVE  Allows(i, r[2] + 1, village)
<1> DEFINE l      == r[2] + 1
           top    == Reachable(i, GatesNow)
           needs  == Table(i)[l].needs
           column == Columns(Listing(i).category, Listing(i).raw.village)
<1>1. r \in Row /\ r[2] \in Nat /\ r[3] \in Nat /\ BagToSet(village) \subseteq Row
  BY RowParts DEF TypeOK
<1>2. /\ DOMAIN Levels(i) = DOMAIN Table(i) /\ DOMAIN Table(i) = 1..Len(Table(i)) /\ Len(Table(i)) \in Nat
  BY CatalogIsTables
<1>3. /\ top \in Nat /\ top \in DOMAIN Table(i)
      /\ top > 1 => Met(i, top, GatesNow)
  BY <1>1, <1>2, CeilingIs
<1> HIDE DEF top
<1>4. l \in DOMAIN Table(i) /\ l <= top /\ l \in Nat
  BY <1>1, <1>2, <1>3 DEF top
<1>5. CASE r[2] = 0
  <2>1. Heading(r) > 0 /\ \A m \in DOMAIN Table(i) : m <= Heading(r) => Allows(i, m, village)
    BY DEF Earned, LevelsAllowed
  <2>2. l <= Heading(r)
    BY <1>5, <2>1 DEF Heading
  <2> QED BY <1>4, <2>1, <2>2
<1>6. CASE r[2] # 0
  <2>1. l > 1 /\ top > 1
    BY <1>1, <1>3, <1>4, <1>6
  <2>2. \A c \in DOMAIN needs : needs[c] \in Nat
    BY <1>4, RequiresNeeds
  <2>3. ASSUME NEW c \in DOMAIN needs, c \in Range(column)
        PROVE  House(i)[c] \in GateNames /\ Built(Id[House(i)[c]], village) >= needs[c]
    <3>1. PICK g \in DOMAIN column : column[g] = c
      BY <2>3 DEF Range
    <3>2. g \in GateNames /\ House(i)[c] = g
      BY <3>1, ColumnsAreHouses
    <3>3. c \in DOMAIN Table(i)[top].needs /\ needs[c] <= Table(i)[top].needs[c]
      <4>1. l \in 1..top
        BY <1>3, <1>4, <2>1
      <4>2. \A m \in 1..top : \A d \in DOMAIN Table(i)[m].needs :
              d \in DOMAIN Table(i)[top].needs /\ Table(i)[m].needs[d] <= Table(i)[top].needs[d]
        BY <1>3, TablesAssumption
      <4> HIDE DEF l
      <4> QED BY <4>1, <4>2
    <3>4. /\ g \in DOMAIN Levels(i)[top].requires
          /\ Levels(i)[top].requires[g] = Table(i)[top].needs[c] /\ Table(i)[top].needs[c] \in Nat
      BY <1>3, <3>1, <3>3, RequiresNeeds
    <3>5. GatesNow[g] >= Table(i)[top].needs[c]
      BY <1>3, <2>1, <3>4 DEF Met
    <3>6. GatesNow[g] = Built(Id[g], village) /\ Built(Id[g], village) \in Nat
      BY <1>1, <3>2, GatesAreBuilt, BuiltIsHighest, AnalyzeAssumption
    <3> QED BY <2>2, <3>2, <3>3, <3>4, <3>5, <3>6
  <2>4. ASSUME NEW c \in DOMAIN needs, c \notin Range(column), SectionOf[i] # "units2"
        PROVE  Built(Id[House(i)[c]], village) >= needs[c]
    <3> DEFINE theirs == Id[House(i).lab]
               labs   == Table(theirs)[needs.lab].needs
    <3>1. /\ c = "townhall" /\ "lab" \in DOMAIN needs
          /\ theirs \in Leveled \cap Known /\ VillageOf[theirs] = VillageOf[i]
          /\ needs.lab \in DOMAIN Table(theirs) /\ c \in DOMAIN labs
          /\ needs[c] <= labs[c]
      BY <1>4, <2>1, <2>4, TablesAssumption
    <3>2. "lab" \in Range(column)
      <4>1. ASSUME "lab" \notin Range(column) PROVE FALSE
        <5>1. "lab" = "townhall"
          BY <1>4, <2>1, <2>4, <3>1, <4>1, TablesAssumption
        <5> QED BY <5>1
      <4> QED BY <4>1
    <3>3. VillageOf[i] = "home"
      <4>1. PICK g \in DOMAIN column : column[g] = "lab"
        BY <3>2 DEF Range
      <4> QED BY <2>4, <4>1, ColumnsAreHouses
    <3>4. House(i)["lab"] = "lab" /\ House(i)["townhall"] = "th" /\ House(theirs)["townhall"] = "th"
      BY <3>1, <3>3 DEF House
    <3> DEFINE k == needs.lab
    <3>5. Built(theirs, village) >= k
      BY <2>3, <3>1, <3>2
    <3>6. k \in Nat /\ k > 0
      BY <3>1, CatalogIsTables
    <3> HIDE DEF theirs, needs, column
    <3>7. PICK q \in BagToSet(village) : q[1] = theirs /\ q[2] = Built(theirs, village)
      BY <1>1, <3>5, <3>6, BuiltIsHighest, AnalyzeAssumption
    <3>8. k <= Heading(q)
      <4>1. q[2] \in Nat
        BY <1>1, RowParts
      <4> QED BY <3>5, <3>6, <3>7, <4>1 DEF Heading
    <3>9. Allows(theirs, k, village)
      BY <3>1, <3>7, <3>8 DEF Earned, LevelsAllowed
    <3>10. SectionOf[theirs] # "units2"
      BY <3>1, <3>3 DEF VillageOf, Sections
    <3>11. Built(Id["th"], village) >= labs[c]
      BY <3>1, <3>4, <3>9, <3>10 DEF Allows
    <3>12. labs[c] \in Nat /\ Built(Id["th"], village) \in Nat
      BY <1>1, <3>1, RequiresNeeds, BuiltIsHighest, AnalyzeAssumption
    <3>13. needs[c] \in Nat
      BY <2>2
    <3> QED BY <3>1, <3>4, <3>11, <3>12, <3>13
  <2>5. ASSUME NEW c \in DOMAIN needs, SectionOf[i] = "units2", c # "townhall", c \notin Range(column)
        PROVE  FALSE
    <3>1. DOMAIN needs \subseteq DOMAIN House(i)
      BY <1>4, GameAssumption
    <3>2. VillageOf[i] = "builder" /\ Listing(i).category = "troops" /\ Listing(i).raw.village = "builderBase"
      <4>1. VillageOf[i] = "builder"
        BY <2>5 DEF VillageOf, Sections, Leveled
      <4> QED BY <2>5, <4>1, SectionAssumption DEF CategoriesOf
    <3>3. c = "lab"
      BY <2>5, <3>1, <3>2 DEF House
    <3>4. column = [starlab |-> "lab"]
      BY <3>2 DEF Columns
    <3> QED BY <2>5, <3>3, <3>4 DEF Range
  <2>6. \A c \in DOMAIN needs : \/ SectionOf[i] = "units2" /\ c = "townhall"
                                \/ Built(Id[House(i)[c]], village) >= needs[c]
    BY <2>3, <2>4, <2>5
  <2> QED BY <1>4, <2>6 DEF Allows
<1> QED BY <1>5, <1>6

\* Copies of an item now, and its lowest.
Lowest(i) == Min({r[2] : r \in {r \in BagToSet(village) : r[1] = i}})

\* Of the village itself, the items pushed are those the game lets the player begin.
LEMMA PushedIsStartable ==
  ASSUME TypeOK, Earned
  PROVE  /\ Pushed(Current) = {i \in Leveled \cap Known :
                                 Owned(Current, i) > 0 /\ Allows(i, Lowest(i) + 1, village)}
         /\ \A i \in Pushed(Current) :
              Low(Current, i) = Lowest(i) /\ Between(i, Lowest(i), Lowest(i) + 1) = Asked(i, Lowest(i) + 1)
<1>1. /\ Current.rows = village /\ IsABag(village) /\ BagToSet(village) \subseteq Row /\ Finite(village)
      /\ GatesAt(Current, now) = GatesNow
  BY RowsAreFinite DEF TypeOK, Current, GatesNow
<1>2. ASSUME NEW i
      PROVE  /\ BagToSet(Levelled(Current, i)) = {r[2] : r \in {r \in BagToSet(village) : r[1] = i}}
             /\ Low(Current, i) = Lowest(i)
  <2>1. BagToSet(Levelled(Current, i))
          = {LevelNow(Current, r, now) : r \in {r \in BagToSet(village) : r[1] = i}}
    BY <1>1, LevelsCounted
  <2>2. \A r \in BagToSet(village) : LevelNow(Current, r, now) = r[2]
    BY GatesAreBuilt
  <2>3. {LevelNow(Current, r, now) : r \in {r \in BagToSet(village) : r[1] = i}}
          = {r[2] : r \in {r \in BagToSet(village) : r[1] = i}}
    BY <2>2
  <2> QED BY <2>1, <2>3 DEF Low, Lowest
<1>3. ASSUME NEW i PROVE Owned(Current, i) > 0 <=> \E r \in BagToSet(village) : r[1] = i
  <2> DEFINE T == {r \in BagToSet(village) : r[1] = i}
  <2>1. Owned(Current, i) = Tally(T, village)
    BY <1>1, OwnedIsTally
  <2>2. Tally(T, village) > 0 <=> T \cap BagToSet(village) # {}
    <3> HIDE DEF T
    <3> QED BY <1>1, TallyIsPositive
  <2> QED BY <2>1, <2>2
<1>4. ASSUME NEW i \in Leveled \cap Known, NEW q \in BagToSet(village), q[1] = i
      PROVE  /\ \E r \in BagToSet(village) : r[1] = i /\ r[2] = Lowest(i)
             /\ Lowest(i) \in Nat
             /\ Lowest(i) < Reachable(i, GatesNow) <=> Allows(i, Lowest(i) + 1, village)
  <2> DEFINE S == {r[2] : r \in {r \in BagToSet(village) : r[1] = i}}
  <2>1. S \in SUBSET (0..MaxLevel) /\ S # {} /\ MaxLevel \in Nat
    BY <1>1, <1>4, RowParts, AnalyzeAssumption
  <2>2. Lowest(i) \in S
    <3>1. Min(S) \in S
      <4> HIDE DEF S
      <4> QED BY <2>1, Greatest
    <3> QED BY <3>1 DEF Lowest
  <2>3. PICK r \in BagToSet(village) : r[1] = i /\ r[2] = Lowest(i)
    BY <2>2
  <2>4. Lowest(i) \in Nat
    BY <2>1, <2>2
  <2>5. Lowest(i) < Reachable(i, GatesNow) => Allows(i, Lowest(i) + 1, village)
    BY <2>3, CeilingIsAllowed
  <2>6. ASSUME Allows(i, Lowest(i) + 1, village) PROVE Lowest(i) < Reachable(i, GatesNow)
    <3>1. \A g \in GateNames : GatesNow[g] \in Nat /\ Built(Id[g], village) <= GatesNow[g]
      <4>1. \A j : Built(j, village) \in Nat
        BY <1>1, BuiltIsHighest, AnalyzeAssumption
      <4>2. \A g \in GateNames : GatesNow[g] = Built(Id[g], village)
        BY GatesAreBuilt
      <4> QED BY <4>1, <4>2
    <3>2. Lowest(i) + 1 \in DOMAIN Levels(i) /\ Met(i, Lowest(i) + 1, GatesNow)
      BY <1>1, <2>6, <3>1, AllowedIsMet
    <3>3. Lowest(i) + 1 <= Reachable(i, GatesNow) /\ Reachable(i, GatesNow) \in Nat
      BY <3>2, CeilingIs
    <3> QED BY <2>4, <3>3
  <2> QED BY <2>3, <2>4, <2>5, <2>6
<1>5. \A i \in Leveled \cap Known : GroupOf[i] \in Groups(VillageOf[i])
  BY SectionAssumption
<1>6. \A i : i \in Pushed(Current) <=>
               /\ i \in Leveled /\ \E r \in BagToSet(village) : r[1] = i
               /\ GroupOf[i] \in Groups(VillageOf[i])
               /\ 0 < Reachable(i, GatesNow) /\ Lowest(i) < Reachable(i, GatesNow)
  BY <1>1, <1>2 DEF Pushed, Shown
<1>7. \A i : i \notin Known => Reachable(i, GatesNow) = 0
  BY DEF Reachable
<1>8. ASSUME NEW i
      PROVE  i \in Pushed(Current) <=> /\ i \in Leveled \cap Known
                                       /\ Owned(Current, i) > 0 /\ Allows(i, Lowest(i) + 1, village)
  <2>1. CASE i \in Leveled \cap Known /\ \E r \in BagToSet(village) : r[1] = i
    <3>1. /\ Lowest(i) \in Nat /\ Reachable(i, GatesNow) \in Nat
          /\ Lowest(i) < Reachable(i, GatesNow) <=> Allows(i, Lowest(i) + 1, village)
      BY <1>4, <2>1, CeilingIs
    <3> QED BY <1>3, <1>5, <1>6, <2>1, <3>1
  <2>2. CASE ~(i \in Leveled \cap Known /\ \E r \in BagToSet(village) : r[1] = i)
    BY <1>3, <1>6, <1>7, <2>2
  <2> QED BY <2>1, <2>2
<1>9. ASSUME NEW i \in Pushed(Current)
      PROVE  Between(i, Lowest(i), Lowest(i) + 1) = Asked(i, Lowest(i) + 1)
  <2>1. /\ i \in Leveled \cap Known /\ Allows(i, Lowest(i) + 1, village)
        /\ \E r \in BagToSet(village) : r[1] = i
    BY <1>3, <1>8
  <2>2. Lowest(i) \in Nat /\ Lowest(i) + 1 \in DOMAIN Table(i)
    BY <1>4, <2>1 DEF Allows
  <2> QED BY <2>1, <2>2, OneStep
<1> QED BY <1>2, <1>8, <1>9

\* The next level of a hall has the game's price.
LEMMA HallPrice ==
  ASSUME TypeOK, NEW e, NEW v \in Villages, NEW p \in HallPreview(e, GatesNow, v)
  PROVE  p.price = Asked(Id[HallOf[v]], Built(Id[HallOf[v]], village) + 1)
<1> DEFINE h == Id[HallOf[v]]
           n == Built(h, village)
<1>1. h \in Leveled \cap Known
  BY HallAssumption
<1>2. GatesNow[HallOf[v]] = n
  <2>1. HallOf[v] \in GateNames
    BY DEF Villages, HallOf, GateNames
  <2> QED BY <2>1, GatesAreBuilt
<1>3. n \in 1..(Len(Levels(h)) - 1) /\ p.price = Between(h, n, n + 1)
  BY <1>1, <1>2 DEF HallPreview
<1>4. n \in Nat /\ n + 1 \in DOMAIN Table(h)
  BY <1>1, <1>3, CatalogIsTables
<1> QED BY <1>1, <1>3, <1>4, OneStep

\* What is suggested of an export the player waited since.
LEMMA SuggestionsHold ==
  ASSUME TypeOK, WaitingIsAging, Earned PROVE SuggestionsHonest
<1> SUFFICES ASSUME Waited PROVE SuggestionsHonest
  BY DEF SuggestionsHonest
<1>1. Waiting
  BY DEF Waiting
<1>2. Stats(seen, now) = Stats(Current, now) /\ GatesAt(seen, now) = GatesNow
  BY <1>1, StatsKeepUp, GatesKeepUp DEF GatesNow
<1> DEFINE startable == {i \in Leveled \cap Known :
                           Owned(Current, i) > 0 /\ Allows(i, Lowest(i) + 1, village)}
           Told(i) == Suggestion(i, Low(Current, i), Between(i, Low(Current, i), Low(Current, i) + 1))
           Meant(i) == Suggestion(i, Lowest(i), Asked(i, Lowest(i) + 1))
<1>3. NextUp(Stats(seen, now)) = {Meant(i) : i \in startable}
  <2>1. NextUp(Stats(seen, now)) = {Told(i) : i \in Pushed(Current)}
    BY <1>2, NextUpIs
  <2>2. Pushed(Current) = startable
    BY PushedIsStartable
  <2>3. \A i \in Pushed(Current) : Told(i) = Meant(i)
    <3> TAKE i \in Pushed(Current)
    <3>1. Low(Current, i) = Lowest(i) /\ Between(i, Lowest(i), Lowest(i) + 1) = Asked(i, Lowest(i) + 1)
      BY PushedIsStartable
    <3> QED BY <3>1
  <2> HIDE DEF Told, Meant, startable
  <2> QED BY <2>1, <2>2, <2>3
<1>4. \A v \in Villages : \A p \in HallPreview(seen, GatesAt(seen, now), v) :
        p.price = Asked(Id[HallOf[v]], Built(Id[HallOf[v]], village) + 1)
  BY <1>2, HallPrice
<1> QED BY <1>3, <1>4 DEF SuggestionsHonest, Lowest

\* However old the export is, while the player only waits the suggestions are the
\* steps the game would let begin at its price, for every catalog made of its
\* tables and every village.
THEOREM SuggestionsAreHonest == Spec => []SuggestionsHonest
<1>1. Init => TypeOK /\ Landable /\ WaitingIsAging /\ Earned
  BY InitTyped, InitWaits, InitEarned
<1>2. /\ TypeOK /\ Landable /\ WaitingIsAging /\ Earned /\ [Next]_vars
      => (TypeOK /\ Landable /\ WaitingIsAging /\ Earned)'
  BY NextTyped, NextWaits, NextEarned
<1>3. TypeOK /\ Landable /\ WaitingIsAging /\ Earned => SuggestionsHonest
  BY SuggestionsHold
<1> QED BY <1>1, <1>2, <1>3, PTL DEF Spec

-----------------------------------------------------------------------------
(* The panels.                                                             *)

\* What holds of the village's rows holds of the stored export's.
SeenAllowed ==
  \A r \in BagToSet(seen.rows) :
    /\ r[1] \in Leveled => Heading(r) > 0
    /\ r[1] \in Leveled \cap Known =>
         \A l \in DOMAIN Table(r[1]) : l <= Heading(r) => Allows(r[1], l, seen.rows)

\* The stored export is the village of some earlier moment.
LEMMA SeenStays ==
  ASSUME [Next]_vars
  PROVE  seen' = seen \/ (seen'.rows = village /\ village' = village)
<1>1. CASE Tick
  BY <1>1 DEF Tick
<1>2. CASE Capture
  BY <1>2 DEF Capture, Current
<1>3. CASE \E i \in Unbuilt : Build(i)
  BY <1>3 DEF Build, Climb
<1>4. CASE \E r \in BagToSet(village) : Upgrade(r)
  BY <1>4 DEF Upgrade, Climb
<1>5. CASE \E i \in Items : Helper(i) /\ Send(i)
  BY <1>5 DEF Send
<1>6. CASE \E i \in Items \ Leveled : Clear(i) \/ Grow(i)
  BY <1>6 DEF Clear, Grow
<1>7. CASE UNCHANGED vars
  BY <1>7 DEF vars
<1> QED BY <1>1, <1>2, <1>3, <1>4, <1>5, <1>6, <1>7 DEF Next

\* It holds at first,
LEMMA InitSeen == ASSUME TypeOK, Init PROVE SeenAllowed
<1>1. Earned /\ seen.rows = village
  BY InitEarned DEF Init, Current
<1> QED BY <1>1 DEF Earned, LevelsAllowed, SeenAllowed

\* and stays so: an export is a village that was.
LEMMA NextSeen == ASSUME TypeOK, Earned, SeenAllowed, [Next]_vars PROVE SeenAllowed'
<1>1. CASE seen' = seen
  BY <1>1 DEF SeenAllowed
<1>2. CASE seen'.rows = village /\ village' = village
  BY <1>2 DEF Earned, LevelsAllowed, SeenAllowed
<1> QED BY <1>1, <1>2, SeenStays

\* The gates read of an export are no lower than its buildings.
LEMMA GatesCover ==
  ASSUME NEW e, IsABag(e.rows), BagToSet(e.rows) \subseteq Row, NEW g \in GateNames
  PROVE  GatesAt(e, now)[g] \in Nat /\ Built(Id[g], e.rows) <= GatesAt(e, now)[g]
<1> DEFINE T == {r \in BagToSet(e.rows) : r[1] = Id[g]}
           S == {0} \cup {LevelNow(e, r, now) : r \in T}
<1>1. MaxLevel \in Nat
  BY AnalyzeAssumption
<1>2. \A r \in T : LevelNow(e, r, now) \in 0..(MaxLevel + 1) /\ r[2] <= LevelNow(e, r, now) /\ r[2] \in Nat
  <2> TAKE r \in T
  <2>1. r[2] \in 0..MaxLevel
    BY RowParts
  <2> QED BY <1>1, <2>1 DEF LevelNow
<1>3. GatesAt(e, now)[g] = Max(S)
  BY DEF GatesAt
<1>4. Max(S) \in S /\ (\A n \in S : n <= Max(S)) /\ S \in SUBSET (0..(MaxLevel + 1))
  <2>1. S \in SUBSET (0..(MaxLevel + 1)) /\ S # {} /\ MaxLevel + 1 \in Nat
    BY <1>1, <1>2
  <2> HIDE DEF S
  <2> QED BY <2>1, Greatest
<1>5. Max(S) \in Nat
  BY <1>4
<1>6. CASE Built(Id[g], e.rows) = 0
  BY <1>3, <1>5, <1>6
<1>7. CASE Built(Id[g], e.rows) # 0
  <2>1. PICK r \in T : r[2] = Built(Id[g], e.rows)
    BY <1>1, <1>7, BuiltIsHighest
  <2>2. LevelNow(e, r, now) \in S
    OBVIOUS
  <2>3. LevelNow(e, r, now) <= Max(S) /\ LevelNow(e, r, now) \in Nat
    BY <1>4, <2>2
  <2>4. r[2] <= LevelNow(e, r, now) /\ r[2] \in Nat
    BY <1>2
  <2> HIDE DEF S
  <2> QED BY <1>3, <1>5, <2>1, <2>3, <2>4
<1> QED BY <1>3, <1>5, <1>6, <1>7

\* A level counted is within the ceiling, or beyond the catalog.
LEMMA LevelsReach ==
  ASSUME TypeOK, SeenAllowed, NEW i \in Leveled \cap Known,
         NEW r \in BagToSet(seen.rows), r[1] = i
  PROVE  /\ LevelNow(seen, r, now) \in Nat /\ Heading(r) \in Nat /\ Heading(r) > 0
         /\ LevelNow(seen, r, now) <= Heading(r)
         /\ Heading(r) \in DOMAIN Levels(i) => Heading(r) <= Reachable(i, GatesAt(seen, now))
         /\ LevelNow(seen, r, now) <= Reachable(i, GatesAt(seen, now))
              \/ LevelNow(seen, r, now) > Len(Levels(i))
<1>1. r \in Row /\ r[2] \in Nat /\ r[3] \in Nat /\ IsABag(seen.rows) /\ BagToSet(seen.rows) \subseteq Row
  BY RowParts DEF TypeOK
<1>2. /\ LevelNow(seen, r, now) \in Nat /\ Heading(r) \in Nat
      /\ LevelNow(seen, r, now) <= Heading(r)
  BY <1>1 DEF LevelNow, Elapsed, Heading, Climbing
<1>3. \A l : l \in DOMAIN Table(i) /\ l <= Heading(r) => Allows(i, l, seen.rows)
  BY DEF SeenAllowed
<1>4. \A g \in GateNames : GatesAt(seen, now)[g] \in Nat /\ Built(Id[g], seen.rows) <= GatesAt(seen, now)[g]
  BY <1>1, GatesCover
<1>5. ASSUME NEW l \in DOMAIN Levels(i), l <= Heading(r)
      PROVE  l <= Reachable(i, GatesAt(seen, now))
  <2>1. l \in DOMAIN Table(i)
    BY CatalogIsTables
  <2>2. Met(i, l, GatesAt(seen, now))
    BY <1>1, <1>3, <1>4, <1>5, <2>1, AllowedIsMet
  <2> QED BY <2>2, CeilingIs
<1>6. Heading(r) > 0
  BY DEF SeenAllowed
<1>7. DOMAIN Levels(i) = 1..Len(Levels(i)) /\ Len(Levels(i)) \in Nat /\ Reachable(i, GatesAt(seen, now)) \in Nat
  BY CatalogIsTables, CeilingIs
<1>8. /\ LevelNow(seen, r, now) \in DOMAIN Levels(i) => LevelNow(seen, r, now) <= Reachable(i, GatesAt(seen, now))
      /\ Heading(r) \in DOMAIN Levels(i) => Heading(r) <= Reachable(i, GatesAt(seen, now))
  BY <1>2, <1>5
<1> QED BY <1>2, <1>6, <1>7, <1>8

\* A sum is at least any of its terms, and positive when one is.
LEMMA TermWithin ==
  ASSUME NEW S, IsFiniteSet(S), NEW f \in [S -> Nat]
  PROVE  /\ SumFunction(f) \in Nat
         /\ \A x \in S : f[x] <= SumFunction(f)
         /\ SumFunction(f) > 0 <=> \E x \in S : f[x] > 0
<1>1. SumFunction(f) \in Nat
  BY SumTakes
<1>2. ASSUME NEW x \in S PROVE f[x] <= SumFunction(f)
  <2>1. S \ {x} \in SUBSET S
    OBVIOUS
  <2>2. SumFunction(f) = f[x] + SumFunction(Part(f, S \ {x})) /\ SumFunction(Part(f, S \ {x})) \in Nat
    BY <2>1, SumTakes
  <2> QED BY <2>2
<1>3. ASSUME \A x \in S : ~(f[x] > 0) PROVE SumFunction(f) = 0
  <2>1. f = [x \in S |-> 0 * f[x]]
    <3>1. \A x \in S : f[x] = 0 * f[x]
      BY <1>3
    <3> QED BY <3>1
  <2>2. SumFunction([x \in S |-> 0 * f[x]]) = 0 * SumFunction(f)
    BY SumOfMultiples
  <2> QED BY <1>1, <2>1, <2>2
<1> QED BY <1>1, <1>2, <1>3

\* Products of natural numbers.
LEMMA Multiples ==
  ASSUME NEW k \in Nat, NEW a \in Nat, NEW b \in Nat
  PROVE  /\ k * a \in Nat
         /\ a <= b => k * a <= b * k
         /\ k > 0 /\ a < b => k * a < b * k
         /\ k > 0 => (k * a > 0 <=> a > 0)
         /\ k > 0 => a <= k * a
<1>1. k * a \in Nat /\ b * k = k * b
  OBVIOUS
<1>2. ASSUME a <= b PROVE k * a <= k * b
  <2>1. PICK d \in Nat : b = a + d
    <3>1. b - a \in Nat /\ b = a + (b - a)
      BY <1>2
    <3> QED BY <3>1
  <2>2. k * b = k * a + k * d /\ k * d \in Nat
    BY <2>1
  <2> QED BY <1>1, <2>2
<1>3. ASSUME k > 0, a < b PROVE k * a < k * b
  <2>1. PICK d \in Nat : b = a + 1 + d
    <3>1. b - a - 1 \in Nat /\ b = a + 1 + (b - a - 1)
      BY <1>3
    <3> QED BY <3>1
  <2>2. k * b = k * a + k + k * d /\ k * d \in Nat
    BY <2>1
  <2> QED BY <1>1, <1>3, <2>2
<1>4. ASSUME k > 0 PROVE a <= k * a
  <2>1. PICK j \in Nat : k = 1 + j
    <3>1. k - 1 \in Nat /\ k = 1 + (k - 1)
      BY <1>4
    <3> QED BY <3>1
  <2>2. k * a = a + j * a /\ j * a \in Nat
    BY <2>1
  <2> QED BY <2>2
<1>5. ASSUME k > 0 PROVE k * a > 0 <=> a > 0
  <2>1. a = 0 => k * a = 0
    OBVIOUS
  <2> QED BY <1>1, <1>4, <1>5, <2>1
<1> QED BY <1>1, <1>2, <1>3, <1>4, <1>5

\* What is left to a ceiling.
LEMMA LeftTo ==
  ASSUME NEW a \in Int
  PROVE  Max({a, 0}) = IF a > 0 THEN a ELSE 0
<1> DEFINE M == Max({a, 0})
<1>1. \E m \in {a, 0} : \A n \in {a, 0} : m >= n
  OBVIOUS
<1>2. M \in {a, 0} /\ \A n \in {a, 0} : M >= n
  BY <1>1 DEF Max
<1> HIDE DEF M
<1> QED BY <1>2 DEF M

\* The numbers of an item agree.
LEMMA ItemCounts ==
  ASSUME NEW i, NEW N \in Nat, NEW top \in Nat,
         NEW B, Finite(B), BagToSet(B) \subseteq 0..N, BagToSet(B) # {},
         NEW x, x = ItemStat([i |-> i, top |-> top, at |-> B])
  PROVE  /\ x.copies \in Nat /\ x.atMax \in Nat /\ x.steps \in Nat /\ x.done \in Nat /\ x.target \in Nat
         /\ x.lowest \in BagToSet(B) /\ x.highest \in BagToSet(B)
         /\ \A l \in BagToSet(B) : x.lowest <= l /\ l <= x.highest
         /\ x.done <= x.target /\ x.atMax <= x.copies
         /\ top = 0 => x.atMax = 0
         /\ top > 0 => /\ x.steps > 0 <=> x.lowest < top
                       /\ x.atMax < x.copies <=> x.lowest < top
                       /\ x.lowest < top => x.done < x.target
         /\ (\A l \in BagToSet(B) : l = top) => x.done = x.target
<1> DEFINE S == BagToSet(B)
           T == {l \in S : l >= top}
           m == Max({top} \cup S)
           f == [l \in S |-> B[l] * l]
           g == [l \in S |-> m * B[l]]
           h == [l \in S |-> B[l] * Max({top - l, 0})]
<1>1. /\ IsFiniteSet(S) /\ B \in [S -> Nat] /\ \A l \in S : B[l] \in Nat /\ B[l] > 0
  BY DEF Finite, IsABag, BagToSet
<1>2. \A l \in S : l \in Nat /\ l \in 0..N
  OBVIOUS
<1>3. /\ x.copies = Size(B) /\ x.lowest = Min(S) /\ x.highest = Max(S)
      /\ x.done = SumFunction(f) /\ x.target = m * Size(B)
      /\ x.atMax = IF top = 0 THEN 0 ELSE Size(Restrict(B, T))
      /\ x.steps = SumFunction(h)
  BY DEF ItemStat, StepsLeft, Total
<1>4. /\ Min(S) \in S /\ Max(S) \in S
      /\ \A l \in S : Min(S) <= l /\ l <= Max(S)
  <2> HIDE DEF S
  <2> QED BY <1>2, Greatest DEF S
<1>5. m \in Nat /\ top <= m /\ (\A l \in S : l <= m) /\ ((\A l \in S : l = top) => m = top)
  <2> DEFINE A == {top} \cup S
             M == top + N
  <2>1. M \in Nat /\ A \in SUBSET (0..M) /\ A # {}
    BY <1>2
  <2>2. Max(A) \in A /\ \A n \in A : n <= Max(A)
    <3> HIDE DEF A, M
    <3> QED BY <2>1, Greatest
  <2> QED BY <1>2, <2>2
<1> HIDE DEF m
<1>6. /\ f \in [S -> Nat] /\ g \in [S -> Nat]
      /\ \A l \in S : f[l] <= g[l]
      /\ \A l \in S : l < m => f[l] < g[l]
      /\ \A l \in S : l = m => f[l] = g[l]
  <2> SUFFICES ASSUME NEW l \in S
               PROVE  /\ f[l] \in Nat /\ g[l] \in Nat /\ f[l] <= g[l] /\ (l < m => f[l] < g[l])
                      /\ l = m => f[l] = g[l]
    OBVIOUS
  <2>1. B[l] \in Nat /\ B[l] > 0 /\ l \in Nat /\ m \in Nat /\ l <= m
    BY <1>1, <1>2, <1>5
  <2>2. f[l] = B[l] * l /\ g[l] = m * B[l]
    OBVIOUS
  <2>3. m * B[l] \in Nat /\ m * B[l] = B[l] * m
    BY <2>1
  <2> HIDE DEF f, g
  <2> QED BY <2>1, <2>2, <2>3, Multiples
<1>7. SumFunction(g) = m * Size(B) /\ Size(B) \in Nat
  <2>1. SumFunction(g) = m * SumFunction(B)
    <3> HIDE DEF S
    <3> QED BY <1>1, <1>5, SumOfMultiples
  <2>2. SumFunction(B) \in Nat
    <3> HIDE DEF S
    <3> QED BY <1>1, SumTakes
  <2> QED BY <2>1, <2>2 DEF Size
<1>8. h \in [S -> Nat] /\ \A l \in S : h[l] > 0 <=> l < top
  <2> SUFFICES ASSUME NEW l \in S PROVE h[l] \in Nat /\ (h[l] > 0 <=> l < top)
    OBVIOUS
  <2> DEFINE d == Max({top - l, 0})
  <2>1. B[l] \in Nat /\ B[l] > 0 /\ l \in Nat
    BY <1>1, <1>2
  <2>2. d = IF top - l > 0 THEN top - l ELSE 0
    <3>1. top - l \in Int
      BY <2>1
    <3> QED BY <3>1, LeftTo
  <2> HIDE DEF d
  <2>3. d \in Nat /\ (d > 0 <=> l < top)
    BY <2>1, <2>2
  <2>4. h[l] = B[l] * d
    BY DEF d
  <2> HIDE DEF h
  <2> QED BY <2>1, <2>3, <2>4, Multiples
<1> HIDE DEF f, g, h, T
<1>9. /\ SumFunction(f) \in Nat /\ SumFunction(g) \in Nat /\ SumFunction(f) <= SumFunction(g)
      /\ (\E l \in S : f[l] < g[l]) => SumFunction(f) < SumFunction(g)
  <2> HIDE DEF S
  <2>1. SumFunction(f) \in Nat /\ SumFunction(g) \in Nat
    BY <1>1, <1>6, SumTakes
  <2>2. /\ SumFunction(f) <= SumFunction(g)
        /\ (\E l \in S : f[l] < g[l]) => SumFunction(f) < SumFunction(g)
    BY <1>1, <1>6, SumsCompare
  <2> QED BY <2>1, <2>2
<1>10. SumFunction(h) \in Nat /\ (SumFunction(h) > 0 <=> \E l \in S : l < top)
  <2> HIDE DEF S
  <2> QED BY <1>1, <1>8, TermWithin
<1>11. (\E l \in S : l < top) <=> Min(S) < top
  BY <1>2, <1>4
<1>12. (\A l \in S : l = top) => SumFunction(f) = SumFunction(g)
  <2> SUFFICES ASSUME \A l \in S : l = top PROVE SumFunction(f) = SumFunction(g)
    OBVIOUS
  <2>1. \A l \in S : f[l] = g[l]
    <3>1. m = top
      BY <1>5
    <3> QED BY <1>6, <3>1
  <2>2. f = g
    BY <1>6, <2>1
  <2> QED BY <2>2
<1>13. /\ Size(Restrict(B, T)) \in Nat /\ Size(Restrict(B, T)) <= Size(B)
       /\ Size(Restrict(B, T)) < Size(B) <=> \E l \in S : l < top
  <2>1. T \in SUBSET S /\ T \cup (S \ T) = S /\ T \cap (S \ T) \cap S = {}
    BY DEF T
  <2>2. Size(Restrict(B, T)) = Tally(T, B) /\ Size(B) = Tally(S, B)
    BY <2>1, SizeOfPart, SizeIsTally
  <2>3. Tally(S, B) = Tally(T, B) + Tally(S \ T, B)
    BY <2>1, TallySplits
  <2>4. Tally(S \ T, B) > 0 <=> (S \ T) \cap BagToSet(B) # {}
    BY TallyIsPositive
  <2>5. Tally(T, B) \in Nat /\ Tally(S \ T, B) \in Nat
    BY TallyTakes
  <2>6. (S \ T) \cap BagToSet(B) # {} <=> \E l \in S : l < top
    BY <1>2 DEF T
  <2> HIDE DEF S
  <2> QED BY <2>2, <2>3, <2>4, <2>5, <2>6
<1>14. m * Size(B) \in Nat
  BY <1>7, <1>9
<1>15. (\E l \in S : l < top) => \E l \in S : f[l] < g[l]
  <2> SUFFICES ASSUME NEW l \in S, l < top PROVE f[l] < g[l]
    OBVIOUS
  <2>1. l < m
    BY <1>2, <1>5
  <2> QED BY <1>6, <2>1
<1> HIDE DEF S
<1>16. x.done <= x.target /\ (x.lowest < top => x.done < x.target) /\ x.done \in Nat /\ x.target \in Nat
  BY <1>3, <1>7, <1>9, <1>11, <1>15
<1>17. x.copies \in Nat /\ x.atMax \in Nat /\ x.steps \in Nat /\ x.atMax <= x.copies
  BY <1>3, <1>7, <1>10, <1>13
<1>18. top > 0 => /\ x.steps > 0 <=> x.lowest < top
                  /\ x.atMax < x.copies <=> x.lowest < top
  BY <1>3, <1>10, <1>11, <1>13
<1>19. /\ x.lowest \in S /\ x.highest \in S /\ \A l \in S : x.lowest <= l /\ l <= x.highest
  BY <1>3, <1>4
<1>20. (\A l \in S : l = top) => x.done = x.target
  BY <1>3, <1>7, <1>12
<1> QED BY <1>3, <1>16, <1>17, <1>18, <1>19, <1>20 DEF S

\* The price of what is left covers the next step of any copy.
LEMMA PriceCovers ==
  ASSUME NEW i \in Leveled \cap Known, NEW N \in Nat, NEW top \in DOMAIN Levels(i),
         NEW B, Finite(B), BagToSet(B) \subseteq 0..N, NEW c \in Priced
  PROVE  /\ CostLeft(i, B, top)[c] \in Nat
         /\ \A l \in BagToSet(B) : l < top => Between(i, l, l + 1)[c] <= CostLeft(i, B, top)[c]
<1> DEFINE S == BagToSet(B)
           w == [l \in S |-> Between(i, l, top)[c]]
           f == [l \in S |-> B[l] * Between(i, l, top)[c]]
<1>1. /\ IsFiniteSet(S) /\ \A l \in S : B[l] \in Nat /\ B[l] > 0
  BY DEF Finite, IsABag, BagToSet
<1>2. top \in Nat /\ top > 0 /\ top <= Len(Levels(i)) /\ Len(Levels(i)) \in Nat
      /\ DOMAIN Levels(i) = 1..Len(Levels(i)) /\ DOMAIN Table(i) = DOMAIN Levels(i)
  BY CatalogIsTables
<1>3. CostLeft(i, B, top)[c] = SumFunction(f)
  BY <1>2 DEF CostLeft, Total, Priced
<1>4. \A l \in S : l \in Nat
  OBVIOUS
<1>5. \A l \in S : f[l] \in Nat /\ Between(i, l, top)[c] \in Nat /\ Between(i, l, top)[c] <= f[l]
  <2> TAKE l \in S
  <2>1. Between(i, l, top)[c] \in Nat
    BY <1>2, <1>4, BetweenIs
  <2>2. f[l] = B[l] * Between(i, l, top)[c]
    OBVIOUS
  <2> HIDE DEF f
  <2> QED BY <1>1, <2>1, <2>2, Multiples
<1>6. f \in [S -> Nat]
  BY <1>5
<1>7. SumFunction(f) \in Nat /\ \A l \in S : f[l] <= SumFunction(f)
  <2> HIDE DEF f, S
  <2> QED BY <1>1, <1>6, TermWithin
<1>8. ASSUME NEW l \in S, l < top PROVE Between(i, l, l + 1)[c] <= Between(i, l, top)[c]
  <2>1. l \in Nat /\ l + 1 \in Nat /\ l < l + 1 /\ l < Len(Levels(i))
    BY <1>2, <1>4, <1>8
  <2>2. /\ Between(i, l, l + 1)[c] = Charge(i, l + 1)[c] + Between(i, l + 1, l + 1)[c]
        /\ Between(i, l + 1, l + 1)[c] = 0 /\ Charge(i, l + 1)[c] \in Nat
    <3>1. l + 1 <= l + 1
      BY <2>1
    <3>2. Between(i, l + 1, l + 1)[c] = 0
      BY <2>1, <3>1, BetweenIs
    <3> QED BY <2>1, <3>2, BetweenIs
  <2>3. /\ Between(i, l, top)[c] = Charge(i, l + 1)[c] + Between(i, l + 1, top)[c]
        /\ Between(i, l + 1, top)[c] \in Nat
    BY <1>2, <1>8, <2>1, BetweenIs
  <2> QED BY <2>2, <2>3
<1>9. ASSUME NEW l \in S, l < top PROVE Between(i, l, l + 1)[c] <= CostLeft(i, B, top)[c]
  <2>1. Between(i, l, l + 1)[c] \in Nat
    BY <1>4, <1>9, BetweenIs
  <2>2. /\ Between(i, l, top)[c] \in Nat /\ Between(i, l, top)[c] <= f[l] /\ f[l] \in Nat
        /\ f[l] <= SumFunction(f)
    BY <1>5, <1>7
  <2>3. Between(i, l, l + 1)[c] <= Between(i, l, top)[c]
    BY <1>8, <1>9
  <2> HIDE DEF f
  <2> QED BY <1>3, <1>7, <2>1, <2>2, <2>3
<1> QED BY <1>3, <1>7, <1>9

\* The statistics of a stored export: what is counted and how it adds up.
LEMMA SeenCounts ==
  ASSUME TypeOK, NEW i \in Shown(seen), NEW x, x = Stat(seen, i)
  PROVE  /\ i \in Leveled /\ x.id = i
         /\ x.reachable \in Nat /\ x.reachable = Reachable(i, GatesAt(seen, now))
         /\ x.copies \in Nat /\ x.atMax \in Nat /\ x.steps \in Nat /\ x.done \in Nat /\ x.target \in Nat
         /\ x.done <= x.target /\ x.atMax <= x.copies
         /\ x.reachable = 0 => x.atMax = 0
         /\ x.reachable > 0 =>
              /\ i \in Known /\ x.reachable \in DOMAIN Levels(i)
              /\ x.steps > 0 <=> x.lowest < x.reachable
              /\ x.atMax < x.copies <=> x.lowest < x.reachable
              /\ x.lowest < x.reachable => x.done < x.target
              /\ x.lowest < x.reachable =>
                   \A c \in Priced : Between(i, x.lowest, x.lowest + 1)[c] <= x.price[c]
<1> DEFINE B   == Levelled(seen, i)
           top == Reachable(i, GatesAt(seen, now))
           N   == MaxLevel + 1
<1>1. IsABag(seen.rows) /\ BagToSet(seen.rows) \subseteq Row /\ N \in Nat
  BY AnalyzeAssumption DEF TypeOK
<1>2. Finite(B) /\ BagToSet(B) \subseteq 0..N /\ BagToSet(B) # {}
  BY <1>1, LevelsCounted
<1>3. i \in Leveled
  BY DEF Shown
<1>4. x = ItemStat([i |-> i, top |-> top, at |-> B])
  BY DEF Stat
<1>5. top \in Nat /\ (top > 0 => i \in Known /\ top \in DOMAIN Levels(i))
  <2>1. CASE i \in Known
    BY <1>3, <2>1, CeilingIs
  <2>2. CASE i \notin Known
    BY <2>2 DEF Reachable
  <2> QED BY <2>1, <2>2
<1>6. x.id = i /\ x.reachable = top /\ x.price = CostLeft(i, B, top)
  BY <1>4 DEF ItemStat
<1> HIDE DEF B, top, N
<1>7. /\ x.copies \in Nat /\ x.atMax \in Nat /\ x.steps \in Nat /\ x.done \in Nat /\ x.target \in Nat
      /\ x.lowest \in BagToSet(B)
      /\ x.done <= x.target /\ x.atMax <= x.copies
      /\ top = 0 => x.atMax = 0
      /\ top > 0 => /\ x.steps > 0 <=> x.lowest < top
                    /\ x.atMax < x.copies <=> x.lowest < top
                    /\ x.lowest < top => x.done < x.target
  BY <1>1, <1>2, <1>4, <1>5, ItemCounts
<1>8. ASSUME top > 0, x.lowest < top, NEW c \in Priced
      PROVE  Between(i, x.lowest, x.lowest + 1)[c] <= x.price[c]
  BY <1>1, <1>2, <1>3, <1>5, <1>6, <1>7, <1>8, PriceCovers
<1> QED BY <1>3, <1>5, <1>6, <1>7, <1>8 DEF top

\* An item none of whose copies is below the ceiling, or beyond the catalog, is
\* complete.
LEMMA CompleteItem ==
  ASSUME TypeOK, SeenAllowed, NEW i \in Shown(seen), NEW x, x = Stat(seen, i)
  PROVE  x.reachable > 0 /\ ~(x.lowest < x.reachable) /\ ~(x.highest > Len(Levels(i)))
           => x.done = x.target
<1> DEFINE B   == Levelled(seen, i)
           top == Reachable(i, GatesAt(seen, now))
           N   == MaxLevel + 1
<1>1. IsABag(seen.rows) /\ BagToSet(seen.rows) \subseteq Row /\ N \in Nat
  BY AnalyzeAssumption DEF TypeOK
<1>2. /\ Finite(B) /\ BagToSet(B) \subseteq 0..N /\ BagToSet(B) # {}
      /\ BagToSet(B) = {LevelNow(seen, r, now) : r \in {r \in BagToSet(seen.rows) : r[1] = i}}
  BY <1>1, LevelsCounted
<1>3. /\ x.reachable = top /\ top \in Nat
      /\ x.reachable > 0 => i \in Leveled \cap Known /\ Len(Levels(i)) \in Nat
  <2>1. /\ x.reachable = top /\ top \in Nat
        /\ x.reachable > 0 => i \in Leveled \cap Known
    BY SeenCounts
  <2> QED BY <2>1, CeilingIs
<1>4. x = ItemStat([i |-> i, top |-> top, at |-> B])
  BY DEF Stat
<1>5. x.reachable > 0 => \A l \in BagToSet(B) : l <= top \/ l > Len(Levels(i))
  BY <1>2, <1>3, LevelsReach
<1> HIDE DEF B, top, N
<1>6. /\ x.lowest \in BagToSet(B) /\ x.highest \in BagToSet(B)
      /\ \A l \in BagToSet(B) : x.lowest <= l /\ l <= x.highest
      /\ (\A l \in BagToSet(B) : l = top) => x.done = x.target
  <2>1. Finite(B) /\ BagToSet(B) \subseteq 0..N /\ BagToSet(B) # {} /\ N \in Nat /\ top \in Nat
    BY <1>1, <1>2, <1>3
  <2> QED BY <2>1, <1>4, ItemCounts
<1>7. \A l \in BagToSet(B) : l \in Nat
  BY <1>1, <1>2
<1>8. ASSUME x.reachable > 0, ~(x.lowest < x.reachable), ~(x.highest > Len(Levels(i)))
      PROVE  \A l \in BagToSet(B) : l = top
  <2> TAKE l \in BagToSet(B)
  <2>1. x.lowest <= l /\ l <= x.highest /\ x.lowest \in Nat /\ x.highest \in Nat /\ l \in Nat
    BY <1>6, <1>7
  <2>2. ~(x.lowest < top) /\ top \in Nat /\ Len(Levels(i)) \in Nat
    BY <1>3, <1>8
  <2>3. l <= top \/ l > Len(Levels(i))
    BY <1>5, <1>8
  <2> QED BY <1>8, <2>1, <2>2, <2>3
<1> QED BY <1>6, <1>8

\* The image of a finite set.
LEMMA ImageIsFinite ==
  ASSUME NEW S, IsFiniteSet(S), NEW h
  PROVE  IsFiniteSet({h[x] : x \in S})
<1> DEFINE T == {h[x] : x \in S}
           f == [x \in S |-> h[x]]
<1>1. f \in Surjection(S, T)
  BY DEF Surjection
<1> HIDE DEF f, T
<1>2. IsFiniteSet(T)
  BY <1>1, FS_Surjection
<1> QED BY <1>2 DEF T

\* The statistics of what is shown, as the panels read them.
Sound(s) ==
  /\ IsFiniteSet(s)
  /\ \A x \in s : \A y \in s : x.id = y.id => x = y
  /\ \A x \in s :
       /\ x.copies \in Nat /\ x.atMax \in Nat /\ x.steps \in Nat /\ x.done \in Nat /\ x.target \in Nat
       /\ x.reachable \in Nat /\ x.done <= x.target /\ x.atMax <= x.copies
       /\ x.reachable = 0 => x.atMax = 0
  /\ \A x \in Measured(s) :
       /\ x.steps > 0 <=> x.lowest < x.reachable
       /\ x.atMax < x.copies <=> x.lowest < x.reachable
       /\ x.lowest < x.reachable => x.done < x.target
       /\ x.lowest < x.reachable =>
            \A c \in Priced : Between(x.id, x.lowest, x.lowest + 1)[c] <= x.price[c]
       /\ x.id \in Known /\ Levels(x.id) # <<>>
       /\ ~(x.lowest < x.reachable) /\ ~(x.highest > Len(Levels(x.id))) => x.done = x.target

\* The stored export's are sound.
LEMMA SeenIsSound ==
  ASSUME TypeOK, SeenAllowed
  PROVE  Sound(Stats(seen, now))
<1> DEFINE s == Stats(seen, now)
<1>1. s = {Stat(seen, i) : i \in Shown(seen)}
  BY StatsAre
<1>2. IsFiniteSet(s)
  <2>1. Shown(seen) \subseteq Items /\ IsFiniteSet(Items)
    BY AnalyzeAssumption DEF Shown, Leveled
  <2>2. IsFiniteSet(Shown(seen))
    BY <2>1, FS_Subset
  <2> DEFINE h == [i \in Shown(seen) |-> Stat(seen, i)]
  <2>3. s = {h[i] : i \in Shown(seen)}
    BY <1>1
  <2> HIDE DEF h, s
  <2> QED BY <2>2, <2>3, ImageIsFinite
<1>3. \A x \in s : x.id \in Shown(seen) /\ x = Stat(seen, x.id)
  <2>1. \A i : Stat(seen, i).id = i
    BY StatsAre
  <2> QED BY <1>1, <2>1
<1> HIDE DEF s
<1>4. ASSUME NEW x \in s
      PROVE  /\ x.copies \in Nat /\ x.atMax \in Nat /\ x.steps \in Nat /\ x.done \in Nat /\ x.target \in Nat
             /\ x.reachable \in Nat /\ x.done <= x.target /\ x.atMax <= x.copies
             /\ x.reachable = 0 => x.atMax = 0
  BY <1>3, SeenCounts
<1>5. ASSUME NEW x \in s, x.reachable > 0
      PROVE  /\ x.steps > 0 <=> x.lowest < x.reachable
             /\ x.atMax < x.copies <=> x.lowest < x.reachable
             /\ x.lowest < x.reachable => x.done < x.target
             /\ x.lowest < x.reachable =>
                  \A c \in Priced : Between(x.id, x.lowest, x.lowest + 1)[c] <= x.price[c]
             /\ x.id \in Known /\ x.reachable \in DOMAIN Levels(x.id)
  BY <1>3, <1>5, SeenCounts
<1>6. ASSUME NEW x \in s, x.reachable > 0
      PROVE  /\ Levels(x.id) # <<>>
             /\ ~(x.lowest < x.reachable) /\ ~(x.highest > Len(Levels(x.id))) => x.done = x.target
  <2>1. Levels(x.id) # <<>>
    BY <1>5, <1>6
  <2>2. ~(x.lowest < x.reachable) /\ ~(x.highest > Len(Levels(x.id))) => x.done = x.target
    BY <1>3, <1>6, CompleteItem
  <2> QED BY <2>1, <2>2
<1>7. \A x \in s : \A y \in s : x.id = y.id => x = y
  BY <1>3
<1> QED BY <1>2, <1>4, <1>5, <1>6, <1>7 DEF Sound, Measured, s

\* The village and the group of an item shown, the group there, and a village's
\* groups.
Place(x)       == <<VillageOf[x.id], GroupOf[x.id]>>
GroupAt(s, p)  == Group([key |-> p[2], of |-> p[1], shown |-> {x \in s : Place(x) = p}])
GroupsIn(s, v) == {GroupAt(s, p) : p \in {Place(x) : x \in {x \in s : VillageOf[x.id] = v}}}
VillageAt(s, v) == Village([key |-> v, groups |-> GroupsIn(s, v)])

\* The panels are those of the villages shown.
LEMMA OverallIs ==
  ASSUME NEW s
  PROVE  Overall(s) = {VillageAt(s, v) : v \in {VillageOf[x.id] : x \in s}}
<1> DEFINE Slot(p) == [key |-> p[2], of |-> p[1], shown |-> {x \in s : Place(x) = p}]
           split   == {Slot(p) : p \in {Place(x) : x \in s}}
           Of(v)   == {Group(k) : k \in {k \in split : k.of = v}}
<1>1. Overall(s) = {Village(v) : v \in {[key |-> v, groups |-> Of(v)] : v \in {VillageOf[x.id] : x \in s}}}
  BY DEF Overall, Place
<1>2. ASSUME NEW v PROVE Of(v) = GroupsIn(s, v)
  <2>1. {k \in split : k.of = v} = {Slot(p) : p \in {Place(x) : x \in {x \in s : VillageOf[x.id] = v}}}
    <3>1. \A p : Slot(p).of = p[1]
      OBVIOUS
    <3>2. \A x : Place(x)[1] = VillageOf[x.id]
      BY DEF Place
    <3> HIDE DEF Slot
    <3> QED BY <3>1, <3>2
  <2>2. \A p : GroupAt(s, p) = Group(Slot(p))
    BY DEF GroupAt
  <2> HIDE DEF Slot, split
  <2> QED BY <2>1, <2>2 DEF GroupsIn
<1> HIDE DEF Of
<1>3. Overall(s) = {Village([key |-> v, groups |-> Of(v)]) : v \in {VillageOf[x.id] : x \in s}}
  BY <1>1
<1> QED BY <1>2, <1>3 DEF VillageAt

\* All there is of these is done.
AllDone(T) == \A x \in Measured(T) : x.done = x.target

\* What a group adds up to.
LEMMA GroupCounts ==
  ASSUME NEW s, Sound(s), NEW T \in SUBSET s, NEW p, NEW k,
         k = Group([key |-> p[2], of |-> p[1], shown |-> T])
  PROVE  /\ k.key = p[2] /\ k.items = {x.id : x \in T} /\ (k.measured <=> Measured(T) # {})
         /\ k.copies \in Nat /\ k.atMax \in Nat /\ k.steps \in Nat /\ k.done \in Nat /\ k.target \in Nat
         /\ k.steps = SumFunction([x \in Measured(T) |-> x.steps])
         /\ k.done <= k.target /\ k.atMax <= k.copies
         /\ ~k.measured => k.atMax = 0
         /\ AllDone(T) => k.target <= k.done
         /\ ~AllDone(T) => k.done < k.target
<1> DEFINE M      == Measured(T)
           copies == [x \in T |-> x.copies]
           atMax  == [x \in T |-> x.atMax]
           steps  == [x \in M |-> x.steps]
           done   == [x \in M |-> x.done]
           target == [x \in M |-> x.target]
<1>1. IsFiniteSet(T) /\ IsFiniteSet(M) /\ M \subseteq T
  <2>1. IsFiniteSet(s) /\ M \in SUBSET T
    BY DEF Sound, Measured
  <2>2. IsFiniteSet(T)
    BY <2>1, FS_Subset
  <2> QED BY <2>1, <2>2, FS_Subset
<1>2. /\ k.key = p[2] /\ k.items = {x.id : x \in T} /\ (k.measured <=> M # {})
      /\ k.copies = SumFunction(copies) /\ k.atMax = SumFunction(atMax) /\ k.steps = SumFunction(steps)
      /\ k.done = SumFunction(done) /\ k.target = SumFunction(target)
  BY DEF Group
<1>3. /\ copies \in [T -> Nat] /\ atMax \in [T -> Nat] /\ steps \in [M -> Nat]
      /\ done \in [M -> Nat] /\ target \in [M -> Nat]
      /\ \A x \in T : atMax[x] <= copies[x] /\ (x \notin M => atMax[x] = 0)
      /\ \A x \in M : done[x] <= target[x] /\ done[x] = x.done /\ target[x] = x.target
  <2>1. \A x \in T : /\ x.copies \in Nat /\ x.atMax \in Nat /\ x.steps \in Nat /\ x.done \in Nat
                     /\ x.target \in Nat /\ x.reachable \in Nat
                     /\ x.done <= x.target /\ x.atMax <= x.copies /\ (x.reachable = 0 => x.atMax = 0)
    BY DEF Sound
  <2>2. \A x \in T : x \notin M => x.reachable = 0
    BY <2>1 DEF Measured
  <2> HIDE DEF M
  <2> QED BY <1>1, <2>1, <2>2
<1>4. steps = [x \in Measured(T) |-> x.steps]
  OBVIOUS
<1> HIDE DEF M, copies, atMax, steps, done, target
<1>5. /\ SumFunction(copies) \in Nat /\ SumFunction(atMax) \in Nat /\ SumFunction(steps) \in Nat
      /\ SumFunction(done) \in Nat /\ SumFunction(target) \in Nat
  BY <1>1, <1>3, TermWithin
<1>6. SumFunction(atMax) <= SumFunction(copies)
  BY <1>1, <1>3, SumsCompare
<1>7. ASSUME M = {} PROVE SumFunction(atMax) = 0
  <2>1. SumFunction(atMax) > 0 <=> \E x \in T : atMax[x] > 0
    BY <1>1, <1>3, TermWithin
  <2> QED BY <1>3, <1>5, <1>7, <2>1
<1>8. /\ SumFunction(done) <= SumFunction(target)
      /\ SumFunction(done) = SumFunction(target) => \A x \in M : done[x] = target[x]
  BY <1>1, <1>3, SumsCompare
<1>9. ASSUME \A x \in M : x.done = x.target PROVE SumFunction(done) = SumFunction(target)
  <2>1. done = target
    BY <1>3, <1>9
  <2> QED BY <2>1
<1> QED BY <1>2, <1>3, <1>4, <1>5, <1>6, <1>7, <1>8, <1>9 DEF M, AllDone

\* The groups of a village are those of its items, one for each place.
LEMMA GroupsAre ==
  ASSUME NEW s, Sound(s), NEW v
  PROVE  /\ IsFiniteSet(GroupsIn(s, v))
         /\ \A x \in s : GroupAt(s, Place(x)).key = GroupOf[x.id]
         /\ \A k \in GroupsIn(s, v) : \E y \in s : VillageOf[y.id] = v /\ k = GroupAt(s, Place(y))
         /\ \A x \in s : VillageOf[x.id] = v => GroupAt(s, Place(x)) \in GroupsIn(s, v)
<1> DEFINE T == {x \in s : VillageOf[x.id] = v}
           h == [x \in T |-> GroupAt(s, Place(x))]
<1>1. GroupsIn(s, v) = {h[x] : x \in T}
  BY DEF GroupsIn
<1>2. IsFiniteSet(T)
  BY FS_Subset DEF Sound
<1>3. IsFiniteSet(GroupsIn(s, v))
  <2> HIDE DEF h, T
  <2> QED BY <1>1, <1>2, ImageIsFinite
<1>4. \A x \in s : GroupAt(s, Place(x)).key = GroupOf[x.id]
  BY DEF GroupAt, Group, Place
<1>5. /\ \A x \in T : h[x] = GroupAt(s, Place(x))
      /\ \A x : x \in T <=> x \in s /\ VillageOf[x.id] = v
  OBVIOUS
<1> HIDE DEF h, T
<1> QED BY <1>1, <1>3, <1>4, <1>5

\* What a village adds up to.
LEMMA VillageCounts ==
  ASSUME NEW s, Sound(s), NEW v, NEW w, w = VillageAt(s, v)
  PROVE  /\ w.key = v /\ w.groups = GroupsIn(s, v)
         /\ w.done \in Nat /\ w.target \in Nat /\ w.steps \in Nat /\ w.atMax \in Nat /\ w.unmeasured \in Nat
         /\ w.copies \in Nat /\ w.done <= w.target /\ w.atMax + w.unmeasured <= w.copies
         /\ w.steps = SumFunction([x \in {x \in Measured(s) : VillageOf[x.id] = v} |-> x.steps])
<1> DEFINE P      == GroupsIn(s, v)
           U      == {k \in P : ~k.measured}
           copies == [k \in P |-> k.copies]
           atMax  == [k \in P |-> k.atMax]
           done   == [k \in P |-> k.done]
           target == [k \in P |-> k.target]
           steps  == [k \in P |-> k.steps]
           Here(p) == {x \in s : Place(x) = p}
<1>1. /\ w.key = v /\ w.groups = P
      /\ w.copies = SumFunction(copies) /\ w.atMax = SumFunction(atMax) /\ w.done = SumFunction(done)
      /\ w.target = SumFunction(target) /\ w.steps = SumFunction(steps)
      /\ w.unmeasured = SumFunction([k \in U |-> k.copies])
  BY DEF VillageAt, Village
<1>2. IsFiniteSet(P)
  BY GroupsAre
<1>3. \A x \in s : GroupAt(s, Place(x)) = Group([key |-> Place(x)[2], of |-> Place(x)[1], shown |-> Here(Place(x))])
  BY DEF GroupAt
<1>4. \A k \in P : /\ k.copies \in Nat /\ k.atMax \in Nat /\ k.steps \in Nat /\ k.done \in Nat
                   /\ k.target \in Nat /\ k.done <= k.target /\ k.atMax <= k.copies
                   /\ ~k.measured => k.atMax = 0
  <2> TAKE k \in P
  <2>1. PICK y \in s : k = GroupAt(s, Place(y))
    BY GroupsAre
  <2>2. Here(Place(y)) \in SUBSET s
    OBVIOUS
  <2> HIDE DEF Here, P
  <2>3. k = Group([key |-> Place(y)[2], of |-> Place(y)[1], shown |-> Here(Place(y))])
    BY <1>3, <2>1
  <2> QED BY <2>2, <2>3, GroupCounts
<1>5. /\ copies \in [P -> Nat] /\ atMax \in [P -> Nat] /\ done \in [P -> Nat] /\ target \in [P -> Nat]
      /\ steps \in [P -> Nat]
      /\ \A k \in P : /\ atMax[k] <= copies[k] /\ done[k] <= target[k] /\ steps[k] = k.steps
                      /\ k \in U => atMax[k] = 0
  BY <1>4
<1>6. [k \in U |-> k.copies] = Part(copies, U) /\ U \in SUBSET P
  BY DEF Part
<1> HIDE DEF P, U, copies, atMax, done, target
<1>7. /\ SumFunction(copies) \in Nat /\ SumFunction(atMax) \in Nat /\ SumFunction(steps) \in Nat
      /\ SumFunction(done) \in Nat /\ SumFunction(target) \in Nat
  <2> HIDE DEF steps
  <2> QED BY <1>2, <1>5, TermWithin
<1>8. SumFunction(done) <= SumFunction(target)
  BY <1>2, <1>5, SumsCompare
<1>9. /\ SumFunction(Part(copies, U)) \in Nat
      /\ SumFunction(atMax) + SumFunction(Part(copies, U)) <= SumFunction(copies)
  <2> DEFINE a == Part(atMax, P \ U)
             c == Part(copies, P \ U)
  <2>1. /\ SumFunction(copies) = SumFunction(Part(copies, U)) + SumFunction(c)
        /\ SumFunction(atMax) = SumFunction(Part(atMax, U)) + SumFunction(a)
    BY <1>2, <1>5, <1>6, SumSplits
  <2>2. /\ IsFiniteSet(U) /\ IsFiniteSet(P \ U) /\ a \in [P \ U -> Nat] /\ c \in [P \ U -> Nat]
        /\ Part(atMax, U) \in [U -> Nat] /\ SumFunction(Part(copies, U)) \in Nat
        /\ SumFunction(a) \in Nat /\ SumFunction(c) \in Nat /\ SumFunction(Part(atMax, U)) \in Nat
    <3>1. U \in SUBSET P /\ P \ U \in SUBSET P
      BY <1>6
    <3>2. IsFiniteSet(U) /\ IsFiniteSet(P \ U)
      BY <1>2, <3>1, FS_Subset
    <3> QED BY <1>2, <1>5, <3>1, <3>2, SumTakes
  <2>3. SumFunction(a) <= SumFunction(c)
    <3>1. \A k \in P \ U : a[k] <= c[k]
      BY <1>5 DEF Part
    <3> HIDE DEF a, c
    <3> QED BY <2>2, <3>1, SumsCompare
  <2>4. SumFunction(Part(atMax, U)) = 0
    <3>1. \A k \in U : Part(atMax, U)[k] = 0
      BY <1>5, <1>6 DEF Part
    <3>2. SumFunction(Part(atMax, U)) > 0 <=> \E k \in U : Part(atMax, U)[k] > 0
      BY <2>2, TermWithin
    <3> QED BY <2>2, <3>1, <3>2
  <2> HIDE DEF a, c
  <2> QED BY <2>1, <2>2, <2>3, <2>4
<1>10. SumFunction(steps) = SumFunction([x \in {x \in Measured(s) : VillageOf[x.id] = v} |-> x.steps])
  <2> DEFINE S     == {x \in Measured(s) : VillageOf[x.id] = v}
             f     == [x \in S |-> x.steps]
             class == [x \in S |-> GroupAt(s, Place(x))]
  <2>1. S \subseteq s /\ \A x \in S : VillageOf[x.id] = v
    BY DEF Measured
  <2>2. IsFiniteSet(S)
    BY <2>1, FS_Subset DEF Sound
  <2>3. f \in [S -> Nat]
    BY <2>1 DEF Sound
  <2>4. \A x \in S : class[x] \in P
    BY <2>1, GroupsAre DEF P
  <2>5. ASSUME NEW k \in P PROVE steps[k] = SumFunction(Part(f, {x \in S : class[x] = k}))
    <3>1. PICK y \in s : VillageOf[y.id] = v /\ k = GroupAt(s, Place(y))
      BY GroupsAre DEF P
    <3> DEFINE T == Here(Place(y))
    <3>2. \A x \in S : class[x] = k <=> Place(x) = Place(y)
      <4> TAKE x \in S
      <4>1. class[x] = GroupAt(s, Place(x)) /\ x \in s /\ VillageOf[x.id] = v
        BY <2>1
      <4>2. class[x] = k => GroupOf[x.id] = GroupOf[y.id]
        <5>1. GroupAt(s, Place(x)).key = GroupOf[x.id] /\ GroupAt(s, Place(y)).key = GroupOf[y.id]
          BY <4>1, GroupsAre
        <5> HIDE DEF class, S
        <5> QED BY <3>1, <4>1, <5>1
      <4> HIDE DEF class, S
      <4> QED BY <3>1, <4>1, <4>2 DEF Place
    <3>3. \A x : x \in Measured(T) <=> x \in S /\ Place(x) = Place(y)
      BY <3>1 DEF Measured, Place
    <3>4. Measured(T) = {x \in S : class[x] = k}
      <4> HIDE DEF S, class, T
      <4>1. \A x \in Measured(T) : x \in S
        BY <3>3
      <4> QED BY <3>2, <3>3, <4>1
    <3>5. Part(f, {x \in S : class[x] = k}) = [x \in Measured(T) |-> x.steps]
      <4>1. \A x \in Measured(T) : f[x] = x.steps
        BY <3>3
      <4>2. Part(f, Measured(T)) = [x \in Measured(T) |-> f[x]]
        BY DEF Part
      <4> HIDE DEF f, T, S, class
      <4> QED BY <3>4, <4>1, <4>2
    <3>6. steps[k] = k.steps
      BY <1>5
    <3>7. k.steps = SumFunction([x \in Measured(T) |-> x.steps])
      <4>1. T \in SUBSET s /\ k = Group([key |-> Place(y)[2], of |-> Place(y)[1], shown |-> T])
        BY <1>3, <3>1
      <4> HIDE DEF T
      <4> QED BY <4>1, GroupCounts
    <3> HIDE DEF T, f, S, class, steps
    <3> QED BY <3>5, <3>6, <3>7
  <2> HIDE DEF S, f, class, steps
  <2>6. SumFunction(steps) = SumFunction(f)
    <3>1. steps \in [P -> Nat]
      BY <1>5
    <3> QED BY <1>2, <2>2, <2>3, <2>4, <2>5, <3>1, SumOfClasses
  <2> QED BY <2>6 DEF f, S
<1> HIDE DEF steps, Here
<1> QED BY <1>1, <1>6, <1>7, <1>8, <1>9, <1>10 DEF P

\* The bill's steps are those of the villages.
LEMMA BillCounts ==
  ASSUME NEW s, Sound(s)
  PROVE  Bill(s).steps = SumFunction([v \in Overall(s) |-> v.steps])
<1> DEFINE S     == Measured(s)
           f     == [x \in S |-> x.steps]
           P     == Overall(s)
           w     == [v \in P |-> v.steps]
           class == [x \in S |-> VillageAt(s, VillageOf[x.id])]
<1>1. Bill(s).steps = SumFunction(f)
  BY DEF Bill
<1>2. P = {VillageAt(s, v) : v \in {VillageOf[x.id] : x \in s}}
  BY OverallIs
<1>3. S \in SUBSET s
  BY DEF Measured
<1>4. IsFiniteSet(S) /\ f \in [S -> Nat]
  BY <1>3, FS_Subset DEF Sound
<1>5. IsFiniteSet(P)
  <2> DEFINE h == [x \in s |-> VillageAt(s, VillageOf[x.id])]
  <2>1. P = {h[x] : x \in s}
    BY <1>2
  <2> HIDE DEF h, P
  <2> QED BY <2>1, ImageIsFinite DEF Sound
<1>6. \A x \in S : class[x] \in P
  BY <1>2, <1>3
<1>7. ASSUME NEW v PROVE VillageAt(s, v).key = v /\ VillageAt(s, v).steps \in Nat
  BY VillageCounts
<1>8. w \in [P -> Nat]
  BY <1>2, <1>7
<1>9. ASSUME NEW p \in P PROVE w[p] = SumFunction(Part(f, {x \in S : class[x] = p}))
  <2>1. PICK v : p = VillageAt(s, v)
    BY <1>2
  <2>2. {x \in S : class[x] = p} = {x \in S : VillageOf[x.id] = v}
    <3>1. \A x \in S : class[x] = VillageAt(s, VillageOf[x.id])
      OBVIOUS
    <3>2. \A x \in S : class[x] = p <=> VillageOf[x.id] = v
      <4> HIDE DEF class, S
      <4> QED BY <1>7, <2>1, <3>1
    <3> HIDE DEF class, S
    <3> QED BY <3>2
  <2>3. p.steps = SumFunction([x \in {x \in S : VillageOf[x.id] = v} |-> x.steps])
    BY <2>1, VillageCounts
  <2>4. Part(f, {x \in S : VillageOf[x.id] = v}) = [x \in {x \in S : VillageOf[x.id] = v} |-> x.steps]
    <3>1. \A x \in S : f[x] = x.steps
      OBVIOUS
    <3> HIDE DEF f, S
    <3> QED BY <3>1 DEF Part
  <2>5. w[p] = p.steps
    OBVIOUS
  <2> HIDE DEF f, S, w, class
  <2> QED BY <2>2, <2>3, <2>4, <2>5
<1> HIDE DEF S, f, P, w, class
<1>10. SumFunction(w) = SumFunction(f)
  BY <1>4, <1>5, <1>6, <1>8, <1>9, SumOfClasses
<1> QED BY <1>1, <1>10 DEF w, P

\* What is suggested of an item with a ceiling: one step, if its lowest copy is
\* below.
LEMMA SuggestedOf ==
  ASSUME NEW s, Sound(s), NEW x \in Measured(s),
         NEW listed, listed = {n \in NextUp(s) : n.item = x.id}
  PROVE  /\ listed # {} <=> x.lowest < x.reachable
         /\ \A n \in listed : n.price = Between(x.id, x.lowest, x.lowest + 1)
<1> DEFINE Sug(y) == Suggestion(y.id, y.lowest, Between(y.id, y.lowest, y.lowest + 1))
<1>1. NextUp(s) = {Sug(y) : y \in {y \in Measured(s) : y.lowest < y.reachable}}
  BY DEF NextUp
<1>2. \A y : Sug(y).item = y.id /\ Sug(y).price = Between(y.id, y.lowest, y.lowest + 1)
  BY DEF Suggestion
<1>3. \A y \in Measured(s) : y.id = x.id => y = x
  BY DEF Sound, Measured
<1> HIDE DEF Sug
<1> QED BY <1>1, <1>2, <1>3

\* The panels of sound statistics agree.
LEMMA ItemsAgree ==
  ASSUME NEW s, Sound(s), NEW x \in Measured(s),
         NEW listed, listed = {n \in NextUp(s) : n.item = x.id}
  PROVE  /\ (listed # {}) <=> x.steps > 0
         /\ (listed # {}) <=> x.atMax < x.copies
         /\ \A n \in listed : \A c \in DOMAIN n.price : n.price[c] <= x.price[c]
         /\ listed # {} => x.done < x.target
         /\ x.done <= x.target
<1>1. /\ listed # {} <=> x.lowest < x.reachable
      /\ \A n \in listed : n.price = Between(x.id, x.lowest, x.lowest + 1)
  BY SuggestedOf
<1>2. /\ x.steps > 0 <=> x.lowest < x.reachable
      /\ x.atMax < x.copies <=> x.lowest < x.reachable
      /\ x.lowest < x.reachable => x.done < x.target
      /\ x.lowest < x.reachable =>
           \A c \in Priced : Between(x.id, x.lowest, x.lowest + 1)[c] <= x.price[c]
  BY DEF Sound
<1>3. x.done <= x.target
  BY DEF Sound, Measured
<1>4. DOMAIN Between(x.id, x.lowest, x.lowest + 1) = Priced
  BY DEF Between, Priced
<1>5. ASSUME NEW n \in listed, NEW c \in DOMAIN n.price PROVE n.price[c] <= x.price[c]
  <2>1. n.price = Between(x.id, x.lowest, x.lowest + 1) /\ c \in Priced /\ x.lowest < x.reachable
    BY <1>1, <1>4, <1>5
  <2> QED BY <1>2, <2>1
<1> QED BY <1>1, <1>2, <1>3, <1>5

\* The items shown in the same group.
Beside(s, y) == {x \in s : Place(x) = Place(y)}

\* A group is done when all there is of its items is.
LEMMA GroupIsDone ==
  ASSUME NEW s, Sound(s), NEW y \in s
  PROVE  \A k : k = GroupAt(s, Place(y)) =>
           /\ k.items = {x.id : x \in Beside(s, y)}
           /\ k.done = k.target <=> \A x \in Measured(Beside(s, y)) : x.done = x.target
<1> TAKE k
<1>1. Beside(s, y) \in SUBSET s
  BY DEF Beside
<1>2. GroupAt(s, Place(y)) = Group([key |-> Place(y)[2], of |-> Place(y)[1], shown |-> Beside(s, y)])
  BY DEF GroupAt, Beside
<1>3. ASSUME k = Group([key |-> Place(y)[2], of |-> Place(y)[1], shown |-> Beside(s, y)])
      PROVE  k.done = k.target <=> AllDone(Beside(s, y))
  <2>1. k.done \in Nat /\ k.target \in Nat /\ k.done <= k.target
    BY <1>1, <1>3, GroupCounts
  <2>2. AllDone(Beside(s, y)) => k.target <= k.done
    BY <1>1, <1>3, GroupCounts
  <2>3. ~AllDone(Beside(s, y)) => k.done < k.target
    BY <1>1, <1>3, GroupCounts
  <2> QED BY <2>1, <2>2, <2>3
<1>4. ASSUME k = Group([key |-> Place(y)[2], of |-> Place(y)[1], shown |-> Beside(s, y)])
      PROVE  k.items = {x.id : x \in Beside(s, y)}
  BY <1>4 DEF Group
<1> QED BY <1>2, <1>3, <1>4 DEF AllDone

\* A group is complete exactly when nothing of it is suggested.
LEMMA GroupsAgree ==
  ASSUME NEW s, Sound(s), NEW y \in s, NEW k, k = GroupAt(s, Place(y)),
         NEW suggested, suggested = {n \in NextUp(s) : n.item \in k.items},
         NEW behind, behind = Notes(s).beyond \cap k.items
  PROVE  /\ k.done = k.target => suggested = {}
         /\ suggested = {} /\ behind = {} => k.done = k.target
<1> DEFINE T == Beside(s, y)
<1>1. /\ k.items = {x.id : x \in T}
      /\ k.done = k.target <=> \A x \in Measured(T) : x.done = x.target
  BY GroupIsDone
<1>2. T \subseteq s /\ Measured(T) \subseteq Measured(s) /\ Measured(T) \subseteq T
  BY DEF Measured, Beside
<1> HIDE DEF T
<1>3. ASSUME NEW n \in suggested
      PROVE  \E x \in Measured(T) : x.lowest < x.reachable
  <2>1. PICK x \in Measured(s) : x.lowest < x.reachable /\ n.item = x.id
    BY DEF NextUp, Suggestion
  <2>2. PICK z \in T : n.item = z.id
    BY <1>1
  <2>3. x = z
    BY <1>2, <2>1, <2>2 DEF Sound, Measured
  <2> QED BY <2>1, <2>2, <2>3 DEF Measured
<1>4. ASSUME k.done = k.target, suggested # {} PROVE FALSE
  <2>1. PICK x \in Measured(T) : x.lowest < x.reachable
    BY <1>3, <1>4
  <2>2. x.done = x.target /\ x \in Measured(s) /\ x.done \in Nat /\ x.target \in Nat
    <3>1. x \in Measured(s) /\ x \in s
      BY <1>2
    <3> QED BY <1>1, <1>4, <3>1 DEF Sound
  <2>3. x.done < x.target
    BY <2>1, <2>2 DEF Sound
  <2> QED BY <2>2, <2>3
<1>5. ASSUME suggested = {}, behind = {}, NEW x \in Measured(T) PROVE x.done = x.target
  <2>1. x \in Measured(s) /\ x \in s /\ x.id \in k.items
    BY <1>1, <1>2
  <2>2. ~(x.lowest < x.reachable)
    <3> DEFINE listed == {n \in NextUp(s) : n.item = x.id}
    <3>1. listed = {}
      BY <1>5, <2>1
    <3> HIDE DEF listed
    <3>2. listed # {} <=> x.lowest < x.reachable
      BY <2>1, SuggestedOf DEF listed
    <3> QED BY <3>1, <3>2
  <2>3. x.id \in Known /\ Levels(x.id) # <<>>
    BY <2>1 DEF Sound
  <2>4. ~(x.highest > Len(Levels(x.id)))
    <3> SUFFICES ASSUME x.highest > Len(Levels(x.id)) PROVE FALSE
      OBVIOUS
    <3>1. x.id \in Notes(s).beyond
      BY <2>1, <2>3 DEF Notes
    <3> QED BY <1>5, <2>1, <3>1
  <2> QED BY <2>1, <2>2, <2>4 DEF Sound
<1> QED BY <1>1, <1>4, <1>5

\* So the panels agree.
LEMMA SoundAgrees ==
  ASSUME TypeOK, SeenAllowed PROVE PanelsAgree
<1> DEFINE s == Stats(seen, now)
<1>1. Sound(s)
  BY SeenIsSound
<1> HIDE DEF s
<1>2. ASSUME NEW x \in Measured(s), NEW listed, listed = {n \in NextUp(s) : n.item = x.id}
      PROVE  /\ (listed # {}) <=> x.steps > 0
             /\ (listed # {}) <=> x.atMax < x.copies
             /\ \A n \in listed : \A c \in DOMAIN n.price : n.price[c] <= x.price[c]
             /\ listed # {} => x.done < x.target
             /\ x.done <= x.target
  BY <1>1, <1>2, ItemsAgree
<1>3. \A v \in Overall(s) : \E u : v = VillageAt(s, u)
  BY OverallIs
<1>4. ASSUME NEW v \in Overall(s) PROVE v.done <= v.target /\ v.atMax + v.unmeasured <= v.copies
  <2>1. PICK u : v = VillageAt(s, u)
    BY <1>3
  <2>2. v.done <= v.target /\ v.atMax + v.unmeasured <= v.copies
    BY <1>1, <2>1, VillageCounts
  <2> QED BY <2>2
<1>5. Bill(s).steps = SumFunction([v \in Overall(s) |-> v.steps])
  BY <1>1, BillCounts
<1>6. ASSUME NEW p \in Balance(Overall(s))
      PROVE  \E y \in s : p.group = GroupAt(s, Place(y))
  <2>1. PICK v \in Overall(s) : \E k \in v.groups : p = [village |-> v.key, group |-> k]
    BY DEF Balance
  <2>2. PICK u : v = VillageAt(s, u)
    BY <1>3
  <2>3. v.groups = GroupsIn(s, u)
    BY <1>1, <2>2, VillageCounts
  <2>4. p.group \in GroupsIn(s, u)
    BY <2>1, <2>3
  <2> QED BY <1>1, <2>4, GroupsAre
<1>7. ASSUME NEW p \in Balance(Overall(s)),
             NEW suggested, suggested = {n \in NextUp(s) : n.item \in p.group.items},
             NEW behind, behind = Notes(s).beyond \cap p.group.items
      PROVE  /\ p.group.done = p.group.target => suggested = {}
             /\ suggested = {} /\ behind = {} => p.group.done = p.group.target
  <2>1. PICK y \in s : p.group = GroupAt(s, Place(y))
    BY <1>6
  <2> QED BY <1>1, <1>7, <2>1, GroupsAgree
<1> QED BY <1>2, <1>4, <1>5, <1>7 DEF PanelsAgree, s

\* The panels agree about every item with a ceiling, in any account: the
\* suggestions, what is left to pay for, the share that is complete, the balance
\* and the villages' totals.
THEOREM PanelsAlwaysAgree == Spec => []PanelsAgree
<1>1. Init => TypeOK /\ Landable /\ Earned /\ SeenAllowed
  BY InitTyped, InitEarned, InitSeen
<1>2. TypeOK /\ Landable /\ Earned /\ SeenAllowed /\ [Next]_vars
      => (TypeOK /\ Landable /\ Earned /\ SeenAllowed)'
  BY NextTyped, NextEarned, NextSeen
<1>3. TypeOK /\ Landable /\ Earned /\ SeenAllowed => PanelsAgree
  BY SoundAgrees
<1> QED BY <1>1, <1>2, <1>3, PTL DEF Spec

-----------------------------------------------------------------------------
(* What is left to pay for.                                                *)

\* Sums of which most is nothing.
LEMMA SumOfSome ==
  ASSUME NEW S, IsFiniteSet(S), NEW f \in [S -> Nat], NEW T \in SUBSET S, \A x \in S \ T : f[x] = 0
  PROVE  SumFunction(f) = SumFunction(Part(f, T))
<1>1. /\ SumFunction(f) = SumFunction(Part(f, T)) + SumFunction(Part(f, S \ T))
      /\ SumFunction(Part(f, T)) \in Nat
  BY SumSplits, SumTakes
<1>2. IsFiniteSet(S \ T) /\ Part(f, S \ T) \in [S \ T -> Nat]
  <2>1. S \ T \in SUBSET S
    OBVIOUS
  <2> QED BY <2>1, FS_Subset, SumTakes
<1>3. \A x \in S \ T : Part(f, S \ T)[x] = 0
  BY DEF Part
<1>4. SumFunction(Part(f, S \ T)) \in Nat /\ ~(SumFunction(Part(f, S \ T)) > 0)
  BY <1>2, <1>3, TermWithin
<1> QED BY <1>1, <1>4

\* A sum with only one number that is not 0 is that number.
LEMMA SumOfOne ==
  ASSUME NEW S, IsFiniteSet(S), NEW x \in S, NEW f \in [S -> Nat], \A y \in S \ {x} : f[y] = 0
  PROVE  SumFunction(f) = f[x]
<1>1. f[x] \in Nat /\ SumFunction(f) = f[x] + SumFunction(Part(f, S \ {x}))
  BY SumTakes
<1>2. IsFiniteSet(S \ {x}) /\ Part(f, S \ {x}) \in [S \ {x} -> Nat]
  <2>1. S \ {x} \in SUBSET S
    OBVIOUS
  <2> QED BY <2>1, FS_Subset, SumTakes
<1>3. \A y \in S \ {x} : Part(f, S \ {x})[y] = 0
  BY DEF Part
<1>4. SumFunction(Part(f, S \ {x})) \in Nat /\ ~(SumFunction(Part(f, S \ {x})) > 0)
  BY <1>2, <1>3, TermWithin
<1> QED BY <1>1, <1>4

\* What the rows of a bag are worth together, at w for each.
Worth(B, w) == SumFunction([r \in Row |-> Copies(r, B) * w[r]])

\* A bag's worth is the sum, over its different rows, of their copies times their weight.
LEMMA WorthIs ==
  ASSUME NEW B, Finite(B), BagToSet(B) \subseteq Row, NEW w, \A r \in Row : w[r] \in Nat
  PROVE  /\ Worth(B, w) \in Nat
         /\ Worth(B, w) = SumFunction([r \in BagToSet(B) |-> B[r] * w[r]])
<1> DEFINE f == [r \in Row |-> Copies(r, B) * w[r]]
           S == BagToSet(B)
<1>1. \A r \in Row : Copies(r, B) \in Nat /\ Copies(r, B) * w[r] \in Nat /\ (r \notin S => Copies(r, B) = 0)
  <2> TAKE r \in Row
  <2>1. Copies(r, B) \in Nat /\ (Copies(r, B) > 0 <=> r \in S)
    BY CopiesIsNat DEF Finite
  <2> QED BY <2>1, Multiples
<1>2. f \in [Row -> Nat] /\ \A r \in Row : f[r] = Copies(r, B) * w[r]
  BY <1>1
<1>3. \A r \in Row \ S : f[r] = 0
  BY <1>1, <1>2
<1>4. Part(f, S) = [r \in S |-> B[r] * w[r]]
  <2>1. \A r \in S : f[r] = B[r] * w[r]
    BY <1>2 DEF Copies, BagIn
  <2> HIDE DEF f, S
  <2> QED BY <2>1 DEF Part
<1>5. Worth(B, w) = SumFunction(f)
  BY DEF Worth
<1> HIDE DEF f
<1>6. SumFunction(f) = SumFunction(Part(f, S)) /\ SumFunction(f) \in Nat
  BY <1>2, <1>3, RowsAreFinite, SumOfSome, SumTakes
<1> QED BY <1>4, <1>5, <1>6

\* One copy more is worth that much more.
LEMMA WorthMore ==
  ASSUME NEW B, Finite(B), NEW C, Finite(C), NEW x \in Row, NEW w, \A r \in Row : w[r] \in Nat,
         \A y : Copies(y, C) = Copies(y, B) + IF y = x THEN 1 ELSE 0
  PROVE  Worth(C, w) = Worth(B, w) + w[x]
<1> DEFINE f == [r \in Row |-> Copies(r, B) * w[r]]
           g == [r \in Row |-> IF r = x THEN w[x] ELSE 0]
           h == [r \in Row |-> Copies(r, C) * w[r]]
<1>1. \A r \in Row : /\ f[r] = Copies(r, B) * w[r] /\ f[r] \in Nat
                     /\ g[r] = (IF r = x THEN w[x] ELSE 0) /\ g[r] \in Nat
                     /\ h[r] = Copies(r, C) * w[r] /\ h[r] = f[r] + g[r]
  <2> TAKE r \in Row
  <2>1. Copies(r, B) \in Nat /\ w[r] \in Nat
    BY CopiesIsNat DEF Finite
  <2>2. Copies(r, B) * w[r] \in Nat
    BY <2>1, Multiples
  <2>3. (Copies(r, B) + 1) * w[r] = Copies(r, B) * w[r] + w[r]
    BY <2>1
  <2>4. CASE r = x
    <3>1. Copies(r, C) = Copies(r, B) + 1
      BY <2>4
    <3> QED BY <2>1, <2>2, <2>3, <2>4, <3>1
  <2>5. CASE r # x
    <3>1. Copies(r, C) = Copies(r, B)
      BY <2>1, <2>5
    <3> QED BY <2>1, <2>2, <2>5, <3>1
  <2> QED BY <2>4, <2>5
<1>2. f \in [Row -> Nat] /\ g \in [Row -> Nat] /\ h = [r \in Row |-> f[r] + g[r]]
  <2>1. \A r \in Row : f[r] \in Nat /\ g[r] \in Nat /\ h[r] = f[r] + g[r]
    BY <1>1
  <2>2. f = [r \in Row |-> f[r]] /\ g = [r \in Row |-> g[r]] /\ h = [r \in Row |-> h[r]]
    OBVIOUS
  <2> HIDE DEF f, g, h
  <2> QED BY <2>1, <2>2
<1>3. g[x] = w[x] /\ \A r \in Row \ {x} : g[r] = 0
  OBVIOUS
<1>4. Worth(B, w) = SumFunction(f) /\ Worth(C, w) = SumFunction(h)
  BY DEF Worth
<1> HIDE DEF f, g, h
<1>5. SumFunction(g) = w[x]
  BY <1>2, <1>3, RowsAreFinite, SumOfOne
<1>6. SumFunction([r \in Row |-> f[r] + g[r]]) = SumFunction(f) + SumFunction(g)
  BY <1>2, RowsAreFinite, SumOfPairs
<1> QED BY <1>2, <1>4, <1>5, <1>6

\* Rows that become others worth the same are worth the same.
LEMMA WorthOfImage ==
  ASSUME NEW B, Finite(B), BagToSet(B) \subseteq Row, NEW h, NEW w, \A r \in Row : w[r] \in Nat,
         \A r \in BagToSet(B) : h[r] \in Row /\ w[h[r]] = w[r]
  PROVE  Worth(Im(h, B), w) = Worth(B, w)
<1>1. /\ \A r \in BagToSet(B) : w[h[r]] \in Nat
      /\ Finite(Im(h, B)) /\ BagToSet(Im(h, B)) = {h[r] : r \in BagToSet(B)}
  BY ImageCopies
<1>2. BagToSet(Im(h, B)) \subseteq Row
  BY <1>1
<1>3. SumFunction([y \in BagToSet(Im(h, B)) |-> Im(h, B)[y] * w[y]])
        = SumFunction([x \in BagToSet(B) |-> B[x] * w[h[x]]])
  <2>1. \A r \in BagToSet(B) : w[h[r]] \in Nat
    BY <1>1
  <2> QED BY <2>1, TotalOfImage
<1>4. [x \in BagToSet(B) |-> B[x] * w[h[x]]] = [x \in BagToSet(B) |-> B[x] * w[x]]
  OBVIOUS
<1>5. /\ Worth(B, w) = SumFunction([x \in BagToSet(B) |-> B[x] * w[x]])
      /\ Worth(Im(h, B), w) = SumFunction([y \in BagToSet(Im(h, B)) |-> Im(h, B)[y] * w[y]])
  BY <1>1, <1>2, WorthIs
<1> QED BY <1>3, <1>4, <1>5

\* What a price adds to a column of the bill.
LEMMA EnteredSteps ==
  ASSUME NEW i \in Leveled \cap Known, NEW c \in BillColumns, NEW a \in Nat, NEW b \in Nat
  PROVE  /\ Entered(i, Between(i, a, b), c) \in Nat
         /\ (b <= a \/ Len(Levels(i)) <= a) => Entered(i, Between(i, a, b), c) = 0
         /\ a < b /\ a < Len(Levels(i)) =>
              /\ Entered(i, Between(i, a, a + 1), c) = Entered(i, Asked(i, a + 1), c)
              /\ Entered(i, Asked(i, a + 1), c) \in Nat /\ Entered(i, Between(i, a + 1, b), c) \in Nat
              /\ Entered(i, Between(i, a, b), c)
                   = Entered(i, Asked(i, a + 1), c) + Entered(i, Between(i, a + 1, b), c)
<1> DEFINE col == IF c \in Currencies THEN c ELSE "seconds"
           none == c \notin Currencies /\ c # TimeColumn(LaneOf[i])
<1>1. \A p : Entered(i, p, c) = IF none THEN 0 ELSE p[col]
  BY DEF Entered
<1>2. col \in Priced
  BY DEF Priced
<1> HIDE DEF col, none
<1>3. /\ Between(i, a, b)[col] \in Nat
      /\ (b <= a \/ Len(Levels(i)) <= a) => Between(i, a, b)[col] = 0
      /\ a < b /\ a < Len(Levels(i)) =>
           /\ Charge(i, a + 1)[col] \in Nat /\ Between(i, a + 1, b)[col] \in Nat
           /\ Between(i, a, b)[col] = Charge(i, a + 1)[col] + Between(i, a + 1, b)[col]
  BY <1>2, BetweenIs
<1>4. ASSUME a < Len(Levels(i))
      PROVE  Between(i, a, a + 1) = Asked(i, a + 1) /\ Charge(i, a + 1) = Asked(i, a + 1)
  <2>1. a + 1 \in DOMAIN Table(i)
    <3>1. DOMAIN Table(i) = 1..Len(Table(i)) /\ Len(Levels(i)) = Len(Table(i)) /\ Len(Table(i)) \in Nat
      BY CatalogIsTables
    <3> QED BY <1>4, <3>1
  <2>2. Between(i, a, a + 1) = Asked(i, a + 1)
    BY <2>1, OneStep
  <2>3. Charge(i, a + 1) = Asked(i, a + 1)
    BY <2>1, ChargeIsAsked
  <2> QED BY <2>2, <2>3
<1>5. CASE none
  <2>1. /\ Entered(i, Between(i, a, b), c) = 0
        /\ Entered(i, Between(i, a, a + 1), c) = 0
        /\ Entered(i, Asked(i, a + 1), c) = 0
        /\ Entered(i, Between(i, a + 1, b), c) = 0
    BY <1>1, <1>5
  <2> QED BY <2>1
<1>6. CASE ~none
  <2>1. /\ Entered(i, Between(i, a, b), c) = Between(i, a, b)[col]
        /\ Entered(i, Between(i, a, a + 1), c) = Between(i, a, a + 1)[col]
        /\ Entered(i, Asked(i, a + 1), c) = Asked(i, a + 1)[col]
        /\ Entered(i, Between(i, a + 1, b), c) = Between(i, a + 1, b)[col]
    BY <1>1, <1>6
  <2>2. (b <= a \/ Len(Levels(i)) <= a) => Entered(i, Between(i, a, b), c) = 0
    BY <1>3, <2>1
  <2>3. ASSUME a < b, a < Len(Levels(i))
        PROVE  /\ Entered(i, Between(i, a, a + 1), c) = Entered(i, Asked(i, a + 1), c)
               /\ Entered(i, Asked(i, a + 1), c) \in Nat /\ Entered(i, Between(i, a + 1, b), c) \in Nat
               /\ Entered(i, Between(i, a, b), c)
                    = Entered(i, Asked(i, a + 1), c) + Entered(i, Between(i, a + 1, b), c)
    <3>1. Charge(i, a + 1)[col] = Asked(i, a + 1)[col] /\ Between(i, a, a + 1)[col] = Asked(i, a + 1)[col]
      BY <1>4, <2>3
    <3> QED BY <1>3, <2>1, <2>3, <3>1
  <2> QED BY <1>3, <2>1, <2>2, <2>3
<1> QED BY <1>5, <1>6

\* What is left to pay, in a column, for one copy below the ceilings top, once
\* what is under way is done; and that no copy is beyond them that the tables
\* know.
Left(top, c) ==
  [r \in Row |-> IF r[1] \in Leveled \cap Known
                 THEN Entered(r[1], Between(r[1], Heading(r), top[r[1]]), c) ELSE 0]
Within(B, top) ==
  \A r \in BagToSet(B) : r[1] \in Leveled \cap Known =>
    Heading(r) <= top[r[1]] \/ Heading(r) > Len(Levels(r[1]))
Tops == [Leveled \cap Known -> Nat]

\* What is left of a row up to a level is a number.
LEMMA LeftIsNat ==
  ASSUME NEW top \in Tops, NEW c \in BillColumns
  PROVE  \A r \in Row : Left(top, c)[r] \in Nat
<1> TAKE r \in Row
<1>1. Heading(r) \in Nat
  BY RowParts DEF Heading
<1>2. CASE r[1] \in Leveled \cap Known
  <2>1. top[r[1]] \in Nat
    BY <1>2 DEF Tops
  <2>2. Left(top, c)[r] = Entered(r[1], Between(r[1], Heading(r), top[r[1]]), c)
    BY <1>2 DEF Left
  <2> QED BY <1>1, <1>2, <2>1, <2>2, EnteredSteps
<1>3. CASE r[1] \notin Leveled \cap Known
  BY <1>3 DEF Left
<1> QED BY <1>2, <1>3

\* A row one second later is heading for the same level.
LEMMA AgedHeads ==
  ASSUME NEW r \in Row
  PROVE  Heading(Aged(r)) = Heading(r) /\ Aged(r)[1] = r[1]
<1>1. /\ r[3] = 0 => Aged(r) = r
      /\ Aged(r)[1] = r[1]
      /\ r[3] = 1 => Aged(r)[2] = (IF Helper(r[1]) THEN r[2] ELSE r[2] + 1) /\ Aged(r)[3] = 0
      /\ r[3] # 1 => Aged(r)[2] = r[2]
      /\ r[3] > 1 => Aged(r)[3] = r[3] - 1
  BY AgedRow
<1>2. r[2] \in Nat /\ r[3] \in Nat
  BY RowParts
<1>3. Climbing(Aged(r)) <=> Aged(r)[3] > 0 /\ ~Helper(r[1])
  BY <1>1 DEF Climbing
<1>4. Climbing(r) <=> r[3] > 0 /\ ~Helper(r[1])
  BY DEF Climbing
<1>5. CASE r[3] = 0
  BY <1>1, <1>5
<1>6. CASE r[3] = 1
  BY <1>1, <1>2, <1>3, <1>4, <1>6 DEF Heading
<1>7. CASE r[3] > 1
  BY <1>1, <1>2, <1>3, <1>4, <1>7 DEF Heading
<1> QED BY <1>1, <1>2, <1>5, <1>6, <1>7

\* Nothing leveled disappears, and as long as nothing new is built, what was left
\* to pay for then is what was paid since and what is left now, up to any
\* ceilings the village is within.
Held(i, B) == Tally(AllOf(i), B)
PaysOff ==
  (\A i \in Leveled : Held(i, seen.rows) = Held(i, village)) =>
    \A top \in Tops : \A c \in BillColumns :
      Within(village, top) =>
        Worth(seen.rows, Left(top, c)) = paid[c] + Worth(village, Left(top, c))
NoneLost == \A i \in Leveled : Held(i, seen.rows) <= Held(i, village)
SeenTimed == \A r \in BagToSet(seen.rows) : r[3] > 0 => r[1] \in Leveled
PaidUp == PaysOff /\ NoneLost /\ SeenTimed

\* The rows of an item.
LEMMA HeldRow ==
  ASSUME NEW r \in Row, NEW i
  PROVE  r \in AllOf(i) <=> r[1] = i
BY RowParts DEF AllOf

\* There are a number of copies of an item.
LEMMA HeldIsNat ==
  ASSUME NEW B, Finite(B), NEW i
  PROVE  Held(i, B) \in Nat
BY TallyTakes DEF Held

\* A step that leaves the levels headed for, and so what is left, alone.
LEMMA AlikePaysOff ==
  ASSUME TypeOK, PaidUp, seen' = seen, paid' = paid,
         \A i \in Leveled : Held(i, village') = Held(i, village),
         \A top \in Tops : Within(village', top) => Within(village, top),
         \A top \in Tops : \A c \in BillColumns :
           Worth(village', Left(top, c)) = Worth(village, Left(top, c))
  PROVE  PaidUp'
<1>1. NoneLost' /\ SeenTimed'
  BY DEF PaidUp, NoneLost, SeenTimed
<1>2. PaysOff'
  <2> SUFFICES ASSUME \A i \in Leveled : Held(i, seen'.rows) = Held(i, village'),
                      NEW top \in Tops, NEW c \in BillColumns, Within(village', top)
               PROVE  Worth(seen'.rows, Left(top, c)) = paid'[c] + Worth(village', Left(top, c))
    BY DEF PaysOff
  <2> QED BY DEF PaidUp, PaysOff
<1> QED BY <1>1, <1>2 DEF PaidUp

\* A passing moment changes no level headed for, so it leaves the books balanced.
LEMMA TickPaysOff == ASSUME TypeOK, Landable, PaidUp, Tick PROVE PaidUp'
<1>1. /\ seen' = seen /\ paid' = paid
      /\ village' = Im(aged, village) /\ BagToSet(village') = {Aged(r) : r \in BagToSet(village)}
      /\ \A T : Tally(T, village') = Tally({r \in BagToSet(village) : Aged(r) \in T}, village)
  BY VillageAges DEF Tick
<1>2. BagToSet(village) \subseteq Row /\ Finite(village) /\ BagToSet(village') \subseteq Row
  <2>1. TypeOK'
    BY TickTyped
  <2> QED BY <2>1, RowsAreFinite DEF TypeOK
<1>3. \A r \in BagToSet(village) : /\ aged[r] = Aged(r) /\ Aged(r) \in Row
                                  /\ Heading(Aged(r)) = Heading(r) /\ Aged(r)[1] = r[1]
  BY <1>1, <1>2, AgedRow, AgedHeads
<1>4. ASSUME NEW i \in Leveled PROVE Held(i, village') = Held(i, village)
  <2>1. \A r \in BagToSet(village) : Aged(r) \in AllOf(i) <=> r \in AllOf(i)
    BY <1>2, <1>3, HeldRow
  <2>2. {r \in BagToSet(village) : Aged(r) \in AllOf(i)} \cap BagToSet(village)
          = AllOf(i) \cap BagToSet(village)
    BY <2>1
  <2>3. Tally({r \in BagToSet(village) : Aged(r) \in AllOf(i)}, village) = Tally(AllOf(i), village)
    BY <2>2, TallyWithin
  <2> QED BY <1>1, <2>3 DEF Held
<1>5. ASSUME NEW top \in Tops, Within(village', top) PROVE Within(village, top)
  <2>1. \A r \in BagToSet(village) : Aged(r) \in BagToSet(village')
    BY <1>1
  <2> QED BY <1>3, <1>5, <2>1 DEF Within
<1>6. ASSUME NEW top \in Tops, NEW c \in BillColumns
      PROVE  Worth(village', Left(top, c)) = Worth(village, Left(top, c))
  <2> DEFINE w == Left(top, c)
  <2>1. \A r \in Row : w[r] \in Nat
    BY LeftIsNat
  <2>2. \A r \in BagToSet(village) : aged[r] \in Row /\ w[aged[r]] = w[r]
    BY <1>2, <1>3 DEF Left
  <2> HIDE DEF w
  <2>3. Worth(village', w) = Worth(village, w)
    BY <1>1, <1>2, <2>1, <2>2, WorthOfImage
  <2> QED BY <2>3 DEF w
<1> QED BY <1>1, <1>4, <1>5, <1>6, AlikePaysOff

\* A row that becomes another of the same item.
LEMMA MovedRow ==
  ASSUME NEW B, Finite(B), BagToSet(B) \subseteq Row, NEW r \in BagToSet(B), NEW s \in Row, s[1] = r[1],
         NEW C, C = BagAdd(BagRemove(B, r), s), NEW w, \A q \in Row : w[q] \in Nat
  PROVE  /\ s \in BagToSet(C) /\ \A q \in BagToSet(B) : q = r \/ q \in BagToSet(C)
         /\ \A i : Held(i, C) = Held(i, B)
         /\ \E n \in Nat : Worth(B, w) = n + w[r] /\ Worth(C, w) = n + w[s]
<1> DEFINE D == BagRemove(B, r)
<1>1. /\ Finite(D) /\ BagToSet(D) \subseteq BagToSet(B)
      /\ \A y : Copies(y, D) = Copies(y, B) - IF y = r THEN 1 ELSE 0
      /\ \A T : Tally(T, D) = Tally(T, B) - IF r \in T THEN 1 ELSE 0
  BY RemovedCopy
<1> HIDE DEF D
<1>2. C = BagAdd(D, s)
  BY DEF D
<1>3. /\ Finite(C) /\ BagToSet(C) = BagToSet(D) \cup {s}
      /\ \A y : Copies(y, C) = Copies(y, D) + IF y = s THEN 1 ELSE 0
      /\ \A T : Tally(T, C) = Tally(T, D) + IF s \in T THEN 1 ELSE 0
  BY <1>1, <1>2, AddedCopy, AddedTally
<1>4. ASSUME NEW q \in BagToSet(B), q # r PROVE q \in BagToSet(C)
  <2>1. Copies(q, D) = Copies(q, B) /\ Copies(q, B) > 0
    <3>1. Copies(q, B) \in Nat /\ Copies(q, B) > 0
      BY CopiesIsNat DEF Finite
    <3> QED BY <1>1, <1>4, <3>1
  <2>2. q \in BagToSet(D)
    BY <1>1, <2>1, CopiesIsNat DEF Finite
  <2> QED BY <1>3, <2>2
<1>5. ASSUME NEW i PROVE Held(i, C) = Held(i, B)
  <2>1. r \in AllOf(i) <=> s \in AllOf(i)
    BY HeldRow
  <2>2. Tally(AllOf(i), B) \in Nat
    BY TallyTakes
  <2>3. /\ Tally(AllOf(i), D) = Tally(AllOf(i), B) - IF r \in AllOf(i) THEN 1 ELSE 0
        /\ Tally(AllOf(i), C) = Tally(AllOf(i), D) + IF s \in AllOf(i) THEN 1 ELSE 0
    BY <1>1, <1>3
  <2>4. Tally(AllOf(i), C) = Tally(AllOf(i), B)
    BY <2>1, <2>2, <2>3
  <2> QED BY <2>4 DEF Held
<1>6. Worth(D, w) \in Nat /\ Worth(C, w) = Worth(D, w) + w[s]
  <2>1. Worth(D, w) \in Nat
    BY <1>1, WorthIs
  <2>2. Worth(C, w) = Worth(D, w) + w[s]
    BY <1>1, <1>3, WorthMore
  <2> QED BY <2>1, <2>2
<1>7. Worth(B, w) = Worth(D, w) + w[r]
  <2>1. \A y : Copies(y, B) = Copies(y, D) + IF y = r THEN 1 ELSE 0
    <3> TAKE y
    <3>1. Copies(y, B) \in Nat
      BY CopiesIsNat DEF Finite
    <3> QED BY <1>1, <3>1
  <2>2. r \in Row
    OBVIOUS
  <2> QED BY <1>1, <2>1, <2>2, WorthMore
<1> QED BY <1>3, <1>4, <1>5, <1>6, <1>7

\* A step up heads for the next level.
LEMMA ClimbedHeads ==
  ASSUME NEW i \in Leveled \cap Known, NEW l \in Nat, l + 1 \in DOMAIN Table(i)
  PROVE  Climbed(i, l) \in Row /\ Climbed(i, l)[1] = i /\ Heading(Climbed(i, l)) = l + 1
<1> DEFINE c == Climbed(i, l)
<1>1. /\ c \in Row
      /\ Asked(i, l + 1).seconds = 0 => c = <<i, l + 1, 0>>
      /\ Asked(i, l + 1).seconds # 0 => c = <<i, l, Asked(i, l + 1).seconds>>
                                        /\ Asked(i, l + 1).seconds \in 1..MaxTimer
      /\ Helper(i) => Asked(i, l + 1).seconds = 0
  BY ClimbedRow, AskedIsNat
<1> HIDE DEF c
<1>2. CASE Asked(i, l + 1).seconds = 0
  <2>1. c[1] = i /\ c[2] = l + 1 /\ c[3] = 0
    BY <1>1, <1>2
  <2> QED BY <1>1, <2>1 DEF Heading, Climbing, c
<1>3. CASE Asked(i, l + 1).seconds # 0
  <2>1. c[1] = i /\ c[2] = l /\ c[3] > 0 /\ ~Helper(i)
    BY <1>1, <1>3
  <2> QED BY <1>1, <2>1 DEF Heading, Climbing, c
<1> QED BY <1>2, <1>3

\* An upgrade pays what it takes off the rest.
LEMMA UpgradePaysOff ==
  ASSUME TypeOK, PaidUp, NEW r \in BagToSet(village), Upgrade(r)
  PROVE  PaidUp'
<1> DEFINE i == r[1]
           l == r[2]
           s == Climbed(i, l)
<1>1. /\ i \in Leveled \cap Known /\ l \in Nat /\ r[3] = 0 /\ l + 1 \in DOMAIN Table(i)
      /\ Climb(i, l, BagRemove(village, r))
      /\ Finite(BagRemove(village, r)) /\ BagToSet(BagRemove(village, r)) \subseteq Row
  BY UpgradeDoes
<1>2. s \in Row /\ s[1] = i /\ Heading(s) = l + 1 /\ Heading(r) = l
  <2>1. Heading(r) = l
    BY <1>1 DEF Heading, Climbing
  <2> HIDE DEF i, l
  <2> QED BY <1>1, <2>1, ClimbedHeads
<1>3. /\ village' = BagAdd(BagRemove(village, r), s) /\ seen' = seen
      /\ paid' = [c \in BillColumns |-> paid[c] + Entered(i, Asked(i, l + 1), c)]
  <2> HIDE DEF i, l
  <2>1. village' = BagAdd(BagRemove(village, r), s) /\ UNCHANGED seen
    BY <1>1, ClimbDoes
  <2>2. paid' = [c \in BillColumns |-> paid[c] + Entered(i, Asked(i, l + 1), c)]
    BY <1>1 DEF Climb
  <2> QED BY <2>1, <2>2
<1>4. Finite(village) /\ BagToSet(village) \subseteq Row /\ r \in Row
  BY RowsAreFinite DEF TypeOK
<1>5. l + 1 <= Len(Levels(i)) /\ l < Len(Levels(i)) /\ Len(Levels(i)) \in Nat
  <2>1. DOMAIN Table(i) = 1..Len(Table(i)) /\ Len(Levels(i)) = Len(Table(i)) /\ Len(Table(i)) \in Nat
    BY <1>1, CatalogIsTables
  <2> QED BY <1>1, <2>1
<1>6. ASSUME NEW w, \A q \in Row : w[q] \in Nat
      PROVE  /\ s \in BagToSet(village') /\ \A q \in BagToSet(village) : q = r \/ q \in BagToSet(village')
             /\ \A j : Held(j, village') = Held(j, village)
             /\ \E n \in Nat : Worth(village, w) = n + w[r] /\ Worth(village', w) = n + w[s]
  <2>1. s[1] = r[1] /\ s \in Row
    BY <1>2
  <2> HIDE DEF i, l, s
  <2> QED BY <1>3, <1>4, <1>6, <2>1, MovedRow
<1> HIDE DEF i, l, s
<1>7. /\ s \in BagToSet(village') /\ \A q \in BagToSet(village) : q = r \/ q \in BagToSet(village')
      /\ \A j : Held(j, village') = Held(j, village)
  <2> DEFINE w == [q \in Row |-> 0]
  <2>1. \A q \in Row : w[q] \in Nat
    OBVIOUS
  <2> HIDE DEF w
  <2> QED BY <1>6, <2>1
<1>8. NoneLost' /\ SeenTimed'
  BY <1>3, <1>7 DEF PaidUp, NoneLost, SeenTimed
<1>9. PaysOff'
  <2> SUFFICES ASSUME \A j \in Leveled : Held(j, seen'.rows) = Held(j, village'),
                      NEW top \in Tops, NEW c \in BillColumns, Within(village', top)
               PROVE  Worth(seen'.rows, Left(top, c)) = paid'[c] + Worth(village', Left(top, c))
    BY DEF PaysOff
  <2> DEFINE w == Left(top, c)
  <2>1. i = r[1] /\ top[i] \in Nat
    BY <1>1 DEF Tops, i
  <2>2. l + 1 <= top[i]
    BY <1>1, <1>2, <1>5, <1>7 DEF Within
  <2>3. Within(village, top)
    <3>1. Heading(r) <= top[i]
      BY <1>1, <1>2, <2>1, <2>2
    <3> QED BY <1>7, <2>1, <3>1 DEF Within
  <2>4. \A q \in Row : w[q] \in Nat
    BY LeftIsNat
  <2>5. Worth(seen.rows, w) = paid[c] + Worth(village, w)
    BY <1>3, <1>7, <2>3 DEF PaidUp, PaysOff
  <2>6. /\ w[r] = Entered(i, Between(i, l, top[i]), c)
        /\ w[s] = Entered(i, Between(i, l + 1, top[i]), c)
    BY <1>1, <1>2, <1>4, <2>1 DEF Left
  <2>7. /\ Entered(i, Asked(i, l + 1), c) \in Nat /\ Entered(i, Between(i, l + 1, top[i]), c) \in Nat
        /\ Entered(i, Between(i, l, top[i]), c)
             = Entered(i, Asked(i, l + 1), c) + Entered(i, Between(i, l + 1, top[i]), c)
    <3>1. l < top[i]
      BY <1>1, <2>1, <2>2
    <3>2. l < Len(Levels(i)) /\ i \in Leveled \cap Known /\ l \in Nat /\ top[i] \in Nat
      BY <1>1, <1>5, <2>1
    <3> HIDE DEF w
    <3> QED BY <3>1, <3>2, EnteredSteps
  <2> HIDE DEF w
  <2>8. PICK n \in Nat : Worth(village, w) = n + w[r] /\ Worth(village', w) = n + w[s]
    BY <1>6, <2>4
  <2>9. paid'[c] = paid[c] + Entered(i, Asked(i, l + 1), c) /\ paid[c] \in Nat
    BY <1>3 DEF TypeOK
  <2>10. Worth(seen'.rows, w) = paid'[c] + Worth(village', w)
    BY <1>3, <2>5, <2>6, <2>7, <2>8, <2>9
  <2> QED BY <2>10 DEF w
<1> QED BY <1>8, <1>9 DEF PaidUp

\* Nothing is claimed once something new is built.
LEMMA BuildPaysOff ==
  ASSUME TypeOK, PaidUp, NEW i \in Unbuilt, Build(i)
  PROVE  PaidUp'
<1>1. /\ i \in Leveled \cap Known /\ 0 \in Nat /\ 0 + 1 \in DOMAIN Table(i)
      /\ Finite(village) /\ BagToSet(village) \subseteq Row /\ Climb(i, 0, village)
  BY BuildDoes
<1>2. /\ Climbed(i, 0) \in Row /\ Climbed(i, 0)[1] = i
  BY <1>1, ClimbedHeads
<1>3. /\ \A T : Tally(T, village') = Tally(T, village) + IF Climbed(i, 0) \in T THEN 1 ELSE 0
      /\ seen' = seen
  BY <1>1, ClimbDoes
<1>4. /\ \A j : Held(j, village') = Held(j, village) + IF j = i THEN 1 ELSE 0
      /\ \A j : Held(j, village) \in Nat /\ Held(j, seen.rows) \in Nat
  <2>1. \A j : Climbed(i, 0) \in AllOf(j) <=> j = i
    BY <1>2, HeldRow
  <2>2. Finite(seen.rows)
    BY RowsAreFinite DEF TypeOK
  <2>3. \A j : Held(j, village) \in Nat /\ Held(j, seen.rows) \in Nat
    BY <1>1, <2>2, HeldIsNat
  <2> QED BY <1>3, <2>1, <2>3 DEF Held
<1>5. NoneLost' /\ SeenTimed'
  <2>1. \A j \in Leveled : Held(j, seen.rows) <= Held(j, village')
    BY <1>4 DEF PaidUp, NoneLost
  <2> QED BY <1>3, <2>1 DEF PaidUp, NoneLost, SeenTimed
<1>6. PaysOff'
  <2>1. Held(i, seen'.rows) # Held(i, village') /\ i \in Leveled
    <3>1. Held(i, seen.rows) <= Held(i, village)
      BY <1>1 DEF PaidUp, NoneLost
    <3> QED BY <1>1, <1>3, <1>4, <3>1
  <2> QED BY <2>1 DEF PaysOff
<1> QED BY <1>5, <1>6 DEF PaidUp

\* A helper sent is at the level it was.
LEMMA SendPaysOff ==
  ASSUME TypeOK, PaidUp, NEW i \in Items, Helper(i), Send(i)
  PROVE  PaidUp'
<1>1. PICK r \in BagToSet(village) :
        /\ r[1] = i /\ r[3] = 0
        /\ village' = BagAdd(BagRemove(village, r), <<i, r[2], MaxTimer>>)
  BY DEF Send
<1> DEFINE s == <<i, r[2], MaxTimer>>
<1>2. Finite(village) /\ BagToSet(village) \subseteq Row /\ r \in Row /\ seen' = seen /\ paid' = paid
  BY RowsAreFinite DEF TypeOK, Send
<1>3. s \in Row /\ s[1] = r[1] /\ s[2] = r[2]
  <2>1. r[2] \in 0..MaxLevel /\ MaxTimer \in 0..MaxTimer
    BY <1>2, RowParts, AnalyzeAssumption
  <2> QED BY <1>1, <2>1 DEF Row
<1>4. village' = BagAdd(BagRemove(village, r), s)
  BY <1>1
<1> HIDE DEF s
<1>5. Heading(s) = Heading(r)
  <2>1. ~Climbing(s) /\ ~Climbing(r)
    BY <1>1, <1>3 DEF Climbing
  <2> QED BY <1>3, <2>1 DEF Heading
<1>6. ASSUME NEW w, \A q \in Row : w[q] \in Nat
      PROVE  /\ s \in BagToSet(village') /\ \A q \in BagToSet(village) : q = r \/ q \in BagToSet(village')
             /\ \A j : Held(j, village') = Held(j, village)
             /\ \E n \in Nat : Worth(village, w) = n + w[r] /\ Worth(village', w) = n + w[s]
  BY <1>2, <1>3, <1>4, <1>6, MovedRow
<1>7. /\ s \in BagToSet(village') /\ \A q \in BagToSet(village) : q = r \/ q \in BagToSet(village')
      /\ \A j : Held(j, village') = Held(j, village)
  <2> DEFINE w == [q \in Row |-> 0]
  <2>1. \A q \in Row : w[q] \in Nat
    OBVIOUS
  <2> HIDE DEF w
  <2> QED BY <1>6, <2>1
<1>8. ASSUME NEW top \in Tops, Within(village', top) PROVE Within(village, top)
  BY <1>3, <1>5, <1>7, <1>8 DEF Within
<1>9. ASSUME NEW top \in Tops, NEW c \in BillColumns
      PROVE  Worth(village', Left(top, c)) = Worth(village, Left(top, c))
  <2> DEFINE w == Left(top, c)
  <2>1. \A q \in Row : w[q] \in Nat
    BY LeftIsNat
  <2>2. w[s] = w[r]
    BY <1>2, <1>3, <1>5 DEF Left
  <2> HIDE DEF w
  <2>3. PICK n \in Nat : Worth(village, w) = n + w[r] /\ Worth(village', w) = n + w[s]
    BY <1>6, <2>1
  <2> QED BY <2>2, <2>3 DEF w
<1> QED BY <1>2, <1>7, <1>8, <1>9, AlikePaysOff

\* Obstacles are not paid for.
LEMMA ObstaclePaysOff ==
  ASSUME TypeOK, PaidUp, NEW i \in Items \ Leveled, Clear(i) \/ Grow(i)
  PROVE  PaidUp'
<1> DEFINE o == <<i, 0, 0>>
<1>1. o \in Row /\ o[1] = i /\ Finite(village) /\ BagToSet(village) \subseteq Row
  BY ObstacleRow, RowsAreFinite DEF TypeOK
<1>2. seen' = seen /\ paid' = paid
  BY DEF Clear, Grow
<1>3. \/ /\ o \in BagToSet(village) /\ village' = BagRemove(village, o)
      \/ village' = BagAdd(village, o)
  BY DEF Clear, Grow
<1> HIDE DEF o
<1>4. \E B, C : /\ Finite(B) /\ Finite(C) /\ {B, C} = {village, village'}
                /\ \A y : Copies(y, C) = Copies(y, B) + IF y = o THEN 1 ELSE 0
                /\ \A T : Tally(T, C) = Tally(T, B) + IF o \in T THEN 1 ELSE 0
  <2>1. CASE o \in BagToSet(village) /\ village' = BagRemove(village, o)
    <3>1. /\ Finite(village')
          /\ \A y : Copies(y, village') = Copies(y, village) - IF y = o THEN 1 ELSE 0
          /\ \A T : Tally(T, village') = Tally(T, village) - IF o \in T THEN 1 ELSE 0
      BY <1>1, <2>1, RemovedCopy
    <3>2. \A y : Copies(y, village) = Copies(y, village') + IF y = o THEN 1 ELSE 0
      <4> TAKE y
      <4>1. Copies(y, village) \in Nat
        BY <1>1, CopiesIsNat DEF Finite
      <4> QED BY <3>1, <4>1
    <3>3. \A T : Tally(T, village) = Tally(T, village') + IF o \in T THEN 1 ELSE 0
      <4> TAKE T
      <4>1. Tally(T, village) \in Nat
        BY <1>1, TallyTakes
      <4> QED BY <3>1, <4>1
    <3> WITNESS village', village
    <3> QED BY <1>1, <3>1, <3>2, <3>3
  <2>2. CASE village' = BagAdd(village, o)
    <3>1. /\ Finite(village')
          /\ \A y : Copies(y, village') = Copies(y, village) + IF y = o THEN 1 ELSE 0
          /\ \A T : Tally(T, village') = Tally(T, village) + IF o \in T THEN 1 ELSE 0
      BY <1>1, <2>2, AddedCopy, AddedTally
    <3> WITNESS village, village'
    <3> QED BY <1>1, <3>1
  <2> QED BY <1>3, <2>1, <2>2
<1>5. PICK B, C : /\ Finite(B) /\ Finite(C) /\ {B, C} = {village, village'}
                  /\ \A y : Copies(y, C) = Copies(y, B) + IF y = o THEN 1 ELSE 0
                  /\ \A T : Tally(T, C) = Tally(T, B) + IF o \in T THEN 1 ELSE 0
  BY <1>4
<1>6. (village = B /\ village' = C) \/ (village = C /\ village' = B)
  BY <1>5
<1>7. ASSUME NEW j \in Leveled PROVE Held(j, village') = Held(j, village)
  <2>1. o \notin AllOf(j)
    BY <1>1, HeldRow
  <2>2. Tally(AllOf(j), C) = Tally(AllOf(j), B)
    <3>1. Tally(AllOf(j), B) \in Nat
      BY <1>5, TallyTakes
    <3> QED BY <1>5, <2>1, <3>1
  <2> QED BY <1>6, <2>2 DEF Held
<1>8. ASSUME NEW top \in Tops, Within(village', top) PROVE Within(village, top)
  <2>1. ASSUME NEW q \in BagToSet(village), q[1] \in Leveled PROVE q \in BagToSet(village')
    <3>1. q # o
      BY <1>1, <2>1
    <3>2. Copies(q, village) > 0 /\ Copies(q, village) \in Nat
      BY <1>1, CopiesIsNat DEF Finite
    <3>3. Copies(q, C) = Copies(q, B) + 0
      BY <1>5, <3>1
    <3>4. Copies(q, B) \in Nat
      BY <1>5, CopiesIsNat DEF Finite
    <3>5. Copies(q, village') > 0 /\ Finite(village')
      BY <1>5, <1>6, <3>2, <3>3, <3>4
    <3> QED BY <3>5, CopiesIsNat DEF Finite
  <2> QED BY <1>8, <2>1 DEF Within
<1>9. ASSUME NEW top \in Tops, NEW c \in BillColumns
      PROVE  Worth(village', Left(top, c)) = Worth(village, Left(top, c))
  <2> DEFINE w == Left(top, c)
  <2>1. \A q \in Row : w[q] \in Nat
    BY LeftIsNat
  <2>2. w[o] = 0
    BY <1>1 DEF Left
  <2> HIDE DEF w
  <2>3. Worth(C, w) = Worth(B, w) + w[o]
    BY <1>1, <1>5, <2>1, WorthMore
  <2>4. Worth(village, w) \in Nat
    BY <1>1, <2>1, WorthIs
  <2>5. Worth(C, w) = Worth(B, w)
    <3>1. CASE village = B
      BY <2>2, <2>3, <2>4, <3>1
    <3>2. CASE village = C
      <4>1. village' = B
        BY <1>6, <3>2
      <4>2. Worth(B, w) \in Nat
        <5>1. BagToSet(B) \subseteq Row
          <6>1. ASSUME NEW q \in BagToSet(B) PROVE q \in BagToSet(C)
            <7>1. Copies(q, B) \in Nat /\ Copies(q, B) > 0
              BY <1>5, CopiesIsNat DEF Finite
            <7>2. Copies(q, C) > 0
              BY <1>5, <7>1
            <7> QED BY <1>5, <7>2, CopiesIsNat DEF Finite
          <6> QED BY <1>1, <3>2, <6>1
        <5> QED BY <1>5, <2>1, <5>1, WorthIs
      <4> QED BY <2>2, <2>3, <4>2
    <3> QED BY <1>6, <3>1, <3>2
  <2> QED BY <1>6, <2>5 DEF w
<1> QED BY <1>2, <1>7, <1>8, <1>9, AlikePaysOff

\* A fresh export, before anything is paid.
LEMMA FreshPaysOff ==
  ASSUME TypeOK, Landable, seen.rows = village, paid = [c \in BillColumns |-> 0]
  PROVE  PaidUp
<1>1. Finite(village) /\ BagToSet(village) \subseteq Row
  BY RowsAreFinite DEF TypeOK
<1>2. NoneLost /\ SeenTimed
  <2>1. ASSUME NEW i \in Leveled PROVE Held(i, seen.rows) <= Held(i, village)
    <3>1. Held(i, village) \in Nat
      BY <1>1, HeldIsNat
    <3> QED BY <3>1
  <2> QED BY <2>1 DEF NoneLost, SeenTimed, Landable
<1>3. PaysOff
  <2>1. ASSUME NEW top \in Tops, NEW c \in BillColumns
        PROVE  Worth(seen.rows, Left(top, c)) = paid[c] + Worth(village, Left(top, c))
    <3>1. \A q \in Row : Left(top, c)[q] \in Nat
      BY LeftIsNat
    <3>2. Worth(village, Left(top, c)) \in Nat
      BY <1>1, <3>1, WorthIs
    <3> QED BY <3>2
  <2> QED BY <2>1 DEF PaysOff
<1> QED BY <1>2, <1>3 DEF PaidUp

\* The invariant of the bill holds at first, and stays so.
LEMMA InitPaysOff == ASSUME Init PROVE PaidUp
<1>1. TypeOK /\ Landable /\ seen.rows = village /\ paid = [c \in BillColumns |-> 0]
  BY InitTyped DEF Init, Current
<1> QED BY <1>1, FreshPaysOff

\* Every step of the game and every capture leaves the books balanced.
LEMMA NextPaysOff == ASSUME TypeOK, Landable, PaidUp, [Next]_vars PROVE PaidUp'
<1>1. CASE Tick
  BY <1>1, TickPaysOff
<1>2. ASSUME NEW i \in Unbuilt, Build(i) PROVE PaidUp'
  BY <1>2, BuildPaysOff
<1>3. ASSUME NEW r \in BagToSet(village), Upgrade(r) PROVE PaidUp'
  BY <1>3, UpgradePaysOff
<1>4. ASSUME NEW i \in Items, Helper(i) /\ Send(i) PROVE PaidUp'
  BY <1>4, SendPaysOff
<1>5. ASSUME NEW i \in Items \ Leveled, Clear(i) \/ Grow(i) PROVE PaidUp'
  BY <1>5, ObstaclePaysOff
<1>6. CASE Capture
  <2>1. (seen.rows = village)' /\ (paid = [c \in BillColumns |-> 0])'
    BY <1>6 DEF Capture, Current
  <2>2. TypeOK' /\ Landable'
    BY <1>6, CaptureTyped
  <2> HIDE DEF PaidUp
  <2> QED BY <2>1, <2>2, FreshPaysOff, PTL
<1>7. CASE UNCHANGED vars
  BY <1>7 DEF vars, PaidUp, PaysOff, NoneLost, SeenTimed
<1> QED BY <1>1, <1>2, <1>3, <1>4, <1>5, <1>6, <1>7 DEF Next

\* Nothing that is there, or under way, is beyond the ceilings as of now, unless
\* beyond the tables.
Ceilings(e) == [i \in Leveled \cap Known |-> Reachable(i, GatesAt(e, now))]
Gated(e) ==
  /\ IsABag(e.rows) /\ BagToSet(e.rows) \subseteq Row
  /\ \A r \in BagToSet(e.rows) : r[3] > 0 => r[1] \in Leveled
  /\ Within(e.rows, Ceilings(e))

\* The levels an export's own gates reach are ceilings a bill can be counted to.
LEMMA CeilingsAre ==
  ASSUME NEW e
  PROVE  Ceilings(e) \in Tops /\ \A i \in Leveled \cap Known : Ceilings(e)[i] = Reachable(i, GatesAt(e, now))
<1>1. \A i \in Leveled \cap Known : Reachable(i, GatesAt(e, now)) \in Nat
  BY CeilingIs
<1> QED BY <1>1 DEF Ceilings, Tops

\* An export whose levels are all allowed heads nowhere past its gates, short of levels
\* the catalog does not list.
LEMMA AllowedIsGated ==
  ASSUME NEW e, IsABag(e.rows), BagToSet(e.rows) \subseteq Row,
         \A r \in BagToSet(e.rows) :
           /\ r[3] > 0 => r[1] \in Leveled
           /\ r[1] \in Leveled => Heading(r) > 0
           /\ r[1] \in Leveled \cap Known =>
                \A l \in DOMAIN Table(r[1]) : l <= Heading(r) => Allows(r[1], l, e.rows)
  PROVE  Gated(e)
<1>1. ASSUME NEW r \in BagToSet(e.rows), r[1] \in Leveled \cap Known
      PROVE  Heading(r) <= Ceilings(e)[r[1]] \/ Heading(r) > Len(Levels(r[1]))
  <2>1. /\ Heading(r) \in Nat /\ Heading(r) > 0
        /\ \A l : l \in DOMAIN Table(r[1]) /\ l <= Heading(r) => Allows(r[1], l, e.rows)
    <3>1. r[2] \in Nat
      BY RowParts
    <3> QED BY <1>1, <3>1 DEF Heading
  <2>2. CASE Heading(r) \in DOMAIN Table(r[1])
    <3>1. Allows(r[1], Heading(r), e.rows)
      BY <2>1, <2>2
    <3>2. \A g \in GateNames : GatesAt(e, now)[g] \in Nat /\ Built(Id[g], e.rows) <= GatesAt(e, now)[g]
      BY GatesCover
    <3>3. Met(r[1], Heading(r), GatesAt(e, now))
      BY <1>1, <2>1, <2>2, <3>1, <3>2, AllowedIsMet
    <3>4. Heading(r) \in DOMAIN Levels(r[1])
      BY <1>1, <2>2, CatalogIsTables
    <3> QED BY <1>1, <3>3, <3>4, CeilingIs, CeilingsAre
  <2>3. CASE Heading(r) \notin DOMAIN Table(r[1])
    <3>1. DOMAIN Table(r[1]) = 1..Len(Levels(r[1])) /\ Len(Levels(r[1])) \in Nat
      BY <1>1, CatalogIsTables
    <3> QED BY <2>1, <2>3, <3>1
  <2> QED BY <2>2, <2>3
<1> QED BY <1>1 DEF Gated, Within

\* The last export seen and the one that could be taken now head nowhere past their gates.
LEMMA BothGated ==
  ASSUME TypeOK, Landable, Earned, SeenAllowed, SeenTimed
  PROVE  Gated(seen) /\ Gated(Current)
<1>1. /\ IsABag(village) /\ BagToSet(village) \subseteq Row /\ Current.rows = village
      /\ IsABag(seen.rows) /\ BagToSet(seen.rows) \subseteq Row
  BY DEF TypeOK, Current
<1>2. Gated(seen)
  <2>1. \A r \in BagToSet(seen.rows) :
           /\ r[3] > 0 => r[1] \in Leveled
           /\ r[1] \in Leveled => Heading(r) > 0
           /\ r[1] \in Leveled \cap Known =>
                \A l \in DOMAIN Table(r[1]) : l <= Heading(r) => Allows(r[1], l, seen.rows)
    BY DEF SeenAllowed, SeenTimed
  <2> QED BY <1>1, <2>1, AllowedIsGated
<1>3. Gated(Current)
  <2>1. \A r \in BagToSet(Current.rows) :
           /\ r[3] > 0 => r[1] \in Leveled
           /\ r[1] \in Leveled => Heading(r) > 0
           /\ r[1] \in Leveled \cap Known =>
                \A l \in DOMAIN Table(r[1]) : l <= Heading(r) => Allows(r[1], l, Current.rows)
    BY <1>1 DEF Earned, LevelsAllowed, Landable
  <2> QED BY <1>1, <2>1, AllowedIsGated
<1> QED BY <1>2, <1>3

\* What the bill counts for a copy of an export, as of now.
Counted(e, c) ==
  [r \in Row |-> IF r[1] \in Leveled \cap Known
                 THEN Entered(r[1], Between(r[1], LevelNow(e, r, now), Ceilings(e)[r[1]]), c) ELSE 0]
Entries(e, c) == [r \in BagToSet(e.rows) |-> e.rows[r] * Counted(e, c)[r]]

\* The entries of a bill are numbers, one for each different row.
LEMMA EntriesAreNats ==
  ASSUME NEW e, Gated(e), NEW c \in BillColumns
  PROVE  /\ IsFiniteSet(BagToSet(e.rows)) /\ Entries(e, c) \in [BagToSet(e.rows) -> Nat]
         /\ \A r \in BagToSet(e.rows) :
              /\ e.rows[r] \in Nat /\ e.rows[r] > 0 /\ LevelNow(e, r, now) \in Nat
              /\ Counted(e, c)[r] \in Nat /\ Entries(e, c)[r] = e.rows[r] * Counted(e, c)[r]
<1>1. Finite(e.rows) /\ BagToSet(e.rows) \subseteq Row
  BY RowsAreFinite DEF Gated
<1>2. ASSUME NEW r \in BagToSet(e.rows)
      PROVE  /\ e.rows[r] \in Nat /\ e.rows[r] > 0 /\ LevelNow(e, r, now) \in Nat
             /\ Counted(e, c)[r] \in Nat /\ e.rows[r] * Counted(e, c)[r] \in Nat
  <2>1. e.rows[r] \in Nat /\ e.rows[r] > 0
    BY <1>1 DEF Finite, IsABag, BagToSet
  <2>2. LevelNow(e, r, now) \in Nat
    <3>1. r[2] \in Nat
      BY <1>1, RowParts
    <3> QED BY <3>1 DEF LevelNow
  <2>3. Counted(e, c)[r] \in Nat
    <3>1. CASE r[1] \in Leveled \cap Known
      <4>1. Ceilings(e)[r[1]] \in Nat
        BY <3>1, CeilingsAre DEF Tops
      <4>2. Counted(e, c)[r] = Entered(r[1], Between(r[1], LevelNow(e, r, now), Ceilings(e)[r[1]]), c)
        BY <1>1, <3>1 DEF Counted
      <4> QED BY <2>2, <3>1, <4>1, <4>2, EnteredSteps
    <3>2. CASE r[1] \notin Leveled \cap Known
      BY <1>1, <3>2 DEF Counted
    <3> QED BY <3>1, <3>2
  <2> QED BY <2>1, <2>2, <2>3, Multiples
<1>3. \A r \in BagToSet(e.rows) : Entries(e, c)[r] = e.rows[r] * Counted(e, c)[r]
  BY DEF Entries
<1> QED BY <1>1, <1>2, <1>3 DEF Finite, Entries

\* What the bill enters for an item is what it counts for its copies.
LEMMA ItemBill ==
  ASSUME NEW e, Gated(e), NEW c \in BillColumns, NEW i \in Leveled \cap Known,
         Reachable(i, GatesAt(e, now)) > 0
  PROVE  Entered(i, Stat(e, i).price, c)
           = SumFunction(Part(Entries(e, c), {r \in BagToSet(e.rows) : r[1] = i}))
<1> DEFINE T   == {r \in BagToSet(e.rows) : r[1] = i}
           A   == Restrict(e.rows, T)
           h   == LevelIn(e)
           B   == Im(h, A)
           top == Reachable(i, GatesAt(e, now))
           w   == [l \in Nat |-> Entered(i, Between(i, l, top), c)]
           col == IF c \in Currencies THEN c ELSE "seconds"
           none == c \notin Currencies /\ c # TimeColumn(LaneOf[i])
<1>1. Finite(e.rows) /\ BagToSet(e.rows) \subseteq Row /\ IsABag(e.rows)
  BY RowsAreFinite DEF Gated
<1>2. Finite(A) /\ BagToSet(A) = T /\ \A r \in T : A[r] = e.rows[r]
  <2>1. T \in SUBSET BagToSet(e.rows)
    OBVIOUS
  <2>2. \A r \in T : A[r] = e.rows[r]
    BY <1>1 DEF Restrict, IsABag, BagToSet
  <2> HIDE DEF T
  <2> QED BY <1>1, <2>1, <2>2, SizeOfPart
<1>3. Levelled(e, i) = B
  BY <1>1, LevelledIsImage
<1>4. top \in Nat /\ \A l \in Nat : w[l] \in Nat /\ w[l] = Entered(i, Between(i, l, top), c)
  <2>1. top \in Nat
    BY CeilingIs
  <2> HIDE DEF top
  <2> QED BY <2>1, EnteredSteps
<1>5. \A r \in T : h[r] \in Nat /\ h[r] = LevelNow(e, r, now)
  BY <1>1, EntriesAreNats DEF LevelIn
<1>6. Stat(e, i).price = CostLeft(i, B, top)
  BY <1>3 DEF Stat, ItemStat
<1>7. \A k \in Priced : CostLeft(i, B, top)[k] = SumFunction([l \in BagToSet(B) |-> B[l] * Between(i, l, top)[k]])
  BY DEF CostLeft, Total, Priced
<1>8. \A p : Entered(i, p, c) = IF none THEN 0 ELSE p[col]
  BY DEF Entered
<1>9. col \in Priced
  BY DEF Priced
<1> HIDE DEF T, A, B, h, top, w, col, none
<1>10. /\ IsFiniteSet(BagToSet(B)) /\ BagToSet(B) = {h[r] : r \in BagToSet(A)}
       /\ [l \in BagToSet(B) |-> B[l] * w[l]] \in [BagToSet(B) -> Nat]
       /\ SumFunction([l \in BagToSet(B) |-> B[l] * w[l]])
            = SumFunction([r \in BagToSet(A) |-> A[r] * w[h[r]]])
  <2>1. \A r \in BagToSet(A) : w[h[r]] \in Nat
    BY <1>2, <1>4, <1>5
  <2> QED BY <1>2, <2>1, TotalOfImage DEF B
<1>11. \A l \in BagToSet(B) : l \in Nat
  BY <1>2, <1>5, <1>10
<1>12. Entered(i, CostLeft(i, B, top), c) = SumFunction([l \in BagToSet(B) |-> B[l] * w[l]])
  <2>1. CASE none
    <3> DEFINE f == [l \in BagToSet(B) |-> B[l] * w[l]]
    <3>1. \A l \in BagToSet(B) : f[l] = 0
      <4> TAKE l \in BagToSet(B)
      <4>1. w[l] = 0
        BY <1>4, <1>8, <1>11, <2>1
      <4>2. B[l] \in Nat
        <5>1. Finite(B)
          BY <1>2, ImageCopies DEF B
        <5> QED BY <5>1 DEF Finite, IsABag, BagToSet
      <4> QED BY <4>1, <4>2
    <3>2. f \in [BagToSet(B) -> Nat]
      BY <1>10
    <3> HIDE DEF f
    <3>3. SumFunction(f) \in Nat /\ ~(SumFunction(f) > 0)
      BY <1>10, <3>1, <3>2, TermWithin
    <3>4. SumFunction(f) = 0
      BY <3>3
    <3> QED BY <1>8, <2>1, <3>4 DEF f
  <2>2. CASE ~none
    <3>1. \A l \in BagToSet(B) : w[l] = Between(i, l, top)[col]
      BY <1>4, <1>8, <1>11, <2>2
    <3>2. [l \in BagToSet(B) |-> B[l] * w[l]] = [l \in BagToSet(B) |-> B[l] * Between(i, l, top)[col]]
      BY <3>1
    <3>3. Entered(i, CostLeft(i, B, top), c) = CostLeft(i, B, top)[col]
      BY <1>8, <2>2
    <3> QED BY <1>7, <1>9, <3>2, <3>3
  <2> QED BY <2>1, <2>2
<1>13. [r \in BagToSet(A) |-> A[r] * w[h[r]]] = Part(Entries(e, c), T)
  <2>1. ASSUME NEW r \in T PROVE A[r] * w[h[r]] = Entries(e, c)[r]
    <3>1. r \in BagToSet(e.rows) /\ r[1] = i /\ r \in Row
      BY <1>1 DEF T
    <3>2. Entries(e, c)[r] = e.rows[r] * Counted(e, c)[r]
      BY <3>1, EntriesAreNats
    <3>3. Counted(e, c)[r] = Entered(i, Between(i, LevelNow(e, r, now), top), c)
      BY <3>1, CeilingsAre DEF Counted, top
    <3>4. w[h[r]] = Entered(i, Between(i, LevelNow(e, r, now), top), c)
      BY <1>4, <1>5
    <3> QED BY <1>2, <3>2, <3>3, <3>4
  <2> QED BY <1>2, <2>1 DEF Part
<1> QED BY <1>6, <1>10, <1>12, <1>13 DEF T

\* The bill is what it counts for all copies.
LEMMA BillIsEntries ==
  ASSUME NEW e, Gated(e), NEW c \in BillColumns
  PROVE  Bill(Stats(e, now)).spend[c] = SumFunction(Entries(e, c))
<1> DEFINE R     == BagToSet(e.rows)
           f     == Entries(e, c)
           S     == {r \in R : r[1] \in Leveled \cap Known /\ Reachable(r[1], GatesAt(e, now)) > 0}
           P     == Measured(Stats(e, now))
           w     == [x \in P |-> Entered(x.id, x.price, c)]
           class == [r \in S |-> Stat(e, r[1])]
<1>1. /\ IsFiniteSet(R) /\ f \in [R -> Nat] /\ R \subseteq Row
      /\ \A r \in R : e.rows[r] \in Nat /\ LevelNow(e, r, now) \in Nat /\ f[r] = e.rows[r] * Counted(e, c)[r]
  BY EntriesAreNats DEF Gated
<1>2. Bill(Stats(e, now)).spend[c] = SumFunction(w)
  BY DEF Bill
<1>3. /\ \A x \in P : /\ x.id \in Shown(e) /\ x.id \in Leveled \cap Known /\ x = Stat(e, x.id)
                      /\ Reachable(x.id, GatesAt(e, now)) > 0
      /\ \A i \in Shown(e) : Reachable(i, GatesAt(e, now)) > 0 => Stat(e, i) \in P
      /\ \A i : Stat(e, i).id = i
  <2>1. /\ Stats(e, now) = {Stat(e, i) : i \in Shown(e)}
        /\ \A i : Stat(e, i).id = i /\ Stat(e, i).reachable = Reachable(i, GatesAt(e, now))
    BY StatsAre
  <2>2. \A i \in Shown(e) : i \in Leveled
    BY DEF Shown
  <2>3. \A i : i \notin Known => Reachable(i, GatesAt(e, now)) = 0
    BY DEF Reachable
  <2>4. \A x : x \in P <=> x \in Stats(e, now) /\ x.reachable > 0
    BY DEF Measured
  <2> HIDE DEF P
  <2> QED BY <2>1, <2>2, <2>3, <2>4
<1>4. IsFiniteSet(P)
  <2>1. Shown(e) \subseteq Items /\ IsFiniteSet(Items)
    BY AnalyzeAssumption DEF Shown, Leveled
  <2>2. IsFiniteSet(Shown(e))
    BY <2>1, FS_Subset
  <2> DEFINE h == [i \in Shown(e) |-> Stat(e, i)]
  <2>3. P \in SUBSET {h[i] : i \in Shown(e)}
    <3>1. \A x \in P : x = h[x.id]
      BY <1>3
    <3>2. \A x \in P : x.id \in Shown(e)
      BY <1>3
    <3> HIDE DEF h, P
    <3> QED BY <3>1, <3>2
  <2> HIDE DEF h, P
  <2>4. IsFiniteSet({h[i] : i \in Shown(e)})
    BY <2>2, ImageIsFinite
  <2> QED BY <2>3, <2>4, FS_Subset
<1>5. \A r \in S : class[r] \in P
  <2>1. \A r \in S : r[1] \in Shown(e)
    BY <1>1, SectionAssumption DEF Shown
  <2> HIDE DEF P
  <2> QED BY <1>3, <2>1
<1>6. ASSUME NEW x \in P PROVE {r \in S : class[r] = x} = {r \in R : r[1] = x.id}
  <2>1. \A r \in S : class[r].id = r[1] /\ class[r] = Stat(e, r[1])
    BY <1>3
  <2>2. \A r \in R : r[1] = x.id => r \in S
    <3> HIDE DEF P
    <3> QED BY <1>3
  <2>3. \A r \in S : r \in R
    OBVIOUS
  <2> HIDE DEF P, S, class
  <2> QED BY <1>3, <2>1, <2>2, <2>3
<1>7. S \in SUBSET R
  OBVIOUS
<1>8. \A r \in R \ S : f[r] = 0
  <2> TAKE r \in R \ S
  <2>1. Counted(e, c)[r] = 0
    <3>1. CASE r[1] \notin Leveled \cap Known
      BY <1>1, <3>1 DEF Counted
    <3>2. CASE r[1] \in Leveled \cap Known
      <4>1. Reachable(r[1], GatesAt(e, now)) = 0
        <5>1. Reachable(r[1], GatesAt(e, now)) \in Nat
          BY <3>2, CeilingIs
        <5>2. ~(Reachable(r[1], GatesAt(e, now)) > 0)
          BY <3>2
        <5> QED BY <5>1, <5>2
      <4>2. LevelNow(e, r, now) \in Nat
        BY <1>1
      <4>3. Entered(r[1], Between(r[1], LevelNow(e, r, now), 0), c) = 0
        <5>1. 0 <= LevelNow(e, r, now) /\ 0 \in Nat
          BY <4>2
        <5> QED BY <3>2, <4>2, <5>1, EnteredSteps
      <4> QED BY <1>1, <3>2, <4>1, <4>3, CeilingsAre DEF Counted
    <3> QED BY <3>1, <3>2
  <2> HIDE DEF f, R, S
  <2> QED BY <1>1, <2>1
<1> HIDE DEF R, f, S, P, class
<1>9. IsFiniteSet(S) /\ Part(f, S) \in [S -> Nat]
  BY <1>1, <1>7, FS_Subset, SumTakes
<1>10. \A x \in P : w[x] = SumFunction(Part(Part(f, S), {r \in S : class[r] = x}))
  <2> TAKE x \in P
  <2>1. Entered(x.id, x.price, c) = SumFunction(Part(f, {r \in R : r[1] = x.id}))
    <3>1. Entered(x.id, Stat(e, x.id).price, c) = SumFunction(Part(f, {r \in R : r[1] = x.id}))
      BY <1>3, ItemBill DEF f, R
    <3> QED BY <1>3, <3>1
  <2>2. Part(Part(f, S), {r \in S : class[r] = x}) = Part(f, {r \in S : class[r] = x})
    BY DEF Part
  <2> QED BY <1>6, <2>1, <2>2
<1>11. w \in [P -> Nat]
  <2>1. \A x \in P : SumFunction(Part(Part(f, S), {r \in S : class[r] = x})) \in Nat
    <3> TAKE x \in P
    <3>1. {r \in S : class[r] = x} \in SUBSET S
      OBVIOUS
    <3> QED BY <1>9, <3>1, SumTakes
  <2>2. \A x \in P : w[x] \in Nat
    BY <1>10, <2>1
  <2>3. w = [x \in P |-> w[x]]
    OBVIOUS
  <2> HIDE DEF w
  <2> QED BY <2>2, <2>3
<1> HIDE DEF w
<1>12. SumFunction(w) = SumFunction(Part(f, S))
  BY <1>4, <1>5, <1>9, <1>10, <1>11, SumOfClasses
<1>13. SumFunction(f) = SumFunction(Part(f, S))
  BY <1>1, <1>7, <1>8, SumOfSome
<1> QED BY <1>2, <1>12, <1>13 DEF f

\* What an upgrade under way is worth.
Flying(e) == {r \in BagToSet(e.rows) : r[3] > 0 /\ ~Elapsed(e, r, now) /\ ~Helper(r[1]) /\ r[1] \in Known}
Flown(e, c) ==
  [r \in BagToSet(e.rows) |->
     IF r \in Flying(e) THEN e.rows[r] * Entered(r[1], Between(r[1], r[2], r[2] + 1), c) ELSE 0]

\* Of a copy the bill counts what is left once it has landed, and what is under
\* way.
LEMMA EntrySplits ==
  ASSUME NEW e, Gated(e), NEW c \in BillColumns, NEW r \in BagToSet(e.rows)
  PROVE  /\ Flown(e, c)[r] \in Nat
         /\ Entries(e, c)[r] = e.rows[r] * Left(Ceilings(e), c)[r] + Flown(e, c)[r]
<1> DEFINE i   == r[1]
           top == Ceilings(e)[i]
           k   == e.rows[r]
           l   == LevelNow(e, r, now)
<1>1. r \in Row /\ r[2] \in Nat /\ r[3] \in Nat /\ k \in Nat
  BY EntriesAreNats, RowParts DEF Gated
<1>2. Entries(e, c)[r] = k * Counted(e, c)[r] /\ l \in Nat
  BY EntriesAreNats
<1>3. r \in Flying(e) => i \in Leveled \cap Known
  BY DEF Flying, Gated
<1>4. CASE i \notin Leveled \cap Known
  <2>1. Counted(e, c)[r] = 0 /\ Left(Ceilings(e), c)[r] = 0
    BY <1>1, <1>4 DEF Counted, Left
  <2>2. Flown(e, c)[r] = 0
    BY <1>3, <1>4 DEF Flown
  <2>3. \A n \in Nat : n * 0 = n * 0 + 0
    OBVIOUS
  <2> HIDE DEF k
  <2>4. Entries(e, c)[r] = k * Left(Ceilings(e), c)[r] + Flown(e, c)[r]
    BY <1>1, <1>2, <2>1, <2>2, <2>3
  <2> QED BY <2>2, <2>4 DEF k
<1>5. CASE i \in Leveled \cap Known /\ r \notin Flying(e)
  <2>1. l = Heading(r)
    BY <1>1, <1>5 DEF Flying, LevelNow, Elapsed, Heading, Climbing
  <2>2. Counted(e, c)[r] = Left(Ceilings(e), c)[r] /\ Flown(e, c)[r] = 0
    BY <1>1, <1>5, <2>1 DEF Counted, Left, Flown
  <2>3. k * Counted(e, c)[r] \in Nat
    BY <1>2, EntriesAreNats
  <2> HIDE DEF k
  <2>4. Entries(e, c)[r] = k * Left(Ceilings(e), c)[r] + Flown(e, c)[r]
    BY <1>2, <2>2, <2>3
  <2> QED BY <2>2, <2>4 DEF k
<1>6. CASE i \in Leveled \cap Known /\ r \in Flying(e)
  <2>1. l = r[2] /\ Heading(r) = r[2] + 1
    BY <1>1, <1>6 DEF Flying, LevelNow, Heading, Climbing
  <2> DEFINE a == Entered(i, Between(i, r[2], top), c)
             b == Entered(i, Between(i, r[2] + 1, top), c)
             d == Entered(i, Between(i, r[2], r[2] + 1), c)
  <2>2. Counted(e, c)[r] = a /\ Left(Ceilings(e), c)[r] = b /\ Flown(e, c)[r] = k * d
    BY <1>1, <1>6, <2>1 DEF Counted, Left, Flown
  <2>3. r[2] + 1 <= top \/ r[2] + 1 > Len(Levels(i))
    BY <1>6, <2>1 DEF Gated, Within
  <2>4. top \in Nat /\ Len(Levels(i)) \in Nat /\ r[2] + 1 \in Nat
    <3>1. top \in Nat
      BY <1>6, CeilingsAre DEF Tops
    <3> QED BY <1>1, <1>6, <3>1, CatalogIsTables
  <2> HIDE DEF top
  <2>5. a \in Nat /\ b \in Nat /\ d \in Nat
    BY <1>1, <1>6, <2>4, EnteredSteps
  <2>6. a = d + b
    <3>1. CASE Len(Levels(i)) <= r[2]
      <4>1. Len(Levels(i)) <= r[2] + 1
        BY <1>1, <2>4, <3>1
      <4>2. a = 0 /\ b = 0 /\ d = 0
        BY <1>1, <1>6, <2>4, <3>1, <4>1, EnteredSteps
      <4> HIDE DEF a, b, d
      <4> QED BY <4>2
    <3>2. CASE r[2] < Len(Levels(i)) /\ r[2] < top
      <4>1. /\ Entered(i, Between(i, r[2], r[2] + 1), c) = Entered(i, Asked(i, r[2] + 1), c)
            /\ Entered(i, Between(i, r[2], top), c)
                 = Entered(i, Asked(i, r[2] + 1), c) + Entered(i, Between(i, r[2] + 1, top), c)
        BY <1>1, <1>6, <2>4, <3>2, EnteredSteps
      <4> QED BY <4>1
    <3>3. r[2] < Len(Levels(i)) => r[2] < top
      BY <1>1, <2>3, <2>4
    <3> QED BY <1>1, <2>4, <3>1, <3>2, <3>3
  <2> HIDE DEF a, b, d, k
  <2>7. k * d \in Nat /\ k * (d + b) = k * b + k * d
    <3>1. k * d \in Nat /\ k * b \in Nat
      BY <1>1, <2>5, Multiples
    <3> QED BY <1>1, <2>5, <3>1
  <2> QED BY <1>2, <2>2, <2>6, <2>7 DEF k
<1> QED BY <1>4, <1>5, <1>6

\* What an export says is due is what is left of its copies.
LEMMA DueIs ==
  ASSUME NEW e, Gated(e), NEW c \in BillColumns
  PROVE  /\ Due(e, now)[c] = Worth(e.rows, Left(Ceilings(e), c))
         /\ Worth(e.rows, Left(Ceilings(e), c)) \in Nat
<1> DEFINE R    == BagToSet(e.rows)
           F    == Flying(e)
           left == [r \in R |-> e.rows[r] * Left(Ceilings(e), c)[r]]
           flown == Flown(e, c)
           cost == [r \in BagToSet(Restrict(e.rows, F)) |->
                      Restrict(e.rows, F)[r] * Entered(r[1], Between(r[1], r[2], r[2] + 1), c)]
<1>1. Due(e, now)[c] = Bill(Stats(e, now)).spend[c] - SumFunction(cost)
  BY DEF Due, Total, Flying
<1>2. /\ Finite(e.rows) /\ R \subseteq Row /\ F \in SUBSET R
      /\ \A r \in Row : Left(Ceilings(e), c)[r] \in Nat
  BY RowsAreFinite, CeilingsAre, LeftIsNat DEF Gated, Flying
<1>3. /\ Worth(e.rows, Left(Ceilings(e), c)) \in Nat
      /\ Worth(e.rows, Left(Ceilings(e), c)) = SumFunction(left)
  BY <1>2, WorthIs
<1>4. IsFiniteSet(R) /\ \A r \in R : e.rows[r] \in Nat
  BY EntriesAreNats
<1>5. \A r \in R : /\ left[r] \in Nat /\ flown[r] \in Nat /\ Entries(e, c)[r] = left[r] + flown[r]
  <2> TAKE r \in R
  <2>1. e.rows[r] * Left(Ceilings(e), c)[r] \in Nat
    BY <1>2, <1>4, Multiples
  <2>2. flown[r] \in Nat /\ Entries(e, c)[r] = e.rows[r] * Left(Ceilings(e), c)[r] + flown[r]
    BY EntrySplits
  <2>3. left[r] = e.rows[r] * Left(Ceilings(e), c)[r]
    OBVIOUS
  <2> HIDE DEF left, flown
  <2> QED BY <2>1, <2>2, <2>3
<1>6. left \in [R -> Nat] /\ flown \in [R -> Nat] /\ Entries(e, c) = [r \in R |-> left[r] + flown[r]]
  <2>1. Entries(e, c) = [r \in R |-> Entries(e, c)[r]]
    BY DEF Entries
  <2>2. left = [r \in R |-> left[r]]
    OBVIOUS
  <2>3. flown = [r \in R |-> flown[r]]
    BY DEF Flown
  <2> HIDE DEF R, left, flown
  <2> QED BY <1>5, <2>1, <2>2, <2>3
<1>7. cost = Part(flown, F)
  <2>1. BagToSet(Restrict(e.rows, F)) = F /\ \A r \in F : Restrict(e.rows, F)[r] = e.rows[r]
    <3>1. \A r \in F : Restrict(e.rows, F)[r] = e.rows[r]
      BY <1>2 DEF Restrict, Finite, IsABag, BagToSet
    <3> HIDE DEF F
    <3> QED BY <1>2, <3>1, SizeOfPart
  <2>2. \A r \in F : flown[r] = e.rows[r] * Entered(r[1], Between(r[1], r[2], r[2] + 1), c)
    BY <1>2 DEF Flown
  <2>3. cost = [r \in F |-> Restrict(e.rows, F)[r] * Entered(r[1], Between(r[1], r[2], r[2] + 1), c)]
    BY <2>1
  <2> HIDE DEF F, flown, cost
  <2> QED BY <2>1, <2>2, <2>3 DEF Part
<1>8. \A r \in R \ F : flown[r] = 0
  BY DEF Flown
<1>9. Bill(Stats(e, now)).spend[c] = SumFunction(Entries(e, c))
  BY BillIsEntries
<1> HIDE DEF R, F, left, flown, cost
<1>10. SumFunction(flown) = SumFunction(cost) /\ SumFunction(flown) \in Nat
  BY <1>2, <1>4, <1>6, <1>7, <1>8, SumOfSome, SumTakes
<1>11. SumFunction([r \in R |-> left[r] + flown[r]]) = SumFunction(left) + SumFunction(flown)
  BY <1>4, <1>6, SumOfPairs
<1>12. SumFunction(Entries(e, c)) = SumFunction(left) + SumFunction(cost)
  BY <1>6, <1>10, <1>11
<1>13. SumFunction(left) \in Nat /\ SumFunction(cost) \in Nat
  BY <1>3, <1>10
<1> QED BY <1>1, <1>3, <1>9, <1>12, <1>13

\* So the bill is paid off.
LEMMA BillHolds ==
  ASSUME TypeOK, Landable, Earned, SeenAllowed, PaidUp
  PROVE  BillIsPaidOff
<1> SUFFICES ASSUME GatesAt(seen, now) = GatesNow, \A i \in Leveled : Owned(seen, i) = Owned(Current, i),
                    NEW c \in BillColumns
             PROVE  Due(seen, now)[c] = paid[c] + Due(Current, now)[c]
  BY DEF BillIsPaidOff
<1>1. Gated(seen) /\ Gated(Current)
  BY BothGated DEF PaidUp
<1>2. Ceilings(seen) = Ceilings(Current)
  BY DEF Ceilings, GatesNow
<1>3. Current.rows = village
  BY DEF Current
<1>4. /\ Ceilings(Current) \in Tops
      /\ Within(village, Ceilings(Current))
  BY <1>1, <1>3, CeilingsAre DEF Gated
<1>5. \A i \in Leveled : Held(i, seen.rows) = Held(i, village)
  <2> TAKE i \in Leveled
  <2>1. Owned(seen, i) = Tally(AllOf(i), seen.rows)
    BY OwnedIsTally DEF TypeOK
  <2>2. Owned(Current, i) = Tally(AllOf(i), village)
    BY <1>1, <1>3, OwnedIsTally DEF Gated
  <2> QED BY <2>1, <2>2 DEF Held
<1>6. Worth(seen.rows, Left(Ceilings(Current), c)) = paid[c] + Worth(village, Left(Ceilings(Current), c))
  BY <1>4, <1>5 DEF PaidUp, PaysOff
<1>7. /\ Due(seen, now)[c] = Worth(seen.rows, Left(Ceilings(Current), c))
      /\ Due(Current, now)[c] = Worth(village, Left(Ceilings(Current), c))
  BY <1>1, <1>2, <1>3, DueIs
<1> QED BY <1>6, <1>7

\* What the bill says is left is what the rest will cost: of the stored export, what
\* the game took since and what a fresh report says is left, in every currency and
\* kind of time, for every catalog made of the game's tables, every account and
\* every way to play it, as long as no gate opened and nothing new was built.
THEOREM BillIsTrue == Spec => []BillIsPaidOff
<1>1. Init => TypeOK /\ Landable /\ Earned /\ SeenAllowed /\ PaidUp
  BY InitTyped, InitEarned, InitSeen, InitPaysOff
<1>2. TypeOK /\ Landable /\ Earned /\ SeenAllowed /\ PaidUp /\ [Next]_vars
      => (TypeOK /\ Landable /\ Earned /\ SeenAllowed /\ PaidUp)'
  <2> SUFFICES ASSUME TypeOK, Landable, Earned, SeenAllowed, PaidUp, [Next]_vars
               PROVE  (TypeOK /\ Landable /\ Earned /\ SeenAllowed /\ PaidUp)'
    OBVIOUS
  <2> QED BY NextTyped, NextEarned, NextSeen, NextPaysOff
<1>3. TypeOK /\ Landable /\ Earned /\ SeenAllowed /\ PaidUp => BillIsPaidOff
  BY BillHolds
<1> QED BY <1>1, <1>2, <1>3, PTL DEF Spec
=============================================================================
