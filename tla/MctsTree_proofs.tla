-------------------------- MODULE MctsTree_proofs ---------------------------
(***************************************************************************)
(* Proofs about MctsTree: for every game, history, pool, batch, depth and  *)
(* number of simulations, visits flow through the tree without loss, the   *)
(* virtual losses are the lanes in flight, no simulation plays on after    *)
(* its own game's end, and what is published is what was simulated.        *)
(*                                                                         *)
(* The invariant is MInv: the tree is well formed (TreeOK), its visits and *)
(* virtual losses are totals over the edges into a node (FlowOK) and over  *)
(* the lanes (LossOK), the lanes are lines of the game (LanesOK) and are   *)
(* where the worker's phase wants them (PhaseOK); and BInv: the books of   *)
(* the shared root (BooksOK).  Sums over finite sets come first: the       *)
(* library's induction over finite sets takes an operator, so IndSubsets   *)
(* and IndElements state it for sets of sets.                              *)
(***************************************************************************)
EXTENDS MctsTree, FiniteSetTheorems, SequenceTheorems, WellFoundedInduction, TLAPS
-----------------------------------------------------------------------------
(***************************************************************************)
(* Induction, over the numbers and over the subsets of a finite set.       *)
(***************************************************************************)
\* The naturals are well founded: a set that holds 0 and the successor of each
\* of its numbers holds them all.
LEMMA IndSet ==
  ASSUME NEW S, 0 \in S, \A n \in Nat : n \in S => n + 1 \in S
  PROVE  Nat \subseteq S
<1>1. SUFFICES ASSUME NEW k \in Nat, k \notin S PROVE FALSE
  OBVIOUS
<1>. DEFINE Bad == {n \in Nat : n \notin S}
            T == {1 .. n : n \in Bad}
<1>2. T \subseteq FiniteSubsetsOf(Nat) /\ T # {}
  <2>1. \A n \in Nat : IsFiniteSet(1 .. n) /\ (1 .. n) \subseteq Nat
    BY FS_Interval
  <2>. QED
    BY <1>1, <2>1 DEF FiniteSubsetsOf
<1>3. PICK x \in T : \A y \in T : ~(<<y, x>> \in StrictSubsetOrdering(Nat))
  <2>1. IsWellFoundedOn(StrictSubsetOrdering(Nat), FiniteSubsetsOf(Nat))
    BY FS_StrictSubsetOrderingWellFounded
  <2>. HIDE DEF T
  <2>. QED
    BY <1>2, <2>1, WFMin
<1>4. PICK n \in Bad : x = 1 .. n
  BY <1>3
<1>5. n # 0 /\ n - 1 \in Nat
  BY <1>4
<1>6. n - 1 \in Bad
  BY <1>5, <1>4
<1>7. 1 .. (n - 1) \in T
  BY <1>6
<1>8. <<1 .. (n - 1), 1 .. n>> \in StrictSubsetOrdering(Nat)
  BY <1>5, <1>4 DEF StrictSubsetOrdering
<1>. QED
  BY <1>3, <1>4, <1>7, <1>8

\* Strict inclusion of finite sets is well founded: a family that holds every
\* subset whose smaller subsets it holds has them all.
LEMMA IndSubsets ==
  ASSUME NEW S, IsFiniteSet(S), NEW P,
         \A s \in SUBSET S : (\A u \in SUBSET s : u # s => u \in P) => s \in P
  PROVE  SUBSET S \subseteq P
<1>1. SUFFICES ASSUME NEW z \in SUBSET S, z \notin P PROVE FALSE
  OBVIOUS
<1>. DEFINE Bad == {s \in SUBSET S : s \notin P}
<1>2. Bad \subseteq FiniteSubsetsOf(S) /\ Bad # {}
  BY <1>1, FS_FiniteSubsetsOfFinite
<1>3. PICK x \in Bad : \A y \in Bad : ~(<<y, x>> \in StrictSubsetOrdering(S))
  <2>1. IsWellFoundedOn(StrictSubsetOrdering(S), FiniteSubsetsOf(S))
    BY FS_StrictSubsetOrderingWellFounded
  <2>. HIDE DEF Bad
  <2>. QED
    BY <1>2, <2>1, WFMin
<1>4. \A u \in SUBSET x : u # x => u \in P
  BY <1>3 DEF StrictSubsetOrdering
<1>. QED
  BY <1>3, <1>4

\* Adding up one element at a time.
LEMMA IndElements ==
  ASSUME NEW S, IsFiniteSet(S), NEW P, {} \in P,
         \A s \in SUBSET S, x \in S : s \in P /\ x \notin s => s \cup {x} \in P
  PROVE  S \in P
<1>1. ASSUME NEW s \in SUBSET S, \A u \in SUBSET s : u # s => u \in P PROVE s \in P
  <2>1. CASE s = {}
    BY <2>1
  <2>2. CASE s # {}
    <3>1. PICK x \in s : TRUE
      BY <2>2
    <3>2. s \ {x} \in P /\ s = (s \ {x}) \cup {x}
      BY <1>1, <3>1
    <3>. QED
      BY <3>1, <3>2
  <2>. QED
    BY <2>1, <2>2
<1>2. SUBSET S \subseteq P
  BY <1>1, IndSubsets
<1>. QED
  BY <1>2

-----------------------------------------------------------------------------
(***************************************************************************)
(* Sums over a finite set, as MapThenSumSet forms them: g[s] is the sum of *)
(* f over s, for the sets s of D.                                          *)
(***************************************************************************)
Pick(s) == CHOOSE x \in s : TRUE
AddsUp(g, f, D) == g = [s \in D |-> IF s = {} THEN 0 ELSE f[Pick(s)] + g[s \ {Pick(s)}]]
SumsOf(g, f, S) == AddsUp(g, f, SUBSET S)
Total(f, S) == (CHOOSE g : SumsOf(g, f, S))[S]

LEMMA PickFrom == ASSUME NEW s, s # {} PROVE Pick(s) \in s
BY DEF Pick

\* The subsets of S with at most k elements.
Small(S, k) == {s \in SUBSET S : Cardinality(s) <= k}

LEMMA SmallSets ==
  ASSUME NEW S, IsFiniteSet(S), NEW k \in Nat
  PROVE  /\ Small(S, 0) = {{}}
         /\ \A s \in Small(S, k + 1) : s # {} => s \ {Pick(s)} \in Small(S, k)
         /\ \A s \in Small(S, k) : s \in Small(S, k + 1) /\ (s # {} => s \ {Pick(s)} \in Small(S, k))
         /\ Small(S, Cardinality(S)) = SUBSET S
<1>1. \A s \in SUBSET S : /\ Cardinality(s) \in Nat /\ Cardinality(s) <= Cardinality(S)
                          /\ Cardinality(s) = 0 <=> s = {}
  BY FS_Subset, FS_CardinalityType, FS_EmptySet
<1>2. \A s \in SUBSET S : s # {} => Cardinality(s \ {Pick(s)}) = Cardinality(s) - 1
  BY FS_Subset, FS_RemoveElement, PickFrom
<1>3. Small(S, 0) = {{}}
  BY <1>1 DEF Small
<1>4. Small(S, Cardinality(S)) = SUBSET S
  BY <1>1 DEF Small
<1>5. \A s \in Small(S, k + 1) : s # {} => s \ {Pick(s)} \in Small(S, k)
  BY <1>1, <1>2 DEF Small
<1>6. \A s \in Small(S, k) : s \in Small(S, k + 1) /\ (s # {} => s \ {Pick(s)} \in Small(S, k))
  BY <1>1, <1>2 DEF Small
<1>. QED
  BY <1>3, <1>4, <1>5, <1>6

LEMMA SumsExist ==
  ASSUME NEW S, IsFiniteSet(S), NEW f
  PROVE  \E g : SumsOf(g, f, S)
<1>. DEFINE N == {k \in Nat : \E g : AddsUp(g, f, Small(S, k))}
<1>1. 0 \in N
  <2>. DEFINE g == [s \in Small(S, 0) |-> 0]
  <2>1. \A s \in Small(S, 0) : s = {}
    BY SmallSets
  <2>2. AddsUp(g, f, Small(S, 0))
    BY <2>1 DEF AddsUp
  <2>. QED
    BY <2>2
<1>2. ASSUME NEW k \in Nat, k \in N PROVE k + 1 \in N
  <2>1. PICK g : AddsUp(g, f, Small(S, k))
    BY <1>2
  <2>. DEFINE D == Small(S, k)
              E == Small(S, k + 1)
              h == [s \in E |-> IF s = {} THEN 0 ELSE f[Pick(s)] + g[s \ {Pick(s)}]]
  <2>2. \A s \in D : s \in E /\ g[s] = h[s]
    <3>1. \A s \in D : s \in E
      BY SmallSets
    <3>2. \A s \in D : g[s] = IF s = {} THEN 0 ELSE f[Pick(s)] + g[s \ {Pick(s)}]
      BY <2>1 DEF AddsUp
    <3>. QED
      BY <3>1, <3>2
  <2>3. \A s \in E : s # {} => s \ {Pick(s)} \in D
    BY SmallSets
  <2>4. \A s \in E : h[s] = IF s = {} THEN 0 ELSE f[Pick(s)] + h[s \ {Pick(s)}]
    BY <2>2, <2>3
  <2>5. AddsUp(h, f, E)
    BY <2>4 DEF AddsUp
  <2>. QED
    BY <2>5
<1>. HIDE DEF N
<1>3. Cardinality(S) \in N
  BY <1>1, <1>2, IndSet, FS_CardinalityType
<1>4. Cardinality(S) \in Nat /\ Small(S, Cardinality(S)) = SUBSET S
  BY SmallSets, FS_CardinalityType
<1>5. PICK g : AddsUp(g, f, Small(S, Cardinality(S)))
  BY <1>3 DEF N
<1>. QED
  BY <1>4, <1>5 DEF SumsOf

\* Sums of the same numbers, over sets of which one may be part of the other.
LEMMA SumsAgree ==
  ASSUME NEW S, IsFiniteSet(S), NEW T, S \subseteq T,
         NEW f, NEW e, \A x \in S : f[x] = e[x],
         NEW g, SumsOf(g, f, S), NEW h, SumsOf(h, e, T)
  PROVE  g[S] = h[S]
<1>. DEFINE P == {s \in SUBSET S : g[s] = h[s]}
<1>1. ASSUME NEW s \in SUBSET S, \A u \in SUBSET s : u # s => u \in P PROVE s \in P
  <2>1. /\ g[s] = IF s = {} THEN 0 ELSE f[Pick(s)] + g[s \ {Pick(s)}]
        /\ h[s] = IF s = {} THEN 0 ELSE e[Pick(s)] + h[s \ {Pick(s)}]
    BY DEF SumsOf, AddsUp
  <2>2. s # {} => Pick(s) \in s /\ g[s \ {Pick(s)}] = h[s \ {Pick(s)}]
    BY <1>1, PickFrom
  <2>. QED
    BY <2>1, <2>2
<1>2. SUBSET S \subseteq P
  <2>. HIDE DEF P
  <2>. QED
    BY <1>1, IndSubsets
<1>. QED
  BY <1>2

\* The sums over the subsets of S.
Adding(g, f, S) == SumsOf(g, f, S) /\ \A s \in SUBSET S : Total(f, s) = g[s]

LEMMA TotalAdds ==
  ASSUME NEW S, IsFiniteSet(S), NEW f
  PROVE  \E g : Adding(g, f, S)
<1>1. PICK g : SumsOf(g, f, S)
  BY SumsExist
<1>2. ASSUME NEW s \in SUBSET S PROVE Total(f, s) = g[s]
  <2>. DEFINE h == CHOOSE k : SumsOf(k, f, s)
  <2>1. IsFiniteSet(s)
    BY FS_Subset
  <2>2. SumsOf(h, f, s)
    BY <2>1, SumsExist
  <2>3. Total(f, s) = h[s]
    BY DEF Total
  <2>. HIDE DEF h
  <2>4. s \subseteq S /\ \A x \in s : f[x] = f[x]
    OBVIOUS
  <2>5. h[s] = g[s]
    BY <1>1, <2>1, <2>2, <2>4, SumsAgree
  <2>. QED
    BY <2>3, <2>5
<1>. QED
  BY <1>1, <1>2 DEF Adding

\* The choice of the folds is the total.
LEMMA SumsAreTotal ==
  ASSUME NEW S, IsFiniteSet(S), NEW f, NEW g, SumsOf(g, f, S)
  PROVE  g[S] = Total(f, S)
<1>1. PICK h : Adding(h, f, S)
  BY TotalAdds
<1>2. S \subseteq S /\ \A x \in S : f[x] = f[x]
  OBVIOUS
<1>3. g[S] = h[S]
  BY <1>1, <1>2, SumsAgree DEF Adding
<1>. QED
  BY <1>1, <1>3 DEF Adding

LEMMA TotalEmpty == ASSUME NEW f PROVE Total(f, {}) = 0
<1>1. IsFiniteSet({})
  BY FS_EmptySet
<1>2. PICK g : Adding(g, f, {})
  BY <1>1, TotalAdds
<1>. QED
  BY <1>2 DEF Adding, SumsOf, AddsUp

LEMMA TotalAgrees ==
  ASSUME NEW S, IsFiniteSet(S), NEW f, NEW e, \A x \in S : f[x] = e[x]
  PROVE  Total(f, S) = Total(e, S)
<1>1. PICK g : Adding(g, f, S)
  BY TotalAdds
<1>2. PICK h : Adding(h, e, S)
  BY TotalAdds
<1>3. g[S] = h[S]
  BY <1>1, <1>2, SumsAgree DEF Adding
<1>. QED
  BY <1>1, <1>2, <1>3 DEF Adding

\* Any element may be added last.
LEMMA TotalSplits ==
  ASSUME NEW S, IsFiniteSet(S), NEW f, \A x \in S : f[x] \in Int
  PROVE  Total(f, S) \in Int /\ \A x \in S : Total(f, S) = f[x] + Total(f, S \ {x})
<1>1. PICK g : Adding(g, f, S)
  BY TotalAdds
<1>2. \A s \in SUBSET S : g[s] = IF s = {} THEN 0 ELSE f[Pick(s)] + g[s \ {Pick(s)}]
  BY <1>1 DEF Adding, SumsOf, AddsUp
<1>. DEFINE P == {s \in SUBSET S : g[s] \in Int /\ \A x \in s : g[s] = f[x] + g[s \ {x}]}
<1>3. ASSUME NEW s \in SUBSET S, \A u \in SUBSET s : u # s => u \in P PROVE s \in P
  <2>1. CASE s = {}
    <3>1. g[s] = 0
      BY <1>2, <2>1
    <3>. QED
      BY <2>1, <3>1
  <2>2. CASE s # {}
    <3>. DEFINE y == Pick(s)
    <3>1. y \in s /\ g[s] = f[y] + g[s \ {y}] /\ f[y] \in Int
      BY <1>2, <2>2, PickFrom
    <3>. HIDE DEF y
    <3>2. s \ {y} \in P
      BY <1>3, <3>1
    <3>3. ASSUME NEW x \in s, x # y PROVE g[s] = f[x] + g[s \ {x}]
      <4>1. s \ {x} \in P
        BY <1>3
      <4>2. x \in s \ {y} /\ y \in s \ {x} /\ (s \ {y}) \ {x} = (s \ {x}) \ {y}
        BY <3>1, <3>3
      <4>3. g[s \ {y}] = f[x] + g[(s \ {x}) \ {y}] /\ g[s \ {x}] = f[y] + g[(s \ {x}) \ {y}]
        BY <3>2, <4>1, <4>2
      <4>4. (s \ {x}) \ {y} \in P
        BY <1>3
      <4>. QED
        BY <3>1, <4>3, <4>4
    <3>4. \A x \in s : g[s] = f[x] + g[s \ {x}]
      BY <3>1, <3>3
    <3>5. g[s \ {y}] \in Int
      BY <3>2
    <3>6. g[s] \in Int
      BY <3>1, <3>5
    <3>. QED
      BY <3>4, <3>6
  <2>. QED
    BY <2>1, <2>2
<1>4. SUBSET S \subseteq P
  <2>. HIDE DEF P
  <2>. QED
    BY <1>3, IndSubsets
<1>5. S \in P
  BY <1>4
<1>6. Total(f, S) = g[S] /\ \A x \in S : Total(f, S \ {x}) = g[S \ {x}]
  BY <1>1 DEF Adding
<1>. QED
  BY <1>5, <1>6

LEMMA TotalGrows ==
  ASSUME NEW S, IsFiniteSet(S), NEW x, x \notin S, NEW f, \A y \in S \cup {x} : f[y] \in Int
  PROVE  Total(f, S \cup {x}) = f[x] + Total(f, S)
<1>. DEFINE T == S \cup {x}
<1>1. IsFiniteSet(T) /\ x \in T /\ T \ {x} = S
  BY FS_AddElement
<1>. HIDE DEF T
<1>2. Total(f, T) = f[x] + Total(f, T \ {x})
  BY <1>1, TotalSplits DEF T
<1>. QED
  BY <1>1, <1>2 DEF T

\* One of the numbers changes.
LEMMA TotalChanges ==
  ASSUME NEW S, IsFiniteSet(S), NEW f, \A x \in S : f[x] \in Int,
         NEW x \in S, NEW d \in Int, NEW e, e[x] = f[x] + d, \A y \in S : y # x => e[y] = f[y]
  PROVE  Total(e, S) = Total(f, S) + d
<1>1. \A y \in S : e[y] \in Int
  OBVIOUS
<1>2. IsFiniteSet(S \ {x})
  BY FS_Subset
<1>3. Total(e, S \ {x}) = Total(f, S \ {x})
  BY <1>2, TotalAgrees
<1>4. Total(e, S) = e[x] + Total(e, S \ {x})
  BY <1>1, TotalSplits
<1>5. Total(f, S) = f[x] + Total(f, S \ {x})
  BY TotalSplits
<1>6. Total(f, S \ {x}) \in Int
  BY <1>2, TotalSplits
<1>. QED
  BY <1>3, <1>4, <1>5, <1>6

LEMMA TotalOfZeros ==
  ASSUME NEW S, IsFiniteSet(S), NEW f, \A x \in S : f[x] = 0
  PROVE  Total(f, S) = 0
<1>. DEFINE P == {s \in SUBSET S : Total(f, s) = 0}
<1>1. {} \in P
  BY TotalEmpty
<1>2. ASSUME NEW s \in SUBSET S, NEW x \in S, s \in P, x \notin s PROVE s \cup {x} \in P
  <2>1. IsFiniteSet(s) /\ \A y \in s \cup {x} : f[y] \in Int
    BY FS_Subset
  <2>2. Total(f, s \cup {x}) = f[x] + Total(f, s)
    BY <1>2, <2>1, TotalGrows
  <2>. QED
    BY <1>2, <2>2
<1>3. S \in P
  <2>. HIDE DEF P
  <2>. QED
    BY <1>1, <1>2, IndElements
<1>. QED
  BY <1>3

LEMMA TotalOfTwo ==
  ASSUME NEW S, IsFiniteSet(S), NEW f, NEW e, \A x \in S : f[x] \in Int /\ e[x] \in Int,
         NEW h, \A x \in S : h[x] = f[x] + e[x]
  PROVE  Total(h, S) = Total(f, S) + Total(e, S)
<1>. DEFINE P == {s \in SUBSET S : Total(h, s) = Total(f, s) + Total(e, s)}
<1>1. {} \in P
  BY TotalEmpty
<1>2. ASSUME NEW s \in SUBSET S, NEW x \in S, s \in P, x \notin s PROVE s \cup {x} \in P
  <2>1. IsFiniteSet(s)
    BY FS_Subset
  <2>2. Total(f, s \cup {x}) = f[x] + Total(f, s)
    BY <1>2, <2>1, TotalGrows
  <2>3. Total(e, s \cup {x}) = e[x] + Total(e, s)
    BY <1>2, <2>1, TotalGrows
  <2>4. \A y \in s \cup {x} : h[y] \in Int
    OBVIOUS
  <2>5. Total(h, s \cup {x}) = h[x] + Total(h, s)
    BY <1>2, <2>1, <2>4, TotalGrows
  <2>6. Total(f, s) \in Int /\ Total(e, s) \in Int
    BY <2>1, TotalSplits
  <2>. QED
    BY <1>2, <2>2, <2>3, <2>5, <2>6
<1>3. S \in P
  <2>. HIDE DEF P
  <2>. QED
    BY <1>1, <1>2, IndElements
<1>. QED
  BY <1>3

\* Zeros may be left out.
LEMMA TotalOfRest ==
  ASSUME NEW S, IsFiniteSet(S), NEW f, \A x \in S : f[x] \in Int,
         NEW T, T \subseteq S, \A x \in S \ T : f[x] = 0
  PROVE  Total(f, T) = Total(f, S)
<1>. DEFINE P == {s \in SUBSET S : Total(f, T \cup s) = Total(f, T)}
<1>1. {} \in P
  <2>1. T \cup {} = T
    OBVIOUS
  <2>. QED
    BY <2>1
<1>2. ASSUME NEW s \in SUBSET S, NEW x \in S, s \in P, x \notin s PROVE s \cup {x} \in P
  <2>. DEFINE u == T \cup s
  <2>1. u \in SUBSET S /\ IsFiniteSet(u) /\ T \cup (s \cup {x}) = u \cup {x}
    BY FS_Subset
  <2>2. CASE x \in u
    <3>1. u \cup {x} = u
      BY <2>2
    <3>. QED
      BY <1>2, <2>1, <3>1
  <2>3. CASE x \notin u
    <3>1. Total(f, u \cup {x}) = f[x] + Total(f, u)
      <4>. HIDE DEF u
      <4>1. \A y \in u \cup {x} : f[y] \in Int
        BY <2>1
      <4>. QED
        BY <2>1, <2>3, <4>1, TotalGrows
    <3>2. f[x] = 0 /\ Total(f, u) \in Int
      <4>1. f[x] = 0
        BY <2>3
      <4>. HIDE DEF u
      <4>2. \A y \in u : f[y] \in Int
        BY <2>1
      <4>. QED
        BY <2>1, <4>1, <4>2, TotalSplits
    <3>3. Total(f, u \cup {x}) = Total(f, u)
      BY <3>1, <3>2
    <3>. QED
      BY <1>2, <2>1, <3>3
  <2>. QED
    BY <2>2, <2>3
<1>3. S \in P
  <2>. HIDE DEF P
  <2>. QED
    BY <1>1, <1>2, IndElements
<1>4. T \cup S = S
  OBVIOUS
<1>. QED
  BY <1>3, <1>4

\* Adding up under other names.
Images(name, S) == {name[x] : x \in S}
LEMMA TotalRenamed ==
  ASSUME NEW S, IsFiniteSet(S), NEW name, \A x, y \in S : name[x] = name[y] => x = y,
         NEW f, \A x \in S : f[name[x]] \in Int,
         NEW e, \A x \in S : e[x] = f[name[x]]
  PROVE  IsFiniteSet(Images(name, S)) /\ Total(f, Images(name, S)) = Total(e, S)
<1>. DEFINE of(s) == {name[x] : x \in s}
            P == {s \in SUBSET S : IsFiniteSet(of(s)) /\ Total(f, of(s)) = Total(e, s)}
<1>1. {} \in P
  <2>1. of({}) = {}
    OBVIOUS
  <2>. QED
    BY <2>1, TotalEmpty, FS_EmptySet
<1>2. ASSUME NEW s \in SUBSET S, NEW x \in S, s \in P, x \notin s PROVE s \cup {x} \in P
  <2>1. of(s \cup {x}) = of(s) \cup {name[x]} /\ name[x] \notin of(s)
    BY <1>2
  <2>2. /\ IsFiniteSet(s) /\ IsFiniteSet(of(s))
        /\ \A y \in of(s) \cup {name[x]} : f[y] \in Int
    BY <1>2, FS_Subset
  <2>3. IsFiniteSet(of(s) \cup {name[x]})
    BY <2>2, FS_AddElement
  <2>4. Total(f, of(s) \cup {name[x]}) = f[name[x]] + Total(f, of(s))
    <3>. HIDE DEF of
    <3>. QED
      BY <2>1, <2>2, TotalGrows
  <2>5. Total(e, s \cup {x}) = e[x] + Total(e, s)
    <3>1. \A y \in s \cup {x} : e[y] \in Int
      OBVIOUS
    <3>. QED
      BY <1>2, <2>2, <3>1, TotalGrows
  <2>6. Total(f, of(s)) = Total(e, s) /\ e[x] = f[name[x]]
    BY <1>2
  <2>7. Total(f, of(s \cup {x})) = Total(e, s \cup {x})
    BY <2>1, <2>4, <2>5, <2>6
  <2>8. IsFiniteSet(of(s \cup {x}))
    BY <2>1, <2>3
  <2>. QED
    BY <2>7, <2>8
<1>3. S \in P
  <2>. HIDE DEF P
  <2>. QED
    BY <1>1, <1>2, IndElements
<1>. QED
  BY <1>3 DEF Images

-----------------------------------------------------------------------------
(***************************************************************************)
(* The folds of the module: the sums of its invariants as totals, and the  *)
(* credit of a path as one edge after another.                             *)
(***************************************************************************)
TreeEdges(t) == UNION {{<<n, i>> : i \in DOMAIN t[n].kids} : n \in DOMAIN t}
InEdges(t, n) == {e \in TreeEdges(t) : t[e[1]].kids[e[2]].node = n}
VisitsOf(t) == [e \in TreeEdges(t) |-> t[e[1]].kids[e[2]].visits]

LEMMA VisitsAreTotal ==
  ASSUME NEW n, IsFiniteSet(InEdges(tree, n))
  PROVE  MapThenSumSet(Visited, {e \in AllEdges : Edge(e).node = n})
             = Total(VisitsOf(tree), InEdges(tree, n))
<1>. DEFINE S == InEdges(tree, n)
            f == VisitsOf(tree)
            g == CHOOSE h : h = [s \in SUBSET S |->
                     IF s = {} THEN 0 ELSE Visited(CHOOSE x \in s : TRUE) + h[s \ {CHOOSE x \in s : TRUE}]]
<1>1. S = {e \in AllEdges : Edge(e).node = n}
  BY DEF InEdges, TreeEdges, AllEdges, EdgesOf, Edge, Nodes
<1>2. MapThenSumSet(Visited, S) = g[S]
  BY DEF MapThenSumSet, MapThenFoldSet
<1>3. \A s \in SUBSET S : s # {} => Visited(Pick(s)) = f[Pick(s)]
  <2>1. \A x \in S : f[x] = Visited(x)
    BY DEF InEdges, VisitsOf, Visited, Edge
  <2>. QED
    BY <2>1, PickFrom
<1>4. \A h : SumsOf(h, f, S) <=>
        h = [s \in SUBSET S |->
               IF s = {} THEN 0 ELSE Visited(CHOOSE x \in s : TRUE) + h[s \ {CHOOSE x \in s : TRUE}]]
  <2>. HIDE DEF S, f
  <2>. QED
    BY <1>3 DEF SumsOf, AddsUp, Pick
<1>5. SumsOf(g, f, S)
  <2>1. \E h : SumsOf(h, f, S)
    BY SumsExist
  <2>. HIDE DEF S, f
  <2>. QED
    BY <1>4, <2>1
<1>. HIDE DEF g, f
<1>6. PICK h : Adding(h, f, S)
  BY TotalAdds
<1>7. g[S] = h[S]
  <2>1. S \subseteq S /\ \A x \in S : f[x] = f[x]
    OBVIOUS
  <2>. HIDE DEF S
  <2>. QED
    BY <1>5, <1>6, <2>1, SumsAgree DEF Adding, S
<1>8. Total(f, S) = h[S]
  BY <1>6 DEF Adding
<1>. QED
  BY <1>1, <1>2, <1>7, <1>8 DEF f

\* The credit of the first k edges of a path.
CreditsUp(c, t, path, v) ==
    c = [k \in 0 .. Len(path) |-> IF k = 0 THEN t ELSE CreditEdge(c[k - 1], path[k], v)]
MaxOf(s) == Max(s)
Folds(g, t, path, v, n) ==
    g = [s \in SUBSET (1 .. n) |->
           IF s = {} THEN t ELSE CreditEdge(g[s \ {MaxOf(s)}], path[MaxOf(s)], v)]

LEMMA MaxIs ==
  ASSUME NEW n \in Nat, NEW s \in SUBSET (1 .. n + 1), n + 1 \in s
  PROVE  MaxOf(s) = n + 1
<1>1. \A y \in s : n + 1 >= y
  OBVIOUS
<1>2. MaxOf(s) = CHOOSE x \in s : \A y \in s : x >= y
  BY DEF MaxOf, Max
<1>3. MaxOf(s) \in s /\ \A y \in s : MaxOf(s) >= y
  BY <1>1, <1>2
<1>4. MaxOf(s) \in 1 .. n + 1 /\ MaxOf(s) >= n + 1
  BY <1>3
<1>. DEFINE m == MaxOf(s)
<1>. HIDE DEF m
<1>5. m \in 1 .. n + 1 /\ m >= n + 1
  BY <1>4 DEF m
<1>6. m = n + 1
  BY <1>5
<1>. QED
  BY <1>6 DEF m

LEMMA FoldsExist ==
  ASSUME NEW t, NEW path, NEW v, NEW n \in Nat
  PROVE  \E g : Folds(g, t, path, v, n)
<1>. DEFINE S == {m \in Nat : \E g : Folds(g, t, path, v, m)}
<1>1. 0 \in S
  <2>. DEFINE g == [s \in SUBSET (1 .. 0) |-> t]
  <2>1. \A s \in SUBSET (1 .. 0) : s = {}
    OBVIOUS
  <2>2. Folds(g, t, path, v, 0)
    BY <2>1 DEF Folds
  <2>. QED
    BY <2>2
<1>2. ASSUME NEW m \in Nat, m \in S PROVE m + 1 \in S
  <2>1. PICK g : Folds(g, t, path, v, m)
    BY <1>2
  <2>. DEFINE D == SUBSET (1 .. m)
              E == SUBSET (1 .. m + 1)
              h == [s \in E |-> IF m + 1 \in s THEN CreditEdge(g[s \ {m + 1}], path[m + 1], v) ELSE g[s]]
  <2>2. \A s \in E : m + 1 \notin s => s \in D
    OBVIOUS
  <2>3. \A s \in D : s \in E /\ h[s] = g[s]
    <3>1. \A s \in D : s \in E /\ m + 1 \notin s
      OBVIOUS
    <3>. QED
      BY <3>1
  <2>4. ASSUME NEW s \in E
        PROVE  h[s] = IF s = {} THEN t ELSE CreditEdge(h[s \ {MaxOf(s)}], path[MaxOf(s)], v)
    <3>1. CASE m + 1 \in s
      <4>1. MaxOf(s) = m + 1
        BY <3>1, MaxIs
      <4>2. s \ {m + 1} \in D
        OBVIOUS
      <4>3. h[s \ {m + 1}] = g[s \ {m + 1}]
        BY <2>3, <4>2
      <4>4. h[s] = CreditEdge(g[s \ {m + 1}], path[m + 1], v)
        BY <3>1
      <4>. QED
        BY <3>1, <4>1, <4>3, <4>4
    <3>2. CASE m + 1 \notin s
      <4>1. s \in D /\ s \ {MaxOf(s)} \in D
        BY <2>2, <3>2
      <4>2. h[s] = g[s] /\ h[s \ {MaxOf(s)}] = g[s \ {MaxOf(s)}]
        BY <2>3, <4>1
      <4>3. g[s] = IF s = {} THEN t ELSE CreditEdge(g[s \ {MaxOf(s)}], path[MaxOf(s)], v)
        BY <2>1, <4>1 DEF Folds
      <4>. QED
        BY <4>2, <4>3
    <3>. QED
      BY <3>1, <3>2
  <2>5. Folds(h, t, path, v, m + 1)
    <3>1. h = [s \in E |-> h[s]]
      OBVIOUS
    <3>. HIDE DEF h
    <3>. QED
      BY <2>4, <3>1 DEF Folds
  <2>. QED
    BY <2>5
<1>. HIDE DEF S
<1>3. Nat \subseteq S
  BY <1>1, <1>2, IndSet
<1>. QED
  BY <1>3 DEF S

LEMMA CreditIsStepwise ==
  ASSUME NEW t, NEW path, NEW v, Len(path) \in Nat, DOMAIN path = 1 .. Len(path)
  PROVE  \E c : CreditsUp(c, t, path, v) /\ Credit(t, path, v) = c[Len(path)]
<1>. DEFINE n == Len(path)
            g == CHOOSE h : Folds(h, t, path, v, n)
            c == [k \in 0 .. n |-> g[1 .. k]]
<1>1. Credit(t, path, v) = g[1 .. n]
  <2>1. Credit(t, path, v)
          = (CHOOSE h : h = [s \in SUBSET DOMAIN path |->
                IF s = {} THEN t ELSE CreditEdge(h[s \ {Max(s)}], path[Max(s)], v)])[DOMAIN path]
    BY DEF Credit, FoldLeft, MapThenFoldSet
  <2>. QED
    BY <2>1 DEF Folds, MaxOf
<1>2. Folds(g, t, path, v, n)
  BY FoldsExist
<1>. HIDE DEF g
<1>3. ASSUME NEW k \in 0 .. n
      PROVE  g[1 .. k] = IF k = 0 THEN t ELSE CreditEdge(g[1 .. (k - 1)], path[k], v)
  <2>1. CASE k = 0
    <3>1. 1 .. k = {} /\ {} \in SUBSET (1 .. n)
      BY <2>1
    <3>. QED
      BY <1>2, <2>1, <3>1 DEF Folds
  <2>2. CASE k # 0
    <3>. DEFINE m == k - 1
    <3>0. n \in Nat /\ k \in 1 .. n
      BY <2>2
    <3>1. /\ m \in Nat /\ k = m + 1 /\ 1 .. k \in SUBSET (1 .. n) /\ k \in 1 .. k
          /\ 1 .. k # {} /\ (1 .. k) \ {k} = 1 .. m
      <4>. HIDE DEF n
      <4>1. m \in Nat /\ k = m + 1
        BY <3>0
      <4>2. k \in 1 .. k /\ 1 .. k \in SUBSET (1 .. n)
        BY <3>0
      <4>3. (1 .. k) \ {k} = 1 .. m
        BY <3>0, <4>1
      <4>. QED
        BY <4>1, <4>2, <4>3
    <3>2. MaxOf(1 .. k) = k
      BY <3>1, MaxIs
    <3>3. g[1 .. k] = CreditEdge(g[(1 .. k) \ {MaxOf(1 .. k)}], path[MaxOf(1 .. k)], v)
      BY <1>2, <3>1 DEF Folds
    <3>. QED
      BY <2>2, <3>1, <3>2, <3>3
  <2>. QED
    BY <2>1, <2>2
<1>4. CreditsUp(c, t, path, v)
  <2>1. \A k \in 0 .. n : k # 0 => k - 1 \in 0 .. n
    OBVIOUS
  <2>. QED
    BY <1>3, <2>1 DEF CreditsUp
<1>5. c[n] = g[1 .. n]
  OBVIOUS
<1>. QED
  BY <1>1, <1>4, <1>5

-----------------------------------------------------------------------------
(***************************************************************************)
(* The tree and the lanes.                                                 *)
(***************************************************************************)
Side == CHOOSE side \in [Positions -> 0 .. 1] :
          \A p \in Positions : \A i \in DOMAIN Successors[p] : side[Successors[p][i]] # side[p]
\* A mate is worth this much to the side that moves at the root of h.
MateValue(p, h) == IF Side[p] = Side[Last(h)] THEN 0 ELSE 2

Kid == [node : Nat, visits : Nat, value : Nat, loss : Int]
NodeSet == [pos : Positions, expanded : BOOLEAN, terminal : BOOLEAN, verdict : 0 .. 2,
            next : Nat, selectable : Nat, visits : Nat, value : Nat, kids : Seq(Kid)]

\* A child is of the position that its move leads to; those not yet expanded
\* have no node, no visit and no loss.
KidOK(t, n, i) ==
    /\ t[n].kids[i].node \in 0 .. Len(t)
    /\ t[n].kids[i].node # 0 => t[t[n].kids[i].node].pos = Successors[t[n].pos][i]
    /\ i > t[n].next => /\ t[n].kids[i].node = 0 /\ t[n].kids[i].visits = 0
                        /\ t[n].kids[i].loss = 0
NodeOK(t, n, h) ==
    /\ t[n].next <= Len(t[n].kids) /\ t[n].selectable <= t[n].next
    /\ ~t[n].expanded => t[n].kids = <<>>
    /\ t[n].kids = <<>> \/ Len(t[n].kids) = Len(Successors[t[n].pos])
    /\ t[n].terminal /\ Successors[t[n].pos] = <<>> => t[n].verdict = MateValue(t[n].pos, h)
    /\ \A i \in 1 .. Len(t[n].kids) : KidOK(t, n, i)
RootOK(t, h) ==
    t[Root].pos = Last(h) /\ t[Root].expanded /\ Len(t[Root].kids) = Len(Successors[Last(h)])
TreeOK(t, h) ==
    /\ t \in Seq(NodeSet) /\ Len(t) >= 1 /\ RootOK(t, h)
    /\ \A n \in 1 .. Len(t) : NodeOK(t, n, h)

\* What a step may do to the tree that the lanes do not notice.
Grows(t, u) ==
    /\ Len(t) <= Len(u)
    /\ \A n \in 1 .. Len(t) : u[n].pos = t[n].pos /\ t[n].next <= u[n].next
\* Visits stay, new nodes and children have none, and only a child without a
\* visit gets another node.
Still(t, u) ==
    /\ Len(t) <= Len(u)
    /\ \A n \in 1 .. Len(u) :
          /\ u[n].visits = IF n <= Len(t) THEN t[n].visits ELSE 0
          /\ n <= Len(t) => Len(t[n].kids) <= Len(u[n].kids)
          /\ \A i \in 1 .. Len(u[n].kids) :
                IF n <= Len(t) /\ i <= Len(t[n].kids)
                THEN /\ u[n].kids[i].visits = t[n].kids[i].visits
                     /\ u[n].kids[i].node = t[n].kids[i].node \/ t[n].kids[i].visits = 0
                ELSE u[n].kids[i].visits = 0
\* Losses stay, and new children have none.
Light(t, u) ==
    /\ Len(t) <= Len(u)
    /\ \A n \in 1 .. Len(u) : \A i \in 1 .. Len(u[n].kids) :
          IF n <= Len(t) /\ i <= Len(t[n].kids) THEN u[n].kids[i].loss = t[n].kids[i].loss
          ELSE u[n].kids[i].loss = 0

LEMMA NodeAt ==
  ASSUME NEW t, t \in Seq(NodeSet), NEW n \in 1 .. Len(t)
  PROVE  /\ t[n] \in NodeSet
         /\ t[n].next \in Nat /\ t[n].selectable \in Nat /\ t[n].visits \in Nat /\ t[n].value \in Nat
         /\ t[n].kids \in Seq(Kid) /\ Len(t[n].kids) \in Nat /\ t[n].pos \in Positions
         /\ t[n].expanded \in BOOLEAN /\ t[n].terminal \in BOOLEAN /\ t[n].verdict \in 0 .. 2
         /\ \A i \in 1 .. Len(t[n].kids) : /\ t[n].kids[i] \in Kid
                                           /\ t[n].kids[i].node \in Nat
                                           /\ t[n].kids[i].visits \in Nat
                                           /\ t[n].kids[i].value \in Nat
                                           /\ t[n].kids[i].loss \in Int
<1>1. t[n] \in NodeSet
  OBVIOUS
<1>2. t[n].kids \in Seq(Kid)
  BY <1>1 DEF NodeSet
<1>3. \A i \in 1 .. Len(t[n].kids) : t[n].kids[i] \in Kid
  <2>. DEFINE k == t[n].kids
  <2>1. k \in Seq(Kid)
    BY <1>2
  <2>. HIDE DEF k
  <2>. QED
    BY <2>1 DEF k
<1>4. \A i \in 1 .. Len(t[n].kids) : /\ t[n].kids[i].node \in Nat /\ t[n].kids[i].visits \in Nat
                                     /\ t[n].kids[i].value \in Nat /\ t[n].kids[i].loss \in Int
  BY <1>3 DEF Kid
<1>5. Len(t[n].kids) \in Nat
  BY <1>2
<1>6. /\ t[n].next \in Nat /\ t[n].selectable \in Nat /\ t[n].visits \in Nat /\ t[n].value \in Nat
      /\ t[n].pos \in Positions
      /\ t[n].expanded \in BOOLEAN /\ t[n].terminal \in BOOLEAN /\ t[n].verdict \in 0 .. 2
  BY <1>1 DEF NodeSet
<1>. QED
  BY <1>1, <1>2, <1>3, <1>4, <1>5, <1>6

LEMMA SetNode ==
  ASSUME NEW t, t \in Seq(NodeSet), NEW n \in 1 .. Len(t), NEW x \in NodeSet
  PROVE  LET u == [t EXCEPT ![n] = x] IN
         /\ u \in Seq(NodeSet) /\ Len(u) = Len(t) /\ u[n] = x
         /\ \A m \in 1 .. Len(t) : m # n => u[m] = t[m]
OBVIOUS

\* Successors of a position are positions of the other side.
LEMMA Turns ==
  /\ Side \in [Positions -> 0 .. 1]
  /\ \A p \in Positions : /\ Successors[p] \in Seq(Positions) /\ Len(Successors[p]) \in Nat
                          /\ DOMAIN Successors[p] = 1 .. Len(Successors[p])
                          /\ \A i \in 1 .. Len(Successors[p]) :
                                Successors[p][i] \in Positions /\ Side[Successors[p][i]] = 1 - Side[p]
<1>1. /\ Side \in [Positions -> 0 .. 1]
      /\ \A p \in Positions : \A i \in DOMAIN Successors[p] : Side[Successors[p][i]] # Side[p]
  <2>1. \E side \in [Positions -> 0 .. 1] :
          \A p \in Positions : \A i \in DOMAIN Successors[p] : side[Successors[p][i]] # side[p]
    BY TurnAssumption DEF TurnAssumption
  <2>. QED
    BY <2>1 DEF Side
<1>2. ASSUME NEW p \in Positions
      PROVE  /\ Successors[p] \in Seq(Positions) /\ Len(Successors[p]) \in Nat
             /\ DOMAIN Successors[p] = 1 .. Len(Successors[p])
             /\ \A i \in 1 .. Len(Successors[p]) : Successors[p][i] \in Positions
  BY GameAssumption DEF GameAssumption
<1>. QED
  BY <1>1, <1>2

LEMMA ExpandKeeps ==
  ASSUME NEW t, NEW h, TreeOK(t, h), NEW n \in 1 .. Len(t),
         NEW moves, moves = Successors[t[n].pos] \/ moves = <<>>
  PROVE  LET u == Expand(t, n, moves) IN
         /\ TreeOK(u, h) /\ Grows(t, u) /\ Still(t, u) /\ Light(t, u)
         /\ u[n].expanded /\ u[n].pos = t[n].pos /\ u[n].next = t[n].next
         /\ t[n].expanded => u = t
<1>. DEFINE u == Expand(t, n, moves)
<1>1. CASE t[n].expanded
  <2>1. u = t
    BY <1>1 DEF Expand
  <2>2. Grows(t, t) /\ Still(t, t) /\ Light(t, t)
    <3>1. Len(t) \in Nat /\ \A m \in 1 .. Len(t) : t[m].next \in Nat /\ Len(t[m].kids) \in Nat
      BY NodeAt DEF TreeOK
    <3>. QED
      BY <3>1 DEF Grows, Still, Light
  <2>. HIDE DEF u
  <2>. QED
    BY <1>1, <2>1, <2>2 DEF u
<1>2. CASE ~t[n].expanded
  <2>. DEFINE k == [i \in DOMAIN moves |-> [node |-> 0, visits |-> 0, value |-> 0, loss |-> 0]]
              x == [t[n] EXCEPT !.expanded = TRUE, !.kids = k]
  <2>1. u = [t EXCEPT ![n] = x]
    BY <1>2 DEF Expand
  <2>2. t \in Seq(NodeSet) /\ t[n] \in NodeSet /\ t[n].pos \in Positions /\ NodeOK(t, n, h)
        /\ t[n].kids = <<>> /\ t[n].next = 0 /\ t[n].selectable = 0
    BY <1>2, NodeAt DEF TreeOK, NodeOK
  <2>3. moves \in Seq(Positions) /\ DOMAIN moves = 1 .. Len(moves) /\ Len(moves) \in Nat
    <3>1. CASE moves = <<>>
      BY <3>1
    <3>2. CASE moves = Successors[t[n].pos]
      BY <2>2, <3>2, Turns
    <3>. QED
      BY <3>1, <3>2
  <2>4. k \in Seq(Kid) /\ Len(k) = Len(moves)
        /\ \A i \in 1 .. Len(k) : k[i].node = 0 /\ k[i].visits = 0 /\ k[i].loss = 0
    BY <2>3 DEF Kid
  <2>5. moves = <<>> => k = <<>>
    BY <2>4
  <2>. HIDE DEF k
  <2>6. /\ x \in NodeSet /\ x.kids = k /\ x.expanded /\ x.pos = t[n].pos /\ x.next = t[n].next
        /\ x.selectable = t[n].selectable /\ x.visits = t[n].visits
        /\ x.terminal = t[n].terminal /\ x.verdict = t[n].verdict
    BY <2>2, <2>4 DEF NodeSet
  <2>. HIDE DEF x
  <2>7. /\ u \in Seq(NodeSet) /\ Len(u) = Len(t) /\ u[n] = x
        /\ \A m \in 1 .. Len(t) : m # n => u[m] = t[m]
    BY <2>1, <2>2, <2>6, SetNode
  <2>. HIDE DEF u
  <2>8. Len(t) \in Nat /\ \A m \in 1 .. Len(t) : t[m].next \in Nat /\ Len(t[m].kids) \in Nat
    BY <2>2, NodeAt
  <2>9. Grows(t, u) /\ Still(t, u) /\ Light(t, u)
    <3>1. Grows(t, u)
      BY <2>6, <2>7, <2>8 DEF Grows
    <3>2. Len(t[n].kids) = 0 /\ Len(k) \in Nat
      BY <2>2, <2>3, <2>4
    <3>3. Still(t, u)
      BY <2>4, <2>6, <2>7, <2>8, <3>2 DEF Still
    <3>4. Light(t, u)
      BY <2>4, <2>6, <2>7, <2>8, <3>2 DEF Light
    <3>. QED
      BY <3>1, <3>3, <3>4
  <2>10. \A m \in 1 .. Len(t) : u[m].pos = t[m].pos
    BY <2>6, <2>7
  <2>11. ASSUME NEW m \in 1 .. Len(t) PROVE NodeOK(u, m, h)
    <3>1. CASE m = n
      BY <2>2, <2>3, <2>4, <2>5, <2>6, <2>7, <3>1 DEF NodeOK, KidOK
    <3>2. CASE m # n
      <4>1. NodeOK(t, m, h) /\ u[m] = t[m]
        BY <2>7, <3>2 DEF TreeOK
      <4>. QED
        BY <2>7, <2>10, <4>1 DEF NodeOK, KidOK
    <3>. QED
      BY <3>1, <3>2
  <2>12. RootOK(u, h)
    <3>1. n # Root /\ Root \in 1 .. Len(t)
      BY <1>2, <2>8 DEF TreeOK, RootOK, Root
    <3>. QED
      BY <2>7, <3>1 DEF TreeOK, RootOK
  <2>13. TreeOK(u, h)
    BY <2>7, <2>11, <2>12 DEF TreeOK
  <2>. QED
    BY <1>2, <2>6, <2>7, <2>9, <2>13 DEF u
<1>. QED
  BY <1>1, <1>2

\* A node is replaced by another that is as good.
LEMMA Replaced ==
  ASSUME NEW t, NEW h, TreeOK(t, h), NEW n \in 1 .. Len(t), NEW x \in NodeSet,
         x.pos = t[n].pos, t[n].expanded => x.expanded, Len(x.kids) = Len(t[n].kids),
         NodeOK([t EXCEPT ![n] = x], n, h)
  PROVE  LET u == [t EXCEPT ![n] = x] IN
         /\ TreeOK(u, h) /\ Len(u) = Len(t) /\ u[n] = x
         /\ \A m \in 1 .. Len(t) : u[m].pos = t[m].pos /\ (m # n => u[m] = t[m])
<1>. DEFINE u == [t EXCEPT ![n] = x]
<1>0. t \in Seq(NodeSet) /\ Len(t) \in Nat
  BY DEF TreeOK
<1>1. u \in Seq(NodeSet) /\ Len(u) = Len(t) /\ u[n] = x /\ \A m \in 1 .. Len(t) : m # n => u[m] = t[m]
  BY <1>0, SetNode
<1>2. NodeOK(u, n, h)
  OBVIOUS
<1>. HIDE DEF u
<1>3. \A m \in 1 .. Len(t) : u[m].pos = t[m].pos
  BY <1>1
<1>4. ASSUME NEW m \in 1 .. Len(t), m # n PROVE NodeOK(u, m, h)
  <2>1. NodeOK(t, m, h) /\ u[m] = t[m]
    BY <1>1, <1>4 DEF TreeOK
  <2>. QED
    BY <1>1, <1>3, <2>1 DEF NodeOK, KidOK
<1>5. RootOK(u, h)
  <2>1. Root \in 1 .. Len(t)
    BY <1>0 DEF TreeOK, Root
  <2>2. u[Root].pos = t[Root].pos /\ (t[Root].expanded => u[Root].expanded)
        /\ Len(u[Root].kids) = Len(t[Root].kids)
    BY <1>1, <1>3, <2>1
  <2>. QED
    BY <2>2 DEF TreeOK, RootOK
<1>6. TreeOK(u, h)
  BY <1>0, <1>1, <1>2, <1>4, <1>5 DEF TreeOK
<1>. QED
  BY <1>1, <1>3, <1>6 DEF u

\* ... and has the children of the old one.
LEMMA Unnoticed ==
  ASSUME NEW t, NEW h, TreeOK(t, h), NEW n \in 1 .. Len(t), NEW x \in NodeSet,
         x.pos = t[n].pos, t[n].expanded => x.expanded, x.kids = t[n].kids,
         t[n].next <= x.next, x.visits = t[n].visits,
         NodeOK([t EXCEPT ![n] = x], n, h)
  PROVE  LET u == [t EXCEPT ![n] = x] IN
         TreeOK(u, h) /\ Grows(t, u) /\ Still(t, u) /\ Light(t, u) /\ u[n] = x
<1>. DEFINE u == [t EXCEPT ![n] = x]
<1>1. /\ TreeOK(u, h) /\ Len(u) = Len(t) /\ u[n] = x
      /\ \A m \in 1 .. Len(t) : u[m].pos = t[m].pos /\ (m # n => u[m] = t[m])
  BY Replaced
<1>2. Len(t) \in Nat /\ \A m \in 1 .. Len(t) : t[m].next \in Nat /\ Len(t[m].kids) \in Nat
  BY NodeAt DEF TreeOK
<1>. HIDE DEF u
<1>3. \A m \in 1 .. Len(t) : /\ u[m].visits = t[m].visits /\ u[m].kids = t[m].kids
                             /\ t[m].next <= u[m].next
  BY <1>1, <1>2
<1>4. Grows(t, u)
  BY <1>1, <1>2, <1>3 DEF Grows
<1>5. Still(t, u)
  BY <1>1, <1>2, <1>3 DEF Still
<1>6. Light(t, u)
  BY <1>1, <1>2, <1>3 DEF Light
<1>. QED
  BY <1>1, <1>4, <1>5, <1>6 DEF u

LEMMA ConsumedKeeps ==
  ASSUME NEW t, NEW h, TreeOK(t, h), NEW n \in 1 .. Len(t), CanExpand(t, n)
  PROVE  LET u == Consumed(t, n) IN
         /\ TreeOK(u, h) /\ Grows(t, u) /\ Still(t, u) /\ Light(t, u)
         /\ u[n] = [t[n] EXCEPT !.next = t[n].next + 1]
<1>. DEFINE x == [t[n] EXCEPT !.next = t[n].next + 1]
            u == [t EXCEPT ![n] = x]
<1>1. Consumed(t, n) = u
  BY DEF Consumed
<1>2. t[n] \in NodeSet /\ t[n].next \in Nat /\ Len(t[n].kids) \in Nat /\ t[n].selectable \in Nat
      /\ NodeOK(t, n, h) /\ t \in Seq(NodeSet) /\ Len(t) \in Nat
  BY NodeAt DEF TreeOK
<1>3. /\ x \in NodeSet /\ x.pos = t[n].pos /\ x.expanded = t[n].expanded /\ x.kids = t[n].kids
      /\ x.next = t[n].next + 1 /\ x.visits = t[n].visits /\ x.selectable = t[n].selectable
      /\ x.terminal = t[n].terminal /\ x.verdict = t[n].verdict
  <2>. DEFINE y == t[n]
  <2>1. y \in NodeSet /\ y.next \in Nat
    BY <1>2
  <2>. HIDE DEF y
  <2>2. LET z == [y EXCEPT !.next = y.next + 1] IN
        /\ z \in NodeSet /\ z.pos = y.pos /\ z.expanded = y.expanded /\ z.kids = y.kids
        /\ z.next = y.next + 1 /\ z.visits = y.visits /\ z.selectable = y.selectable
        /\ z.terminal = y.terminal /\ z.verdict = y.verdict
    BY <2>1 DEF NodeSet
  <2>. QED
    BY <2>2 DEF y
<1>. HIDE DEF x
<1>4. Len(u) = Len(t) /\ u[n] = x /\ \A m \in 1 .. Len(t) : m # n => u[m] = t[m]
  BY <1>2, <1>3, SetNode
<1>5. NodeOK(u, n, h)
  <2>. HIDE DEF u
  <2>1. \A m \in 1 .. Len(t) : u[m].pos = t[m].pos
    BY <1>3, <1>4
  <2>2. x.next <= Len(x.kids)
    BY <1>2, <1>3 DEF CanExpand
  <2>3. ASSUME NEW i \in 1 .. Len(x.kids) PROVE KidOK(u, n, i)
    <3>1. KidOK(t, n, i)
      BY <1>2, <1>3 DEF NodeOK
    <3>2. i > x.next => i > t[n].next
      BY <1>2, <1>3
    <3>3. x.kids = t[n].kids /\ u[n] = x
      BY <1>3, <1>4
    <3>. QED
      BY <1>3, <1>4, <2>1, <3>1, <3>2, <3>3 DEF KidOK
  <2>4. x.selectable <= x.next
    BY <1>2, <1>3 DEF NodeOK
  <2>. QED
    BY <1>2, <1>3, <1>4, <2>2, <2>3, <2>4 DEF NodeOK
<1>6. t[n].next <= x.next
  BY <1>2, <1>3
<1>7. TreeOK(u, h) /\ Grows(t, u) /\ Still(t, u) /\ Light(t, u) /\ u[n] = x
  BY <1>3, <1>5, <1>6, Unnoticed
<1>. HIDE DEF u
<1>. QED
  BY <1>1, <1>7 DEF x

\* What the rules say of a finished line is kept at its last node.
LEMMA JudgedKeeps ==
  ASSUME NEW t, NEW h, TreeOK(t, h), NEW n \in 1 .. Len(t), NEW v \in 0 .. 2,
         Successors[t[n].pos] = <<>> => v = MateValue(t[n].pos, h)
  PROVE  LET u == [t EXCEPT ![n].terminal = TRUE, ![n].verdict = v] IN
         TreeOK(u, h) /\ Grows(t, u) /\ Still(t, u) /\ Light(t, u)
<1>. DEFINE x == [t[n] EXCEPT !.terminal = TRUE, !.verdict = v]
            u == [t EXCEPT ![n] = x]
<1>2. t[n] \in NodeSet /\ t[n].next \in Nat /\ Len(t[n].kids) \in Nat /\ t[n].selectable \in Nat
      /\ NodeOK(t, n, h) /\ t \in Seq(NodeSet) /\ Len(t) \in Nat
  BY NodeAt DEF TreeOK
<1>1. [t EXCEPT ![n].terminal = TRUE, ![n].verdict = v] = u
  BY <1>2
<1>3. /\ x \in NodeSet /\ x.pos = t[n].pos /\ x.expanded = t[n].expanded /\ x.kids = t[n].kids
      /\ x.next = t[n].next /\ x.visits = t[n].visits /\ x.selectable = t[n].selectable
      /\ x.verdict = v
  BY <1>2 DEF NodeSet
<1>. HIDE DEF x
<1>4. Len(u) = Len(t) /\ u[n] = x /\ \A m \in 1 .. Len(t) : m # n => u[m] = t[m]
  BY <1>2, <1>3, SetNode
<1>5. NodeOK(u, n, h)
  <2>. HIDE DEF u
  <2>1. \A m \in 1 .. Len(t) : u[m].pos = t[m].pos
    BY <1>3, <1>4
  <2>3. ASSUME NEW i \in 1 .. Len(x.kids) PROVE KidOK(u, n, i)
    <3>1. KidOK(t, n, i)
      BY <1>2, <1>3 DEF NodeOK
    <3>2. u[n].kids = t[n].kids /\ u[n].pos = t[n].pos /\ u[n].next = t[n].next
      BY <1>3, <1>4
    <3>3. t[n].kids[i].node \in 0 .. Len(t)
      BY <3>1 DEF KidOK
    <3>. QED
      BY <1>2, <1>4, <2>1, <3>1, <3>2, <3>3 DEF KidOK
  <2>. QED
    BY <1>2, <1>3, <1>4, <2>3 DEF NodeOK
<1>6. t[n].next <= x.next
  BY <1>2, <1>3
<1>7. TreeOK(u, h) /\ Grows(t, u) /\ Still(t, u) /\ Light(t, u) /\ u[n] = x
  BY <1>3, <1>5, <1>6, Unnoticed
<1>. HIDE DEF u
<1>. QED
  BY <1>1, <1>7

\* The pool takes one more node.
LEMMA AppendKeeps ==
  ASSUME NEW t, NEW h, TreeOK(t, h), NEW p \in Positions
  PROVE  LET u == Append(t, NewNode(p)) IN
         /\ TreeOK(u, h) /\ Grows(t, u) /\ Still(t, u) /\ Light(t, u)
         /\ Len(u) = Len(t) + 1 /\ u[Len(t) + 1].pos = p
         /\ \A m \in 1 .. Len(t) : u[m] = t[m]
<1>. DEFINE x == NewNode(p)
            u == Append(t, x)
<1>1. /\ x \in NodeSet /\ x.pos = p /\ x.kids = <<>> /\ x.next = 0 /\ x.selectable = 0
      /\ ~x.expanded /\ ~x.terminal /\ x.visits = 0
  BY DEF NewNode, NodeSet
<1>. HIDE DEF x
<1>2. /\ t \in Seq(NodeSet) /\ Len(t) \in Nat /\ Len(t) >= 1
      /\ \A m \in 1 .. Len(t) : t[m].next \in Nat /\ Len(t[m].kids) \in Nat /\ NodeOK(t, m, h)
  BY NodeAt DEF TreeOK
<1>3. /\ u \in Seq(NodeSet) /\ Len(u) = Len(t) + 1 /\ u[Len(t) + 1] = x
      /\ \A m \in 1 .. Len(t) : u[m] = t[m]
  BY <1>1, <1>2
<1>. HIDE DEF u
<1>4. \A m \in 1 .. Len(u) : m = Len(t) + 1 \/ m \in 1 .. Len(t)
  BY <1>2, <1>3
<1>5. Len(x.kids) = 0
  BY <1>1
<1>6. ASSUME NEW m \in 1 .. Len(u) PROVE NodeOK(u, m, h)
  <2>1. CASE m = Len(t) + 1
    <3>1. u[m] = x
      BY <1>3, <2>1
    <3>. QED
      BY <1>1, <1>5, <3>1 DEF NodeOK
  <2>2. CASE m \in 1 .. Len(t)
    <3>1. u[m] = t[m] /\ NodeOK(t, m, h) /\ Len(t[m].kids) \in Nat
      BY <1>2, <1>3, <2>2
    <3>2. ASSUME NEW i \in 1 .. Len(t[m].kids) PROVE KidOK(u, m, i)
      <4>1. KidOK(t, m, i)
        BY <3>1 DEF NodeOK
      <4>2. t[m].kids[i].node \in 0 .. Len(t) /\ t[m].kids[i].node \in 0 .. Len(u)
        BY <1>2, <1>3, <4>1 DEF KidOK
      <4>3. t[m].kids[i].node # 0 => u[t[m].kids[i].node] = t[t[m].kids[i].node]
        BY <1>2, <1>3, <4>2
      <4>. QED
        BY <3>1, <4>1, <4>2, <4>3 DEF KidOK
    <3>. QED
      BY <3>1, <3>2 DEF NodeOK
  <2>. QED
    BY <1>4, <2>1, <2>2
<1>7. RootOK(u, h)
  <2>1. Root \in 1 .. Len(t)
    BY <1>2 DEF Root
  <2>2. u[Root] = t[Root]
    BY <1>3, <2>1
  <2>. QED
    BY <2>2 DEF TreeOK, RootOK
<1>8. TreeOK(u, h)
  BY <1>2, <1>3, <1>6, <1>7 DEF TreeOK
<1>9. Grows(t, u)
  BY <1>2, <1>3 DEF Grows
<1>10. Still(t, u)
  <2>1. \A m \in 1 .. Len(u) : m <= Len(t) => u[m] = t[m]
    BY <1>2, <1>3
  <2>2. \A m \in 1 .. Len(u) : ~(m <= Len(t)) => Len(u[m].kids) = 0 /\ u[m].visits = 0
    BY <1>1, <1>2, <1>3, <1>4, <1>5
  <2>. QED
    BY <1>2, <1>3, <2>1, <2>2 DEF Still
<1>11. Light(t, u)
  <2>1. \A m \in 1 .. Len(u) : m <= Len(t) => u[m] = t[m]
    BY <1>2, <1>3
  <2>2. \A m \in 1 .. Len(u) : ~(m <= Len(t)) => Len(u[m].kids) = 0
    BY <1>1, <1>2, <1>3, <1>4, <1>5
  <2>. QED
    BY <1>2, <1>3, <2>1, <2>2 DEF Light
<1>. QED
  BY <1>1, <1>3, <1>8, <1>9, <1>10, <1>11 DEF x, u

LEMMA TreeSizes ==
  ASSUME NEW t, NEW h, TreeOK(t, h)
  PROVE  /\ t \in Seq(NodeSet) /\ Len(t) \in Nat /\ Len(t) >= 1 /\ DOMAIN t = 1 .. Len(t)
         /\ \A m \in 1 .. Len(t) :
               /\ t[m].next \in Nat /\ Len(t[m].kids) \in Nat /\ t[m].visits \in Nat
               /\ DOMAIN t[m].kids = 1 .. Len(t[m].kids) /\ t[m].next <= Len(t[m].kids)
<1>1. t \in Seq(NodeSet) /\ Len(t) \in Nat /\ Len(t) >= 1 /\ DOMAIN t = 1 .. Len(t)
  BY DEF TreeOK
<1>2. ASSUME NEW m \in 1 .. Len(t)
      PROVE  /\ t[m].next \in Nat /\ Len(t[m].kids) \in Nat /\ t[m].visits \in Nat
             /\ DOMAIN t[m].kids = 1 .. Len(t[m].kids) /\ t[m].next <= Len(t[m].kids)
  <2>1. t[m].kids \in Seq(Kid)
    BY <1>1, NodeAt
  <2>. DEFINE k == t[m].kids
  <2>2. DOMAIN k = 1 .. Len(k)
    <3>1. k \in Seq(Kid)
      BY <2>1
    <3>. HIDE DEF k
    <3>. QED
      BY <3>1
  <2>3. t[m].next <= Len(t[m].kids)
    BY DEF TreeOK, NodeOK
  <2>. QED
    BY <1>1, <2>2, <2>3, NodeAt
<1>. QED
  BY <1>1, <1>2

LEMMA Onwards ==
  ASSUME NEW t, NEW u, NEW w, NEW h, TreeOK(t, h), TreeOK(u, h), TreeOK(w, h)
  PROVE  /\ Grows(t, u) /\ Grows(u, w) => Grows(t, w)
         /\ Still(t, u) /\ Still(u, w) => Still(t, w)
         /\ Light(t, u) /\ Light(u, w) /\ (\A n \in 1 .. Len(t) : Len(t[n].kids) <= Len(u[n].kids))
               => Light(t, w)
<1>1. /\ Len(t) \in Nat /\ \A m \in 1 .. Len(t) : t[m].next \in Nat /\ Len(t[m].kids) \in Nat
      /\ Len(u) \in Nat /\ \A m \in 1 .. Len(u) : u[m].next \in Nat /\ Len(u[m].kids) \in Nat
      /\ Len(w) \in Nat /\ \A m \in 1 .. Len(w) : w[m].next \in Nat /\ Len(w[m].kids) \in Nat
  BY TreeSizes
<1>2. ASSUME Grows(t, u), Grows(u, w) PROVE Grows(t, w)
  <2>1. \A m \in 1 .. Len(t) : m \in 1 .. Len(u) /\ m \in 1 .. Len(w)
    BY <1>1, <1>2 DEF Grows
  <2>. QED
    BY <1>1, <1>2, <2>1 DEF Grows
<1>3. ASSUME Still(t, u), Still(u, w) PROVE Still(t, w)
  <2>0. Len(t) <= Len(u) /\ Len(u) <= Len(w)
    BY <1>3 DEF Still
  <2>1. ASSUME NEW n \in 1 .. Len(w)
        PROVE  /\ w[n].visits = IF n <= Len(t) THEN t[n].visits ELSE 0
               /\ n <= Len(t) => Len(t[n].kids) <= Len(w[n].kids)
    <3>1. CASE n <= Len(u)
      <4>1. n \in 1 .. Len(u) /\ w[n].visits = u[n].visits /\ Len(u[n].kids) <= Len(w[n].kids)
        BY <1>1, <1>3, <2>0, <3>1 DEF Still
      <4>2. /\ u[n].visits = IF n <= Len(t) THEN t[n].visits ELSE 0
            /\ n <= Len(t) => Len(t[n].kids) <= Len(u[n].kids)
        BY <1>3, <4>1 DEF Still
      <4>3. n <= Len(t) => n \in 1 .. Len(t)
        BY <1>1
      <4>. QED
        BY <1>1, <4>1, <4>2, <4>3
    <3>2. CASE ~(n <= Len(u))
      BY <1>1, <1>3, <2>0, <3>2 DEF Still
    <3>. QED
      BY <3>1, <3>2
  <2>2. ASSUME NEW n \in 1 .. Len(w), NEW i \in 1 .. Len(w[n].kids)
        PROVE  IF n <= Len(t) /\ i <= Len(t[n].kids)
               THEN /\ w[n].kids[i].visits = t[n].kids[i].visits
                    /\ w[n].kids[i].node = t[n].kids[i].node \/ t[n].kids[i].visits = 0
               ELSE w[n].kids[i].visits = 0
    <3>1. CASE n <= Len(u) /\ i <= Len(u[n].kids)
      <4>1. n \in 1 .. Len(u) /\ i \in 1 .. Len(u[n].kids)
        BY <1>1, <3>1
      <4>2. /\ w[n].kids[i].visits = u[n].kids[i].visits
            /\ w[n].kids[i].node = u[n].kids[i].node \/ u[n].kids[i].visits = 0
        BY <1>3, <3>1 DEF Still
      <4>3. IF n <= Len(t) /\ i <= Len(t[n].kids)
            THEN /\ u[n].kids[i].visits = t[n].kids[i].visits
                 /\ u[n].kids[i].node = t[n].kids[i].node \/ t[n].kids[i].visits = 0
            ELSE u[n].kids[i].visits = 0
        BY <1>3, <4>1 DEF Still
      <4>. QED
        BY <4>2, <4>3
    <3>2. CASE ~(n <= Len(u) /\ i <= Len(u[n].kids))
      <4>1. w[n].kids[i].visits = 0
        BY <1>3, <3>2 DEF Still
      <4>2. ~(n <= Len(t) /\ i <= Len(t[n].kids))
        <5>1. SUFFICES ASSUME n <= Len(t), i <= Len(t[n].kids) PROVE FALSE
          OBVIOUS
        <5>2. n \in 1 .. Len(t) /\ n \in 1 .. Len(u) /\ n <= Len(u)
          BY <1>1, <2>0, <5>1
        <5>3. Len(t[n].kids) <= Len(u[n].kids)
          BY <1>3, <5>1, <5>2 DEF Still
        <5>. QED
          BY <1>1, <3>2, <5>1, <5>2, <5>3
      <4>. QED
        BY <4>1, <4>2
    <3>. QED
      BY <3>1, <3>2
  <2>. QED
    BY <1>1, <2>0, <2>1, <2>2 DEF Still
<1>4. ASSUME Light(t, u), Light(u, w), \A n \in 1 .. Len(t) : Len(t[n].kids) <= Len(u[n].kids)
      PROVE  Light(t, w)
  <2>0. Len(t) <= Len(u) /\ Len(u) <= Len(w)
    BY <1>4 DEF Light
  <2>1. ASSUME NEW n \in 1 .. Len(w), NEW i \in 1 .. Len(w[n].kids)
        PROVE  IF n <= Len(t) /\ i <= Len(t[n].kids) THEN w[n].kids[i].loss = t[n].kids[i].loss
               ELSE w[n].kids[i].loss = 0
    <3>1. CASE n <= Len(u) /\ i <= Len(u[n].kids)
      <4>1. n \in 1 .. Len(u) /\ i \in 1 .. Len(u[n].kids)
        BY <1>1, <3>1
      <4>2. w[n].kids[i].loss = u[n].kids[i].loss
        BY <1>4, <3>1 DEF Light
      <4>3. IF n <= Len(t) /\ i <= Len(t[n].kids) THEN u[n].kids[i].loss = t[n].kids[i].loss
            ELSE u[n].kids[i].loss = 0
        BY <1>4, <4>1 DEF Light
      <4>. QED
        BY <4>2, <4>3
    <3>2. CASE ~(n <= Len(u) /\ i <= Len(u[n].kids))
      <4>1. w[n].kids[i].loss = 0
        BY <1>4, <3>2 DEF Light
      <4>2. ~(n <= Len(t) /\ i <= Len(t[n].kids))
        <5>1. SUFFICES ASSUME n <= Len(t), i <= Len(t[n].kids) PROVE FALSE
          OBVIOUS
        <5>2. n \in 1 .. Len(t) /\ n \in 1 .. Len(u) /\ n <= Len(u)
          BY <1>1, <2>0, <5>1
        <5>3. Len(t[n].kids) <= Len(u[n].kids)
          BY <1>4, <5>1, <5>2
        <5>. QED
          BY <1>1, <3>2, <5>1, <5>2, <5>3
      <4>. QED
        BY <4>1, <4>2
    <3>. QED
      BY <3>1, <3>2
  <2>. QED
    BY <1>1, <2>0, <2>1 DEF Light
<1>. QED
  BY <1>2, <1>3, <1>4

\* The three together.
Calm(t, u) == Grows(t, u) /\ Still(t, u) /\ Light(t, u)

LEMMA CalmOnwards ==
  ASSUME NEW t, NEW u, NEW w, NEW h, TreeOK(t, h), TreeOK(u, h), TreeOK(w, h),
         Calm(t, u), Calm(u, w)
  PROVE  Calm(t, w)
<1>1. \A n \in 1 .. Len(t) : Len(t[n].kids) <= Len(u[n].kids)
  <2>1. Len(t) \in Nat /\ Len(u) \in Nat /\ Len(t) <= Len(u)
    BY TreeSizes DEF Calm, Grows
  <2>2. \A n \in 1 .. Len(t) : n \in 1 .. Len(u) /\ n <= Len(t)
    BY <2>1
  <2>. QED
    BY <2>2 DEF Calm, Still
<1>. QED
  BY <1>1, Onwards DEF Calm

LEMMA PlaceIs ==
  ASSUME NEW t, NEW h, TreeOK(t, h), NEW n \in 1 .. Len(t), CanExpand(t, n)
  PROVE  /\ ChildPosition(t, n, t[n].next + 1) \in Positions
         /\ t[n].next + 1 \in 1 .. Len(t[n].kids)
         /\ Len(Successors[t[n].pos]) = Len(t[n].kids)
         /\ Place(t, n) \in 0 .. Len(t) + 1
         /\ Place(t, n) \in 1 .. Len(t) => t[Place(t, n)].pos = ChildPosition(t, n, t[n].next + 1)
<1>1. /\ t \in Seq(NodeSet) /\ Len(t) \in Nat /\ t[n].next \in Nat /\ Len(t[n].kids) \in Nat
      /\ t[n].pos \in Positions /\ DOMAIN t = 1 .. Len(t) /\ t[n].next + 1 <= Len(t[n].kids)
  BY TreeSizes, NodeAt DEF CanExpand
<1>2. t[n].kids # <<>>
  BY <1>1
<1>3. Len(Successors[t[n].pos]) = Len(t[n].kids)
  BY <1>2 DEF TreeOK, NodeOK
<1>4. t[n].next + 1 \in 1 .. Len(t[n].kids)
  BY <1>1
<1>5. ChildPosition(t, n, t[n].next + 1) \in Positions
  BY <1>1, <1>3, <1>4, Turns DEF ChildPosition
<1>. DEFINE p == ChildPosition(t, n, t[n].next + 1)
<1>6. NodeOf(t, p) = 0 \/ (NodeOf(t, p) \in 1 .. Len(t) /\ t[NodeOf(t, p)].pos = p)
  BY <1>1 DEF NodeOf
<1>. HIDE DEF p
<1>7. Place(t, n) = IF NodeOf(t, p) # 0 THEN NodeOf(t, p)
                    ELSE IF Len(t) < capacity THEN Len(t) + 1 ELSE 0
  BY DEF Place, p
<1>8. Place(t, n) \in 0 .. Len(t) + 1 /\ (Place(t, n) \in 1 .. Len(t) => t[Place(t, n)].pos = p)
  BY <1>1, <1>6, <1>7
<1>. QED
  BY <1>3, <1>4, <1>5, <1>8 DEF p

\* A child gets its node, an old one or the new one.
WithChild(t, n, c) ==
    [t EXCEPT ![n].next = t[n].next + 1, ![n].selectable = t[n].next + 1,
              ![n].kids[t[n].next + 1].node = c]

LEMMA ChildSet ==
  ASSUME NEW t, NEW h, TreeOK(t, h), NEW n \in 1 .. Len(t), CanExpand(t, n),
         NEW c \in 1 .. Len(t), t[c].pos = ChildPosition(t, n, t[n].next + 1)
  PROVE  /\ TreeOK(WithChild(t, n, c), h) /\ Calm(t, WithChild(t, n, c))
         /\ Len(WithChild(t, n, c)) = Len(t)
         /\ WithChild(t, n, c)[n].next = t[n].next + 1
         /\ WithChild(t, n, c)[n].kids[t[n].next + 1].node = c
         /\ Len(WithChild(t, n, c)[n].kids) = Len(t[n].kids)
<1>. DEFINE i == t[n].next + 1
            k == [t[n].kids EXCEPT ![i].node = c]
            x == [t[n] EXCEPT !.next = i, !.selectable = i, !.kids = k]
            u == [t EXCEPT ![n] = x]
<1>1. /\ t \in Seq(NodeSet) /\ Len(t) \in Nat /\ t[n] \in NodeSet /\ t[n].next \in Nat
      /\ t[n].kids \in Seq(Kid) /\ Len(t[n].kids) \in Nat /\ NodeOK(t, n, h) /\ t[n].selectable \in Nat
      /\ i \in 1 .. Len(t[n].kids) /\ c \in Nat
      /\ \A j \in 1 .. Len(t[n].kids) : t[n].kids[j] \in Kid
  BY PlaceIs, NodeAt, TreeSizes DEF TreeOK
<1>2. WithChild(t, n, c) = u
  <2>1. WithChild(t, n, c) = [t EXCEPT ![n].next = i, ![n].selectable = i, ![n].kids[i].node = c]
    BY DEF WithChild
  <2>2. [t EXCEPT ![n].next = i, ![n].selectable = i, ![n].kids[i].node = c] = u
    BY <1>1 DEF NodeSet
  <2>. QED
    BY <2>1, <2>2
<1>3. /\ k \in Seq(Kid) /\ Len(k) = Len(t[n].kids) /\ k[i].node = c
      /\ \A j \in 1 .. Len(k) : k[j].visits = t[n].kids[j].visits /\ k[j].loss = t[n].kids[j].loss
      /\ \A j \in 1 .. Len(k) : j # i => k[j] = t[n].kids[j]
  <2>. DEFINE o == t[n].kids
              y == [o[i] EXCEPT !.node = c]
  <2>1. o \in Seq(Kid) /\ i \in 1 .. Len(o) /\ o[i] \in Kid
    BY <1>1
  <2>. HIDE DEF o, i
  <2>2. y \in Kid /\ y.node = c /\ y.visits = o[i].visits /\ y.loss = o[i].loss
    BY <1>1, <2>1 DEF Kid
  <2>3. [o EXCEPT ![i].node = c] = [o EXCEPT ![i] = y]
    BY <2>1
  <2>. HIDE DEF y
  <2>4. LET z == [o EXCEPT ![i] = y] IN
        z \in Seq(Kid) /\ Len(z) = Len(o) /\ z[i] = y /\ \A j \in 1 .. Len(o) : j # i => z[j] = o[j]
    BY <2>1, <2>2
  <2>5. k = [o EXCEPT ![i] = y]
    BY <2>3 DEF o
  <2>. HIDE DEF k
  <2>6. k \in Seq(Kid) /\ Len(k) = Len(o) /\ k[i] = y /\ \A j \in 1 .. Len(o) : j # i => k[j] = o[j]
    BY <2>4, <2>5
  <2>. QED
    BY <2>2, <2>6 DEF o
<1>. HIDE DEF k
<1>4. /\ x \in NodeSet /\ x.pos = t[n].pos /\ x.expanded = t[n].expanded /\ x.kids = k
      /\ x.next = i /\ x.visits = t[n].visits /\ x.selectable = i
      /\ x.terminal = t[n].terminal /\ x.verdict = t[n].verdict
  <2>. DEFINE y == t[n]
  <2>1. y \in NodeSet /\ i \in Nat
    BY <1>1
  <2>. HIDE DEF y, i
  <2>2. LET z == [y EXCEPT !.next = i, !.selectable = i, !.kids = k] IN
        /\ z \in NodeSet /\ z.pos = y.pos /\ z.expanded = y.expanded /\ z.kids = k
        /\ z.next = i /\ z.visits = y.visits /\ z.selectable = i
        /\ z.terminal = y.terminal /\ z.verdict = y.verdict
    BY <1>3, <2>1 DEF NodeSet
  <2>. QED
    BY <2>2 DEF y
<1>. HIDE DEF x
<1>5. Len(u) = Len(t) /\ u[n] = x /\ \A m \in 1 .. Len(t) : m # n => u[m] = t[m]
  BY <1>1, <1>4, SetNode
<1>. HIDE DEF u
<1>6. \A m \in 1 .. Len(t) : u[m].pos = t[m].pos
  BY <1>4, <1>5
<1>7. ASSUME NEW j \in 1 .. Len(k) PROVE KidOK(u, n, j)
  <2>1. u[n].kids = k /\ u[n].pos = t[n].pos /\ u[n].next = i /\ KidOK(t, n, j)
    BY <1>1, <1>3, <1>4, <1>5 DEF NodeOK
  <2>2. CASE j = i
    <3>1. u[u[n].kids[j].node].pos = Successors[u[n].pos][j]
      BY <1>3, <1>6, <2>1, <2>2 DEF ChildPosition
    <3>. QED
      BY <1>1, <1>3, <1>5, <2>1, <2>2, <3>1 DEF KidOK
  <2>3. CASE j # i
    <3>1. k[j] = t[n].kids[j] /\ t[n].kids[j].node \in 0 .. Len(t)
      BY <1>3, <2>1, <2>3 DEF KidOK
    <3>2. j > i => j > t[n].next
      BY <1>1
    <3>. QED
      BY <1>1, <1>5, <1>6, <2>1, <3>1, <3>2 DEF KidOK
  <2>. QED
    BY <2>2, <2>3
<1>8. NodeOK(u, n, h)
  <2>1. t[n].kids # <<>> /\ t[n].expanded /\ Len(Successors[t[n].pos]) = Len(k)
    <3>1. t[n].kids # <<>>
      BY <1>1
    <3>. QED
      BY <1>1, <1>3, <3>1 DEF NodeOK
  <2>2. i <= Len(k) /\ i <= i
    BY <1>1, <1>3
  <2>. HIDE DEF i
  <2>. QED
    BY <1>1, <1>4, <1>5, <1>7, <2>1, <2>2 DEF NodeOK
<1>9. TreeOK(u, h)
  BY <1>3, <1>4, <1>8, Replaced DEF u
<1>10. Calm(t, u)
  <2>1. Len(t) \in Nat /\ \A m \in 1 .. Len(t) : t[m].next \in Nat /\ Len(t[m].kids) \in Nat
    BY TreeSizes
  <2>2. KidOK(t, n, i)
    BY <1>1 DEF NodeOK
  <2>3. t[n].kids[i].visits = 0
    BY <1>1, <2>2 DEF KidOK
  <2>4. t[n].next <= i
    BY <1>1
  <2>5. ASSUME NEW m \in 1 .. Len(t)
        PROVE  /\ u[m].visits = t[m].visits /\ Len(u[m].kids) = Len(t[m].kids)
               /\ t[m].next <= u[m].next
               /\ \A j \in 1 .. Len(u[m].kids) :
                     /\ u[m].kids[j].visits = t[m].kids[j].visits /\ u[m].kids[j].loss = t[m].kids[j].loss
                     /\ u[m].kids[j].node = t[m].kids[j].node \/ t[m].kids[j].visits = 0
    <3>1. CASE m = n
      BY <1>3, <1>4, <1>5, <2>3, <2>4, <3>1
    <3>2. CASE m # n
      BY <1>5, <2>1, <3>2
    <3>. QED
      BY <3>1, <3>2
  <2>6. Grows(t, u)
    BY <1>5, <1>6, <2>1, <2>5 DEF Grows
  <2>7. Still(t, u)
    BY <1>5, <2>1, <2>5 DEF Still
  <2>8. Light(t, u)
    BY <1>5, <2>1, <2>5 DEF Light
  <2>. QED
    BY <2>6, <2>7, <2>8 DEF Calm
<1>11. u[n].next = i /\ u[n].kids[i].node = c /\ Len(u[n].kids) = Len(t[n].kids)
  BY <1>3, <1>4, <1>5
<1>. QED
  BY <1>2, <1>5, <1>9, <1>10, <1>11 DEF u

LEMMA AttachedKeeps ==
  ASSUME NEW t, NEW h, TreeOK(t, h), NEW n \in 1 .. Len(t), CanExpand(t, n), Place(t, n) # 0
  PROVE  LET u == Attached(t, n)
             i == t[n].next + 1
         IN  /\ TreeOK(u, h) /\ Calm(t, u) /\ n \in 1 .. Len(u)
             /\ u[n].next = i /\ u[n].kids[i].node = Place(t, n) /\ Place(t, n) \in 1 .. Len(u)
             /\ u[Place(t, n)].pos = ChildPosition(t, n, i)
             /\ ChildPosition(t, n, i) \in Positions /\ ChildPosition(u, n, i) = ChildPosition(t, n, i)
             /\ i \in 1 .. Len(u[n].kids)
<1>. DEFINE i == t[n].next + 1
            c == Place(t, n)
            p == ChildPosition(t, n, i)
            pool == IF c > Len(t) THEN Append(t, NewNode(p)) ELSE t
            u == [pool EXCEPT ![n].next = i, ![n].selectable = i, ![n].kids[i].node = c]
<1>1. /\ t \in Seq(NodeSet) /\ Len(t) \in Nat /\ p \in Positions /\ i \in 1 .. Len(t[n].kids)
      /\ c \in 0 .. Len(t) + 1 /\ (c \in 1 .. Len(t) => t[c].pos = p)
  BY PlaceIs, TreeSizes
<1>2. /\ TreeOK(pool, h) /\ Calm(t, pool) /\ n \in 1 .. Len(pool) /\ pool[n] = t[n]
      /\ c \in 1 .. Len(pool) /\ pool[c].pos = p
  <2>1. CASE c > Len(t)
    <3>1. c = Len(t) + 1 /\ pool = Append(t, NewNode(p))
      BY <1>1, <2>1
    <3>2. /\ TreeOK(pool, h) /\ Grows(t, pool) /\ Still(t, pool) /\ Light(t, pool)
          /\ Len(pool) = Len(t) + 1 /\ pool[Len(t) + 1].pos = p
          /\ \A m \in 1 .. Len(t) : pool[m] = t[m]
      BY <1>1, <3>1, AppendKeeps
    <3>. HIDE DEF pool, c
    <3>. QED
      BY <1>1, <3>1, <3>2 DEF Calm
  <2>2. CASE ~(c > Len(t))
    <3>1. pool = t
      BY <2>2
    <3>2. Calm(t, t)
      BY TreeSizes DEF Calm, Grows, Still, Light
    <3>3. c \in 1 .. Len(t)
      BY <1>1, <2>2
    <3>. HIDE DEF pool, c
    <3>. QED
      BY <1>1, <3>1, <3>2, <3>3
  <2>. QED
    BY <2>1, <2>2
<1>3. Attached(t, n) = u
  <2>1. Attached(t, n) = [Consumed(pool, n) EXCEPT ![n].selectable = i, ![n].kids[i].node = c]
    BY DEF Attached
  <2>2. /\ pool \in Seq(NodeSet) /\ n \in 1 .. Len(pool) /\ pool[n] \in NodeSet
        /\ n \in DOMAIN pool /\ pool[n] = t[n]
    BY <1>2, NodeAt, TreeSizes
  <2>. HIDE DEF pool, c
  <2>3. Consumed(pool, n) = [pool EXCEPT ![n].next = i]
    BY <2>2 DEF Consumed
  <2>4. [[pool EXCEPT ![n].next = i] EXCEPT ![n].selectable = i, ![n].kids[i].node = c] = u
    <3>. HIDE DEF i
    <3>. QED
      BY <2>2 DEF NodeSet
  <2>. QED
    BY <2>1, <2>3, <2>4
<1>4. CanExpand(pool, n) /\ pool[c].pos = ChildPosition(pool, n, pool[n].next + 1)
  BY <1>2 DEF CanExpand, ChildPosition
<1>. HIDE DEF pool, c
<1>5. /\ TreeOK(WithChild(pool, n, c), h) /\ Calm(pool, WithChild(pool, n, c))
      /\ Len(WithChild(pool, n, c)) = Len(pool)
      /\ WithChild(pool, n, c)[n].next = pool[n].next + 1
      /\ WithChild(pool, n, c)[n].kids[pool[n].next + 1].node = c
      /\ Len(WithChild(pool, n, c)[n].kids) = Len(pool[n].kids)
  BY <1>2, <1>4, ChildSet
<1>6. /\ TreeOK(u, h) /\ Calm(pool, u) /\ Len(u) = Len(pool)
      /\ u[n].next = i /\ u[n].kids[i].node = c /\ Len(u[n].kids) = Len(t[n].kids)
  <2>1. u = WithChild(pool, n, c)
    BY <1>2 DEF WithChild
  <2>. HIDE DEF u
  <2>. QED
    BY <1>2, <1>5, <2>1
<1>. HIDE DEF u
<1>7. Calm(t, u)
  BY <1>2, <1>6, CalmOnwards
<1>8. u[c].pos = p /\ u[n].pos = t[n].pos
  BY <1>1, <1>2, <1>6 DEF Calm, Grows
<1>9. ChildPosition(u, n, i) = p
  BY <1>8 DEF ChildPosition
<1>. QED
  BY <1>1, <1>2, <1>3, <1>6, <1>7, <1>8, <1>9 DEF c

\* A virtual loss: only the loss of one child changes.
LossRaised(t, u, n, i) ==
    /\ Len(u) = Len(t)
    /\ \A m \in 1 .. Len(t) :
          /\ Len(u[m].kids) = Len(t[m].kids)
          /\ \A j \in 1 .. Len(t[m].kids) :
                u[m].kids[j].loss = t[m].kids[j].loss + IF m = n /\ j = i THEN 1 ELSE 0

LEMMA RaiseLossKeeps ==
  ASSUME NEW t, NEW h, TreeOK(t, h), NEW n \in 1 .. Len(t), NEW i \in 1 .. t[n].next
  PROVE  LET u == RaiseLoss(t, n, i) IN
         TreeOK(u, h) /\ Grows(t, u) /\ Still(t, u) /\ LossRaised(t, u, n, i)
<1>. DEFINE o == t[n].kids
            y == [o[i] EXCEPT !.loss = o[i].loss + 1]
            k == [o EXCEPT ![i] = y]
            x == [t[n] EXCEPT !.kids = k]
            u == [t EXCEPT ![n] = x]
<1>1. /\ t \in Seq(NodeSet) /\ Len(t) \in Nat /\ t[n] \in NodeSet /\ t[n].next \in Nat
      /\ o \in Seq(Kid) /\ Len(o) \in Nat /\ NodeOK(t, n, h) /\ t[n].selectable \in Nat
      /\ i \in 1 .. Len(o) /\ o[i] \in Kid /\ o[i].loss \in Int
  BY NodeAt, TreeSizes DEF TreeOK
<1>2. RaiseLoss(t, n, i) = u
  BY <1>1 DEF RaiseLoss, NodeSet, Kid
<1>3. y \in Kid /\ y.node = o[i].node /\ y.visits = o[i].visits /\ y.loss = o[i].loss + 1
  <2>. DEFINE w == o[i]
  <2>1. w \in Kid /\ w.loss \in Int
    BY <1>1
  <2>. HIDE DEF w
  <2>2. LET z == [w EXCEPT !.loss = w.loss + 1] IN
        z \in Kid /\ z.node = w.node /\ z.visits = w.visits /\ z.loss = w.loss + 1
    BY <2>1 DEF Kid
  <2>. QED
    BY <2>2 DEF w
<1>. HIDE DEF y
<1>4. k \in Seq(Kid) /\ Len(k) = Len(o) /\ k[i] = y /\ \A j \in 1 .. Len(o) : j # i => k[j] = o[j]
  <2>. HIDE DEF o
  <2>. QED
    BY <1>1, <1>3
<1>. HIDE DEF k
<1>5. /\ x \in NodeSet /\ x.pos = t[n].pos /\ x.expanded = t[n].expanded /\ x.kids = k
      /\ x.next = t[n].next /\ x.visits = t[n].visits /\ x.selectable = t[n].selectable
      /\ x.terminal = t[n].terminal /\ x.verdict = t[n].verdict
  <2>. DEFINE w == t[n]
  <2>1. w \in NodeSet
    BY <1>1
  <2>. HIDE DEF w
  <2>2. LET z == [w EXCEPT !.kids = k] IN
        /\ z \in NodeSet /\ z.pos = w.pos /\ z.expanded = w.expanded /\ z.kids = k
        /\ z.next = w.next /\ z.visits = w.visits /\ z.selectable = w.selectable
        /\ z.terminal = w.terminal /\ z.verdict = w.verdict
    BY <1>4, <2>1 DEF NodeSet
  <2>. QED
    BY <2>2 DEF w
<1>. HIDE DEF x
<1>6. Len(u) = Len(t) /\ u[n] = x /\ \A m \in 1 .. Len(t) : m # n => u[m] = t[m]
  BY <1>1, <1>5, SetNode
<1>. HIDE DEF u
<1>7. \A m \in 1 .. Len(t) : u[m].pos = t[m].pos
  BY <1>5, <1>6
<1>8. \A j \in 1 .. Len(k) : /\ k[j].visits = o[j].visits /\ k[j].node = o[j].node
                             /\ j # i => k[j].loss = o[j].loss
                             /\ k[i].loss = o[i].loss + 1
  BY <1>3, <1>4
<1>9. NodeOK(u, n, h)
  <2>1. ASSUME NEW j \in 1 .. Len(k) PROVE KidOK(u, n, j)
    <3>1. /\ KidOK(t, n, j) /\ u[n].kids = k /\ u[n].pos = t[n].pos /\ u[n].next = t[n].next
          /\ t[n].kids[j].node \in 0 .. Len(t)
      BY <1>1, <1>4, <1>5, <1>6 DEF NodeOK, KidOK
    <3>2. j > t[n].next => j # i
      BY <1>1, TreeSizes
    <3>3. /\ u[n].kids[j].visits = t[n].kids[j].visits /\ u[n].kids[j].node = t[n].kids[j].node
          /\ j # i => u[n].kids[j].loss = t[n].kids[j].loss
      BY <1>8, <3>1
    <3>. QED
      BY <1>1, <1>6, <1>7, <3>1, <3>2, <3>3 DEF KidOK
  <2>2. o # <<>> /\ t[n].expanded /\ Len(Successors[t[n].pos]) = Len(k)
    <3>1. o # <<>>
      BY <1>1
    <3>. QED
      BY <1>1, <1>4, <3>1 DEF NodeOK
  <2>. QED
    BY <1>1, <1>4, <1>5, <1>6, <2>1, <2>2 DEF NodeOK
<1>10. TreeOK(u, h)
  BY <1>4, <1>5, <1>9, Replaced DEF u
<1>11. /\ Len(t) \in Nat
       /\ \A m \in 1 .. Len(t) : /\ t[m].next \in Nat /\ Len(t[m].kids) \in Nat
                                 /\ \A j \in 1 .. Len(t[m].kids) : t[m].kids[j].loss \in Int
  BY <1>1, TreeSizes, NodeAt
<1>12. ASSUME NEW m \in 1 .. Len(t)
       PROVE  /\ u[m].visits = t[m].visits /\ Len(u[m].kids) = Len(t[m].kids)
              /\ u[m].next = t[m].next
              /\ \A j \in 1 .. Len(t[m].kids) :
                     /\ u[m].kids[j].visits = t[m].kids[j].visits
                     /\ u[m].kids[j].node = t[m].kids[j].node
                     /\ u[m].kids[j].loss = t[m].kids[j].loss + IF m = n /\ j = i THEN 1 ELSE 0
  <2>1. CASE m = n
    BY <1>4, <1>5, <1>6, <1>8, <1>11, <2>1
  <2>2. CASE m # n
    BY <1>6, <1>11, <2>2
  <2>. QED
    BY <2>1, <2>2
<1>13. Grows(t, u)
  BY <1>6, <1>7, <1>11, <1>12 DEF Grows
<1>14. Still(t, u)
  BY <1>6, <1>11, <1>12 DEF Still
<1>15. LossRaised(t, u, n, i)
  BY <1>6, <1>12 DEF LossRaised
<1>. QED
  BY <1>2, <1>10, <1>13, <1>14, <1>15

-----------------------------------------------------------------------------
(***************************************************************************)
(* Visits.                                                                 *)
(***************************************************************************)
FlowOK(t, total) ==
    \A n \in 1 .. Len(t) :
        t[n].visits = Total(VisitsOf(t), InEdges(t, n)) + IF n = Root THEN total ELSE 0

LEMMA EdgesAre ==
  ASSUME NEW t, NEW h, TreeOK(t, h)
  PROVE  /\ \A e : e \in TreeEdges(t) <=>
               \E n \in 1 .. Len(t) : \E i \in 1 .. Len(t[n].kids) : e = <<n, i>>
         /\ \A n \in 1 .. Len(t) : \A i \in 1 .. Len(t[n].kids) : <<n, i>> \in TreeEdges(t)
         /\ \A e \in TreeEdges(t) : /\ e = <<e[1], e[2]>> /\ e[1] \in 1 .. Len(t)
                                    /\ e[2] \in 1 .. Len(t[e[1]].kids)
<1>1. DOMAIN t = 1 .. Len(t) /\ \A n \in 1 .. Len(t) : DOMAIN t[n].kids = 1 .. Len(t[n].kids)
  BY TreeSizes
<1>2. \A e : e \in TreeEdges(t) <=>
               \E n \in 1 .. Len(t) : \E i \in 1 .. Len(t[n].kids) : e = <<n, i>>
  BY <1>1 DEF TreeEdges
<1>. QED
  BY <1>2

LEMMA FiniteEdges ==
  ASSUME NEW t, NEW h, TreeOK(t, h)
  PROVE  IsFiniteSet(TreeEdges(t)) /\ \A n : IsFiniteSet(InEdges(t, n))
<1>. DEFINE Upto(m) == {e \in TreeEdges(t) : e[1] <= m}
            S == {m \in Nat : IsFiniteSet(Upto(m))}
<1>1. 0 \in S
  <2>1. Upto(0) = {}
    <3>1. \A e \in TreeEdges(t) : e[1] \in 1 .. Len(t)
      BY EdgesAre
    <3>. QED
      BY <3>1
  <2>. QED
    BY <2>1, FS_EmptySet
<1>2. ASSUME NEW m \in Nat, m \in S PROVE m + 1 \in S
  <2>. DEFINE T == {m + 1} \X (1 .. Len(t[m + 1].kids))
  <2>1. IsFiniteSet(Upto(m)) /\ Len(t) \in Nat
    BY <1>2, TreeSizes
  <2>2. CASE m + 1 <= Len(t)
    <3>1. m + 1 \in 1 .. Len(t) /\ Len(t[m + 1].kids) \in Nat
      BY <2>1, <2>2, TreeSizes
    <3>2. IsFiniteSet({m + 1}) /\ IsFiniteSet(1 .. Len(t[m + 1].kids))
      <4>1. 1 \in Int /\ Len(t[m + 1].kids) \in Int
        BY <3>1
      <4>2. IsFiniteSet(1 .. Len(t[m + 1].kids))
        BY <4>1, FS_Interval
      <4>. QED
        BY <4>2, FS_Singleton
    <3>3. IsFiniteSet(T)
      BY <3>2, FS_Product
    <3>4. IsFiniteSet(Upto(m) \cup T)
      <4>. HIDE DEF T, Upto
      <4>. QED
        BY <2>1, <3>3, FS_Union
    <3>5. Upto(m + 1) \subseteq Upto(m) \cup T
      <4>1. ASSUME NEW e \in TreeEdges(t), e[1] <= m + 1, ~(e[1] <= m) PROVE e \in T
        <5>1. e = <<e[1], e[2]>> /\ e[1] \in 1 .. Len(t) /\ e[2] \in 1 .. Len(t[e[1]].kids)
          BY EdgesAre
        <5>2. e[1] = m + 1
          BY <4>1, <5>1
        <5>. QED
          BY <5>1, <5>2
      <4>. QED
        BY <4>1
    <3>. HIDE DEF T, Upto
    <3>6. IsFiniteSet(Upto(m + 1))
      BY <3>4, <3>5, FS_Subset
    <3>. QED
      BY <3>6
  <2>3. CASE ~(m + 1 <= Len(t))
    <3>1. Upto(m + 1) = Upto(m)
      <4>1. \A e \in TreeEdges(t) : e[1] \in 1 .. Len(t)
        BY EdgesAre
      <4>. QED
        BY <2>1, <2>3, <4>1
    <3>. HIDE DEF Upto
    <3>2. IsFiniteSet(Upto(m + 1))
      BY <2>1, <3>1
    <3>. QED
      BY <3>2
  <2>. QED
    BY <2>2, <2>3
<1>3. Len(t) \in S
  <2>. HIDE DEF S
  <2>1. Nat \subseteq S
    BY <1>1, <1>2, IndSet
  <2>. QED
    BY <2>1, TreeSizes
<1>4. TreeEdges(t) \subseteq Upto(Len(t))
  BY EdgesAre, TreeSizes
<1>5. IsFiniteSet(TreeEdges(t))
  BY <1>3, <1>4, FS_Subset
<1>6. \A n : InEdges(t, n) \subseteq TreeEdges(t)
  BY DEF InEdges
<1>. QED
  BY <1>5, <1>6, FS_Subset

LEMMA InEdgesAre ==
  ASSUME NEW t, NEW h, TreeOK(t, h), NEW n
  PROVE  /\ IsFiniteSet(InEdges(t, n)) /\ InEdges(t, n) \subseteq TreeEdges(t)
         /\ \A e \in TreeEdges(t) : /\ VisitsOf(t)[e] = t[e[1]].kids[e[2]].visits
                                    /\ VisitsOf(t)[e] \in Int
                                    /\ e \in InEdges(t, n) <=> t[e[1]].kids[e[2]].node = n
<1>1. IsFiniteSet(InEdges(t, n)) /\ InEdges(t, n) \subseteq TreeEdges(t)
  BY FiniteEdges DEF InEdges
<1>2. ASSUME NEW e \in TreeEdges(t)
      PROVE  /\ VisitsOf(t)[e] = t[e[1]].kids[e[2]].visits /\ VisitsOf(t)[e] \in Int
             /\ e \in InEdges(t, n) <=> t[e[1]].kids[e[2]].node = n
  <2>1. e[1] \in 1 .. Len(t) /\ e[2] \in 1 .. Len(t[e[1]].kids)
    BY EdgesAre
  <2>2. t[e[1]].kids[e[2]].visits \in Nat
    BY <2>1, NodeAt DEF TreeOK
  <2>. QED
    BY <2>2 DEF VisitsOf, InEdges
<1>. QED
  BY <1>1, <1>2

\* The flow does not see a step that leaves the visits alone.
LEMMA FlowStays ==
  ASSUME NEW t, NEW u, NEW h, TreeOK(t, h), TreeOK(u, h), Still(t, u), NEW k, FlowOK(t, k)
  PROVE  FlowOK(u, k)
<1>1. ASSUME NEW n \in 1 .. Len(u)
      PROVE  u[n].visits = Total(VisitsOf(u), InEdges(u, n)) + IF n = Root THEN k ELSE 0
  <2>. DEFINE A == InEdges(t, n)
              B == InEdges(u, n)
              C == A \cap B
  <2>0. /\ Len(t) \in Nat /\ Len(u) \in Nat /\ Len(t) >= 1 /\ Len(t) <= Len(u)
        /\ \A m \in 1 .. Len(t) : Len(t[m].kids) \in Nat
        /\ \A m \in 1 .. Len(u) : Len(u[m].kids) \in Nat
    BY TreeSizes DEF Still
  <2>1. /\ IsFiniteSet(A) /\ A \subseteq TreeEdges(t) /\ IsFiniteSet(B) /\ B \subseteq TreeEdges(u)
        /\ \A e \in A : VisitsOf(t)[e] \in Int
        /\ \A e \in B : VisitsOf(u)[e] \in Int
    BY InEdgesAre
  <2>2. ASSUME NEW e \in TreeEdges(t)
        PROVE  /\ e \in TreeEdges(u) /\ VisitsOf(u)[e] = VisitsOf(t)[e]
               /\ t[e[1]].kids[e[2]].node = u[e[1]].kids[e[2]].node \/ VisitsOf(t)[e] = 0
    <3>1. e = <<e[1], e[2]>> /\ e[1] \in 1 .. Len(t) /\ e[2] \in 1 .. Len(t[e[1]].kids)
      BY EdgesAre
    <3>2. e[1] \in 1 .. Len(u) /\ Len(t[e[1]].kids) <= Len(u[e[1]].kids)
      BY <2>0, <3>1 DEF Still
    <3>3. e[2] \in 1 .. Len(u[e[1]].kids) /\ e[1] <= Len(t) /\ e[2] <= Len(t[e[1]].kids)
      BY <2>0, <3>1, <3>2
    <3>4. e \in TreeEdges(u)
      BY <3>1, <3>2, <3>3, EdgesAre
    <3>5. /\ u[e[1]].kids[e[2]].visits = t[e[1]].kids[e[2]].visits
          /\ u[e[1]].kids[e[2]].node = t[e[1]].kids[e[2]].node \/ t[e[1]].kids[e[2]].visits = 0
      BY <3>2, <3>3 DEF Still
    <3>. QED
      BY <3>4, <3>5, InEdgesAre
  <2>3. ASSUME NEW e \in TreeEdges(u), e \notin TreeEdges(t) PROVE VisitsOf(u)[e] = 0
    <3>1. e = <<e[1], e[2]>> /\ e[1] \in 1 .. Len(u) /\ e[2] \in 1 .. Len(u[e[1]].kids)
      BY EdgesAre
    <3>2. ~(e[1] <= Len(t) /\ e[2] <= Len(t[e[1]].kids))
      <4>1. SUFFICES ASSUME e[1] <= Len(t), e[2] <= Len(t[e[1]].kids) PROVE FALSE
        OBVIOUS
      <4>2. e[1] \in 1 .. Len(t)
        BY <2>0, <3>1, <4>1
      <4>3. e[2] \in 1 .. Len(t[e[1]].kids)
        BY <2>0, <3>1, <4>1, <4>2
      <4>. QED
        BY <2>3, <3>1, <4>2, <4>3, EdgesAre
    <3>3. u[e[1]].kids[e[2]].visits = 0
      BY <3>1, <3>2 DEF Still
    <3>. QED
      BY <3>3, InEdgesAre
  <2>4. \A e \in A \ C : VisitsOf(t)[e] = 0
    <3>1. ASSUME NEW e \in A, e \notin B PROVE VisitsOf(t)[e] = 0
      <4>1. e \in TreeEdges(t) /\ t[e[1]].kids[e[2]].node = n
        BY <2>1 DEF InEdges
      <4>2. e \in TreeEdges(u)
        BY <2>2, <4>1
      <4>3. u[e[1]].kids[e[2]].node # n
        BY <3>1, <4>2 DEF InEdges
      <4>. QED
        BY <2>2, <4>1, <4>3
    <3>. QED
      BY <3>1
  <2>5. \A e \in B \ C : VisitsOf(u)[e] = 0
    <3>1. ASSUME NEW e \in B, e \notin A PROVE VisitsOf(u)[e] = 0
      <4>1. e \in TreeEdges(u) /\ u[e[1]].kids[e[2]].node = n
        BY <2>1 DEF InEdges
      <4>2. CASE e \in TreeEdges(t)
        <5>1. t[e[1]].kids[e[2]].node # n
          BY <3>1, <4>2 DEF InEdges
        <5>. QED
          BY <2>2, <4>1, <4>2, <5>1
      <4>3. CASE e \notin TreeEdges(t)
        BY <2>3, <4>1, <4>3
      <4>. QED
        BY <4>2, <4>3
    <3>. QED
      BY <3>1
  <2>6. \A e \in C : VisitsOf(t)[e] = VisitsOf(u)[e]
    BY <2>1, <2>2
  <2>7. IsFiniteSet(C) /\ C \subseteq A /\ C \subseteq B
    BY <2>1, FS_Subset
  <2>. HIDE DEF A, B, C
  <2>8. Total(VisitsOf(t), C) = Total(VisitsOf(t), A)
    BY <2>1, <2>4, <2>7, TotalOfRest
  <2>9. Total(VisitsOf(u), C) = Total(VisitsOf(u), B)
    BY <2>1, <2>5, <2>7, TotalOfRest
  <2>10. Total(VisitsOf(t), C) = Total(VisitsOf(u), C)
    BY <2>6, <2>7, TotalAgrees
  <2>11. Total(VisitsOf(u), B) = Total(VisitsOf(t), A)
    BY <2>8, <2>9, <2>10
  <2>12. CASE n <= Len(t)
    <3>1. n \in 1 .. Len(t) /\ u[n].visits = t[n].visits
      BY <2>0, <2>12 DEF Still
    <3>2. t[n].visits = Total(VisitsOf(t), A) + IF n = Root THEN k ELSE 0
      BY <3>1 DEF FlowOK, A
    <3>. QED
      BY <2>11, <3>1, <3>2 DEF B
  <2>13. CASE ~(n <= Len(t))
    <3>1. u[n].visits = 0 /\ n # Root
      BY <2>0, <2>13 DEF Still, Root
    <3>2. A = {}
      <4>1. ASSUME NEW e \in A PROVE FALSE
        <5>1. e[1] \in 1 .. Len(t) /\ e[2] \in 1 .. Len(t[e[1]].kids)
          BY <2>1, EdgesAre
        <5>2. t[e[1]].kids[e[2]].node \in 0 .. Len(t)
          BY <5>1 DEF TreeOK, NodeOK, KidOK
        <5>3. t[e[1]].kids[e[2]].node = n
          BY DEF A, InEdges
        <5>. QED
          BY <2>0, <2>13, <5>2, <5>3
      <4>. QED
        BY <4>1
    <3>3. Total(VisitsOf(t), A) = 0
      BY <3>2, TotalEmpty
    <3>. QED
      BY <2>11, <3>1, <3>3 DEF B
  <2>. QED
    BY <2>12, <2>13
<1>. QED
  BY <1>1 DEF FlowOK

-----------------------------------------------------------------------------
(***************************************************************************)
(* Back-propagation.                                                       *)
(***************************************************************************)
\* An edge of the tree that a lane may have taken.
TakenIn(t, e) == e \in TreeEdges(t) /\ e[2] <= t[e[1]].next

\* The same nodes and children, the counters apart.
SameTree(t, u) ==
    /\ Len(u) = Len(t)
    /\ \A m \in 1 .. Len(t) :
          /\ u[m].pos = t[m].pos /\ u[m].next = t[m].next /\ Len(u[m].kids) = Len(t[m].kids)
          /\ \A j \in 1 .. Len(t[m].kids) : u[m].kids[j].node = t[m].kids[j].node

Ifs(b) == IF b THEN 1 ELSE 0
OneVisit(t, e) == [f \in TreeEdges(t) |-> Ifs(f = e)]
\* The counters of the children after d visits of some edges.
Paid(t, u, d) ==
    \A m \in 1 .. Len(t) : \A j \in 1 .. Len(t[m].kids) :
        /\ u[m].kids[j].visits = t[m].kids[j].visits + d[<<m, j>>]
        /\ u[m].kids[j].loss = t[m].kids[j].loss - d[<<m, j>>]

LEMMA SameEdges ==
  ASSUME NEW t, NEW u, NEW h, TreeOK(t, h), TreeOK(u, h), SameTree(t, u)
  PROVE  TreeEdges(u) = TreeEdges(t) /\ \A n : InEdges(u, n) = InEdges(t, n)
<1>1. \A e : e \in TreeEdges(t) <=> \E n \in 1 .. Len(t) : \E i \in 1 .. Len(t[n].kids) : e = <<n, i>>
  BY EdgesAre
<1>2. \A e : e \in TreeEdges(u) <=> \E n \in 1 .. Len(u) : \E i \in 1 .. Len(u[n].kids) : e = <<n, i>>
  BY EdgesAre
<1>3. TreeEdges(u) = TreeEdges(t)
  <2>1. \A e : e \in TreeEdges(t) <=> e \in TreeEdges(u)
    BY <1>1, <1>2 DEF SameTree
  <2>. QED
    BY <2>1
<1>4. \A e \in TreeEdges(t) : u[e[1]].kids[e[2]].node = t[e[1]].kids[e[2]].node
  BY EdgesAre DEF SameTree
<1>5. ASSUME NEW n PROVE InEdges(u, n) = InEdges(t, n)
  BY <1>3, <1>4 DEF InEdges
<1>. QED
  BY <1>3, <1>5

\* A visit of one node.
Visit(t, n, v) == [t EXCEPT ![n].visits = @ + 1, ![n].value = @ + v]

LEMMA VisitKeeps ==
  ASSUME NEW t, NEW h, TreeOK(t, h), NEW n \in 1 .. Len(t), NEW v \in 0 .. 2
  PROVE  LET u == Visit(t, n, v) IN
         /\ TreeOK(u, h) /\ SameTree(t, u) /\ \A m \in 1 .. Len(t) : u[m].kids = t[m].kids
         /\ \A m \in 1 .. Len(t) : u[m].visits = t[m].visits + Ifs(m = n)
<1>. DEFINE x == [t[n] EXCEPT !.visits = t[n].visits + 1, !.value = t[n].value + v]
            u == [t EXCEPT ![n] = x]
<1>1. /\ t \in Seq(NodeSet) /\ Len(t) \in Nat /\ t[n] \in NodeSet /\ t[n].value \in Nat
      /\ NodeOK(t, n, h) /\ \A m \in 1 .. Len(t) : t[m].visits \in Nat
  BY NodeAt, TreeSizes DEF TreeOK
<1>2. Visit(t, n, v) = u
  BY <1>1 DEF Visit, NodeSet
<1>3. /\ x \in NodeSet /\ x.pos = t[n].pos /\ x.expanded = t[n].expanded /\ x.kids = t[n].kids
      /\ x.next = t[n].next /\ x.visits = t[n].visits + 1 /\ x.selectable = t[n].selectable
      /\ x.terminal = t[n].terminal /\ x.verdict = t[n].verdict
  <2>. DEFINE w == t[n]
  <2>1. w \in NodeSet /\ w.visits \in Nat /\ w.value \in Nat
    BY <1>1
  <2>. HIDE DEF w
  <2>. DEFINE a == w.visits + 1
              b == w.value + v
  <2>2. a \in Nat /\ b \in Nat
    BY <2>1
  <2>. HIDE DEF a, b
  <2>3. LET z == [w EXCEPT !.visits = a, !.value = b] IN
        /\ z \in NodeSet /\ z.pos = w.pos /\ z.expanded = w.expanded /\ z.kids = w.kids
        /\ z.next = w.next /\ z.visits = a /\ z.selectable = w.selectable
        /\ z.terminal = w.terminal /\ z.verdict = w.verdict
    BY <2>1, <2>2 DEF NodeSet
  <2>. QED
    BY <2>3 DEF w, a, b
<1>. HIDE DEF x
<1>4. Len(u) = Len(t) /\ u[n] = x /\ \A m \in 1 .. Len(t) : m # n => u[m] = t[m]
  BY <1>1, <1>3, SetNode
<1>. HIDE DEF u
<1>5. \A m \in 1 .. Len(t) : u[m].pos = t[m].pos
  BY <1>3, <1>4
<1>6. NodeOK(u, n, h)
  <2>1. ASSUME NEW j \in 1 .. Len(x.kids) PROVE KidOK(u, n, j)
    <3>1. /\ KidOK(t, n, j) /\ u[n].kids = t[n].kids /\ u[n].pos = t[n].pos /\ u[n].next = t[n].next
          /\ t[n].kids[j].node \in 0 .. Len(t)
      BY <1>1, <1>3, <1>4 DEF NodeOK, KidOK
    <3>. QED
      BY <1>1, <1>4, <1>5, <3>1 DEF KidOK
  <2>. QED
    BY <1>1, <1>3, <1>4, <2>1 DEF NodeOK
<1>7. TreeOK(u, h)
  BY <1>3, <1>6, Replaced DEF u
<1>8. ASSUME NEW m \in 1 .. Len(t)
      PROVE  /\ u[m].kids = t[m].kids /\ u[m].next = t[m].next
             /\ u[m].visits = t[m].visits + Ifs(m = n)
  <2>1. CASE m = n
    BY <1>3, <1>4, <2>1 DEF Ifs
  <2>2. CASE m # n
    BY <1>1, <1>4, <2>2 DEF Ifs
  <2>. QED
    BY <2>1, <2>2
<1>9. SameTree(t, u)
  BY <1>4, <1>5, <1>8 DEF SameTree
<1>. QED
  BY <1>2, <1>7, <1>8, <1>9

\* A visit of one edge, of the child's counters only.
Settle(t, e, v) ==
    [t EXCEPT ![e[1]].kids[e[2]].loss = @ - 1, ![e[1]].kids[e[2]].visits = @ + 1,
              ![e[1]].kids[e[2]].value = @ + v]

SetKid(t, n, i, y) == [t EXCEPT ![n] = [t[n] EXCEPT !.kids = [t[n].kids EXCEPT ![i] = y]]]
PaidKid(w, v) == [w EXCEPT !.loss = w.loss - 1, !.visits = w.visits + 1, !.value = w.value + v]

LEMMA SettleSets ==
  ASSUME NEW t, NEW e, e[1] \in DOMAIN t, "kids" \in DOMAIN t[e[1]], e[2] \in DOMAIN t[e[1]].kids, NEW v,
         {"loss", "visits", "value"} \subseteq DOMAIN t[e[1]].kids[e[2]]
  PROVE  Settle(t, e, v) = SetKid(t, e[1], e[2], PaidKid(t[e[1]].kids[e[2]], v))
<1>. DEFINE n == e[1]
            i == e[2]
            o == t[n].kids
            w == o[i]
            Set(y) == [t EXCEPT ![n] = [t[n] EXCEPT !.kids = [o EXCEPT ![i] = y]]]
            Put(y, z) == [Set(y) EXCEPT ![n] = [Set(y)[n] EXCEPT !.kids = [Set(y)[n].kids EXCEPT ![i] = z]]]
            L(x) == [x EXCEPT ![n].kids[i].loss = @ - 1]
            V(x) == [x EXCEPT ![n].kids[i].visits = @ + 1]
            W(x) == [x EXCEPT ![n].kids[i].value = @ + v]
            a == [w EXCEPT !.loss = w.loss - 1]
            b == [a EXCEPT !.visits = a.visits + 1]
            d == [b EXCEPT !.value = b.value + v]
<1>0. Settle(t, e, v) = W(V(L(t)))
  BY DEF Settle
<1>. HIDE DEF n, i
<1>1. \A y : /\ n \in DOMAIN Set(y) /\ "kids" \in DOMAIN Set(y)[n] /\ i \in DOMAIN Set(y)[n].kids
             /\ Set(y)[n].kids[i] = y
  BY DEF n, i
<1>2. \A y, z : Put(y, z) = Set(z)
  OBVIOUS
<1>3. L(t) = Set(a)
  BY DEF n, i
<1>4. V(Set(a)) = Put(a, b)
  <2>1. Set(a)[n].kids[i] = a
    BY <1>1
  <2>. HIDE DEF Set, a
  <2>. QED
    BY <1>1, <2>1
<1>5. W(Set(b)) = Put(b, d)
  <2>1. Set(b)[n].kids[i] = b
    BY <1>1
  <2>. HIDE DEF Set, b
  <2>. QED
    BY <1>1, <2>1
<1>6. W(V(L(t))) = Set(d)
  <2>. HIDE DEF Set, Put, L, V, W, a, b, d
  <2>. QED
    BY <1>2, <1>3, <1>4, <1>5
<1>7. d = PaidKid(w, v)
  <2>. HIDE DEF w
  <2>. QED
    BY DEF PaidKid
<1>8. Set(d) = SetKid(t, n, i, d)
  <2>. HIDE DEF d
  <2>. QED
    BY DEF SetKid
<1>9. Settle(t, e, v) = SetKid(t, n, i, d)
  BY <1>0, <1>6, <1>8
<1>. QED
  <2>. HIDE DEF d
  <2>. QED
    BY <1>7, <1>9 DEF n, i

LEMMA SettleKeeps ==
  ASSUME NEW t, NEW h, TreeOK(t, h), NEW e, TakenIn(t, e), NEW v \in 0 .. 2
  PROVE  LET u == Settle(t, e, v) IN
         /\ TreeOK(u, h) /\ SameTree(t, u)
         /\ \A m \in 1 .. Len(t) : u[m].visits = t[m].visits
         /\ Paid(t, u, OneVisit(t, e))
<1>. DEFINE n == e[1]
            i == e[2]
            o == t[n].kids
            w == o[i]
            y == [w EXCEPT !.loss = w.loss - 1, !.visits = w.visits + 1, !.value = w.value + v]
            k == [o EXCEPT ![i] = y]
            x == [t[n] EXCEPT !.kids = k]
            u == [t EXCEPT ![n] = x]
<1>0. n \in 1 .. Len(t) /\ i \in 1 .. Len(o) /\ i <= t[n].next /\ e = <<n, i>>
  BY EdgesAre DEF TakenIn
<1>1. /\ t \in Seq(NodeSet) /\ Len(t) \in Nat /\ t[n] \in NodeSet /\ t[n].next \in Nat
      /\ o \in Seq(Kid) /\ Len(o) \in Nat /\ NodeOK(t, n, h) /\ t[n].selectable \in Nat
      /\ w \in Kid /\ w.loss \in Int /\ w.visits \in Nat /\ w.value \in Nat
  BY <1>0, NodeAt, TreeSizes DEF TreeOK
<1>2. Settle(t, e, v) = u
  <2>2. /\ n \in DOMAIN t /\ i \in DOMAIN o /\ "kids" \in DOMAIN t[n]
        /\ {"loss", "visits", "value"} \subseteq DOMAIN w
    <3>1. n \in DOMAIN t /\ i \in DOMAIN o
      BY <1>0, <1>1, TreeSizes
    <3>2. "kids" \in DOMAIN t[n]
      BY <1>1 DEF NodeSet
    <3>3. {"loss", "visits", "value"} \subseteq DOMAIN w
      <4>. HIDE DEF w
      <4>. QED
        BY <1>1 DEF Kid
    <3>. QED
      BY <3>1, <3>2, <3>3
  <2>3. Settle(t, e, v) = SetKid(t, n, i, PaidKid(w, v))
    BY <2>2, SettleSets
  <2>4. SetKid(t, n, i, y) = u
    <3>. HIDE DEF y
    <3>. QED
      BY DEF SetKid
  <2>5. y = PaidKid(w, v)
    BY DEF PaidKid
  <2>. HIDE DEF u, y
  <2>. QED
    BY <2>3, <2>4, <2>5
<1>. HIDE DEF n, i
<1>3. y \in Kid /\ y.node = w.node /\ y.visits = w.visits + 1 /\ y.loss = w.loss - 1
  <2>. HIDE DEF w
  <2>. DEFINE a == w.loss - 1
              b == w.visits + 1
              d == w.value + v
  <2>2. w \in Kid /\ a \in Int /\ b \in Nat /\ d \in Nat
    BY <1>1
  <2>. HIDE DEF a, b, d
  <2>3. LET z == [w EXCEPT !.loss = a, !.visits = b, !.value = d] IN
        z \in Kid /\ z.node = w.node /\ z.visits = b /\ z.loss = a
    BY <2>2 DEF Kid
  <2>. QED
    BY <2>3 DEF a, b, d
<1>. HIDE DEF y
<1>4. k \in Seq(Kid) /\ Len(k) = Len(o) /\ k[i] = y /\ \A j \in 1 .. Len(o) : j # i => k[j] = o[j]
  <2>. HIDE DEF o
  <2>. QED
    BY <1>0, <1>1, <1>3
<1>. HIDE DEF k
<1>5. /\ x \in NodeSet /\ x.pos = t[n].pos /\ x.expanded = t[n].expanded /\ x.kids = k
      /\ x.next = t[n].next /\ x.visits = t[n].visits /\ x.selectable = t[n].selectable
      /\ x.terminal = t[n].terminal /\ x.verdict = t[n].verdict
  <2>. DEFINE r == t[n]
  <2>1. r \in NodeSet
    BY <1>1
  <2>. HIDE DEF r
  <2>2. LET z == [r EXCEPT !.kids = k] IN
        /\ z \in NodeSet /\ z.pos = r.pos /\ z.expanded = r.expanded /\ z.kids = k
        /\ z.next = r.next /\ z.visits = r.visits /\ z.selectable = r.selectable
        /\ z.terminal = r.terminal /\ z.verdict = r.verdict
    BY <1>4, <2>1 DEF NodeSet
  <2>. QED
    BY <2>2 DEF r
<1>. HIDE DEF x
<1>6. Len(u) = Len(t) /\ u[n] = x /\ \A m \in 1 .. Len(t) : m # n => u[m] = t[m]
  BY <1>0, <1>1, <1>5, SetNode
<1>. HIDE DEF u
<1>7. \A m \in 1 .. Len(t) : u[m].pos = t[m].pos
  BY <1>5, <1>6
<1>8. /\ \A j \in 1 .. Len(k) : /\ k[j].node = o[j].node
                                /\ j # i => k[j].visits = o[j].visits /\ k[j].loss = o[j].loss
      /\ k[i].visits = o[i].visits + 1 /\ k[i].loss = o[i].loss - 1
  BY <1>3, <1>4
<1>9. NodeOK(u, n, h)
  <2>1. ASSUME NEW j \in 1 .. Len(k) PROVE KidOK(u, n, j)
    <3>1. /\ KidOK(t, n, j) /\ u[n].kids = k /\ u[n].pos = t[n].pos /\ u[n].next = t[n].next
          /\ t[n].kids[j].node \in 0 .. Len(t)
      BY <1>0, <1>1, <1>4, <1>5, <1>6 DEF NodeOK, KidOK
    <3>2. j > t[n].next => j # i
      BY <1>0, <1>1
    <3>3. /\ u[n].kids[j].node = t[n].kids[j].node
          /\ j # i => u[n].kids[j].visits = t[n].kids[j].visits /\ u[n].kids[j].loss = t[n].kids[j].loss
      BY <1>8, <3>1
    <3>4. j > u[n].next => /\ u[n].kids[j].node = 0 /\ u[n].kids[j].visits = 0
                           /\ u[n].kids[j].loss = 0
      BY <3>1, <3>2, <3>3 DEF KidOK
    <3>5. u[n].kids[j].node # 0 => u[u[n].kids[j].node].pos = Successors[u[n].pos][j]
      BY <1>1, <1>7, <3>1, <3>3 DEF KidOK
    <3>. QED
      BY <1>6, <3>1, <3>3, <3>4, <3>5 DEF KidOK
  <2>2. o # <<>> /\ t[n].expanded /\ Len(Successors[t[n].pos]) = Len(k)
    <3>1. o # <<>>
      BY <1>0
    <3>. QED
      BY <1>1, <1>4, <3>1 DEF NodeOK
  <2>. QED
    BY <1>1, <1>4, <1>5, <1>6, <2>1, <2>2 DEF NodeOK
<1>10. TreeOK(u, h)
  BY <1>0, <1>4, <1>5, <1>9, Replaced DEF u
<1>11. \A m \in 1 .. Len(t) : /\ t[m].next \in Nat /\ Len(t[m].kids) \in Nat
                              /\ \A j \in 1 .. Len(t[m].kids) : t[m].kids[j].loss \in Int
                                                                /\ t[m].kids[j].visits \in Int
  BY <1>1, TreeSizes, NodeAt
<1>12. ASSUME NEW m \in 1 .. Len(t)
       PROVE  /\ u[m].visits = t[m].visits /\ Len(u[m].kids) = Len(t[m].kids)
              /\ u[m].next = t[m].next
              /\ \A j \in 1 .. Len(t[m].kids) :
                     /\ u[m].kids[j].node = t[m].kids[j].node
                     /\ u[m].kids[j].visits = t[m].kids[j].visits + Ifs(m = n /\ j = i)
                     /\ u[m].kids[j].loss = t[m].kids[j].loss - Ifs(m = n /\ j = i)
  <2>1. CASE m = n
    BY <1>4, <1>5, <1>6, <1>8, <1>11, <2>1 DEF Ifs
  <2>2. CASE m # n
    BY <1>6, <1>11, <2>2 DEF Ifs
  <2>. QED
    BY <2>1, <2>2
<1>13. SameTree(t, u)
  BY <1>6, <1>7, <1>12 DEF SameTree
<1>14. Paid(t, u, OneVisit(t, e))
  <2>1. ASSUME NEW m \in 1 .. Len(t), NEW j \in 1 .. Len(t[m].kids)
        PROVE  [f \in TreeEdges(t) |-> Ifs(f = e)][<<m, j>>] = Ifs(m = n /\ j = i)
    <3>1. <<m, j>> \in TreeEdges(t)
      BY EdgesAre
    <3>2. <<m, j>> = e <=> m = n /\ j = i
      BY <1>0
    <3>. QED
      BY <3>1, <3>2
  <2>. DEFINE d == [f \in TreeEdges(t) |-> Ifs(f = e)]
  <2>2. \A m \in 1 .. Len(t) : \A j \in 1 .. Len(t[m].kids) : d[<<m, j>>] = Ifs(m = n /\ j = i)
    BY <2>1
  <2>. HIDE DEF d
  <2>3. ASSUME NEW m \in 1 .. Len(t), NEW j \in 1 .. Len(t[m].kids)
        PROVE  /\ u[m].kids[j].visits = t[m].kids[j].visits + d[<<m, j>>]
               /\ u[m].kids[j].loss = t[m].kids[j].loss - d[<<m, j>>]
    <3>1. d[<<m, j>>] = Ifs(m = n /\ j = i)
      BY <2>2
    <3>2. /\ u[m].kids[j].visits = t[m].kids[j].visits + Ifs(m = n /\ j = i)
          /\ u[m].kids[j].loss = t[m].kids[j].loss - Ifs(m = n /\ j = i)
      BY <1>12
    <3>. QED
      BY <3>1, <3>2
  <2>4. Paid(t, u, d)
    BY <2>3 DEF Paid
  <2>. QED
    BY <2>4 DEF d, OneVisit
<1>. QED
  BY <1>2, <1>10, <1>12, <1>13, <1>14

LEMMA CreditEdgeKeeps ==
  ASSUME NEW t, NEW h, TreeOK(t, h), NEW e, TakenIn(t, e), NEW v \in 0 .. 2, NEW total \in Nat, FlowOK(t, total)
  PROVE  LET u == CreditEdge(t, e, v) IN
         /\ TreeOK(u, h) /\ SameTree(t, u) /\ FlowOK(u, total)
         /\ Paid(t, u, OneVisit(t, e))
<1>. DEFINE c == t[e[1]].kids[e[2]].node
            s == Settle(t, e, v)
            u == CreditEdge(t, e, v)
            d == OneVisit(t, e)
<1>1. e \in TreeEdges(t) /\ e[1] \in 1 .. Len(t) /\ e[2] \in 1 .. Len(t[e[1]].kids) /\ c \in 0 .. Len(t)
  <2>1. e \in TreeEdges(t) /\ e[1] \in 1 .. Len(t) /\ e[2] \in 1 .. Len(t[e[1]].kids)
    BY EdgesAre DEF TakenIn
  <2>2. KidOK(t, e[1], e[2])
    BY <2>1 DEF TreeOK, NodeOK
  <2>. QED
    BY <2>1, <2>2 DEF KidOK
<1>2. u = IF c = 0 THEN s ELSE Visit(s, c, v)
  BY DEF CreditEdge, Settle, Visit
<1>3. /\ TreeOK(s, h) /\ SameTree(t, s) /\ Paid(t, s, d)
      /\ \A m \in 1 .. Len(t) : s[m].visits = t[m].visits
  BY SettleKeeps
<1>. HIDE DEF s, u, d
<1>4. /\ Len(t) \in Nat /\ Len(s) = Len(t)
      /\ \A m \in 1 .. Len(t) : t[m].visits \in Nat
  BY <1>3, TreeSizes DEF SameTree
<1>5. /\ TreeOK(u, h) /\ SameTree(t, u) /\ Paid(t, u, d)
      /\ \A m \in 1 .. Len(t) : u[m].visits = t[m].visits + Ifs(m = c)
  <2>1. CASE c = 0
    BY <1>2, <1>3, <1>4, <2>1 DEF Ifs
  <2>2. CASE c # 0
    <3>1. u = Visit(s, c, v) /\ c \in 1 .. Len(s)
      BY <1>1, <1>2, <1>4, <2>2
    <3>. HIDE DEF c
    <3>2. /\ TreeOK(u, h) /\ SameTree(s, u) /\ \A m \in 1 .. Len(s) : u[m].kids = s[m].kids
          /\ \A m \in 1 .. Len(s) : u[m].visits = s[m].visits + Ifs(m = c)
      BY <1>3, <3>1, VisitKeeps
    <3>3. SameTree(t, u)
      BY <1>3, <3>2 DEF SameTree
    <3>4. Paid(t, u, d)
      <4>1. \A m \in 1 .. Len(t) : u[m].kids = s[m].kids
        BY <1>4, <3>2
      <4>. QED
        BY <1>3, <4>1 DEF Paid
    <3>. QED
      BY <1>3, <1>4, <3>2, <3>3, <3>4
  <2>. QED
    BY <2>1, <2>2
<1>6. ASSUME NEW n \in 1 .. Len(u)
      PROVE  u[n].visits = Total(VisitsOf(u), InEdges(u, n)) + IF n = Root THEN total ELSE 0
  <2>. DEFINE A == InEdges(t, n)
              f == VisitsOf(t)
              g == VisitsOf(u)
  <2>1. /\ InEdges(u, n) = A /\ TreeEdges(u) = TreeEdges(t) /\ n \in 1 .. Len(t)
    BY <1>5, SameEdges DEF SameTree
  <2>2. /\ IsFiniteSet(A) /\ A \subseteq TreeEdges(t) /\ \A x \in A : f[x] \in Int
        /\ e \in A <=> c = n
    BY <1>1, InEdgesAre
  <2>3. ASSUME NEW x \in TreeEdges(t) PROVE g[x] = f[x] + Ifs(x = e)
    <3>1. x = <<x[1], x[2]>> /\ x[1] \in 1 .. Len(t) /\ x[2] \in 1 .. Len(t[x[1]].kids)
      BY EdgesAre
    <3>2. u[x[1]].kids[x[2]].visits = t[x[1]].kids[x[2]].visits + d[<<x[1], x[2]>>]
      BY <1>5, <3>1 DEF Paid
    <3>3. d[x] = Ifs(x = e)
      BY DEF d, OneVisit
    <3>4. f[x] = t[x[1]].kids[x[2]].visits /\ g[x] = u[x[1]].kids[x[2]].visits
      BY <1>5, <2>1, InEdgesAre
    <3>. QED
      BY <3>1, <3>2, <3>3, <3>4
  <2>4. Total(f, A) \in Int
    BY <2>2, TotalSplits
  <2>5. Total(g, A) = Total(f, A) + Ifs(n = c)
    <3>. HIDE DEF A, f, g, c
    <3>1. CASE c = n
      <4>1. e \in A /\ 1 \in Int /\ g[e] = f[e] + 1 /\ \A x \in A : x # e => g[x] = f[x]
        <5>1. e \in A
          BY <2>2, <3>1
        <5>2. g[e] = f[e] + 1
          BY <1>1, <2>3 DEF Ifs
        <5>3. ASSUME NEW x \in A, x # e PROVE g[x] = f[x]
          <6>1. g[x] = f[x] + 0
            BY <2>2, <2>3, <5>3 DEF Ifs
          <6>. QED
            BY <2>2, <6>1
        <5>. QED
          BY <5>1, <5>2, <5>3
      <4>2. Total(g, A) = Total(f, A) + 1
        BY <2>2, <4>1, TotalChanges
      <4>. QED
        BY <3>1, <4>2 DEF Ifs
    <3>2. CASE c # n
      <4>1. \A x \in A : f[x] = g[x]
        <5>1. ASSUME NEW x \in A PROVE f[x] = g[x]
          <6>1. g[x] = f[x] + 0
            BY <2>2, <2>3, <3>2 DEF Ifs
          <6>. QED
            BY <2>2, <6>1
        <5>. QED
          BY <5>1
      <4>2. Total(f, A) = Total(g, A)
        BY <2>2, <4>1, TotalAgrees
      <4>. QED
        BY <2>4, <3>2, <4>2 DEF Ifs
    <3>. QED
      BY <3>1, <3>2
  <2>6. t[n].visits = Total(f, A) + IF n = Root THEN total ELSE 0
    BY <2>1 DEF FlowOK
  <2>7. u[n].visits = t[n].visits + Ifs(n = c)
    BY <1>5, <2>1
  <2>8. t[n].visits \in Nat
    BY <1>4, <2>1
  <2>. HIDE DEF A, f, g, c
  <2>9. (IF n = Root THEN total ELSE 0) = 0 \/ (n = Root /\ t[n].visits = Total(f, A) + total)
    BY <2>6
  <2>. QED
    BY <2>1, <2>4, <2>5, <2>6, <2>7, <2>8 DEF A, f, g, Ifs
<1>7. FlowOK(u, total)
  BY <1>6 DEF FlowOK
<1>. QED
  BY <1>5, <1>7 DEF u, d

\* How often an edge is among the first k of a path, and on all of it.
CountUpto(path, k, e) == Cardinality({j \in 1 .. k : path[j] = e})
CountOf(path, e) == Cardinality({j \in DOMAIN path : path[j] = e})
CountsUpto(t, path, k) == [f \in TreeEdges(t) |-> CountUpto(path, k, f)]
Counts(t, path) == [f \in TreeEdges(t) |-> CountOf(path, f)]

LEMMA CountGrows ==
  ASSUME NEW path, NEW k \in Nat, NEW e
  PROVE  /\ CountUpto(path, 0, e) = 0 /\ CountUpto(path, k, e) \in Nat
         /\ CountUpto(path, k + 1, e) = CountUpto(path, k, e) + Ifs(e = path[k + 1])
<1>. DEFINE S == {j \in 1 .. k : path[j] = e}
            T == {j \in 1 .. k + 1 : path[j] = e}
<1>1. IsFiniteSet(S) /\ Cardinality(S) \in Nat
  <2>1. IsFiniteSet(1 .. k)
    BY FS_Interval
  <2>2. IsFiniteSet(S)
    BY <2>1, FS_Subset
  <2>. HIDE DEF S
  <2>. QED
    BY <2>2, FS_CardinalityType
<1>2. T = IF path[k + 1] = e THEN S \cup {k + 1} ELSE S
  OBVIOUS
<1>3. k + 1 \notin S
  OBVIOUS
<1>4. Cardinality(S \cup {k + 1}) = Cardinality(S) + 1
  <2>. HIDE DEF S
  <2>. QED
    BY <1>1, <1>3, FS_AddElement
<1>5. Cardinality(T) = Cardinality(S) + Ifs(e = path[k + 1])
  <2>. HIDE DEF S, T
  <2>. QED
    BY <1>1, <1>2, <1>4 DEF Ifs
<1>6. {j \in 1 .. 0 : path[j] = e} = {}
  OBVIOUS
<1>7. CountUpto(path, 0, e) = 0
  BY <1>6, FS_EmptySet DEF CountUpto
<1>. QED
  BY <1>1, <1>5, <1>7 DEF CountUpto

LEMMA CountsGrow ==
  ASSUME NEW path, NEW k \in Nat
  PROVE  \A e : /\ CountUpto(path, k, e) \in Nat
                /\ CountUpto(path, k + 1, e) = CountUpto(path, k, e) + Ifs(e = path[k + 1])
BY CountGrows

LEMMA CreditKeeps ==
  ASSUME NEW t, NEW h, TreeOK(t, h), NEW path, Len(path) \in Nat, DOMAIN path = 1 .. Len(path),
         \A j \in 1 .. Len(path) : TakenIn(t, path[j]),
         NEW v \in 0 .. 2, NEW total \in Nat, FlowOK(t, total)
  PROVE  LET u == Credit(t, path, v) IN
         /\ TreeOK(u, h) /\ SameTree(t, u) /\ FlowOK(u, total) /\ Paid(t, u, Counts(t, path))
<1>1. PICK c : CreditsUp(c, t, path, v) /\ Credit(t, path, v) = c[Len(path)]
  BY CreditIsStepwise
<1>. DEFINE P(k) == /\ TreeOK(c[k], h) /\ SameTree(t, c[k]) /\ FlowOK(c[k], total)
                    /\ Paid(t, c[k], CountsUpto(t, path, k))
            S == {k \in Nat : k <= Len(path) => P(k)}
<1>2. c[0] = t /\ \A k \in Nat : k + 1 <= Len(path) => c[k + 1] = CreditEdge(c[k], path[k + 1], v)
  <2>1. ASSUME NEW k \in 0 .. Len(path)
        PROVE  c[k] = IF k = 0 THEN t ELSE CreditEdge(c[k - 1], path[k], v)
    BY <1>1 DEF CreditsUp
  <2>2. c[0] = t
    BY <2>1
  <2>3. ASSUME NEW k \in Nat, k + 1 <= Len(path) PROVE c[k + 1] = CreditEdge(c[k], path[k + 1], v)
    <3>1. k + 1 \in 0 .. Len(path) /\ k + 1 # 0 /\ (k + 1) - 1 = k
      BY <2>3
    <3>2. c[k + 1] = CreditEdge(c[(k + 1) - 1], path[k + 1], v)
      BY <2>1, <3>1
    <3>. QED
      BY <3>1, <3>2
  <2>. QED
    BY <2>2, <2>3
<1>3. 0 \in S
  <2>1. SameTree(t, t)
    BY DEF SameTree
  <2>2. Paid(t, t, CountsUpto(t, path, 0))
    <3>1. ASSUME NEW m \in 1 .. Len(t), NEW j \in 1 .. Len(t[m].kids)
          PROVE  /\ t[m].kids[j].visits = t[m].kids[j].visits + CountsUpto(t, path, 0)[<<m, j>>]
                 /\ t[m].kids[j].loss = t[m].kids[j].loss - CountsUpto(t, path, 0)[<<m, j>>]
      <4>1. <<m, j>> \in TreeEdges(t)
        BY EdgesAre
      <4>2. CountUpto(path, 0, <<m, j>>) = 0
        BY CountGrows
      <4>3. CountsUpto(t, path, 0)[<<m, j>>] = 0
        BY <4>1, <4>2 DEF CountsUpto
      <4>4. t[m].kids[j].visits \in Nat /\ t[m].kids[j].loss \in Int
        BY NodeAt DEF TreeOK
      <4>. QED
        BY <4>3, <4>4
    <3>. QED
      BY <3>1 DEF Paid
  <2>. QED
    BY <1>2, <2>1, <2>2
<1>4. ASSUME NEW k \in Nat, k \in S PROVE k + 1 \in S
  <2>1. SUFFICES ASSUME k + 1 <= Len(path) PROVE P(k + 1)
    OBVIOUS
  <2>. DEFINE w == c[k]
              u == c[k + 1]
              e == path[k + 1]
              d == CountsUpto(t, path, k)
              b == CountsUpto(t, path, k + 1)
  <2>2. /\ TreeOK(w, h) /\ SameTree(t, w) /\ FlowOK(w, total) /\ Paid(t, w, d)
    <3>1. k <= Len(path)
      BY <2>1
    <3>. QED
      BY <1>4, <3>1
  <2>3. u = CreditEdge(w, e, v)
    BY <1>2, <2>1
  <2>4. TakenIn(w, e)
    <3>1. k + 1 \in 1 .. Len(path)
      BY <2>1
    <3>2. TakenIn(t, e)
      BY <3>1
    <3>. HIDE DEF w, e
    <3>3. TreeEdges(w) = TreeEdges(t) /\ e[1] \in 1 .. Len(t)
      BY <2>2, <3>2, SameEdges, EdgesAre DEF TakenIn
    <3>. QED
      BY <2>2, <3>2, <3>3 DEF TakenIn, SameTree
  <2>5. \A f \in TreeEdges(t) : d[f] \in Nat /\ b[f] = d[f] + Ifs(f = e)
    <3>1. ASSUME NEW f \in TreeEdges(t)
          PROVE  d[f] = CountUpto(path, k, f) /\ b[f] = CountUpto(path, k + 1, f)
      BY DEF CountsUpto
    <3>2. \A f : CountUpto(path, k, f) \in Nat
                /\ CountUpto(path, k + 1, f) = CountUpto(path, k, f) + Ifs(f = e)
      BY CountsGrow
    <3>. HIDE DEF d, b, e
    <3>. QED
      BY <3>1, <3>2
  <2>. HIDE DEF w, u, e, d, b
  <2>6. TreeOK(u, h) /\ SameTree(w, u) /\ FlowOK(u, total) /\ Paid(w, u, OneVisit(w, e))
    BY <2>2, <2>3, <2>4, CreditEdgeKeeps
  <2>7. SameTree(t, u)
    BY <2>2, <2>6 DEF SameTree
  <2>8. ASSUME NEW m \in 1 .. Len(t), NEW j \in 1 .. Len(t[m].kids)
        PROVE  /\ u[m].kids[j].visits = t[m].kids[j].visits + b[<<m, j>>]
               /\ u[m].kids[j].loss = t[m].kids[j].loss - b[<<m, j>>]
    <3>1. <<m, j>> \in TreeEdges(t) /\ <<m, j>> \in TreeEdges(w)
      BY <2>2, EdgesAre, SameEdges
    <3>2. /\ w[m].kids[j].visits = t[m].kids[j].visits + d[<<m, j>>]
          /\ w[m].kids[j].loss = t[m].kids[j].loss - d[<<m, j>>]
      BY <2>2 DEF Paid
    <3>3. /\ u[m].kids[j].visits = w[m].kids[j].visits + OneVisit(w, e)[<<m, j>>]
          /\ u[m].kids[j].loss = w[m].kids[j].loss - OneVisit(w, e)[<<m, j>>]
      BY <2>2, <2>6 DEF Paid, SameTree
    <3>4. OneVisit(w, e)[<<m, j>>] = Ifs(<<m, j>> = e)
      BY <3>1 DEF OneVisit
    <3>5. b[<<m, j>>] = d[<<m, j>>] + Ifs(<<m, j>> = e) /\ d[<<m, j>>] \in Nat
      BY <2>5, <3>1
    <3>6. t[m].kids[j].visits \in Nat /\ t[m].kids[j].loss \in Int
      BY NodeAt DEF TreeOK
    <3>7. Ifs(<<m, j>> = e) \in {0, 1}
      BY DEF Ifs
    <3>. DEFINE q == Ifs(<<m, j>> = e)
                x == t[m].kids[j].visits
                y == t[m].kids[j].loss
                z == d[<<m, j>>]
    <3>8. /\ u[m].kids[j].visits = (x + z) + q /\ u[m].kids[j].loss = (y - z) - q
          /\ b[<<m, j>>] = z + q /\ x \in Nat /\ y \in Int /\ z \in Nat /\ q \in {0, 1}
      BY <3>2, <3>3, <3>4, <3>5, <3>6, <3>7
    <3>. HIDE DEF q, x, y, z
    <3>9. u[m].kids[j].visits = x + b[<<m, j>>] /\ u[m].kids[j].loss = y - b[<<m, j>>]
      BY <3>8
    <3>. QED
      BY <3>9 DEF x, y
  <2>9. Paid(t, u, b)
    BY <2>8 DEF Paid
  <2>. QED
    BY <2>6, <2>7, <2>9 DEF u, b
<1>5. P(Len(path))
  <2>. HIDE DEF S, P
  <2>1. Nat \subseteq S
    BY <1>3, <1>4, IndSet
  <2>2. Len(path) \in S
    BY <2>1
  <2>. QED
    BY <2>2 DEF S
<1>6. CountsUpto(t, path, Len(path)) = Counts(t, path)
  BY DEF CountsUpto, Counts, CountUpto, CountOf
<1>. QED
  BY <1>1, <1>5, <1>6

\* A simulation more: the root is visited.
LEMMA RootVisited ==
  ASSUME NEW t, NEW h, TreeOK(t, h), NEW v \in 0 .. 2, NEW total \in Nat, FlowOK(t, total)
  PROVE  LET u == Visit(t, Root, v) IN
         /\ TreeOK(u, h) /\ SameTree(t, u) /\ FlowOK(u, total + 1)
         /\ \A m \in 1 .. Len(t) : u[m].kids = t[m].kids
<1>. DEFINE u == Visit(t, Root, v)
<1>1. Root \in 1 .. Len(t) /\ Len(t) \in Nat
  BY TreeSizes DEF Root
<1>2. /\ TreeOK(u, h) /\ SameTree(t, u) /\ \A m \in 1 .. Len(t) : u[m].kids = t[m].kids
      /\ \A m \in 1 .. Len(t) : u[m].visits = t[m].visits + Ifs(m = Root)
  BY <1>1, VisitKeeps
<1>. HIDE DEF u
<1>3. ASSUME NEW n \in 1 .. Len(u)
      PROVE  u[n].visits = Total(VisitsOf(u), InEdges(u, n)) + IF n = Root THEN total + 1 ELSE 0
  <2>1. InEdges(u, n) = InEdges(t, n) /\ TreeEdges(u) = TreeEdges(t) /\ n \in 1 .. Len(t)
    BY <1>2, SameEdges DEF SameTree
  <2>2. \A e \in InEdges(t, n) : VisitsOf(u)[e] = VisitsOf(t)[e]
    <3>1. ASSUME NEW e \in InEdges(t, n) PROVE VisitsOf(u)[e] = VisitsOf(t)[e]
      <4>1. e \in TreeEdges(t) /\ e[1] \in 1 .. Len(t)
        BY InEdgesAre, EdgesAre
      <4>. QED
        BY <1>2, <2>1, <4>1, InEdgesAre
    <3>. QED
      BY <3>1
  <2>3. IsFiniteSet(InEdges(t, n)) /\ \A e \in InEdges(t, n) : VisitsOf(t)[e] \in Int
    BY InEdgesAre
  <2>4. Total(VisitsOf(u), InEdges(t, n)) = Total(VisitsOf(t), InEdges(t, n))
        /\ Total(VisitsOf(t), InEdges(t, n)) \in Int
    BY <2>2, <2>3, TotalAgrees, TotalSplits
  <2>5. /\ t[n].visits = Total(VisitsOf(t), InEdges(t, n)) + IF n = Root THEN total ELSE 0
        /\ u[n].visits = t[n].visits + Ifs(n = Root)
    BY <1>2, <2>1 DEF FlowOK
  <2>. QED
    BY <2>1, <2>4, <2>5 DEF Ifs
<1>4. FlowOK(u, total + 1)
  BY <1>3 DEF FlowOK
<1>. QED
  BY <1>2, <1>4 DEF u

-----------------------------------------------------------------------------
(***************************************************************************)
(* Lines and lanes.                                                        *)
(***************************************************************************)
Own(line, h) ==
    LET same == (Len(line) - Len(h)) % 2 = 0
    IN  CASE Verdict(line) = "draw" -> 1
          [] Verdict(line) = "won" -> IF same THEN 2 ELSE 0
          [] OTHER -> IF same THEN 0 ELSE 2

\* The line of a lane goes on from the history, from positions with a move,
\* past none where the game was over - but, for a lane, where positions repeat.
LineOK(line, h, nn) ==
    /\ Len(line) >= Len(h)
    /\ \A i \in 1 .. Len(line) - 1 : Successors[line[i]] # <<>>
    /\ Side[line[Len(line)]] = Side[Last(h)] <=> (Len(line) - Len(h)) % 2 = 0
    /\ \A last \in Len(h) .. Len(line) - 1 :
          Finished(SubSeq(line, 1, last)) => nn /\ Repeated(SubSeq(line, 1, last))

LaneSet == [line : Seq(Positions), node : Nat, path : Seq(Nat \X Nat), value : 0 .. 2,
            terminal : BOOLEAN]
PathOK(t, path) ==
    /\ \A j \in 1 .. Len(path) : TakenIn(t, path[j])
    /\ path # <<>> => path[1][1] = Root
DecidedOK(lane, h, nn) ==
    lane.terminal /\ Finished(lane.line) =>
        lane.value = Own(lane.line, h) \/ (nn /\ Repeated(lane.line))
LaneOK(t, lane, h, nn) ==
    /\ lane \in LaneSet
    /\ LineOK(lane.line, h, nn) /\ PathOK(t, lane.path) /\ DecidedOK(lane, h, nn)
\* A lane on its way down.
Going(t, lane) ==
    /\ lane.node \in 1 .. Len(t) /\ t[lane.node].pos = lane.line[Len(lane.line)]
    /\ ~lane.terminal /\ (lane.path = <<>> => lane.node = Root)
Fresh(h) == [line |-> h, node |-> Root, path |-> <<>>, value |-> 1, terminal |-> FALSE]

LEMMA LaneParts ==
  ASSUME NEW lane \in LaneSet
  PROVE  /\ lane.line \in Seq(Positions) /\ Len(lane.line) \in Nat
         /\ lane.path \in Seq(Nat \X Nat) /\ Len(lane.path) \in Nat
         /\ DOMAIN lane.path = 1 .. Len(lane.path)
         /\ lane.value \in 0 .. 2 /\ lane.terminal \in BOOLEAN /\ lane.node \in Nat
<1>1. /\ lane.line \in Seq(Positions) /\ lane.path \in Seq(Nat \X Nat)
      /\ lane.value \in 0 .. 2 /\ lane.terminal \in BOOLEAN /\ lane.node \in Nat
  BY DEF LaneSet
<1>. DEFINE p == lane.path
<1>2. DOMAIN p = 1 .. Len(p) /\ Len(p) \in Nat
  <2>1. p \in Seq(Nat \X Nat)
    BY <1>1
  <2>. HIDE DEF p
  <2>. QED
    BY <2>1
<1>. QED
  BY <1>1, <1>2

LEMMA HistoryIs ==
  ASSUME NEW h \in Histories
  PROVE  /\ h \in Seq(Positions) /\ Len(h) \in Nat /\ Len(h) >= 1 /\ Last(h) = h[Len(h)]
         /\ Last(h) \in Positions
         /\ \A i \in 1 .. Len(h) - 1 : Successors[h[i]] # <<>>
<1>1. h \in Seq(Positions) /\ h # <<>>
  BY MctsAssumption DEF MctsAssumption
<1>2. Len(h) \in Nat /\ Len(h) >= 1
  BY <1>1
<1>3. Last(h) = h[Len(h)]
  BY DEF Last
<1>4. \A i \in 1 .. Len(h) - 1 : Successors[h[i]] # <<>>
  BY TurnAssumption DEF TurnAssumption
<1>. QED
  BY <1>1, <1>2, <1>3, <1>4

LEMMA OwnIs ==
  ASSUME NEW line, NEW h
  PROVE  Own(line, h) \in 0 .. 2
<1>. DEFINE s == (Len(line) - Len(h)) % 2 = 0
            d == Verdict(line)
<1>1. Own(line, h) = CASE d = "draw" -> 1 [] d = "won" -> IF s THEN 2 ELSE 0
                       [] OTHER -> IF s THEN 0 ELSE 2
  BY DEF Own
<1>. HIDE DEF s, d
<1>. QED
  BY <1>1

\* A mate was never met before: it is worth its own value.
LEMMA MateLine ==
  ASSUME NEW h \in Histories, NEW nn, NEW line \in Seq(Positions), LineOK(line, h, nn),
         Successors[line[Len(line)]] = <<>>
  PROVE  ~Repeated(line) /\ Own(line, h) = MateValue(line[Len(line)], h)
<1>. DEFINE n == Len(line)
            M == Meetings(line)
<1>1. n \in Nat /\ n >= 1 /\ DOMAIN line = 1 .. n
  BY HistoryIs DEF LineOK
<1>2. M = {n}
  <2>1. \A i \in 1 .. n - 1 : line[i] # line[n]
    BY DEF LineOK
  <2>2. n \in M
    BY <1>1 DEF Meetings
  <2>3. ASSUME NEW i \in M PROVE i = n
    <3>1. i \in 1 .. n /\ line[i] = line[n]
      BY <1>1 DEF Meetings
    <3>2. i \in 1 .. n - 1 \/ i = n
      <4>1. i \in 1 .. n
        BY <3>1
      <4>. HIDE DEF n, M
      <4>. QED
        BY <1>1, <4>1
    <3>. QED
      BY <2>1, <3>1, <3>2
  <2>. QED
    BY <2>2, <2>3
<1>3. Cardinality(M) = 1
  BY <1>2, FS_Singleton
<1>4. ~Repeated(line)
  BY <1>3, GameAssumption DEF Repeated, GameAssumption
<1>5. Verdict(line) = "lost"
  BY <1>4 DEF Verdict
<1>. DEFINE s == (Len(line) - Len(h)) % 2 = 0
<1>6. Own(line, h) = IF s THEN 0 ELSE 2
  <2>1. Own(line, h) = CASE Verdict(line) = "draw" -> 1 [] Verdict(line) = "won" -> IF s THEN 2 ELSE 0
                       [] OTHER -> IF s THEN 0 ELSE 2
    BY DEF Own
  <2>. HIDE DEF s
  <2>. QED
    BY <1>5, <2>1
<1>7. Side[line[Len(line)]] = Side[Last(h)] <=> s
  BY DEF LineOK
<1>. QED
  BY <1>4, <1>6, <1>7 DEF MateValue

\* A line goes on with a move.
LEMMA LineGoes ==
  ASSUME NEW h \in Histories, NEW nn, NEW line \in Seq(Positions), LineOK(line, h, nn),
         Finished(line) => nn /\ Repeated(line),
         NEW i \in 1 .. Len(Successors[line[Len(line)]])
  PROVE  LET l == Append(line, Successors[line[Len(line)]][i]) IN
         l \in Seq(Positions) /\ LineOK(l, h, nn) /\ l[Len(l)] = Successors[line[Len(line)]][i]
<1>. DEFINE n == Len(line)
            q == line[n]
            p == Successors[q][i]
            l == Append(line, p)
<1>1. /\ n \in Nat /\ n >= 1 /\ Len(h) \in Nat /\ Len(h) <= n /\ q \in Positions
      /\ Last(h) \in Positions /\ Len(h) >= 1
  <2>1. /\ n \in Nat /\ n >= 1 /\ Len(h) \in Nat /\ Len(h) <= n /\ Last(h) \in Positions /\ Len(h) >= 1
    BY HistoryIs DEF LineOK
  <2>2. n \in 1 .. n
    BY <2>1
  <2>. QED
    BY <2>1, <2>2
<1>2. p \in Positions /\ Side[p] = 1 - Side[q] /\ Successors[q] # <<>>
  <2>1. Successors[q] \in Seq(Positions) /\ Len(Successors[q]) \in Nat
    BY <1>1, Turns
  <2>. QED
    BY <1>1, <2>1, Turns
<1>. HIDE DEF p, q
<1>3. l \in Seq(Positions) /\ Len(l) = n + 1 /\ l[n + 1] = p /\ \A j \in 1 .. n : l[j] = line[j]
  BY <1>1, <1>2
<1>4. \A j \in 1 .. Len(l) - 1 : Successors[l[j]] # <<>>
  <2>1. \A j \in 1 .. n : j \in 1 .. n - 1 \/ j = n
    BY <1>1
  <2>2. \A j \in 1 .. n - 1 : Successors[line[j]] # <<>>
    BY DEF LineOK
  <2>3. Successors[line[n]] # <<>>
    BY <1>2 DEF q
  <2>. HIDE DEF l
  <2>. QED
    BY <1>1, <1>3, <2>1, <2>2, <2>3
<1>5. Side[l[Len(l)]] = Side[Last(h)] <=> (Len(l) - Len(h)) % 2 = 0
  <2>. DEFINE m == n - Len(h)
              a == Side[q]
              b == Side[Last(h)]
  <2>1. a = b <=> m % 2 = 0
    BY DEF LineOK, q
  <2>2. a \in 0 .. 1 /\ b \in 0 .. 1 /\ m \in Nat
    BY <1>1, Turns
  <2>3. Len(l) - Len(h) = m + 1
    BY <1>1, <1>3
  <2>4. Side[l[Len(l)]] = 1 - a
    BY <1>2, <1>3
  <2>. HIDE DEF l, m, a, b
  <2>5. (m + 1) % 2 = 0 <=> m % 2 # 0
    BY <2>2
  <2>. QED
    BY <2>1, <2>2, <2>3, <2>4, <2>5 DEF b
<1>6. ASSUME NEW last \in Len(h) .. Len(l) - 1
      PROVE  Finished(SubSeq(l, 1, last)) => nn /\ Repeated(SubSeq(l, 1, last))
  <2>0. last \in Nat /\ last >= 1 /\ last <= n
    BY <1>1, <1>3
  <2>1. SubSeq(l, 1, last) = SubSeq(line, 1, last)
    BY <1>1, <1>3, <2>0
  <2>2. CASE last = n
    <3>1. SubSeq(line, 1, last) = line
      BY <1>1, <2>2
    <3>. QED
      BY <2>1, <3>1
  <2>3. CASE last # n
    <3>1. last \in Len(h) .. Len(line) - 1
      BY <1>1, <2>0, <2>3
    <3>. QED
      BY <2>1, <3>1 DEF LineOK
  <2>. QED
    BY <2>2, <2>3
<1>7. LineOK(l, h, nn)
  <2>1. Len(l) >= Len(h)
    BY <1>1, <1>3
  <2>. HIDE DEF l
  <2>. QED
    BY <1>4, <1>5, <1>6, <2>1 DEF LineOK
<1>. QED
  BY <1>3, <1>7 DEF p, q

LEMMA PathStays ==
  ASSUME NEW t, NEW u, NEW h, TreeOK(t, h), TreeOK(u, h), Grows(t, u), NEW path, PathOK(t, path)
  PROVE  PathOK(u, path)
<1>1. ASSUME NEW j \in 1 .. Len(path) PROVE TakenIn(u, path[j])
  <2>. DEFINE e == path[j]
  <2>1. TakenIn(t, e)
    BY DEF PathOK
  <2>. HIDE DEF e
  <2>2. e = <<e[1], e[2]>> /\ e[1] \in 1 .. Len(t) /\ e[2] \in 1 .. Len(t[e[1]].kids) /\ e[2] <= t[e[1]].next
    BY <2>1, EdgesAre DEF TakenIn
  <2>3. /\ Len(t) \in Nat /\ Len(u) \in Nat /\ t[e[1]].next \in Nat /\ Len(t) <= Len(u)
        /\ t[e[1]].next <= u[e[1]].next
    BY <2>2, TreeSizes DEF Grows
  <2>4. e[1] \in 1 .. Len(u)
    BY <2>2, <2>3
  <2>5. u[e[1]].next \in Nat /\ u[e[1]].next <= Len(u[e[1]].kids) /\ Len(u[e[1]].kids) \in Nat
    BY <2>4, TreeSizes
  <2>6. Len(t[e[1]].kids) \in Nat
    BY <2>2, TreeSizes
  <2>7. e[2] \in 1 .. Len(u[e[1]].kids) /\ e[2] <= u[e[1]].next
    BY <2>2, <2>3, <2>5, <2>6
  <2>8. e \in TreeEdges(u)
    BY <2>2, <2>4, <2>7, EdgesAre
  <2>9. TakenIn(u, e)
    BY <2>7, <2>8 DEF TakenIn
  <2>. QED
    BY <2>9 DEF e
<1>. QED
  BY <1>1 DEF PathOK

LEMMA FreshIs ==
  ASSUME NEW h \in Histories, NEW nn, NEW t, TreeOK(t, h)
  PROVE  LaneOK(t, Fresh(h), h, nn) /\ Going(t, Fresh(h))
<1>. DEFINE f == Fresh(h)
<1>1. /\ h \in Seq(Positions) /\ Len(h) \in Nat /\ Len(h) >= 1 /\ Last(h) = h[Len(h)]
      /\ \A i \in 1 .. Len(h) - 1 : Successors[h[i]] # <<>>
  BY HistoryIs
<1>2. /\ f.line = h /\ f.node = Root /\ f.path = <<>> /\ f.value = 1 /\ ~f.terminal
      /\ f.terminal = FALSE
  BY DEF Fresh
<1>3. f \in LaneSet
  BY <1>1 DEF Fresh, LaneSet, Root
<1>. HIDE DEF f
<1>4. LineOK(h, h, nn)
  <2>1. (Len(h) - Len(h)) % 2 = 0
    BY <1>1
  <2>2. \A last \in Len(h) .. Len(h) - 1 : FALSE
    BY <1>1
  <2>3. Len(h) >= Len(h)
    BY <1>1
  <2>. QED
    BY <1>1, <2>1, <2>2, <2>3 DEF LineOK
<1>5. PathOK(t, <<>>)
  BY DEF PathOK
<1>6. DecidedOK(f, h, nn)
  BY <1>2 DEF DecidedOK
<1>7. Root \in 1 .. Len(t) /\ t[Root].pos = h[Len(h)]
  BY <1>1, TreeSizes DEF TreeOK, RootOK, Root
<1>. QED
  BY <1>2, <1>3, <1>4, <1>5, <1>6, <1>7 DEF LaneOK, Going, f

-----------------------------------------------------------------------------
(***************************************************************************)
(* Virtual losses.                                                         *)
(***************************************************************************)
LanesOK(t, L, h, nn) ==
    L \in Seq(LaneSet) /\ \A k \in 1 .. Len(L) : LaneOK(t, L[k], h, nn)
TakenBy(L, e) == [k \in DOMAIN L |-> CountOf(L[k].path, e)]
LossOK(t, L) ==
    \A n \in 1 .. Len(t) : \A i \in 1 .. Len(t[n].kids) :
        t[n].kids[i].loss = Total(TakenBy(L, <<n, i>>), DOMAIN L)

LEMMA LanesAre ==
  ASSUME NEW t, NEW h, NEW nn, NEW L, LanesOK(t, L, h, nn)
  PROVE  /\ Len(L) \in Nat /\ DOMAIN L = 1 .. Len(L) /\ IsFiniteSet(DOMAIN L)
         /\ \A k \in DOMAIN L :
               /\ LaneOK(t, L[k], h, nn) /\ L[k] \in LaneSet
               /\ Len(L[k].path) \in Nat /\ DOMAIN L[k].path = 1 .. Len(L[k].path)
<1>1. L \in Seq(LaneSet) /\ \A k \in 1 .. Len(L) : LaneOK(t, L[k], h, nn)
  BY DEF LanesOK
<1>2. Len(L) \in Nat /\ DOMAIN L = 1 .. Len(L)
  BY <1>1
<1>3. IsFiniteSet(1 .. Len(L))
  BY <1>2, FS_Interval
<1>4. \A k \in DOMAIN L : /\ LaneOK(t, L[k], h, nn) /\ L[k] \in LaneSet
                          /\ Len(L[k].path) \in Nat /\ DOMAIN L[k].path = 1 .. Len(L[k].path)
  BY <1>1, <1>2, LaneParts
<1>. QED
  BY <1>2, <1>3, <1>4

\* A count is a number; it is 0 off the path, and grows with the path.
LEMMA CountIs ==
  ASSUME NEW path, Len(path) \in Nat, DOMAIN path = 1 .. Len(path)
  PROVE  \A e : /\ CountOf(path, e) \in Nat
                /\ (\A j \in 1 .. Len(path) : path[j] # e) => CountOf(path, e) = 0
                /\ (\E j \in 1 .. Len(path) : path[j] = e) => CountOf(path, e) >= 1
<1>1. ASSUME NEW e
      PROVE  /\ CountOf(path, e) \in Nat
             /\ (\A j \in 1 .. Len(path) : path[j] # e) => CountOf(path, e) = 0
             /\ (\E j \in 1 .. Len(path) : path[j] = e) => CountOf(path, e) >= 1
  <2>. DEFINE S == {j \in DOMAIN path : path[j] = e}
  <2>1. IsFiniteSet(S)
    <3>1. IsFiniteSet(1 .. Len(path))
      BY FS_Interval
    <3>. QED
      BY <3>1, FS_Subset
  <2>2. /\ (\A j \in 1 .. Len(path) : path[j] # e) => S = {}
        /\ (\E j \in 1 .. Len(path) : path[j] = e) => S # {}
    OBVIOUS
  <2>. HIDE DEF S
  <2>3. Cardinality(S) \in Nat /\ (Cardinality(S) = 0 <=> S = {})
    BY <2>1, FS_CardinalityType, FS_EmptySet
  <2>4. CountOf(path, e) = Cardinality(S)
    BY DEF CountOf, S
  <2>. QED
    BY <2>2, <2>3, <2>4
<1>. QED
  BY <1>1

LEMMA CountAppends ==
  ASSUME NEW path \in Seq(Nat \X Nat), NEW x \in Nat \X Nat
  PROVE  \A e : CountOf(Append(path, x), e) = CountOf(path, e) + Ifs(e = x)
<1>1. ASSUME NEW e PROVE CountOf(Append(path, x), e) = CountOf(path, e) + Ifs(e = x)
  <2>. DEFINE p == Append(path, x)
              k == Len(path)
  <2>1. /\ k \in Nat /\ DOMAIN path = 1 .. k /\ DOMAIN p = 1 .. k + 1 /\ p[k + 1] = x
        /\ \A j \in 1 .. k : p[j] = path[j]
    OBVIOUS
  <2>. HIDE DEF p, k
  <2>2. {j \in 1 .. k : p[j] = e} = {j \in 1 .. k : path[j] = e}
    BY <2>1
  <2>3. CountOf(path, e) = CountUpto(p, k, e)
    BY <2>1, <2>2 DEF CountOf, CountUpto
  <2>4. CountOf(p, e) = CountUpto(p, k + 1, e)
    BY <2>1 DEF CountOf, CountUpto
  <2>5. CountUpto(p, k + 1, e) = CountUpto(p, k, e) + Ifs(e = p[k + 1])
    <3>1. k \in Nat
      BY <2>1
    <3>2. \A y : /\ CountUpto(p, k, y) \in Nat
                 /\ CountUpto(p, k + 1, y) = CountUpto(p, k, y) + Ifs(y = p[k + 1])
      BY <3>1, CountsGrow
    <3>. QED
      BY <3>2
  <2>. QED
    BY <2>1, <2>3, <2>4, <2>5 DEF p
<1>. QED
  BY <1>1

LEMMA TakenByIs ==
  ASSUME NEW t, NEW h, NEW nn, NEW L, LanesOK(t, L, h, nn), NEW e
  PROVE  /\ \A k \in DOMAIN L : TakenBy(L, e)[k] = CountOf(L[k].path, e) /\ TakenBy(L, e)[k] \in Nat
         /\ Total(TakenBy(L, e), DOMAIN L) \in Int
<1>1. \A k \in DOMAIN L : TakenBy(L, e)[k] = CountOf(L[k].path, e)
  BY DEF TakenBy
<1>2. \A k \in DOMAIN L : CountOf(L[k].path, e) \in Nat
  BY LanesAre, CountIs
<1>3. IsFiniteSet(DOMAIN L) /\ \A k \in DOMAIN L : TakenBy(L, e)[k] \in Int
  BY <1>1, <1>2, LanesAre
<1>. QED
  BY <1>1, <1>2, <1>3, TotalSplits

\* New children were taken by no lane, and the paths stay.
LEMMA LossStays ==
  ASSUME NEW t, NEW u, NEW h, NEW nn, TreeOK(t, h), TreeOK(u, h), Light(t, u),
         NEW L, LanesOK(t, L, h, nn), LossOK(t, L),
         NEW M, DOMAIN M = DOMAIN L, \A k \in DOMAIN L : M[k].path = L[k].path
  PROVE  LossOK(u, M)
<1>0. /\ Len(t) \in Nat /\ Len(u) \in Nat
      /\ \A n \in 1 .. Len(t) : Len(t[n].kids) \in Nat
      /\ \A n \in 1 .. Len(u) : Len(u[n].kids) \in Nat
  BY TreeSizes
<1>1. ASSUME NEW n \in 1 .. Len(u), NEW i \in 1 .. Len(u[n].kids)
      PROVE  u[n].kids[i].loss = Total(TakenBy(M, <<n, i>>), DOMAIN M)
  <2>. DEFINE e == <<n, i>>
              f == TakenBy(L, e)
              g == TakenBy(M, e)
  <2>1. \A k \in DOMAIN L : f[k] = g[k]
    BY DEF TakenBy
  <2>2. IsFiniteSet(DOMAIN L) /\ \A k \in DOMAIN L : f[k] = CountOf(L[k].path, e)
    BY LanesAre, TakenByIs
  <2>3. Total(f, DOMAIN L) = Total(g, DOMAIN L)
    <3>. HIDE DEF f, g
    <3>. QED
      BY <2>1, <2>2, TotalAgrees
  <2>4. CASE n <= Len(t) /\ i <= Len(t[n].kids)
    <3>1. n \in 1 .. Len(t) /\ i \in 1 .. Len(t[n].kids)
      BY <1>0, <2>4
    <3>2. u[n].kids[i].loss = t[n].kids[i].loss
      BY <2>4 DEF Light
    <3>3. t[n].kids[i].loss = Total(f, DOMAIN L)
      BY <3>1 DEF LossOK
    <3>. QED
      BY <2>3, <3>2, <3>3
  <2>5. CASE ~(n <= Len(t) /\ i <= Len(t[n].kids))
    <3>1. u[n].kids[i].loss = 0
      BY <2>5 DEF Light
    <3>2. e \notin TreeEdges(t)
      <4>1. SUFFICES ASSUME e \in TreeEdges(t) PROVE FALSE
        OBVIOUS
      <4>2. e[1] \in 1 .. Len(t) /\ e[2] \in 1 .. Len(t[e[1]].kids)
        BY <4>1, EdgesAre
      <4>3. n \in 1 .. Len(t) /\ i \in 1 .. Len(t[n].kids)
        BY <4>2
      <4>. QED
        BY <1>0, <2>5, <4>3
    <3>3. ASSUME NEW k \in DOMAIN L PROVE f[k] = 0
      <4>1. /\ Len(L[k].path) \in Nat /\ DOMAIN L[k].path = 1 .. Len(L[k].path)
            /\ \A j \in 1 .. Len(L[k].path) : L[k].path[j] \in TreeEdges(t)
        BY LanesAre DEF LaneOK, PathOK, TakenIn
      <4>2. \A j \in 1 .. Len(L[k].path) : L[k].path[j] # e
        BY <3>2, <4>1
      <4>3. CountOf(L[k].path, e) = 0
        <5>. HIDE DEF e
        <5>. QED
          BY <4>1, <4>2, CountIs
      <4>. QED
        BY <2>2, <4>3
    <3>4. Total(f, DOMAIN L) = 0
      <4>. HIDE DEF f
      <4>. QED
        BY <2>2, <3>3, TotalOfZeros
    <3>. QED
      BY <2>3, <3>1, <3>4
  <2>. QED
    BY <2>4, <2>5
<1>. QED
  BY <1>1 DEF LossOK

\* One lane takes an edge, whose loss is raised.
Takes(L, M, a, n, i) ==
    /\ DOMAIN M = DOMAIN L /\ M[a].path = Append(L[a].path, <<n, i>>)
    /\ \A k \in DOMAIN L : k # a => M[k] = L[k]

LEMMA LossTaken ==
  ASSUME NEW t, NEW u, NEW h, NEW nn, TreeOK(t, h),
         NEW n \in 1 .. Len(t), NEW i \in 1 .. Len(t[n].kids), LossRaised(t, u, n, i),
         NEW L, LanesOK(t, L, h, nn), LossOK(t, L), NEW a \in DOMAIN L,
         NEW M, Takes(L, M, a, n, i)
  PROVE  LossOK(u, M)
<1>0. /\ DOMAIN M = DOMAIN L /\ M[a].path = Append(L[a].path, <<n, i>>)
      /\ \A k \in DOMAIN L : k # a => M[k] = L[k]
  BY DEF Takes
<1>1. ASSUME NEW m \in 1 .. Len(t), NEW j \in 1 .. Len(t[m].kids)
      PROVE  u[m].kids[j].loss = Total(TakenBy(M, <<m, j>>), DOMAIN M)
  <2>. DEFINE e == <<m, j>>
              f == TakenBy(L, e)
              g == TakenBy(M, e)
              d == Ifs(e = <<n, i>>)
  <2>1. IsFiniteSet(DOMAIN L) /\ \A k \in DOMAIN L : f[k] = CountOf(L[k].path, e) /\ f[k] \in Int
    BY LanesAre, TakenByIs
  <2>2. \A k \in DOMAIN L : g[k] = CountOf(M[k].path, e)
    BY <1>0 DEF TakenBy
  <2>3. g[a] = f[a] + d
    <3>1. L[a].path \in Seq(Nat \X Nat)
      BY LanesAre, LaneParts
    <3>2. <<n, i>> \in Nat \X Nat
      OBVIOUS
    <3>3. CountOf(Append(L[a].path, <<n, i>>), e) = CountOf(L[a].path, e) + d
      <4>. DEFINE x == <<n, i>>
                  q == L[a].path
      <4>1. x \in Nat \X Nat /\ q \in Seq(Nat \X Nat)
        BY <3>1, <3>2
      <4>. HIDE DEF x, q
      <4>2. \A y : CountOf(Append(q, x), y) = CountOf(q, y) + Ifs(y = x)
        BY <4>1, CountAppends
      <4>. QED
        BY <4>2 DEF x, q
    <3>. QED
      BY <1>0, <2>1, <2>2, <3>3
  <2>4. \A k \in DOMAIN L : k # a => g[k] = f[k]
    BY <1>0, <2>1, <2>2
  <2>5. d \in Int /\ Total(f, DOMAIN L) \in Int
    BY TakenByIs DEF Ifs
  <2>6. d = IF m = n /\ j = i THEN 1 ELSE 0
    BY DEF Ifs
  <2>7. t[m].kids[j].loss = Total(f, DOMAIN L)
    BY DEF LossOK
  <2>8. u[m].kids[j].loss = t[m].kids[j].loss + IF m = n /\ j = i THEN 1 ELSE 0
    BY DEF LossRaised
  <2>. HIDE DEF e, f, g, d
  <2>11. IsFiniteSet(DOMAIN L) /\ d \in Int /\ g[a] = f[a] + d /\ (\A k \in DOMAIN L : f[k] \in Int)
         /\ \A k \in DOMAIN L : k # a => g[k] = f[k]
    BY <2>1, <2>3, <2>4, <2>5
  <2>9. Total(g, DOMAIN L) = Total(f, DOMAIN L) + d
    BY <2>11, TotalChanges
  <2>10. u[m].kids[j].loss = Total(g, DOMAIN M)
    BY <1>0, <2>6, <2>7, <2>8, <2>9
  <2>. QED
    BY <2>10 DEF g, e
<1>. QED
  BY <1>1 DEF LossOK, LossRaised

\* The lane is done: its losses are lifted, its path is forgotten.
LEMMA LossLifted ==
  ASSUME NEW t, NEW u, NEW h, NEW nn, TreeOK(t, h), SameTree(t, u),
         NEW L, LanesOK(t, L, h, nn), LossOK(t, L), NEW a \in DOMAIN L,
         Paid(t, u, Counts(t, L[a].path)),
         NEW M, DOMAIN M = DOMAIN L, \A k \in DOMAIN L : k # a => M[k] = L[k], M[a].path = <<>>
  PROVE  LossOK(u, M)
<1>1. ASSUME NEW m \in 1 .. Len(t), NEW j \in 1 .. Len(t[m].kids)
      PROVE  u[m].kids[j].loss = Total(TakenBy(M, <<m, j>>), DOMAIN M)
  <2>. DEFINE e == <<m, j>>
              f == TakenBy(L, e)
              g == TakenBy(M, e)
              d == CountOf(L[a].path, e)
  <2>1. IsFiniteSet(DOMAIN L) /\ \A k \in DOMAIN L : f[k] = CountOf(L[k].path, e) /\ f[k] \in Nat
    BY LanesAre, TakenByIs
  <2>2. \A k \in DOMAIN L : g[k] = CountOf(M[k].path, e)
    BY DEF TakenBy
  <2>3. g[a] = 0
    <3>1. Len(<<>>) \in Nat /\ DOMAIN <<>> = 1 .. Len(<<>>) /\ \A x \in 1 .. Len(<<>>) : FALSE
      OBVIOUS
    <3>2. CountOf(<<>>, e) = 0
      <4>. HIDE DEF e
      <4>. QED
        BY <3>1, CountIs
    <3>. QED
      BY <2>2, <3>2
  <2>4. f[a] = d /\ \A k \in DOMAIN L : k # a => g[k] = f[k]
    BY <2>1, <2>2
  <2>5. Total(f, DOMAIN L) \in Int /\ d \in Nat
    BY <2>1, TakenByIs
  <2>6. t[m].kids[j].loss = Total(f, DOMAIN L)
    BY DEF LossOK
  <2>7. u[m].kids[j].loss = t[m].kids[j].loss - d
    <3>1. e \in TreeEdges(t)
      BY EdgesAre
    <3>2. Counts(t, L[a].path)[e] = d
      BY <3>1 DEF Counts
    <3>. QED
      BY <3>2 DEF Paid
  <2>. HIDE DEF e, f, g, d
  <2>8. -d \in Int /\ g[a] = f[a] + (-d) /\ \A k \in DOMAIN L : f[k] \in Int
    BY <2>1, <2>3, <2>4, <2>5
  <2>9. Total(g, DOMAIN L) = Total(f, DOMAIN L) + (-d)
    BY <2>1, <2>4, <2>8, TotalChanges
  <2>10. u[m].kids[j].loss = Total(g, DOMAIN M)
    BY <2>5, <2>6, <2>7, <2>9
  <2>. QED
    BY <2>10 DEF g, e
<1>. QED
  BY <1>1 DEF LossOK, SameTree

\* Lanes that took nothing, be they many or none.
LEMMA LossOfIdle ==
  ASSUME NEW t, NEW L, IsFiniteSet(DOMAIN L), \A k \in DOMAIN L : L[k].path = <<>>,
         NEW M, IsFiniteSet(DOMAIN M), \A k \in DOMAIN M : M[k].path = <<>>, LossOK(t, L)
  PROVE  LossOK(t, M)
<1>1. Len(<<>>) \in Nat /\ DOMAIN <<>> = 1 .. Len(<<>>) /\ \A x \in 1 .. Len(<<>>) : FALSE
  OBVIOUS
<1>2. \A e : CountOf(<<>>, e) = 0
  BY <1>1, CountIs
<1>3. ASSUME NEW e PROVE Total(TakenBy(L, e), DOMAIN L) = 0
  <2>1. \A k \in DOMAIN L : TakenBy(L, e)[k] = 0
    BY <1>2 DEF TakenBy
  <2>. QED
    BY <2>1, TotalOfZeros
<1>4. ASSUME NEW e PROVE Total(TakenBy(M, e), DOMAIN M) = 0
  <2>1. \A k \in DOMAIN M : TakenBy(M, e)[k] = 0
    BY <1>2 DEF TakenBy
  <2>. QED
    BY <2>1, TotalOfZeros
<1>. QED
  BY <1>3, <1>4 DEF LossOK

-----------------------------------------------------------------------------
(***************************************************************************)
(* The worker between two claims.                                          *)
(***************************************************************************)
PhaseOK(t, L, p, a, h) ==
    /\ p \in {"claim", "stopped", "descend", "score", "finish", "publish"}
    /\ p \in {"claim", "stopped"} => L = <<>>
    /\ p = "descend" => /\ a \in 1 .. Len(L) /\ Going(t, L[a])
                        /\ \A k \in 1 .. Len(L) : k > a => L[k] = Fresh(h)
    /\ p = "score" => 1 <= Len(L)
    /\ p = "finish" => /\ a \in 1 .. Len(L)
                       /\ \A k \in 1 .. Len(L) : k < a => L[k] = Fresh(h)
    /\ p = "publish" => \A k \in 1 .. Len(L) : L[k] = Fresh(h)

SettledIn(h, nn, t, L, p, a, total) ==
    /\ h \in Histories /\ nn \in BOOLEAN /\ total \in Nat
    /\ TreeOK(t, h) /\ FlowOK(t, total)
    /\ LanesOK(t, L, h, nn) /\ LossOK(t, L)
    /\ PhaseOK(t, L, p, a, h)

Finishes(L, p, a, q, b) ==
    IF a < Len(L) THEN b = a + 1 /\ q = p ELSE b = 1 /\ q \in {"score", "finish"}

\* A lane takes a step down, or reaches its leaf and the next lane begins.
LEMMA DownKeeps ==
  ASSUME NEW h, NEW nn, NEW t, NEW L, NEW a, NEW total, SettledIn(h, nn, t, L, "descend", a, total),
         NEW u, TreeOK(u, h), Grows(t, u), Still(t, u),
         NEW lane, LaneOK(u, lane, h, nn), LossOK(u, [L EXCEPT ![a] = lane]),
         NEW q, NEW b, (q = "descend" /\ b = a /\ Going(u, lane)) \/ Finishes(L, "descend", a, q, b)
  PROVE  SettledIn(h, nn, u, [L EXCEPT ![a] = lane], q, b, total)
<1>. DEFINE M == [L EXCEPT ![a] = lane]
<1>1. /\ h \in Histories /\ nn \in BOOLEAN /\ total \in Nat
      /\ TreeOK(t, h) /\ FlowOK(t, total) /\ LanesOK(t, L, h, nn)
      /\ a \in 1 .. Len(L) /\ \A k \in 1 .. Len(L) : k > a => L[k] = Fresh(h)
  BY DEF SettledIn, PhaseOK
<1>2. FlowOK(u, total)
  BY <1>1, FlowStays
<1>3. L \in Seq(LaneSet) /\ lane \in LaneSet /\ Len(L) \in Nat
  BY <1>1 DEF LanesOK, LaneOK
<1>4. /\ M \in Seq(LaneSet) /\ Len(M) = Len(L) /\ M[a] = lane
      /\ \A k \in 1 .. Len(L) : k # a => M[k] = L[k]
  BY <1>1, <1>3
<1>5. LossOK(u, M)
  OBVIOUS
<1>. HIDE DEF M
<1>6. ASSUME NEW k \in 1 .. Len(M) PROVE LaneOK(u, M[k], h, nn)
  <2>1. CASE k = a
    BY <1>4, <2>1
  <2>2. CASE k # a
    <3>1. M[k] = L[k] /\ LaneOK(t, L[k], h, nn)
      BY <1>1, <1>4, <2>2 DEF LanesOK
    <3>. QED
      BY <1>1, <3>1, PathStays DEF LaneOK
  <2>. QED
    BY <2>1, <2>2
<1>7. LanesOK(u, M, h, nn)
  BY <1>4, <1>6 DEF LanesOK
<1>8. PhaseOK(u, M, q, b, h)
  <2>1. CASE q = "descend" /\ b = a /\ Going(u, lane)
    <3>1. \A k \in 1 .. Len(M) : k > a => M[k] = Fresh(h)
      BY <1>1, <1>3, <1>4
    <3>. QED
      BY <1>1, <1>4, <2>1, <3>1 DEF PhaseOK
  <2>2. CASE Finishes(L, "descend", a, q, b) /\ a < Len(L)
    <3>1. q = "descend" /\ b = a + 1 /\ b \in 1 .. Len(M) /\ M[b] = Fresh(h)
      <4>1. q = "descend" /\ b = a + 1
        BY <2>2 DEF Finishes
      <4>2. b \in 1 .. Len(L) /\ b # a /\ b > a
        BY <1>1, <1>3, <2>2, <4>1
      <4>. QED
        BY <1>1, <1>4, <4>1, <4>2
    <3>2. Going(u, M[b])
      BY <1>1, <3>1, FreshIs
    <3>3. ASSUME NEW k \in 1 .. Len(M), k > b PROVE M[k] = Fresh(h)
      <4>1. k \in 1 .. Len(L) /\ k > a /\ k # a
        BY <1>1, <1>3, <1>4, <3>1, <3>3
      <4>. QED
        BY <1>1, <1>4, <4>1
    <3>. QED
      BY <3>1, <3>2, <3>3 DEF PhaseOK
  <2>3. CASE Finishes(L, "descend", a, q, b) /\ ~(a < Len(L))
    <3>1. b = 1 /\ q \in {"score", "finish"}
      BY <2>3 DEF Finishes
    <3>2. 1 <= Len(M) /\ 1 \in 1 .. Len(M) /\ \A k \in 1 .. Len(M) : ~(k < 1)
      BY <1>1, <1>3, <1>4
    <3>. QED
      BY <3>1, <3>2 DEF PhaseOK
  <2>. QED
    BY <2>1, <2>2, <2>3
<1>. QED
  BY <1>1, <1>2, <1>5, <1>7, <1>8 DEF SettledIn, M

\* The path of the lane stays as it was.
LEMMA WaitingLoss ==
  ASSUME NEW h, NEW nn, NEW t, NEW L, NEW a, NEW total, SettledIn(h, nn, t, L, "descend", a, total),
         NEW u, TreeOK(u, h), Light(t, u), NEW lane, lane.path = L[a].path
  PROVE  LossOK(u, [L EXCEPT ![a] = lane])
<1>. DEFINE M == [L EXCEPT ![a] = lane]
<1>1. TreeOK(t, h) /\ LanesOK(t, L, h, nn) /\ LossOK(t, L) /\ a \in DOMAIN L
  BY LanesAre DEF SettledIn, PhaseOK
<1>2. DOMAIN M = DOMAIN L /\ \A k \in DOMAIN L : M[k].path = L[k].path
  BY <1>1
<1>. HIDE DEF M
<1>3. LossOK(u, M)
  BY <1>1, <1>2, LossStays
<1>. QED
  BY <1>3 DEF M

\* The lane takes an edge of w, the tree after what had to be made first.
LEMMA TakingLoss ==
  ASSUME NEW h, NEW nn, NEW t, NEW L, NEW a, NEW total, SettledIn(h, nn, t, L, "descend", a, total),
         NEW w, TreeOK(w, h), Calm(t, w), NEW n \in 1 .. Len(w), NEW i \in 1 .. w[n].next,
         NEW lane, lane.path = Append(L[a].path, <<n, i>>)
  PROVE  LET u == RaiseLoss(w, n, i) IN
         TreeOK(u, h) /\ Grows(t, u) /\ Still(t, u) /\ LossOK(u, [L EXCEPT ![a] = lane])
<1>. DEFINE u == RaiseLoss(w, n, i)
            M == [L EXCEPT ![a] = lane]
<1>1. TreeOK(t, h) /\ LanesOK(t, L, h, nn) /\ LossOK(t, L) /\ a \in DOMAIN L
  BY LanesAre DEF SettledIn, PhaseOK
<1>2. TreeOK(u, h) /\ Grows(w, u) /\ Still(w, u) /\ LossRaised(w, u, n, i)
  BY RaiseLossKeeps
<1>3. LossOK(w, L)
  BY <1>1, LossStays DEF Calm
<1>4. LanesOK(w, L, h, nn)
  <2>1. \A k \in 1 .. Len(L) : LaneOK(w, L[k], h, nn)
    BY <1>1, PathStays DEF LanesOK, LaneOK, Calm
  <2>. QED
    BY <1>1, <2>1 DEF LanesOK
<1>5. i \in 1 .. Len(w[n].kids)
  BY TreeSizes
<1>6. Takes(L, M, a, n, i)
  BY <1>1 DEF Takes
<1>. HIDE DEF u, M
<1>7. LossOK(u, M)
  BY <1>1, <1>2, <1>3, <1>4, <1>5, <1>6, LossTaken
<1>8. Grows(t, u) /\ Still(t, u)
  BY <1>1, <1>2, Onwards DEF Calm
<1>. QED
  BY <1>2, <1>7, <1>8 DEF u, M

-----------------------------------------------------------------------------
(***************************************************************************)
(* The steps of a descent.                                                 *)
(***************************************************************************)
Total2 == done.counted + done.empty
DoneOK == done \in [counted : Nat, empty : Nat]
MInv == DoneOK /\ SettledIn(history, neural, tree, lanes, pc, at, Total2)

\* A lane is given a value, and may be closed.
Valued(lane, v) == [lane EXCEPT !.value = v]
Closed(lane, v) == [lane EXCEPT !.value = v, !.terminal = TRUE]
LEMMA ValueSet ==
  ASSUME NEW t, NEW h, NEW nn, NEW lane, LaneOK(t, lane, h, nn), NEW v \in 0 .. 2
  PROVE  /\ ~lane.terminal => /\ LaneOK(t, Valued(lane, v), h, nn)
                              /\ Valued(lane, v).path = lane.path
         /\ (Finished(lane.line) => v = Own(lane.line, h) \/ (nn /\ Repeated(lane.line))) =>
               /\ LaneOK(t, Closed(lane, v), h, nn)
               /\ Closed(lane, v).path = lane.path
<1>1. lane \in LaneSet /\ LineOK(lane.line, h, nn) /\ PathOK(t, lane.path)
  BY DEF LaneOK
<1>. DEFINE x == Valued(lane, v)
            y == Closed(lane, v)
<1>2. /\ x \in LaneSet /\ x.line = lane.line /\ x.path = lane.path /\ x.terminal = lane.terminal
      /\ y \in LaneSet /\ y.line = lane.line /\ y.path = lane.path /\ y.value = v
  BY <1>1 DEF LaneSet, Valued, Closed
<1>. HIDE DEF x, y
<1>3. ~lane.terminal => LaneOK(t, x, h, nn) /\ x.path = lane.path
  BY <1>1, <1>2 DEF LaneOK, DecidedOK
<1>4. (Finished(lane.line) => v = Own(lane.line, h) \/ (nn /\ Repeated(lane.line))) =>
         LaneOK(t, y, h, nn) /\ y.path = lane.path
  BY <1>1, <1>2 DEF LaneOK, DecidedOK
<1>. QED
  BY <1>3, <1>4 DEF x, y

LEMMA LeafIs ==
  ASSUME NEW u, NEW lane, LaneOK(u, lane, history, neural), ~lane.terminal, Leaf(lane, u)
  PROVE  \E l : /\ Descended(l, u) /\ l.path = lane.path /\ LaneOK(u, l, history, neural)
<1>1. CASE neural
  BY <1>1 DEF Leaf
<1>2. CASE ~neural
  <2>1. PICK v \in LeafValues : Descended(Valued(lane, v), u)
    BY <1>2 DEF Leaf, Valued
  <2>2. v \in 0 .. 2
    BY MctsAssumption DEF MctsAssumption
  <2>3. /\ LaneOK(u, Valued(lane, v), history, neural)
        /\ Valued(lane, v).path = lane.path
    BY <2>2, ValueSet
  <2>. QED
    BY <2>1, <2>3
<1>. QED
  BY <1>1, <1>2

LEMMA BrokenIs ==
  ASSUME NEW u, NEW lane, LaneOK(u, lane, history, neural), ~lane.terminal, Broken(lane, u),
         Finished(lane.line) => neural /\ Repeated(lane.line)
  PROVE  \E l : /\ Descended(l, u) /\ l.path = lane.path /\ LaneOK(u, l, history, neural)
<1>1. CASE neural
  <2>1. Descended(Closed(lane, 1), u)
    BY <1>1 DEF Broken, Closed
  <2>2. 1 \in 0 .. 2
    OBVIOUS
  <2>3. /\ LaneOK(u, Closed(lane, 1), history, neural)
        /\ Closed(lane, 1).path = lane.path
    BY <2>2, ValueSet
  <2>. QED
    BY <2>1, <2>3
<1>2. CASE ~neural
  <2>1. Leaf(lane, u)
    BY <1>2 DEF Broken
  <2>. QED
    BY <2>1, LeafIs
<1>. QED
  BY <1>1, <1>2

\* What a step of a descent leaves: the visits of the root's children stay.
StepsDown == MInv' /\ Still(tree, tree') /\ pc' # "publish"

\* The descent of the lane goes on, or ends.
LEMMA Comes ==
  ASSUME MInv, pc = "descend", UNCHANGED <<fixed, done>>,
         NEW u, TreeOK(u, history), Grows(tree, u), Still(tree, u),
         NEW l, LaneOK(u, l, history, neural), LossOK(u, [lanes EXCEPT ![at] = l]),
         Descended(l, u) \/ (lanes' = [lanes EXCEPT ![at] = l] /\ tree' = u
                             /\ pc' = pc /\ at' = at /\ Going(u, l))
  PROVE  StepsDown
<1>. DEFINE q == pc'
            b == at'
            M == lanes'
            w == tree'
            h == history
            nn == neural
            c == Total2
<1>1. SettledIn(h, nn, tree, lanes, "descend", at, c)
  BY DEF MInv
<1>2. M = [lanes EXCEPT ![at] = l] /\ w = u
  BY DEF Descended
<1>3. (q = "descend" /\ b = at /\ Going(u, l)) \/ Finishes(lanes, "descend", at, q, b)
  BY DEF Descended, Finishes
<1>4. history' = h /\ neural' = nn /\ Total2' = c /\ DoneOK'
  BY DEF fixed, Total2, MInv, DoneOK
<1>. HIDE DEF q, b, M, w, h, nn, c
<1>5. SettledIn(h, nn, u, [lanes EXCEPT ![at] = l], q, b, c)
  BY <1>1, <1>3, DownKeeps DEF h, nn
<1>6. SettledIn(h, nn, w, M, q, b, c)
  BY <1>2, <1>5
<1>7. MInv'
  BY <1>4, <1>6 DEF MInv, SettledIn, q, b, M, w
<1>. QED
  BY <1>2, <1>3, <1>7 DEF StepsDown, Finishes, q, w

\* ... without an edge: the lane waits where it is.
LEMMA ComesWaiting ==
  ASSUME MInv, pc = "descend", UNCHANGED <<fixed, done>>,
         NEW u, TreeOK(u, history), Calm(tree, u),
         NEW l, LaneOK(u, l, history, neural), l.path = lanes[at].path, Descended(l, u)
  PROVE  StepsDown
<1>1. SettledIn(history, neural, tree, lanes, "descend", at, Total2)
  BY DEF MInv
<1>2. LossOK(u, [lanes EXCEPT ![at] = l])
  BY <1>1, WaitingLoss DEF Calm
<1>. QED
  BY <1>2, Comes DEF Calm

LEMMA TheLane ==
  ASSUME MInv, pc = "descend"
  PROVE  /\ TreeOK(tree, history) /\ history \in Histories /\ neural \in BOOLEAN
         /\ LaneOK(tree, Lane, history, neural) /\ Going(tree, Lane) /\ Lane \in LaneSet
         /\ Lane.line \in Seq(Positions) /\ Len(Lane.line) \in Nat /\ LineOK(Lane.line, history, neural)
         /\ Lane.node \in 1 .. Len(tree) /\ tree[Lane.node].pos = Lane.line[Len(Lane.line)]
         /\ tree[Lane.node].pos = Last(Lane.line) /\ tree[Lane.node].pos \in Positions
         /\ ~Lane.terminal /\ Lane = lanes[at] /\ Calm(tree, tree)
<1>1. /\ TreeOK(tree, history) /\ history \in Histories /\ neural \in BOOLEAN
      /\ LaneOK(tree, Lane, history, neural) /\ Going(tree, Lane)
  BY DEF MInv, SettledIn, PhaseOK, LanesOK, Lane
<1>2. Lane \in LaneSet /\ LineOK(Lane.line, history, neural)
  BY <1>1 DEF LaneOK
<1>3. Lane.line \in Seq(Positions) /\ Len(Lane.line) \in Nat
  BY <1>2, LaneParts
<1>4. Lane.node \in 1 .. Len(tree) /\ tree[Lane.node].pos = Lane.line[Len(Lane.line)] /\ ~Lane.terminal
  BY <1>1 DEF Going
<1>5. Last(Lane.line) = Lane.line[Len(Lane.line)]
  BY DEF Last
<1>6. tree[Lane.node].pos \in Positions
  BY <1>1, <1>4, NodeAt DEF TreeOK
<1>7. Calm(tree, tree)
  BY <1>1, TreeSizes DEF Calm, Grows, Still, Light
<1>. QED
  BY <1>1, <1>2, <1>3, <1>4, <1>5, <1>6, <1>7 DEF Lane

LEMMA BreakOffKeeps ==
  ASSUME MInv, BreakOff \/ DepthLimit
  PROVE  StepsDown
<1>1. pc = "descend" /\ Leaf(Lane, tree) /\ UNCHANGED <<fixed, done>>
  BY DEF BreakOff, DepthLimit, fixed
<1>2. PICK l : Descended(l, tree) /\ l.path = Lane.path /\ LaneOK(tree, l, history, neural)
  BY <1>1, TheLane, LeafIs
<1>. QED
  BY <1>1, <1>2, TheLane, ComesWaiting

LEMMA GameOverKeeps ==
  ASSUME MInv, GameOver
  PROVE  StepsDown
<1>. DEFINE v == OwnVerdict(Lane.line)
            n == Lane.node
            t == Expand(tree, n, <<>>)
            over == Closed(Lane, v)
            u == [t EXCEPT ![n].terminal = TRUE, ![n].verdict = v]
<1>1. pc = "descend" /\ UNCHANGED <<fixed, done>>
      /\ IF neural THEN Descended(over, u) ELSE Descended(over, tree)
  BY DEF GameOver, Descending, fixed, Closed
<1>2. v = Own(Lane.line, history) /\ v \in 0 .. 2
  BY OwnIs DEF OwnVerdict, Own
<1>3. /\ TreeOK(tree, history) /\ LaneOK(tree, Lane, history, neural) /\ n \in 1 .. Len(tree)
      /\ history \in Histories /\ Lane.line \in Seq(Positions) /\ LineOK(Lane.line, history, neural)
      /\ tree[n].pos = Lane.line[Len(Lane.line)]
  BY <1>1, TheLane
<1>. HIDE DEF v
<1>4. LaneOK(tree, over, history, neural) /\ over.path = Lane.path
  <2>. DEFINE lane == Lane
  <2>1. LaneOK(tree, lane, history, neural) /\ v \in 0 .. 2 /\ v = Own(lane.line, history)
    BY <1>2, <1>3
  <2>. HIDE DEF lane, v
  <2>2. LaneOK(tree, Closed(lane, v), history, neural) /\ Closed(lane, v).path = lane.path
    BY <2>1, ValueSet
  <2>. QED
    BY <2>2 DEF lane
<1>5. CASE neural
  <2>1. /\ TreeOK(t, history) /\ Grows(tree, t) /\ Still(tree, t) /\ Light(tree, t)
        /\ t[n].pos = tree[n].pos
    BY <1>3, ExpandKeeps
  <2>2. n \in 1 .. Len(t)
    BY <1>3, <2>1, TreeSizes DEF Grows
  <2>3. Successors[t[n].pos] = <<>> => v = MateValue(t[n].pos, history)
    BY <1>2, <1>3, <2>1, MateLine
  <2>. HIDE DEF t, n
  <2>4. TreeOK(u, history) /\ Grows(t, u) /\ Still(t, u) /\ Light(t, u)
    BY <1>2, <2>1, <2>2, <2>3, JudgedKeeps
  <2>. HIDE DEF u, over
  <2>5. Calm(tree, u)
    BY <1>3, <2>1, <2>4, CalmOnwards DEF Calm
  <2>6. LaneOK(u, over, history, neural)
    BY <1>3, <1>4, <2>4, <2>5, PathStays DEF LaneOK, Calm
  <2>. QED
    BY <1>1, <1>4, <1>5, <2>4, <2>5, <2>6, ComesWaiting DEF Lane
<1>6. CASE ~neural
  <2>. HIDE DEF over
  <2>. QED
    BY <1>1, <1>3, <1>4, <1>6, TheLane, ComesWaiting
<1>. QED
  BY <1>5, <1>6

LEMMA KnownOverKeeps ==
  ASSUME MInv, KnownOver
  PROVE  StepsDown
<1>. DEFINE n == Lane.node
            v == tree[n].verdict
            over == Closed(Lane, v)
<1>1. pc = "descend" /\ UNCHANGED <<fixed, done>> /\ neural /\ tree[n].terminal /\ Descended(over, tree)
  BY DEF KnownOver, Descending, fixed, Closed
<1>3. /\ TreeOK(tree, history) /\ LaneOK(tree, Lane, history, neural) /\ n \in 1 .. Len(tree)
      /\ history \in Histories /\ Lane.line \in Seq(Positions) /\ LineOK(Lane.line, history, neural)
      /\ tree[n].pos = Lane.line[Len(Lane.line)]
  BY <1>1, TheLane
<1>2. v \in 0 .. 2
  BY <1>3, NodeAt DEF TreeOK
<1>4. Finished(Lane.line) => v = Own(Lane.line, history) \/ (neural /\ Repeated(Lane.line))
  <2>1. SUFFICES ASSUME Finished(Lane.line), ~Repeated(Lane.line) PROVE v = Own(Lane.line, history)
    BY <1>1
  <2>2. Successors[Lane.line[Len(Lane.line)]] = <<>>
    BY <2>1 DEF Finished
  <2>3. v = MateValue(tree[n].pos, history)
    <3>1. NodeOK(tree, n, history)
      BY <1>3 DEF TreeOK
    <3>. QED
      BY <1>1, <1>3, <2>2, <3>1 DEF NodeOK
  <2>. QED
    BY <1>3, <2>2, <2>3, MateLine
<1>. HIDE DEF v
<1>5. LaneOK(tree, over, history, neural) /\ over.path = Lane.path
  BY <1>2, <1>3, <1>4, ValueSet
<1>. HIDE DEF over
<1>. QED
  BY <1>1, <1>5, TheLane, ComesWaiting

\* A lane goes on where the game is not over - or where positions repeat.
LEMMA GoesOnIs ==
  ASSUME MInv, GoesOn
  PROVE  /\ pc = "descend"
         /\ Finished(Lane.line) /\ Successors[tree[Lane.node].pos] # <<>> => neural /\ Repeated(Lane.line)
         /\ TreeOK(Opened, history) /\ Calm(tree, Opened) /\ Lane.node \in 1 .. Len(Opened)
         /\ Opened[Lane.node].pos = tree[Lane.node].pos /\ Going(Opened, Lane)
         /\ LaneOK(Opened, Lane, history, neural)
<1>1. /\ pc = "descend" /\ ~(Judges(Lane, tree) /\ Finished(Lane.line))
      /\ ~(neural /\ tree[Lane.node].terminal)
  BY DEF GoesOn, Descending
<1>2. Finished(Lane.line) /\ Successors[tree[Lane.node].pos] # <<>> => neural /\ Repeated(Lane.line)
  <2>1. neural \in BOOLEAN /\ tree[Lane.node].pos = Lane.line[Len(Lane.line)]
    BY <1>1, TheLane
  <2>. QED
    BY <1>1, <2>1 DEF Judges, Finished
<1>. DEFINE n == Lane.node
            moves == Successors[Last(Lane.line)]
<1>3. /\ TreeOK(tree, history) /\ n \in 1 .. Len(tree) /\ moves = Successors[tree[n].pos]
      /\ LaneOK(tree, Lane, history, neural) /\ Going(tree, Lane)
  BY <1>1, TheLane
<1>. HIDE DEF n, moves
<1>4. Opened = Expand(tree, n, moves)
  BY DEF Opened, n, moves
<1>5. /\ TreeOK(Opened, history) /\ Grows(tree, Opened) /\ Still(tree, Opened) /\ Light(tree, Opened)
      /\ Opened[n].pos = tree[n].pos
  BY <1>3, <1>4, ExpandKeeps
<1>6. n \in 1 .. Len(Opened)
  BY <1>3, <1>5, TreeSizes DEF Grows
<1>7. LaneOK(Opened, Lane, history, neural)
  BY <1>3, <1>5, PathStays DEF LaneOK
<1>8. Going(Opened, Lane)
  BY <1>3, <1>5, <1>6 DEF Going, n
<1>. QED
  BY <1>1, <1>2, <1>5, <1>6, <1>7, <1>8 DEF n, Calm

LEMMA OutOfMemoryKeeps ==
  ASSUME MInv, OutOfMemory
  PROVE  StepsDown
<1>. DEFINE n == Lane.node
            u == Expand(tree, n, <<>>)
<1>1. pc = "descend" /\ UNCHANGED <<fixed, done>> /\ Leaf(Lane, u)
  BY DEF OutOfMemory, GoesOn, Descending, fixed
<1>2. TreeOK(tree, history) /\ n \in 1 .. Len(tree) /\ LaneOK(tree, Lane, history, neural) /\ ~Lane.terminal
  BY <1>1, TheLane
<1>. HIDE DEF n
<1>3. TreeOK(u, history) /\ Grows(tree, u) /\ Still(tree, u) /\ Light(tree, u)
  BY <1>2, ExpandKeeps
<1>. HIDE DEF u
<1>4. LaneOK(u, Lane, history, neural)
  BY <1>2, <1>3, PathStays DEF LaneOK
<1>5. PICK l : Descended(l, u) /\ l.path = Lane.path /\ LaneOK(u, l, history, neural)
  BY <1>1, <1>2, <1>4, LeafIs
<1>. QED
  BY <1>1, <1>3, <1>5, ComesWaiting DEF Calm, Lane

\* A lane takes an edge, with the move or without it.
MayTake(t, h, nn, lane, u, n, i, w) ==
    /\ h \in Histories /\ TreeOK(t, h) /\ LaneOK(t, lane, h, nn) /\ Going(t, lane)
    /\ Finished(lane.line) => nn /\ Repeated(lane.line)
    /\ TreeOK(u, h) /\ Grows(t, u) /\ n = lane.node /\ i \in 1 .. u[n].next
    /\ w[n].pos = t[n].pos /\ i <= Len(Successors[t[n].pos]) /\ w[n].kids[i].node \in Nat

LEMMA AdvanceIs ==
  ASSUME NEW t, NEW h, NEW nn, NEW lane, NEW u, NEW n, NEW i, NEW w, MayTake(t, h, nn, lane, u, n, i, w)
  PROVE  /\ LaneOK(u, Advance(lane, w, n, i), h, nn) /\ ~Advance(lane, w, n, i).terminal
         /\ Advance(lane, w, n, i).path = Append(lane.path, <<n, i>>)
         /\ Advance(lane, w, n, i).line[Len(Advance(lane, w, n, i).line)] = Successors[t[n].pos][i]
         /\ Advance(lane, w, n, i).node = w[n].kids[i].node
         /\ LaneOK(u, Into(lane, n, i), h, nn) /\ ~Into(lane, n, i).terminal
         /\ Into(lane, n, i).path = Append(lane.path, <<n, i>>)
<1>. DEFINE q == Append(lane.path, <<n, i>>)
            l == Append(lane.line, Successors[t[n].pos][i])
            x == Into(lane, n, i)
            y == Advance(lane, w, n, i)
            k == w[n].kids[i].node
<1>0. /\ h \in Histories /\ TreeOK(t, h) /\ LaneOK(t, lane, h, nn) /\ Going(t, lane)
      /\ Finished(lane.line) => nn /\ Repeated(lane.line)
      /\ TreeOK(u, h) /\ Grows(t, u) /\ n = lane.node /\ i \in 1 .. u[n].next
      /\ w[n].pos = t[n].pos /\ i <= Len(Successors[t[n].pos]) /\ w[n].kids[i].node \in Nat
  BY DEF MayTake
<1>1. /\ lane \in LaneSet /\ LineOK(lane.line, h, nn) /\ PathOK(t, lane.path) /\ ~lane.terminal
      /\ n \in 1 .. Len(t) /\ t[n].pos = lane.line[Len(lane.line)] /\ (lane.path = <<>> => n = Root)
  BY <1>0 DEF LaneOK, Going
<1>2. /\ lane.line \in Seq(Positions) /\ lane.path \in Seq(Nat \X Nat) /\ Len(lane.path) \in Nat
      /\ Len(lane.line) \in Nat
  BY <1>1, LaneParts
<1>3. t[n].pos \in Positions /\ Len(t) \in Nat /\ Len(u) \in Nat /\ n \in 1 .. Len(u)
      /\ u[n].next \in Nat /\ Len(u[n].kids) \in Nat /\ u[n].next <= Len(u[n].kids)
  <2>1. t[n].pos \in Positions /\ Len(t) \in Nat /\ Len(u) \in Nat /\ Len(t) <= Len(u)
    BY <1>0, <1>1, NodeAt, TreeSizes DEF TreeOK, Grows
  <2>2. n \in 1 .. Len(u)
    BY <1>1, <2>1
  <2>. QED
    BY <1>0, <2>1, <2>2, TreeSizes
<1>4. Len(Successors[t[n].pos]) \in Nat /\ i \in 1 .. Len(Successors[t[n].pos])
  BY <1>0, <1>3, Turns
<1>5. l \in Seq(Positions) /\ LineOK(l, h, nn) /\ l[Len(l)] = Successors[t[n].pos][i]
  <2>. DEFINE line == lane.line
  <2>1. /\ line \in Seq(Positions) /\ LineOK(line, h, nn) /\ t[n].pos = line[Len(line)]
        /\ i \in 1 .. Len(Successors[line[Len(line)]])
        /\ Finished(line) => nn /\ Repeated(line)
    BY <1>0, <1>1, <1>2, <1>4
  <2>. HIDE DEF line
  <2>2. LET z == Append(line, Successors[line[Len(line)]][i]) IN
        z \in Seq(Positions) /\ LineOK(z, h, nn) /\ z[Len(z)] = Successors[line[Len(line)]][i]
    BY <1>0, <2>1, LineGoes
  <2>. QED
    BY <2>1, <2>2 DEF line
<1>6. q \in Seq(Nat \X Nat) /\ PathOK(u, q)
  <2>. DEFINE p == lane.path
              e == <<n, i>>
  <2>1. p \in Seq(Nat \X Nat) /\ e \in Nat \X Nat /\ Len(p) \in Nat
    <3>1. n \in Nat /\ i \in Nat
      BY <1>0, <1>1, <1>3
    <3>2. e \in Nat \X Nat
      BY <3>1
    <3>. QED
      BY <1>2, <3>2
  <2>2. PathOK(u, p)
    BY <1>0, <1>1, PathStays
  <2>3. TakenIn(u, e)
    <3>1. i \in 1 .. Len(u[n].kids) /\ i <= u[n].next
      BY <1>0, <1>3
    <3>2. e \in TreeEdges(u)
      BY <1>0, <1>3, <3>1, EdgesAre
    <3>. QED
      BY <3>1, <3>2 DEF TakenIn
  <2>4. p = <<>> => e[1] = Root
    BY <1>1
  <2>. HIDE DEF p, e
  <2>5. /\ Append(p, e) \in Seq(Nat \X Nat) /\ Len(Append(p, e)) = Len(p) + 1
        /\ Append(p, e)[Len(p) + 1] = e /\ \A j \in 1 .. Len(p) : Append(p, e)[j] = p[j]
    BY <2>1
  <2>. DEFINE r == Append(p, e)
  <2>. HIDE DEF r
  <2>6. \A j \in 1 .. Len(r) : TakenIn(u, r[j])
    <3>1. \A j \in 1 .. Len(r) : j = Len(p) + 1 \/ j \in 1 .. Len(p)
      BY <2>1, <2>5 DEF r
    <3>. QED
      BY <2>2, <2>3, <2>5, <3>1 DEF r, PathOK
  <2>7. r[1][1] = Root
    <3>1. CASE p = <<>>
      <4>1. Len(p) = 0
        BY <3>1
      <4>. QED
        BY <2>4, <2>5, <3>1, <4>1 DEF r
    <3>2. CASE p # <<>>
      <4>1. 1 \in 1 .. Len(p)
        BY <2>1, <3>2
      <4>. QED
        BY <2>2, <2>5, <3>2, <4>1 DEF r, PathOK
    <3>. QED
      BY <3>1, <3>2
  <2>8. PathOK(u, r)
    BY <2>6, <2>7 DEF PathOK
  <2>. QED
    BY <2>5, <2>8 DEF p, e, r
<1>. HIDE DEF q, l
<1>7. x = [lane EXCEPT !.path = q] /\ y = [x EXCEPT !.line = l, !.node = k]
  <2>1. x = [lane EXCEPT !.path = q]
    BY DEF Into, q
  <2>2. x.line = lane.line
    BY <1>1, <2>1 DEF LaneSet
  <2>3. Append(x.line, ChildPosition(w, n, i)) = l
    BY <1>0, <2>2 DEF ChildPosition, l
  <2>4. y = [x EXCEPT !.line = Append(x.line, ChildPosition(w, n, i)), !.node = k]
    BY DEF Advance
  <2>. HIDE DEF x, y, k
  <2>. QED
    BY <2>1, <2>3, <2>4
<1>. HIDE DEF x, y, k
<1>8. /\ x \in LaneSet /\ x.path = q /\ x.line = lane.line /\ x.terminal = lane.terminal
  BY <1>1, <1>6, <1>7 DEF LaneSet
<1>9. /\ y \in LaneSet /\ y.path = q /\ y.line = l /\ y.terminal = lane.terminal /\ y.node = k
  <2>1. k \in Nat
    BY <1>0 DEF k
  <2>. QED
    BY <1>5, <1>7, <1>8, <2>1 DEF LaneSet
<1>10. LaneOK(u, x, h, nn)
  BY <1>1, <1>6, <1>8 DEF LaneOK, DecidedOK
<1>11. LaneOK(u, y, h, nn)
  BY <1>1, <1>5, <1>6, <1>9 DEF LaneOK, DecidedOK
<1>. QED
  BY <1>1, <1>5, <1>8, <1>9, <1>10, <1>11 DEF x, y, k, q

LEMMA ExpandOneKeeps ==
  ASSUME MInv, ExpandOne
  PROVE  StepsDown
<1>. DEFINE n == Lane.node
            o == Opened
            i == o[n].next + 1
            t == Attached(o, n)
            u == RaiseLoss(t, n, i)
            x == Advance(Lane, t, n, i)
<1>1. /\ GoesOn /\ CanExpand(o, n) /\ Place(o, n) # 0 /\ UNCHANGED <<fixed, done>>
      /\ Leaf(x, u) \/ Broken(Lane, t)
  BY DEF ExpandOne, fixed
<1>2. /\ pc = "descend" /\ TreeOK(o, history) /\ Calm(tree, o) /\ n \in 1 .. Len(o)
      /\ o[n].pos = tree[n].pos /\ Going(o, Lane) /\ LaneOK(o, Lane, history, neural)
      /\ Finished(Lane.line) /\ Successors[tree[n].pos] # <<>> => neural /\ Repeated(Lane.line)
  BY <1>1, GoesOnIs
<1>3. TreeOK(tree, history) /\ history \in Histories /\ Lane = lanes[at] /\ ~Lane.terminal
  BY <1>2, TheLane
<1>4. SettledIn(history, neural, tree, lanes, "descend", at, Total2)
  BY <1>2 DEF MInv
<1>. HIDE DEF n, o, x
<1>5. /\ Len(Successors[o[n].pos]) = Len(o[n].kids) /\ i \in 1 .. Len(o[n].kids)
      /\ Len(o[n].kids) \in Nat /\ o[n].next \in Nat
  BY <1>1, <1>2, PlaceIs, TreeSizes
<1>6. Finished(Lane.line) => neural /\ Repeated(Lane.line)
  <2>1. Successors[o[n].pos] # <<>>
    BY <1>5
  <2>. QED
    BY <1>2, <2>1
<1>7. /\ TreeOK(t, history) /\ Calm(o, t) /\ n \in 1 .. Len(t) /\ t[n].next = i
      /\ t[n].kids[i].node = Place(o, n) /\ Place(o, n) \in 1 .. Len(t)
  BY <1>1, <1>2, AttachedKeeps
<1>. HIDE DEF t
<1>8. Calm(tree, t)
  BY <1>2, <1>3, <1>7, CalmOnwards
<1>9. i \in 1 .. t[n].next /\ t[n].kids[i].node \in Nat
  BY <1>5, <1>7
<1>10. o[n].pos = t[n].pos
  BY <1>2, <1>7 DEF Calm, Grows
<1>. HIDE DEF i, u
<1>11. TreeOK(u, history) /\ Grows(t, u)
  BY <1>7, <1>9, RaiseLossKeeps DEF u
<1>12. /\ Grows(o, u) /\ u[n].next >= i /\ u[n].next \in Nat
  <2>1. Grows(o, u)
    BY <1>2, <1>7, <1>11, Onwards DEF Calm
  <2>2. n \in 1 .. Len(u)
    BY <1>7, <1>11, TreeSizes DEF Grows
  <2>. QED
    BY <1>7, <1>11, <2>1, <2>2, TreeSizes DEF Grows
<1>13. i \in 1 .. u[n].next
  BY <1>9, <1>12
<1>14. LaneOK(u, x, history, neural) /\ ~x.terminal /\ x.path = Append(Lane.path, <<n, i>>)
  <2>1. n = Lane.node /\ i <= Len(Successors[o[n].pos])
    BY <1>5 DEF n, i
  <2>. DEFINE lane == Lane
              h == history
              nn == neural
  <2>2. /\ h \in Histories /\ TreeOK(o, h) /\ LaneOK(o, lane, h, nn) /\ Going(o, lane)
        /\ Finished(lane.line) => nn /\ Repeated(lane.line)
        /\ TreeOK(u, h) /\ Grows(o, u) /\ n = lane.node /\ i \in 1 .. u[n].next
        /\ t[n].pos = o[n].pos /\ i <= Len(Successors[o[n].pos]) /\ t[n].kids[i].node \in Nat
    BY <1>2, <1>3, <1>6, <1>9, <1>10, <1>11, <1>12, <1>13, <2>1
  <2>4. MayTake(o, h, nn, lane, u, n, i, t)
    BY <2>2 DEF MayTake
  <2>. HIDE DEF lane, h, nn
  <2>3. /\ LaneOK(u, Advance(lane, t, n, i), h, nn) /\ ~Advance(lane, t, n, i).terminal
        /\ Advance(lane, t, n, i).path = Append(lane.path, <<n, i>>)
    BY <2>4, AdvanceIs
  <2>. QED
    BY <2>3 DEF x, lane, h, nn
<1>15. CASE Leaf(x, u)
  <2>1. PICK l : Descended(l, u) /\ l.path = x.path /\ LaneOK(u, l, history, neural)
    BY <1>14, <1>15, LeafIs
  <2>2. l.path = Append(lanes[at].path, <<n, i>>)
    BY <1>3, <1>14, <2>1
  <2>3. /\ Grows(tree, u) /\ Still(tree, u) /\ LossOK(u, [lanes EXCEPT ![at] = l])
    BY <1>4, <1>7, <1>8, <1>9, <2>2, TakingLoss DEF u
  <2>. QED
    BY <1>1, <1>2, <1>11, <2>1, <2>3, Comes
<1>16. CASE Broken(Lane, t)
  <2>1. LaneOK(t, Lane, history, neural)
    BY <1>2, <1>7, PathStays DEF LaneOK, Calm
  <2>2. PICK l : Descended(l, t) /\ l.path = Lane.path /\ LaneOK(t, l, history, neural)
    BY <1>3, <1>6, <1>16, <2>1, BrokenIs
  <2>. QED
    BY <1>1, <1>2, <1>3, <1>7, <1>8, <2>2, ComesWaiting
<1>. QED
  BY <1>1, <1>15, <1>16

LEMMA SelectChildKeeps ==
  ASSUME MInv, SelectChild
  PROVE  StepsDown
<1>. DEFINE n == Lane.node
            o == Opened
            t == IF CanExpand(o, n) THEN Consumed(o, n) ELSE o
<1>1. /\ GoesOn /\ UNCHANGED <<fixed, done>>
      /\ IF Selectable(t, n) = {} THEN Leaf(Lane, t)
         ELSE \E i \in Selectable(t, n) :
            \/ LET next == Advance(Lane, t, n, i)
               IN  IF next.node = 0 THEN Leaf(next, RaiseLoss(t, n, i))
                   ELSE /\ lanes' = [lanes EXCEPT ![at] = next]
                        /\ tree' = RaiseLoss(t, n, i)
                        /\ UNCHANGED <<pc, at>>
            \/ Leaf(Into(Lane, n, i), RaiseLoss(t, n, i))
  BY DEF SelectChild, fixed
<1>2. /\ pc = "descend" /\ TreeOK(o, history) /\ Calm(tree, o) /\ n \in 1 .. Len(o)
      /\ o[n].pos = tree[n].pos /\ Going(o, Lane) /\ LaneOK(o, Lane, history, neural)
      /\ Finished(Lane.line) /\ Successors[tree[n].pos] # <<>> => neural /\ Repeated(Lane.line)
  BY <1>1, GoesOnIs
<1>3. TreeOK(tree, history) /\ history \in Histories /\ Lane = lanes[at] /\ ~Lane.terminal
  BY <1>2, TheLane
<1>4. SettledIn(history, neural, tree, lanes, "descend", at, Total2)
  BY <1>2 DEF MInv
<1>. HIDE DEF n, o
<1>5. TreeOK(t, history) /\ Calm(o, t)
  <2>1. CASE CanExpand(o, n)
    <3>. DEFINE c == Consumed(o, n)
    <3>1. TreeOK(c, history) /\ Grows(o, c) /\ Still(o, c) /\ Light(o, c)
      BY <1>2, <2>1, ConsumedKeeps
    <3>. HIDE DEF c
    <3>. QED
      BY <2>1, <3>1 DEF Calm, c
  <2>2. CASE ~CanExpand(o, n)
    <3>1. Calm(o, o)
      BY <1>2, TreeSizes DEF Calm, Grows, Still, Light
    <3>. QED
      BY <1>2, <2>2, <3>1
  <2>. QED
    BY <2>1, <2>2
<1>. HIDE DEF t
<1>6. Calm(tree, t)
  BY <1>2, <1>3, <1>5, CalmOnwards
<1>7. n \in 1 .. Len(t) /\ o[n].pos = t[n].pos
  BY <1>2, <1>5, TreeSizes DEF Calm, Grows
<1>8. LaneOK(t, Lane, history, neural)
  BY <1>2, <1>5, PathStays DEF LaneOK, Calm
<1>9. CASE Selectable(t, n) = {}
  <2>1. PICK l : Descended(l, t) /\ l.path = Lane.path /\ LaneOK(t, l, history, neural)
    BY <1>1, <1>3, <1>8, <1>9, LeafIs
  <2>. QED
    BY <1>1, <1>2, <1>3, <1>5, <1>6, <2>1, ComesWaiting
<1>10. CASE Selectable(t, n) # {}
  <2>1. PICK i \in Selectable(t, n) :
            \/ LET next == Advance(Lane, t, n, i)
               IN  IF next.node = 0 THEN Leaf(next, RaiseLoss(t, n, i))
                   ELSE /\ lanes' = [lanes EXCEPT ![at] = next]
                        /\ tree' = RaiseLoss(t, n, i)
                        /\ UNCHANGED <<pc, at>>
            \/ Leaf(Into(Lane, n, i), RaiseLoss(t, n, i))
    BY <1>1, <1>10
  <2>. DEFINE u == RaiseLoss(t, n, i)
              x == Advance(Lane, t, n, i)
              y == Into(Lane, n, i)
  <2>2. /\ i \in 1 .. t[n].next /\ i \in 1 .. Len(t[n].kids) /\ i <= Len(Successors[t[n].pos])
        /\ t[n].kids[i].node \in Nat /\ t[n].kids[i].node <= Len(t) /\ Successors[t[n].pos] # <<>>
        /\ t[n].kids[i].node # 0 => t[t[n].kids[i].node].pos = Successors[t[n].pos][i]
    <3>1. /\ t[n].selectable \in Nat /\ t[n].next \in Nat /\ Len(t[n].kids) \in Nat /\ Len(t) \in Nat
          /\ NodeOK(t, n, history)
      BY <1>5, <1>7, NodeAt, TreeSizes DEF TreeOK
    <3>2. t[n].selectable <= t[n].next
      BY <3>1 DEF NodeOK
    <3>3. i \in 1 .. t[n].next /\ i \in 1 .. Len(t[n].kids)
      BY <3>1, <3>2 DEF Selectable
    <3>4. t[n].kids # <<>>
      BY <3>1, <3>3
    <3>5. Len(Successors[t[n].pos]) = Len(t[n].kids)
      BY <3>1, <3>4 DEF NodeOK
    <3>6. KidOK(t, n, i)
      BY <3>1, <3>3 DEF NodeOK
    <3>7. t[n].kids[i].node \in 0 .. Len(t)
      BY <3>6 DEF KidOK
    <3>8. Successors[t[n].pos] # <<>>
      BY <3>1, <3>3, <3>5
    <3>. QED
      BY <3>1, <3>3, <3>5, <3>6, <3>7, <3>8 DEF KidOK
  <2>3. Finished(Lane.line) => neural /\ Repeated(Lane.line)
    BY <1>2, <1>7, <2>2
  <2>4. TreeOK(u, history) /\ Grows(t, u)
    BY <1>5, <1>7, <2>2, RaiseLossKeeps
  <2>5. Leaf(x, u) \/ (lanes' = [lanes EXCEPT ![at] = x] /\ tree' = u /\ UNCHANGED <<pc, at>> /\ x.node # 0)
        \/ Leaf(y, u)
    BY <2>1
  <2>. HIDE DEF u, x, y
  <2>6. Grows(o, u) /\ Grows(tree, u) /\ i \in 1 .. u[n].next
    <3>1. Grows(o, u) /\ Grows(tree, u)
      BY <1>2, <1>3, <1>5, <1>6, <2>4, Onwards DEF Calm
    <3>2. n \in 1 .. Len(u)
      BY <1>5, <1>7, <2>4, TreeSizes DEF Grows
    <3>3. t[n].next <= u[n].next /\ u[n].next \in Nat /\ t[n].next \in Nat
      BY <1>5, <1>7, <2>4, <3>2, TreeSizes DEF Grows
    <3>. QED
      BY <2>2, <3>1, <3>3
  <2>7. /\ LaneOK(u, x, history, neural) /\ ~x.terminal /\ x.path = Append(Lane.path, <<n, i>>)
        /\ x.line[Len(x.line)] = Successors[t[n].pos][i] /\ x.node = t[n].kids[i].node
        /\ LaneOK(u, y, history, neural) /\ ~y.terminal /\ y.path = Append(Lane.path, <<n, i>>)
    <3>1. n = Lane.node /\ i <= Len(Successors[o[n].pos])
      BY <1>7, <2>2 DEF n
    <3>. DEFINE lane == Lane
                h == history
                nn == neural
    <3>2. /\ h \in Histories /\ TreeOK(o, h) /\ LaneOK(o, lane, h, nn) /\ Going(o, lane)
          /\ Finished(lane.line) => nn /\ Repeated(lane.line)
          /\ TreeOK(u, h) /\ Grows(o, u) /\ n = lane.node /\ i \in 1 .. u[n].next
          /\ t[n].pos = o[n].pos /\ i <= Len(Successors[o[n].pos]) /\ t[n].kids[i].node \in Nat
      BY <1>2, <1>3, <1>7, <2>2, <2>3, <2>4, <2>6, <3>1
    <3>4. MayTake(o, h, nn, lane, u, n, i, t)
      BY <3>2 DEF MayTake
    <3>. HIDE DEF lane, h, nn
    <3>3. /\ LaneOK(u, Advance(lane, t, n, i), h, nn) /\ ~Advance(lane, t, n, i).terminal
          /\ Advance(lane, t, n, i).path = Append(lane.path, <<n, i>>)
          /\ Advance(lane, t, n, i).line[Len(Advance(lane, t, n, i).line)] = Successors[o[n].pos][i]
          /\ Advance(lane, t, n, i).node = t[n].kids[i].node
          /\ LaneOK(u, Into(lane, n, i), h, nn) /\ ~Into(lane, n, i).terminal
          /\ Into(lane, n, i).path = Append(lane.path, <<n, i>>)
      BY <3>4, AdvanceIs
    <3>. QED
      BY <1>7, <3>3 DEF x, y, lane, h, nn
  <2>8. \A l : l.path = Append(Lane.path, <<n, i>>) =>
                 Still(tree, u) /\ LossOK(u, [lanes EXCEPT ![at] = l])
    <3>1. ASSUME NEW l, l.path = Append(Lane.path, <<n, i>>)
          PROVE  Still(tree, u) /\ LossOK(u, [lanes EXCEPT ![at] = l])
      <4>1. l.path = Append(lanes[at].path, <<n, i>>)
        BY <1>3, <3>1
      <4>. QED
        BY <1>4, <1>5, <1>6, <1>7, <2>2, <4>1, TakingLoss DEF u
    <3>. QED
      BY <3>1
  <2>9. ASSUME NEW z, LaneOK(u, z, history, neural), ~z.terminal, z.path = Append(Lane.path, <<n, i>>),
               Leaf(z, u)
        PROVE  StepsDown
    <3>1. PICK l : Descended(l, u) /\ l.path = z.path /\ LaneOK(u, l, history, neural)
      BY <2>9, LeafIs
    <3>2. Still(tree, u) /\ LossOK(u, [lanes EXCEPT ![at] = l])
      BY <2>8, <2>9, <3>1
    <3>. QED
      BY <1>1, <1>2, <2>4, <2>6, <3>1, <3>2, Comes
  <2>10. CASE Leaf(x, u)
    BY <2>7, <2>9, <2>10
  <2>11. CASE Leaf(y, u)
    BY <2>7, <2>9, <2>11
  <2>12. CASE lanes' = [lanes EXCEPT ![at] = x] /\ tree' = u /\ UNCHANGED <<pc, at>> /\ x.node # 0
    <3>1. Still(tree, u) /\ LossOK(u, [lanes EXCEPT ![at] = x])
      BY <2>7, <2>8
    <3>2. Going(u, x)
      <4>1. x.node \in 1 .. Len(t) /\ t[x.node].pos = Successors[t[n].pos][i]
        BY <1>5, <2>2, <2>7, <2>12, TreeSizes
      <4>2. x.node \in 1 .. Len(u) /\ u[x.node].pos = t[x.node].pos
        BY <1>5, <2>4, <4>1, TreeSizes DEF Grows
      <4>3. x.path # <<>>
        <5>1. Lane \in LaneSet
          BY <1>2, TheLane
        <5>2. Lane.path \in Seq(Nat \X Nat)
          BY <5>1, LaneParts
        <5>3. n \in Nat /\ i \in Nat
          BY <1>5, <1>7, <2>2, TreeSizes
        <5>. DEFINE p == Lane.path
                    e == <<n, i>>
        <5>4. p \in Seq(Nat \X Nat) /\ e \in Nat \X Nat /\ x.path = Append(p, e)
          BY <2>7, <5>2, <5>3
        <5>. HIDE DEF p, e
        <5>. QED
          BY <5>4
      <4>. QED
        BY <2>7, <4>1, <4>2, <4>3 DEF Going
    <3>. QED
      BY <1>1, <1>2, <2>4, <2>6, <2>7, <2>12, <3>1, <3>2, Comes
  <2>. QED
    BY <2>5, <2>10, <2>11, <2>12
<1>. QED
  BY <1>9, <1>10

-----------------------------------------------------------------------------
(***************************************************************************)
(* The other steps, and what follows from the invariant.                   *)
(***************************************************************************)
LEMMA SameGrows ==
  ASSUME NEW t, NEW u, NEW h, TreeOK(t, h), SameTree(t, u)
  PROVE  Grows(t, u)
<1>1. Len(t) \in Nat /\ \A m \in 1 .. Len(t) : t[m].next \in Nat
  BY TreeSizes
<1>. QED
  BY <1>1 DEF SameTree, Grows

LEMMA InitSettled ==
  ASSUME Init
  PROVE  MInv
<1>. DEFINE h == history
            moves == Successors[Last(h)]
            o == NewNode(Last(h))
            k == [i \in DOMAIN moves |-> [node |-> 0, visits |-> 0, value |-> 0, loss |-> 0]]
            x == [o EXCEPT !.expanded = TRUE, !.kids = k]
<1>1. /\ h \in Histories /\ neural \in BOOLEAN /\ lanes = <<>> /\ pc = "claim"
      /\ done.counted = 0 /\ done.empty = 0 /\ tree = Expand(<<o>>, Root, moves)
  BY DEF Init
<1>2. Last(h) \in Positions /\ moves \in Seq(Positions) /\ Len(moves) \in Nat /\ DOMAIN moves = 1 .. Len(moves)
  BY <1>1, HistoryIs, Turns
<1>. HIDE DEF h, moves
<1>3. k \in Seq(Kid) /\ Len(k) = Len(moves)
      /\ \A i \in 1 .. Len(moves) : k[i].node = 0 /\ k[i].visits = 0 /\ k[i].loss = 0
  BY <1>2 DEF Kid
<1>4. /\ o \in NodeSet /\ o.pos = Last(h) /\ o.next = 0 /\ o.selectable = 0
      /\ ~o.expanded /\ ~o.terminal /\ o.visits = 0 /\ o.value = 0
  BY <1>2 DEF NewNode, NodeSet
<1>5. tree = <<x>>
  <2>1. Expand(<<o>>, Root, moves) = [<<o>> EXCEPT ![Root].expanded = TRUE, ![Root].kids = k]
    BY <1>4 DEF Expand, Root
  <2>. HIDE DEF o, k
  <2>2. [<<o>> EXCEPT ![Root].expanded = TRUE, ![Root].kids = k] = <<x>>
    BY <1>4 DEF Root, NodeSet
  <2>. QED
    BY <1>1, <2>1, <2>2
<1>. HIDE DEF o, k
<1>6. /\ x \in NodeSet /\ x.pos = Last(h) /\ x.expanded /\ x.kids = k /\ x.next = 0
      /\ x.selectable = 0 /\ ~x.terminal /\ x.visits = 0
  BY <1>3, <1>4 DEF NodeSet
<1>. HIDE DEF x
<1>7. tree \in Seq(NodeSet) /\ Len(tree) = 1 /\ tree[1] = x
  BY <1>5, <1>6
<1>8. NodeOK(tree, 1, h)
  <2>1. \A i \in 1 .. Len(tree[1].kids) : KidOK(tree, 1, i)
    BY <1>2, <1>3, <1>6, <1>7 DEF KidOK
  <2>2. Len(k) \in Nat
    BY <1>2, <1>3
  <2>. QED
    BY <1>3, <1>6, <1>7, <2>1, <2>2 DEF NodeOK, moves
<1>9. TreeOK(tree, h)
  <2>1. \A n \in 1 .. Len(tree) : n = 1
    BY <1>7
  <2>2. RootOK(tree, h)
    BY <1>3, <1>6, <1>7 DEF RootOK, Root, moves
  <2>. QED
    BY <1>7, <1>8, <2>1, <2>2 DEF TreeOK
<1>10. FlowOK(tree, 0)
  <2>1. ASSUME NEW n \in 1 .. Len(tree)
        PROVE  tree[n].visits = Total(VisitsOf(tree), InEdges(tree, n)) + IF n = Root THEN 0 ELSE 0
    <3>1. n = 1 /\ tree[n].visits = 0
      BY <1>6, <1>7
    <3>2. InEdges(tree, n) = {}
      <4>1. ASSUME NEW e \in InEdges(tree, n) PROVE FALSE
        <5>1. e \in TreeEdges(tree) /\ tree[e[1]].kids[e[2]].node = n
          BY DEF InEdges
        <5>2. e[1] \in 1 .. Len(tree) /\ e[2] \in 1 .. Len(tree[e[1]].kids)
          BY <1>9, <5>1, EdgesAre
        <5>3. e[1] = 1 /\ e[2] \in 1 .. Len(moves)
          BY <1>3, <1>6, <1>7, <5>2
        <5>4. tree[e[1]].kids[e[2]].node = 0
          BY <1>3, <1>6, <1>7, <5>3
        <5>. QED
          BY <3>1, <5>1, <5>4
      <4>. QED
        BY <4>1
    <3>. DEFINE f == VisitsOf(tree)
                S == InEdges(tree, n)
    <3>3. Total(f, S) = 0
      <4>. HIDE DEF f
      <4>. QED
        BY <3>2, TotalEmpty
    <3>. QED
      BY <3>1, <3>3
  <2>. QED
    BY <2>1 DEF FlowOK
<1>11. LossOK(tree, <<>>)
  <2>1. ASSUME NEW n \in 1 .. Len(tree), NEW i \in 1 .. Len(tree[n].kids)
        PROVE  tree[n].kids[i].loss = Total(TakenBy(<<>>, <<n, i>>), DOMAIN <<>>)
    <3>1. n = 1 /\ i \in 1 .. Len(moves) /\ tree[n].kids[i].loss = 0
      BY <1>3, <1>6, <1>7
    <3>. DEFINE E == <<>>
                f == TakenBy(E, <<n, i>>)
    <3>2. DOMAIN E = {}
      OBVIOUS
    <3>3. Total(f, DOMAIN E) = 0
      <4>. HIDE DEF E, f
      <4>. QED
        BY <3>2, TotalEmpty
    <3>. QED
      BY <3>1, <3>3
  <2>. QED
    BY <2>1 DEF LossOK
<1>12. LanesOK(tree, <<>>, h, neural)
  <2>1. <<>> \in Seq(LaneSet) /\ \A j \in 1 .. Len(<<>>) : FALSE
    OBVIOUS
  <2>. QED
    BY <2>1 DEF LanesOK
<1>13. PhaseOK(tree, <<>>, "claim", at, h)
  BY DEF PhaseOK
<1>14. Total2 = 0 /\ DoneOK
  BY <1>1 DEF Total2, DoneOK, Init
<1>. QED
  BY <1>1, <1>9, <1>10, <1>11, <1>12, <1>13, <1>14 DEF MInv, SettledIn, h

LEMMA ClaimKeeps ==
  ASSUME MInv, Claim
  PROVE  MInv'
<1>. DEFINE h == history
            nn == neural
            M == lanes'
            q == pc'
            b == at'
            c == Total2
<1>1. SettledIn(h, nn, tree, lanes, pc, at, c) /\ lanes = <<>> /\ pc = "claim" /\ DoneOK
  BY DEF MInv, SettledIn, PhaseOK, Claim
<1>2. history' = h /\ neural' = nn /\ tree' = tree /\ done' = done
  BY DEF Claim, fixed
<1>3. /\ h \in Histories /\ nn \in BOOLEAN /\ c \in Nat /\ TreeOK(tree, h) /\ FlowOK(tree, c)
      /\ LossOK(tree, <<>>)
  BY <1>1 DEF SettledIn
<1>4. Total2' = c /\ DoneOK'
  BY <1>1, <1>2 DEF Total2, DoneOK
<1>5. CASE q = "stopped" /\ M = <<>>
  <2>1. SettledIn(h, nn, tree, <<>>, "stopped", b, c)
    BY <1>1 DEF SettledIn, PhaseOK
  <2>. HIDE DEF h, nn, c
  <2>. QED
    BY <1>2, <1>4, <1>5, <2>1 DEF MInv, SettledIn
<1>6. CASE \E k \in Nat : k >= 1 /\ M = [i \in 1 .. k |-> Fresh(h)] /\ b = 1 /\ q = "descend"
  <2>1. PICK k \in Nat : k >= 1 /\ M = [i \in 1 .. k |-> Fresh(h)]
    BY <1>6
  <2>2. LaneOK(tree, Fresh(h), h, nn) /\ Going(tree, Fresh(h)) /\ Fresh(h).path = <<>>
    BY <1>3, FreshIs DEF Fresh
  <2>3. Fresh(h) \in LaneSet
    BY <2>2 DEF LaneOK
  <2>. HIDE DEF M
  <2>4. M \in Seq(LaneSet) /\ Len(M) = k /\ DOMAIN M = 1 .. k /\ \A i \in 1 .. k : M[i] = Fresh(h)
    BY <2>1, <2>3
  <2>5. LanesOK(tree, M, h, nn)
    BY <2>2, <2>4 DEF LanesOK
  <2>6. LossOK(tree, M)
    <3>1. IsFiniteSet(1 .. k)
      BY <2>1, FS_Interval
    <3>. DEFINE E == <<>>
    <3>2. DOMAIN E = {}
      OBVIOUS
    <3>3. IsFiniteSet(DOMAIN E) /\ \A i \in DOMAIN E : E[i].path = <<>>
      BY <3>2, FS_EmptySet
    <3>4. LossOK(tree, E)
      BY <1>3
    <3>. HIDE DEF E
    <3>. QED
      BY <2>2, <2>4, <3>1, <3>3, <3>4, LossOfIdle
  <2>7. PhaseOK(tree, M, "descend", 1, h)
    <3>1. 1 \in 1 .. Len(M) /\ M[1] = Fresh(h)
      BY <2>1, <2>4
    <3>. QED
      BY <2>2, <2>4, <3>1 DEF PhaseOK
  <2>8. SettledIn(h, nn, tree, M, "descend", 1, c)
    BY <1>3, <2>5, <2>6, <2>7 DEF SettledIn
  <2>. HIDE DEF h, nn, c, q, b
  <2>9. SettledIn(h, nn, tree, M, q, b, c)
    BY <1>6, <2>8
  <2>. QED
    BY <1>2, <1>4, <2>9 DEF MInv, SettledIn, M, q, b
<1>7. \/ q = "stopped" /\ M = <<>>
      \/ \E k \in Nat : k >= 1 /\ M = [i \in 1 .. k |-> Fresh(h)] /\ b = 1 /\ q = "descend"
  <2>1. CASE stop \/ done.counted + done.empty = MaxSimulations
    BY <1>1, <2>1 DEF Claim
  <2>2. CASE ~(stop \/ done.counted + done.empty = MaxSimulations)
    <3>1. PICK k \in 1 .. (IF neural THEN Batch ELSE 1) :
            lanes' = [i \in 1 .. k |-> NewLane] /\ at' = 1 /\ pc' = "descend"
      BY <2>2 DEF Claim
    <3>2. k \in Nat /\ k >= 1
      BY MctsAssumption DEF MctsAssumption
    <3>3. NewLane = Fresh(h)
      BY DEF NewLane, Fresh
    <3>. QED
      BY <3>1, <3>2, <3>3
  <2>. QED
    BY <2>1, <2>2
<1>. QED
  BY <1>5, <1>6, <1>7

LEMMA ScoreBatchKeeps ==
  ASSUME MInv, ScoreBatch
  PROVE  MInv'
<1>. DEFINE h == history
            nn == neural
            L == lanes
            M == lanes'
            c == Total2
<1>1. SettledIn(h, nn, tree, L, "score", at, c) /\ DoneOK
  BY DEF MInv, ScoreBatch
<1>2. history' = h /\ neural' = nn /\ tree' = tree /\ done' = done /\ pc' = "finish" /\ at' = 1
  BY DEF ScoreBatch, fixed
<1>3. PICK given \in [DOMAIN L -> LeafValues] \cup {[i \in DOMAIN L |-> 1]} :
        M = [i \in DOMAIN L |-> IF L[i].terminal THEN L[i] ELSE [L[i] EXCEPT !.value = given[i]]]
  BY DEF ScoreBatch
<1>4. \A i \in DOMAIN L : given[i] \in 0 .. 2
  <2>1. LeafValues \subseteq 0 .. 2
    BY MctsAssumption DEF MctsAssumption
  <2>. QED
    BY <1>3, <2>1
<1>5. /\ h \in Histories /\ nn \in BOOLEAN /\ c \in Nat /\ TreeOK(tree, h) /\ FlowOK(tree, c)
      /\ LanesOK(tree, L, h, nn) /\ LossOK(tree, L) /\ 1 <= Len(L)
  BY <1>1 DEF SettledIn, PhaseOK
<1>6. Len(L) \in Nat /\ DOMAIN L = 1 .. Len(L) /\ \A i \in DOMAIN L : LaneOK(tree, L[i], h, nn)
  BY <1>5, LanesAre
<1>. HIDE DEF M, L, h, nn, c
<1>7. ASSUME NEW i \in DOMAIN L PROVE LaneOK(tree, M[i], h, nn) /\ M[i].path = L[i].path
  <2>1. CASE L[i].terminal
    BY <1>3, <1>6, <2>1
  <2>2. CASE ~L[i].terminal
    <3>. DEFINE lane == L[i]
                v == given[i]
    <3>1. LaneOK(tree, lane, h, nn) /\ ~lane.terminal /\ v \in 0 .. 2
      BY <1>4, <1>6, <2>2
    <3>2. M[i] = Valued(lane, v)
      BY <1>3, <2>2 DEF Valued
    <3>. HIDE DEF lane, v
    <3>3. LaneOK(tree, Valued(lane, v), h, nn) /\ Valued(lane, v).path = lane.path
      BY <3>1, ValueSet
    <3>. QED
      BY <3>2, <3>3 DEF lane
  <2>. QED
    BY <2>1, <2>2
<1>8. DOMAIN M = DOMAIN L /\ M = [i \in 1 .. Len(L) |-> M[i]]
  BY <1>3, <1>6
<1>9. \A i \in 1 .. Len(L) : M[i] \in LaneSet
  BY <1>6, <1>7 DEF LaneOK
<1>10. M \in Seq(LaneSet) /\ Len(M) = Len(L)
  BY <1>6, <1>8, <1>9
<1>11. LanesOK(tree, M, h, nn)
  BY <1>6, <1>7, <1>10 DEF LanesOK
<1>12. LossOK(tree, M)
  <2>. DEFINE u == tree
  <2>1. Light(tree, u)
    BY <1>5, TreeSizes DEF Light
  <2>2. \A k \in DOMAIN L : M[k].path = L[k].path
    BY <1>7
  <2>3. TreeOK(u, h) /\ DOMAIN M = DOMAIN L
    BY <1>5, <1>8
  <2>4. LossOK(u, M)
    <3>. HIDE DEF u
    <3>. QED
      BY <1>5, <2>1, <2>2, <2>3, LossStays
  <2>. QED
    BY <2>4
<1>13. PhaseOK(tree, M, "finish", 1, h)
  <2>1. 1 \in 1 .. Len(M) /\ \A k \in 1 .. Len(M) : ~(k < 1)
    BY <1>5, <1>6, <1>10
  <2>. QED
    BY <2>1 DEF PhaseOK
<1>14. SettledIn(h, nn, tree, M, "finish", 1, c)
  BY <1>5, <1>11, <1>12, <1>13 DEF SettledIn
<1>15. Total2' = c /\ DoneOK'
  BY <1>1, <1>2 DEF Total2, DoneOK, c
<1>. QED
  BY <1>2, <1>14, <1>15 DEF MInv, SettledIn, M

LEMMA FinishLaneKeeps ==
  ASSUME MInv, FinishLane
  PROVE  /\ MInv' /\ Total2' = Total2 + 1
         /\ SameTree(tree, tree') /\ Paid(tree, tree', Counts(tree, Lane.path))
         /\ TreeOK(tree, history) /\ TreeOK(tree', history)
         /\ PathOK(tree, Lane.path) /\ Len(Lane.path) \in Nat /\ DOMAIN Lane.path = 1 .. Len(Lane.path)
<1>. DEFINE h == history
            nn == neural
            L == lanes
            M == lanes'
            a == at
            b == at'
            q == pc'
            path == Lane.path
            v == Lane.value
            r == Visit(tree, Root, v)
            u == tree'
            c == Total2
<1>1. SettledIn(h, nn, tree, L, "finish", a, c) /\ DoneOK
  BY DEF MInv, FinishLane
<1>2. /\ h \in Histories /\ nn \in BOOLEAN /\ c \in Nat /\ TreeOK(tree, h) /\ FlowOK(tree, c)
      /\ LanesOK(tree, L, h, nn) /\ LossOK(tree, L) /\ a \in 1 .. Len(L)
      /\ \A k \in 1 .. Len(L) : k < a => L[k] = Fresh(h)
  BY <1>1 DEF SettledIn, PhaseOK
<1>3. /\ history' = h /\ neural' = nn /\ u = Credit(r, path, v) /\ M = [L EXCEPT ![a] = Fresh(h)]
      /\ IF a < Len(L) THEN b = a + 1 /\ q = "finish" ELSE b = 1 /\ q = "publish"
  BY DEF FinishLane, fixed, Visit, NewLane, Fresh
<1>4. Total2' = c + 1 /\ DoneOK'
  <2>1. /\ done \in [counted : Nat, empty : Nat]
        /\ done' = IF path = <<>> THEN [done EXCEPT !.empty = done.empty + 1]
                   ELSE [done EXCEPT !.counted = done.counted + 1]
    BY <1>1 DEF FinishLane, DoneOK
  <2>. QED
    BY <2>1 DEF Total2, DoneOK
<1>5. /\ LaneOK(tree, Lane, h, nn) /\ Lane \in LaneSet /\ Lane = L[a] /\ a \in DOMAIN L
      /\ Len(L) \in Nat /\ DOMAIN L = 1 .. Len(L) /\ L \in Seq(LaneSet)
  BY <1>2, LanesAre DEF Lane, LanesOK
<1>6. PathOK(tree, path) /\ Len(path) \in Nat /\ DOMAIN path = 1 .. Len(path) /\ v \in 0 .. 2
  BY <1>5, LaneParts DEF LaneOK
<1>. HIDE DEF h, nn, L, M, a, b, q, path, v, u, c
<1>7. /\ TreeOK(r, h) /\ SameTree(tree, r) /\ FlowOK(r, c + 1)
      /\ \A m \in 1 .. Len(tree) : r[m].kids = tree[m].kids
  BY <1>2, <1>6, RootVisited
<1>. HIDE DEF r
<1>8. Grows(tree, r) /\ PathOK(r, path)
  BY <1>2, <1>6, <1>7, SameGrows, PathStays
<1>9. /\ TreeOK(u, h) /\ SameTree(r, u) /\ FlowOK(u, c + 1) /\ Paid(r, u, Counts(r, path))
  <2>1. \A j \in 1 .. Len(path) : TakenIn(r, path[j])
    BY <1>8 DEF PathOK
  <2>2. c + 1 \in Nat
    BY <1>2
  <2>. QED
    BY <1>3, <1>6, <1>7, <2>1, <2>2, CreditKeeps
<1>10. SameTree(tree, u)
  BY <1>7, <1>9 DEF SameTree
<1>11. Paid(tree, u, Counts(tree, path))
  <2>1. Counts(r, path) = Counts(tree, path)
    <3>1. TreeEdges(r) = TreeEdges(tree)
      BY <1>2, <1>7, SameEdges
    <3>. QED
      BY <3>1 DEF Counts
  <2>2. Paid(r, u, Counts(tree, path))
    BY <1>9, <2>1
  <2>. QED
    BY <1>7, <2>2 DEF Paid, SameTree
<1>12. Grows(tree, u)
  BY <1>2, <1>10, SameGrows
<1>13. LaneOK(u, Fresh(h), h, nn) /\ Fresh(h).path = <<>>
  BY <1>2, <1>9, FreshIs DEF Fresh
<1>14. /\ M \in Seq(LaneSet) /\ Len(M) = Len(L) /\ DOMAIN M = DOMAIN L /\ M[a] = Fresh(h)
       /\ \A k \in DOMAIN L : k # a => M[k] = L[k]
  <2>1. Fresh(h) \in LaneSet
    BY <1>13 DEF LaneOK
  <2>. QED
    BY <1>3, <1>5, <2>1
<1>15. LanesOK(u, M, h, nn)
  <2>1. ASSUME NEW k \in 1 .. Len(M) PROVE LaneOK(u, M[k], h, nn)
    <3>1. CASE k = a
      BY <1>13, <1>14, <3>1
    <3>2. CASE k # a
      <4>1. M[k] = L[k] /\ LaneOK(tree, L[k], h, nn)
        BY <1>2, <1>5, <1>14, <3>2 DEF LanesOK
      <4>. QED
        BY <1>2, <1>9, <1>12, <4>1, PathStays DEF LaneOK
    <3>. QED
      BY <3>1, <3>2
  <2>. QED
    BY <1>14, <2>1 DEF LanesOK
<1>16. LossOK(u, M)
  <2>1. Paid(tree, u, Counts(tree, L[a].path)) /\ M[a].path = <<>>
    BY <1>5, <1>11, <1>13, <1>14 DEF path
  <2>. QED
    BY <1>2, <1>5, <1>10, <1>14, <2>1, LossLifted
<1>17. PhaseOK(u, M, q, b, h)
  <2>1. CASE a < Len(L)
    <3>1. b = a + 1 /\ q = "finish" /\ b \in 1 .. Len(M)
      BY <1>2, <1>3, <1>5, <1>14, <2>1
    <3>2. ASSUME NEW k \in 1 .. Len(M), k < b PROVE M[k] = Fresh(h)
      <4>1. k = a \/ (k # a /\ k < a /\ k \in DOMAIN L)
        BY <1>2, <1>5, <1>14, <3>1, <3>2
      <4>. QED
        BY <1>2, <1>5, <1>14, <4>1
    <3>. QED
      BY <3>1, <3>2 DEF PhaseOK
  <2>2. CASE ~(a < Len(L))
    <3>1. q = "publish"
      BY <1>3, <2>2
    <3>2. ASSUME NEW k \in 1 .. Len(M) PROVE M[k] = Fresh(h)
      <4>1. k = a \/ (k # a /\ k < a /\ k \in DOMAIN L)
        BY <1>2, <1>5, <1>14, <2>2
      <4>. QED
        BY <1>2, <1>5, <1>14, <4>1
    <3>. QED
      BY <3>1, <3>2 DEF PhaseOK
  <2>. QED
    BY <2>1, <2>2
<1>18. SettledIn(h, nn, u, M, q, b, c + 1)
  BY <1>2, <1>9, <1>15, <1>16, <1>17 DEF SettledIn
<1>19. MInv'
  BY <1>3, <1>4, <1>18 DEF MInv, SettledIn, u, M, q, b
<1>. QED
  BY <1>2, <1>4, <1>6, <1>9, <1>10, <1>11, <1>19 DEF u, path, c, h

LEMMA PublishKeeps ==
  ASSUME MInv, Publish
  PROVE  MInv'
<1>. DEFINE h == history
            nn == neural
            L == lanes
            M == lanes'
            q == pc'
            b == at'
            c == Total2
            E == <<>>
<1>1. SettledIn(h, nn, tree, L, "publish", b, c) /\ DoneOK
  BY DEF MInv, Publish, SettledIn, PhaseOK
<1>2. history' = h /\ neural' = nn /\ tree' = tree /\ done' = done
  BY DEF Publish, fixed
<1>3. (q = "publish" /\ M = L) \/ (q = "claim" /\ M = E)
  BY DEF Publish
<1>4. /\ h \in Histories /\ nn \in BOOLEAN /\ c \in Nat /\ TreeOK(tree, h) /\ FlowOK(tree, c)
      /\ LanesOK(tree, L, h, nn) /\ LossOK(tree, L) /\ \A k \in 1 .. Len(L) : L[k] = Fresh(h)
  BY <1>1 DEF SettledIn, PhaseOK
<1>5. Total2' = c /\ DoneOK'
  BY <1>1, <1>2 DEF Total2, DoneOK
<1>6. E \in Seq(LaneSet) /\ Len(E) = 0 /\ DOMAIN E = {} /\ \A k \in 1 .. Len(E) : FALSE
  OBVIOUS
<1>7. LossOK(tree, E)
  <2>1. IsFiniteSet(DOMAIN L) /\ DOMAIN L = 1 .. Len(L)
    BY <1>4, LanesAre
  <2>2. Fresh(h).path = <<>>
    BY DEF Fresh
  <2>. HIDE DEF L, E, h
  <2>3. \A k \in DOMAIN L : L[k].path = <<>>
    BY <1>4, <2>1, <2>2
  <2>4. IsFiniteSet(DOMAIN E) /\ \A k \in DOMAIN E : E[k].path = <<>>
    BY <1>6, FS_EmptySet
  <2>. QED
    BY <1>4, <2>1, <2>3, <2>4, LossOfIdle
<1>8. SettledIn(h, nn, tree, E, "claim", b, c)
  <2>1. LanesOK(tree, E, h, nn) /\ PhaseOK(tree, E, "claim", b, h)
    BY <1>6 DEF LanesOK, PhaseOK
  <2>. HIDE DEF h, nn, c, E, b
  <2>. QED
    BY <1>4, <1>7, <2>1 DEF SettledIn
<1>. HIDE DEF h, nn, c, E, b, q, M, L
<1>9. SettledIn(h, nn, tree, M, q, b, c)
  BY <1>1, <1>3, <1>8
<1>. QED
  BY <1>2, <1>5, <1>9 DEF MInv, SettledIn, M, q, b

\* The other steps change nothing the invariant speaks of.
LEMMA StillKeeps ==
  ASSUME MInv, UNCHANGED <<fixed, tree, lanes, pc, at, done>>
  PROVE  MInv'
<1>. DEFINE h == history
            nn == neural
<1>1. SettledIn(h, nn, tree, lanes, pc, at, Total2) /\ DoneOK
  BY DEF MInv
<1>2. history' = h /\ neural' = nn /\ Total2' = Total2 /\ DoneOK'
  BY <1>1 DEF fixed, Total2, DoneOK
<1>. QED
  BY <1>1, <1>2 DEF MInv, SettledIn

LEMMA MStep ==
  ASSUME MInv, [Next]_vars
  PROVE  MInv'
<1>1. CASE Claim
  BY <1>1, ClaimKeeps
<1>2. CASE BreakOff \/ DepthLimit
  BY <1>2, BreakOffKeeps DEF StepsDown
<1>3. CASE GameOver
  BY <1>3, GameOverKeeps DEF StepsDown
<1>4. CASE KnownOver
  BY <1>4, KnownOverKeeps DEF StepsDown
<1>5. CASE OutOfMemory
  BY <1>5, OutOfMemoryKeeps DEF StepsDown
<1>6. CASE ExpandOne
  BY <1>6, ExpandOneKeeps DEF StepsDown
<1>7. CASE SelectChild
  BY <1>7, SelectChildKeeps DEF StepsDown
<1>8. CASE ScoreBatch
  BY <1>8, ScoreBatchKeeps
<1>9. CASE FinishLane
  BY <1>9, FinishLaneKeeps
<1>10. CASE Publish
  BY <1>10, PublishKeeps
<1>11. CASE RequestStop \/ ListLine \/ ScoreLine \/ UNCHANGED vars
  <2>1. UNCHANGED <<fixed, tree, lanes, pc, at, done>>
    BY <1>11 DEF RequestStop, ListLine, ScoreLine, vars
  <2>. QED
    BY <2>1, StillKeeps
<1>. QED
  BY <1>1, <1>2, <1>3, <1>4, <1>5, <1>6, <1>7, <1>8, <1>9, <1>10, <1>11 DEF Next, Worker

\* The invariant of the worker.
LEMMA WorkerSettled == Spec => []MInv
<1>1. Init => MInv
  BY InitSettled
<1>2. MInv /\ [Next]_vars => MInv'
  BY MStep
<1>. QED
  BY <1>1, <1>2, PTL DEF Spec

\* Visits flow through the tree without loss, for every game, pool, batch and
\* number of simulations (FlowIsConserved; backpropagate and tree_find_hash).
THEOREM VisitsFlow == Spec => []FlowIsConserved
<1>1. MInv => FlowIsConserved
  <2>. SUFFICES ASSUME MInv, NEW n \in Nodes
                PROVE  tree[n].visits = MapThenSumSet(Visited, {e \in AllEdges : Edge(e).node = n})
                                        + IF n = Root THEN done.counted + done.empty ELSE 0
    BY DEF FlowIsConserved
  <2>1. TreeOK(tree, history) /\ FlowOK(tree, Total2)
    BY DEF MInv, SettledIn
  <2>2. n \in 1 .. Len(tree)
    BY <2>1, TreeSizes DEF Nodes
  <2>3. IsFiniteSet(InEdges(tree, n))
    BY <2>1, FiniteEdges
  <2>. QED
    BY <2>1, <2>2, <2>3, VisitsAreTotal DEF FlowOK, Total2
<1>. QED
  BY <1>1, WorkerSettled, PTL

\* No simulation plays on after the end of its own game or is worth anything
\* but what the rules say of its own line, but for lanes where positions
\* repeat (VerdictIsOwn; run_simulation and the batched descent).
THEOREM LinesEndInTime == Spec => []VerdictIsOwn
<1>1. MInv => VerdictIsOwn
  <2>. SUFFICES ASSUME MInv, NEW k \in DOMAIN lanes
                PROVE  /\ \A last \in Len(history) .. Len(lanes[k].line) - 1 :
                              Finished(SubSeq(lanes[k].line, 1, last)) =>
                                  neural /\ Repeated(SubSeq(lanes[k].line, 1, last))
                       /\ lanes[k].terminal /\ Finished(lanes[k].line) =>
                              \/ lanes[k].value = OwnVerdict(lanes[k].line)
                              \/ neural /\ Repeated(lanes[k].line)
    BY DEF VerdictIsOwn
  <2>1. LanesOK(tree, lanes, history, neural)
    BY DEF MInv, SettledIn
  <2>2. LaneOK(tree, lanes[k], history, neural)
    BY <2>1, LanesAre
  <2>3. OwnVerdict(lanes[k].line) = Own(lanes[k].line, history)
    BY DEF OwnVerdict, Own
  <2>. QED
    BY <2>2, <2>3 DEF LaneOK, LineOK, DecidedOK
<1>. QED
  BY <1>1, WorkerSettled, PTL

\* The sums of a batch over the lanes as totals.
Lost(e) == MapThenSumSet(LAMBDA k : Cardinality({j \in DOMAIN lanes[k].path : lanes[k].path[j] = e}),
                         DOMAIN lanes)
LEMMA LossIsTotal ==
  ASSUME NEW e, IsFiniteSet(DOMAIN lanes)
  PROVE  Lost(e) = Total(TakenBy(lanes, e), DOMAIN lanes)
<1>. DEFINE S == DOMAIN lanes
            f == TakenBy(lanes, e)
            Chosen(h) == h = [s \in SUBSET S |->
                     IF s = {} THEN 0
                     ELSE CountOf(lanes[CHOOSE x \in s : TRUE].path, e) + h[s \ {CHOOSE x \in s : TRUE}]]
            g == CHOOSE h : Chosen(h)
<1>1. Lost(e) = g[S]
  BY DEF Lost, MapThenSumSet, MapThenFoldSet, CountOf
<1>2. \A s \in SUBSET S : s # {} => CountOf(lanes[Pick(s)].path, e) = f[Pick(s)]
  <2>1. \A x \in S : f[x] = CountOf(lanes[x].path, e)
    BY DEF TakenBy
  <2>. QED
    BY <2>1, PickFrom
<1>3. \A h : SumsOf(h, f, S) <=> Chosen(h)
  <2>. HIDE DEF S, f
  <2>. QED
    BY <1>2 DEF SumsOf, AddsUp, Pick
<1>4. SumsOf(g, f, S)
  <2>1. \E h : SumsOf(h, f, S)
    BY SumsExist
  <2>. HIDE DEF S, f, Chosen
  <2>. QED
    BY <1>3, <2>1
<1>. HIDE DEF g, f
<1>5. g[S] = Total(f, S)
  BY <1>4, SumsAreTotal
<1>. QED
  BY <1>1, <1>5 DEF f

\* The virtual losses on an edge are the unfinished lanes that took it, for
\* every game, pool and batch (LossIsInFlight; the descents and backpropagate).
THEOREM LossesAreLifted == Spec => []LossIsInFlight
<1>1. MInv => LossIsInFlight
  <2>. SUFFICES ASSUME MInv, NEW e \in AllEdges PROVE Edge(e).loss = Lost(e)
    BY DEF LossIsInFlight, Lost
  <2>1. TreeOK(tree, history) /\ LanesOK(tree, lanes, history, neural) /\ LossOK(tree, lanes)
    BY DEF MInv, SettledIn
  <2>2. AllEdges = TreeEdges(tree)
    BY DEF AllEdges, TreeEdges, EdgesOf, Nodes
  <2>3. e = <<e[1], e[2]>> /\ e[1] \in 1 .. Len(tree) /\ e[2] \in 1 .. Len(tree[e[1]].kids)
    BY <2>1, <2>2, EdgesAre
  <2>4. Edge(e).loss = Total(TakenBy(lanes, <<e[1], e[2]>>), DOMAIN lanes)
    BY <2>1, <2>3 DEF LossOK, Edge
  <2>5. IsFiniteSet(DOMAIN lanes)
    BY <2>1, LanesAre
  <2>. QED
    BY <2>3, <2>4, <2>5, LossIsTotal
<1>. QED
  BY <1>1, WorkerSettled, PTL

-----------------------------------------------------------------------------
(***************************************************************************)
(* The books of the shared root: what is published, what the batch has     *)
(* summed and what still waits to be added.                                *)
(***************************************************************************)
Indices(h) == DOMAIN Successors[Last(h)]
Books(R) == [R -> [visits : Nat, value : Nat]]
Blank(R) == [i \in R |-> [visits |-> 0, value |-> 0]]
Known(pu, ta, R) == [i \in R |-> pu[i].visits + ta[i].visits]
Waiting(pe) == {a \in pe : a[2] = "visits"}
Amounts(pe) == [a \in pe |-> a[3]]

PendingOK(pe, R) ==
    /\ IsFiniteSet(pe)
    /\ \A a \in pe : a[1] \in R /\ a[2] \in {"visits", "value"} /\ a[3] \in Nat
    /\ \A a, b \in pe : a[1] = b[1] /\ a[2] = b[2] => a = b
\* What the children of the tree's root have seen covers what is booked.
Covered(t, ta, pe, pu, R) ==
    /\ \A i \in R : pu[i].visits + ta[i].visits <= t[Root].kids[i].visits
    /\ \A a \in Waiting(pe) : pu[a[1]].visits + a[3] <= t[Root].kids[a[1]].visits
BooksOK(R, t, p, ta, pe, pu, counted) ==
    /\ IsFiniteSet(R) /\ ta \in Books(R) /\ pu \in Books(R) /\ PendingOK(pe, R) /\ counted \in Nat
    /\ IF p = "publish" THEN ta = Blank(R) ELSE pe = {}
    /\ Total(Known(pu, ta, R), R) + Total(Amounts(pe), Waiting(pe)) = counted
    /\ Covered(t, ta, pe, pu, R)

LEMMA BookedAre ==
  ASSUME NEW R, NEW pu \in Books(R), NEW ta \in Books(R)
  PROVE  \A i \in R : /\ pu[i] \in [visits : Nat, value : Nat] /\ pu[i].visits \in Nat /\ pu[i].value \in Nat
                      /\ ta[i] \in [visits : Nat, value : Nat] /\ ta[i].visits \in Nat /\ ta[i].value \in Nat
                      /\ Known(pu, ta, R)[i] = pu[i].visits + ta[i].visits
                      /\ Known(pu, ta, R)[i] \in Nat
BY DEF Books, Known

LEMMA BlankIs ==
  ASSUME NEW R
  PROVE  Blank(R) \in Books(R) /\ \A i \in R : Blank(R)[i].visits = 0
BY DEF Blank, Books

LEMMA WaitingIs ==
  ASSUME NEW pe, NEW R, PendingOK(pe, R)
  PROVE  IsFiniteSet(Waiting(pe)) /\ \A a \in Waiting(pe) : Amounts(pe)[a] = a[3] /\ Amounts(pe)[a] \in Int
<1>1. Waiting(pe) \subseteq pe
  BY DEF Waiting
<1>2. IsFiniteSet(Waiting(pe))
  BY <1>1, FS_Subset DEF PendingOK
<1>. QED
  BY <1>1, <1>2 DEF PendingOK, Amounts

\* Nothing was waiting, and nothing is published: what the root's children
\* have seen may only grow.
LEMMA BooksStay ==
  ASSUME NEW R, NEW t, NEW p, NEW ta, NEW pe, NEW pu, NEW c, BooksOK(R, t, p, ta, pe, pu, c),
         NEW u, \A i \in R : u[Root].kids[i].visits = t[Root].kids[i].visits,
         NEW q, q = "publish" <=> p = "publish"
  PROVE  BooksOK(R, u, q, ta, pe, pu, c)
<1>1. Covered(t, ta, pe, pu, R) /\ PendingOK(pe, R)
  BY DEF BooksOK
<1>2. \A a \in Waiting(pe) : a[1] \in R
  BY <1>1 DEF Waiting, PendingOK
<1>3. Covered(u, ta, pe, pu, R)
  BY <1>1, <1>2 DEF Covered
<1>. QED
  BY <1>3 DEF BooksOK

LEMMA BooksBegin ==
  ASSUME NEW R, IsFiniteSet(R), NEW t, \A i \in R : t[Root].kids[i].visits = 0
  PROVE  BooksOK(R, t, "claim", Blank(R), {}, Blank(R), 0)
<1>. DEFINE b == Blank(R)
            f == Known(b, b, R)
            g == Amounts({})
            W == Waiting({})
<1>1. b \in Books(R) /\ \A i \in R : b[i].visits = 0
  BY BlankIs
<1>2. \A i \in R : f[i] = 0
  BY <1>1, BookedAre
<1>3. W = {} /\ PendingOK({}, R)
  BY FS_EmptySet DEF Waiting, PendingOK
<1>4. Total(f, R) = 0
  <2>. HIDE DEF f
  <2>. QED
    BY <1>2, TotalOfZeros
<1>5. Total(g, W) = 0
  <2>. HIDE DEF g, W
  <2>. QED
    BY <1>3, TotalEmpty
<1>6. Covered(t, b, {}, b, R)
  BY <1>1, <1>3 DEF Covered
<1>. QED
  BY <1>1, <1>3, <1>4, <1>5, <1>6 DEF BooksOK

\* One waiting add is made.
Added(pu, a) == [pu EXCEPT ![a[1]][a[2]] = @ + a[3]]
LEMMA AddedIs ==
  ASSUME NEW R, NEW pu \in Books(R), NEW a, a[1] \in R, a[2] \in {"visits", "value"}, a[3] \in Nat
  PROVE  /\ Added(pu, a) \in Books(R)
         /\ \A i \in R : Added(pu, a)[i].visits =
                pu[i].visits + IF i = a[1] /\ a[2] = "visits" THEN a[3] ELSE 0
<1>. DEFINE k == a[1]
            f == a[2]
            x == a[3]
            o == pu[k]
            v == IF f = "visits" THEN [o EXCEPT !.visits = o.visits + x] ELSE [o EXCEPT !.value = o.value + x]
<1>1. o \in [visits : Nat, value : Nat] /\ x \in Nat /\ k \in R
  BY DEF Books
<1>2. v \in [visits : Nat, value : Nat] /\ v.visits = o.visits + IF f = "visits" THEN x ELSE 0
  BY <1>1
<1>3. Added(pu, a) = [pu EXCEPT ![k] = v]
  <2>1. Added(pu, a) = [pu EXCEPT ![k] = [o EXCEPT ![f] = o[f] + x]]
    BY <1>1 DEF Added, Books
  <2>2. [o EXCEPT ![f] = o[f] + x] = v
    BY <1>1
  <2>. QED
    BY <2>1, <2>2
<1>. HIDE DEF v, o, f, x, k
<1>4. Added(pu, a) \in Books(R)
  BY <1>1, <1>2, <1>3 DEF Books
<1>5. \A i \in R : Added(pu, a)[i] = IF i = k THEN v ELSE pu[i]
  BY <1>1, <1>3 DEF Books
<1>6. \A i \in R : pu[i].visits \in Nat
  BY DEF Books
<1>. QED
  BY <1>2, <1>4, <1>5, <1>6 DEF o, f, x, k

LEMMA BooksAdd ==
  ASSUME NEW R, NEW t, NEW ta, NEW pe, NEW pu, NEW c, BooksOK(R, t, "publish", ta, pe, pu, c),
         NEW add \in pe, \A i \in R : t[Root].kids[i].visits \in Int
  PROVE  BooksOK(R, t, "publish", ta, pe \ {add}, Added(pu, add), c)
<1>. DEFINE qe == pe \ {add}
            qu == Added(pu, add)
            x == IF add[2] = "visits" THEN add[3] ELSE 0
            k == add[1]
            f == Known(pu, ta, R)
            g == Known(qu, ta, R)
            W == Waiting(pe)
            V == Waiting(qe)
            m == Amounts(pe)
            n == Amounts(qe)
<1>1. /\ IsFiniteSet(R) /\ ta \in Books(R) /\ pu \in Books(R) /\ PendingOK(pe, R) /\ c \in Nat
      /\ ta = Blank(R) /\ Total(f, R) + Total(m, W) = c /\ Covered(t, ta, pe, pu, R)
  BY DEF BooksOK
<1>2. k \in R /\ add[2] \in {"visits", "value"} /\ add[3] \in Nat /\ x \in Nat
  BY <1>1 DEF PendingOK
<1>3. qu \in Books(R) /\ \A i \in R : qu[i].visits = pu[i].visits + IF i = k THEN x ELSE 0
  <2>1. \A i \in R : pu[i].visits \in Nat
    BY <1>1, BookedAre
  <2>. QED
    BY <1>1, <1>2, <2>1, AddedIs
<1>4. PendingOK(qe, R)
  <2>1. IsFiniteSet(qe)
    BY <1>1, FS_Subset DEF PendingOK
  <2>. QED
    BY <1>1, <2>1 DEF PendingOK
<1>5. Total(g, R) = Total(f, R) + x
  <2>1. \A i \in R : f[i] \in Int /\ f[i] = pu[i].visits + ta[i].visits /\ pu[i].visits \in Nat /\ ta[i].visits \in Nat
    BY <1>1, BookedAre
  <2>2. \A i \in R : g[i] = qu[i].visits + ta[i].visits
    BY <1>1, <1>3, BookedAre
  <2>. HIDE DEF f, g, x, k, qu
  <2>3. g[k] = f[k] + x /\ \A i \in R : i # k => g[i] = f[i]
    BY <1>2, <1>3, <2>1, <2>2
  <2>4. k \in R /\ x \in Int
    BY <1>2
  <2>. QED
    BY <1>1, <2>1, <2>3, <2>4, TotalChanges
<1>6. Total(n, V) = Total(m, W) - x /\ Total(m, W) \in Int
  <2>1. IsFiniteSet(W) /\ \A a \in W : m[a] = a[3] /\ m[a] \in Int
    BY <1>1, WaitingIs
  <2>2. IsFiniteSet(V) /\ \A a \in V : n[a] = a[3]
    BY <1>4, WaitingIs
  <2>3. V = W \ {add} /\ (add \in W <=> add[2] = "visits")
    BY DEF Waiting
  <2>. HIDE DEF m, n, V, W
  <2>4. Total(m, W) \in Int /\ \A a \in W : Total(m, W) = m[a] + Total(m, W \ {a})
    BY <2>1, TotalSplits
  <2>5. \A a \in V : m[a] = n[a]
    BY <2>1, <2>2, <2>3
  <2>6. Total(n, V) = Total(m, V)
    BY <2>2, <2>5, TotalAgrees
  <2>7. IsFiniteSet(V) /\ \A a \in V : m[a] \in Int
    BY <2>1, <2>2, <2>3
  <2>8. Total(m, V) \in Int
    BY <2>7, TotalSplits
  <2>9. CASE add[2] = "visits"
    <3>1. Total(m, W) = add[3] + Total(m, V)
      BY <2>1, <2>3, <2>4, <2>9
    <3>. QED
      BY <1>2, <2>4, <2>6, <2>8, <2>9, <3>1
  <2>10. CASE add[2] # "visits"
    <3>1. V = W
      BY <2>3, <2>10
    <3>. QED
      BY <2>4, <2>6, <2>10, <3>1
  <2>. QED
    BY <2>9, <2>10
<1>7. Total(g, R) + Total(n, V) = c
  <2>1. Total(f, R) \in Int
    <3>1. \A i \in R : f[i] \in Int
      BY <1>1, BookedAre
    <3>. HIDE DEF f
    <3>. QED
      BY <1>1, <3>1, TotalSplits
  <2>. HIDE DEF f, g, m, n, V, W, x
  <2>. QED
    BY <1>1, <1>2, <1>5, <1>6, <2>1
<1>8. Covered(t, ta, qe, qu, R)
  <2>1. \A i \in R : pu[i].visits \in Nat /\ ta[i].visits = 0
    BY <1>1, BookedAre, BlankIs
  <2>2. ASSUME NEW i \in R PROVE qu[i].visits + ta[i].visits <= t[Root].kids[i].visits
    <3>1. CASE i = k /\ add[2] = "visits"
      <4>1. add \in W
        BY <3>1 DEF Waiting
      <4>2. pu[k].visits + add[3] <= t[Root].kids[k].visits
        BY <1>1, <4>1 DEF Covered
      <4>. QED
        BY <1>2, <1>3, <2>1, <3>1, <4>2
    <3>2. CASE ~(i = k /\ add[2] = "visits")
      <4>1. qu[i].visits = pu[i].visits
        BY <1>3, <2>1, <3>2
      <4>. QED
        BY <1>1, <4>1 DEF Covered
    <3>. QED
      BY <3>1, <3>2
  <2>3. ASSUME NEW a \in V PROVE qu[a[1]].visits + a[3] <= t[Root].kids[a[1]].visits
    <3>1. a \in W /\ a # add /\ a \in pe /\ a[2] = "visits" /\ a[1] \in R
      BY <1>1 DEF Waiting, PendingOK
    <3>2. a[1] = k => add[2] # "visits"
      BY <1>1, <3>1 DEF PendingOK
    <3>3. qu[a[1]].visits = pu[a[1]].visits
      BY <1>3, <2>1, <3>1, <3>2
    <3>. QED
      BY <1>1, <3>1, <3>3 DEF Covered
  <2>. QED
    BY <2>2, <2>3 DEF Covered
<1>. QED
  BY <1>1, <1>3, <1>4, <1>7, <1>8 DEF BooksOK

\* A finished simulation is noted in the sums of its batch.
Noted(ta, i, v) == [ta EXCEPT ![i] = [visits |-> @.visits + 1, value |-> @.value + v]]
LEMMA NotedIs ==
  ASSUME NEW R, NEW ta \in Books(R), NEW k \in R, NEW v \in Nat
  PROVE  /\ Noted(ta, k, v) \in Books(R)
         /\ \A i \in R : Noted(ta, k, v)[i].visits = ta[i].visits + IF i = k THEN 1 ELSE 0
<1>. DEFINE w == [visits |-> ta[k].visits + 1, value |-> ta[k].value + v]
<1>1. ta[k].visits \in Nat /\ ta[k].value \in Nat /\ \A i \in R : ta[i].visits \in Nat
  BY DEF Books
<1>2. w \in [visits : Nat, value : Nat] /\ w.visits = ta[k].visits + 1
  BY <1>1
<1>3. Noted(ta, k, v) = [ta EXCEPT ![k] = w]
  BY DEF Noted, Books
<1>. HIDE DEF w
<1>4. Noted(ta, k, v) \in Books(R) /\ \A i \in R : Noted(ta, k, v)[i] = IF i = k THEN w ELSE ta[i]
  BY <1>2, <1>3 DEF Books
<1>. QED
  BY <1>1, <1>2, <1>4

LEMMA BooksPay ==
  ASSUME NEW R, NEW t, NEW ta, NEW pu, NEW c, BooksOK(R, t, "finish", ta, {}, pu, c),
         NEW k \in R, NEW v \in Nat, NEW u,
         \A i \in R : /\ t[Root].kids[i].visits \in Nat /\ u[Root].kids[i].visits \in Nat
                      /\ u[Root].kids[i].visits >= t[Root].kids[i].visits + IF i = k THEN 1 ELSE 0
  PROVE  BooksOK(R, u, "finish", Noted(ta, k, v), {}, pu, c + 1)
<1>. DEFINE sums == Noted(ta, k, v)
            f == Known(pu, ta, R)
            g == Known(pu, sums, R)
            m == Total(Amounts({}), Waiting({}))
<1>1. /\ IsFiniteSet(R) /\ ta \in Books(R) /\ pu \in Books(R) /\ PendingOK({}, R) /\ c \in Nat
      /\ Total(f, R) + m = c /\ Covered(t, ta, {}, pu, R)
  BY DEF BooksOK
<1>2. sums \in Books(R) /\ \A i \in R : sums[i].visits = ta[i].visits + IF i = k THEN 1 ELSE 0
  BY <1>1, NotedIs
<1>3. /\ \A i \in R : /\ f[i] \in Int /\ f[i] = pu[i].visits + ta[i].visits
                      /\ pu[i].visits \in Nat /\ ta[i].visits \in Nat
      /\ \A i \in R : g[i] = pu[i].visits + sums[i].visits
  <2>1. \A i \in R : /\ f[i] \in Int /\ f[i] = pu[i].visits + ta[i].visits
                     /\ pu[i].visits \in Nat /\ ta[i].visits \in Nat
    BY <1>1, BookedAre
  <2>2. \A i \in R : g[i] = pu[i].visits + sums[i].visits
    BY <1>1, <1>2, BookedAre
  <2>. QED
    BY <2>1, <2>2
<1>4. Total(g, R) = Total(f, R) + 1 /\ Total(f, R) \in Int
  <2>. HIDE DEF f, g, sums
  <2>1. g[k] = f[k] + 1 /\ \A i \in R : i # k => g[i] = f[i]
    BY <1>2, <1>3
  <2>2. 1 \in Int
    OBVIOUS
  <2>. QED
    BY <1>1, <1>3, <2>1, <2>2, TotalChanges, TotalSplits
<1>5. m \in Int
  <2>1. IsFiniteSet(Waiting({})) /\ \A a \in Waiting({}) : Amounts({})[a] \in Int
    BY <1>1, WaitingIs
  <2>. QED
    BY <2>1, TotalSplits
<1>6. Total(g, R) + m = c + 1
  <2>. HIDE DEF f, g, m
  <2>. QED
    BY <1>1, <1>4, <1>5
<1>7. Covered(u, sums, {}, pu, R)
  <2>1. \A i \in R : pu[i].visits + sums[i].visits <= u[Root].kids[i].visits
    <3>. HIDE DEF sums
    <3>1. ASSUME NEW i \in R PROVE pu[i].visits + sums[i].visits <= u[Root].kids[i].visits
      <4>1. pu[i].visits + ta[i].visits <= t[Root].kids[i].visits
        BY <1>1 DEF Covered
      <4>. QED
        BY <1>2, <1>3, <4>1
    <3>. QED
      BY <3>1
  <2>. QED
    BY <2>1 DEF Covered, Waiting
<1>. QED
  BY <1>1, <1>2, <1>6, <1>7 DEF BooksOK

\* A simulation without a move is in no book.
LEMMA BooksSkip ==
  ASSUME NEW R, NEW t, NEW ta, NEW pu, NEW c, BooksOK(R, t, "finish", ta, {}, pu, c), NEW u,
         \A i \in R : /\ t[Root].kids[i].visits \in Nat /\ u[Root].kids[i].visits \in Nat
                      /\ u[Root].kids[i].visits >= t[Root].kids[i].visits
  PROVE  BooksOK(R, u, "finish", ta, {}, pu, c)
<1>1. Covered(t, ta, {}, pu, R) /\ ta \in Books(R) /\ pu \in Books(R)
  BY DEF BooksOK
<1>2. \A i \in R : pu[i].visits \in Nat /\ ta[i].visits \in Nat
  BY <1>1, BookedAre
<1>3. ASSUME NEW i \in R PROVE pu[i].visits + ta[i].visits <= u[Root].kids[i].visits
  <2>1. pu[i].visits + ta[i].visits <= t[Root].kids[i].visits
    BY <1>1 DEF Covered
  <2>. QED
    BY <1>2, <2>1
<1>4. Covered(u, ta, {}, pu, R)
  BY <1>3 DEF Covered, Waiting
<1>. QED
  BY <1>4 DEF BooksOK

\* What waits after a batch is what the batch has summed.
VisitAdd(sums) == [i \in DOMAIN sums |-> <<i, "visits", sums[i].visits>>]
ValueAdd(sums) == [i \in DOMAIN sums |-> <<i, "value", sums[i].value>>]
Gaining(sums) == {i \in DOMAIN sums : sums[i].visits > 0}
LEMMA AddsAre ==
  ASSUME NEW R, IsFiniteSet(R), NEW sums \in Books(R)
  PROVE  /\ PendingOK(Adds(sums), R)
         /\ Waiting(Adds(sums)) = Images(VisitAdd(sums), Gaining(sums))
<1>. DEFINE P == Gaining(sums)
            a == VisitAdd(sums)
            b == ValueAdd(sums)
            A == Images(a, P)
            B == Images(b, P)
            f == [x \in A |-> x[3]]
            g == [x \in B |-> x[3]]
            e == [i \in P |-> a[i][3]]
            d == [i \in P |-> b[i][3]]
<1>1. DOMAIN sums = R /\ \A i \in R : sums[i].visits \in Nat /\ sums[i].value \in Nat
  BY DEF Books
<1>2. P \subseteq R /\ IsFiniteSet(P)
  BY <1>1, FS_Subset DEF Gaining
<1>3. \A i \in P : /\ a[i] = <<i, "visits", sums[i].visits>> /\ b[i] = <<i, "value", sums[i].value>>
  BY <1>1, <1>2 DEF VisitAdd, ValueAdd
<1>4. Adds(sums) = A \cup B
  <2>1. \A x : x \in Adds(sums) <=>
            \E i \in P : x = <<i, "visits", sums[i].visits>> \/ x = <<i, "value", sums[i].value>>
    BY DEF Adds, Gaining
  <2>2. \A x : x \in A \cup B <=> \E i \in P : x = a[i] \/ x = b[i]
    BY DEF Images
  <2>. HIDE DEF A, B, a, b, P
  <2>3. ASSUME NEW x \in Adds(sums) PROVE x \in A \cup B
    <3>1. PICK i \in P : x = <<i, "visits", sums[i].visits>> \/ x = <<i, "value", sums[i].value>>
      BY <2>1
    <3>2. x = a[i] \/ x = b[i]
      BY <1>3, <3>1
    <3>. QED
      BY <2>2, <3>2
  <2>4. ASSUME NEW x \in A \cup B PROVE x \in Adds(sums)
    <3>1. PICK i \in P : x = a[i] \/ x = b[i]
      BY <2>2
    <3>2. x = <<i, "visits", sums[i].visits>> \/ x = <<i, "value", sums[i].value>>
      BY <1>3, <3>1
    <3>. QED
      BY <2>1, <3>2
  <2>. QED
    BY <2>3, <2>4
<1>5. IsFiniteSet(A)
  <2>1. \A i \in P : f[a[i]] \in Int /\ e[i] = f[a[i]]
    <3>1. \A i \in P : a[i] \in A
      BY DEF Images
    <3>. HIDE DEF A
    <3>. QED
      BY <1>1, <1>2, <1>3, <3>1
  <2>2. \A i, j \in P : a[i] = a[j] => i = j
    BY <1>3
  <2>. HIDE DEF a, f, e, P
  <2>. QED
    BY <1>2, <2>1, <2>2, TotalRenamed
<1>6. IsFiniteSet(B)
  <2>1. \A i \in P : g[b[i]] \in Int /\ d[i] = g[b[i]]
    <3>1. \A i \in P : b[i] \in B
      BY DEF Images
    <3>. HIDE DEF B
    <3>. QED
      BY <1>1, <1>2, <1>3, <3>1
  <2>2. \A i, j \in P : b[i] = b[j] => i = j
    BY <1>3
  <2>. HIDE DEF b, g, d, P
  <2>. QED
    BY <1>2, <2>1, <2>2, TotalRenamed
<1>7. IsFiniteSet(Adds(sums))
  BY <1>4, <1>5, <1>6, FS_Union
<1>8. /\ \A x \in A : x[1] \in R /\ x[2] = "visits" /\ x[3] = sums[x[1]].visits /\ x = <<x[1], x[2], x[3]>>
      /\ \A x \in B : x[1] \in R /\ x[2] = "value" /\ x[3] = sums[x[1]].value /\ x = <<x[1], x[2], x[3]>>
  <2>1. ASSUME NEW x \in A
        PROVE  x[1] \in R /\ x[2] = "visits" /\ x[3] = sums[x[1]].visits /\ x = <<x[1], x[2], x[3]>>
    <3>1. PICK i \in P : x = a[i]
      BY DEF Images
    <3>2. x = <<i, "visits", sums[i].visits>> /\ i \in R
      BY <1>2, <1>3, <3>1
    <3>. QED
      BY <3>2
  <2>2. ASSUME NEW x \in B
        PROVE  x[1] \in R /\ x[2] = "value" /\ x[3] = sums[x[1]].value /\ x = <<x[1], x[2], x[3]>>
    <3>1. PICK i \in P : x = b[i]
      BY DEF Images
    <3>2. x = <<i, "value", sums[i].value>> /\ i \in R
      BY <1>2, <1>3, <3>1
    <3>. QED
      BY <3>2
  <2>. QED
    BY <2>1, <2>2
<1>. HIDE DEF A, B
<1>9. Waiting(Adds(sums)) = A
  BY <1>4, <1>8 DEF Waiting
<1>10. PendingOK(Adds(sums), R)
  <2>1. ASSUME NEW x \in Adds(sums), NEW y \in Adds(sums), x[1] = y[1], x[2] = y[2] PROVE x = y
    <3>1. (x \in A /\ y \in A) \/ (x \in B /\ y \in B)
      BY <1>4, <1>8, <2>1
    <3>. QED
      BY <1>8, <2>1, <3>1
  <2>2. \A x \in Adds(sums) : x[1] \in R /\ x[2] \in {"visits", "value"} /\ x[3] \in Nat
    BY <1>1, <1>4, <1>8
  <2>. QED
    BY <1>7, <2>1, <2>2 DEF PendingOK
<1>. QED
  BY <1>9, <1>10 DEF A

LEMMA BooksClose ==
  ASSUME NEW R, NEW t, NEW sums, NEW pu, NEW c, BooksOK(R, t, "finish", sums, {}, pu, c),
         \A i \in R : t[Root].kids[i].visits \in Nat
  PROVE  BooksOK(R, t, "publish", Blank(R), Adds(sums), pu, c)
<1>. DEFINE pe == Adds(sums)
            W == Waiting(pe)
            m == Amounts(pe)
            P == Gaining(sums)
            a == VisitAdd(sums)
            f == [i \in R |-> sums[i].visits]
            h == [i \in P |-> sums[i].visits]
            n == Known(pu, Blank(R), R)
            k == Known(pu, sums, R)
            none == Total(Amounts({}), Waiting({}))
<1>1. /\ IsFiniteSet(R) /\ sums \in Books(R) /\ pu \in Books(R) /\ c \in Nat
      /\ Total(k, R) + none = c /\ Covered(t, sums, {}, pu, R)
  BY DEF BooksOK
<1>2. PendingOK(pe, R) /\ W = Images(a, P)
  BY <1>1, AddsAre
<1>3. none = 0
  <2>. DEFINE g == Amounts({})
              Z == Waiting({})
  <2>1. Z = {}
    BY DEF Waiting
  <2>. HIDE DEF g, Z
  <2>2. Total(g, Z) = 0
    BY <2>1, TotalEmpty
  <2>. QED
    BY <2>2 DEF g, Z
<1>4. /\ DOMAIN sums = R /\ P \subseteq R /\ IsFiniteSet(P)
      /\ \A i \in R : /\ sums[i].visits \in Nat /\ pu[i].visits \in Nat
                      /\ (i \notin P => sums[i].visits = 0)
  <2>1. DOMAIN sums = R /\ \A i \in R : sums[i].visits \in Nat /\ pu[i].visits \in Nat
    BY <1>1 DEF Books
  <2>. QED
    BY <1>1, <2>1, FS_Subset DEF Gaining
<1>5. \A i \in P : a[i] = <<i, "visits", sums[i].visits>>
  BY <1>4 DEF VisitAdd
<1>6. Total(m, W) = Total(h, P)
  <2>1. \A x \in W : m[x] = x[3] /\ m[x] \in Int
    BY <1>2, WaitingIs
  <2>2. \A i \in P : a[i] \in W
    BY <1>2 DEF Images
  <2>3. /\ \A i \in P : m[a[i]] \in Int /\ h[i] = m[a[i]]
        /\ \A i, j \in P : a[i] = a[j] => i = j
    BY <1>5, <2>1, <2>2
  <2>. HIDE DEF m, W, P, h, a
  <2>4. Total(m, Images(a, P)) = Total(h, P)
    BY <1>4, <2>3, TotalRenamed
  <2>. QED
    BY <1>2, <2>4
<1>7. Total(h, P) = Total(f, P)
  <2>1. \A i \in P : h[i] = f[i]
    BY <1>4
  <2>. HIDE DEF h, P, f
  <2>. QED
    BY <1>4, <2>1, TotalAgrees
<1>8. Total(f, P) = Total(f, R)
  <2>1. \A i \in R : f[i] \in Int /\ (i \in R \ P => f[i] = 0)
    BY <1>4
  <2>. HIDE DEF f, P
  <2>. QED
    BY <1>1, <1>4, <2>1, TotalOfRest
<1>9. Total(k, R) = Total(n, R) + Total(f, R)
  <2>1. \A i \in R : k[i] = pu[i].visits + sums[i].visits
    BY <1>1, BookedAre
  <2>2. \A i \in R : n[i] = pu[i].visits + 0
    BY <1>1, BlankIs, BookedAre
  <2>3. \A i \in R : f[i] = sums[i].visits
    OBVIOUS
  <2>. HIDE DEF k, n, f
  <2>4. \A i \in R : n[i] \in Int /\ f[i] \in Int /\ k[i] = n[i] + f[i]
    BY <1>4, <2>1, <2>2, <2>3
  <2>. QED
    BY <1>1, <2>4, TotalOfTwo
<1>10. Total(n, R) + Total(m, W) = c
  <2>1. Total(k, R) \in Int
    <3>1. \A i \in R : k[i] \in Int
      BY <1>1, BookedAre
    <3>. HIDE DEF k
    <3>. QED
      BY <1>1, <3>1, TotalSplits
  <2>. HIDE DEF none, k, n, f, h, m, W, P
  <2>. QED
    BY <1>1, <1>3, <1>6, <1>7, <1>8, <1>9, <2>1
<1>11. Covered(t, Blank(R), pe, pu, R)
  <2>1. \A i \in R : pu[i].visits + sums[i].visits <= t[Root].kids[i].visits
    BY <1>1 DEF Covered
  <2>2. \A i \in R : Blank(R)[i].visits = 0
    BY BlankIs
  <2>3. ASSUME NEW i \in R PROVE pu[i].visits + Blank(R)[i].visits <= t[Root].kids[i].visits
    <3>. QED
      BY <1>4, <2>1, <2>2
  <2>4. ASSUME NEW x \in W PROVE pu[x[1]].visits + x[3] <= t[Root].kids[x[1]].visits
    <3>1. PICK i \in P : x = a[i]
      BY <1>2 DEF Images
    <3>2. x[1] = i /\ x[3] = sums[i].visits /\ i \in R
      BY <1>4, <1>5, <3>1
    <3>. QED
      BY <2>1, <3>2
  <2>. QED
    BY <2>3, <2>4 DEF Covered
<1>12. Blank(R) \in Books(R)
  BY BlankIs
<1>. QED
  BY <1>1, <1>2, <1>10, <1>11, <1>12 DEF BooksOK

\* The books of the worker.
BInv == BooksOK(Indices(history), tree, pc, tally, pending, published, done.counted)

LEMMA RootKids ==
  ASSUME NEW h \in Histories, NEW t, TreeOK(t, h)
  PROVE  /\ IsFiniteSet(Indices(h)) /\ Indices(h) = 1 .. Len(t[Root].kids) /\ Root \in 1 .. Len(t)
         /\ \A i \in Indices(h) : t[Root].kids[i].visits \in Nat
<1>1. Last(h) \in Positions /\ Len(Successors[Last(h)]) \in Nat /\ Indices(h) = 1 .. Len(Successors[Last(h)])
  BY HistoryIs, Turns DEF Indices
<1>2. /\ Len(t[Root].kids) = Len(Successors[Last(h)]) /\ Root \in 1 .. Len(t) /\ t[Root] \in NodeSet
  <2>1. t \in Seq(NodeSet) /\ Len(t) >= 1 /\ RootOK(t, h)
    BY DEF TreeOK
  <2>2. Root \in 1 .. Len(t)
    BY <2>1 DEF Root
  <2>. QED
    BY <2>1, <2>2 DEF RootOK
<1>3. \A i \in 1 .. Len(t[Root].kids) : t[Root].kids[i] \in Kid
  BY <1>2 DEF NodeSet
<1>4. IsFiniteSet(Indices(h))
  BY <1>1, FS_Interval
<1>. QED
  BY <1>1, <1>2, <1>3, <1>4 DEF Kid

LEMMA BooksOfDescent ==
  ASSUME MInv, BInv, pc = "descend", StepsDown, UNCHANGED <<fixed, tally, pending, published, done>>
  PROVE  BInv'
<1>. DEFINE h == history
            R == Indices(h)
            t == tree
            u == tree'
            c == done.counted
            q == pc'
<1>1. BooksOK(R, t, "descend", tally, pending, published, c) /\ q # "publish"
  BY DEF BInv, StepsDown
<1>2. /\ history' = h /\ tally' = tally /\ pending' = pending /\ published' = published
      /\ done'.counted = c
  BY DEF fixed
<1>3. h \in Histories /\ TreeOK(t, h) /\ TreeOK(u, h) /\ Still(t, u)
  BY <1>2 DEF MInv, SettledIn, StepsDown
<1>. HIDE DEF t, u, h
<1>4. \A i \in R : u[Root].kids[i].visits = t[Root].kids[i].visits
  <2>1. R = 1 .. Len(t[Root].kids) /\ R = 1 .. Len(u[Root].kids) /\ Root \in 1 .. Len(t) /\ Root \in 1 .. Len(u)
    BY <1>3, RootKids
  <2>. HIDE DEF R
  <2>. QED
    BY <1>3, <2>1 DEF Still
<1>. HIDE DEF R, c, q
<1>5. BooksOK(R, u, q, tally, pending, published, c)
  BY <1>1, <1>4, BooksStay
<1>. QED
  BY <1>2, <1>5 DEF BInv, R, h, u, c, q

LEMMA BooksOfRest ==
  ASSUME BInv, tree' = tree, UNCHANGED <<fixed, tally, pending, published, done>>,
         pc' = "publish" <=> pc = "publish"
  PROVE  BInv'
<1>. DEFINE R == Indices(history)
            c == done.counted
            q == pc'
<1>1. BooksOK(R, tree, pc, tally, pending, published, c) /\ (q = "publish" <=> pc = "publish")
  BY DEF BInv
<1>2. /\ history' = history /\ tally' = tally /\ pending' = pending /\ published' = published
      /\ done' = done /\ tree' = tree
  BY DEF fixed
<1>. HIDE DEF R, c, q
<1>3. BooksOK(R, tree, q, tally, pending, published, c)
  BY <1>1, BooksStay
<1>. QED
  BY <1>2, <1>3 DEF BInv, R, c, q

LEMMA BooksOfPublish ==
  ASSUME MInv, BInv, Publish
  PROVE  BInv'
<1>. DEFINE R == Indices(history)
            c == done.counted
            qe == pending'
            qu == published'
            q == pc'
<1>1. BooksOK(R, tree, "publish", tally, pending, published, c)
  BY DEF BInv, Publish
<1>2. history' = history /\ tally' = tally /\ done' = done /\ tree' = tree
  BY DEF Publish, fixed
<1>3. \A i \in R : tree[Root].kids[i].visits \in Int
  <2>1. history \in Histories /\ TreeOK(tree, history)
    BY DEF MInv, SettledIn
  <2>. QED
    BY <2>1, RootKids
<1>4. \/ \E add \in pending : qe = pending \ {add} /\ qu = Added(published, add) /\ q = "publish"
      \/ pending = {} /\ qe = pending /\ qu = published /\ q = "claim"
  BY DEF Publish, Added
<1>. HIDE DEF R, c, qe, qu, q
<1>5. CASE \E add \in pending : qe = pending \ {add} /\ qu = Added(published, add) /\ q = "publish"
  <2>1. PICK add \in pending : qe = pending \ {add} /\ qu = Added(published, add) /\ q = "publish"
    BY <1>5
  <2>2. BooksOK(R, tree, "publish", tally, pending \ {add}, Added(published, add), c)
    BY <1>1, <1>3, BooksAdd
  <2>3. BooksOK(R, tree, q, tally, qe, qu, c)
    BY <2>1, <2>2
  <2>. QED
    BY <1>2, <2>3 DEF BInv, R, c, qe, qu, q
<1>6. CASE pending = {} /\ qe = pending /\ qu = published /\ q = "claim"
  <2>1. BooksOK(R, tree, q, tally, qe, qu, c)
    BY <1>1, <1>6 DEF BooksOK
  <2>. QED
    BY <1>2, <2>1 DEF BInv, R, c, qe, qu, q
<1>. QED
  BY <1>4, <1>5, <1>6

\* A finished simulation that made a move began with a child of the root,
\* which it has visited; one without a move visited none of them.
LEMMA RootKidsPaid ==
  ASSUME NEW h \in Histories, NEW t, TreeOK(t, h), NEW u, TreeOK(u, h), SameTree(t, u),
         NEW path, Len(path) \in Nat, DOMAIN path = 1 .. Len(path), PathOK(t, path), Paid(t, u, Counts(t, path))
  PROVE  /\ \A i \in Indices(h) : u[Root].kids[i].visits >= t[Root].kids[i].visits
         /\ path # <<>> => /\ path[1][2] \in Indices(h)
                           /\ u[Root].kids[path[1][2]].visits >= t[Root].kids[path[1][2]].visits + 1
<1>. DEFINE R == Indices(h)
            d == Counts(t, path)
            k == path[1][2]
<1>1. /\ R = 1 .. Len(t[Root].kids) /\ Root \in 1 .. Len(t)
      /\ \A i \in R : t[Root].kids[i].visits \in Nat
  BY RootKids
<1>2. \A i \in R : /\ d[<<Root, i>>] = CountOf(path, <<Root, i>>) /\ d[<<Root, i>>] \in Nat
                   /\ u[Root].kids[i].visits = t[Root].kids[i].visits + d[<<Root, i>>]
  <2>1. ASSUME NEW i \in R
        PROVE  /\ d[<<Root, i>>] = CountOf(path, <<Root, i>>)
               /\ u[Root].kids[i].visits = t[Root].kids[i].visits + d[<<Root, i>>]
    <3>. HIDE DEF R
    <3>1. i \in 1 .. Len(t[Root].kids)
      BY <1>1
    <3>2. <<Root, i>> \in TreeEdges(t)
      BY <1>1, <3>1, EdgesAre
    <3>3. d[<<Root, i>>] = CountOf(path, <<Root, i>>)
      BY <3>2 DEF Counts
    <3>4. u[Root].kids[i].visits = t[Root].kids[i].visits + d[<<Root, i>>]
      BY <1>1, <3>1 DEF Paid
    <3>. QED
      BY <3>3, <3>4
  <2>2. \A e : CountOf(path, e) \in Nat
    BY CountIs
  <2>. QED
    BY <2>1, <2>2
<1>3. ASSUME path # <<>>
      PROVE  k \in R /\ d[<<Root, k>>] >= 1
  <2>1. 1 \in 1 .. Len(path)
    BY <1>3
  <2>. DEFINE e == path[1]
  <2>2. TakenIn(t, e) /\ e[1] = Root
    BY <1>3, <2>1 DEF PathOK
  <2>3. e = <<Root, k>> /\ k \in R
    BY <1>1, <2>2, EdgesAre DEF TakenIn
  <2>4. CountOf(path, e) >= 1
    <3>1. \E j \in 1 .. Len(path) : path[j] = e
      BY <2>1
    <3>. QED
      BY <3>1, CountIs
  <2>. HIDE DEF R, d, k, e
  <2>. QED
    BY <1>2, <2>3, <2>4
<1>. HIDE DEF R, d, k
<1>4. ASSUME NEW i \in R
      PROVE  /\ u[Root].kids[i].visits >= t[Root].kids[i].visits
             /\ d[<<Root, i>>] >= 1 => u[Root].kids[i].visits >= t[Root].kids[i].visits + 1
  <2>. DEFINE x == t[Root].kids[i].visits
              y == u[Root].kids[i].visits
              z == d[<<Root, i>>]
  <2>1. x \in Nat /\ z \in Nat /\ y = x + z
    BY <1>1, <1>2
  <2>. HIDE DEF x, y, z
  <2>2. y >= x /\ (z >= 1 => y >= x + 1)
    BY <2>1
  <2>. QED
    BY <2>2 DEF x, y, z
<1>5. path # <<>> => k \in R /\ u[Root].kids[k].visits >= t[Root].kids[k].visits + 1
  BY <1>3, <1>4
<1>. QED
  BY <1>4, <1>5 DEF R, k

LEMMA BooksOfFinish ==
  ASSUME MInv, BInv, FinishLane
  PROVE  BInv'
<1>. DEFINE h == history
            R == Indices(h)
            t == tree
            u == tree'
            path == Lane.path
            v == Lane.value
            k == path[1][2]
            c == done.counted
            d == done'.counted
            ta == tally
            sums == IF path = <<>> THEN ta ELSE Noted(ta, k, v)
            pu == published
            q == pc'
<1>1. BooksOK(R, t, "finish", ta, {}, pu, c) /\ pending = {}
  BY DEF BInv, FinishLane, BooksOK
<1>2. h \in Histories /\ v \in Nat /\ done \in [counted : Nat, empty : Nat]
  <2>1. LanesOK(tree, lanes, history, neural) /\ at \in 1 .. Len(lanes)
    BY DEF MInv, SettledIn, PhaseOK, FinishLane
  <2>2. Lane \in LaneSet
    BY <2>1, LanesAre DEF Lane
  <2>3. v \in 0 .. 2
    BY <2>2 DEF LaneSet
  <2>. QED
    BY <2>3 DEF MInv, SettledIn, DoneOK
<1>3. /\ history' = h /\ pu = published'
      /\ \/ tally' = sums /\ pending' = pending /\ q = "finish"
         \/ tally' = Nothing /\ pending' = Adds(sums) /\ q = "publish"
  BY DEF FinishLane, fixed, Noted
<1>4. d = IF path = <<>> THEN c ELSE c + 1
  <2>1. done' = IF path = <<>> THEN [done EXCEPT !.empty = done.empty + 1]
                ELSE [done EXCEPT !.counted = done.counted + 1]
    BY DEF FinishLane
  <2>. HIDE DEF path
  <2>. QED
    BY <1>2, <2>1
<1>5. /\ TreeOK(t, h) /\ TreeOK(u, h) /\ SameTree(t, u) /\ Paid(t, u, Counts(t, path))
      /\ PathOK(t, path) /\ Len(path) \in Nat /\ DOMAIN path = 1 .. Len(path)
  <2>1. TreeOK(u, h)
    BY FinishLaneKeeps
  <2>. QED
    BY <2>1, FinishLaneKeeps
<1>6. Nothing = Blank(R)
  BY DEF Nothing, RootIndices, Blank, Indices
<1>. HIDE DEF h, R, t, u, path, v, k, c, d, ta, pu, q
<1>7. /\ \A i \in R : /\ t[Root].kids[i].visits \in Nat /\ u[Root].kids[i].visits \in Nat
                      /\ u[Root].kids[i].visits >= t[Root].kids[i].visits
      /\ path # <<>> => k \in R /\ u[Root].kids[k].visits >= t[Root].kids[k].visits + 1
  <2>1. /\ \A i \in R : t[Root].kids[i].visits \in Nat
        /\ \A i \in R : u[Root].kids[i].visits \in Nat
    BY <1>2, <1>5, RootKids DEF R
  <2>2. \A i \in R : u[Root].kids[i].visits >= t[Root].kids[i].visits
    BY <1>2, <1>5, RootKidsPaid DEF R
  <2>3. path # <<>> => k \in R /\ u[Root].kids[k].visits >= t[Root].kids[k].visits + 1
    BY <1>2, <1>5, RootKidsPaid DEF R, k
  <2>. QED
    BY <2>1, <2>2, <2>3
<1>8. BooksOK(R, u, "finish", sums, {}, pu, d)
  <2>1. CASE path = <<>>
    BY <1>1, <1>4, <1>7, <2>1, BooksSkip
  <2>2. CASE path # <<>>
    <3>1. \A i \in R : /\ t[Root].kids[i].visits \in Nat /\ u[Root].kids[i].visits \in Nat
                       /\ u[Root].kids[i].visits >= t[Root].kids[i].visits + IF i = k THEN 1 ELSE 0
      BY <1>7, <2>2
    <3>2. BooksOK(R, u, "finish", Noted(ta, k, v), {}, pu, c + 1)
      BY <1>1, <1>2, <1>7, <2>2, <3>1, BooksPay
    <3>. QED
      BY <1>4, <2>2, <3>2
  <2>. QED
    BY <2>1, <2>2
<1>. HIDE DEF sums
<1>9. BooksOK(R, u, "publish", Blank(R), Adds(sums), pu, d)
  BY <1>7, <1>8, BooksClose
<1>10. BooksOK(R, u, q, tally', pending', pu, d)
  BY <1>1, <1>3, <1>6, <1>8, <1>9
<1>. QED
  BY <1>3, <1>10 DEF BInv, R, u, d, q, h

LEMMA InitBooks ==
  ASSUME Init, MInv
  PROVE  BInv
<1>. DEFINE h == history
            R == Indices(h)
            t == tree
<1>1. /\ tally = Nothing /\ pending = {} /\ published = Nothing /\ pc = "claim" /\ done.counted = 0
      /\ tree = Expand(<<NewNode(Last(history))>>, Root, Successors[Last(history)])
  BY DEF Init
<1>2. h \in Histories /\ TreeOK(t, h) /\ Nothing = Blank(R)
  BY DEF MInv, SettledIn, Nothing, RootIndices, Blank, Indices
<1>3. \A i \in R : t[Root].kids[i].visits = 0
  <2>. DEFINE o == NewNode(Last(h))
              k == [i \in R |-> [node |-> 0, visits |-> 0, value |-> 0, loss |-> 0]]
              x == [o EXCEPT !.expanded = TRUE, !.kids = k]
  <2>1. t = [<<o>> EXCEPT ![Root].expanded = TRUE, ![Root].kids = k]
    BY <1>1 DEF Expand, Root, NewNode, Indices
  <2>2. "kids" \in DOMAIN o /\ "expanded" \in DOMAIN o
    BY DEF NewNode
  <2>3. \A i \in R : k[i].visits = 0
    OBVIOUS
  <2>. HIDE DEF o, k
  <2>4. x.kids = k
    BY <2>2
  <2>5. [<<o>> EXCEPT ![Root].expanded = TRUE, ![Root].kids = k] = <<x>>
    BY <2>2 DEF Root
  <2>. HIDE DEF x
  <2>6. t = <<x>>
    BY <2>1, <2>5
  <2>7. t[Root].kids = k
    BY <2>4, <2>6 DEF Root
  <2>. QED
    BY <2>3, <2>7
<1>4. IsFiniteSet(R)
  BY <1>2, RootKids
<1>. HIDE DEF R, t, h
<1>5. BooksOK(R, t, "claim", Blank(R), {}, Blank(R), 0)
  BY <1>3, <1>4, BooksBegin
<1>. QED
  BY <1>1, <1>2, <1>5 DEF BInv, R, t, h

LEMMA BStep ==
  ASSUME MInv, BInv, [Next]_vars
  PROVE  BInv'
<1>1. CASE Claim
  <2>1. /\ tree' = tree /\ UNCHANGED <<fixed, tally, pending, published, done>>
        /\ pc' # "publish" /\ pc # "publish"
    BY <1>1 DEF Claim
  <2>. QED
    BY <2>1, BooksOfRest
<1>2. CASE BreakOff \/ DepthLimit
  <2>1. pc = "descend" /\ UNCHANGED <<fixed, tally, pending, published, done>>
    BY <1>2 DEF BreakOff, DepthLimit
  <2>. QED
    BY <1>2, <2>1, BreakOffKeeps, BooksOfDescent
<1>3. CASE GameOver
  <2>1. pc = "descend" /\ UNCHANGED <<fixed, tally, pending, published, done>>
    BY <1>3 DEF GameOver, Descending
  <2>. QED
    BY <1>3, <2>1, GameOverKeeps, BooksOfDescent
<1>4. CASE KnownOver
  <2>1. pc = "descend" /\ UNCHANGED <<fixed, tally, pending, published, done>>
    BY <1>4 DEF KnownOver, Descending
  <2>. QED
    BY <1>4, <2>1, KnownOverKeeps, BooksOfDescent
<1>5. CASE OutOfMemory
  <2>1. pc = "descend" /\ UNCHANGED <<fixed, tally, pending, published, done>>
    BY <1>5 DEF OutOfMemory, GoesOn, Descending
  <2>. QED
    BY <1>5, <2>1, OutOfMemoryKeeps, BooksOfDescent
<1>6. CASE ExpandOne
  <2>1. pc = "descend" /\ UNCHANGED <<fixed, tally, pending, published, done>>
    BY <1>6 DEF ExpandOne, GoesOn, Descending
  <2>. QED
    BY <1>6, <2>1, ExpandOneKeeps, BooksOfDescent
<1>7. CASE SelectChild
  <2>1. pc = "descend" /\ UNCHANGED <<fixed, tally, pending, published, done>>
    BY <1>7 DEF SelectChild, GoesOn, Descending
  <2>. QED
    BY <1>7, <2>1, SelectChildKeeps, BooksOfDescent
<1>8. CASE ScoreBatch
  <2>1. /\ tree' = tree /\ UNCHANGED <<fixed, tally, pending, published, done>>
        /\ pc' # "publish" /\ pc # "publish"
    BY <1>8 DEF ScoreBatch
  <2>. QED
    BY <2>1, BooksOfRest
<1>9. CASE FinishLane
  BY <1>9, BooksOfFinish
<1>10. CASE Publish
  BY <1>10, BooksOfPublish
<1>11. CASE RequestStop \/ ListLine \/ ScoreLine \/ UNCHANGED vars
  <2>1. /\ tree' = tree /\ UNCHANGED <<fixed, tally, pending, published, done>> /\ pc' = pc
    BY <1>11 DEF RequestStop, ListLine, ScoreLine, vars
  <2>. QED
    BY <2>1, BooksOfRest
<1>. QED
  BY <1>1, <1>2, <1>3, <1>4, <1>5, <1>6, <1>7, <1>8, <1>9, <1>10, <1>11 DEF Next, Worker

LEMMA WorkerBooked == Spec => []BInv
<1>1. Init => MInv
  BY InitSettled
<1>2. Init /\ MInv => BInv
  BY InitBooks
<1>3. MInv /\ BInv /\ [Next]_vars => BInv'
  BY BStep
<1>. QED
  BY <1>1, <1>2, <1>3, WorkerSettled, PTL DEF Spec

\* The sums of PublishedOnce as totals.
Shown == MapThenSumSet(LAMBDA i : published[i].visits + tally[i].visits, RootIndices)
Due == MapThenSumSet(LAMBDA add : add[3], {add \in pending : add[2] = "visits"})
LEMMA ShownIsTotal ==
  ASSUME IsFiniteSet(RootIndices)
  PROVE  Shown = Total(Known(published, tally, RootIndices), RootIndices)
<1>. DEFINE S == RootIndices
            f == Known(published, tally, S)
            Chosen(h) == h = [s \in SUBSET S |->
                     IF s = {} THEN 0
                     ELSE published[CHOOSE x \in s : TRUE].visits + tally[CHOOSE x \in s : TRUE].visits
                              + h[s \ {CHOOSE x \in s : TRUE}]]
            g == CHOOSE h : Chosen(h)
<1>1. Shown = g[S]
  BY DEF Shown, MapThenSumSet, MapThenFoldSet
<1>2. \A s \in SUBSET S : s # {} => published[Pick(s)].visits + tally[Pick(s)].visits = f[Pick(s)]
  <2>1. \A x \in S : f[x] = published[x].visits + tally[x].visits
    BY DEF Known
  <2>. QED
    BY <2>1, PickFrom
<1>3. \A h : SumsOf(h, f, S) <=> Chosen(h)
  <2>. HIDE DEF S, f
  <2>. QED
    BY <1>2 DEF SumsOf, AddsUp, Pick
<1>4. SumsOf(g, f, S)
  <2>1. \E h : SumsOf(h, f, S)
    BY SumsExist
  <2>. HIDE DEF S, f, Chosen
  <2>. QED
    BY <1>3, <2>1
<1>. HIDE DEF g, f
<1>5. g[S] = Total(f, S)
  BY <1>4, SumsAreTotal
<1>. QED
  BY <1>1, <1>5 DEF f

LEMMA DueIsTotal ==
  ASSUME IsFiniteSet(Waiting(pending))
  PROVE  Due = Total(Amounts(pending), Waiting(pending))
<1>. DEFINE S == Waiting(pending)
            f == Amounts(pending)
            Chosen(h) == h = [s \in SUBSET S |->
                     IF s = {} THEN 0 ELSE (CHOOSE x \in s : TRUE)[3] + h[s \ {CHOOSE x \in s : TRUE}]]
            g == CHOOSE h : Chosen(h)
<1>1. Due = g[S]
  BY DEF Due, MapThenSumSet, MapThenFoldSet, Waiting
<1>2. \A s \in SUBSET S : s # {} => Pick(s)[3] = f[Pick(s)]
  <2>1. \A x \in S : f[x] = x[3]
    BY DEF Amounts, Waiting
  <2>. QED
    BY <2>1, PickFrom
<1>3. \A h : SumsOf(h, f, S) <=> Chosen(h)
  <2>. HIDE DEF S, f
  <2>. QED
    BY <1>2 DEF SumsOf, AddsUp, Pick
<1>4. SumsOf(g, f, S)
  <2>1. \E h : SumsOf(h, f, S)
    BY SumsExist
  <2>. HIDE DEF S, f, Chosen
  <2>. QED
    BY <1>3, <2>1
<1>. HIDE DEF g, f
<1>5. g[S] = Total(f, S)
  BY <1>4, SumsAreTotal
<1>. QED
  BY <1>1, <1>5 DEF f

\* Every simulation that made a move is published exactly once, and no child
\* is published more often than it was visited, for every game, batch and
\* number of simulations (PublishedOnce; run_neural_batch's root_visits).
THEOREM PublishedExactlyOnce == Spec => []PublishedOnce
<1>1. MInv /\ BInv => PublishedOnce
  <2>. SUFFICES ASSUME MInv, BInv
                PROVE  /\ Shown + Due = done.counted
                       /\ \A i \in RootIndices : published[i].visits <= tree[Root].kids[i].visits
    BY DEF PublishedOnce, Shown, Due
  <2>. DEFINE R == RootIndices
  <2>1. BooksOK(R, tree, pc, tally, pending, published, done.counted)
    BY DEF BInv, Indices, RootIndices
  <2>2. /\ IsFiniteSet(R) /\ tally \in Books(R) /\ published \in Books(R) /\ PendingOK(pending, R)
        /\ Total(Known(published, tally, R), R) + Total(Amounts(pending), Waiting(pending)) = done.counted
        /\ Covered(tree, tally, pending, published, R)
    BY <2>1 DEF BooksOK
  <2>3. Shown + Due = done.counted
    BY <2>2, ShownIsTotal, DueIsTotal, WaitingIs
  <2>4. \A i \in R : tree[Root].kids[i].visits \in Nat
    BY RootKids DEF MInv, SettledIn, Indices, RootIndices
  <2>5. \A i \in R : published[i].visits <= tree[Root].kids[i].visits
    BY <2>2, <2>4, BookedAre DEF Covered
  <2>. QED
    BY <2>3, <2>5
<1>. QED
  BY <1>1, WorkerSettled, WorkerBooked, PTL

=============================================================================
