--------------------------------- MODULE Sums ---------------------------------
(***************************************************************************)
(* What a sum over a finite set of indices computes (SumFunctionOnSet).      *)
(* Induction is stated over a set, the subsets for which a claim holds, and  *)
(* proved from a minimal counterexample.                                    *)
(***************************************************************************)
EXTENDS Integers, Functions, FiniteSets, FiniteSetTheorems, WellFoundedInduction, TLAPS

\* A non-empty set of natural numbers has a least one.
LEMMA LeastNatural ==
  ASSUME NEW T \in SUBSET Nat, T # {}
  PROVE  \E n \in T : \A k \in T : n <= k
<1>1. PICK n \in T : \A k \in T : ~ (<<k, n>> \in OpToRel(<, Nat))
  BY NatLessThanWellFounded, WFMin
<1>2. \A k \in T : n <= k
  <2> SUFFICES ASSUME NEW k \in T, k < n PROVE FALSE
    OBVIOUS
  <2>1. <<k, n>> \in Nat \X Nat
    OBVIOUS
  <2>2. <<k, n>>[1] < <<k, n>>[2]
    OBVIOUS
  <2>3. <<k, n>> \in OpToRel(<, Nat)
    BY <2>1, <2>2 DEF OpToRel
  <2> QED BY <1>1, <2>3
<1> QED BY <1>2

\* A set of natural numbers with 0 and with the successor of each of its members
\* is all of them.
LEMMA InductionOnNumbers ==
  ASSUME NEW P \in SUBSET Nat, 0 \in P, \A n \in P : n + 1 \in P
  PROVE  P = Nat
<1> SUFFICES ASSUME Nat \ P # {} PROVE FALSE
  OBVIOUS
<1> PICK n \in Nat \ P : \A k \in Nat \ P : n <= k
  BY LeastNatural
<1>1. n # 0 /\ n - 1 \in Nat /\ ~(n <= n - 1) /\ (n - 1) + 1 = n
  OBVIOUS
<1>2. n - 1 \in P
  BY <1>1
<1> QED BY <1>1, <1>2

\* A set of subsets of S with every subset whose smaller subsets, by one element,
\* are in it, is all of them.
LEMMA InductionOnSubsets ==
  ASSUME NEW S, IsFiniteSet(S), NEW P \in SUBSET SUBSET S,
         \A U \in SUBSET S : (\A x \in U : U \ {x} \in P) => U \in P
  PROVE  P = SUBSET S
<1> DEFINE N == {n \in Nat : \A U \in SUBSET S : Cardinality(U) = n => U \in P}
<1>0. \A U \in SUBSET S : IsFiniteSet(U) /\ Cardinality(U) \in Nat
  BY FS_Subset, FS_CardinalityType
<1>1. 0 \in N
  BY <1>0, FS_EmptySet
<1>2. \A n \in N : n + 1 \in N
  <2> SUFFICES ASSUME NEW n \in N, NEW U \in SUBSET S, Cardinality(U) = n + 1
               PROVE  U \in P
    OBVIOUS
  <2>1. n \in Nat /\ (n + 1) - 1 = n
    OBVIOUS
  <2>2. ASSUME NEW x \in U PROVE U \ {x} \in P
    <3>1. Cardinality(U \ {x}) = Cardinality(U) - 1
      BY <1>0, FS_RemoveElement
    <3> QED BY <2>1, <3>1
  <2> QED BY <2>2
<1> HIDE DEF N
<1>3. N = Nat
  <2>1. N \in SUBSET Nat
    BY DEF N
  <2> QED BY <1>1, <1>2, <2>1, InductionOnNumbers
<1> QED BY <1>0, <1>3 DEF N

\* Among finitely many things one comes last in an order.
LEMMA LastOne ==
  ASSUME NEW S, IsFiniteSet(S), S # {}, NEW f, \A x \in S : f[x] \in Int
  PROVE  \E x \in S : \A y \in S : f[y] <= f[x]
<1> DEFINE P == {U \in SUBSET S : U = {} \/ \E x \in U : \A y \in U : f[y] <= f[x]}
<1>1. ASSUME NEW U \in SUBSET S, \A x \in U : U \ {x} \in P
      PROVE  U \in P
  <2>1. CASE U = {}
    BY <2>1
  <2>2. CASE U # {}
    <3> PICK z \in U : TRUE
      BY <2>2
    <3>1. U \ {z} \in P
      BY <1>1
    <3>2. CASE U = {z}
      <4>1. \A y \in U : f[y] <= f[z]
        BY <3>2
      <4> QED BY <4>1
    <3>3. CASE U # {z}
      <4> PICK x \in U \ {z} : \A y \in U \ {z} : f[y] <= f[x]
        BY <3>1, <3>3
      <4>1. CASE f[z] <= f[x]
        BY <4>1
      <4>2. CASE ~(f[z] <= f[x])
        <5>1. \A y \in U : f[y] <= f[z]
          BY <4>2
        <5> QED BY <5>1
      <4> QED BY <4>1, <4>2
    <3> QED BY <3>2, <3>3
  <2> QED BY <2>1, <2>2
<1>2. P \in SUBSET SUBSET S
  OBVIOUS
<1>3. P = SUBSET S
  <2> HIDE DEF P
  <2> QED BY <1>1, <1>2, InductionOnSubsets
<1>4. S \in P
  BY <1>3
<1> QED BY <1>4

-----------------------------------------------------------------------------
(* The recursive function behind the sum                                   *)

First(s) == CHOOSE x \in s : TRUE
Fold(f, S, g) ==
  [s \in SUBSET S |-> IF s = {} THEN 0 ELSE f[First(s)] + g[s \ {First(s)}]]

LEMMA SumIsFold ==
  ASSUME NEW f, NEW S
  PROVE  SumFunctionOnSet(f, S) = (CHOOSE g : g = Fold(f, S, g))[S]
  BY DEF SumFunctionOnSet, FoldFunctionOnSet, MapThenFoldSet, Fold, First

\* h folds the subsets with at most n elements.
FoldsUpTo(f, S, h, n) ==
  \A s \in SUBSET S : Cardinality(s) <= n =>
    h[s] = IF s = {} THEN 0 ELSE f[First(s)] + h[s \ {First(s)}]

LEMMA FoldExists ==
  ASSUME NEW f, NEW S, IsFiniteSet(S)
  PROVE  \E g : g = Fold(f, S, g)
<1> DEFINE N == {n \in Nat : \E h : FoldsUpTo(f, S, h, n)}
<1>0. \A s \in SUBSET S : IsFiniteSet(s) /\ Cardinality(s) \in Nat
  BY FS_Subset, FS_CardinalityType
<1>1. 0 \in N
  <2>1. \A s \in SUBSET S : Cardinality(s) <= 0 => s = {}
    BY <1>0, FS_EmptySet
  <2>2. FoldsUpTo(f, S, [s \in SUBSET S |-> 0], 0)
    BY <2>1 DEF FoldsUpTo
  <2> QED BY <2>2
<1>2. \A n \in N : n + 1 \in N
  <2> SUFFICES ASSUME NEW n \in N PROVE n + 1 \in N
    OBVIOUS
  <2> PICK h : FoldsUpTo(f, S, h, n)
    OBVIOUS
  <2> DEFINE k == [s \in SUBSET S |-> IF s = {} THEN 0 ELSE f[First(s)] + h[s \ {First(s)}]]
  <2>1. ASSUME NEW s \in SUBSET S, Cardinality(s) <= n
        PROVE  k[s] = h[s]
    BY <2>1 DEF FoldsUpTo
  <2>2. ASSUME NEW s \in SUBSET S, Cardinality(s) <= n + 1, s # {}
        PROVE  k[s] = f[First(s)] + k[s \ {First(s)}]
    <3>1. First(s) \in s
      BY <2>2 DEF First
    <3>2. Cardinality(s \ {First(s)}) = Cardinality(s) - 1
      BY <1>0, <3>1, FS_RemoveElement
    <3>3. Cardinality(s \ {First(s)}) <= n
      BY <1>0, <2>2, <3>2
    <3>4. k[s \ {First(s)}] = h[s \ {First(s)}]
      BY <2>1, <3>3
    <3> QED BY <2>2, <3>4
  <2>3. FoldsUpTo(f, S, k, n + 1)
    <3>1. {} \in SUBSET S /\ k[{}] = 0
      OBVIOUS
    <3> HIDE DEF k
    <3> QED BY <2>2, <3>1 DEF FoldsUpTo
  <2> QED BY <2>3
<1> HIDE DEF N
<1>3. N = Nat
  <2>1. N \in SUBSET Nat
    BY DEF N
  <2> QED BY <1>1, <1>2, <2>1, InductionOnNumbers
<1>4. Cardinality(S) \in N
  BY <1>0, <1>3
<1> PICK h : FoldsUpTo(f, S, h, Cardinality(S))
  BY <1>4 DEF N
<1> DEFINE g == [s \in SUBSET S |-> h[s]]
<1>5. \A s \in SUBSET S : Cardinality(s) <= Cardinality(S)
  BY FS_Subset
<1>6. ASSUME NEW s \in SUBSET S
      PROVE  g[s] = IF s = {} THEN 0 ELSE f[First(s)] + g[s \ {First(s)}]
  <2>1. s \ {First(s)} \in SUBSET S
    OBVIOUS
  <2> QED BY <1>5, <2>1 DEF FoldsUpTo
<1>7. g = Fold(f, S, g)
  BY <1>6 DEF Fold
<1> QED BY <1>7

Folder(f, S) == CHOOSE g : g = Fold(f, S, g)

LEMMA FoldChosen ==
  ASSUME NEW f, NEW S, IsFiniteSet(S)
  PROVE  /\ Folder(f, S)[{}] = 0
         /\ \A s \in SUBSET S : s # {} =>
              Folder(f, S)[s] = f[First(s)] + Folder(f, S)[s \ {First(s)}]
<1>1. Folder(f, S) = Fold(f, S, Folder(f, S))
  BY FoldExists DEF Folder
<1> QED BY <1>1 DEF Fold

LEMMA FoldStep ==
  ASSUME NEW f, NEW S, IsFiniteSet(S), NEW s \in SUBSET S, s # {}
  PROVE  Folder(f, S)[s] = f[First(s)] + Folder(f, S)[s \ {First(s)}]
<1>1. Folder(f, S) = Fold(f, S, Folder(f, S))
  BY FoldExists DEF Folder
<1> QED BY <1>1 DEF Fold

\* The folds over a set and over a subset of it agree.
LEMMA FoldsAgree ==
  ASSUME NEW f, NEW S, IsFiniteSet(S), NEW U \in SUBSET S
  PROVE  Folder(f, S)[U] = SumFunctionOnSet(f, U)
<1> DEFINE P == {s \in SUBSET U : Folder(f, S)[s] = Folder(f, U)[s]}
<1>1. IsFiniteSet(U)
  BY FS_Subset
<1>2. ASSUME NEW s \in SUBSET U, \A x \in s : s \ {x} \in P
      PROVE  s \in P
  <2>1. CASE s = {}
    BY <1>1, <2>1, FoldChosen
  <2>2. CASE s # {}
    <3>1. First(s) \in s
      BY <2>2 DEF First
    <3>2. Folder(f, S)[s \ {First(s)}] = Folder(f, U)[s \ {First(s)}]
      BY <1>2, <3>1
    <3>0. s \in SUBSET S
      OBVIOUS
    <3>3. Folder(f, S)[s] = f[First(s)] + Folder(f, S)[s \ {First(s)}]
      BY <2>2, <3>0, FoldStep
    <3>4. Folder(f, U)[s] = f[First(s)] + Folder(f, U)[s \ {First(s)}]
      <4> HIDE DEF P
      <4>1. s \in SUBSET U
        OBVIOUS
      <4> QED BY <1>1, <2>2, <4>1, FoldStep
    <3> QED BY <3>2, <3>3, <3>4
  <2> QED BY <2>1, <2>2
<1> HIDE DEF P
<1>3. P = SUBSET U
  <2>1. P \in SUBSET SUBSET U
    BY DEF P
  <2> QED BY <1>1, <1>2, <2>1, InductionOnSubsets
<1>4. Folder(f, S)[U] = Folder(f, U)[U]
  BY <1>3 DEF P
<1> QED BY <1>4, SumIsFold DEF Folder

-----------------------------------------------------------------------------
(* Sums                                                                    *)

LEMMA SumEmpty ==
  ASSUME NEW f
  PROVE  SumFunctionOnSet(f, {}) = 0
<1>1. IsFiniteSet({})
  BY FS_EmptySet
<1> QED BY <1>1, SumIsFold, FoldChosen DEF Folder

\* A sum starts with one of its terms.
LEMMA SumFirst ==
  ASSUME NEW f, NEW S, IsFiniteSet(S), S # {}
  PROVE  /\ First(S) \in S
         /\ SumFunctionOnSet(f, S) = f[First(S)] + SumFunctionOnSet(f, S \ {First(S)})
<1>1. First(S) \in S
  BY DEF First
<1>2. Folder(f, S)[S] = f[First(S)] + Folder(f, S)[S \ {First(S)}]
  BY FoldChosen
<1>3. Folder(f, S)[S \ {First(S)}] = SumFunctionOnSet(f, S \ {First(S)})
  BY FoldsAgree
<1> QED BY <1>1, <1>2, <1>3, SumIsFold DEF Folder

\* A sum of integers is an integer.
LEMMA SumType ==
  ASSUME NEW S, IsFiniteSet(S), NEW f, \A x \in S : f[x] \in Int
  PROVE  SumFunctionOnSet(f, S) \in Int
<1> DEFINE P == {U \in SUBSET S : SumFunctionOnSet(f, U) \in Int}
<1>1. ASSUME NEW U \in SUBSET S, \A x \in U : U \ {x} \in P
      PROVE  U \in P
  <2>1. IsFiniteSet(U)
    BY FS_Subset
  <2>2. CASE U = {}
    BY <2>2, SumEmpty
  <2>3. CASE U # {}
    <3>1. /\ First(U) \in U
          /\ SumFunctionOnSet(f, U) = f[First(U)] + SumFunctionOnSet(f, U \ {First(U)})
      BY <2>1, <2>3, SumFirst
    <3>2. SumFunctionOnSet(f, U \ {First(U)}) \in Int
      BY <1>1, <3>1
    <3> QED BY <3>1, <3>2
  <2> QED BY <2>2, <2>3
<1> HIDE DEF P
<1>2. P = SUBSET S
  <2>1. P \in SUBSET SUBSET S
    BY DEF P
  <2> QED BY <1>1, <2>1, InductionOnSubsets
<1> QED BY <1>2 DEF P

\* Of natural numbers a natural number.
LEMMA SumNat ==
  ASSUME NEW S, IsFiniteSet(S), NEW f, \A x \in S : f[x] \in Nat
  PROVE  SumFunctionOnSet(f, S) \in Nat
<1> DEFINE P == {U \in SUBSET S : SumFunctionOnSet(f, U) \in Nat}
<1>1. ASSUME NEW U \in SUBSET S, \A x \in U : U \ {x} \in P
      PROVE  U \in P
  <2>1. IsFiniteSet(U)
    BY FS_Subset
  <2>2. CASE U = {}
    BY <2>2, SumEmpty
  <2>3. CASE U # {}
    <3>1. /\ First(U) \in U
          /\ SumFunctionOnSet(f, U) = f[First(U)] + SumFunctionOnSet(f, U \ {First(U)})
      BY <2>1, <2>3, SumFirst
    <3>2. SumFunctionOnSet(f, U \ {First(U)}) \in Nat
      BY <1>1, <3>1
    <3> QED BY <3>1, <3>2
  <2> QED BY <2>2, <2>3
<1> HIDE DEF P
<1>2. P = SUBSET S
  <2>1. P \in SUBSET SUBSET S
    BY DEF P
  <2> QED BY <1>1, <2>1, InductionOnSubsets
<1> QED BY <1>2 DEF P

\* Any one term may be taken out first.
LEMMA SumRemove ==
  ASSUME NEW S, IsFiniteSet(S), NEW f, \A x \in S : f[x] \in Int, NEW a \in S
  PROVE  SumFunctionOnSet(f, S) = f[a] + SumFunctionOnSet(f, S \ {a})
<1> DEFINE P == {U \in SUBSET S : \A x \in U :
                   SumFunctionOnSet(f, U) = f[x] + SumFunctionOnSet(f, U \ {x})}
<1>1. ASSUME NEW U \in SUBSET S, \A x \in U : U \ {x} \in P
      PROVE  U \in P
  <2> SUFFICES ASSUME NEW x \in U
               PROVE  SumFunctionOnSet(f, U) = f[x] + SumFunctionOnSet(f, U \ {x})
    OBVIOUS
  <2> PICK c : c = First(U)
    OBVIOUS
  <2>1. c \in U /\ SumFunctionOnSet(f, U) = f[c] + SumFunctionOnSet(f, U \ {c})
    BY FS_Subset, SumFirst
  <2>2. CASE x # c
    <3>1. SumFunctionOnSet(f, U \ {c}) = f[x] + SumFunctionOnSet(f, (U \ {c}) \ {x})
      BY <1>1, <2>1, <2>2
    <3>2. SumFunctionOnSet(f, U \ {x}) = f[c] + SumFunctionOnSet(f, (U \ {x}) \ {c})
      BY <1>1, <2>1, <2>2
    <3>3. (U \ {c}) \ {x} = (U \ {x}) \ {c}
      OBVIOUS
    <3>4. SumFunctionOnSet(f, (U \ {c}) \ {x}) \in Int
      <4>1. IsFiniteSet((U \ {c}) \ {x})
        BY FS_Subset
      <4> QED BY <4>1, SumType
    <3> PICK t \in Int : t = SumFunctionOnSet(f, (U \ {c}) \ {x})
      BY <3>4
    <3> PICK a1 \in Int, a2 \in Int : a1 = f[x] /\ a2 = f[c]
      BY <2>1
    <3>5. SumFunctionOnSet(f, U) = a2 + (a1 + t)
      BY <2>1, <3>1
    <3>6. f[x] + SumFunctionOnSet(f, U \ {x}) = a1 + (a2 + t)
      BY <3>2, <3>3
    <3> QED BY <3>5, <3>6
  <2>3. CASE x = c
    BY <2>1, <2>3
  <2> QED BY <2>2, <2>3
<1> HIDE DEF P
<1>2. P = SUBSET S
  <2>1. P \in SUBSET SUBSET S
    BY DEF P
  <2> QED BY <1>1, <2>1, InductionOnSubsets
<1> QED BY <1>2 DEF P

\* Equal terms have equal sums.
LEMMA SumEqual ==
  ASSUME NEW S, IsFiniteSet(S), NEW f, NEW g, \A x \in S : f[x] = g[x]
  PROVE  SumFunctionOnSet(f, S) = SumFunctionOnSet(g, S)
<1> DEFINE P == {U \in SUBSET S : SumFunctionOnSet(f, U) = SumFunctionOnSet(g, U)}
<1>1. ASSUME NEW U \in SUBSET S, \A x \in U : U \ {x} \in P
      PROVE  U \in P
  <2>1. CASE U = {}
    BY <2>1, SumEmpty
  <2>2. CASE U # {}
    <3>1. /\ First(U) \in U
          /\ SumFunctionOnSet(f, U) = f[First(U)] + SumFunctionOnSet(f, U \ {First(U)})
          /\ SumFunctionOnSet(g, U) = g[First(U)] + SumFunctionOnSet(g, U \ {First(U)})
      BY <2>2, FS_Subset, SumFirst
    <3> QED BY <1>1, <3>1
  <2> QED BY <2>1, <2>2
<1> HIDE DEF P
<1>2. P = SUBSET S
  <2>1. P \in SUBSET SUBSET S
    BY DEF P
  <2> QED BY <1>1, <2>1, InductionOnSubsets
<1> QED BY <1>2 DEF P

\* The sum of sums.
LEMMA SumPlus ==
  ASSUME NEW S, IsFiniteSet(S), NEW f, NEW g, NEW h,
         \A x \in S : f[x] \in Int /\ g[x] \in Int /\ h[x] = f[x] + g[x]
  PROVE  SumFunctionOnSet(h, S) = SumFunctionOnSet(f, S) + SumFunctionOnSet(g, S)
<1> DEFINE P == {U \in SUBSET S :
      SumFunctionOnSet(h, U) = SumFunctionOnSet(f, U) + SumFunctionOnSet(g, U)}
<1>1. ASSUME NEW U \in SUBSET S, \A x \in U : U \ {x} \in P
      PROVE  U \in P
  <2>1. CASE U = {}
    BY <2>1, SumEmpty
  <2>2. CASE U # {}
    <3> PICK c : c = First(U)
      OBVIOUS
    <3>1. /\ c \in U
          /\ SumFunctionOnSet(f, U) = f[c] + SumFunctionOnSet(f, U \ {c})
          /\ SumFunctionOnSet(g, U) = g[c] + SumFunctionOnSet(g, U \ {c})
          /\ SumFunctionOnSet(h, U) = h[c] + SumFunctionOnSet(h, U \ {c})
      BY <2>2, FS_Subset, SumFirst
    <3>2. SumFunctionOnSet(f, U \ {c}) \in Int /\ SumFunctionOnSet(g, U \ {c}) \in Int
      <4>1. IsFiniteSet(U \ {c})
        BY FS_Subset
      <4> QED BY <4>1, SumType
    <3>3. SumFunctionOnSet(h, U \ {c})
            = SumFunctionOnSet(f, U \ {c}) + SumFunctionOnSet(g, U \ {c})
      BY <1>1, <3>1
    <3> QED BY <3>1, <3>2, <3>3
  <2> QED BY <2>1, <2>2
<1> HIDE DEF P
<1>2. P = SUBSET S
  <2>1. P \in SUBSET SUBSET S
    BY DEF P
  <2> QED BY <1>1, <2>1, InductionOnSubsets
<1> QED BY <1>2 DEF P

\* Greater terms have a greater sum.
LEMMA SumMonotone ==
  ASSUME NEW S, IsFiniteSet(S), NEW f, NEW g,
         \A x \in S : f[x] \in Int /\ g[x] \in Int /\ f[x] <= g[x]
  PROVE  SumFunctionOnSet(f, S) <= SumFunctionOnSet(g, S)
<1> DEFINE d == [x \in S |-> g[x] - f[x]]
<1>1. \A x \in S : d[x] \in Nat /\ g[x] = f[x] + d[x]
  OBVIOUS
<1> HIDE DEF d
<1>2. SumFunctionOnSet(d, S) \in Nat
  BY <1>1, SumNat
<1>3. SumFunctionOnSet(f, S) \in Int
  BY SumType
<1>4. SumFunctionOnSet(g, S) = SumFunctionOnSet(f, S) + SumFunctionOnSet(d, S)
  BY <1>1, SumPlus
<1> QED BY <1>2, <1>3, <1>4

\* Terms that are all zero.
LEMMA SumZero ==
  ASSUME NEW S, IsFiniteSet(S), NEW f, \A x \in S : f[x] = 0
  PROVE  SumFunctionOnSet(f, S) = 0
<1> PICK n \in Int : n = SumFunctionOnSet(f, S)
  BY SumType
<1>1. SumFunctionOnSet(f, S) = SumFunctionOnSet(f, S) + SumFunctionOnSet(f, S)
  BY SumPlus
<1>2. n = n + n
  BY <1>1
<1>3. \A m \in Int : m + m = m => m = 0
  OBVIOUS
<1> QED BY <1>2, <1>3

\* One term that changes.
DifferAt(a, f, g, S) ==
  \A x \in S : f[x] \in Int /\ g[x] \in Int /\ (x # a => g[x] = f[x])

LEMMA SumChange ==
  ASSUME NEW S, IsFiniteSet(S), NEW a \in S, NEW f, NEW g, DifferAt(a, f, g, S)
  PROVE  SumFunctionOnSet(g, S) = SumFunctionOnSet(f, S) + g[a] - f[a]
<1>d. \A x \in S : f[x] \in Int /\ g[x] \in Int /\ (x # a => g[x] = f[x])
  BY DEF DifferAt
<1>1. IsFiniteSet(S \ {a})
  BY FS_Subset
<1>2. SumFunctionOnSet(g, S \ {a}) = SumFunctionOnSet(f, S \ {a})
  BY <1>d, <1>1, SumEqual
<1>3. SumFunctionOnSet(f, S \ {a}) \in Int
  BY <1>d, <1>1, SumType
<1>4. SumFunctionOnSet(f, S) = f[a] + SumFunctionOnSet(f, S \ {a})
  BY <1>d, SumRemove
<1>5. SumFunctionOnSet(g, S) = g[a] + SumFunctionOnSet(g, S \ {a})
  BY <1>d, SumRemove
<1>6. f[a] \in Int /\ g[a] \in Int
  BY <1>d
<1> QED BY <1>2, <1>3, <1>4, <1>5, <1>6

\* No term of natural numbers is more than their sum.
LEMMA SumBounds ==
  ASSUME NEW S, IsFiniteSet(S), NEW f, \A x \in S : f[x] \in Nat, NEW a \in S
  PROVE  f[a] <= SumFunctionOnSet(f, S)
<1>1. SumFunctionOnSet(f, S) = f[a] + SumFunctionOnSet(f, S \ {a})
  BY SumRemove
<1>2. SumFunctionOnSet(f, S \ {a}) \in Nat
  BY FS_Subset, SumNat
<1> QED BY <1>1, <1>2

\* The sum over two parts.
LEMMA SumUnion ==
  ASSUME NEW S, NEW T, IsFiniteSet(S), IsFiniteSet(T), S \cap T = {},
         NEW f, \A x \in S \union T : f[x] \in Int
  PROVE  SumFunctionOnSet(f, S \union T) = SumFunctionOnSet(f, S) + SumFunctionOnSet(f, T)
<1> DEFINE P == {U \in SUBSET T :
      SumFunctionOnSet(f, S \union U) = SumFunctionOnSet(f, S) + SumFunctionOnSet(f, U)}
<1>1. ASSUME NEW U \in SUBSET T, \A x \in U : U \ {x} \in P
      PROVE  U \in P
  <2>0. IsFiniteSet(U) /\ IsFiniteSet(S \union U)
    BY FS_Subset, FS_Union
  <2>1. CASE U = {}
    <3>1. SumFunctionOnSet(f, S) \in Int
      BY SumType
    <3>2. S \union U = S
      BY <2>1
    <3> QED BY <2>1, <3>1, <3>2, SumEmpty
  <2>2. CASE U # {}
    <3> PICK c : c \in U
      BY <2>2
    <3>1. SumFunctionOnSet(f, S \union U) = f[c] + SumFunctionOnSet(f, (S \union U) \ {c})
      BY <2>0, SumRemove
    <3>2. (S \union U) \ {c} = S \union (U \ {c})
      OBVIOUS
    <3>3. SumFunctionOnSet(f, U) = f[c] + SumFunctionOnSet(f, U \ {c})
      BY <2>0, SumRemove
    <3>4. SumFunctionOnSet(f, S \union (U \ {c}))
            = SumFunctionOnSet(f, S) + SumFunctionOnSet(f, U \ {c})
      BY <1>1
    <3>5. SumFunctionOnSet(f, S) \in Int /\ f[c] \in Int
      BY SumType
    <3>6. SumFunctionOnSet(f, U \ {c}) \in Int
      <4>1. IsFiniteSet(U \ {c}) /\ \A x \in U \ {c} : f[x] \in Int
        BY <2>0, FS_Subset
      <4> QED BY <4>1, SumType
    <3> HIDE DEF P
    <3>7. SumFunctionOnSet(f, S \union U) = SumFunctionOnSet(f, S) + SumFunctionOnSet(f, U)
      <4>1. PICK a \in Int, b \in Int, d \in Int :
              /\ a = SumFunctionOnSet(f, S)
              /\ b = SumFunctionOnSet(f, U \ {c})
              /\ d = f[c]
        BY <3>5, <3>6
      <4>2. SumFunctionOnSet(f, S \union U) = d + (a + b)
        BY <3>1, <3>2, <3>4, <4>1, Zenon
      <4>3. SumFunctionOnSet(f, U) = d + b
        BY <3>3, <4>1, Zenon
      <4>4. d + (a + b) = a + (d + b)
        OBVIOUS
      <4> QED BY <4>1, <4>2, <4>3, <4>4, Zenon
    <3> QED BY <3>7 DEF P
  <2> QED BY <2>1, <2>2
<1> HIDE DEF P
<1>2. P = SUBSET T
  <2>1. P \in SUBSET SUBSET T
    BY DEF P
  <2> QED BY <1>1, <2>1, InductionOnSubsets
<1> QED BY <1>2 DEF P

\* Grouping: the sum is the sum of the sums of the groups.
GroupSums(g, f, key, S, K) ==
  /\ \A x \in S : key[x] \in K /\ f[x] \in Int
  /\ \A k \in K : g[k] = SumFunctionOnSet(f, {x \in S : key[x] = k})

LEMMA SumByKey ==
  ASSUME NEW S, NEW K, IsFiniteSet(S), IsFiniteSet(K), NEW key, NEW f, NEW g,
         GroupSums(g, f, key, S, K)
  PROVE  SumFunctionOnSet(f, S) = SumFunctionOnSet(g, K)
<1>a. \A x \in S : key[x] \in K /\ f[x] \in Int
  BY DEF GroupSums
<1>b. \A k \in K : g[k] = SumFunctionOnSet(f, {x \in S : key[x] = k})
  BY DEF GroupSums
<1> DEFINE P == {U \in SUBSET K :
      SumFunctionOnSet(f, {x \in S : key[x] \in U}) = SumFunctionOnSet(g, U)}
<1>0. \A k \in K : g[k] \in Int
  <2> SUFFICES ASSUME NEW k \in K PROVE g[k] \in Int
    OBVIOUS
  <2>1. IsFiniteSet({x \in S : key[x] = k})
    BY FS_Subset
  <2> QED BY <1>a, <1>b, <2>1, SumType
<1>1. ASSUME NEW U \in SUBSET K, \A x \in U : U \ {x} \in P
      PROVE  U \in P
  <2>1. CASE U = {}
    <3>1. {x \in S : key[x] \in U} = {}
      BY <2>1
    <3> QED BY <2>1, <3>1, SumEmpty
  <2>2. CASE U # {}
    <3> PICK c : c \in U
      BY <2>2
    <3> DEFINE A == {x \in S : key[x] = c}
               B == {x \in S : key[x] \in U \ {c}}
    <3>1. {x \in S : key[x] \in U} = A \union B /\ A \cap B = {}
      OBVIOUS
    <3>2. IsFiniteSet(A) /\ IsFiniteSet(B) /\ IsFiniteSet(U)
      BY FS_Subset
    <3>3. \A x \in A \union B : f[x] \in Int
      BY <1>a
    <3>4. SumFunctionOnSet(f, A) = g[c]
      BY <1>b
    <3>5. SumFunctionOnSet(f, B) = SumFunctionOnSet(g, U \ {c})
      BY <1>1
    <3> HIDE DEF A, B
    <3>6. SumFunctionOnSet(f, A \union B) = SumFunctionOnSet(f, A) + SumFunctionOnSet(f, B)
      BY <3>1, <3>2, <3>3, SumUnion
    <3>7. SumFunctionOnSet(g, U) = g[c] + SumFunctionOnSet(g, U \ {c})
      BY <1>0, <3>2, SumRemove
    <3> QED BY <3>1, <3>4, <3>5, <3>6, <3>7
  <2> QED BY <2>1, <2>2
<1> HIDE DEF P
<1>2. P = SUBSET K
  <2>1. P \in SUBSET SUBSET K
    BY DEF P
  <2> QED BY <1>1, <2>1, InductionOnSubsets
<1>3. {x \in S : key[x] \in K} = S
  BY <1>a
<1> QED BY <1>2, <1>3 DEF P

\* A sum over a list, one term longer.
LEMMA SumNext ==
  ASSUME NEW n \in Nat, NEW f, \A i \in 1..(n + 1) : f[i] \in Int
  PROVE  SumFunctionOnSet(f, 1..(n + 1)) = SumFunctionOnSet(f, 1..n) + f[n + 1]
<1>1. IsFiniteSet(1..(n + 1)) /\ IsFiniteSet(1..n)
  BY FS_Interval
<1>2. n + 1 \in 1..(n + 1) /\ (1..(n + 1)) \ {n + 1} = 1..n
  OBVIOUS
<1>3. SumFunctionOnSet(f, 1..(n + 1)) = f[n + 1] + SumFunctionOnSet(f, 1..n)
  BY <1>1, <1>2, SumRemove
<1>4. SumFunctionOnSet(f, 1..n) \in Int
  BY <1>1, SumType
<1> QED BY <1>2, <1>3, <1>4

\* Terms within b of each other have sums within b for each term.
LEMMA SumsWithin ==
  ASSUME NEW n \in Nat, NEW b \in Nat, NEW f, NEW g,
         \A i \in 1..n : f[i] \in Int /\ g[i] \in Int /\ f[i] - g[i] <= b /\ g[i] - f[i] <= b
  PROVE  /\ SumFunctionOnSet(f, 1..n) \in Int /\ SumFunctionOnSet(g, 1..n) \in Int
         /\ SumFunctionOnSet(f, 1..n) - SumFunctionOnSet(g, 1..n) <= n * b
         /\ SumFunctionOnSet(g, 1..n) - SumFunctionOnSet(f, 1..n) <= n * b
<1> DEFINE Near(k) == /\ SumFunctionOnSet(f, 1..k) - SumFunctionOnSet(g, 1..k) <= k * b
                      /\ SumFunctionOnSet(g, 1..k) - SumFunctionOnSet(f, 1..k) <= k * b
           N == {k \in Nat : k <= n => Near(k)}
<1>0. \A k \in Nat : k <= n =>
        SumFunctionOnSet(f, 1..k) \in Int /\ SumFunctionOnSet(g, 1..k) \in Int
  <2> SUFFICES ASSUME NEW k \in Nat, k <= n
               PROVE  SumFunctionOnSet(f, 1..k) \in Int /\ SumFunctionOnSet(g, 1..k) \in Int
    OBVIOUS
  <2>1. IsFiniteSet(1..k) /\ 1..k \subseteq 1..n
    BY FS_Interval
  <2>2. \A i \in 1..k : f[i] \in Int /\ g[i] \in Int
    BY <2>1
  <2> QED BY <2>1, <2>2, SumType
<1>1. Near(0)
  <2>1. 1..0 = {}
    OBVIOUS
  <2>2. SumFunctionOnSet(f, 1..0) = 0 /\ SumFunctionOnSet(g, 1..0) = 0
    BY <2>1, SumEmpty
  <2>3. 0 * b = 0
    OBVIOUS
  <2> QED BY <2>2, <2>3
<1>2. ASSUME NEW k \in Nat, k <= n => Near(k), k + 1 <= n
      PROVE  Near(k + 1)
  <2>1. k + 1 \in 1..n /\ (\A i \in 1..(k + 1) : i \in 1..n) /\ k <= n
    BY <1>2
  <2>2. /\ SumFunctionOnSet(f, 1..(k + 1)) = SumFunctionOnSet(f, 1..k) + f[k + 1]
        /\ SumFunctionOnSet(g, 1..(k + 1)) = SumFunctionOnSet(g, 1..k) + g[k + 1]
    BY <2>1, SumNext
  <2>3. (k + 1) * b = k * b + b /\ k * b \in Int
    BY SMT
  <2>4. PICK x \in Int, y \in Int, u \in Int, v \in Int :
          /\ x = SumFunctionOnSet(f, 1..k) /\ y = SumFunctionOnSet(g, 1..k)
          /\ u = f[k + 1] /\ v = g[k + 1]
    BY <1>0, <2>1
  <2>5. x - y <= k * b /\ y - x <= k * b
    BY <1>2, <2>1, <2>4
  <2>6. u - v <= b /\ v - u <= b
    BY <2>1, <2>4
  <2>7. (x + u) - (y + v) <= (k + 1) * b /\ (y + v) - (x + u) <= (k + 1) * b
    BY <2>3, <2>5, <2>6
  <2> QED BY <2>2, <2>4, <2>7
<1> HIDE DEF Near
<1>3. N = Nat
  <2>1. N \in SUBSET Nat /\ 0 \in N
    BY <1>1
  <2>2. \A k \in N : k + 1 \in N
    BY <1>2
  <2> HIDE DEF N
  <2> QED BY <2>1, <2>2, InductionOnNumbers
<1>4. Near(n)
  BY <1>3
<1> QED BY <1>0, <1>4 DEF Near

\* A common factor of a sum.
Multiples(g, c, f, n) == \A i \in 1..n : f[i] \in Nat /\ g[i] = c * f[i]

LEMMA SumTimes ==
  ASSUME NEW n \in Nat, NEW c \in Nat, NEW f, NEW g, Multiples(g, c, f, n)
  PROVE  SumFunctionOnSet(g, 1..n) = c * SumFunctionOnSet(f, 1..n)
<1>m. \A i \in 1..n : f[i] \in Nat /\ g[i] = c * f[i]
  BY DEF Multiples
<1> DEFINE Times(k) == SumFunctionOnSet(g, 1..k) = c * SumFunctionOnSet(f, 1..k)
           N == {k \in Nat : k <= n => Times(k)}
<1>0. \A i \in 1..n : f[i] \in Int /\ g[i] \in Int
  BY <1>m, SMT
<1>1. Times(0)
  <2>1. 1..0 = {} /\ c * 0 = 0
    OBVIOUS
  <2> QED BY <2>1, SumEmpty
<1>2. ASSUME NEW k \in Nat, k <= n => Times(k), k + 1 <= n
      PROVE  Times(k + 1)
  <2>1. k + 1 \in 1..n /\ (\A i \in 1..(k + 1) : i \in 1..n) /\ k <= n /\ \A i \in 1..k : i \in 1..n
    BY <1>2
  <2>2. /\ SumFunctionOnSet(f, 1..(k + 1)) = SumFunctionOnSet(f, 1..k) + f[k + 1]
        /\ SumFunctionOnSet(g, 1..(k + 1)) = SumFunctionOnSet(g, 1..k) + g[k + 1]
    BY <1>0, <2>1, SumNext
  <2>3. SumFunctionOnSet(f, 1..k) \in Int
    <3>1. IsFiniteSet(1..k) /\ \A i \in 1..k : f[i] \in Int
      BY <1>0, <2>1, FS_Interval
    <3> QED BY <3>1, SumType
  <2>4. PICK x \in Int, u \in Int : x = SumFunctionOnSet(f, 1..k) /\ u = f[k + 1]
    BY <1>0, <2>1, <2>3
  <2>5. c * (x + u) = c * x + c * u
    BY SMT
  <2>6. SumFunctionOnSet(g, 1..k) = c * x /\ g[k + 1] = c * u
    BY <1>2, <1>m, <2>1, <2>4
  <2> QED BY <2>2, <2>4, <2>5, <2>6
<1> HIDE DEF Times
<1>3. N = Nat
  <2>1. N \in SUBSET Nat /\ 0 \in N
    BY <1>1
  <2>2. \A k \in N : k + 1 \in N
    BY <1>2
  <2> HIDE DEF N
  <2> QED BY <2>1, <2>2, InductionOnNumbers
<1>4. Times(n)
  BY <1>3
<1> QED BY <1>4 DEF Times

-----------------------------------------------------------------------------
(* Recursion over the natural numbers                                       *)

\* h follows the step G from z up to n.
Follows(h, z, G, n) == h[0] = z /\ \A i \in 0..(n - 1) : h[i + 1] = G[h[i], i + 1]

LEMMA FollowersAgree ==
  ASSUME NEW z, NEW G, NEW n \in Nat
  PROVE  \A g, h : Follows(g, z, G, n) /\ Follows(h, z, G, n) => g[n] = h[n]
<1> DEFINE N == {k \in Nat : \A g, h :
                   Follows(g, z, G, k) /\ Follows(h, z, G, k) => g[k] = h[k]}
<1>1. 0 \in N
  BY DEF Follows
<1>2. \A k \in N : k + 1 \in N
  <2> SUFFICES ASSUME NEW k \in N, NEW g, NEW h,
                      Follows(g, z, G, k + 1), Follows(h, z, G, k + 1)
               PROVE  g[k + 1] = h[k + 1]
    OBVIOUS
  <2>1. k \in Nat /\ k \in 0..((k + 1) - 1) /\ 0..(k - 1) \subseteq 0..((k + 1) - 1)
    OBVIOUS
  <2>2. Follows(g, z, G, k) /\ Follows(h, z, G, k)
    BY <2>1 DEF Follows
  <2>3. g[k] = h[k]
    BY <2>2
  <2> HIDE DEF N
  <2> QED BY <2>1, <2>3 DEF Follows
<1> HIDE DEF N
<1>3. N = Nat
  <2>1. N \in SUBSET Nat
    BY DEF N
  <2> QED BY <1>1, <1>2, <2>1, InductionOnNumbers
<1> QED BY <1>3 DEF N

LEMMA UpTo ==
  ASSUME NEW k \in Nat
  PROVE  /\ 0 \in 0..k /\ k \in 0..k
         /\ \A i \in 0..k : i \in Nat /\ i # k + 1
         /\ \A i \in 0..((k + 1) - 1) :
              i # k => i \in 0..(k - 1) /\ i \in 0..k /\ i + 1 \in 0..k
OBVIOUS

LEMMA FollowerExists ==
  ASSUME NEW V, NEW z \in V, NEW G \in [V \X Nat -> V], NEW n \in Nat
  PROVE  \E h \in [Nat -> V] : Follows(h, z, G, n)
<1>2. ASSUME NEW k \in Nat, NEW h \in [Nat -> V], Follows(h, z, G, k)
      PROVE  \E g \in [Nat -> V] : Follows(g, z, G, k + 1)
  <2>1. h[k] \in V /\ k + 1 \in Nat
    OBVIOUS
  <2>2. G[h[k], k + 1] \in V
    BY <2>1
  <2> PICK v \in V : v = G[h[k], k + 1]
    BY <2>2
  <2>g. PICK g : g = [h EXCEPT ![k + 1] = v]
    OBVIOUS
  <2>3. g \in [Nat -> V]
    BY <2>1, <2>g
  <2>4. g[k + 1] = v
    BY <2>1, <2>g
  <2>5. \A i \in 0..k : i \in Nat /\ g[i] = h[i]
    <3> TAKE i \in 0..k
    <3>1. i \in Nat /\ i # k + 1
      BY UpTo, Zenon
    <3> QED BY <2>g, <3>1
  <2>6. ASSUME NEW i \in 0..((k + 1) - 1) PROVE g[i + 1] = G[g[i], i + 1]
    <3>1. CASE i = k
      <4>1. k \in 0..k
        BY UpTo, Zenon
      <4>2. g[k] = h[k]
        BY <2>5, <4>1
      <4> QED BY <2>4, <3>1, <4>2
    <3>2. CASE i # k
      <4>1. i \in 0..(k - 1) /\ i \in 0..k /\ i + 1 \in 0..k
        BY <3>2, UpTo, Zenon
      <4>2. h[i + 1] = G[h[i], i + 1]
        BY <1>2, <4>1 DEF Follows
      <4>3. g[i] = h[i] /\ g[i + 1] = h[i + 1]
        BY <2>5, <4>1
      <4> QED BY <4>2, <4>3
    <3> QED BY <3>1, <3>2
  <2>7. g[0] = z
    <3>1. 0 \in 0..k
      BY UpTo, Zenon
    <3> QED BY <1>2, <2>5, <3>1 DEF Follows
  <2>8. Follows(g, z, G, k + 1)
    BY <2>6, <2>7 DEF Follows
  <2> QED BY <2>3, <2>8
<1> DEFINE N == {k \in Nat : \E h \in [Nat -> V] : Follows(h, z, G, k)}
<1>1. 0 \in N
  <2>1. Follows([i \in Nat |-> z], z, G, 0)
    BY DEF Follows
  <2> QED BY <2>1
<1>3. N = Nat
  <2>1. N \in SUBSET Nat
    OBVIOUS
  <2>2. \A k \in N : k + 1 \in N
    <3> TAKE k \in N
    <3>1. k \in Nat /\ k + 1 \in Nat
      OBVIOUS
    <3> QED BY <1>2, <3>1
  <2> HIDE DEF N
  <2> QED BY <1>1, <2>1, <2>2, InductionOnNumbers
<1> QED BY <1>3

\* A step from V to V, from a start in V, has a recursive function.
Recursion(f, z, G) == f[0] = z /\ \A n \in Nat : f[n + 1] = G[f[n], n + 1]

LEMMA RecursionExists ==
  ASSUME NEW V, NEW z \in V, NEW G \in [V \X Nat -> V]
  PROVE  \E f \in [Nat -> V] : Recursion(f, z, G)
<1> DEFINE h(n) == CHOOSE g \in [Nat -> V] : Follows(g, z, G, n)
           f == [n \in Nat |-> h(n)[n]]
<1>1. \A n \in Nat : h(n) \in [Nat -> V] /\ Follows(h(n), z, G, n)
  BY FollowerExists
<1> HIDE DEF h
<1>2. f \in [Nat -> V] /\ \A n \in Nat : f[n] = h(n)[n]
  BY <1>1
<1> HIDE DEF f
<1>3. f[0] = z
  BY <1>1, <1>2 DEF Follows
<1>4. ASSUME NEW n \in Nat PROVE f[n + 1] = G[f[n], n + 1]
  <2>1. n + 1 \in Nat /\ n \in 0..((n + 1) - 1) /\ 0..(n - 1) \subseteq 0..((n + 1) - 1)
    OBVIOUS
  <2> PICK g : g = h(n + 1)
    OBVIOUS
  <2>2. Follows(g, z, G, n + 1)
    BY <1>1, <2>1
  <2>3. Follows(g, z, G, n)
    BY <2>1, <2>2 DEF Follows
  <2>4. g[n] = h(n)[n]
    BY <1>1, <2>3, FollowersAgree
  <2>5. g[n + 1] = G[g[n], n + 1]
    BY <2>1, <2>2 DEF Follows
  <2> QED BY <1>2, <2>1, <2>4, <2>5
<1>5. Recursion(f, z, G)
  BY <1>3, <1>4 DEF Recursion
<1> QED BY <1>2, <1>5

\* The image of a finite set is finite.
LEMMA ImageFinite ==
  ASSUME NEW S, IsFiniteSet(S), NEW f
  PROVE  IsFiniteSet({f[x] : x \in S})
<1>1. PICK R, g : R = {f[x] : x \in S} /\ g = [x \in S |-> f[x]]
  OBVIOUS
<1>2. g \in Surjection(S, R)
  BY <1>1 DEF Surjection
<1>3. IsFiniteSet(R)
  BY <1>2, FS_Surjection, Zenon
<1> QED BY <1>1, <1>3

\* A sum of two terms.
LEMMA TwoTerms ==
  ASSUME NEW f, f[1] \in Int, f[2] \in Int
  PROVE  SumFunctionOnSet(f, 1..2) = f[1] + f[2]
<1>1. SumFunctionOnSet(f, 1..(1 + 1)) = SumFunctionOnSet(f, 1..1) + f[1 + 1]
  <2>1. \A i \in 1..(1 + 1) : f[i] \in Int
    OBVIOUS
  <2> QED BY <2>1, SumNext
<1>2. SumFunctionOnSet(f, 1..(0 + 1)) = SumFunctionOnSet(f, 1..0) + f[0 + 1]
  <2>1. \A i \in 1..(0 + 1) : f[i] \in Int
    OBVIOUS
  <2> QED BY <2>1, SumNext
<1>3. 1..0 = {}
  OBVIOUS
<1>4. SumFunctionOnSet(f, 1..0) = 0
  BY <1>3, SumEmpty
<1> QED BY <1>1, <1>2, <1>4

=============================================================================
