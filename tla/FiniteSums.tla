----------------------------- MODULE FiniteSums -----------------------------
(***************************************************************************)
(* Facts about finite sets, and about sums and folds over them, that the   *)
(* library leaves out.                                                     *)
(* Its induction theorems take an operator, which a prover cannot be given *)
(* here; a set that contains a least number, or a smallest set, is a fact  *)
(* about sets alone, and serves as well.                                   *)
(***************************************************************************)
EXTENDS Integers, FiniteSets, Functions, FiniteSetTheorems,
        WellFoundedInduction, TLAPS

(* A set of numbers has a least one.                                       *)
LEMMA LeastNumber ==
  ASSUME NEW S, S \subseteq Nat, S # {}
  PROVE  \E n \in S : \A m \in S : n <= m
<1> DEFINE R == OpToRel(<, Nat)
<1>1. IsWellFoundedOn(R, Nat)
  BY NatLessThanWellFounded, Zenon
<1>2. \A m, n \in Nat : <<m, n>> \in R <=> m < n
  BY Zenon DEF OpToRel
<1> HIDE DEF R
<1>3. \E n \in S : \A m \in S : ~ (<<m, n>> \in R)
  BY <1>1, WFMin, Zenon
<1>4. PICK n \in S : \A m \in S : ~ (<<m, n>> \in R)
  BY <1>3
<1>5. \A m \in S : m \in Nat /\ n \in Nat /\ ~(m < n)
  BY <1>2, <1>4
<1> QED
  BY <1>5

(* Among subsets of a finite set there is one of which no smaller one is   *)
(* left: the form in which induction over finite sets is used here.        *)
LEMMA SmallestSet ==
  ASSUME NEW S, IsFiniteSet(S), NEW C, C \subseteq SUBSET S, C # {}
  PROVE  \E s \in C : \A x \in s : s \ {x} \notin C
<1> DEFINE D == {Cardinality(s) : s \in C}
<1>1. \A s \in C : IsFiniteSet(s) /\ Cardinality(s) \in Nat
  BY FS_Subset, FS_CardinalityType
<1>2. PICK n \in D : \A m \in D : n <= m
  <2>1. D \subseteq Nat /\ D # {}
    BY <1>1
  <2> HIDE DEF D
  <2> QED
    BY <2>1, LeastNumber
<1>3. PICK s \in C : Cardinality(s) = n
  BY <1>2
<1>4. ASSUME NEW x \in s, s \ {x} \in C
      PROVE  FALSE
  <2>1. Cardinality(s \ {x}) = Cardinality(s) - 1 /\ Cardinality(s) \in Nat
    BY <1>1, FS_RemoveElement
  <2>2. Cardinality(s \ {x}) \in D
    BY <1>4
  <2> HIDE DEF D
  <2>3. n <= Cardinality(s \ {x})
    BY <1>2, <2>2
  <2> QED
    BY <1>3, <2>1, <2>3
<1> QED
  BY <1>4

----------------------------------------------------------------------------
(* The equation a sum over subsets of S satisfies: it takes out the        *)
(* element that CHOOSE names.                                              *)
Chosen(s) == CHOOSE x \in s : TRUE

Sums(f, S, g) ==
  g = [s \in SUBSET S |->
         IF s = {} THEN 0 ELSE f[Chosen(s)] + g[s \ {Chosen(s)}]]

(* What the recursive function of the library is.                          *)
LEMMA SumIsChosen ==
  ASSUME NEW f, NEW S
  PROVE  SumFunctionOnSet(f, S) = (CHOOSE g : Sums(f, S, g))[S]
BY DEF SumFunctionOnSet, FoldFunctionOnSet, MapThenFoldSet, Sums, Chosen

(* A sum over the subsets of at most n elements exists, and so over all.   *)
LEMMA SumsExist ==
  ASSUME NEW f, NEW S, IsFiniteSet(S)
  PROVE  \E g : Sums(f, S, g)
<1> DEFINE Small(n) == {s \in SUBSET S : Cardinality(s) <= n}
           Eq(g, s) == IF s = {} THEN 0 ELSE f[Chosen(s)] + g[s \ {Chosen(s)}]
           Upto(g, n) == g = [s \in SUBSET S |-> IF s \in Small(n)
                                                 THEN Eq(g, s) ELSE 0]
           Bad == {n \in Nat : \A g : ~Upto(g, n)}
<1>1. \A s \in SUBSET S : IsFiniteSet(s) /\ Cardinality(s) \in Nat
  BY FS_Subset, FS_CardinalityType
<1>2. \A s \in SUBSET S : s # {} =>
        /\ Chosen(s) \in s /\ s \ {Chosen(s)} \in SUBSET S
        /\ Cardinality(s \ {Chosen(s)}) = Cardinality(s) - 1
  BY <1>1, FS_RemoveElement DEF Chosen
<1>3. \A s \in SUBSET S : Cardinality(s) = 0 <=> s = {}
  BY <1>1, FS_EmptySet
<1>4. 0 \notin Bad
  <2> DEFINE g == [s \in SUBSET S |-> 0]
  <2>1. \A s \in SUBSET S : s \in Small(0) => s = {}
    BY <1>1, <1>3
  <2>2. Upto(g, 0)
    BY <2>1
  <2> QED
    BY <2>2
<1>5. ASSUME NEW n \in Nat, n \notin Bad
      PROVE  n + 1 \notin Bad
  <2>1. PICK g : Upto(g, n)
    BY <1>5
  <2> DEFINE h == [s \in SUBSET S |-> IF s \in Small(n + 1) THEN Eq(g, s) ELSE 0]
  <2>2. ASSUME NEW s \in SUBSET S, s \in Small(n + 1)
        PROVE  Eq(g, s) = Eq(h, s)
    <3>1. CASE s = {}
      BY <3>1
    <3>2. CASE s # {}
      <4> DEFINE u == s \ {Chosen(s)}
      <4>1. u \in SUBSET S /\ u \in Small(n) /\ u \in Small(n + 1)
        <5>1. /\ u \in SUBSET S /\ Cardinality(s) \in Nat
              /\ Cardinality(u) = Cardinality(s) - 1
              /\ Cardinality(s) <= n + 1
          BY <1>1, <1>2, <2>2, <3>2
        <5> HIDE DEF u
        <5> QED
          BY <5>1
      <4>2. g[u] = Eq(g, u) /\ h[u] = Eq(g, u)
        <5> HIDE DEF u, Eq, Small
        <5> QED
          BY <2>1, <4>1
      <4> QED
        BY <4>2
    <3> QED
      BY <3>1, <3>2
  <2>3. Upto(h, n + 1)
    <3> HIDE DEF Eq, Small
    <3> QED
      BY <2>2
  <2> QED
    BY <2>3
<1>6. Bad = {}
  <2>1. SUFFICES ASSUME Bad # {} PROVE FALSE
    OBVIOUS
  <2>2. PICK n \in Bad : \A m \in Bad : n <= m
    <3>1. Bad \subseteq Nat
      OBVIOUS
    <3> HIDE DEF Bad
    <3> QED
      BY <2>1, <3>1, LeastNumber
  <2>3. n \in Nat /\ n # 0
    <3>1. n \in Nat
      BY DEF Bad
    <3> QED
      BY <1>4, <3>1
  <2>4. n - 1 \in Nat /\ n - 1 \notin Bad
    <3> HIDE DEF Bad
    <3> QED
      BY <2>2, <2>3
  <2>5. (n - 1) + 1 \notin Bad
    <3> HIDE DEF Bad
    <3> QED
      BY <1>5, <2>4
  <2>6. (n - 1) + 1 = n
    <3> HIDE DEF Bad
    <3> QED
      BY <2>3
  <2> QED
    BY <2>5, <2>6
<1>7. PICK g : Upto(g, Cardinality(S))
  BY <1>1, <1>6
<1>8. \A s \in SUBSET S : s \in Small(Cardinality(S))
  BY FS_Subset
<1>9. Sums(f, S, g)
  <2> HIDE DEF Small
  <2> QED
    BY <1>7, <1>8 DEF Sums
<1> QED
  BY <1>9

(* Two sums, over the subsets of two sets, agree where both are defined    *)
(* and their summands are equal.                                           *)
LEMMA SumsAgree ==
  ASSUME NEW f, NEW g, NEW S, NEW Q, IsFiniteSet(S), Q \subseteq S,
         \A x \in Q : f[x] = g[x],
         NEW a, Sums(f, S, a), NEW b, Sums(g, Q, b)
  PROVE  a[Q] = b[Q]
<1> DEFINE C == {s \in SUBSET Q : a[s] # b[s]}
<1>1. SUFFICES ASSUME C # {} PROVE FALSE
  OBVIOUS
<1>2. IsFiniteSet(Q)
  BY FS_Subset
<1>3. PICK s \in C : \A x \in s : s \ {x} \notin C
  <2>1. C \subseteq SUBSET Q
    OBVIOUS
  <2> HIDE DEF C
  <2> QED
    BY <1>1, <1>2, <2>1, SmallestSet
<1>4. s \in SUBSET Q /\ s \in SUBSET S
  OBVIOUS
<1>5. s # {}
  <2>1. a[{}] = 0 /\ b[{}] = 0
    BY DEF Sums
  <2> QED
    BY <2>1
<1>6. Chosen(s) \in s
  BY <1>5 DEF Chosen
<1>7. /\ a[s] = f[Chosen(s)] + a[s \ {Chosen(s)}]
      /\ b[s] = g[Chosen(s)] + b[s \ {Chosen(s)}]
  BY <1>4, <1>5 DEF Sums
<1>8. a[s \ {Chosen(s)}] = b[s \ {Chosen(s)}]
  BY <1>3, <1>4, <1>6
<1> QED
  BY <1>4, <1>6, <1>7, <1>8

(* What the sum is for S is what it is in any sum over a set around S.     *)
LEMMA SumIs ==
  ASSUME NEW f, NEW S, IsFiniteSet(S), NEW a, Sums(f, S, a), NEW Q,
         Q \subseteq S
  PROVE  SumFunctionOnSet(f, Q) = a[Q]
<1>1. IsFiniteSet(Q)
  BY FS_Subset
<1>2. \E b : Sums(f, Q, b)
  BY <1>1, SumsExist
<1>3. Sums(f, Q, CHOOSE b : Sums(f, Q, b))
  BY <1>2
<1> QED
  BY <1>3, SumIsChosen, SumsAgree

(* The sum over no element is 0.                                           *)
LEMMA SumEmpty ==
  ASSUME NEW f
  PROVE  SumFunctionOnSet(f, {}) = 0
<1>1. PICK a : Sums(f, {}, a)
  BY SumsExist, FS_EmptySet
<1>2. SumFunctionOnSet(f, {}) = a[{}]
  BY <1>1, SumIs, FS_EmptySet
<1> QED
  BY <1>1, <1>2 DEF Sums

(* The sum takes in every element once, whichever comes first.             *)
LEMMA SumRemove ==
  ASSUME NEW S, IsFiniteSet(S), NEW f, \A y \in S : f[y] \in Int, NEW x \in S
  PROVE  /\ SumFunctionOnSet(f, S) \in Int
         /\ SumFunctionOnSet(f, S) = f[x] + SumFunctionOnSet(f, S \ {x})
<1>1. PICK a : Sums(f, S, a)
  BY SumsExist
<1>2. \A s \in SUBSET S : s # {} =>
        Chosen(s) \in s /\ a[s] = f[Chosen(s)] + a[s \ {Chosen(s)}]
  BY <1>1 DEF Sums, Chosen
<1>3. a[{}] = 0
  BY <1>1 DEF Sums
<1>4. \A s \in SUBSET S : a[s] \in Int
  <2> DEFINE C == {s \in SUBSET S : a[s] \notin Int}
  <2>1. SUFFICES ASSUME C # {} PROVE FALSE
    OBVIOUS
  <2>2. PICK s \in C : \A y \in s : s \ {y} \notin C
    <3>1. C \subseteq SUBSET S
      OBVIOUS
    <3> HIDE DEF C
    <3> QED
      BY <2>1, <3>1, SmallestSet
  <2>3. s \in SUBSET S /\ s # {}
    BY <1>3
  <2>4. Chosen(s) \in s /\ a[s] = f[Chosen(s)] + a[s \ {Chosen(s)}]
    BY <1>2, <2>3
  <2>5. a[s \ {Chosen(s)}] \in Int
    BY <2>2, <2>3, <2>4
  <2> QED
    BY <2>3, <2>4, <2>5
<1>5. \A s \in SUBSET S : \A y \in s : a[s] = f[y] + a[s \ {y}]
  <2> DEFINE C == {s \in SUBSET S : \E y \in s : a[s] # f[y] + a[s \ {y}]}
  <2>1. SUFFICES ASSUME C # {} PROVE FALSE
    OBVIOUS
  <2>2. PICK s \in C : \A y \in s : s \ {y} \notin C
    <3>1. C \subseteq SUBSET S
      OBVIOUS
    <3> HIDE DEF C
    <3> QED
      BY <2>1, <3>1, SmallestSet
  <2>3. PICK y \in s : a[s] # f[y] + a[s \ {y}]
    OBVIOUS
  <2> DEFINE z == Chosen(s)
             t == (s \ {y}) \ {z}
  <2>4. s \in SUBSET S /\ z \in s /\ a[s] = f[z] + a[s \ {z}]
    BY <1>2
  <2>5. y # z
    BY <2>3, <2>4
  <2>6. a[s \ {y}] = f[z] + a[t]
    BY <2>2, <2>4, <2>5
  <2>7. a[s \ {z}] = f[y] + a[t]
    <3>1. t = (s \ {z}) \ {y}
      OBVIOUS
    <3> HIDE DEF t, z
    <3> QED
      BY <2>2, <2>4, <2>5, <3>1
  <2>8. a[t] \in Int /\ f[y] \in Int /\ f[z] \in Int
    BY <1>4, <2>4
  <2> HIDE DEF t, z
  <2> QED
    BY <2>3, <2>4, <2>6, <2>7, <2>8
<1>6. SumFunctionOnSet(f, S) = a[S] /\ SumFunctionOnSet(f, S \ {x}) = a[S \ {x}]
  BY <1>1, SumIs
<1> QED
  BY <1>4, <1>5, <1>6

(* A sum of integers is one.                                               *)
LEMMA SumInt ==
  ASSUME NEW S, IsFiniteSet(S), NEW f, \A y \in S : f[y] \in Int
  PROVE  SumFunctionOnSet(f, S) \in Int
<1>1. CASE S = {}
  BY <1>1, SumEmpty
<1>2. CASE S # {}
  BY <1>2, SumRemove
<1> QED
  BY <1>1, <1>2

(* A sum of natural numbers is one.                                        *)
LEMMA SumNat ==
  ASSUME NEW S, IsFiniteSet(S), NEW f, \A y \in S : f[y] \in Nat
  PROVE  SumFunctionOnSet(f, S) \in Nat
<1> DEFINE C == {s \in SUBSET S : SumFunctionOnSet(f, s) \notin Nat}
<1>1. SUFFICES ASSUME C # {} PROVE FALSE
  OBVIOUS
<1>2. PICK s \in C : \A y \in s : s \ {y} \notin C
  <2>1. C \subseteq SUBSET S
    OBVIOUS
  <2> HIDE DEF C
  <2> QED
    BY <1>1, <2>1, SmallestSet
<1>3. s \in SUBSET S /\ IsFiniteSet(s)
  BY FS_Subset
<1>4. PICK y \in s : TRUE
  BY SumEmpty
<1>5. /\ SumFunctionOnSet(f, s) = f[y] + SumFunctionOnSet(f, s \ {y})
      /\ f[y] \in Nat
  BY <1>3, <1>4, SumRemove
<1>6. SumFunctionOnSet(f, s \ {y}) \in Nat
  BY <1>2, <1>3, <1>4
<1> QED
  BY <1>2, <1>5, <1>6

(* A sum of zeros is zero.                                                 *)
LEMMA SumZero ==
  ASSUME NEW S, IsFiniteSet(S), NEW f, \A y \in S : f[y] = 0
  PROVE  SumFunctionOnSet(f, S) = 0
<1> DEFINE C == {s \in SUBSET S : SumFunctionOnSet(f, s) # 0}
<1>1. SUFFICES ASSUME C # {} PROVE FALSE
  OBVIOUS
<1>2. PICK s \in C : \A y \in s : s \ {y} \notin C
  <2>1. C \subseteq SUBSET S
    OBVIOUS
  <2> HIDE DEF C
  <2> QED
    BY <1>1, <2>1, SmallestSet
<1>3. s \in SUBSET S /\ IsFiniteSet(s)
  BY FS_Subset
<1>4. PICK y \in s : TRUE
  BY SumEmpty
<1>5. SumFunctionOnSet(f, s) = f[y] + SumFunctionOnSet(f, s \ {y})
  BY <1>3, <1>4, SumRemove
<1>6. SumFunctionOnSet(f, s \ {y}) = 0
  BY <1>2, <1>3, <1>4
<1> QED
  BY <1>2, <1>3, <1>4, <1>5, <1>6

(* Equal summands give equal sums.                                         *)
LEMMA SumCongruence ==
  ASSUME NEW S, IsFiniteSet(S), NEW f, NEW g, \A x \in S : f[x] = g[x]
  PROVE  SumFunctionOnSet(f, S) = SumFunctionOnSet(g, S)
<1>1. PICK a : Sums(f, S, a)
  BY SumsExist
<1>2. PICK b : Sums(g, S, b)
  BY SumsExist
<1> QED
  BY <1>1, <1>2, SumIs, SumsAgree

(* One summand changes, and the sum by as much.                            *)
LEMMA SumChange ==
  ASSUME NEW S, IsFiniteSet(S), NEW x \in S, NEW f, NEW g,
         \A y \in S : f[y] \in Int /\ g[y] \in Int,
         \A y \in S \ {x} : f[y] = g[y]
  PROVE  SumFunctionOnSet(g, S) = SumFunctionOnSet(f, S) + g[x] - f[x]
<1>1. IsFiniteSet(S \ {x})
  BY FS_RemoveElement
<1>2. SumFunctionOnSet(f, S \ {x}) = SumFunctionOnSet(g, S \ {x})
  BY <1>1, SumCongruence
<1>3. /\ SumFunctionOnSet(f, S) = f[x] + SumFunctionOnSet(f, S \ {x})
      /\ SumFunctionOnSet(f, S) \in Int
  BY SumRemove
<1>4. /\ SumFunctionOnSet(g, S) = g[x] + SumFunctionOnSet(g, S \ {x})
      /\ SumFunctionOnSet(g, S) \in Int
  BY SumRemove
<1>5. SumFunctionOnSet(f, S \ {x}) \in Int
  BY <1>1, SumInt
<1>6. f[x] \in Int /\ g[x] \in Int
  OBVIOUS
<1> QED
  BY <1>2, <1>3, <1>4, <1>5, <1>6

----------------------------------------------------------------------------
(* A fold with any operation, given as a function, that takes out of a set *)
(* the element pick names.                                                 *)
Folds(op, base, pick, S, g) ==
  g = [s \in SUBSET S |->
         IF s = {} THEN base ELSE op[pick[s]][g[s \ {pick[s]}]]]

LEMMA FoldsExist ==
  ASSUME NEW op, NEW base, NEW pick, NEW S, IsFiniteSet(S),
         \A s \in SUBSET S : s # {} => pick[s] \in s
  PROVE  \E g : Folds(op, base, pick, S, g)
<1> DEFINE Small(n) == {s \in SUBSET S : Cardinality(s) <= n}
           Eq(g, s) == IF s = {} THEN base ELSE op[pick[s]][g[s \ {pick[s]}]]
           Upto(g, n) == g = [s \in SUBSET S |-> IF s \in Small(n)
                                                 THEN Eq(g, s) ELSE base]
           Bad == {n \in Nat : \A g : ~Upto(g, n)}
<1>1. \A s \in SUBSET S : IsFiniteSet(s) /\ Cardinality(s) \in Nat
  BY FS_Subset, FS_CardinalityType
<1>2. \A s \in SUBSET S : s # {} =>
        /\ pick[s] \in s /\ s \ {pick[s]} \in SUBSET S
        /\ Cardinality(s \ {pick[s]}) = Cardinality(s) - 1
  BY <1>1, FS_RemoveElement
<1>3. \A s \in SUBSET S : Cardinality(s) = 0 <=> s = {}
  BY <1>1, FS_EmptySet
<1>4. 0 \notin Bad
  <2> DEFINE g == [s \in SUBSET S |-> base]
  <2>1. \A s \in SUBSET S : s \in Small(0) => s = {}
    BY <1>1, <1>3
  <2>2. Upto(g, 0)
    BY <2>1
  <2> QED
    BY <2>2
<1>5. ASSUME NEW n \in Nat, n \notin Bad
      PROVE  n + 1 \notin Bad
  <2>1. PICK g : Upto(g, n)
    BY <1>5
  <2> DEFINE h == [s \in SUBSET S |-> IF s \in Small(n + 1) THEN Eq(g, s) ELSE base]
  <2>2. ASSUME NEW s \in SUBSET S, s \in Small(n + 1)
        PROVE  Eq(g, s) = Eq(h, s)
    <3>1. CASE s = {}
      BY <3>1
    <3>2. CASE s # {}
      <4> DEFINE u == s \ {pick[s]}
      <4>1. u \in SUBSET S /\ u \in Small(n) /\ u \in Small(n + 1)
        <5>1. /\ u \in SUBSET S /\ Cardinality(s) \in Nat
              /\ Cardinality(u) = Cardinality(s) - 1
              /\ Cardinality(s) <= n + 1
          BY <1>1, <1>2, <2>2, <3>2
        <5> HIDE DEF u
        <5> QED
          BY <5>1
      <4>2. g[u] = Eq(g, u) /\ h[u] = Eq(g, u)
        <5> HIDE DEF u, Eq, Small
        <5> QED
          BY <2>1, <4>1
      <4> QED
        BY <4>2
    <3> QED
      BY <3>1, <3>2
  <2>3. Upto(h, n + 1)
    <3> HIDE DEF Eq, Small
    <3> QED
      BY <2>2
  <2> QED
    BY <2>3
<1>6. Bad = {}
  <2>1. SUFFICES ASSUME Bad # {} PROVE FALSE
    OBVIOUS
  <2>2. PICK n \in Bad : \A m \in Bad : n <= m
    <3>1. Bad \subseteq Nat
      OBVIOUS
    <3> HIDE DEF Bad
    <3> QED
      BY <2>1, <3>1, LeastNumber
  <2>3. n \in Nat /\ n # 0
    <3>1. n \in Nat
      BY DEF Bad
    <3> QED
      BY <1>4, <3>1
  <2>4. n - 1 \in Nat /\ n - 1 \notin Bad
    <3> HIDE DEF Bad
    <3> QED
      BY <2>2, <2>3
  <2>5. (n - 1) + 1 \notin Bad
    <3> HIDE DEF Bad
    <3> QED
      BY <1>5, <2>4
  <2>6. (n - 1) + 1 = n
    <3> HIDE DEF Bad
    <3> QED
      BY <2>3
  <2> QED
    BY <2>5, <2>6
<1>7. PICK g : Upto(g, Cardinality(S))
  <2>1. Cardinality(S) \in Nat /\ Cardinality(S) \notin Bad
    BY <1>1, <1>6
  <2> HIDE DEF Upto
  <2> QED
    BY <2>1
<1>8. \A s \in SUBSET S : s \in Small(Cardinality(S))
  BY FS_Subset
<1>9. Folds(op, base, pick, S, g)
  <2> HIDE DEF Small
  <2> QED
    BY <1>7, <1>8 DEF Folds
<1> QED
  BY <1>9
=============================================================================
