---------------------------- MODULE SumTheorems ----------------------------
(***************************************************************************)
(* What SumFunctionOnSet of the module Functions computes, for every       *)
(* finite set: the sums of which the invariants about stock and            *)
(* installments speak.  The library's induction theorems take an operator, *)
(* so induction is over the size of sets, by a least counterexample.       *)
(***************************************************************************)
EXTENDS Functions, FiniteSetTheorems, TLAPS

\* A set of numbers that is not empty has a least element.
LEMMA LeastElement ==
  ASSUME NEW S, S \subseteq Nat, S # {}
  PROVE  \E m \in S : \A k \in S : m <= k
<1>1. PICK m \in S : \A k \in S : <<k, m>> \notin OpToRel(<, Nat)
  BY WFMin, NatLessThanWellFounded
<1>2. \A k \in S : ~(k < m)
  <2> SUFFICES ASSUME NEW k \in S, k < m PROVE FALSE
    OBVIOUS
  <2>1. <<k, m>> \in Nat \X Nat /\ <<k, m>>[1] < <<k, m>>[2]
    OBVIOUS
  <2> QED BY <1>1, <2>1 DEF OpToRel
<1> QED BY <1>2

\* Sizes of the subsets of a finite set.
LEMMA Sizes ==
  ASSUME NEW T, IsFiniteSet(T), NEW s \in SUBSET T
  PROVE  /\ IsFiniteSet(s) /\ Cardinality(s) \in Nat
         /\ Cardinality(s) = 0 <=> s = {}
         /\ \A x \in s : /\ s \ {x} \in SUBSET T
                         /\ Cardinality(s \ {x}) = Cardinality(s) - 1
BY FS_Subset, FS_CardinalityType, FS_EmptySet, FS_RemoveElement

\* What passes from all smaller subsets to a subset holds of every subset.
LEMMA SizeInduction ==
  ASSUME NEW T, IsFiniteSet(T), NEW C,
         \A s \in SUBSET T :
            (\A r \in SUBSET T : Cardinality(r) < Cardinality(s) => r \in C) => s \in C
  PROVE  SUBSET T \subseteq C
<1> SUFFICES ASSUME NEW b \in SUBSET T, b \notin C PROVE FALSE
  OBVIOUS
<1> DEFINE Bad == {n \in Nat : \E s \in SUBSET T : s \notin C /\ Cardinality(s) = n}
<1>1. \A s \in SUBSET T : Cardinality(s) \in Nat
  BY Sizes
<1>2. Bad # {} /\ Bad \subseteq Nat
  BY <1>1
<1>3. PICK m \in Bad : \A k \in Bad : m <= k
  BY <1>2, LeastElement
<1>4. PICK s \in SUBSET T : s \notin C /\ Cardinality(s) = m
  BY <1>3
<1>5. \A r \in SUBSET T : Cardinality(r) < Cardinality(s) => r \in C
  BY <1>1, <1>3, <1>4
<1> QED BY <1>4, <1>5

chosen(s) == CHOOSE x \in s : TRUE

LEMMA ChosenIsMember == ASSUME NEW s, s # {} PROVE chosen(s) \in s
BY DEF chosen

\* One step of the summation, with g for what is left.
step(f, g, s) == IF s = {} THEN 0 ELSE f[chosen(s)] + g[s \ {chosen(s)}]

\* Partial sums exist for the sets of at most n elements.
LEMMA PartialSums ==
  ASSUME NEW f, NEW T, IsFiniteSet(T), NEW n \in Nat
  PROVE  \E g : \A s \in SUBSET T : Cardinality(s) <= n => g[s] = step(f, g, s)
<1> DEFINE Good(m) == \E g : \A s \in SUBSET T : Cardinality(s) <= m => g[s] = step(f, g, s)
           Bad == {m \in Nat : ~Good(m)}
<1>1. Good(0)
  <2> DEFINE g == [s \in SUBSET T |-> 0]
  <2>1. \A s \in SUBSET T : Cardinality(s) <= 0 => g[s] = step(f, g, s)
    BY Sizes DEF step
  <2> HIDE DEF g
  <2> QED BY <2>1
<1>2. ASSUME NEW m \in Nat, Good(m)
      PROVE  Good(m + 1)
  <2>1. PICK g : \A s \in SUBSET T : Cardinality(s) <= m => g[s] = step(f, g, s)
    BY <1>2
  <2> DEFINE h == [s \in SUBSET T |-> step(f, g, s)]
  <2>2. ASSUME NEW s \in SUBSET T, Cardinality(s) <= m + 1
        PROVE  h[s] = step(f, h, s)
    <3>1. CASE s = {}
      BY <3>1 DEF step
    <3>2. CASE s # {}
      <4> DEFINE r == s \ {chosen(s)}
      <4>1. r \in SUBSET T /\ Cardinality(r) <= m
        BY <2>2, <3>2, Sizes, ChosenIsMember
      <4>2. h[r] = g[r]
        BY <2>1, <4>1
      <4> QED BY <3>2, <4>2 DEF step
    <3> QED BY <3>1, <3>2
  <2> HIDE DEF h
  <2> QED BY <2>2
<1>3. CASE Bad = {}
  BY <1>3
<1>4. CASE Bad # {}
  <2> HIDE DEF Good
  <2>1. PICK m \in Bad : \A k \in Bad : m <= k
    BY <1>4, LeastElement
  <2>2. m \in Nat /\ m # 0 /\ ~Good(m)
    BY <1>1, <2>1
  <2>3. Good(m - 1)
    BY <2>1, <2>2
  <2>4. Good((m - 1) + 1)
    BY <1>2, <2>2, <2>3
  <2> QED BY <2>2, <2>4
<1> QED BY <1>3, <1>4

\* The function by which SumFunctionOnSet is defined exists.
LEMMA SumDefined ==
  ASSUME NEW f, NEW T, IsFiniteSet(T)
  PROVE  \E g : /\ \A s \in SUBSET T : g[s] = step(f, g, s)
                /\ SumFunctionOnSet(f, T) = g[T]
<1> DEFINE Rec(g) == g = [s \in SUBSET T |-> step(f, g, s)]
<1>0. Cardinality(T) \in Nat /\ \A s \in SUBSET T : Cardinality(s) <= Cardinality(T)
  BY FS_Subset, FS_CardinalityType
<1>1. \A n \in Nat : \E g : \A s \in SUBSET T : Cardinality(s) <= n => g[s] = step(f, g, s)
  BY PartialSums
<1>2. PICK g : \A s \in SUBSET T : Cardinality(s) <= Cardinality(T) => g[s] = step(f, g, s)
  BY <1>0, <1>1, Zenon
<1> DEFINE h == [s \in SUBSET T |-> g[s]]
<1>3. \A s \in SUBSET T : h[s] = step(f, h, s)
  BY <1>0, <1>2 DEF step, chosen
<1>4. Rec(h)
  BY <1>3
<1> HIDE DEF h
<1>5. Rec(CHOOSE r : Rec(r))
  BY <1>4
<1>6. SumFunctionOnSet(f, T) = (CHOOSE r : Rec(r))[T]
  BY DEF SumFunctionOnSet, FoldFunctionOnSet, MapThenFoldSet, step, chosen
<1> HIDE DEF Rec
<1>7. \A s \in SUBSET T : (CHOOSE r : Rec(r))[s] = step(f, CHOOSE r : Rec(r), s)
  BY <1>5 DEF Rec
<1> QED BY <1>6, <1>7

\* The sums over the subsets of a finite set are taken one from the other.
LEMMA SumStep ==
  ASSUME NEW f, NEW T, IsFiniteSet(T), T # {}
  PROVE  SumFunctionOnSet(f, T) = f[chosen(T)] + SumFunctionOnSet(f, T \ {chosen(T)})
<1> DEFINE R == T \ {chosen(T)}
<1>1. R \in SUBSET T /\ IsFiniteSet(R) /\ chosen(T) \in T
  BY FS_Subset, ChosenIsMember
<1>2. PICK g : /\ \A s \in SUBSET T : g[s] = step(f, g, s)
               /\ SumFunctionOnSet(f, T) = g[T]
  BY SumDefined
<1>3. PICK h : /\ \A s \in SUBSET R : h[s] = step(f, h, s)
               /\ SumFunctionOnSet(f, R) = h[R]
  BY <1>1, SumDefined
<1> DEFINE C == {s \in SUBSET R : g[s] = h[s]}
<1>4. ASSUME NEW s \in SUBSET R,
             \A r \in SUBSET R : Cardinality(r) < Cardinality(s) => r \in C
      PROVE  s \in C
  <2>1. g[s] = step(f, g, s) /\ h[s] = step(f, h, s)
    BY <1>1, <1>2, <1>3
  <2>2. CASE s = {}
    BY <2>1, <2>2 DEF step
  <2>3. CASE s # {}
    <3>1. s \ {chosen(s)} \in C
      BY <1>1, <1>4, <2>3, Sizes, ChosenIsMember
    <3> QED BY <2>1, <2>3, <3>1 DEF step
  <2> QED BY <2>2, <2>3
<1>5. SUBSET R \subseteq C
  <2> HIDE DEF C, R
  <2> QED BY <1>1, <1>4, SizeInduction
<1>6. g[R] = h[R]
  BY <1>5
<1> QED BY <1>2, <1>3, <1>6 DEF step

LEMMA SumEmpty == \A f : SumFunctionOnSet(f, {}) = 0
<1> SUFFICES ASSUME NEW f PROVE SumFunctionOnSet(f, {}) = 0
  OBVIOUS
<1>1. PICK g : /\ \A s \in SUBSET {} : g[s] = step(f, g, s)
               /\ SumFunctionOnSet(f, {}) = g[{}]
  BY SumDefined, FS_EmptySet
<1> QED BY <1>1 DEF step

\* A sum of integers is one.
LEMMA SumInt ==
  ASSUME NEW T, IsFiniteSet(T), NEW f, \A x \in T : f[x] \in Int
  PROVE  \A s \in SUBSET T : SumFunctionOnSet(f, s) \in Int
<1> DEFINE C == {s \in SUBSET T : SumFunctionOnSet(f, s) \in Int}
<1>1. ASSUME NEW s \in SUBSET T,
             \A r \in SUBSET T : Cardinality(r) < Cardinality(s) => r \in C
      PROVE  s \in C
  <2>1. CASE s = {}
    BY <2>1, SumEmpty
  <2>2. CASE s # {}
    <3>1. chosen(s) \in s /\ s \ {chosen(s)} \in C
      BY <1>1, <2>2, Sizes, ChosenIsMember
    <3>2. SumFunctionOnSet(f, s) = f[chosen(s)] + SumFunctionOnSet(f, s \ {chosen(s)})
      BY <2>2, Sizes, SumStep
    <3> QED BY <3>1, <3>2
  <2> QED BY <2>1, <2>2
<1>2. SUBSET T \subseteq C
  <2> HIDE DEF C
  <2> QED BY <1>1, SizeInduction
<1> QED BY <1>2

\* A sum of naturals is one.
LEMMA SumNat ==
  ASSUME NEW T, IsFiniteSet(T), NEW f, \A x \in T : f[x] \in Nat
  PROVE  SumFunctionOnSet(f, T) \in Nat
<1> DEFINE C == {s \in SUBSET T : SumFunctionOnSet(f, s) \in Nat}
<1>1. ASSUME NEW s \in SUBSET T,
             \A r \in SUBSET T : Cardinality(r) < Cardinality(s) => r \in C
      PROVE  s \in C
  <2>1. CASE s = {}
    BY <2>1, SumEmpty
  <2>2. CASE s # {}
    <3>1. chosen(s) \in s /\ s \ {chosen(s)} \in C
      BY <1>1, <2>2, Sizes, ChosenIsMember
    <3>2. SumFunctionOnSet(f, s) = f[chosen(s)] + SumFunctionOnSet(f, s \ {chosen(s)})
      BY <2>2, Sizes, SumStep
    <3> QED BY <3>1, <3>2
  <2> QED BY <2>1, <2>2
<1>2. SUBSET T \subseteq C
  <2> HIDE DEF C
  <2> QED BY <1>1, SizeInduction
<1> QED BY <1>2

\* Any element may be taken out of a sum, not only the chosen one.
LEMMA SumRemove ==
  ASSUME NEW T, IsFiniteSet(T), NEW f, \A x \in T : f[x] \in Int, NEW e \in T
  PROVE  SumFunctionOnSet(f, T) = f[e] + SumFunctionOnSet(f, T \ {e})
<1> DEFINE Sum(s) == SumFunctionOnSet(f, s)
           C == {s \in SUBSET T : \A x \in s : Sum(s) = f[x] + Sum(s \ {x})}
<1>1. ASSUME NEW s \in SUBSET T,
             \A r \in SUBSET T : Cardinality(r) < Cardinality(s) => r \in C
      PROVE  s \in C
  <2> SUFFICES ASSUME NEW x \in s PROVE Sum(s) = f[x] + Sum(s \ {x})
    OBVIOUS
  <2> DEFINE c == chosen(s)
             r == (s \ {c}) \ {x}
  <2>1. c \in s
    BY ChosenIsMember
  <2>2. Sum(s) = f[c] + Sum(s \ {c})
    BY Sizes, SumStep
  <2>3. CASE x = c
    BY <2>2, <2>3
  <2>4. CASE x # c
    <3>0. \A y \in s : /\ s \ {y} \in SUBSET T
                       /\ Cardinality(s \ {y}) < Cardinality(s)
      BY Sizes
    <3>1. /\ s \ {c} \in C /\ x \in s \ {c}
          /\ s \ {x} \in C /\ c \in s \ {x}
      <4> HIDE DEF C, c
      <4> QED BY <1>1, <2>1, <2>4, <3>0
    <3>2. Sum(s \ {c}) = f[x] + Sum(r)
      BY <3>1
    <3>3. r = (s \ {x}) \ {c}
      OBVIOUS
    <3>4. Sum(s \ {x}) = f[c] + Sum((s \ {x}) \ {c})
      BY <3>1
    <3>5. f[x] \in Int /\ f[c] \in Int /\ r \in SUBSET T
      BY <2>1
    <3>6. Sum(r) \in Int
      BY <3>5, SumInt
    <3> HIDE DEF Sum, r, c
    <3> QED BY <2>2, <3>2, <3>3, <3>4, <3>5, <3>6
  <2> QED BY <2>3, <2>4
<1>2. SUBSET T \subseteq C
  <2> HIDE DEF C
  <2> QED BY <1>1, SizeInduction
<1> QED BY <1>2

\* Terms that are the same have the same sum.
LEMMA SumSame ==
  ASSUME NEW T, IsFiniteSet(T), NEW f, NEW g, \A x \in T : f[x] = g[x]
  PROVE  SumFunctionOnSet(f, T) = SumFunctionOnSet(g, T)
<1> DEFINE C == {s \in SUBSET T : SumFunctionOnSet(f, s) = SumFunctionOnSet(g, s)}
<1>1. ASSUME NEW s \in SUBSET T,
             \A r \in SUBSET T : Cardinality(r) < Cardinality(s) => r \in C
      PROVE  s \in C
  <2>1. CASE s = {}
    BY <2>1, SumEmpty
  <2>2. CASE s # {}
    <3>1. chosen(s) \in s /\ s \ {chosen(s)} \in C
      BY <1>1, <2>2, Sizes, ChosenIsMember
    <3>2. \A h : SumFunctionOnSet(h, s) = h[chosen(s)] + SumFunctionOnSet(h, s \ {chosen(s)})
      BY <2>2, Sizes, SumStep
    <3> QED BY <3>1, <3>2
  <2> QED BY <2>1, <2>2
<1>2. SUBSET T \subseteq C
  <2> HIDE DEF C
  <2> QED BY <1>1, SizeInduction
<1> QED BY <1>2

\* A sum whose terms change in one place changes by the difference.
LEMMA SumChange ==
  ASSUME NEW T, IsFiniteSet(T), NEW f, NEW g, NEW e \in T,
         \A x \in T : f[x] \in Int /\ g[x] \in Int,
         \A x \in T \ {e} : f[x] = g[x]
  PROVE  /\ SumFunctionOnSet(f, T) \in Int
         /\ SumFunctionOnSet(g, T) = SumFunctionOnSet(f, T) + g[e] - f[e]
<1>1. /\ SumFunctionOnSet(f, T) = f[e] + SumFunctionOnSet(f, T \ {e})
      /\ SumFunctionOnSet(g, T) = g[e] + SumFunctionOnSet(g, T \ {e})
  BY SumRemove
<1>2. SumFunctionOnSet(f, T \ {e}) = SumFunctionOnSet(g, T \ {e})
  BY Sizes, SumSame
<1>3. SumFunctionOnSet(f, T) \in Int /\ SumFunctionOnSet(f, T \ {e}) \in Int
  BY SumInt
<1> QED BY <1>1, <1>2, <1>3
=============================================================================
