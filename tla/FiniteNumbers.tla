---------------------------- MODULE FiniteNumbers ----------------------------
(***************************************************************************)
(* Finite sets of numbers.  Their greatest element is for the models that  *)
(* stamp a transaction or a run with an instant later than all before it;  *)
(* their least element stands in for induction: what fails somewhere fails *)
(* at a least size, and not at any smaller.  So the facts about sums are   *)
(* proved, with the sum as the community module defines it.                *)
(***************************************************************************)
EXTENDS Integers, FiniteSets, FiniteSetsExt, Functions, FiniteSetTheorems,
        WellFoundedInduction, TLAPS

(* A finite set of natural numbers that is not empty has a greatest        *)
(* element, and Max chooses it.                                            *)
LEMMA MaxOfFinite ==
  ASSUME NEW S, S \subseteq Nat, IsFiniteSet(S), S # {}
  PROVE  Max(S) \in S /\ \A x \in S : x <= Max(S)
<1> DEFINE Dominates(A) == A # {} /\ \A x \in S : \E y \in A : x <= y
           T == {A \in SUBSET S : Dominates(A)}
<1>1. IsWellFoundedOn(StrictSubsetOrdering(S), SUBSET S)
  <2>1. IsWellFoundedOn(StrictSubsetOrdering(S), FiniteSubsetsOf(S))
    BY FS_StrictSubsetOrderingWellFounded
  <2>2. FiniteSubsetsOf(S) = SUBSET S
    BY FS_Subset DEF FiniteSubsetsOf
  <2> QED BY <2>1, <2>2
<1>2. S \in T
  BY SMT
<1>3. PICK A \in T : \A B \in T : ~ (<<B, A>> \in StrictSubsetOrdering(S))
  <2> HIDE DEF T
  <2>1. T \subseteq SUBSET S
    BY DEF T
  <2>2. T # {}
    BY <1>2
  <2> QED BY <1>1, <2>1, <2>2, WFMin
<1>4. PICK a \in A : TRUE
  OBVIOUS
<1>5. A = {a}
  <2> SUFFICES ASSUME NEW b \in A, b # a PROVE FALSE
    BY <1>4
  <2> DEFINE low == IF a <= b THEN a ELSE b
             high == IF a <= b THEN b ELSE a
             B == A \ {low}
  <2>1. low \in Nat /\ high \in Nat /\ low <= high /\ low # high /\ high \in B /\ low \in A
    OBVIOUS
  <2>2. \A x \in S : \E y \in B : x <= y
    <3> SUFFICES ASSUME NEW x \in S PROVE \E y \in B : x <= y
      OBVIOUS
    <3>1. PICK y \in A : x <= y
      OBVIOUS
    <3>2. CASE y = low
      <4>1. x <= high
        BY <2>1, <3>1, <3>2
      <4> QED BY <4>1, <2>1
    <3>3. CASE y # low
      BY <3>1, <3>3
    <3> QED BY <3>2, <3>3
  <2>3. B \in T
    BY <2>1, <2>2
  <2>4. <<B, A>> \in StrictSubsetOrdering(S)
    BY <2>1 DEF StrictSubsetOrdering
  <2> QED BY <2>3, <2>4, <1>3
<1>6. a \in S /\ \A x \in S : x <= a
  BY <1>5
<1>7. \E m \in S : \A x \in S : m >= x
  BY <1>6
<1> QED BY <1>7 DEF Max

(* A set of natural numbers that is not empty has a least element.         *)
LEMMA LeastNat ==
  ASSUME NEW S, S \subseteq Nat, S # {}
  PROVE  \E m \in S : \A x \in S : m <= x
<1>1. PICK n \in S : TRUE
  OBVIOUS
<1> DEFINE T == {k \in 0..n : \A x \in S : k <= x}
<1>2. IsFiniteSet(T) /\ T \subseteq Nat /\ 0 \in T
  <2>1. IsFiniteSet(0..n)
    BY FS_Interval
  <2>2. T \subseteq 0..n /\ 0 \in T
    BY <1>1
  <2>3. IsFiniteSet(T)
    <3> HIDE DEF T
    <3> QED  BY <2>1, <2>2, FS_Subset
  <2> QED  BY <2>2, <2>3
<1>3. PICK m : m = Max(T)
  OBVIOUS
<1>4. m \in T /\ \A k \in T : k <= m
  <2> HIDE DEF T
  <2> QED  BY <1>2, <1>3, MaxOfFinite
<1>5. m \in S
  <2> SUFFICES ASSUME m \notin S PROVE FALSE
    OBVIOUS
  <2>1. \A x \in S : m + 1 <= x
    BY <1>4
  <2>2. m + 1 \in T
    BY <1>1, <1>4, <2>1
  <2> QED  BY <1>4, <2>2
<1> QED  BY <1>4, <1>5

(* What a function takes on a finite set is a finite set. *)
LEMMA FiniteImage ==
  ASSUME NEW S, IsFiniteSet(S), NEW f
  PROVE  IsFiniteSet({f[x] : x \in S})
<1> DEFINE T == {f[x] : x \in S}
           g == [x \in S |-> f[x]]
<1>1. g \in Surjection(S, T)
  BY DEF Surjection
<1> HIDE DEF g, T
<1> QED BY <1>1, FS_Surjection DEF T

-----------------------------------------------------------------------------
(* Sums.  SumFunctionOnSet takes the elements of a set out one by one, in  *)
(* the order of CHOOSE.                                                    *)
First(S) == CHOOSE x \in S : TRUE

(* g gives the sum over each subset of S.                                  *)
Sums(f, S, g) ==
  g = [s \in SUBSET S |-> IF s = {} THEN 0 ELSE f[First(s)] + g[s \ {First(s)}]]

LEMMA SumIsChosen ==
  ASSUME NEW f, NEW S
  PROVE  SumFunctionOnSet(f, S) = (CHOOSE g : Sums(f, S, g))[S]
BY DEF SumFunctionOnSet, FoldFunctionOnSet, MapThenFoldSet, Sums, First

LEMMA FirstIsOne ==
  ASSUME NEW S, IsFiniteSet(S), S # {}
  PROVE  /\ First(S) \in S
         /\ IsFiniteSet(S \ {First(S)})
         /\ Cardinality(S \ {First(S)}) = Cardinality(S) - 1
         /\ Cardinality(S) \in Nat \ {0}
<1>1. First(S) \in S
  BY DEF First
<1>2. Cardinality(S) \in Nat /\ Cardinality(S) # 0
  BY FS_CardinalityType, FS_EmptySet
<1> QED  BY <1>1, <1>2, FS_RemoveElement

LEMMA SumsAre ==
  ASSUME NEW f, NEW S, NEW g, Sums(f, S, g), NEW s \in SUBSET S
  PROVE  g[s] = IF s = {} THEN 0 ELSE f[First(s)] + g[s \ {First(s)}]
BY DEF Sums

LEMMA SumsAgree ==
  ASSUME NEW f, NEW S, IsFiniteSet(S), NEW g, Sums(f, S, g),
         NEW T \in SUBSET S, NEW h, Sums(f, T, h), NEW s \in SUBSET T
  PROVE  g[s] = h[s]
<1> DEFINE Bad == {t \in SUBSET T : g[t] # h[t]}
           Sizes == {Cardinality(t) : t \in Bad}
<1> SUFFICES ASSUME s \in Bad PROVE FALSE
  OBVIOUS
<1>1. ASSUME NEW t \in SUBSET T PROVE IsFiniteSet(t) /\ Cardinality(t) \in Nat
  BY FS_Subset, FS_CardinalityType
<1>2. Sizes \subseteq Nat /\ Sizes # {}
  BY <1>1
<1>3. PICK m \in Sizes : \A x \in Sizes : m <= x
  <2> HIDE DEF Sizes
  <2> QED  BY <1>2, LeastNat
<1>4. PICK t \in Bad : m = Cardinality(t)
  BY <1>3
<1>5. g[{}] = h[{}]
  BY SumsAre
<1>6. t # {} /\ IsFiniteSet(t)
  BY <1>1, <1>4, <1>5
<1>7. t \ {First(t)} \in SUBSET T /\ t \ {First(t)} \notin Bad
  <2> DEFINE r == t \ {First(t)}
  <2>1. r \in SUBSET T
    BY <1>4
  <2>2. Cardinality(r) < Cardinality(t) /\ Cardinality(t) \in Nat /\ Cardinality(r) \in Nat
    BY <1>1, <1>6, <2>1, FirstIsOne
  <2>3. ASSUME r \in Bad PROVE FALSE
    <3>1. Cardinality(r) \in Sizes
      BY <2>3
    <3> HIDE DEF r, Sizes
    <3> QED  BY <1>3, <1>4, <2>2, <3>1
  <2> QED  BY <2>1, <2>3
<1>8. g[t] = f[First(t)] + g[t \ {First(t)}] /\ h[t] = f[First(t)] + h[t \ {First(t)}]
  BY <1>4, <1>6, SumsAre
<1> QED  BY <1>4, <1>7, <1>8

LEMMA SumsExist ==
  ASSUME NEW f, NEW S, IsFiniteSet(S)
  PROVE  \E g : Sums(f, S, g)
<1> DEFINE Bad == {t \in SUBSET S : \A g : ~ Sums(f, t, g)}
           Sizes == {Cardinality(t) : t \in Bad}
           of(t) == CHOOSE g : Sums(f, t, g)
<1> SUFFICES ASSUME S \in Bad PROVE FALSE
  OBVIOUS
<1>1. ASSUME NEW t \in SUBSET S PROVE IsFiniteSet(t) /\ Cardinality(t) \in Nat
  BY FS_Subset, FS_CardinalityType
<1>2. Sizes \subseteq Nat /\ Sizes # {}
  BY <1>1
<1>3. PICK m \in Sizes : \A x \in Sizes : m <= x
  <2> HIDE DEF Sizes
  <2> QED  BY <1>2, LeastNat
<1>4. PICK t \in Bad : m = Cardinality(t)
  BY <1>3
<1>5. IsFiniteSet(t) /\ t \in SUBSET S
  BY <1>1, <1>4
<1>6. ASSUME NEW s \in SUBSET t, s # t PROVE Sums(f, s, of(s))
  <2>1. Cardinality(s) < Cardinality(t) /\ Cardinality(s) \in Nat /\ Cardinality(t) \in Nat
    BY <1>5, <1>6, FS_Subset, FS_CardinalityType
  <2>2. s \notin Bad
    BY <1>3, <1>4, <2>1
  <2> QED  BY <1>5, <2>2
<1> DEFINE rest(s) == s \ {First(s)}
           G == [s \in SUBSET t |-> IF s = {} THEN 0 ELSE f[First(s)] + of(rest(s))[rest(s)]]
<1>7. ASSUME NEW s \in SUBSET t, s # {} PROVE G[rest(s)] = of(rest(s))[rest(s)]
  <2> DEFINE r == rest(s)
  <2>1. First(s) \in s /\ r \in SUBSET t /\ r # t /\ IsFiniteSet(r)
    BY <1>5, <1>7, FS_Subset, FirstIsOne
  <2>2. Sums(f, r, of(r))
    BY <1>6, <2>1
  <2> HIDE DEF r, of
  <2>3. CASE r = {}
    <3>1. of(r)[r] = 0
      BY <2>2, <2>3, SumsAre
    <3>2. G[r] = 0
      BY <2>1, <2>3
    <3> QED  BY <3>1, <3>2 DEF r
  <2>4. CASE r # {}
    <3>1. First(r) \in r /\ rest(r) \in SUBSET r /\ rest(r) # t
      BY <2>1, <2>4, FirstIsOne
    <3>2. Sums(f, rest(r), of(rest(r)))
      BY <1>6, <2>1, <3>1
    <3>3. of(r)[rest(r)] = of(rest(r))[rest(r)]
      BY <2>1, <2>2, <3>1, <3>2, SumsAgree
    <3>4. of(r)[r] = f[First(r)] + of(r)[rest(r)]
      BY <2>2, <2>4, SumsAre
    <3>5. G[r] = f[First(r)] + of(rest(r))[rest(r)]
      BY <2>1, <2>4
    <3> QED  BY <3>3, <3>4, <3>5 DEF r
  <2> QED  BY <2>3, <2>4 DEF r
<1>8. Sums(f, t, G)
  <2>1. G = [s \in SUBSET t |-> IF s = {} THEN 0 ELSE f[First(s)] + G[rest(s)]]
    <3> HIDE DEF of
    <3>1. ASSUME NEW s \in SUBSET t
          PROVE  G[s] = IF s = {} THEN 0 ELSE f[First(s)] + G[rest(s)]
      BY <1>7
    <3>2. G = [s \in SUBSET t |-> G[s]]
      OBVIOUS
    <3> HIDE DEF G
    <3> QED  BY <3>1, <3>2
  <2> HIDE DEF G
  <2> QED  BY <2>1 DEF Sums
<1> QED  BY <1>4, <1>8

LEMMA SumIs ==
  ASSUME NEW f, NEW S, IsFiniteSet(S)
  PROVE  SumFunctionOnSet(f, S) = IF S = {} THEN 0 ELSE f[First(S)] + SumFunctionOnSet(f, S \ {First(S)})
<1>1. \A T \in SUBSET S : Sums(f, T, CHOOSE g : Sums(f, T, g)) /\ IsFiniteSet(T)
  BY SumsExist, FS_Subset
<1>2. CASE S = {}
  BY <1>1, <1>2, SumsAre, SumIsChosen
<1>3. CASE S # {}
  <2> DEFINE R == S \ {First(S)}
             g == CHOOSE g : Sums(f, S, g)
             h == CHOOSE h : Sums(f, R, h)
  <2>1. Sums(f, S, g) /\ Sums(f, R, h) /\ R \in SUBSET S
    BY <1>1
  <2> HIDE DEF g, h
  <2>2. g[S] = f[First(S)] + g[R]
    BY <1>3, <2>1, SumsAre
  <2>3. g[R] = h[R]
    BY <2>1, SumsAgree
  <2>4. SumFunctionOnSet(f, S) = g[S] /\ SumFunctionOnSet(f, R) = h[R]
    BY SumIsChosen DEF g, h
  <2> QED  BY <1>3, <2>2, <2>3, <2>4
<1> QED  BY <1>2, <1>3

(* A sum is what any one element brings and the sum of the others.     *)
LEMMA SumTakesOut ==
  ASSUME NEW f, NEW S, IsFiniteSet(S), \A x \in S : f[x] \in Nat
  PROVE  /\ SumFunctionOnSet(f, S) \in Nat
         /\ \A x \in S : SumFunctionOnSet(f, S) = f[x] + SumFunctionOnSet(f, S \ {x})
<1> DEFINE Good(t) == /\ SumFunctionOnSet(f, t) \in Nat
                      /\ \A x \in t : SumFunctionOnSet(f, t) = f[x] + SumFunctionOnSet(f, t \ {x})
           Bad == {t \in SUBSET S : ~ Good(t)}
           Sizes == {Cardinality(t) : t \in Bad}
<1> SUFFICES ASSUME S \in Bad PROVE FALSE
  OBVIOUS
<1>1. ASSUME NEW t \in SUBSET S PROVE IsFiniteSet(t) /\ Cardinality(t) \in Nat
  BY FS_Subset, FS_CardinalityType
<1>2. Sizes \subseteq Nat /\ Sizes # {}
  <2> HIDE DEF Good
  <2> QED  BY <1>1
<1>3. PICK m \in Sizes : \A x \in Sizes : m <= x
  <2> HIDE DEF Sizes
  <2> QED  BY <1>2, LeastNat
<1>4. PICK t \in Bad : m = Cardinality(t)
  BY <1>3
<1>5. IsFiniteSet(t) /\ t \in SUBSET S
  BY <1>1, <1>4
<1>6. ASSUME NEW s \in SUBSET t, s # t PROVE Good(s)
  <2>1. Cardinality(s) < Cardinality(t) /\ Cardinality(t) \in Nat /\ Cardinality(s) \in Nat
    BY <1>5, <1>6, FS_Subset, FS_CardinalityType
  <2>2. s \in SUBSET S
    BY <1>5
  <2> HIDE DEF Good
  <2> QED  BY <1>3, <1>4, <2>1, <2>2
<1>7. Good({})
  <2>1. SumFunctionOnSet(f, {}) = 0
    BY SumIs, FS_EmptySet
  <2> QED  BY <2>1
<1>8. t # {}
  <2> HIDE DEF Good
  <2> QED  BY <1>4, <1>7
<1>9. PICK y : y = First(t)
  OBVIOUS
<1>10. y \in t /\ f[y] \in Nat /\ SumFunctionOnSet(f, t) = f[y] + SumFunctionOnSet(f, t \ {y})
  BY <1>5, <1>8, <1>9, FirstIsOne, SumIs
<1>11. SumFunctionOnSet(f, t \ {y}) \in Nat
  BY <1>6, <1>10
<1>12. ASSUME NEW x \in t PROVE SumFunctionOnSet(f, t) = f[x] + SumFunctionOnSet(f, t \ {x})
  <2>1. CASE x = y
    BY <1>10, <2>1
  <2>2. CASE x # y
    <3>1. SumFunctionOnSet(f, t \ {y}) = f[x] + SumFunctionOnSet(f, (t \ {y}) \ {x})
      BY <1>6, <1>10, <2>2
    <3>2. SumFunctionOnSet(f, t \ {x}) = f[y] + SumFunctionOnSet(f, (t \ {x}) \ {y})
      BY <1>6, <1>10, <2>2
    <3>3. (t \ {y}) \ {x} = (t \ {x}) \ {y}
      OBVIOUS
    <3>4. /\ f[x] \in Nat /\ f[y] \in Nat /\ SumFunctionOnSet(f, t \ {y}) \in Nat /\ SumFunctionOnSet(f, t \ {x}) \in Nat
      BY <1>5, <1>6, <1>10
    <3>5. PICK a : a = SumFunctionOnSet(f, (t \ {y}) \ {x})
      OBVIOUS
    <3>6. a \in Nat
      <4>1. (t \ {y}) \ {x} \in SUBSET t /\ (t \ {y}) \ {x} # t
        BY <1>10
      <4> QED  BY <1>6, <3>5, <4>1
    <3>7. SumFunctionOnSet(f, t) = f[y] + (f[x] + a)
      BY <1>10, <3>1, <3>5
    <3>8. SumFunctionOnSet(f, t \ {x}) = f[y] + a
      BY <3>2, <3>3, <3>5
    <3>9. f[y] + (f[x] + a) = f[x] + (f[y] + a)
      BY <3>4, <3>6
    <3> QED  BY <3>7, <3>8, <3>9
  <2> QED  BY <2>1, <2>2
<1> QED  BY <1>4, <1>10, <1>11, <1>12

(* A sum over a part is at most that over the whole.                *)
LEMMA SumGrows ==
  ASSUME NEW f, NEW S, IsFiniteSet(S), \A x \in S : f[x] \in Nat, NEW T \in SUBSET S
  PROVE  SumFunctionOnSet(f, T) <= SumFunctionOnSet(f, S)
<1> DEFINE Bad == {t \in SUBSET S : T \subseteq t /\ ~ (SumFunctionOnSet(f, T) <= SumFunctionOnSet(f, t))}
           Sizes == {Cardinality(t) : t \in Bad}
<1> SUFFICES ASSUME S \in Bad PROVE FALSE
  OBVIOUS
<1>1. ASSUME NEW t \in SUBSET S
      PROVE  IsFiniteSet(t) /\ Cardinality(t) \in Nat /\ SumFunctionOnSet(f, t) \in Nat
  BY FS_Subset, FS_CardinalityType, SumTakesOut
<1>2. Sizes \subseteq Nat /\ Sizes # {}
  BY <1>1
<1>3. PICK m \in Sizes : \A x \in Sizes : m <= x
  <2> HIDE DEF Sizes
  <2> QED  BY <1>2, LeastNat
<1>4. PICK t \in Bad : m = Cardinality(t)
  BY <1>3
<1>5. PICK y \in t : y \notin T
  BY <1>1, <1>4
<1>6. t \ {y} \in SUBSET S /\ T \subseteq t \ {y}
  BY <1>4, <1>5
<1>7. Cardinality(t \ {y}) < Cardinality(t)
  <2>1. IsFiniteSet(t) /\ Cardinality(t) \in Nat
    BY <1>1, <1>4
  <2>2. Cardinality(t \ {y}) = Cardinality(t) - 1
    BY <1>5, <2>1, FS_RemoveElement
  <2> QED  BY <2>1, <2>2
<1>8. SumFunctionOnSet(f, T) <= SumFunctionOnSet(f, t \ {y})
  <2>1. ASSUME t \ {y} \in Bad PROVE FALSE
    <3>1. Cardinality(t \ {y}) \in Sizes
      BY <2>1
    <3>2. Cardinality(t \ {y}) \in Nat /\ Cardinality(t) \in Nat
      BY <1>1, <1>4, <1>6
    <3> HIDE DEF Sizes, Bad
    <3> QED  BY <1>3, <1>4, <1>7, <3>1, <3>2
  <2> QED  BY <1>6, <2>1
<1>9. SumFunctionOnSet(f, t) = f[y] + SumFunctionOnSet(f, t \ {y})
  BY <1>1, <1>4, <1>5, SumTakesOut
<1>10. f[y] \in Nat /\ SumFunctionOnSet(f, T) \in Nat /\ SumFunctionOnSet(f, t) \in Nat /\ SumFunctionOnSet(f, t \ {y}) \in Nat
  BY <1>1, <1>4, <1>5, <1>6
<1>11. SumFunctionOnSet(f, T) <= SumFunctionOnSet(f, t)
  <2> HIDE DEF Bad
  <2> QED  BY <1>8, <1>9, <1>10
<1> QED  BY <1>4, <1>11

(* A sum is nothing just when every element brings nothing.              *)
LEMMA SumZero ==
  ASSUME NEW f, NEW S, IsFiniteSet(S), \A x \in S : f[x] \in Nat
  PROVE  SumFunctionOnSet(f, S) = 0 <=> \A x \in S : f[x] = 0
<1>1. ASSUME NEW x \in S, f[x] # 0 PROVE SumFunctionOnSet(f, S) # 0
  <2>1. SumFunctionOnSet(f, S) = f[x] + SumFunctionOnSet(f, S \ {x})
    BY SumTakesOut
  <2>2. SumFunctionOnSet(f, S \ {x}) \in Nat
    <3>1. IsFiniteSet(S \ {x})
      BY FS_Subset
    <3> QED  BY <3>1, SumTakesOut
  <2>3. f[x] \in Nat
    BY <1>1
  <2> QED  BY <1>1, <2>1, <2>2, <2>3
<1>2. ASSUME \A x \in S : f[x] = 0 PROVE SumFunctionOnSet(f, S) = 0
  <2> DEFINE Bad == {t \in SUBSET S : SumFunctionOnSet(f, t) # 0}
             Sizes == {Cardinality(t) : t \in Bad}
  <2> SUFFICES ASSUME S \in Bad PROVE FALSE
    OBVIOUS
  <2>1. ASSUME NEW t \in SUBSET S PROVE IsFiniteSet(t) /\ Cardinality(t) \in Nat
    BY FS_Subset, FS_CardinalityType
  <2>2. Sizes \subseteq Nat /\ Sizes # {}
    BY <2>1
  <2>3. PICK m \in Sizes : \A x \in Sizes : m <= x
    <3> HIDE DEF Sizes
    <3> QED  BY <2>2, LeastNat
  <2>4. PICK t \in Bad : m = Cardinality(t)
    BY <2>3
  <2>5. IsFiniteSet(t) /\ t \in SUBSET S
    BY <2>1, <2>4
  <2>6. t # {}
    BY <2>4, <2>5, SumIs
  <2>7. First(t) \in t /\ Cardinality(t \ {First(t)}) < Cardinality(t)
    BY <2>5, <2>6, FirstIsOne
  <2>8. SumFunctionOnSet(f, t \ {First(t)}) = 0
    <3> DEFINE r == t \ {First(t)}
    <3>1. r \in SUBSET S /\ Cardinality(r) \in Nat /\ Cardinality(t) \in Nat
      BY <2>1, <2>5
    <3>2. ASSUME r \in Bad PROVE FALSE
      <4>1. Cardinality(r) \in Sizes
        BY <3>2
      <4> HIDE DEF Sizes, Bad
      <4> QED  BY <2>3, <2>4, <2>7, <3>1, <4>1
    <3> QED  BY <3>1, <3>2
  <2>9. SumFunctionOnSet(f, t) = f[First(t)] + SumFunctionOnSet(f, t \ {First(t)})
    BY <2>5, <2>6, SumIs
  <2>10. SumFunctionOnSet(f, t) = 0
    BY <1>2, <2>5, <2>7, <2>8, <2>9
  <2> QED  BY <2>4, <2>10
<1> QED  BY <1>1, <1>2

=============================================================================
