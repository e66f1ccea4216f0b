-------------------------- MODULE FiniteInduction --------------------------
(***************************************************************************)
(* What the proofs of this project share of inductions over what is        *)
(* finite: a finite, nonempty set has a minimal element, finitely many     *)
(* natural numbers can be numbered from below, a sum over a finite set     *)
(* takes any of its elements first, and what is defined from one number to *)
(* the next exists.                                                        *)
(***************************************************************************)
EXTENDS FiniteSetTheorems, WellFoundedInduction, TLAPS

(***************************************************************************)
(* Whatever transitive, irreflexive relation orders a finite nonempty set, *)
(* some element of the set has none of the others below it.  This is what  *)
(* makes "the nearest row of the account" of attribution.py and "the       *)
(* closest pair" of transfers.py exist.                                    *)
(***************************************************************************)
LEMMA FiniteMinimum ==
    ASSUME NEW T, IsFiniteSet(T), T # {},
           NEW R,
           \A x \in T : <<x, x>> \notin R,
           \A x, y, z \in T : <<x, y>> \in R /\ <<y, z>> \in R => <<x, z>> \in R
    PROVE  \E x \in T : \A y \in T : <<y, x>> \notin R
<1> DEFINE Down(x) == {y \in T : <<y, x>> \in R}
           D == {Down(x) : x \in T}
<1>1. D \subseteq FiniteSubsetsOf(T)
  <2>1. D \subseteq SUBSET T
    OBVIOUS
  <2> QED  BY <2>1, FS_FiniteSubsetsOfFinite
<1>2. D # {}
  <2>1. PICK x : x \in T
    OBVIOUS
  <2>2. Down(x) \in D
    BY <2>1
  <2> QED  BY <2>2
<1> HIDE DEF D
<1>3. PICK M \in D : \A N \in D : <<N, M>> \notin StrictSubsetOrdering(T)
  <2>1. IsWellFoundedOn(StrictSubsetOrdering(T), FiniteSubsetsOf(T))
    BY FS_StrictSubsetOrderingWellFounded
  <2> QED  BY <1>1, <1>2, <2>1, WFMin
<1>4. PICK x \in T : M = Down(x)
  BY DEF D
<1>5. ASSUME NEW y \in T, <<y, x>> \in R
      PROVE  FALSE
  <2>1. Down(y) \in D
    BY DEF D
  <2>2. Down(y) \subseteq Down(x)
    BY <1>5
  <2>3. y \in Down(x) /\ y \notin Down(y)
    BY <1>5
  <2>4. <<Down(y), Down(x)>> \in StrictSubsetOrdering(T)
    <3>1. Down(y) \in SUBSET T /\ Down(x) \in SUBSET T
      OBVIOUS
    <3>2. Down(y) # Down(x)
      BY <2>3
    <3> HIDE DEF Down
    <3> QED  BY <2>2, <3>1, <3>2 DEF StrictSubsetOrdering
  <2> QED  BY <2>1, <2>4, <1>3, <1>4
<1> QED  BY <1>5

(***************************************************************************)
(* Of natural numbers one is the least: Min of FiniteSetsExt is one.       *)
(***************************************************************************)
LEMMA LeastNatural ==
    ASSUME NEW S \in SUBSET Nat, S # {}
    PROVE  \E m \in S : \A n \in S : m <= n
<1>1. PICK k \in S : TRUE
  OBVIOUS
<1> DEFINE T == {n \in S : n <= k}
           R == {p \in Nat \X Nat : p[1] < p[2]}
<1>2. IsFiniteSet(T)
  BY FS_BoundedSetOfNaturals
<1>3. PICK m \in T : \A n \in T : <<n, m>> \notin R
  <2>1. T # {} /\ \A x \in T : <<x, x>> \notin R
    BY <1>1
  <2>2. \A x, y, z \in T : <<x, y>> \in R /\ <<y, z>> \in R => <<x, z>> \in R
    OBVIOUS
  <2> HIDE DEF T, R
  <2> QED  BY <1>2, <2>1, <2>2, FiniteMinimum
<1>4. ASSUME NEW n \in S PROVE m <= n
  <2>1. m \in Nat /\ n \in Nat /\ k \in Nat /\ m <= k
    BY <1>1, <1>3
  <2>2. n <= k => ~ (n < m)
    BY <1>3, <2>1
  <2> QED  BY <2>1, <2>2
<1> QED  BY <1>3, <1>4

(***************************************************************************)
(* Finitely many natural numbers have ranks: how many of them there are    *)
(* down to one.  Each rank from 1 on belongs to exactly one of them.       *)
(***************************************************************************)
LEMMA Ranks ==
    ASSUME NEW S \in SUBSET Nat, IsFiniteSet(S)
    PROVE  LET Rank(i) == Cardinality({j \in S : j <= i})
           IN  /\ \A i \in S : Rank(i) \in 1..Cardinality(S)
               /\ \A i, j \in S : i < j <=> Rank(i) < Rank(j)
               /\ \A k \in 1..Cardinality(S) : \E i \in S : Rank(i) = k
<1> DEFINE Down(i) == {j \in S : j <= i}
           Rank(i) == Cardinality(Down(i))
           n == Cardinality(S)
           f == [i \in S |-> Rank(i)]
<1>1. n \in Nat
  BY FS_CardinalityType
<1>2. ASSUME NEW i \in S PROVE IsFiniteSet(Down(i)) /\ Rank(i) \in 1..n /\ Rank(i) \in Nat
  <2>1. Down(i) \in SUBSET S /\ i \in Down(i)
    OBVIOUS
  <2>2. IsFiniteSet(Down(i)) /\ Rank(i) <= n
    BY <2>1, FS_Subset
  <2>3. Rank(i) \in Nat /\ Rank(i) # 0
    BY <2>1, <2>2, FS_CardinalityType, FS_EmptySet
  <2> QED  BY <1>1, <2>2, <2>3
<1>3. ASSUME NEW i \in S, NEW j \in S, i < j PROVE Rank(i) < Rank(j)
  <2>1. Down(i) \in SUBSET Down(j)
    <3>1. ASSUME NEW l \in S, l <= i PROVE l <= j
      BY <1>3, <3>1
    <3> QED  BY <3>1
  <2>2. j \in Down(j) /\ j \notin Down(i)
    BY <1>3
  <2>3. Rank(i) <= Rank(j) /\ Rank(i) # Rank(j)
    BY <1>2, <2>1, <2>2, FS_Subset
  <2> QED  BY <1>1, <1>2, <2>3
<1> HIDE DEF Rank, n
<1>4. \A i, j \in S : i < j <=> Rank(i) < Rank(j)
  <2> SUFFICES ASSUME NEW i \in S, NEW j \in S, Rank(i) < Rank(j) PROVE i < j
    BY <1>3
  <2>1. Rank(i) \in Nat /\ Rank(j) \in Nat
    BY <1>1, <1>2
  <2>2. i # j /\ ~ (j < i)
    BY <1>3, <2>1
  <2> QED  BY <2>2
<1>5. f \in Injection(S, 1..n)
  <2>1. f \in [S -> 1..n]
    BY <1>2
  <2>2. ASSUME NEW i \in S, NEW j \in S, f[i] = f[j] PROVE i = j
    <3>1. Rank(i) = Rank(j) /\ Rank(i) \in Nat
      BY <1>1, <1>2, <2>2
    <3>2. ~ (i < j) /\ ~ (j < i)
      BY <1>3, <3>1
    <3> QED  BY <3>2
  <2> QED  BY <2>1, <2>2 DEF Injection, IsInjective
<1>6. f \in Surjection(S, 1..n)
  <2>1. IsFiniteSet(1..n) /\ Cardinality(1..n) = n
    BY <1>1, FS_Interval
  <2> QED  BY <1>5, <2>1, FS_Injection DEF n
<1>7. \A k \in 1..n : \E i \in S : Rank(i) = k
  BY <1>6 DEF Surjection
<1> QED  BY <1>2, <1>4, <1>7 DEF Rank, n

----------------------------------------------------------------------------
(* Sums over finite sets.  MapThenSumSet of FiniteSetsExt takes the set    *)
(* apart by CHOOSE in a recursive function: the function exists, and the   *)
(* sum does not depend on what CHOOSE chooses.                             *)

Chosen(s) == CHOOSE x \in s : TRUE

SumsOf(f, S) ==
    CHOOSE g : g = [s \in SUBSET S |->
                      IF s = {} THEN 0 ELSE f[CHOOSE x \in s : TRUE] + g[s \ {CHOOSE x \in s : TRUE}]]

SumOf(f, S) == SumsOf(f, S)[S]

\* Of parts of a finite set one has no part with an element less among the
\* others: what an induction over finite sets takes.
LEMMA SmallestPart ==
    ASSUME NEW S, IsFiniteSet(S), NEW B \in SUBSET (SUBSET S), B # {}
    PROVE  \E s \in B : \A x \in s : s \ {x} \notin B
<1> DEFINE N == {Cardinality(s) : s \in B}
<1>1. \A s \in B : IsFiniteSet(s) /\ Cardinality(s) \in Nat
  BY FS_Subset, FS_CardinalityType
<1>2. N \in SUBSET Nat /\ N # {}
  BY <1>1
<1>3. PICK m \in N : \A n \in N : m <= n
  <2> HIDE DEF N
  <2> QED  BY <1>2, LeastNatural
<1>4. PICK s \in B : Cardinality(s) = m
  BY <1>3
<1>5. ASSUME NEW x \in s, s \ {x} \in B PROVE FALSE
  <2>1. Cardinality(s \ {x}) = Cardinality(s) - 1
    BY <1>1, FS_RemoveElement
  <2>2. Cardinality(s) <= Cardinality(s \ {x})
    BY <1>3, <1>4, <1>5
  <2> QED  BY <1>1, <2>1, <2>2
<1> QED  BY <1>5

\* The recursive function exists.
LEMMA SumsExist ==
    ASSUME NEW S, IsFiniteSet(S), NEW f, \A x \in S : f[x] \in Int
    PROVE  /\ SumsOf(f, S)[{}] = 0
           /\ \A s \in SUBSET S : s # {} =>
                SumsOf(f, S)[s] = f[Chosen(s)] + SumsOf(f, S)[s \ {Chosen(s)}]
           /\ \A s \in SUBSET S : SumsOf(f, S)[s] \in Int
<1> DEFINE P == SUBSET S
           Sum(g, s) == IF s = {} THEN 0 ELSE f[Chosen(s)] + g[s \ {Chosen(s)}]
           Upto(n) == \E g \in [P -> Int] : \A s \in P : Cardinality(s) <= n => g[s] = Sum(g, s)
<1>1. ASSUME NEW s \in P
      PROVE  /\ IsFiniteSet(s) /\ Cardinality(s) \in Nat
             /\ s # {} => /\ Chosen(s) \in s
                          /\ s \ {Chosen(s)} \in P
                          /\ f[Chosen(s)] \in Int
                          /\ Cardinality(s \ {Chosen(s)}) = Cardinality(s) - 1
             /\ Cardinality(s) = 0 <=> s = {}
             /\ Cardinality(s) <= Cardinality(S)
  <2>1. IsFiniteSet(s) /\ Cardinality(s) \in Nat /\ Cardinality(s) <= Cardinality(S)
    BY FS_Subset, FS_CardinalityType
  <2>2. s # {} => Chosen(s) \in s
    BY DEF Chosen
  <2>3. s # {} => Cardinality(s \ {Chosen(s)}) = Cardinality(s) - 1
    BY <2>1, <2>2, FS_RemoveElement
  <2>4. Cardinality(s) = 0 <=> s = {}
    BY <2>1, FS_EmptySet
  <2> QED  BY <2>1, <2>2, <2>3, <2>4
<1>2. Upto(0)
  <2> DEFINE g == [s \in P |-> 0]
  <2>1. g \in [P -> Int]
    OBVIOUS
  <2>2. ASSUME NEW s \in P, Cardinality(s) <= 0 PROVE g[s] = Sum(g, s)
    <3>1. Cardinality(s) \in Nat /\ (Cardinality(s) = 0 <=> s = {})
      BY <1>1
    <3>2. s = {}
      BY <2>2, <3>1
    <3> QED  BY <3>2
  <2> QED  BY <2>1, <2>2
<1>3. ASSUME NEW n \in Nat, Upto(n) PROVE Upto(n + 1)
  <2>1. PICK g \in [P -> Int] : \A s \in P : Cardinality(s) <= n => g[s] = Sum(g, s)
    BY <1>3
  <2> DEFINE h == [s \in P |-> IF Cardinality(s) = n + 1 THEN Sum(g, s) ELSE g[s]]
  <2>2. ASSUME NEW s \in P PROVE Sum(g, s) \in Int
    <3>1. CASE s = {}
      BY <3>1
    <3>2. CASE s # {}
      <4>1. s \ {Chosen(s)} \in P /\ f[Chosen(s)] \in Int
        BY <1>1, <3>2
      <4>2. g[s \ {Chosen(s)}] \in Int
        <5> HIDE DEF P
        <5> QED  BY <4>1
      <4> QED  BY <3>2, <4>1, <4>2
    <3> QED  BY <3>1, <3>2
  <2>3. h \in [P -> Int]
    BY <2>2
  <2>4. ASSUME NEW s \in P, Cardinality(s) <= n + 1 PROVE h[s] = Sum(h, s)
    <3>1. h[s] = Sum(g, s)
      <4>1. CASE Cardinality(s) = n + 1
        BY <4>1
      <4>2. CASE Cardinality(s) # n + 1
        <5>1. Cardinality(s) \in Nat
          BY <1>1
        <5>2. Cardinality(s) <= n
          BY <2>4, <4>2, <5>1
        <5> HIDE DEF Sum
        <5> QED  BY <2>1, <4>2, <5>2
      <4> QED  BY <4>1, <4>2
    <3>2. CASE s = {}
      BY <3>1, <3>2
    <3>3. CASE s # {}
      <4>1. s \ {Chosen(s)} \in P /\ Cardinality(s \ {Chosen(s)}) # n + 1
        BY <1>1, <2>4, <3>3
      <4>2. h[s \ {Chosen(s)}] = g[s \ {Chosen(s)}]
        BY <4>1
      <4> QED  BY <3>1, <3>3, <4>2
    <3> QED  BY <3>2, <3>3
  <2> HIDE DEF h
  <2> QED  BY <2>3, <2>4
<1> HIDE DEF Upto
<1>4. \A n \in Nat : Upto(n)
  <2> DEFINE Bad == {n \in Nat : ~ Upto(n)}
  <2> SUFFICES ASSUME Bad # {} PROVE FALSE
    OBVIOUS
  <2>1. PICK m \in Bad : \A n \in Bad : m <= n
    BY LeastNatural
  <2>2. m \in Nat /\ m # 0 /\ m - 1 \in Nat /\ m - 1 \notin Bad
    BY <1>2, <2>1
  <2>3. Upto((m - 1) + 1) /\ (m - 1) + 1 = m
    BY <1>3, <2>2
  <2> QED  BY <2>1, <2>3
<1>5. PICK g \in [P -> Int] : \A s \in P : g[s] = Sum(g, s)
  <2>1. Upto(Cardinality(S))
    BY <1>4, FS_CardinalityType
  <2> QED  BY <1>1, <2>1 DEF Upto
<1> DEFINE sums == SumsOf(f, S)
<1>6. sums = [s \in P |-> Sum(sums, s)]
  <2>1. g = [s \in P |-> Sum(g, s)]
    BY <1>5
  <2> QED  BY <2>1 DEF SumsOf, Chosen
<1> HIDE DEF sums
<1>7. sums[{}] = 0 /\ \A s \in P : s # {} => sums[s] = f[Chosen(s)] + sums[s \ {Chosen(s)}]
  BY <1>6
<1>8. \A s \in P : sums[s] \in Int
  <2> DEFINE Bad == {s \in P : sums[s] \notin Int}
  <2> SUFFICES ASSUME Bad # {} PROVE FALSE
    OBVIOUS
  <2>1. PICK s \in Bad : \A x \in s : s \ {x} \notin Bad
    <3>1. Bad \in SUBSET (SUBSET S)
      OBVIOUS
    <3> HIDE DEF Bad, P
    <3> QED  BY <3>1, SmallestPart
  <2>2. s \in P /\ sums[s] \notin Int /\ s # {}
    <3>1. sums[{}] \in Int
      BY <1>7
    <3> QED  BY <2>1, <3>1
  <2>3. Chosen(s) \in s /\ s \ {Chosen(s)} \in P /\ f[Chosen(s)] \in Int
    BY <1>1, <2>2
  <2>4. sums[s \ {Chosen(s)}] \in Int
    BY <2>1, <2>3
  <2>5. sums[s] = f[Chosen(s)] + sums[s \ {Chosen(s)}]
    BY <1>7, <2>2
  <2> QED  BY <2>2, <2>3, <2>4, <2>5
<1> QED  BY <1>7, <1>8 DEF sums

\* The sum of a part is the same whichever set it is summed as a part of.
LEMMA SumOfPart ==
    ASSUME NEW S, IsFiniteSet(S), NEW f, \A x \in S : f[x] \in Int, NEW T \in SUBSET S
    PROVE  SumsOf(f, S)[T] = SumOf(f, T)
<1> DEFINE g == SumsOf(f, S)
           h == SumsOf(f, T)
           Bad == {s \in SUBSET T : g[s] # h[s]}
<1>1. IsFiniteSet(T) /\ \A x \in T : f[x] \in Int
  BY FS_Subset
<1>2. /\ g[{}] = 0 /\ h[{}] = 0
      /\ \A s \in SUBSET T : s # {} => g[s] = f[Chosen(s)] + g[s \ {Chosen(s)}]
      /\ \A s \in SUBSET T : s # {} => h[s] = f[Chosen(s)] + h[s \ {Chosen(s)}]
  BY <1>1, SumsExist
<1>3. ASSUME Bad # {} PROVE FALSE
  <2>1. PICK s \in Bad : \A x \in s : s \ {x} \notin Bad
    <3>1. Bad \in SUBSET (SUBSET T)
      OBVIOUS
    <3> HIDE DEF Bad
    <3> QED  BY <1>1, <1>3, <3>1, SmallestPart
  <2> HIDE DEF g, h
  <2>2. s # {} /\ s \in SUBSET T
    BY <1>2, <2>1
  <2>3. Chosen(s) \in s
    BY <2>2 DEF Chosen
  <2>4. s \ {Chosen(s)} \in SUBSET T
    BY <2>2
  <2>5. g[s \ {Chosen(s)}] = h[s \ {Chosen(s)}]
    BY <2>1, <2>3, <2>4
  <2> QED  BY <1>2, <2>1, <2>2, <2>5
<1> QED  BY <1>3 DEF SumOf

\* A sum is a number, that of nothing is zero, and any element can be taken
\* out of it first.
LEMMA SumTakesOut ==
    ASSUME NEW S, IsFiniteSet(S), NEW f, \A x \in S : f[x] \in Int
    PROVE  /\ SumOf(f, S) \in Int
           /\ S = {} => SumOf(f, S) = 0
           /\ \A x \in S : SumOf(f, S) = f[x] + SumOf(f, S \ {x})
<1>1. \A T \in SUBSET S : SumsOf(f, S)[T] = SumOf(f, T)
  BY SumOfPart
<1>2. \A T \in SUBSET S : SumOf(f, T) \in Int
  BY <1>1, SumsExist
<1>3. SumOf(f, {}) = 0
  BY <1>1, SumsExist
<1>4. ASSUME NEW T \in SUBSET S, T # {}
      PROVE  SumOf(f, T) = f[Chosen(T)] + SumOf(f, T \ {Chosen(T)})
  <2>1. T \ {Chosen(T)} \in SUBSET S
    OBVIOUS
  <2>2. SumsOf(f, S)[T] = f[Chosen(T)] + SumsOf(f, S)[T \ {Chosen(T)}]
    BY <1>4, SumsExist
  <2> QED  BY <1>1, <2>1, <2>2
<1> DEFINE Bad == {T \in SUBSET S : \E x \in T : SumOf(f, T) # f[x] + SumOf(f, T \ {x})}
<1>5. ASSUME Bad # {} PROVE FALSE
  <2>1. PICK T \in Bad : \A x \in T : T \ {x} \notin Bad
    <3>1. Bad \in SUBSET (SUBSET S)
      OBVIOUS
    <3> HIDE DEF Bad
    <3> QED  BY <1>5, <3>1, SmallestPart
  <2>2. PICK x \in T : SumOf(f, T) # f[x] + SumOf(f, T \ {x})
    BY <2>1
  <2> DEFINE c == Chosen(T)
  <2>3. T \in SUBSET S /\ T # {} /\ c \in T
    BY <2>1, <2>2 DEF Chosen
  <2>4. SumOf(f, T) = f[c] + SumOf(f, T \ {c})
    BY <1>4, <2>3
  <2> HIDE DEF c
  <2>5. x # c
    BY <2>2, <2>4
  <2>6. SumOf(f, T \ {c}) = f[x] + SumOf(f, (T \ {c}) \ {x})
    <3>1. T \ {c} \in SUBSET S /\ T \ {c} \notin Bad /\ x \in T \ {c}
      BY <2>1, <2>3, <2>5
    <3> QED  BY <3>1
  <2>7. SumOf(f, T \ {x}) = f[c] + SumOf(f, (T \ {x}) \ {c})
    <3>1. T \ {x} \in SUBSET S /\ T \ {x} \notin Bad /\ c \in T \ {x}
      BY <2>1, <2>3, <2>5
    <3> QED  BY <3>1
  <2>8. (T \ {x}) \ {c} = (T \ {c}) \ {x}
    OBVIOUS
  <2>9. f[x] \in Int /\ f[c] \in Int /\ SumOf(f, (T \ {c}) \ {x}) \in Int
    <3>1. (T \ {c}) \ {x} \in SUBSET S
      BY <2>3
    <3> QED  BY <1>2, <2>3, <3>1
  <2> DEFINE rest == SumOf(f, (T \ {c}) \ {x})
  <2>10. SumOf(f, T) = f[c] + (f[x] + rest) /\ f[x] + SumOf(f, T \ {x}) = f[x] + (f[c] + rest)
    BY <2>4, <2>6, <2>7, <2>8
  <2>11. f[c] + (f[x] + rest) = f[x] + (f[c] + rest)
    <3>1. f[x] \in Int /\ f[c] \in Int /\ rest \in Int
      BY <2>9
    <3> HIDE DEF rest
    <3> QED  BY <3>1
  <2> QED  BY <2>2, <2>10, <2>11
<1>6. ASSUME NEW x \in S PROVE SumOf(f, S) = f[x] + SumOf(f, S \ {x})
  <2>1. S \in SUBSET S
    OBVIOUS
  <2> QED  BY <1>5, <2>1
<1> QED  BY <1>2, <1>3, <1>6

\* The sums of two sets without common elements make up that of both.
LEMMA SumOfBoth ==
    ASSUME NEW S, IsFiniteSet(S), NEW f, \A x \in S : f[x] \in Int,
           NEW A, NEW B, A \cup B = S, A \cap B = {}
    PROVE  SumOf(f, S) = SumOf(f, A) + SumOf(f, B)
<1> DEFINE Bad == {T \in SUBSET B : SumOf(f, A \cup T) # SumOf(f, A) + SumOf(f, T)}
<1>1. ASSUME NEW T \in SUBSET S
      PROVE  /\ IsFiniteSet(T) /\ SumOf(f, T) \in Int
             /\ T = {} => SumOf(f, T) = 0
             /\ \A x \in T : SumOf(f, T) = f[x] + SumOf(f, T \ {x})
  <2>1. IsFiniteSet(T) /\ \A x \in T : f[x] \in Int
    BY FS_Subset
  <2> QED  BY <2>1, SumTakesOut
<1>2. A \in SUBSET S /\ B \in SUBSET S
  OBVIOUS
<1>3. ASSUME Bad # {} PROVE FALSE
  <2>1. PICK T \in Bad : \A x \in T : T \ {x} \notin Bad
    <3>1. Bad \in SUBSET (SUBSET B) /\ IsFiniteSet(B)
      BY <1>1, <1>2
    <3> HIDE DEF Bad
    <3> QED  BY <1>3, <3>1, SmallestPart
  <2>2. T \in SUBSET B /\ SumOf(f, A \cup T) # SumOf(f, A) + SumOf(f, T)
    BY <2>1
  <2>3. SumOf(f, A) \in Int /\ T \in SUBSET S /\ A \cup T \in SUBSET S
    BY <1>1, <1>2, <2>2
  <2>4. CASE T = {}
    <3>1. A \cup T = A
      BY <2>4
    <3>2. SumOf(f, A \cup T) = SumOf(f, A) /\ SumOf(f, T) = 0
      BY <1>1, <2>3, <2>4, <3>1
    <3>3. SumOf(f, A) # SumOf(f, A) + 0
      BY <2>2, <3>2
    <3> QED  BY <2>3, <3>3
  <2>5. CASE T # {}
    <3>1. PICK x : x \in T
      BY <2>5
    <3>2. (A \cup T) \ {x} = A \cup (T \ {x})
      BY <2>2, <3>1
    <3>3. SumOf(f, A \cup T) = f[x] + SumOf(f, A \cup (T \ {x}))
      BY <1>1, <2>3, <3>1, <3>2
    <3>4. SumOf(f, T) = f[x] + SumOf(f, T \ {x})
      BY <1>1, <2>3, <3>1
    <3>5. SumOf(f, A \cup (T \ {x})) = SumOf(f, A) + SumOf(f, T \ {x})
      BY <2>1, <2>2, <3>1
    <3>6. f[x] \in Int /\ SumOf(f, T \ {x}) \in Int
      <4>1. T \ {x} \in SUBSET S
        BY <2>3
      <4> QED  BY <1>1, <2>3, <3>1, <4>1
    <3> QED  BY <2>2, <2>3, <3>3, <3>4, <3>5, <3>6
  <2> QED  BY <2>4, <2>5
<1>4. B \notin Bad
  BY <1>3
<1> QED  BY <1>4

----------------------------------------------------------------------------
(* Induction and recursion over the numbers up to n. *)

\* Induction over the numbers up to n.
LEMMA UpToAll ==
    ASSUME NEW n \in Nat, NEW S, 0 \in S, \A k \in 1..n : k - 1 \in S => k \in S
    PROVE  \A k \in 0..n : k \in S
<1> DEFINE Bad == {k \in 0..n : k \notin S}
<1> SUFFICES ASSUME Bad # {} PROVE FALSE
  OBVIOUS
<1>1. PICK m \in Bad : \A k \in Bad : m <= k
  <2>1. Bad \in SUBSET Nat
    OBVIOUS
  <2> HIDE DEF Bad
  <2> QED  BY <2>1, LeastNatural
<1>2. m \in 1..n /\ m - 1 \in 0..n
  BY <1>1
<1>3. m - 1 \notin Bad
  BY <1>1, <1>2
<1> QED  BY <1>1, <1>2, <1>3

\* f starts with base and goes on by steps; two functions agree.
Recurs(f, n, base, step) == f[0] = base /\ \A k \in 1..n : f[k] = step[<<k, f[k - 1]>>]

SomeRecurs(n, V, base, step) == \E f \in [0..n -> V] : Recurs(f, n, base, step)

Agree(n, f, g) == \A k \in 0..n : f[k] = g[k]

\* What is defined from one number to the next exists.
LEMMA RecursionUpTo ==
    ASSUME NEW n \in Nat, NEW V, NEW base \in V, NEW step,
           \A k \in 1..n : \A v \in V : step[<<k, v>>] \in V
    PROVE  SomeRecurs(n, V, base, step)
<1> DEFINE Good(m, f) == Recurs(f, m, base, step)
           S == {m \in 0..n : \E f \in [0..n -> V] : Good(m, f)}
<1>1. 0 \in S
  <2> DEFINE h == [k \in 0..n |-> base]
  <2>1. h \in [0..n -> V] /\ Good(0, h)
    BY DEF Recurs
  <2> HIDE DEF h
  <2>2. \E f \in [0..n -> V] : Good(0, f)
    BY <2>1
  <2> HIDE DEF Good
  <2> QED  BY <2>2
<1>2. ASSUME NEW m \in 1..n, m - 1 \in S PROVE m \in S
  <2>1. PICK f \in [0..n -> V] : Good(m - 1, f)
    BY <1>2
  <2> DEFINE h == [k \in 0..n |-> IF k = m THEN step[<<m, f[m - 1]>>] ELSE f[k]]
  <2>2. step[<<m, f[m - 1]>>] \in V
    OBVIOUS
  <2>3. h \in [0..n -> V]
    BY <2>2
  <2>4. h[0] = base
    BY <2>1 DEF Recurs
  <2>5. ASSUME NEW k \in 1..m PROVE h[k] = step[<<k, h[k - 1]>>]
    <3>1. k \in 0..n /\ k - 1 \in 0..n /\ k - 1 # m /\ h[k - 1] = f[k - 1]
      OBVIOUS
    <3>2. CASE k = m
      BY <3>1, <3>2
    <3>3. CASE k # m
      <4>1. k \in 1..m - 1
        BY <3>3
      <4>2. f[k] = step[<<k, f[k - 1]>>]
        BY <2>1, <4>1 DEF Recurs
      <4> QED  BY <3>1, <3>3, <4>2
    <3> QED  BY <3>2, <3>3
  <2> HIDE DEF h
  <2> QED  BY <2>3, <2>4, <2>5 DEF Recurs
<1>3. n \in S
  <2> HIDE DEF S
  <2> QED  BY <1>1, <1>2, UpToAll
<1>4. \E f \in [0..n -> V] : Good(n, f)
  BY <1>3
<1> QED  BY <1>4 DEF SomeRecurs

\* Two functions that go on in the same manner are the same.
LEMMA SameUpTo ==
    ASSUME NEW n \in Nat, NEW f, NEW g, f[0] = g[0],
           \A k \in 1..n : f[k - 1] = g[k - 1] => f[k] = g[k]
    PROVE  Agree(n, f, g)
<1> DEFINE S == {k \in 0..n : f[k] = g[k]}
<1>1. 0 \in S
  OBVIOUS
<1>2. ASSUME NEW k \in 1..n, k - 1 \in S PROVE k \in S
  <2>1. f[k - 1] = g[k - 1] /\ k \in 0..n
    BY <1>2
  <2> QED  BY <2>1
<1>3. \A k \in 0..n : k \in S
  <2> HIDE DEF S
  <2> QED  BY <1>1, <1>2, UpToAll
<1> QED  BY <1>3 DEF Agree

=============================================================================
