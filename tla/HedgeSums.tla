------------------------------ MODULE HedgeSums ------------------------------
(***************************************************************************)
(* Sums over finite sets: the facts the proofs about gauges, committed     *)
(* costs and counters need about MapThenSumSet, which the models sum with. *)
(* A fact about every set, or every number, is shown by looking at a least *)
(* one for which it would not hold.                                        *)
(***************************************************************************)
EXTENDS Integers, FiniteSets, FiniteSetsExt, FiniteSetTheorems, TLAPS

\* The sum of f over S, with the summands given by a function.
SumOf(f, S) == MapThenSumSet(LAMBDA x : f[x], S)

AnyOf(s) == CHOOSE x \in s : TRUE

\* it is the fold that MapThenSumSet evaluates, on the subsets of S.
IsFold(f, S, it) ==
    it = [s \in SUBSET S |->
            IF s = {} THEN 0 ELSE f[AnyOf(s)] + it[s \ {AnyOf(s)}]]

\* The sum is the value of the fold at the whole set.
LEMMA SumIsFold ==
    ASSUME NEW f, NEW S
    PROVE  SumOf(f, S) = (CHOOSE it : IsFold(f, S, it))[S]
BY DEF SumOf, MapThenSumSet, MapThenFoldSet, IsFold, AnyOf

\* Among some subsets of a finite set one has no other below it.
LEMMA SmallestSubset ==
    ASSUME NEW S, IsFiniteSet(S), NEW T \in SUBSET SUBSET S, T # {}
    PROVE  \E m \in T : \A s \in T : ~(s \subseteq m /\ s # m)
<1>1. IsWellFoundedOn(StrictSubsetOrdering(S), SUBSET S)
  BY FS_StrictSubsetOrderingWellFounded, FS_FiniteSubsetsOfFinite
<1>2. PICK m \in T : \A s \in T : <<s, m>> \notin StrictSubsetOrdering(S)
  BY <1>1, WFMin
<1>3. ASSUME NEW s \in T, s \subseteq m, s # m PROVE FALSE
  <2>1. <<s, m>> \in StrictSubsetOrdering(S)
    BY <1>3 DEF StrictSubsetOrdering
  <2> QED
    BY <1>2, <2>1
<1> QED
  BY <1>3

\* Among some natural numbers one is the least.
LEMMA SmallestNumber ==
    ASSUME NEW T \in SUBSET Nat, T # {}
    PROVE  \E m \in T : \A n \in T : m <= n
<1>1. PICK m \in T : \A n \in T : <<n, m>> \notin OpToRel(<, Nat)
  BY NatLessThanWellFounded, WFMin
<1>2. ASSUME NEW n \in T, n < m PROVE FALSE
  <2>1. <<n, m>> \in OpToRel(<, Nat)
    BY <1>2 DEF OpToRel
  <2> QED
    BY <1>1, <2>1
<1> QED
  BY <1>2

\* A fold's value at a set it is defined for.
LEMMA FoldValue ==
    ASSUME NEW f, NEW S, NEW it, IsFold(f, S, it), NEW s \in SUBSET S
    PROVE  /\ s = {} => it[s] = 0
           /\ s # {} => /\ AnyOf(s) \in s
                        /\ it[s] = f[AnyOf(s)] + it[s \ {AnyOf(s)}]
<1>1. it[s] = IF s = {} THEN 0 ELSE f[AnyOf(s)] + it[s \ {AnyOf(s)}]
  BY DEF IsFold
<1>2. s # {} => AnyOf(s) \in s
  BY DEF AnyOf
<1> QED
  BY <1>1, <1>2

\* Two folds of a function agree wherever both are defined.
LEMMA FoldUnique ==
    ASSUME NEW f, NEW S, NEW R, IsFiniteSet(S), NEW a, IsFold(f, R, a),
           S \subseteq R, NEW b, IsFold(f, S, b)
    PROVE  a[S] = b[S]
<1> DEFINE T == {s \in SUBSET S : a[s] # b[s]}
<1>1. SUFFICES ASSUME T # {} PROVE FALSE
  <2>1. S \in SUBSET S
    OBVIOUS
  <2> QED
    BY <1>1, <2>1
<1>2. PICK m \in T : \A s \in T : ~(s \subseteq m /\ s # m)
  <2>1. T \in SUBSET SUBSET S
    OBVIOUS
  <2> HIDE DEF T
  <2> QED
    BY <1>1, <2>1, SmallestSubset
<1>3. m \in SUBSET S /\ m \in SUBSET R /\ a[m] # b[m]
  BY <1>2
<1>4. m # {}
  BY <1>3, FoldValue
<1> DEFINE x == AnyOf(m)
<1>5. /\ x \in m /\ a[m] = f[x] + a[m \ {x}] /\ b[m] = f[x] + b[m \ {x}]
  BY <1>3, <1>4, FoldValue
<1>6. m \ {x} \in SUBSET S /\ m \ {x} \subseteq m /\ m \ {x} # m
  BY <1>3, <1>5
<1>7. m \ {x} \notin T
  BY <1>2, <1>6
<1>8. a[m \ {x}] = b[m \ {x}]
  BY <1>6, <1>7
<1> QED
  BY <1>3, <1>5, <1>8

\* Where there is a fold, its value is the sum.
LEMMA FoldIsSum ==
    ASSUME NEW f, NEW S, NEW R, IsFiniteSet(S), S \subseteq R,
           NEW a, IsFold(f, R, a), \E it : IsFold(f, S, it)
    PROVE  a[S] = SumOf(f, S)
<1> DEFINE c == CHOOSE it : IsFold(f, S, it)
<1>1. IsFold(f, S, c)
  OBVIOUS
<1> HIDE DEF c
<1>2. a[S] = c[S]
  BY <1>1, FoldUnique
<1> QED
  BY <1>2, SumIsFold DEF c

\* A fold restricted to a smaller set is one.
LEMMA FoldBelow ==
    ASSUME NEW f, NEW R, NEW a, IsFold(f, R, a), NEW S, S \subseteq R
    PROVE  IsFold(f, S, [s \in SUBSET S |-> a[s]])
<1> DEFINE b == [s \in SUBSET S |-> a[s]]
<1>1. ASSUME NEW s \in SUBSET S
      PROVE  b[s] = IF s = {} THEN 0 ELSE f[AnyOf(s)] + b[s \ {AnyOf(s)}]
  <2>1. s \in SUBSET R /\ s \ {AnyOf(s)} \in SUBSET S
    OBVIOUS
  <2>2. /\ s = {} => a[s] = 0
        /\ s # {} => a[s] = f[AnyOf(s)] + a[s \ {AnyOf(s)}]
    BY <2>1, FoldValue
  <2>3. b[s] = a[s] /\ b[s \ {AnyOf(s)}] = a[s \ {AnyOf(s)}]
    BY <2>1
  <2> QED
    BY <2>2, <2>3
<1> QED
  BY <1>1 DEF IsFold

\* What the sum over S is when S has a fold: the recursion of MapThenSumSet.
LEMMA SumOfFold ==
    ASSUME NEW f, NEW S, IsFiniteSet(S), \E it : IsFold(f, S, it)
    PROVE  /\ S = {} => SumOf(f, S) = 0
           /\ S # {} => /\ AnyOf(S) \in S
                        /\ SumOf(f, S) = f[AnyOf(S)] + SumOf(f, S \ {AnyOf(S)})
<1>1. PICK a : IsFold(f, S, a)
  OBVIOUS
<1>2. S \in SUBSET S /\ a[S] = SumOf(f, S)
  BY <1>1, FoldIsSum
<1>3. CASE S = {}
  BY <1>1, <1>2, <1>3, FoldValue
<1>4. CASE S # {}
  <2> DEFINE s == S \ {AnyOf(S)}
  <2>1. s \subseteq S /\ IsFiniteSet(s)
    BY FS_Subset
  <2>2. \E it : IsFold(f, s, it)
    BY <1>1, <2>1, FoldBelow
  <2>3. a[s] = SumOf(f, s)
    BY <1>1, <2>1, <2>2, FoldIsSum
  <2>4. AnyOf(S) \in S /\ a[S] = f[AnyOf(S)] + a[s]
    BY <1>1, <1>2, <1>4, FoldValue
  <2> QED
    BY <1>2, <1>4, <2>3, <2>4
<1> QED
  BY <1>3, <1>4

\* Every finite set has a fold: the recursion is well founded.
LEMMA FoldExists ==
    ASSUME NEW f, NEW S, IsFiniteSet(S)
    PROVE  \E it : IsFold(f, S, it)
<1> DEFINE T == {s \in SUBSET S : ~ \E it : IsFold(f, s, it)}
<1>1. SUFFICES ASSUME T # {} PROVE FALSE
  <2>1. S \in SUBSET S
    OBVIOUS
  <2> QED
    BY <1>1, <2>1
<1>2. PICK m \in T : \A s \in T : ~(s \subseteq m /\ s # m)
  <2>1. T \in SUBSET SUBSET S
    OBVIOUS
  <2> HIDE DEF T
  <2> QED
    BY <1>1, <2>1, SmallestSubset
<1> DEFINE it == [s \in SUBSET m |->
                    IF s = {} THEN 0 ELSE f[AnyOf(s)] + SumOf(f, s \ {AnyOf(s)})]
<1>3. ASSUME NEW s \in SUBSET m, s # m
      PROVE  it[s] = SumOf(f, s)
  <2>1. IsFiniteSet(s) /\ \E a : IsFold(f, s, a)
    <3>1. s \in SUBSET S
      BY <1>2
    <3>2. s \notin T
      BY <1>2, <1>3
    <3> QED
      BY <3>1, <3>2, FS_Subset
  <2> QED
    BY <2>1, SumOfFold
<1>4. ASSUME NEW s \in SUBSET m
      PROVE  it[s] = IF s = {} THEN 0 ELSE f[AnyOf(s)] + it[s \ {AnyOf(s)}]
  <2>1. CASE s = {}
    BY <2>1
  <2>2. CASE s # {}
    <3>1. AnyOf(s) \in s
      BY <2>2 DEF AnyOf
    <3>2. s \ {AnyOf(s)} \in SUBSET m /\ s \ {AnyOf(s)} # m
      BY <3>1
    <3>3. it[s \ {AnyOf(s)}] = SumOf(f, s \ {AnyOf(s)})
      BY <1>3, <3>2
    <3> HIDE DEF it
    <3>4. it[s] = f[AnyOf(s)] + SumOf(f, s \ {AnyOf(s)})
      BY <2>2 DEF it
    <3> QED
      BY <2>2, <3>3, <3>4
  <2> QED
    BY <2>1, <2>2
<1>5. IsFold(f, m, it)
  <2>1. it = [s \in SUBSET m |-> it[s]]
    OBVIOUS
  <2> HIDE DEF it
  <2> QED
    BY <1>4, <2>1 DEF IsFold
<1> QED
  BY <1>2, <1>5

-----------------------------------------------------------------------------
(* The facts the proofs cite.                                              *)

\* Nothing sums to nothing.
LEMMA SumEmpty == ASSUME NEW f PROVE SumOf(f, {}) = 0
BY FS_EmptySet, FoldExists, SumOfFold

\* The recursion, for every finite set.
LEMMA SumUnfold ==
    ASSUME NEW f, NEW S, IsFiniteSet(S), S # {}
    PROVE  /\ AnyOf(S) \in S
           /\ SumOf(f, S) = f[AnyOf(S)] + SumOf(f, S \ {AnyOf(S)})
BY FoldExists, SumOfFold

\* A sum of integers is one, and any summand can be split off, not only the
\* one that the fold takes first.
LEMMA SumSplit ==
    ASSUME NEW S, IsFiniteSet(S), NEW f, \A x \in S : f[x] \in Int
    PROVE  /\ SumOf(f, S) \in Int
           /\ \A y \in S : SumOf(f, S) = f[y] + SumOf(f, S \ {y})
<1> DEFINE Good(s) == /\ SumOf(f, s) \in Int
                      /\ \A y \in s : SumOf(f, s) = f[y] + SumOf(f, s \ {y})
           T == {s \in SUBSET S : ~Good(s)}
<1>1. SUFFICES ASSUME T # {} PROVE FALSE
  <2>1. S \in SUBSET S
    OBVIOUS
  <2> QED
    BY <1>1, <2>1
<1>2. PICK m \in T : \A s \in T : ~(s \subseteq m /\ s # m)
  <2>1. T \in SUBSET SUBSET S
    OBVIOUS
  <2> HIDE DEF T
  <2> QED
    BY <1>1, <2>1, SmallestSubset
<1>3. m \in SUBSET S /\ ~Good(m) /\ IsFiniteSet(m)
  BY <1>2, FS_Subset
<1>4. m # {}
  BY <1>3, SumEmpty
<1> DEFINE x == AnyOf(m)
<1>5. x \in m /\ SumOf(f, m) = f[x] + SumOf(f, m \ {x})
  BY <1>3, <1>4, SumUnfold
<1>6. \A y \in m : Good(m \ {y})
  BY <1>2, <1>3
<1> HIDE DEF T, x
<1>7. SumOf(f, m \ {x}) \in Int /\ SumOf(f, m) \in Int
  BY <1>3, <1>5, <1>6
<1>8. ASSUME NEW y \in m, y # x
      PROVE  SumOf(f, m) = f[y] + SumOf(f, m \ {y})
  <2>1. /\ SumOf(f, m \ {x}) = f[y] + SumOf(f, (m \ {x}) \ {y})
        /\ SumOf(f, m \ {y}) = f[x] + SumOf(f, (m \ {y}) \ {x})
        /\ SumOf(f, m \ {y}) \in Int
    BY <1>5, <1>6, <1>8
  <2>2. (m \ {x}) \ {y} = (m \ {y}) \ {x}
    OBVIOUS
  <2>3. f[x] \in Int /\ f[y] \in Int
    BY <1>3, <1>5
  <2>4. SumOf(f, (m \ {x}) \ {y}) \in Int
    <3> DEFINE n == m \ {x}
               k == n \ {y}
    <3>1. k \in SUBSET m /\ k # m /\ k \in SUBSET S
      BY <1>3, <1>8
    <3>2. k \notin {s \in SUBSET S : ~Good(s)}
      BY <1>2, <3>1 DEF T
    <3> QED
      BY <3>1, <3>2
  <2>5. SumOf(f, m \ {y}) = f[x] + SumOf(f, (m \ {x}) \ {y})
    BY <2>1, <2>2
  <2> HIDE DEF Good
  <2>6. ASSUME NEW a \in Int, NEW b \in Int, NEW c \in Int
        PROVE  a + (b + c) = b + (a + c)
    OBVIOUS
  <2> QED
    BY <1>5, <2>1, <2>3, <2>4, <2>5, <2>6
<1> QED
  BY <1>3, <1>5, <1>7, <1>8

\* Adding an element adds its summand.
LEMMA SumAdd ==
    ASSUME NEW S, IsFiniteSet(S), NEW y, y \notin S,
           NEW f, \A x \in S \cup {y} : f[x] \in Int
    PROVE  SumOf(f, S \cup {y}) = f[y] + SumOf(f, S)
<1>1. IsFiniteSet(S \cup {y}) /\ (S \cup {y}) \ {y} = S
  BY FS_AddElement
<1> QED
  BY <1>1, SumSplit

\* A sum of naturals is one, and no summand exceeds it.
LEMMA SumNat ==
    ASSUME NEW S, IsFiniteSet(S), NEW f, \A x \in S : f[x] \in Nat
    PROVE  /\ SumOf(f, S) \in Nat
           /\ \A y \in S : f[y] <= SumOf(f, S) /\ SumOf(f, S \ {y}) <= SumOf(f, S)
<1> DEFINE T == {s \in SUBSET S : SumOf(f, s) \notin Nat}
<1>1. T = {}
  <2> SUFFICES ASSUME T # {} PROVE FALSE
    OBVIOUS
  <2>1. PICK m \in T : \A s \in T : ~(s \subseteq m /\ s # m)
    <3>1. T \in SUBSET SUBSET S
      OBVIOUS
    <3> HIDE DEF T
    <3> QED
      BY <3>1, SmallestSubset
  <2>2. m \in SUBSET S /\ IsFiniteSet(m) /\ SumOf(f, m) \notin Nat
    BY <2>1, FS_Subset
  <2>3. m # {}
    BY <2>2, SumEmpty
  <2>4. AnyOf(m) \in m /\ SumOf(f, m) = f[AnyOf(m)] + SumOf(f, m \ {AnyOf(m)})
    BY <2>2, <2>3, SumUnfold
  <2>5. SumOf(f, m \ {AnyOf(m)}) \in Nat
    BY <2>1, <2>2, <2>4
  <2> QED
    BY <2>2, <2>4, <2>5
<1>2. SumOf(f, S) \in Nat /\ \A y \in S : SumOf(f, S \ {y}) \in Nat
  BY <1>1
<1>3. \A y \in S : SumOf(f, S) = f[y] + SumOf(f, S \ {y}) /\ f[y] \in Nat
  BY SumSplit
<1> HIDE DEF T
<1>4. ASSUME NEW y \in S PROVE f[y] <= SumOf(f, S) /\ SumOf(f, S \ {y}) <= SumOf(f, S)
  <2>1. SumOf(f, S \ {y}) \in Nat /\ f[y] \in Nat /\ SumOf(f, S) = f[y] + SumOf(f, S \ {y})
    BY <1>2, <1>3
  <2> QED
    BY <2>1
<1> QED
  BY <1>2, <1>4

\* The sum depends only on the summands.
LEMMA SumSame ==
    ASSUME NEW S, IsFiniteSet(S), NEW f, NEW g, \A x \in S : f[x] = g[x]
    PROVE  SumOf(f, S) = SumOf(g, S)
<1> DEFINE T == {s \in SUBSET S : SumOf(f, s) # SumOf(g, s)}
<1>1. SUFFICES ASSUME T # {} PROVE FALSE
  <2>1. S \in SUBSET S
    OBVIOUS
  <2> QED
    BY <1>1, <2>1
<1>2. PICK m \in T : \A s \in T : ~(s \subseteq m /\ s # m)
  <2>1. T \in SUBSET SUBSET S
    OBVIOUS
  <2> HIDE DEF T
  <2> QED
    BY <1>1, <2>1, SmallestSubset
<1>3. m \in SUBSET S /\ IsFiniteSet(m) /\ SumOf(f, m) # SumOf(g, m) /\ m # {}
  BY <1>2, FS_Subset, SumEmpty
<1>4. /\ AnyOf(m) \in m
      /\ SumOf(f, m) = f[AnyOf(m)] + SumOf(f, m \ {AnyOf(m)})
      /\ SumOf(g, m) = g[AnyOf(m)] + SumOf(g, m \ {AnyOf(m)})
  BY <1>3, SumUnfold
<1>5. SumOf(f, m \ {AnyOf(m)}) = SumOf(g, m \ {AnyOf(m)})
  BY <1>2, <1>3, <1>4
<1> QED
  BY <1>3, <1>4, <1>5

\* Changing one summand changes the sum by as much.
LEMMA SumChange ==
    ASSUME NEW S, IsFiniteSet(S), NEW y \in S, NEW f, NEW g,
           \A x \in S : f[x] \in Int /\ g[x] \in Int,
           \A x \in S \ {y} : f[x] = g[x]
    PROVE  SumOf(g, S) = SumOf(f, S) - f[y] + g[y]
<1>1. /\ SumOf(f, S) = f[y] + SumOf(f, S \ {y})
      /\ SumOf(g, S) = g[y] + SumOf(g, S \ {y})
  BY SumSplit
<1>2. IsFiniteSet(S \ {y})
  BY FS_Subset
<1>3. SumOf(f, S \ {y}) = SumOf(g, S \ {y}) /\ SumOf(f, S \ {y}) \in Int
  BY <1>2, SumSame, SumSplit
<1> QED
  BY <1>1, <1>3

\* Zeros add up to zero.
LEMMA SumZero ==
    ASSUME NEW S, IsFiniteSet(S), NEW f, \A x \in S : f[x] = 0
    PROVE  SumOf(f, S) = 0
<1> DEFINE T == {s \in SUBSET S : SumOf(f, s) # 0}
<1>1. SUFFICES ASSUME T # {} PROVE FALSE
  <2>1. S \in SUBSET S
    OBVIOUS
  <2> QED
    BY <1>1, <2>1
<1>2. PICK m \in T : \A s \in T : ~(s \subseteq m /\ s # m)
  <2>1. T \in SUBSET SUBSET S
    OBVIOUS
  <2> HIDE DEF T
  <2> QED
    BY <1>1, <2>1, SmallestSubset
<1>3. m \in SUBSET S /\ IsFiniteSet(m) /\ SumOf(f, m) # 0 /\ m # {}
  BY <1>2, FS_Subset, SumEmpty
<1>4. AnyOf(m) \in m /\ SumOf(f, m) = f[AnyOf(m)] + SumOf(f, m \ {AnyOf(m)})
  BY <1>3, SumUnfold
<1>5. SumOf(f, m \ {AnyOf(m)}) = 0
  BY <1>2, <1>3, <1>4
<1> QED
  BY <1>3, <1>4, <1>5

\* One more at one place is one more in the sum over a set that has it.
LEMMA SumOneMore ==
    ASSUME NEW S, IsFiniteSet(S), NEW k, NEW f, NEW g,
           \A x \in S : f[x] \in Nat,
           \A x \in S : g[x] = IF x = k THEN f[x] + 1 ELSE f[x]
    PROVE  /\ SumOf(f, S) \in Nat
           /\ SumOf(g, S) = SumOf(f, S) + IF k \in S THEN 1 ELSE 0
<1>1. SumOf(f, S) \in Nat
  BY SumNat
<1>2. CASE k \in S
  <2>1. /\ \A x \in S : f[x] \in Int /\ g[x] \in Int
        /\ \A x \in S \ {k} : f[x] = g[x]
        /\ f[k] \in Nat /\ g[k] = f[k] + 1
    BY <1>2
  <2>2. SumOf(g, S) = SumOf(f, S) - f[k] + g[k]
    BY <1>2, <2>1, SumChange
  <2> QED
    BY <1>1, <1>2, <2>1, <2>2
<1>3. CASE k \notin S
  <2>1. \A x \in S : f[x] = g[x]
    BY <1>3
  <2>2. SumOf(f, S) = SumOf(g, S)
    BY <2>1, SumSame
  <2> QED
    BY <1>1, <1>3, <2>2
<1> QED
  BY <1>2, <1>3

=============================================================================
