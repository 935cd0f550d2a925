---------------------------- MODULE StrategyProofs ----------------------------
(***************************************************************************)
(* What the fixture generator returns, for any teams, groups and results:  *)
(* the facts about WorldCupStrategy that the proofs about its users need.  *)
(***************************************************************************)
EXTENDS WorldCupStrategy, FiniteSetTheorems, SequenceTheorems, WellFoundedInduction, TLAPS

---------------------------------------------------------------------------
\* Induction over the naturals, as a fact about sets: a property whose
\* counterexamples would have a least one has none.
LEMMA LeastElement ==
  ASSUME NEW T, T \subseteq Nat, T # {}
  PROVE  \E n \in T : \A m \in T : n <= m
<1> DEFINE R == {p \in Nat \X Nat : p[1] < p[2]}
<1>1. R = OpToRel(<, Nat)
  BY Zenon DEF OpToRel
<1>2. IsWellFoundedOn(R, Nat)
  BY <1>1, NatLessThanWellFounded, Zenon
<1> HIDE DEF R
<1>3. \E n \in T : \A m \in T : <<m, n>> \notin R
  BY <1>2, WFMin
<1>4. \A n, m \in Nat : <<m, n>> \notin R => n <= m
  BY DEF R
<1> QED
  BY <1>3, <1>4

\* The set of the numbers with the property is inductive, so it is Nat.
LEMMA InductiveSet ==
  ASSUME NEW T, 0 \in T, \A n \in Nat : n \in T => n + 1 \in T
  PROVE  \A n \in Nat : n \in T
<1> SUFFICES ASSUME Nat \ T # {} PROVE FALSE
  OBVIOUS
<1>1. PICK n \in Nat \ T : \A m \in Nat \ T : n <= m
  BY LeastElement
<1>2. n - 1 \in Nat /\ n = (n - 1) + 1
  BY <1>1
<1>3. n - 1 \in T
  BY <1>1, <1>2
<1> QED
  BY <1>1, <1>2, <1>3

---------------------------------------------------------------------------
\* FlattenSeq

\* The equation of its recursive function has a solution.
LEMMA FlattenExists ==
  ASSUME NEW ss, NEW n \in Nat
  PROVE  \E f : f = [i \in 1..n |-> IF i = 1 THEN ss[i] ELSE f[i - 1] \o ss[i]]
<1> DEFINE Solves(f, m) == f = [i \in 1..m |-> IF i = 1 THEN ss[i] ELSE f[i - 1] \o ss[i]]
           T == {m \in Nat : \E f : Solves(f, m)}
<1>1. 0 \in T
  <2>1. Solves([i \in 1..0 |-> 0], 0)
    OBVIOUS
  <2> QED
    BY <2>1
<1>2. ASSUME NEW m \in Nat, m \in T PROVE m + 1 \in T
  <2>1. PICK f : Solves(f, m)
    BY <1>2
  <2> DEFINE g == [i \in 1..(m + 1) |->
                     IF i <= m THEN f[i] ELSE IF i = 1 THEN ss[i] ELSE f[m] \o ss[i]]
  <2>2. ASSUME NEW i \in 1..(m + 1)
        PROVE  g[i] = IF i = 1 THEN ss[i] ELSE g[i - 1] \o ss[i]
    <3>1. CASE i = 1
      BY <2>1, <3>1
    <3>2. CASE i # 1 /\ i <= m
      <4>1. i - 1 \in 1..(m + 1) /\ i - 1 <= m /\ i \in 1..m
        BY <3>2
      <4>2. g[i - 1] = f[i - 1] /\ g[i] = f[i]
        BY <3>2, <4>1
      <4>3. f[i] = f[i - 1] \o ss[i]
        BY <2>1, <3>2, <4>1
      <4> QED
        BY <3>2, <4>2, <4>3
    <3>3. CASE i # 1 /\ ~(i <= m)
      <4>1. i = m + 1 /\ i - 1 = m /\ m \in 1..(m + 1) /\ m <= m
        BY <3>3
      <4>2. g[i - 1] = f[m] /\ g[i] = f[m] \o ss[i]
        BY <3>3, <4>1
      <4> QED
        BY <3>3, <4>2
    <3> QED
      BY <3>1, <3>2, <3>3
  <2>3. g = [i \in 1..(m + 1) |-> g[i]]
    OBVIOUS
  <2> HIDE DEF g
  <2>4. Solves(g, m + 1)
    BY <2>2, <2>3
  <2> HIDE DEF Solves
  <2> QED
    BY <2>4
<1>3. n \in T
  <2> HIDE DEF T
  <2> QED
    BY <1>1, <1>2, InductiveSet
<1> QED
  BY <1>3

LEMMA FunctionIsSeq ==
  ASSUME NEW S, NEW n \in Nat, NEW s \in [1..n -> S]
  PROVE  s \in Seq(S) /\ Len(s) = n
  BY SeqDef

\* The elements of a concatenation.
LEMMA ConcatElements ==
  ASSUME NEW S, NEW s \in Seq(S), NEW t \in Seq(S)
  PROVE  s \o t \in Seq(S) /\ ToSet(s \o t) = ToSet(s) \cup ToSet(t)
<1> DEFINE u == s \o t
<1>1. /\ u \in Seq(S) /\ Len(u) = Len(s) + Len(t)
      /\ \A i \in 1..(Len(s) + Len(t)) : u[i] = IF i <= Len(s) THEN s[i] ELSE t[i - Len(s)]
  BY ConcatProperties
<1>2. /\ Len(s) \in Nat /\ DOMAIN s = 1..Len(s)
      /\ Len(t) \in Nat /\ DOMAIN t = 1..Len(t)
      /\ DOMAIN u = 1..(Len(s) + Len(t))
  BY <1>1, LenProperties
<1> HIDE DEF u
<1>3. ASSUME NEW i \in DOMAIN u PROVE u[i] \in ToSet(s) \cup ToSet(t)
  <2>1. CASE i <= Len(s)
    BY <1>1, <1>2, <2>1 DEF ToSet
  <2>2. CASE ~(i <= Len(s))
    <3>1. i - Len(s) \in 1..Len(t)
      BY <1>2, <2>2
    <3> QED
      BY <1>1, <1>2, <2>2, <3>1 DEF ToSet
  <2> QED
    BY <2>1, <2>2
<1>4. ASSUME NEW i \in DOMAIN s PROVE s[i] \in ToSet(u)
  BY <1>1, <1>2 DEF ToSet
<1>5. ASSUME NEW i \in DOMAIN t PROVE t[i] \in ToSet(u)
  <2>1. i + Len(s) \in 1..(Len(s) + Len(t)) /\ ~(i + Len(s) <= Len(s))
        /\ (i + Len(s)) - Len(s) = i
    BY <1>2
  <2>2. u[i + Len(s)] = t[i]
    BY <1>1, <2>1
  <2> QED
    BY <1>2, <2>1, <2>2 DEF ToSet
<1>6. ToSet(u) = ToSet(s) \cup ToSet(t)
  BY <1>3, <1>4, <1>5 DEF ToSet
<1> QED
  BY <1>1, <1>6 DEF u

\* FlattenSeq gives a sequence of the elements of its sequences.
LEMMA FlattenElements ==
  ASSUME NEW S, NEW ss \in Seq(Seq(S))
  PROVE  /\ FlattenSeq(ss) \in Seq(S)
         /\ ToSet(FlattenSeq(ss)) = UNION {ToSet(ss[i]) : i \in DOMAIN ss}
<1>1. /\ Len(ss) \in Nat /\ DOMAIN ss = 1..Len(ss)
      /\ \A i \in 1..Len(ss) : ss[i] \in Seq(S)
  BY LenProperties, ElementOfSeq
<1>2. CASE Len(ss) = 0
  <2>1. ss = <<>>
    BY <1>2, EmptySeq
  <2> QED
    BY <1>2, <2>1 DEF FlattenSeq, ToSet
<1>3. CASE Len(ss) # 0
  <2> DEFINE n == Len(ss)
             f == CHOOSE f : f = [i \in 1..n |-> IF i = 1 THEN ss[i] ELSE f[i - 1] \o ss[i]]
             Upto(i) == UNION {ToSet(ss[j]) : j \in 1..i}
             T == {i \in Nat : i + 1 <= n =>
                      f[i + 1] \in Seq(S) /\ ToSet(f[i + 1]) = Upto(i + 1)}
  <2>1. f = [i \in 1..n |-> IF i = 1 THEN ss[i] ELSE f[i - 1] \o ss[i]]
    BY <1>1, FlattenExists
  <2>2. FlattenSeq(ss) = f[n]
    BY <1>3 DEF FlattenSeq
  <2> HIDE DEF f
  <2>3. 0 \in T
    <3>1. n >= 1 => f[1] = ss[1] /\ ss[1] \in Seq(S)
      BY <1>1, <2>1
    <3> QED
      BY <1>1, <3>1
  <2>4. ASSUME NEW i \in Nat, i \in T PROVE i + 1 \in T
    <3> SUFFICES ASSUME (i + 1) + 1 <= n
                 PROVE  /\ f[(i + 1) + 1] \in Seq(S)
                        /\ ToSet(f[(i + 1) + 1]) = Upto((i + 1) + 1)
      OBVIOUS
    <3> DEFINE k == i + 1
    <3>1. k \in Nat /\ k + 1 \in 1..n /\ k + 1 # 1 /\ (k + 1) - 1 = k /\ k <= n
      BY <1>1
    <3>2. f[k] \in Seq(S) /\ ToSet(f[k]) = Upto(k)
      BY <2>4, <3>1
    <3> HIDE DEF k
    <3>3. f[k + 1] = f[k] \o ss[k + 1] /\ ss[k + 1] \in Seq(S)
      BY <1>1, <2>1, <3>1
    <3>4. f[k + 1] \in Seq(S) /\ ToSet(f[k + 1]) = Upto(k) \cup ToSet(ss[k + 1])
      BY <3>2, <3>3, ConcatElements
    <3>5. 1..(k + 1) = 1..k \cup {k + 1}
      BY <3>1
    <3>6. Upto(k + 1) = Upto(k) \cup ToSet(ss[k + 1])
      BY <3>5
    <3> QED
      BY <3>4, <3>6 DEF k
  <2>5. n - 1 \in T
    <3> HIDE DEF T
    <3>1. n - 1 \in Nat
      BY <1>1, <1>3
    <3> QED
      BY <2>3, <2>4, <3>1, InductiveSet
  <2>6. (n - 1) + 1 = n /\ n <= n
    BY <1>1
  <2>7. f[n] \in Seq(S) /\ ToSet(f[n]) = Upto(n)
    BY <2>5, <2>6
  <2> QED
    BY <1>1, <2>2, <2>7
<1> QED
  BY <1>2, <1>3

---------------------------------------------------------------------------
\* MapThenSumSet.  g is the function it defines by recursion: from the sum of a
\* subset of S without one element to the sum of the subset.
SumStep(f, g, s) ==
  IF s = {} THEN 0
  ELSE f[CHOOSE x \in s : TRUE] + g[s \ {CHOOSE x \in s : TRUE}]

IsSum(f, g, S) == g = [s \in SUBSET S |-> SumStep(f, g, s)]

LEMMA SmallerSubset ==
  ASSUME NEW S, IsFiniteSet(S), NEW s \in SUBSET S, s # {}
  PROVE  LET x == CHOOSE x \in s : TRUE
         IN  /\ x \in s /\ s \ {x} \in SUBSET S
             /\ Cardinality(s) \in Nat /\ Cardinality(s \ {x}) = Cardinality(s) - 1
             /\ Cardinality(s \ {x}) \in Nat
<1> DEFINE x == CHOOSE x \in s : TRUE
<1>1. x \in s
  OBVIOUS
<1> HIDE DEF x
<1>2. IsFiniteSet(s) /\ IsFiniteSet(s \ {x})
  BY FS_Subset
<1>3. Cardinality(s) \in Nat /\ Cardinality(s \ {x}) \in Nat
  BY <1>2, FS_CardinalityType
<1>4. Cardinality(s \ {x}) = Cardinality(s) - 1
  BY <1>1, <1>2, FS_RemoveElement
<1> QED
  BY <1>1, <1>3, <1>4 DEF x

\* The equation of g has a solution.
LEMMA SumExists ==
  ASSUME NEW S, IsFiniteSet(S), NEW f
  PROVE  \E g : IsSum(f, g, S)
<1> DEFINE Upto(n) == {s \in SUBSET S : Cardinality(s) <= n}
           Solves(g, n) == g = [s \in Upto(n) |-> SumStep(f, g, s)]
           T == {n \in Nat : \E g : Solves(g, n)}
<1>1. 0 \in T
  <2>1. ASSUME NEW s \in Upto(0) PROVE s = {}
    <3>1. IsFiniteSet(s) /\ Cardinality(s) \in Nat /\ Cardinality(s) <= 0
      BY FS_Subset, FS_CardinalityType
    <3>2. Cardinality(s) = 0
      BY <3>1
    <3> QED
      BY <3>1, <3>2, FS_EmptySet
  <2>2. Solves([s \in Upto(0) |-> 0], 0)
    BY <2>1 DEF SumStep
  <2> HIDE DEF Solves
  <2> QED
    BY <2>2
<1>2. ASSUME NEW n \in Nat, n \in T PROVE n + 1 \in T
  <2>1. PICK g : Solves(g, n)
    BY <1>2
  <2> DEFINE h == [s \in Upto(n + 1) |->
                     IF Cardinality(s) <= n THEN g[s] ELSE SumStep(f, g, s)]
  <2>2. ASSUME NEW s \in Upto(n + 1)
        PROVE  h[s] = SumStep(f, h, s)
    <3>1. CASE s = {}
      <4>1. Cardinality(s) = 0 /\ 0 <= n
        BY <3>1, FS_EmptySet
      <4>2. s \in Upto(n)
        BY <4>1
      <4>3. h[s] = SumStep(f, g, s)
        BY <2>1, <4>1, <4>2
      <4> QED
        BY <3>1, <4>3 DEF SumStep
    <3>2. CASE s # {}
      <4> DEFINE x == CHOOSE x \in s : TRUE
                 r == s \ {x}
      <4>1. /\ r \in SUBSET S /\ Cardinality(s) \in Nat /\ Cardinality(r) \in Nat
            /\ Cardinality(r) = Cardinality(s) - 1 /\ Cardinality(s) <= n + 1
        BY <3>2, SmallerSubset
      <4>2. SumStep(f, g, s) = f[x] + g[r] /\ SumStep(f, h, s) = f[x] + h[r]
        BY <3>2 DEF SumStep
      <4> HIDE DEF x, r
      <4>3. Cardinality(r) <= n /\ r \in Upto(n + 1) /\ r \in Upto(n)
        BY <4>1
      <4>4. h[r] = g[r]
        BY <4>3
      <4>5. h[s] = SumStep(f, g, s)
        <5>1. CASE Cardinality(s) <= n
          <6>1. s \in Upto(n)
            BY <5>1
          <6> QED
            BY <2>1, <5>1, <6>1
        <5>2. CASE ~(Cardinality(s) <= n)
          BY <5>2
        <5> QED
          BY <5>1, <5>2
      <4> QED
        BY <4>2, <4>4, <4>5
    <3> QED
      BY <3>1, <3>2
  <2>3. h = [s \in Upto(n + 1) |-> h[s]]
    OBVIOUS
  <2> HIDE DEF h, Upto
  <2>4. Solves(h, n + 1)
    BY <2>2, <2>3
  <2> HIDE DEF Solves
  <2> QED
    BY <2>4
<1>3. Cardinality(S) \in T
  <2> HIDE DEF T
  <2>1. Cardinality(S) \in Nat
    BY FS_CardinalityType
  <2> QED
    BY <1>1, <1>2, <2>1, InductiveSet
<1>4. Upto(Cardinality(S)) = SUBSET S
  BY FS_Subset
<1> HIDE DEF Upto
<1> QED
  BY <1>3, <1>4 DEF IsSum

\* It is the only one, and its values are natural numbers if those of f are.
LEMMA SumUnique ==
  ASSUME NEW S, IsFiniteSet(S), NEW f, NEW g, NEW h, IsSum(f, g, S), IsSum(f, h, S)
  PROVE  g = h
<1> DEFINE T == {n \in Nat : \A s \in SUBSET S : Cardinality(s) = n => g[s] = h[s]}
<1>1. \A s \in SUBSET S : g[s] = SumStep(f, g, s) /\ h[s] = SumStep(f, h, s)
  BY DEF IsSum
<1>2. ASSUME NEW s \in SUBSET S, s = {} \/ g[s \ {CHOOSE x \in s : TRUE}] = h[s \ {CHOOSE x \in s : TRUE}]
      PROVE  g[s] = h[s]
  BY <1>1, <1>2 DEF SumStep
<1>3. \A s \in SUBSET S : IsFiniteSet(s) /\ Cardinality(s) \in Nat
  BY FS_Subset, FS_CardinalityType
<1>4. 0 \in T
  <2> SUFFICES ASSUME NEW s \in SUBSET S, Cardinality(s) = 0 PROVE s = {}
    BY <1>2
  <2> QED
    BY <1>3, FS_EmptySet
<1>5. ASSUME NEW n \in Nat, n \in T PROVE n + 1 \in T
  <2> SUFFICES ASSUME NEW s \in SUBSET S, Cardinality(s) = n + 1, s # {}
               PROVE  g[s \ {CHOOSE x \in s : TRUE}] = h[s \ {CHOOSE x \in s : TRUE}]
    <3>1. \A s \in SUBSET S : Cardinality(s) = n + 1 => g[s] = h[s]
      BY <1>2
    <3> QED
      BY <3>1
  <2>1. /\ s \ {CHOOSE x \in s : TRUE} \in SUBSET S
        /\ Cardinality(s \ {CHOOSE x \in s : TRUE}) = Cardinality(s) - 1
    BY SmallerSubset
  <2>2. (n + 1) - 1 = n
    OBVIOUS
  <2> QED
    BY <1>5, <2>1, <2>2
<1> HIDE DEF T
<1>6. \A n \in Nat : n \in T
  BY <1>4, <1>5, InductiveSet
<1>7. \A s \in SUBSET S : g[s] = h[s]
  BY <1>3, <1>6 DEF T
<1> QED
  BY <1>7 DEF IsSum

LEMMA SumType ==
  ASSUME NEW S, IsFiniteSet(S), NEW f, \A x \in S : f[x] \in Nat, NEW g, IsSum(f, g, S)
  PROVE  \A s \in SUBSET S : g[s] \in Nat
<1> DEFINE T == {n \in Nat : \A s \in SUBSET S : Cardinality(s) = n => g[s] \in Nat}
<1>1. \A s \in SUBSET S : g[s] = SumStep(f, g, s)
  BY DEF IsSum
<1>2. ASSUME NEW s \in SUBSET S, s = {} \/ g[s \ {CHOOSE x \in s : TRUE}] \in Nat
      PROVE  g[s] \in Nat
  <2>1. CASE s = {}
    <3>1. g[s] = SumStep(f, g, s)
      BY <1>1
    <3> QED
      BY <2>1, <3>1 DEF SumStep
  <2>2. CASE s # {}
    <3> DEFINE x == CHOOSE x \in s : TRUE
    <3>1. x \in s /\ g[s] = f[x] + g[s \ {x}]
      BY <1>1, <2>2 DEF SumStep
    <3>2. g[s \ {x}] \in Nat
      BY <1>2, <2>2
    <3> HIDE DEF x
    <3> QED
      BY <3>1, <3>2
  <2> QED
    BY <2>1, <2>2
<1>3. \A s \in SUBSET S : IsFiniteSet(s) /\ Cardinality(s) \in Nat
  BY FS_Subset, FS_CardinalityType
<1>4. 0 \in T
  <2> SUFFICES ASSUME NEW s \in SUBSET S, Cardinality(s) = 0 PROVE s = {}
    BY <1>2
  <2> QED
    BY <1>3, FS_EmptySet
<1>5. ASSUME NEW n \in Nat, n \in T PROVE n + 1 \in T
  <2> SUFFICES ASSUME NEW s \in SUBSET S, Cardinality(s) = n + 1, s # {}
               PROVE  g[s \ {CHOOSE x \in s : TRUE}] \in Nat
    <3>1. \A s \in SUBSET S : Cardinality(s) = n + 1 => g[s] \in Nat
      BY <1>2
    <3> QED
      BY <3>1
  <2>1. /\ s \ {CHOOSE x \in s : TRUE} \in SUBSET S
        /\ Cardinality(s \ {CHOOSE x \in s : TRUE}) = Cardinality(s) - 1
    BY SmallerSubset
  <2>2. (n + 1) - 1 = n
    OBVIOUS
  <2> QED
    BY <1>5, <2>1, <2>2
<1> HIDE DEF T
<1>6. \A n \in Nat : n \in T
  BY <1>4, <1>5, InductiveSet
<1> QED
  BY <1>3, <1>6 DEF T

\* The sum of a function over a finite set.
SumOver(f, S) == (CHOOSE g : IsSum(f, g, S))[S]

LEMMA SumOverIs ==
  ASSUME NEW S, IsFiniteSet(S), NEW f, NEW g, IsSum(f, g, S)
  PROVE  SumOver(f, S) = g[S]
<1>1. IsSum(f, CHOOSE h : IsSum(f, h, S), S)
  <2> HIDE DEF IsSum
  <2> QED
    BY Zenon
<1>2. g = CHOOSE h : IsSum(f, h, S)
  BY <1>1, SumUnique
<1> QED
  BY <1>2 DEF SumOver

LEMMA SumOverType ==
  ASSUME NEW S, IsFiniteSet(S), NEW f, \A x \in S : f[x] \in Nat
  PROVE  SumOver(f, S) \in Nat
<1>1. PICK g : IsSum(f, g, S)
  BY SumExists
<1>2. S \in SUBSET S /\ \A s \in SUBSET S : g[s] \in Nat
  BY <1>1, SumType
<1> QED
  BY <1>1, <1>2, SumOverIs

---------------------------------------------------------------------------
\* Standings

Row == [team : Team, points : Nat, gf : Nat, ga : Nat]

\* A matches table the strategy can be given.
MatchTable(ms) ==
  /\ IsFiniteSet(DOMAIN ms)
  /\ DOMAIN ms \subseteq MatchKey
  /\ \A k \in DOMAIN ms : ms[k] \in Result

\* The two sums of a row, as sums of a function.
GoalsFor(ms, own, t) == MapThenSumSet(LAMBDA k : GoalsOf(ms, k, t), own)
GoalsConceded(ms, own, t) == MapThenSumSet(LAMBDA k : GoalsAgainst(ms, k, t), own)

LEMMA GoalsForIsSum ==
  ASSUME NEW ms, NEW own, IsFiniteSet(own), NEW t
  PROVE  GoalsFor(ms, own, t) = SumOver([k \in own |-> GoalsOf(ms, k, t)], own)
<1> DEFINE f == [k \in own |-> GoalsOf(ms, k, t)]
           Solves(g) == g = [s \in SUBSET own |->
                               IF s = {} THEN 0
                               ELSE GoalsOf(ms, CHOOSE x \in s : TRUE, t)
                                      + g[s \ {CHOOSE x \in s : TRUE}]]
<1>1. ASSUME NEW s \in SUBSET own, s # {}
      PROVE  GoalsOf(ms, CHOOSE x \in s : TRUE, t) = f[CHOOSE x \in s : TRUE]
  <2>1. (CHOOSE x \in s : TRUE) \in own
    BY <1>1
  <2> QED
    BY <2>1
<1>2. \A g : Solves(g) <=> IsSum(f, g, own)
  <2> HIDE DEF f
  <2> QED
    BY <1>1 DEF IsSum, SumStep
<1>3. \E g : Solves(g)
  <2> HIDE DEF f, Solves
  <2> QED
    BY <1>2, SumExists
<1>4. PICK g : Solves(g) /\ GoalsFor(ms, own, t) = g[own]
  BY <1>3 DEF GoalsFor, MapThenSumSet, MapThenFoldSet
<1> HIDE DEF f, Solves
<1>5. GoalsFor(ms, own, t) = SumOver(f, own)
  BY <1>2, <1>4, SumOverIs
<1> QED
  BY <1>5 DEF f

LEMMA GoalsConcededIsSum ==
  ASSUME NEW ms, NEW own, IsFiniteSet(own), NEW t
  PROVE  GoalsConceded(ms, own, t) = SumOver([k \in own |-> GoalsAgainst(ms, k, t)], own)
<1> DEFINE f == [k \in own |-> GoalsAgainst(ms, k, t)]
           Solves(g) == g = [s \in SUBSET own |->
                               IF s = {} THEN 0
                               ELSE GoalsAgainst(ms, CHOOSE x \in s : TRUE, t)
                                      + g[s \ {CHOOSE x \in s : TRUE}]]
<1>1. ASSUME NEW s \in SUBSET own, s # {}
      PROVE  GoalsAgainst(ms, CHOOSE x \in s : TRUE, t) = f[CHOOSE x \in s : TRUE]
  <2>1. (CHOOSE x \in s : TRUE) \in own
    BY <1>1
  <2> QED
    BY <2>1
<1>2. \A g : Solves(g) <=> IsSum(f, g, own)
  <2> HIDE DEF f
  <2> QED
    BY <1>1 DEF IsSum, SumStep
<1>3. \E g : Solves(g)
  <2> HIDE DEF f, Solves
  <2> QED
    BY <1>2, SumExists
<1>4. PICK g : Solves(g) /\ GoalsConceded(ms, own, t) = g[own]
  BY <1>3 DEF GoalsConceded, MapThenSumSet, MapThenFoldSet
<1> HIDE DEF f, Solves
<1>5. GoalsConceded(ms, own, t) = SumOver(f, own)
  BY <1>2, <1>4, SumOverIs
<1> QED
  BY <1>5 DEF f

LEMMA GoalsAreNumbers ==
  ASSUME NEW ms, MatchTable(ms), NEW own \in SUBSET DOMAIN ms, NEW t
  PROVE  GoalsFor(ms, own, t) \in Nat /\ GoalsConceded(ms, own, t) \in Nat
<1> DEFINE f == [k \in own |-> GoalsOf(ms, k, t)]
           h == [k \in own |-> GoalsAgainst(ms, k, t)]
<1>1. IsFiniteSet(own)
  BY FS_Subset DEF MatchTable
<1>2. \A k \in own : f[k] \in Nat /\ h[k] \in Nat
  BY DEF MatchTable, Result, GoalsOf, GoalsAgainst
<1>3. GoalsFor(ms, own, t) = SumOver(f, own) /\ GoalsConceded(ms, own, t) = SumOver(h, own)
  BY <1>1, GoalsForIsSum, GoalsConcededIsSum
<1> HIDE DEF f, h
<1> QED
  BY <1>1, <1>2, <1>3, SumOverType

LEMMA RowType ==
  ASSUME NEW ms, MatchTable(ms), NEW played \in SUBSET DOMAIN ms, NEW t \in Team
  PROVE  TableRow(ms, played, t) \in Row /\ TableRow(ms, played, t).team = t
<1> DEFINE own == {k \in played : t \in {k.home, k.visitor}}
           won == {k \in own : WinnerOf(ms, k) = t}
<1>1. own \in SUBSET DOMAIN ms /\ IsFiniteSet(won)
  BY FS_Subset DEF MatchTable
<1>2. Cardinality(won) \in Nat
  BY <1>1, FS_CardinalityType
<1>3. GoalsFor(ms, own, t) \in Nat /\ GoalsConceded(ms, own, t) \in Nat
  BY <1>1, GoalsAreNumbers
<1>4. 3 * Cardinality(won) \in Nat
  BY <1>2
<1>5. TableRow(ms, played, t) =
        [team |-> t, points |-> 3 * Cardinality(won),
         gf |-> GoalsFor(ms, own, t), ga |-> GoalsConceded(ms, own, t)]
  BY DEF TableRow, GoalsFor, GoalsConceded
<1> QED
  BY <1>3, <1>4, <1>5 DEF Row

LEMMA RowNumbers ==
  ASSUME NEW a \in Row
  PROVE  /\ a.points \in Int /\ a.gf \in Int /\ GoalDifference(a) \in Int
         /\ NameOf[a.team] \in Int
<1>1. a.points \in Nat /\ a.gf \in Nat /\ a.ga \in Nat /\ a.team \in Team
  BY DEF Row
<1>2. GoalDifference(a) \in Int
  BY <1>1 DEF GoalDifference
<1>3. NameOf[a.team] \in Nat
  BY <1>1, TeamAssumption
<1> QED
  BY <1>1, <1>2, <1>3

\* The comparator is a strict weak order: no two rows are each better than the
\* other, better than better is better, and neither-better is transitive.
LEMMA BetterIsAsymmetric ==
  ASSUME NEW a \in Row, NEW b \in Row, Better(a, b)
  PROVE  ~Better(b, a)
  BY RowNumbers DEF Better

LEMMA BetterIsTransitive ==
  ASSUME NEW a \in Row, NEW b \in Row, NEW c \in Row, Better(a, b), Better(b, c)
  PROVE  Better(a, c)
  BY RowNumbers DEF Better

LEMMA NeitherIsBetter ==
  ASSUME NEW a \in Row, NEW b \in Row
  PROVE  ~Better(a, b) /\ ~Better(b, a)
           <=> /\ a.points = b.points /\ GoalDifference(a) = GoalDifference(b)
               /\ a.gf = b.gf /\ NameOf[a.team] = NameOf[b.team]
  BY RowNumbers DEF Better

\* The rows of a table: one for each of finitely many teams.
Table(rows) ==
  /\ IsFiniteSet(rows) /\ rows \subseteq Row
  /\ \A a, b \in rows : a.team = b.team => a = b

\* No row is better than the leader: there is such a row, the one with the
\* fewest better rows.
LEMMA LeaderIsBest ==
  ASSUME NEW rows, Table(rows), rows # {}
  PROVE  /\ Leader(rows) \in rows
         /\ \A b \in rows \ {Leader(rows)} : ~Better(b, Leader(rows))
<1> DEFINE Above(a) == {b \in rows : Better(b, a)}
           T == {Cardinality(Above(a)) : a \in rows}
<1>1. \A a \in rows : IsFiniteSet(Above(a)) /\ Cardinality(Above(a)) \in Nat
  BY FS_Subset, FS_CardinalityType DEF Table
<1>2. T \subseteq Nat /\ T # {}
  BY <1>1
<1>3. PICK n \in T : \A m \in T : n <= m
  BY <1>2, LeastElement
<1>4. PICK a \in rows : \A b \in rows : Cardinality(Above(a)) <= Cardinality(Above(b))
  BY <1>3
<1>5. ASSUME NEW b \in rows, Better(b, a) PROVE FALSE
  <2>1. \A c \in Above(b) : c \in Above(a)
    BY <1>5, BetterIsTransitive DEF Table
  <2>2. b \in Above(a) /\ b \notin Above(b)
    BY <1>5, BetterIsAsymmetric DEF Table
  <2>3. Above(b) \in SUBSET Above(a) /\ Above(b) # Above(a)
    BY <2>1, <2>2
  <2> HIDE DEF Above
  <2>4. /\ Cardinality(Above(b)) <= Cardinality(Above(a))
        /\ Cardinality(Above(b)) = Cardinality(Above(a)) => Above(b) = Above(a)
    BY <1>1, <2>3, FS_Subset, Zenon
  <2>5. /\ Cardinality(Above(a)) <= Cardinality(Above(b))
        /\ Cardinality(Above(a)) \in Nat /\ Cardinality(Above(b)) \in Nat
    BY <1>1, <1>4
  <2> QED
    BY <2>3, <2>4, <2>5
<1>6. \A b \in rows \ {a} : ~Better(b, a)
  BY <1>5
<1> QED
  BY <1>6 DEF Leader

\* The two that go through are two teams of the table.
LEMMA TwoBestTeams ==
  ASSUME NEW rows, Table(rows), NEW a \in rows, NEW b \in rows, a # b
  PROVE  /\ TwoBest(rows)[1] \in {r.team : r \in rows}
         /\ TwoBest(rows)[2] \in {r.team : r \in rows}
         /\ TwoBest(rows)[1] # TwoBest(rows)[2]
<1> DEFINE first  == Leader(rows)
           rest   == rows \ {first}
           second == Leader(rest)
<1>1. first \in rows
  BY LeaderIsBest
<1>2. Table(rest) /\ rest # {}
  <2>1. IsFiniteSet(rest)
    BY FS_Subset DEF Table
  <2> QED
    BY <2>1 DEF Table
<1> HIDE DEF first
<1>3. second \in rest
  BY <1>2, LeaderIsBest
<1> HIDE DEF second
<1>4. second \in rows /\ second # first /\ second.team # first.team
  BY <1>1, <1>3 DEF Table
<1>5. TwoBest(rows)[1] = first.team /\ TwoBest(rows)[2] = second.team
  BY DEF TwoBest, first, second
<1> QED
  BY <1>1, <1>4, <1>5

LEMMA GroupTeams ==
  ASSUME NEW g \in Seq(Team)
  PROVE  IsFiniteSet(ToSet(g)) /\ ToSet(g) \subseteq Team
<1>1. Len(g) \in Nat /\ DOMAIN g = 1..Len(g) /\ \A i \in 1..Len(g) : g[i] \in Team
  BY LenProperties, ElementOfSeq
<1>2. IsFiniteSet(1..Len(g))
  BY <1>1, FS_Interval
<1>3. ToSet(g) \subseteq Team
  BY <1>1 DEF ToSet
<1>4. g \in Surjection(1..Len(g), ToSet(g))
  BY <1>1, LenProperties DEF Surjection, ToSet
<1> QED
  BY <1>2, <1>3, <1>4, FS_Surjection

LEMMA RowsAreTable ==
  ASSUME NEW ms, MatchTable(ms), NEW played \in SUBSET DOMAIN ms,
         NEW ts, ts \subseteq Team, IsFiniteSet(ts)
  PROVE  Table(Rows(ms, played, ts)) /\ {r.team : r \in Rows(ms, played, ts)} = ts
<1> DEFINE rows == Rows(ms, played, ts)
           f == [t \in ts |-> TableRow(ms, played, t)]
<1>1. \A t \in ts : f[t] \in Row /\ f[t].team = t
  BY RowType
<1>2. rows = {f[t] : t \in ts}
  BY DEF Rows
<1> HIDE DEF rows
<1>3. f \in Surjection(ts, rows)
  BY <1>2 DEF Surjection
<1> HIDE DEF f
<1>4. IsFiniteSet(rows)
  BY <1>3, FS_Surjection
<1>5. Table(rows) /\ {r.team : r \in rows} = ts
  BY <1>1, <1>2, <1>4 DEF Table
<1> QED
  BY <1>5 DEF rows

\* Of a group with two teams, two different ones go through.
LEMMA TopTwoOfGroup ==
  ASSUME NEW ms, MatchTable(ms), NEW groups, NEW i, groups[i] \in Seq(Team),
         Cardinality(ToSet(groups[i])) >= 2
  PROVE  /\ TopTwo(ms, groups, i)[1] \in ToSet(groups[i])
         /\ TopTwo(ms, groups, i)[2] \in ToSet(groups[i])
         /\ TopTwo(ms, groups, i)[1] # TopTwo(ms, groups, i)[2]
<1> DEFINE ts     == ToSet(groups[i])
           played == GroupMatches(ms, groups, i)
           rows   == Rows(ms, played, ts)
<1>1. IsFiniteSet(ts) /\ ts \subseteq Team
  BY GroupTeams
<1>2. played \in SUBSET DOMAIN ms
  BY DEF GroupMatches
<1>3. Table(rows) /\ {r.team : r \in rows} = ts
  BY <1>1, <1>2, RowsAreTable
<1>4. \E t, u \in ts : t # u
  <2>1. ts # {} /\ \A t : ts # {t}
    BY <1>1, FS_EmptySet, FS_Singleton
  <2> HIDE DEF ts
  <2>2. PICK t : t \in ts
    BY <2>1
  <2>3. ts # {t}
    BY <2>1
  <2> QED
    BY <2>2, <2>3
<1>5. TopTwo(ms, groups, i) = TwoBest(rows)
  BY DEF TopTwo, Standings
<1> HIDE DEF rows, ts
<1>6. PICK a \in rows, b \in rows : a # b
  BY <1>3, <1>4
<1>7. /\ TwoBest(rows)[1] \in ts /\ TwoBest(rows)[2] \in ts
      /\ TwoBest(rows)[1] # TwoBest(rows)[2]
  BY <1>3, <1>6, TwoBestTeams
<1> QED
  BY <1>5, <1>7 DEF ts

---------------------------------------------------------------------------
\* Fixtures

\* The keys of a round.
KeysOf(r) == [round : {r}, home : Team, visitor : Team]
KnockoutKey == [round : KnockoutRounds, home : Team, visitor : Team]

\* A fixture of the group stage is a match between teams of one group.
LEMMA RoundRobinType ==
  ASSUME NEW ts \in Seq(Team)
  PROVE  /\ RoundRobin(ts) \in Seq(KeysOf("group"))
         /\ \A k \in ToSet(RoundRobin(ts)) : InGroup(ts, k)
         /\ Len(ts) >= 2 => RoundRobin(ts) # <<>>
<1> DEFINE S      == {k \in KeysOf("group") : InGroup(ts, k)}
           n      == Len(ts)
           row(i) == [d \in 1..(n - i) |-> Fixture("group", ts[i], ts[i + d])]
           rows   == [i \in 1..n |-> row(i)]
<1>1. n \in Nat /\ DOMAIN ts = 1..n /\ \A i \in 1..n : ts[i] \in Team
  BY LenProperties, ElementOfSeq
<1>2. ASSUME NEW i \in 1..n, NEW d \in 1..(n - i)
      PROVE  Fixture("group", ts[i], ts[i + d]) \in S
  <2>1. i + d \in 1..n
    BY <1>1
  <2>2. Fixture("group", ts[i], ts[i + d]) \in KeysOf("group")
    BY <1>1, <2>1 DEF Fixture, KeysOf
  <2> QED
    BY <1>1, <2>1, <2>2 DEF Fixture, InGroup, ToSet
<1> HIDE DEF S
<1>3. ASSUME NEW i \in 1..n PROVE row(i) \in Seq(S)
  <2>1. n - i \in Nat
    BY <1>1
  <2>2. row(i) \in [1..(n - i) -> S]
    BY <1>2
  <2> QED
    BY <2>1, <2>2, FunctionIsSeq
<1>4. rows \in Seq(Seq(S))
  <2>1. rows \in [1..n -> Seq(S)]
    BY <1>3
  <2> HIDE DEF rows
  <2> QED
    BY <1>1, <2>1, FunctionIsSeq
<1>5. RoundRobin(ts) = FlattenSeq(rows)
  BY <1>1 DEF RoundRobin
<1> HIDE DEF rows
<1>6. /\ RoundRobin(ts) \in Seq(S)
      /\ ToSet(RoundRobin(ts)) = UNION {ToSet(rows[i]) : i \in DOMAIN rows}
  BY <1>4, <1>5, FlattenElements
<1>7. \A k \in ToSet(RoundRobin(ts)) : k \in S
  BY <1>6, ElementOfSeq, LenProperties DEF ToSet
<1>8. S \subseteq KeysOf("group")
  BY DEF S
<1>9. Len(ts) >= 2 => RoundRobin(ts) # <<>>
  <2> SUFFICES ASSUME n >= 2 PROVE ToSet(RoundRobin(ts)) # {}
    BY DEF ToSet
  <2>1. 1 \in DOMAIN rows /\ rows[1] = row(1)
    BY <1>1 DEF rows
  <2>2. 1 \in 1..(n - 1)
    BY <1>1
  <2>3. row(1)[1] \in ToSet(row(1))
    BY <2>2 DEF ToSet
  <2> QED
    BY <1>6, <2>1, <2>3
<1> QED
  BY <1>6, <1>7, <1>8, <1>9, SeqMonotonic DEF S

LEMMA RegularPhaseType ==
  ASSUME NEW groups \in Seq(Seq(Team))
  PROVE  /\ CreateRegularPhaseMatches(groups) \in Seq(KeysOf("group"))
         /\ \A k \in ToSet(CreateRegularPhaseMatches(groups)) :
              \E i \in DOMAIN groups : InGroup(groups[i], k)
         /\ (\E i \in DOMAIN groups : Len(groups[i]) >= 2) =>
              CreateRegularPhaseMatches(groups) # <<>>
<1> DEFINE n  == Len(groups)
           rr == [i \in 1..n |-> RoundRobin(groups[i])]
<1>1. n \in Nat /\ DOMAIN groups = 1..n /\ \A i \in 1..n : groups[i] \in Seq(Team)
  BY LenProperties, ElementOfSeq
<1>2. \A i \in 1..n : /\ rr[i] \in Seq(KeysOf("group"))
                      /\ \A k \in ToSet(rr[i]) : InGroup(groups[i], k)
                      /\ Len(groups[i]) >= 2 => rr[i] # <<>>
  BY <1>1, RoundRobinType
<1>3. rr \in [1..n -> Seq(KeysOf("group"))] /\ DOMAIN rr = 1..n
  BY <1>2
<1>4. CreateRegularPhaseMatches(groups) = FlattenSeq(rr)
  BY <1>1 DEF CreateRegularPhaseMatches
<1> HIDE DEF rr
<1>5. rr \in Seq(Seq(KeysOf("group")))
  BY <1>1, <1>3, FunctionIsSeq
<1>6. /\ CreateRegularPhaseMatches(groups) \in Seq(KeysOf("group"))
      /\ ToSet(CreateRegularPhaseMatches(groups)) = UNION {ToSet(rr[i]) : i \in 1..n}
  BY <1>3, <1>4, <1>5, FlattenElements
<1>7. (\E i \in 1..n : Len(groups[i]) >= 2) => CreateRegularPhaseMatches(groups) # <<>>
  <2> SUFFICES ASSUME NEW i \in 1..n, Len(groups[i]) >= 2
               PROVE  ToSet(CreateRegularPhaseMatches(groups)) # {}
    BY DEF ToSet
  <2>1. rr[i] \in Seq(KeysOf("group")) /\ rr[i] # <<>>
    BY <1>2
  <2>2. rr[i][1] \in ToSet(rr[i])
    BY <2>1, EmptySeq, LenProperties DEF ToSet
  <2> QED
    BY <1>6, <2>2
<1> QED
  BY <1>1, <1>2, <1>6, <1>7

---------------------------------------------------------------------------
\* Knockout

LEMMA WinnerPlays ==
  ASSUME NEW ms, NEW k
  PROVE  WinnerOf(ms, k) \in {k.home, k.visitor, NoTeam}
  BY DEF WinnerOf

\* FlattenSeq of pairs puts the p-th pair at 2p - 1 and 2p.
LEMMA FlattenPairs ==
  ASSUME NEW S, NEW n \in Nat, NEW ss \in [1..n -> Seq(S)], \A p \in 1..n : Len(ss[p]) = 2
  PROVE  /\ FlattenSeq(ss) \in Seq(S) /\ Len(FlattenSeq(ss)) = 2 * n
         /\ \A p \in 1..n : /\ FlattenSeq(ss)[2 * p - 1] = ss[p][1]
                            /\ FlattenSeq(ss)[2 * p] = ss[p][2]
<1>1. ss \in Seq(Seq(S)) /\ Len(ss) = n
  BY FunctionIsSeq
<1>2. FlattenSeq(ss) \in Seq(S)
  BY <1>1, FlattenElements
<1>3. CASE n = 0
  <2>1. FlattenSeq(ss) = ss
    BY <1>1, <1>3 DEF FlattenSeq
  <2> QED
    BY <1>1, <1>2, <1>3, <2>1
<1>4. CASE n # 0
  <2> DEFINE f == CHOOSE f : f = [i \in 1..n |-> IF i = 1 THEN ss[i] ELSE f[i - 1] \o ss[i]]
             Good(i) == /\ f[i] \in Seq(S) /\ Len(f[i]) = 2 * i
                        /\ \A p \in 1..i : f[i][2 * p - 1] = ss[p][1] /\ f[i][2 * p] = ss[p][2]
             T == {i \in Nat : i + 1 <= n => Good(i + 1)}
  <2>1. f = [i \in 1..n |-> IF i = 1 THEN ss[i] ELSE f[i - 1] \o ss[i]]
    BY FlattenExists
  <2>2. FlattenSeq(ss) = f[n]
    BY <1>1, <1>4 DEF FlattenSeq
  <2> HIDE DEF f
  <2>3. 0 \in T
    <3>1. n >= 1 => f[1] = ss[1] /\ ss[1] \in Seq(S) /\ Len(ss[1]) = 2
      BY <2>1
    <3> QED
      BY <3>1
  <2>4. ASSUME NEW i \in Nat, i \in T PROVE i + 1 \in T
    <3> SUFFICES ASSUME (i + 1) + 1 <= n PROVE Good((i + 1) + 1)
      OBVIOUS
    <3> DEFINE k == i + 1
    <3>1. k \in Nat /\ k + 1 \in 1..n /\ k + 1 # 1 /\ (k + 1) - 1 = k /\ k <= n
      OBVIOUS
    <3>2. Good(k)
      BY <2>4, <3>1
    <3> HIDE DEF k
    <3>3. f[k + 1] = f[k] \o ss[k + 1] /\ ss[k + 1] \in Seq(S) /\ Len(ss[k + 1]) = 2
      BY <2>1, <3>1
    <3> DEFINE a == f[k]
               b == ss[k + 1]
               c == a \o b
    <3>4. /\ c \in Seq(S) /\ Len(c) = Len(a) + Len(b)
          /\ \A j \in 1..(Len(a) + Len(b)) : c[j] = IF j <= Len(a) THEN a[j] ELSE b[j - Len(a)]
      BY <3>2, <3>3, ConcatProperties
    <3> HIDE DEF c
    <3>5. ASSUME NEW p \in 1..(k + 1)
          PROVE  c[2 * p - 1] = ss[p][1] /\ c[2 * p] = ss[p][2]
      <4>1. CASE p \in 1..k
        <5>1. /\ 2 * p - 1 \in 1..(2 * k + 2) /\ 2 * p \in 1..(2 * k + 2)
              /\ 2 * p - 1 <= 2 * k /\ 2 * p <= 2 * k
          BY <3>1, <4>1
        <5>2. c[2 * p - 1] = a[2 * p - 1] /\ c[2 * p] = a[2 * p]
          BY <3>2, <3>3, <3>4, <5>1
        <5> QED
          BY <3>2, <4>1, <5>2
      <4>2. CASE p = k + 1
        <5>1. /\ 2 * p - 1 \in 1..(2 * k + 2) /\ 2 * p \in 1..(2 * k + 2)
              /\ ~(2 * p - 1 <= 2 * k) /\ ~(2 * p <= 2 * k)
              /\ (2 * p - 1) - 2 * k = 1 /\ 2 * p - 2 * k = 2
          BY <3>1, <4>2
        <5>2. c[2 * p - 1] = b[1] /\ c[2 * p] = b[2]
          BY <3>2, <3>3, <3>4, <5>1
        <5> QED
          BY <4>2, <5>2
      <4> QED
        BY <3>1, <4>1, <4>2
    <3>6. Len(c) = 2 * (k + 1)
      BY <3>1, <3>2, <3>3, <3>4
    <3>7. f[k + 1] = c
      BY <3>3 DEF c
    <3> QED
      BY <3>4, <3>5, <3>6, <3>7 DEF k
  <2>5. n - 1 \in T
    <3> HIDE DEF T
    <3>1. n - 1 \in Nat
      BY <1>4
    <3> QED
      BY <2>3, <2>4, <3>1, InductiveSet
  <2>6. (n - 1) + 1 = n /\ n <= n
    OBVIOUS
  <2>7. Good(n)
    BY <2>5, <2>6
  <2> QED
    BY <2>2, <2>7
<1> QED
  BY <1>3, <1>4
\* Groups the knockout round can be drawn from.
Seeded(groups) == groups \in Seq(Seq(Team)) /\ ~PlayoffError(groups)

\* The group that the winners of the i-th one are drawn against.
Rival(i) == IF i % 2 = 1 THEN i + 1 ELSE i - 1

LEMMA RivalGroups ==
  ASSUME NEW n \in Nat, n % 2 = 0, NEW i \in 1..n
  PROVE  Rival(i) \in 1..n /\ Rival(i) # i /\ Rival(Rival(i)) = i
  BY DEF Rival

LEMMA SeededGroups ==
  ASSUME NEW groups, Seeded(groups)
  PROVE  /\ Len(groups) \in Nat /\ Len(groups) % 2 = 0 /\ DOMAIN groups = 1..Len(groups)
         /\ \A i \in 1..Len(groups) :
              groups[i] \in Seq(Team) /\ Cardinality(ToSet(groups[i])) >= 2
<1>1. groups \in Seq(Seq(Team))
  BY DEF Seeded
<1>2. /\ Len(groups) \in Nat /\ DOMAIN groups = 1..Len(groups)
      /\ \A i \in 1..Len(groups) : groups[i] \in Seq(Team)
  BY <1>1, LenProperties, ElementOfSeq
<1>3. ASSUME NEW i \in 1..Len(groups) PROVE Cardinality(ToSet(groups[i])) \in Nat
  <2>1. groups[i] \in Seq(Team)
    BY <1>2
  <2> QED
    BY <2>1, GroupTeams, FS_CardinalityType
<1>4. Len(groups) % 2 = 0 /\ \A i \in 1..Len(groups) : ~(Cardinality(ToSet(groups[i])) < 2)
  BY <1>2 DEF Seeded, PlayoffError
<1> QED
  BY <1>2, <1>3, <1>4

LEMMA PairIsSeq ==
  ASSUME NEW S, NEW a \in S, NEW b \in S
  PROVE  <<a, b>> \in Seq(S) /\ Len(<<a, b>>) = 2
  OBVIOUS

\* The first of each group meets the second of its rival.
LEMMA R16PairsAre ==
  ASSUME NEW ms, MatchTable(ms), NEW groups, Seeded(groups)
  PROVE  /\ R16Pairs(ms, groups) \in Seq(KeysOf("r16"))
         /\ Len(R16Pairs(ms, groups)) = Len(groups)
         /\ \A i \in 1..Len(groups) :
              R16Pairs(ms, groups)[i] = Fixture("r16", TopTwo(ms, groups, i)[1],
                                                TopTwo(ms, groups, Rival(i))[2])
<1> DEFINE n      == Len(groups)
           h      == n \div 2
           top(i) == TopTwo(ms, groups, i)
           ss     == [p \in 1..h |-> Crossed(top(2 * p - 1), top(2 * p))]
           r16    == R16Pairs(ms, groups)
<1>1. n \in Nat /\ n % 2 = 0 /\ h \in Nat /\ n = 2 * h
  BY SeededGroups
<1>2. ASSUME NEW i \in 1..n
      PROVE  top(i)[1] \in Team /\ top(i)[2] \in Team
  <2>1. groups[i] \in Seq(Team) /\ Cardinality(ToSet(groups[i])) >= 2
    BY SeededGroups
  <2>2. ToSet(groups[i]) \subseteq Team
    BY <2>1, GroupTeams
  <2> QED
    BY <2>1, <2>2, TopTwoOfGroup
<1> HIDE DEF top
<1>3. ASSUME NEW p \in 1..h
      PROVE  ss[p] \in Seq(KeysOf("r16")) /\ Len(ss[p]) = 2
  <2>1. 2 * p - 1 \in 1..n /\ 2 * p \in 1..n
    BY <1>1
  <2>2. /\ Fixture("r16", top(2 * p - 1)[1], top(2 * p)[2]) \in KeysOf("r16")
        /\ Fixture("r16", top(2 * p)[1], top(2 * p - 1)[2]) \in KeysOf("r16")
    BY <1>2, <2>1 DEF Fixture, KeysOf
  <2>3. ss[p] = <<Fixture("r16", top(2 * p - 1)[1], top(2 * p)[2]),
                  Fixture("r16", top(2 * p)[1], top(2 * p - 1)[2])>>
    BY DEF Crossed
  <2> QED
    BY <2>2, <2>3, PairIsSeq
<1>4. ss \in [1..h -> Seq(KeysOf("r16"))]
  BY <1>3
<1>5. r16 = FlattenSeq(ss)
  BY DEF R16Pairs, top
<1>6. /\ r16 \in Seq(KeysOf("r16")) /\ Len(r16) = 2 * h
      /\ \A p \in 1..h : r16[2 * p - 1] = ss[p][1] /\ r16[2 * p] = ss[p][2]
  <2> HIDE DEF ss, r16, h
  <2> QED
    BY <1>1, <1>3, <1>4, <1>5, FlattenPairs
<1>7. ASSUME NEW i \in 1..n
      PROVE  r16[i] = Fixture("r16", top(i)[1], top(Rival(i))[2])
  <2> HIDE DEF r16
  <2>1. CASE i % 2 = 1
    <3>1. PICK p \in 1..h : i = 2 * p - 1
      <4>1. (i + 1) \div 2 \in 1..h /\ i = 2 * ((i + 1) \div 2) - 1
        BY <1>1, <2>1
      <4> QED
        BY <4>1
    <3>2. Rival(i) = 2 * p
      BY <2>1, <3>1 DEF Rival
    <3>3. ss[p][1] = Fixture("r16", top(2 * p - 1)[1], top(2 * p)[2])
      BY DEF Crossed
    <3> QED
      BY <1>6, <3>1, <3>2, <3>3
  <2>2. CASE i % 2 # 1
    <3>1. PICK p \in 1..h : i = 2 * p
      <4>1. i \div 2 \in 1..h /\ i = 2 * (i \div 2)
        BY <1>1, <2>2
      <4> QED
        BY <4>1
    <3>2. Rival(i) = 2 * p - 1
      BY <2>2, <3>1 DEF Rival
    <3>3. ss[p][2] = Fixture("r16", top(2 * p)[1], top(2 * p - 1)[2])
      BY DEF Crossed
    <3> QED
      BY <1>6, <3>1, <3>2, <3>3
  <2> QED
    BY <2>1, <2>2
<1> QED
  BY <1>1, <1>6, <1>7 DEF top
---------------------------------------------------------------------------
\* No team plays twice in a round

TeamsIn(k) == {k.home, k.visitor}

NoTeamTwice(pairs) ==
  /\ \A i \in DOMAIN pairs : pairs[i].home # pairs[i].visitor
  /\ \A i, j \in DOMAIN pairs : i # j => TeamsIn(pairs[i]) \cap TeamsIn(pairs[j]) = {}

\* Groups of which no two have a team in common.
Disjoint(groups) ==
  \A i, j \in DOMAIN groups : i # j => ToSet(groups[i]) \cap ToSet(groups[j]) = {}

LEMMA R16OneMatchEach ==
  ASSUME NEW ms, MatchTable(ms), NEW groups, Seeded(groups), Disjoint(groups)
  PROVE  NoTeamTwice(R16Pairs(ms, groups))
<1> DEFINE n      == Len(groups)
           G(i)   == ToSet(groups[i])
           a(i)   == TopTwo(ms, groups, i)[1]
           b(i)   == TopTwo(ms, groups, i)[2]
           r16    == R16Pairs(ms, groups)
<1>1. n \in Nat /\ n % 2 = 0 /\ DOMAIN groups = 1..n
  BY SeededGroups
<1>2. /\ DOMAIN r16 = 1..n
      /\ \A i \in 1..n : r16[i].home = a(i) /\ r16[i].visitor = b(Rival(i))
  <2>1. /\ r16 \in Seq(KeysOf("r16")) /\ Len(r16) = n
        /\ \A i \in 1..n : r16[i] = Fixture("r16", a(i), b(Rival(i)))
    BY R16PairsAre
  <2> HIDE DEF r16, a, b
  <2>2. DOMAIN r16 = 1..n
    BY <2>1, LenProperties
  <2>3. ASSUME NEW i \in 1..n PROVE r16[i].home = a(i) /\ r16[i].visitor = b(Rival(i))
    <3>1. r16[i] = Fixture("r16", a(i), b(Rival(i)))
      BY <2>1
    <3> QED
      BY <3>1 DEF Fixture
  <2> QED
    BY <2>2, <2>3
<1>3. ASSUME NEW i \in 1..n PROVE a(i) \in G(i) /\ b(i) \in G(i) /\ a(i) # b(i)
  <2>1. groups[i] \in Seq(Team) /\ Cardinality(ToSet(groups[i])) >= 2
    BY SeededGroups
  <2> QED
    BY <2>1, TopTwoOfGroup
<1>4. \A i, j \in 1..n : i # j => G(i) \cap G(j) = {}
  BY <1>1 DEF Disjoint
<1>5. \A i \in 1..n : Rival(i) \in 1..n /\ Rival(i) # i /\ Rival(Rival(i)) = i
  BY <1>1, RivalGroups
<1> HIDE DEF G, a, b, r16, n
<1>6. ASSUME NEW i \in 1..n PROVE a(i) # b(Rival(i))
  BY <1>3, <1>4, <1>5
<1>7. ASSUME NEW i \in 1..n, NEW j \in 1..n, i # j
      PROVE  {a(i), b(Rival(i))} \cap {a(j), b(Rival(j))} = {}
  <2>1. a(i) # a(j)
    BY <1>3, <1>4, <1>7
  <2>2. Rival(i) # Rival(j)
    BY <1>5, <1>7
  <2>3. b(Rival(i)) # b(Rival(j))
    BY <1>3, <1>4, <1>5, <2>2
  <2>4. \A p, q \in 1..n : a(p) # b(q)
    BY <1>3, <1>4
  <2> QED
    BY <1>5, <2>1, <2>3, <2>4
<1> QED
  BY <1>2, <1>6, <1>7 DEF NoTeamTwice, TeamsIn, r16

---------------------------------------------------------------------------
\* The later rounds

\* The fixtures of round r in next are between winners of the pairs, which have
\* all been won, and have no team twice if the pairs have none.
MadeOf(ms, r, next, pairs) ==
  /\ next \in Seq(KeysOf(r))
  /\ next # <<>> => Complete(ms, pairs)
  /\ \A i \in DOMAIN next : TeamsIn(next[i]) \subseteq {WinnerOf(ms, pairs[j]) : j \in DOMAIN pairs}
  /\ NoTeamTwice(pairs) => NoTeamTwice(next)

LEMMA WinnersType ==
  ASSUME NEW ms, NEW pairs \in Seq(KnockoutKey), Complete(ms, pairs)
  PROVE  /\ Winners(ms, pairs) \in Seq(Team) /\ Len(Winners(ms, pairs)) = Len(pairs)
         /\ \A i \in 1..Len(pairs) : Winners(ms, pairs)[i] = WinnerOf(ms, pairs[i])
         /\ NoTeamTwice(pairs) =>
              \A i, j \in 1..Len(pairs) : i # j => Winners(ms, pairs)[i] # Winners(ms, pairs)[j]
<1> DEFINE n == Len(pairs)
           w == Winners(ms, pairs)
<1>1. n \in Nat /\ DOMAIN pairs = 1..n /\ \A i \in 1..n : pairs[i] \in KnockoutKey
  BY LenProperties, ElementOfSeq
<1>2. ASSUME NEW i \in 1..n
      PROVE  WinnerOf(ms, pairs[i]) \in Team /\ WinnerOf(ms, pairs[i]) \in TeamsIn(pairs[i])
  <2>1. WinnerOf(ms, pairs[i]) # NoTeam
    BY <1>1 DEF Complete
  <2>2. WinnerOf(ms, pairs[i]) \in TeamsIn(pairs[i])
    BY <2>1, WinnerPlays DEF TeamsIn
  <2> QED
    BY <1>1, <2>2 DEF TeamsIn, KnockoutKey
<1>3. w = [i \in 1..n |-> WinnerOf(ms, pairs[i])]
  BY <1>1 DEF Winners
<1>4. w \in [1..n -> Team] /\ \A i \in 1..n : w[i] = WinnerOf(ms, pairs[i])
  BY <1>2, <1>3
<1> HIDE DEF w
<1>5. w \in Seq(Team) /\ Len(w) = n
  BY <1>1, <1>4, FunctionIsSeq
<1>6. NoTeamTwice(pairs) => \A i, j \in 1..n : i # j => w[i] # w[j]
  BY <1>1, <1>2, <1>4 DEF NoTeamTwice
<1> QED
  BY <1>4, <1>5, <1>6 DEF w

\* Neighbours of a list of teams meet.
LEMMA NextRoundIs ==
  ASSUME NEW r \in KnockoutRounds, NEW w \in Seq(Team)
  PROVE  /\ NextRound(r, w) \in Seq(KeysOf(r))
         /\ \A i \in DOMAIN NextRound(r, w) :
              TeamsIn(NextRound(r, w)[i]) \subseteq {w[j] : j \in DOMAIN w}
         /\ (\A i, j \in DOMAIN w : i # j => w[i] # w[j]) => NoTeamTwice(NextRound(r, w))
<1> DEFINE n == Len(w)
           h == n \div 2
           next == NextRound(r, w)
<1>1. n \in Nat /\ DOMAIN w = 1..n /\ h \in Nat /\ \A i \in 1..n : w[i] \in Team
  BY LenProperties, ElementOfSeq
<1>2. next = [i \in 1..h |-> Fixture(r, w[2 * i - 1], w[2 * i])]
  BY DEF NextRound
<1> HIDE DEF next
<1>3. ASSUME NEW i \in 1..h
      PROVE  /\ 2 * i - 1 \in 1..n /\ 2 * i \in 1..n
             /\ next[i] \in KeysOf(r)
             /\ next[i].home = w[2 * i - 1] /\ next[i].visitor = w[2 * i]
  <2>1. 2 * i - 1 \in 1..n /\ 2 * i \in 1..n
    BY <1>1
  <2> QED
    BY <1>1, <1>2, <2>1 DEF Fixture, KeysOf
<1>4. next \in Seq(KeysOf(r)) /\ DOMAIN next = 1..h
  <2>1. next \in [1..h -> KeysOf(r)]
    BY <1>2, <1>3
  <2> QED
    BY <1>1, <2>1, FunctionIsSeq
<1>5. \A i \in 1..h : TeamsIn(next[i]) \subseteq {w[j] : j \in 1..n}
  BY <1>3 DEF TeamsIn
<1>6. ASSUME \A i, j \in 1..n : i # j => w[i] # w[j]
      PROVE  NoTeamTwice(next)
  <2>1. ASSUME NEW i \in 1..h PROVE next[i].home # next[i].visitor
    <3>1. 2 * i - 1 # 2 * i
      OBVIOUS
    <3> QED
      BY <1>3, <1>6, <3>1
  <2>2. ASSUME NEW i \in 1..h, NEW j \in 1..h, i # j
        PROVE  TeamsIn(next[i]) \cap TeamsIn(next[j]) = {}
    <3>1. /\ 2 * i - 1 # 2 * j - 1 /\ 2 * i - 1 # 2 * j
          /\ 2 * i # 2 * j - 1 /\ 2 * i # 2 * j
      BY <1>1, <2>2
    <3>2. /\ w[2 * i - 1] # w[2 * j - 1] /\ w[2 * i - 1] # w[2 * j]
          /\ w[2 * i] # w[2 * j - 1] /\ w[2 * i] # w[2 * j]
      BY <1>3, <1>6, <3>1
    <3> QED
      BY <1>3, <3>2 DEF TeamsIn
  <2> QED
    BY <1>4, <2>1, <2>2 DEF NoTeamTwice
<1> QED
  BY <1>1, <1>4, <1>5, <1>6 DEF next

LEMMA FollowingMade ==
  ASSUME NEW ms, NEW r \in KnockoutRounds, NEW pairs \in Seq(KnockoutKey)
  PROVE  MadeOf(ms, r, Following(r, ms, pairs), pairs)
<1> DEFINE w == Winners(ms, pairs)
<1>1. CASE pairs # <<>> /\ Complete(ms, pairs)
  <2>1. /\ w \in Seq(Team) /\ Len(w) = Len(pairs)
        /\ \A i \in 1..Len(pairs) : w[i] = WinnerOf(ms, pairs[i])
        /\ NoTeamTwice(pairs) => \A i, j \in 1..Len(pairs) : i # j => w[i] # w[j]
    BY <1>1, WinnersType
  <2>2. Following(r, ms, pairs) = NextRound(r, w)
    BY <1>1 DEF Following
  <2>3. DOMAIN w = 1..Len(pairs) /\ DOMAIN pairs = 1..Len(pairs)
    BY <2>1, LenProperties
  <2> HIDE DEF w
  <2>4. {w[j] : j \in DOMAIN w} = {WinnerOf(ms, pairs[j]) : j \in DOMAIN pairs}
    BY <2>1, <2>3
  <2> QED
    BY <1>1, <2>1, <2>2, <2>3, <2>4, NextRoundIs DEF MadeOf
<1>2. CASE ~(pairs # <<>> /\ Complete(ms, pairs))
  <2>1. Following(r, ms, pairs) = <<>>
    BY <1>2 DEF Following
  <2> QED
    BY <2>1 DEF MadeOf, NoTeamTwice
<1> QED
  BY <1>1, <1>2

LEMMA QuarterFinalsMade ==
  ASSUME NEW ms, NEW pairs \in Seq(KnockoutKey)
  PROVE  MadeOf(ms, "qf", QuarterFinals(ms, pairs), pairs)
<1> DEFINE w == Winners(ms, pairs)
           v == SubSeq(w, 1, 8)
<1>1. CASE Complete(ms, pairs) /\ Len(pairs) >= 8
  <2>1. /\ w \in Seq(Team) /\ Len(w) = Len(pairs)
        /\ \A i \in 1..Len(pairs) : w[i] = WinnerOf(ms, pairs[i])
        /\ NoTeamTwice(pairs) => \A i, j \in 1..Len(pairs) : i # j => w[i] # w[j]
    BY <1>1, WinnersType
  <2>2. QuarterFinals(ms, pairs) = NextRound("qf", v)
    BY <1>1 DEF QuarterFinals
  <2>3. DOMAIN pairs = 1..Len(pairs) /\ Len(pairs) \in Nat
    BY LenProperties
  <2> HIDE DEF w
  <2>4. v \in Seq(Team) /\ DOMAIN v = 1..8 /\ \A i \in 1..8 : v[i] = w[i] /\ i \in 1..Len(pairs)
    <3>1. \A i \in 1..8 : i \in 1..Len(pairs) /\ w[i] \in Team
      BY <1>1, <2>1, <2>3, ElementOfSeq
    <3>2. v = [i \in 1..8 |-> w[i]]
      BY <1>1, <2>1, <2>3
    <3>3. v \in [1..8 -> Team]
      BY <3>1, <3>2
    <3> HIDE DEF v
    <3> QED
      BY <3>1, <3>2, <3>3, FunctionIsSeq
  <2> HIDE DEF v
  <2>5. {v[j] : j \in DOMAIN v} \subseteq {WinnerOf(ms, pairs[j]) : j \in DOMAIN pairs}
    <3>1. \A i \in 1..8 : i \in DOMAIN pairs /\ v[i] = WinnerOf(ms, pairs[i])
      BY <2>1, <2>3, <2>4
    <3> QED
      BY <2>4, <3>1
  <2>6. NoTeamTwice(pairs) => \A i, j \in DOMAIN v : i # j => v[i] # v[j]
    BY <2>1, <2>4
  <2>7. "qf" \in KnockoutRounds
    BY DEF KnockoutRounds, Rounds
  <2> DEFINE next == NextRound("qf", v)
  <2>8. /\ next \in Seq(KeysOf("qf"))
        /\ \A i \in DOMAIN next : TeamsIn(next[i]) \subseteq {v[j] : j \in DOMAIN v}
        /\ (\A i, j \in DOMAIN v : i # j => v[i] # v[j]) => NoTeamTwice(next)
    BY <2>4, <2>7, NextRoundIs
  <2> HIDE DEF next
  <2>9. QuarterFinals(ms, pairs) = next
    BY <2>2 DEF next
  <2> QED
    BY <1>1, <2>5, <2>6, <2>8, <2>9 DEF MadeOf
<1>2. CASE ~(Complete(ms, pairs) /\ Len(pairs) >= 8)
  <2>1. QuarterFinals(ms, pairs) = <<>>
    BY <1>2 DEF QuarterFinals
  <2> QED
    BY <2>1 DEF MadeOf, NoTeamTwice
<1> QED
  BY <1>1, <1>2
---------------------------------------------------------------------------
\* The proposals, round by round

QuarterFinalists(ms, groups) == QuarterFinals(ms, R16Pairs(ms, groups))
SemiFinalists(ms, groups) == Following("sf", ms, QuarterFinalists(ms, groups))
Finalists(ms, groups) == Following("final", ms, SemiFinalists(ms, groups))

Bracket(ms, groups) ==
  [r16   |-> R16Pairs(ms, groups), qf    |-> QuarterFinalists(ms, groups),
   sf    |-> SemiFinalists(ms, groups), final |-> Finalists(ms, groups)]

\* The round before each of the later ones.
Earlier == [qf |-> "r16", sf |-> "qf", final |-> "sf"]

KeysAreKnockout == \A r \in KnockoutRounds : KeysOf(r) \subseteq KnockoutKey

LEMMA RoundKeys == KeysAreKnockout
  BY DEF KeysAreKnockout, KeysOf, KnockoutKey

LEMMA BracketRounds ==
  ASSUME NEW ms, MatchTable(ms), NEW groups, Seeded(groups)
  PROVE  /\ \A r \in KnockoutRounds : Bracket(ms, groups)[r] \in Seq(KeysOf(r))
         /\ \A r \in DOMAIN Earlier :
              MadeOf(ms, r, Bracket(ms, groups)[r], Bracket(ms, groups)[Earlier[r]])
<1> DEFINE r16 == R16Pairs(ms, groups)
           qf  == QuarterFinalists(ms, groups)
           sf  == SemiFinalists(ms, groups)
           f   == Finalists(ms, groups)
<1>1. /\ KnockoutRounds = {"r16", "qf", "sf", "final"}
      /\ DOMAIN Earlier = {"qf", "sf", "final"}
      /\ Earlier["qf"] = "r16" /\ Earlier["sf"] = "qf" /\ Earlier["final"] = "sf"
  BY DEF KnockoutRounds, Rounds, Earlier
<1>2. \A r \in KnockoutRounds : Seq(KeysOf(r)) \subseteq Seq(KnockoutKey)
  <2> SUFFICES ASSUME NEW r \in KnockoutRounds PROVE Seq(KeysOf(r)) \subseteq Seq(KnockoutKey)
    OBVIOUS
  <2>1. KeysOf(r) \subseteq KnockoutKey
    BY RoundKeys DEF KeysAreKnockout
  <2> QED
    BY <2>1, SeqMonotonic
<1>3. r16 \in Seq(KeysOf("r16"))
  BY R16PairsAre
<1>4. MadeOf(ms, "qf", qf, r16)
  BY <1>1, <1>2, <1>3, QuarterFinalsMade DEF QuarterFinalists
<1>5. qf \in Seq(KeysOf("qf"))
  BY <1>4 DEF MadeOf
<1>6. MadeOf(ms, "sf", sf, qf)
  BY <1>1, <1>2, <1>5, FollowingMade DEF SemiFinalists
<1>7. sf \in Seq(KeysOf("sf"))
  BY <1>6 DEF MadeOf
<1>8. MadeOf(ms, "final", f, sf)
  BY <1>1, <1>2, <1>7, FollowingMade DEF Finalists
<1>9. f \in Seq(KeysOf("final"))
  BY <1>8 DEF MadeOf
<1>10. /\ Bracket(ms, groups)["r16"] = r16 /\ Bracket(ms, groups)["qf"] = qf
       /\ Bracket(ms, groups)["sf"] = sf /\ Bracket(ms, groups)["final"] = f
  BY DEF Bracket
<1> HIDE DEF r16, qf, sf, f
<1> QED
  BY <1>1, <1>3, <1>4, <1>5, <1>6, <1>7, <1>8, <1>9, <1>10

LEMMA Proposals ==
  ASSUME NEW ms, MatchTable(ms), NEW groups, Seeded(groups)
  PROVE  /\ CreatePlayoffMatches(ms, groups) \in Seq(KnockoutKey)
         /\ ToSet(CreatePlayoffMatches(ms, groups)) =
              ToSet(R16Pairs(ms, groups))
                \cup (IF Len(R16Pairs(ms, groups)) = 8
                      THEN ToSet(QuarterFinalists(ms, groups)) ELSE {})
                \cup ToSet(SemiFinalists(ms, groups)) \cup ToSet(Finalists(ms, groups))
<1> DEFINE r16 == R16Pairs(ms, groups)
           qf  == QuarterFinalists(ms, groups)
           sf  == SemiFinalists(ms, groups)
           f   == Finalists(ms, groups)
           q   == IF Len(r16) = 8 THEN qf ELSE <<>>
<1>1. /\ r16 \in Seq(KnockoutKey) /\ qf \in Seq(KnockoutKey)
      /\ sf \in Seq(KnockoutKey) /\ f \in Seq(KnockoutKey)
  <2>1. \A r \in KnockoutRounds : Bracket(ms, groups)[r] \in Seq(KnockoutKey)
    <3> SUFFICES ASSUME NEW r \in KnockoutRounds
                 PROVE  Bracket(ms, groups)[r] \in Seq(KnockoutKey)
      OBVIOUS
    <3>1. KeysOf(r) \subseteq KnockoutKey /\ Bracket(ms, groups)[r] \in Seq(KeysOf(r))
      BY RoundKeys, BracketRounds DEF KeysAreKnockout
    <3> QED
      BY <3>1, SeqMonotonic
  <2>2. KnockoutRounds = {"r16", "qf", "sf", "final"}
    BY DEF KnockoutRounds, Rounds
  <2> QED
    BY <2>1, <2>2 DEF Bracket
<1>2. CreatePlayoffMatches(ms, groups) = r16 \o q \o (sf \o f)
  BY DEF CreatePlayoffMatches, FromRoundOf16, FromQuarterFinals, FromSemiFinals,
         QuarterFinalists, SemiFinalists, Finalists
<1> HIDE DEF r16, qf, sf, f
<1>3. q \in Seq(KnockoutKey) /\ ToSet(q) = IF Len(r16) = 8 THEN ToSet(qf) ELSE {}
  BY <1>1 DEF ToSet
<1> HIDE DEF q
<1>4. r16 \o q \in Seq(KnockoutKey) /\ ToSet(r16 \o q) = ToSet(r16) \cup ToSet(q)
  BY <1>1, <1>3, ConcatElements
<1>5. sf \o f \in Seq(KnockoutKey) /\ ToSet(sf \o f) = ToSet(sf) \cup ToSet(f)
  BY <1>1, ConcatElements
<1> DEFINE early == r16 \o q
           late  == sf \o f
<1>6. early \in Seq(KnockoutKey) /\ late \in Seq(KnockoutKey)
  BY <1>4, <1>5
<1> HIDE DEF early, late
<1>7. early \o late \in Seq(KnockoutKey) /\ ToSet(early \o late) = ToSet(early) \cup ToSet(late)
  BY <1>6, ConcatElements
<1> QED
  BY <1>2, <1>3, <1>4, <1>5, <1>7 DEF r16, qf, sf, f, early, late

\* A proposal of a round is one of that round of the bracket.
LEMMA ProposalsAreBracket ==
  ASSUME NEW ms, MatchTable(ms), NEW groups, Seeded(groups),
         NEW k \in ToSet(CreatePlayoffMatches(ms, groups))
  PROVE  /\ k \in KnockoutKey /\ k.round \in KnockoutRounds
         /\ k \in ToSet(Bracket(ms, groups)[k.round])
<1>1. PICK r \in KnockoutRounds : k \in ToSet(Bracket(ms, groups)[r])
  <2>1. KnockoutRounds = {"r16", "qf", "sf", "final"}
    BY DEF KnockoutRounds, Rounds
  <2> QED
    BY <2>1, Proposals DEF Bracket
<1>2. Bracket(ms, groups)[r] \in Seq(KeysOf(r))
  BY BracketRounds
<1>3. k \in KeysOf(r)
  BY <1>1, <1>2, LenProperties, ElementOfSeq DEF ToSet
<1>4. k.round = r
  BY <1>3 DEF KeysOf
<1>5. k \in KnockoutKey
  BY <1>3, RoundKeys DEF KeysAreKnockout
<1> QED
  BY <1>1, <1>4, <1>5

\* Whoever is proposed for a later round has won a stored match of the round before.
LEMMA ProposedHaveWon ==
  ASSUME NEW ms, MatchTable(ms), NEW groups, Seeded(groups),
         NEW k \in ToSet(CreatePlayoffMatches(ms, groups)), k.round \in DOMAIN Earlier
  PROVE  TeamsIn(k) \subseteq {WinnerOf(ms, m) : m \in {p \in DOMAIN ms : p.round = Earlier[k.round]}}
<1> DEFINE b == Bracket(ms, groups)
           e == Earlier[k.round]
<1>1. k \in ToSet(b[k.round])
  BY ProposalsAreBracket
<1>2. PICK i \in DOMAIN b[k.round] : k = b[k.round][i]
  BY <1>1 DEF ToSet
<1>3. MadeOf(ms, k.round, b[k.round], b[e]) /\ b[e] \in Seq(KeysOf(e))
  <2>1. e \in KnockoutRounds
    BY DEF Earlier, KnockoutRounds, Rounds
  <2> QED
    BY <2>1, BracketRounds
<1> HIDE DEF b, e
<1>4. b[k.round] # <<>>
  BY <1>2
<1>5. Complete(ms, b[e]) /\ TeamsIn(k) \subseteq {WinnerOf(ms, b[e][j]) : j \in DOMAIN b[e]}
  BY <1>2, <1>3, <1>4 DEF MadeOf
<1>6. ASSUME NEW j \in DOMAIN b[e] PROVE b[e][j] \in DOMAIN ms /\ b[e][j].round = e
  <2>1. b[e][j] \in KeysOf(e)
    BY <1>3, LenProperties, ElementOfSeq
  <2> QED
    BY <1>5, <2>1 DEF Complete, KeysOf
<1> QED
  BY <1>5, <1>6 DEF e

LEMMA BracketOneMatchEach ==
  ASSUME NEW ms, MatchTable(ms), NEW groups, Seeded(groups), Disjoint(groups)
  PROVE  \A r \in KnockoutRounds : NoTeamTwice(Bracket(ms, groups)[r])
<1> DEFINE b == Bracket(ms, groups)
<1>1. NoTeamTwice(b["r16"])
  BY R16OneMatchEach DEF Bracket
<1>2. MadeOf(ms, "qf", b["qf"], b["r16"]) /\ MadeOf(ms, "sf", b["sf"], b["qf"])
      /\ MadeOf(ms, "final", b["final"], b["sf"])
  <2> HIDE DEF b
  <2>1. "qf" \in DOMAIN Earlier /\ "sf" \in DOMAIN Earlier /\ "final" \in DOMAIN Earlier
        /\ Earlier["qf"] = "r16" /\ Earlier["sf"] = "qf" /\ Earlier["final"] = "sf"
    BY DEF Earlier
  <2> QED
    BY <2>1, BracketRounds DEF b
<1> HIDE DEF b
<1>3. NoTeamTwice(b["qf"]) /\ NoTeamTwice(b["sf"]) /\ NoTeamTwice(b["final"])
  BY <1>1, <1>2 DEF MadeOf
<1> QED
  BY <1>1, <1>3 DEF KnockoutRounds, Rounds, b

\* So two proposals of one round that share a team are the same.
LEMMA ProposalsOneMatchEach ==
  ASSUME NEW ms, MatchTable(ms), NEW groups, Seeded(groups), Disjoint(groups),
         NEW k \in ToSet(CreatePlayoffMatches(ms, groups)),
         NEW m \in ToSet(CreatePlayoffMatches(ms, groups)), k.round = m.round
  PROVE  k.home # k.visitor /\ (TeamsIn(k) \cap TeamsIn(m) # {} => k = m)
<1> DEFINE b == Bracket(ms, groups)[k.round]
<1>1. k \in ToSet(b) /\ m \in ToSet(b) /\ k.round \in KnockoutRounds
  BY ProposalsAreBracket
<1>2. NoTeamTwice(b)
  BY <1>1, BracketOneMatchEach
<1> HIDE DEF b
<1>3. PICK i \in DOMAIN b, j \in DOMAIN b : k = b[i] /\ m = b[j]
  BY <1>1 DEF ToSet
<1> QED
  BY <1>2, <1>3 DEF NoTeamTwice
---------------------------------------------------------------------------
\* What later reads change

\* The table grows: nothing is deleted, a result is final, and the group stage
\* has no new result.
Settled(ms, ns) ==
  /\ \A k \in DOMAIN ms : k \in DOMAIN ns /\ (HasScore(ms, k) => ns[k] = ms[k])
  /\ \A k \in DOMAIN ns :
       k.round = "group" /\ HasScore(ns, k) => k \in DOMAIN ms /\ HasScore(ms, k)

LEMMA SameRow ==
  ASSUME NEW ms, NEW ns, NEW played, IsFiniteSet(played), NEW t,
         \A k \in played : ns[k] = ms[k]
  PROVE  TableRow(ns, played, t) = TableRow(ms, played, t)
<1> DEFINE own   == {k \in played : t \in {k.home, k.visitor}}
           wm    == {k \in own : WinnerOf(ms, k) = t}
           wn    == {k \in own : WinnerOf(ns, k) = t}
           fm    == [k \in own |-> GoalsOf(ms, k, t)]
           fn    == [k \in own |-> GoalsOf(ns, k, t)]
           am    == [k \in own |-> GoalsAgainst(ms, k, t)]
           an    == [k \in own |-> GoalsAgainst(ns, k, t)]
<1>1. wm = wn /\ fm = fn /\ am = an
  BY DEF WinnerOf, GoalsOf, GoalsAgainst
<1>2. IsFiniteSet(own)
  BY FS_Subset
<1>3. /\ GoalsFor(ms, own, t) = SumOver(fm, own) /\ GoalsFor(ns, own, t) = SumOver(fn, own)
      /\ GoalsConceded(ms, own, t) = SumOver(am, own)
      /\ GoalsConceded(ns, own, t) = SumOver(an, own)
  <2> HIDE DEF own
  <2>1. GoalsFor(ms, own, t) = SumOver(fm, own) /\ GoalsFor(ns, own, t) = SumOver(fn, own)
    BY <1>2, GoalsForIsSum
  <2>2. /\ GoalsConceded(ms, own, t) = SumOver(am, own)
        /\ GoalsConceded(ns, own, t) = SumOver(an, own)
    BY <1>2, GoalsConcededIsSum
  <2> QED
    BY <2>1, <2>2
<1>4. TableRow(ms, played, t) =
        [team |-> t, points |-> 3 * Cardinality(wm),
         gf |-> GoalsFor(ms, own, t), ga |-> GoalsConceded(ms, own, t)]
  BY DEF TableRow, GoalsFor, GoalsConceded
<1>5. TableRow(ns, played, t) =
        [team |-> t, points |-> 3 * Cardinality(wn),
         gf |-> GoalsFor(ns, own, t), ga |-> GoalsConceded(ns, own, t)]
  BY DEF TableRow, GoalsFor, GoalsConceded
<1> HIDE DEF own, wm, wn, fm, fn, am, an
<1> QED
  BY <1>1, <1>3, <1>4, <1>5

LEMMA SameTopTwo ==
  ASSUME NEW ms, MatchTable(ms), NEW ns, Settled(ms, ns), NEW groups, NEW i
  PROVE  TopTwo(ns, groups, i) = TopTwo(ms, groups, i)
<1> DEFINE played == GroupMatches(ms, groups, i)
           ts     == ToSet(groups[i])
<1>1. GroupMatches(ns, groups, i) = played
  <2>1. \A k : /\ k \in DOMAIN ms /\ k.round = "group" /\ HasScore(ms, k)
               <=> k \in DOMAIN ns /\ k.round = "group" /\ HasScore(ns, k)
    BY DEF Settled, HasScore
  <2> QED
    BY <2>1 DEF GroupMatches
<1>2. played \subseteq DOMAIN ms /\ \A k \in played : ns[k] = ms[k]
  BY DEF GroupMatches, Settled
<1>3. IsFiniteSet(played)
  BY <1>2, FS_Subset DEF MatchTable
<1> HIDE DEF played, ts
<1>4. \A t : TableRow(ns, played, t) = TableRow(ms, played, t)
  BY <1>2, <1>3, SameRow
<1>5. Rows(ns, played, ts) = Rows(ms, played, ts)
  BY <1>4 DEF Rows
<1> QED
  BY <1>1, <1>5 DEF TopTwo, Standings, played, ts

LEMMA SameR16 ==
  ASSUME NEW ms, MatchTable(ms), NEW ns, MatchTable(ns), Settled(ms, ns),
         NEW groups, Seeded(groups)
  PROVE  R16Pairs(ns, groups) = R16Pairs(ms, groups)
<1> DEFINE n  == Len(groups)
           a  == R16Pairs(ms, groups)
           b  == R16Pairs(ns, groups)
<1>1. /\ a \in Seq(KeysOf("r16")) /\ Len(a) = n /\ b \in Seq(KeysOf("r16")) /\ Len(b) = n
      /\ \A i \in 1..n : a[i] = Fixture("r16", TopTwo(ms, groups, i)[1],
                                        TopTwo(ms, groups, Rival(i))[2])
      /\ \A i \in 1..n : b[i] = Fixture("r16", TopTwo(ns, groups, i)[1],
                                        TopTwo(ns, groups, Rival(i))[2])
  BY R16PairsAre
<1> HIDE DEF a, b
<1>2. \A i \in 1..n : a[i] = b[i]
  BY <1>1, SameTopTwo
<1>3. DOMAIN a = 1..n /\ DOMAIN b = 1..n
  BY <1>1, LenProperties
<1>4. a = b
  BY <1>1, <1>2, <1>3, SeqEqual
<1> QED
  BY <1>4 DEF a, b

\* A round that was complete stays complete, with the same winners.
LEMMA StaysComplete ==
  ASSUME NEW ms, MatchTable(ms), NEW ns, Settled(ms, ns), NEW pairs, Complete(ms, pairs)
  PROVE  Complete(ns, pairs) /\ Winners(ns, pairs) = Winners(ms, pairs)
<1>1. ASSUME NEW i \in DOMAIN pairs
      PROVE  /\ pairs[i] \in DOMAIN ns /\ WinnerOf(ns, pairs[i]) = WinnerOf(ms, pairs[i])
             /\ WinnerOf(ms, pairs[i]) # NoTeam
  <2>1. pairs[i] \in DOMAIN ms /\ WinnerOf(ms, pairs[i]) # NoTeam
    BY DEF Complete
  <2>2. ms[pairs[i]] # NoResult
    BY <2>1 DEF WinnerOf, NoResult
  <2>3. pairs[i] \in DOMAIN ns /\ ns[pairs[i]] = ms[pairs[i]]
    BY <2>1, <2>2 DEF Settled, HasScore
  <2> QED
    BY <2>1, <2>3 DEF WinnerOf
<1> QED
  BY <1>1 DEF Complete, Winners

LEMMA SameFollowing ==
  ASSUME NEW ms, MatchTable(ms), NEW ns, Settled(ms, ns), NEW r, NEW pairs
  PROVE  /\ Following(r, ms, pairs) \in {<<>>, Following(r, ns, pairs)}
         /\ QuarterFinals(ms, pairs) \in {<<>>, QuarterFinals(ns, pairs)}
  BY StaysComplete DEF Following, QuarterFinals

\* Every proposal is still one when it is computed again later.
LEMMA ProposalsStay ==
  ASSUME NEW ms, MatchTable(ms), NEW ns, MatchTable(ns), Settled(ms, ns),
         NEW groups, Seeded(groups)
  PROVE  ToSet(CreatePlayoffMatches(ms, groups)) \subseteq ToSet(CreatePlayoffMatches(ns, groups))
<1>1. R16Pairs(ns, groups) = R16Pairs(ms, groups)
  BY SameR16
<1>2. ToSet(<<>>) = {}
  BY DEF ToSet
<1>3. Following("sf", ms, <<>>) = <<>> /\ Following("final", ms, <<>>) = <<>>
  BY DEF Following
<1>4. QuarterFinalists(ms, groups) \in {<<>>, QuarterFinalists(ns, groups)}
  BY <1>1, SameFollowing DEF QuarterFinalists
<1>5. SemiFinalists(ms, groups) \in {<<>>, SemiFinalists(ns, groups)}
  BY <1>3, <1>4, SameFollowing DEF SemiFinalists
<1>6. Finalists(ms, groups) \in {<<>>, Finalists(ns, groups)}
  BY <1>3, <1>5, SameFollowing DEF Finalists
<1> QED
  BY <1>1, <1>2, <1>4, <1>5, <1>6, Proposals

---------------------------------------------------------------------------
\* What the users of the strategy do with its lists and the matches table

LEMMA KeyKinds ==
  /\ KeysOf("group") \subseteq MatchKey /\ KnockoutKey \subseteq MatchKey
  /\ \A k \in KeysOf("group") : k.round = "group"
  /\ \A k \in KnockoutKey : k.round \in KnockoutRounds /\ k.round # "group"
  BY DEF KeysOf, KnockoutKey, MatchKey, KnockoutRounds, Rounds

\* Groups of three teams and more have a fixture.
LEMMA RegularPhaseNotEmpty ==
  ASSUME NEW groups \in Seq(Seq(Team)), ~RegularPhaseError(groups)
  PROVE  CreateRegularPhaseMatches(groups) # <<>>
<1>1. Len(groups) \in Nat /\ DOMAIN groups = 1..Len(groups)
  BY LenProperties
<1>2. groups # <<>> /\ \A i \in DOMAIN groups : ~(Len(groups[i]) < 3)
  BY DEF RegularPhaseError
<1>3. 1 \in DOMAIN groups /\ groups[1] \in Seq(Team)
  BY <1>1, <1>2, EmptySeq, ElementOfSeq
<1>4. Len(groups[1]) >= 2
  BY <1>2, <1>3, LenProperties
<1> QED
  BY <1>1, <1>3, <1>4, RegularPhaseType

\* A row is inserted, or a result written to one.
LEMMA RowInserted ==
  ASSUME NEW ms, MatchTable(ms), NEW k \in MatchKey, NEW ns,
         ns = [x \in DOMAIN ms \cup {k} |-> IF x = k THEN NoResult ELSE ms[x]]
  PROVE  /\ MatchTable(ns) /\ DOMAIN ns = DOMAIN ms \cup {k}
         /\ ns[k] = NoResult /\ \A x \in DOMAIN ms \ {k} : ns[x] = ms[x]
<1>1. /\ DOMAIN ns = DOMAIN ms \cup {k} /\ ns[k] = NoResult
      /\ \A x \in DOMAIN ms \ {k} : ns[x] = ms[x]
  OBVIOUS
<1>2. IsFiniteSet(DOMAIN ns)
  BY <1>1, FS_AddElement DEF MatchTable
<1>3. NoResult \in Result
  BY DEF NoResult, Result
<1> QED
  BY <1>1, <1>2, <1>3 DEF MatchTable

LEMMA RowWritten ==
  ASSUME NEW ms, MatchTable(ms), NEW k \in DOMAIN ms, NEW r \in Result, NEW ns,
         ns = [ms EXCEPT ![k] = r]
  PROVE  /\ MatchTable(ns) /\ DOMAIN ns = DOMAIN ms
         /\ ns[k] = r /\ \A x \in DOMAIN ms \ {k} : ns[x] = ms[x]
  BY DEF MatchTable

\* A list is worked off from the front.
LEMMA RestOfList ==
  ASSUME NEW S, NEW t \in Seq(S), t # <<>>
  PROVE  /\ Head(t) \in S /\ Head(t) \in ToSet(t)
         /\ Len(t) # 1 => /\ Tail(t) \in Seq(S) /\ Tail(t) # <<>>
                          /\ ToSet(Tail(t)) \subseteq ToSet(t)
<1>1. Len(t) \in Nat \ {0} /\ DOMAIN t = 1..Len(t) /\ \A i \in 1..Len(t) : t[i] \in S
  BY EmptySeq, LenProperties, ElementOfSeq
<1>2. /\ Head(t) = t[1] /\ Tail(t) \in Seq(S) /\ Len(Tail(t)) = Len(t) - 1
      /\ \A i \in 1..Len(Tail(t)) : Tail(t)[i] = t[i + 1]
  BY HeadTailProperties
<1>3. Head(t) \in S /\ Head(t) \in ToSet(t)
  BY <1>1, <1>2 DEF ToSet
<1>4. ToSet(Tail(t)) \subseteq ToSet(t)
  <2>1. DOMAIN Tail(t) = 1..(Len(t) - 1)
    BY <1>2, LenProperties
  <2> QED
    BY <1>1, <1>2, <2>1 DEF ToSet
<1>5. Len(t) # 1 => Tail(t) # <<>>
  <2>1. Len(t) # 1 => Len(Tail(t)) # 0
    BY <1>1, <1>2
  <2> QED
    BY <1>2, <2>1, EmptySeq
<1> QED
  BY <1>2, <1>3, <1>4, <1>5

\* What is left of a list without the elements of a set.
Without(p, D) == FlattenSeq([i \in DOMAIN p |-> IF p[i] \in D THEN <<>> ELSE <<p[i]>>])

LEMMA WithoutIsPart ==
  ASSUME NEW S, NEW p \in Seq(S), NEW D
  PROVE  Without(p, D) \in Seq(S) /\ ToSet(Without(p, D)) \subseteq ToSet(p)
<1> DEFINE n  == Len(p)
           ss == [i \in 1..n |-> IF p[i] \in D THEN <<>> ELSE <<p[i]>>]
<1>1. n \in Nat /\ DOMAIN p = 1..n /\ \A i \in 1..n : p[i] \in S
  BY LenProperties, ElementOfSeq
<1>2. ASSUME NEW i \in 1..n
      PROVE  ss[i] \in Seq(S) /\ ToSet(ss[i]) \subseteq ToSet(p)
  <2>1. CASE p[i] \in D
    BY <2>1 DEF ToSet
  <2>2. CASE p[i] \notin D
    <3>1. ss[i] = <<p[i]>> /\ p[i] \in S /\ p[i] \in ToSet(p)
      BY <1>1, <2>2 DEF ToSet
    <3> HIDE DEF ss
    <3> QED
      BY <3>1 DEF ToSet
  <2> QED
    BY <2>1, <2>2
<1>3. ss \in [1..n -> Seq(S)] /\ DOMAIN ss = 1..n
  BY <1>2
<1>4. Without(p, D) = FlattenSeq(ss)
  BY <1>1 DEF Without
<1> HIDE DEF ss, n
<1>5. ss \in Seq(Seq(S))
  BY <1>1, <1>3, FunctionIsSeq
<1>6. FlattenSeq(ss) \in Seq(S) /\ ToSet(FlattenSeq(ss)) = UNION {ToSet(ss[i]) : i \in 1..n}
  BY <1>3, <1>5, FlattenElements
<1> QED
  BY <1>2, <1>4, <1>6
===============================================================================
