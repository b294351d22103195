----------------------------- MODULE FoldTheorems -----------------------------
(***************************************************************************)
(* What SumFunctionOnSet and FlattenSeq of the community modules compute.  *)
(* The first is the sum of the sizes that the two stores hold against      *)
(* their quotas, for every function and finite set; the second joins the   *)
(* steps of the layers in the loader's plan, and the tensors of the layers *)
(* in a generated file, whose parameters are summed by the first.  Both    *)
(* are the values of recursive functions: one is shown to exist, by a      *)
(* minimal counterexample, and what is said of them follows from their     *)
(* equations.                                                              *)
(***************************************************************************)
EXTENDS Integers, FiniteSets, Functions, SequencesExt, FiniteSetTheorems, SequenceTheorems,
  WellFoundedInduction, TLAPS

\* The element of a nonempty set that the fold takes first.
Pick(s) == CHOOSE x \in s : TRUE

\* g is the table of the sums of F over the subsets of S.
Sums(g, F, S) ==
  g = [s \in SUBSET S |-> IF s = {} THEN 0 ELSE F[Pick(s)] + g[s \ {Pick(s)}]]

\* If there is a table, the sum is its value: what the definition chooses is one.
LEMMA ChosenTable ==
  ASSUME NEW S, NEW F, \E g : Sums(g, F, S)
  PROVE  \E g : Sums(g,F,S) /\ SumFunctionOnSet(F, S) = g[S]
BY Zenon DEF SumFunctionOnSet, FoldFunctionOnSet, MapThenFoldSet, Sums, Pick

\* Some member of a set of subsets of a finite set has no other below it.
LEMMA Minimal ==
  ASSUME NEW S, IsFiniteSet(S), NEW T \in SUBSET (SUBSET S), T # {}
  PROVE  \E x \in T : \A y \in T : y \subseteq x => y = x
<1>1. T \subseteq FiniteSubsetsOf(S)
  BY FS_Subset DEF FiniteSubsetsOf
<1>2. \E x \in T : \A y \in T : ~ (<<y, x>> \in StrictSubsetOrdering(S))
  BY <1>1, FS_StrictSubsetOrderingWellFounded, WFMin
<1> QED BY <1>2 DEF StrictSubsetOrdering

\* The element taken first is one of the set.
LEMMA PickIn ==
  ASSUME NEW s, s # {}
  PROVE  Pick(s) \in s
BY DEF Pick

\* An entry of a table.
LEMMA Value ==
  ASSUME NEW F, NEW S, NEW g, Sums(g, F, S), NEW s \in SUBSET S
  PROVE  g[s] = IF s = {} THEN 0 ELSE F[Pick(s)] + g[s \ {Pick(s)}]
BY Zenon DEF Sums

\* An entry of a table, but the first.
LEMMA ValueRest ==
  ASSUME NEW F, NEW S, NEW g, Sums(g, F, S), NEW s \in SUBSET S, s # {}
  PROVE  g[s] = F[Pick(s)] + g[s \ {Pick(s)}]
<1>1. g[s] = IF s = {} THEN 0 ELSE F[Pick(s)] + g[s \ {Pick(s)}]
  BY Value
<1> QED BY <1>1

\* Two tables agree where both have entries.
LEMMA Agree ==
  ASSUME NEW F, NEW S, NEW R, IsFiniteSet(S), NEW g, NEW h, Sums(g, F, S), Sums(h, F, R)
  PROVE  \A s \in SUBSET (S \cap R) : g[s] = h[s]
<1> DEFINE T == {s \in SUBSET (S \cap R) : g[s] # h[s]}
<1>1. CASE T = {}
  BY <1>1
<1>2. CASE T # {}
  <2>1. PICK s \in T : \A y \in T : y \subseteq s => y = s
    <3>1. T \in SUBSET (SUBSET S)
      OBVIOUS
    <3> HIDE DEF T
    <3> QED BY <3>1, <1>2, Minimal
  <2>2. s \in SUBSET S /\ s \in SUBSET R /\ g[s] # h[s]
    BY <2>1
  <2>3. s # {}
    BY <2>2, Value
  <2>4. Pick(s) \in s
    BY <2>3, PickIn
  <2>5. s \ {Pick(s)} \notin T
    BY <2>1, <2>4
  <2>6. g[s \ {Pick(s)}] = h[s \ {Pick(s)}]
    BY <2>5, <2>2
  <2> QED BY <2>2, <2>3, <2>6, Value
<1> QED BY <1>1, <1>2

\* Every finite set has a table, made of those of its proper subsets.
LEMMA TableExists ==
  ASSUME NEW F, NEW S, IsFiniteSet(S)
  PROVE  \E g : Sums(g, F, S)
<1> DEFINE T == {s \in SUBSET S : ~ \E g : Sums(g, F, s)}
<1>1. CASE T = {}
  <2>1. S \notin T BY <1>1
  <2> QED BY <2>1
<1>2. CASE T # {}
  <2>1. PICK s \in T : \A y \in T : y \subseteq s => y = s
    <3>1. T \in SUBSET (SUBSET S)
      OBVIOUS
    <3> HIDE DEF T
    <3> QED BY <3>1, <1>2, Minimal
  <2> DEFINE G == [u \in SUBSET s |-> CHOOSE g : Sums(g, F, u)]
             h == [u \in SUBSET s |-> IF u = {} THEN 0
                                      ELSE F[Pick(u)] + G[u \ {Pick(u)}][u \ {Pick(u)}]]
  <2>2. \A u \in SUBSET s : u # s => Sums(G[u], F, u)
    BY <2>1
  <2>3. \A u \in SUBSET s : u # {} => u \ {Pick(u)} \in SUBSET s /\ u \ {Pick(u)} # s
    BY PickIn
  <2>4. ASSUME NEW u \in SUBSET s, u # s
        PROVE  h[u] = G[u][u]
    <3>1. CASE u = {}
      <4>1. Sums(G[u], F, u) BY <2>2, <2>4
      <4>2. h[u] = 0 BY <3>1
      <4> HIDE DEF G, h
      <4> QED BY <4>1, <4>2, <3>1, Value
    <3>2. CASE u # {}
      <4> DEFINE v == u \ {Pick(u)}
      <4>1. v \in SUBSET s /\ v # s /\ v \in SUBSET u
        BY <2>3, <3>2
      <4>2. Sums(G[u], F, u) /\ Sums(G[v], F, v)
        BY <4>1, <2>2, <2>4
      <4>3. G[u][v] = G[v][v]
        <5>1. IsFiniteSet(u) BY FS_Subset
        <5>2. v \in SUBSET (u \cap v) BY <4>1
        <5> DEFINE a == G[u]
                   b == G[v]
        <5>3. Sums(a, F, u) /\ Sums(b, F, v)
          BY <4>2
        <5> HIDE DEF a, b, v
        <5>4. a[v] = b[v]
          BY <5>3, <5>1, <5>2, Agree
        <5> QED BY <5>4 DEF a, b
      <4>4. G[u][u] = F[Pick(u)] + G[u][v]
        <5> HIDE DEF G
        <5> QED BY <4>2, <3>2, Value
      <4>5. h[u] = F[Pick(u)] + G[v][v]
        <5> HIDE DEF G
        <5> QED BY <3>2
      <4> QED BY <4>3, <4>4, <4>5
    <3> QED BY <3>1, <3>2
  <2>5. Sums(h, F, s)
    <3> HIDE DEF G
    <3>1. \A u \in SUBSET s : u # {} => h[u \ {Pick(u)}] = G[u \ {Pick(u)}][u \ {Pick(u)}]
      <4> HIDE DEF h
      <4> QED BY <2>3, <2>4
    <3>2. \A u \in SUBSET s : (IF u = {} THEN 0
                                      ELSE F[Pick(u)] + G[u \ {Pick(u)}][u \ {Pick(u)}]) = 
                              (IF u = {} THEN 0 ELSE F[Pick(u)] + h[u \ {Pick(u)}])
      <4> HIDE DEF h
      <4> QED BY <3>1
    <3> QED BY <3>2 DEF Sums
  <2> QED BY <2>5, <2>1
<1> QED BY <1>1, <1>2

\* The sum is what any table gives.
LEMMA TheSum ==
  ASSUME NEW F, NEW S, NEW R, IsFiniteSet(S), IsFiniteSet(R), R \subseteq S, NEW g, Sums(g, F, S)
  PROVE  SumFunctionOnSet(F, R) = g[R]
<1>1. PICK h : Sums(h, F, R) /\ SumFunctionOnSet(F, R) = h[R]
  BY TableExists, ChosenTable
<1>2. R \in SUBSET (S \cap R)
  OBVIOUS
<1>3. g[R] = h[R]
  BY <1>1, <1>2, Agree
<1> QED BY <1>1, <1>3

\* Nothing adds up to 0.
LEMMA SumOfNone ==
  ASSUME NEW F
  PROVE  SumFunctionOnSet(F, {}) = 0
<1>1. IsFiniteSet({})
  BY FS_EmptySet
<1>2. PICK h : Sums(h, F, {}) /\ SumFunctionOnSet(F, {}) = h[{}]
  BY <1>1, TableExists, ChosenTable
<1> QED BY <1>2, Value

\* The entries of a table of integers are integers ...
LEMMA TableTyped ==
  ASSUME NEW F, NEW S, IsFiniteSet(S), \A x \in S : F[x] \in Int, NEW g, Sums(g, F, S)
  PROVE  \A s \in SUBSET S : g[s] \in Int
<1> DEFINE T == {s \in SUBSET S : g[s] \notin Int}
<1>1. CASE T = {}
  BY <1>1
<1>2. CASE T # {}
  <2>1. PICK s \in T : \A y \in T : y \subseteq s => y = s
    <3>1. T \in SUBSET (SUBSET S)
      OBVIOUS
    <3> HIDE DEF T
    <3> QED BY <3>1, <1>2, Minimal
  <2>2. s \in SUBSET S /\ g[s] \notin Int
    BY <2>1
  <2>3. s # {}
    <3>1. g[{}] = 0
      BY Zenon, Value
    <3> QED BY <3>1, <2>2
  <2>4. Pick(s) \in s
    BY <2>3, PickIn
  <2>5. s \ {Pick(s)} \notin T
    BY <2>1, <2>4
  <2>6. g[s \ {Pick(s)}] \in Int /\ F[Pick(s)] \in Int
    BY <2>2, <2>4, <2>5
  <2>7. g[s] = F[Pick(s)] + g[s \ {Pick(s)}]
    BY ONLY Sums(g, F, S), <2>2, <2>3, ValueRest
  <2> QED BY <2>2, <2>6, <2>7
<1> QED BY <1>1, <1>2

\* ... and so are sums.
LEMMA SumIsInt ==
  ASSUME NEW F, NEW S, IsFiniteSet(S), \A x \in S : F[x] \in Int
  PROVE  SumFunctionOnSet(F, S) \in Int
<1>1. PICK g : Sums(g, F, S)
  BY TableExists
<1> QED BY <1>1, TableTyped, TheSum

\* The order does not matter: any element may be taken first.
LEMMA AnyFirst ==
  ASSUME NEW F, NEW S, IsFiniteSet(S), \A x \in S : F[x] \in Int, NEW g, Sums(g, F, S)
  PROVE  \A s \in SUBSET S : \A x \in s : g[s] = F[x] + g[s \ {x}]
<1> DEFINE T == {s \in SUBSET S : \E x \in s : g[s] # F[x] + g[s \ {x}]}
<1>1. CASE T = {}
  BY <1>1
<1>2. CASE T # {}
  <2>1. PICK s \in T : \A y \in T : y \subseteq s => y = s
    <3>1. T \in SUBSET (SUBSET S)
      OBVIOUS
    <3> HIDE DEF T
    <3> QED BY <3>1, <1>2, Minimal
  <2>2. s \in SUBSET S
    BY <2>1
  <2>3. PICK x \in s : g[s] # F[x] + g[s \ {x}]
    BY <2>1
  <2> DEFINE p == Pick(s)
             q == s \ {p}
             r == s \ {x}
  <2>4. p \in s
    BY <2>3, PickIn
  <2>5. g[s] = F[p] + g[q]
    <3>1. s # {}
      BY <2>3
    <3> QED BY ONLY Sums(g, F, S), <2>2, <3>1, ValueRest
  <2>6. x # p
    BY <2>3, <2>5
  <2>7. q \notin T /\ r \notin T /\ q \in SUBSET S /\ r \in SUBSET S
    BY <2>1, <2>4, <2>3
  <2>8. g[q] = F[x] + g[q \ {x}] /\ g[r] = F[p] + g[r \ {p}]
    BY <2>7, <2>6, <2>4, <2>3
  <2>9. q \ {x} = r \ {p}
    OBVIOUS
  <2>10. F[x] \in Int /\ F[p] \in Int /\ g[q \ {x}] \in Int
    BY <2>2, <2>3, <2>4, TableTyped
  <2>11. \A a, b, c \in Int : a + (b + c) = b + (a + c)
    OBVIOUS
  <2>12. g[s] = F[x] + g[r]
    <3> HIDE DEF p, q, r
    <3>1. g[s] = F[p] + (F[x] + g[q \ {x}])
      BY <2>5, <2>8
    <3>2. g[s] = F[x] + (F[p] + g[q \ {x}])
      BY <3>1, <2>10, <2>11
    <3> QED BY <3>2, <2>8, <2>9
  <2> QED BY <2>3, <2>12
<1> QED BY <1>1, <1>2

\* One element taken out of a sum.
LEMMA SumRemove ==
  ASSUME NEW F, NEW S, IsFiniteSet(S), \A x \in S : F[x] \in Int, NEW k \in S
  PROVE  SumFunctionOnSet(F, S) = F[k] + SumFunctionOnSet(F, S \ {k})
<1>1. PICK g : Sums(g, F, S)
  BY TableExists
<1>2. IsFiniteSet(S \ {k})
  BY FS_Subset
<1>3. g[S] = F[k] + g[S \ {k}]
  BY <1>1, AnyFirst
<1>4. SumFunctionOnSet(F, S) = g[S] /\ SumFunctionOnSet(F, S \ {k}) = g[S \ {k}]
  BY <1>1, <1>2, TheSum
<1> QED BY <1>3, <1>4

\* A sum depends on the values of the elements alone.
LEMMA SumSame ==
  ASSUME NEW F, NEW G, NEW S, IsFiniteSet(S), \A x \in S : F[x] = G[x]
  PROVE  SumFunctionOnSet(F, S) = SumFunctionOnSet(G, S)
<1>1. PICK g : Sums(g, F, S)
  BY TableExists
<1>2. \A s \in SUBSET S : (IF s = {} THEN 0 ELSE F[Pick(s)] + g[s \ {Pick(s)}])
                         = (IF s = {} THEN 0 ELSE G[Pick(s)] + g[s \ {Pick(s)}])
  BY PickIn
<1>3. Sums(g, G, S)
  BY <1>1, <1>2 DEF Sums
<1> QED BY <1>1, <1>3, TheSum

\* Smaller values give a smaller sum.
LEMMA SumMonotone ==
  ASSUME NEW F, NEW G, NEW S, IsFiniteSet(S),
         \A x \in S : F[x] \in Int /\ G[x] \in Int /\ F[x] <= G[x]
  PROVE  SumFunctionOnSet(F, S) <= SumFunctionOnSet(G, S)
<1> DEFINE T == {s \in SUBSET S : ~ (SumFunctionOnSet(F, s) <= SumFunctionOnSet(G, s))}
<1>1. CASE T = {}
  <2>1. S \notin T BY <1>1
  <2> QED BY <2>1
<1>2. CASE T # {}
  <2>1. PICK s \in T : \A y \in T : y \subseteq s => y = s
    <3>1. T \in SUBSET (SUBSET S)
      OBVIOUS
    <3> HIDE DEF T
    <3> QED BY <3>1, <1>2, Minimal
  <2>2. s \in SUBSET S /\ ~ (SumFunctionOnSet(F, s) <= SumFunctionOnSet(G, s))
    BY <2>1
  <2>3. s # {}
    BY <2>2, SumOfNone
  <2>4. PICK k \in s : TRUE
    BY <2>3
  <2>5. IsFiniteSet(s) /\ IsFiniteSet(s \ {k})
    BY <2>2, FS_Subset
  <2>6. s \ {k} \notin T /\ s \ {k} \in SUBSET S
    BY <2>1, <2>4
  <2>7. SumFunctionOnSet(F, s \ {k}) <= SumFunctionOnSet(G, s \ {k})
    BY <2>6
  <2>8. /\ SumFunctionOnSet(F, s) = F[k] + SumFunctionOnSet(F, s \ {k})
        /\ SumFunctionOnSet(G, s) = G[k] + SumFunctionOnSet(G, s \ {k})
    BY <2>2, <2>4, <2>5, SumRemove
  <2>9. /\ SumFunctionOnSet(F, s \ {k}) \in Int /\ SumFunctionOnSet(G, s \ {k}) \in Int
        /\ F[k] \in Int /\ G[k] \in Int /\ F[k] <= G[k]
    BY <2>2, <2>4, <2>5, SumIsInt
  <2> QED BY <2>2, <2>7, <2>8, <2>9
<1> QED BY <1>1, <1>2

\* Values between 0 and b add up to something between 0 and b times their number.
LEMMA SumBounded ==
  ASSUME NEW F, NEW S, IsFiniteSet(S), NEW b \in Nat, \A x \in S : F[x] \in 0 .. b
  PROVE  SumFunctionOnSet(F, S) \in 0 .. b * Cardinality(S)
<1> DEFINE T == {s \in SUBSET S : SumFunctionOnSet(F, s) \notin 0 .. b * Cardinality(s)}
<1>1. CASE T = {}
  <2>1. S \notin T BY <1>1
  <2> QED BY <2>1
<1>2. CASE T # {}
  <2>1. PICK s \in T : \A y \in T : y \subseteq s => y = s
    <3>1. T \in SUBSET (SUBSET S)
      OBVIOUS
    <3> HIDE DEF T
    <3> QED BY <3>1, <1>2, Minimal
  <2>2. s \in SUBSET S /\ SumFunctionOnSet(F, s) \notin 0 .. b * Cardinality(s)
    BY <2>1
  <2>3. s # {}
    <3>1. SumFunctionOnSet(F, {}) = 0 /\ Cardinality({}) = 0
      BY SumOfNone, FS_EmptySet
    <3>2. 0 \in 0 .. b * 0
      OBVIOUS
    <3> QED BY <2>2, <3>1, <3>2
  <2>4. PICK k \in s : TRUE
    BY <2>3
  <2>5. IsFiniteSet(s) /\ IsFiniteSet(s \ {k})
    BY <2>2, FS_Subset
  <2>6. s \ {k} \notin T /\ s \ {k} \in SUBSET S
    BY <2>1, <2>4
  <2>7. SumFunctionOnSet(F, s \ {k}) \in 0 .. b * Cardinality(s \ {k})
    BY <2>6
  <2>8. SumFunctionOnSet(F, s) = F[k] + SumFunctionOnSet(F, s \ {k})
    <3>1. \A x \in s : F[x] \in Int
      BY <2>2
    <3> QED BY <2>4, <2>5, <3>1, SumRemove
  <2>9. Cardinality(s \ {k}) = Cardinality(s) - 1 /\ Cardinality(s) \in Nat
        /\ Cardinality(s \ {k}) \in Nat
    BY <2>4, <2>5, FS_RemoveElement, FS_CardinalityType
  <2>10. F[k] \in 0 .. b
    BY <2>2, <2>4
  <2>11. \A c \in Nat, x \in 0 .. b : \A y \in 0 .. b * c : x + y \in 0 .. b * (c + 1)
    <3> SUFFICES ASSUME NEW c \in Nat, NEW x \in 0 .. b, NEW y \in 0 .. b * c
                 PROVE  x + y \in 0 .. b * (c + 1)
      OBVIOUS
    <3>1. b * (c + 1) = b * c + b /\ b * c \in Nat
      OBVIOUS
    <3> QED BY <3>1
  <2>12. Cardinality(s) = Cardinality(s \ {k}) + 1
    BY <2>9
  <2> QED BY <2>2, <2>7, <2>8, <2>9, <2>10, <2>11, <2>12
<1> QED BY <1>1, <1>2

-----------------------------------------------------------------------------
(* What FlattenSeq of the community modules makes of any sequence of       *)
(* sequences.  It is a recursive function on the positions.                *)

\* Induction from 1 up to n, with a set in the place of a predicate.
LEMMA CountUp ==
  ASSUME NEW n \in Nat, NEW G, 1 \in G, \A i \in 1 .. n - 1 : i \in G => i + 1 \in G
  PROVE  \A i \in 1 .. n : i \in G
<1> DEFINE T == {i \in 1 .. n : i \notin G}
           D == {1 .. i : i \in T}
<1> SUFFICES ASSUME T # {} PROVE FALSE
  OBVIOUS
<1>1. PICK x \in D : \A y \in D : y \subseteq x => y = x
  <2>1. IsFiniteSet(1 .. n)
    BY FS_Interval
  <2>2. D \in SUBSET (SUBSET (1 .. n)) /\ D # {}
    OBVIOUS
  <2> DEFINE N == 1 .. n
  <2> HIDE DEF D, N
  <2>3. IsFiniteSet(N) /\ D \in SUBSET (SUBSET N) /\ D # {}
    BY <2>1, <2>2 DEF N
  <2> QED BY ONLY <2>3, Minimal
<1>2. PICK i \in T : x = 1 .. i
  OBVIOUS
<1>3. i \in 1 .. n /\ i \notin G /\ i # 1
  BY <1>2
<1>4. i - 1 \in 1 .. n - 1 /\ i - 1 + 1 = i
  BY <1>3
<1>5. i - 1 \in T
  BY <1>3, <1>4
<1>6. 1 .. i - 1 \in D /\ 1 .. i - 1 \subseteq x /\ 1 .. i - 1 # x
  <2>1. 1 .. i - 1 \in D
    BY <1>5
  <2>2. 1 .. i - 1 \subseteq 1 .. i /\ i \in 1 .. i /\ i \notin 1 .. i - 1
    BY <1>3
  <2> QED BY <1>2, <2>1, <2>2
<1> QED BY <1>1, <1>6

\* g is the table of what the first n sequences of s come to, one after the other.
Joins(g, s, n) == g = [i \in 1 .. n |-> IF i = 1 THEN s[i] ELSE g[i - 1] \o s[i]]

\* If there is a table, the flattened sequence is its last entry.
LEMMA ChosenJoin ==
  ASSUME NEW s, Len(s) # 0, \E g : Joins(g, s, Len(s))
  PROVE  \E g : Joins(g, s, Len(s)) /\ FlattenSeq(s) = g[Len(s)]
BY Zenon DEF FlattenSeq, Joins

\* The entries of a table.
LEMMA JoinEntries ==
  ASSUME NEW s, NEW n \in Nat \ {0}, NEW g, Joins(g, s, n)
  PROVE  /\ g[1] = s[1]
         /\ \A i \in 1 .. n : i # 1 => g[i] = g[i - 1] \o s[i]
<1>1. \A i \in 1 .. n : g[i] = IF i = 1 THEN s[i] ELSE g[i - 1] \o s[i]
  BY Zenon DEF Joins
<1>2. 1 \in 1 .. n
  OBVIOUS
<1>3. g[1] = s[1]
  BY <1>1, <1>2, Zenon
<1>4. \A i \in 1 .. n : i # 1 => g[i] = g[i - 1] \o s[i]
  BY <1>1, Zenon
<1> QED BY <1>3, <1>4

\* What has such entries is a table.
LEMMA JoinMade ==
  ASSUME NEW s, NEW n \in Nat \ {0}, NEW g,
         g = [i \in 1 .. n |-> g[i]], g[1] = s[1],
         \A i \in 1 .. n : i # 1 => g[i] = g[i - 1] \o s[i]
  PROVE  Joins(g, s, n)
<1>1. \A i \in 1 .. n : g[i] = IF i = 1 THEN s[i] ELSE g[i - 1] \o s[i]
  BY Zenon
<1>2. [i \in 1 .. n |-> g[i]]
        = [i \in 1 .. n |-> IF i = 1 THEN s[i] ELSE g[i - 1] \o s[i]]
  BY <1>1, Zenon
<1> QED BY <1>2, Zenon DEF Joins

LEMMA JoinExists ==
  ASSUME NEW s, NEW n \in Nat \ {0}
  PROVE  \E g : Joins(g, s, n)
<1> DEFINE G == {k \in Nat : \E g : Joins(g, s, k)}
<1>1. 1 \in G
  <2> DEFINE g == [i \in 1 .. 1 |-> s[i]]
  <2>1. g = [i \in 1 .. 1 |-> g[i]] /\ g[1] = s[1]
        /\ \A i \in 1 .. 1 : i # 1 => g[i] = g[i - 1] \o s[i]
    OBVIOUS
  <2> HIDE DEF g
  <2>2. 1 \in Nat \ {0}
    OBVIOUS
  <2>3. Joins(g, s, 1)
    BY ONLY <2>1, <2>2, JoinMade, Zenon
  <2> QED BY <2>3
<1>2. ASSUME NEW k \in 1 .. n - 1, k \in G
      PROVE  k + 1 \in G
  <2>1. PICK g : Joins(g, s, k)
    BY <1>2
  <2>0. k >= 1 /\ k \in Nat /\ 1 \in 1 .. k /\ k \in Nat \ {0} /\ k + 1 \in Nat \ {0}
    OBVIOUS
  <2>2. g[1] = s[1] /\ \A i \in 1 .. k : i # 1 => g[i] = g[i - 1] \o s[i]
    BY ONLY <2>0, <2>1, JoinEntries, ZenonT(60)
  <2> DEFINE h == [i \in 1 .. k + 1 |-> IF i = k + 1 THEN g[k] \o s[k + 1] ELSE g[i]]
  <2>3. /\ h = [i \in 1 .. k + 1 |-> h[i]] /\ \A i \in 1 .. k : h[i] = g[i]
        /\ h[k + 1] = g[k] \o s[k + 1]
    <3>1. k + 1 \in 1 .. k + 1 /\ \A i \in 1 .. k : i \in 1 .. k + 1 /\ i # k + 1
      BY ONLY <2>0
    <3> QED BY ONLY <3>1
  <2> HIDE DEF h
  <2>4. h[1] = s[1]
    BY ONLY <2>0, <2>2, <2>3
  <2>5. ASSUME NEW i \in 1 .. k + 1, i # 1
        PROVE  h[i] = h[i - 1] \o s[i]
    <3>1. CASE i = k + 1
      <4>1. i - 1 = k /\ k \in 1 .. k
        BY ONLY <2>0, <3>1
      <4>2. h[k] = g[k]
        BY <2>3, <4>1
      <4> QED BY ONLY <2>3, <3>1, <4>1, <4>2
    <3>2. CASE i # k + 1
      <4>0. i \in 1 .. k + 1 /\ i # 1
        BY <2>5
      <4>1. i \in 1 .. k /\ i - 1 \in 1 .. k
        BY ONLY <2>0, <4>0, <3>2
      <4> QED BY ONLY <2>2, <2>3, <4>0, <4>1
    <3> QED BY <3>1, <3>2
  <2>6. Joins(h, s, k + 1)
    BY ONLY <2>0, <2>3, <2>4, <2>5, JoinMade
  <2> QED BY <2>0, <2>6
<1> HIDE DEF G
<1>3. n \in G
  BY <1>1, <1>2, CountUp
<1> QED BY <1>3 DEF G

\* FlattenSeq of the empty sequence, and how it is made of any other.
LEMMA FlattenNone == FlattenSeq(<<>>) = <<>>
BY DEF FlattenSeq

LEMMA FlattenChain ==
  ASSUME NEW S, NEW s \in Seq(S), s # <<>>
  PROVE  \E g : /\ g[1] = s[1]
                /\ \A i \in 1 .. Len(s) - 1 : g[i + 1] = g[i] \o s[i + 1]
                /\ FlattenSeq(s) = g[Len(s)]
<1>1. Len(s) \in Nat \ {0}
  OBVIOUS
<1>2. PICK g : Joins(g, s, Len(s)) /\ FlattenSeq(s) = g[Len(s)]
  BY <1>1, JoinExists, ChosenJoin
<1>3. g[1] = s[1] /\ \A i \in 1 .. Len(s) : i # 1 => g[i] = g[i - 1] \o s[i]
  <2> DEFINE n == Len(s)
  <2> HIDE DEF n
  <2>2. n \in Nat \ {0} /\ Joins(g, s, n)
    BY <1>1, <1>2 DEF n
  <2>3. g[1] = s[1] /\ \A i \in 1 .. n : i # 1 => g[i] = g[i - 1] \o s[i]
    BY ONLY <2>2, JoinEntries, Zenon
  <2> QED BY <2>3 DEF n
<1>4. ASSUME NEW i \in 1 .. Len(s) - 1
      PROVE  g[i + 1] = g[i] \o s[i + 1]
  <2>1. PICK k \in 1 .. Len(s) : k = i + 1 /\ k # 1 /\ k - 1 = i
    BY <1>1
  <2>2. g[k] = g[k - 1] \o s[k]
    BY ONLY <1>3, <2>1, Zenon
  <2> QED BY ONLY <2>1, <2>2
<1> QED BY <1>2, <1>3, <1>4

\* What holds of the first sequence, and stays when the next is appended, holds
\* of the whole: J has, for each position, what may come of the sequences so far.
LEMMA FlattenInduction ==
  ASSUME NEW S, NEW s \in Seq(S), s # <<>>, NEW J,
         s[1] \in J[1],
         \A i \in 1 .. Len(s) - 1 : \A q \in J[i] : q \o s[i + 1] \in J[i + 1]
  PROVE  FlattenSeq(s) \in J[Len(s)]
<1>1. PICK g : /\ g[1] = s[1]
               /\ \A i \in 1 .. Len(s) - 1 : g[i + 1] = g[i] \o s[i + 1]
               /\ FlattenSeq(s) = g[Len(s)]
  BY FlattenChain
<1> DEFINE n == Len(s)
           G == {i \in 1 .. n : g[i] \in J[i]}
<1>2. n \in Nat /\ 1 \in 1 .. n /\ n \in 1 .. n
  OBVIOUS
<1>3. 1 \in G
  BY <1>1, <1>2
<1>4. ASSUME NEW i \in 1 .. n - 1, i \in G
      PROVE  i + 1 \in G
  <2>1. g[i] \in J[i] /\ g[i + 1] = g[i] \o s[i + 1]
    BY <1>1, <1>4
  <2>2. g[i + 1] \in J[i + 1]
    BY <2>1
  <2>3. i + 1 \in 1 .. n
    BY <1>2
  <2> QED BY <2>2, <2>3
<1>5. \A i \in 1 .. n : i \in G
  <2> HIDE DEF n, G
  <2> QED BY ONLY <1>2, <1>3, <1>4, CountUp
<1>6. g[n] \in J[n]
  BY <1>2, <1>5
<1> QED BY <1>1, <1>6

\* The elements of two sequences one after the other.
LEMMA ToSetConcat ==
  ASSUME NEW S, NEW p \in Seq(S), NEW q \in Seq(S)
  PROVE  ToSet(p \o q) = ToSet(p) \cup ToSet(q)
<1>1. /\ Len(p) \in Nat /\ Len(q) \in Nat /\ Len(p \o q) = Len(p) + Len(q)
      /\ p \o q \in Seq(S)
      /\ \A i \in 1 .. Len(p) + Len(q) :
           (p \o q)[i] = IF i <= Len(p) THEN p[i] ELSE q[i - Len(p)]
  BY ConcatProperties
<1>2. ToSet(p) = {p[i] : i \in 1 .. Len(p)} /\ ToSet(q) = {q[i] : i \in 1 .. Len(q)}
      /\ ToSet(p \o q) = {(p \o q)[i] : i \in 1 .. Len(p) + Len(q)}
  BY <1>1 DEF ToSet
<1>3. ASSUME NEW i \in 1 .. Len(p)
      PROVE  p[i] \in ToSet(p \o q)
  <2>1. i \in 1 .. Len(p) + Len(q) /\ i <= Len(p)
    BY <1>1
  <2>2. (p \o q)[i] = p[i]
    BY <1>1, <2>1
  <2> QED BY <1>2, <2>1, <2>2
<1>4. ASSUME NEW i \in 1 .. Len(q)
      PROVE  q[i] \in ToSet(p \o q)
  <2>1. PICK k \in 1 .. Len(p) + Len(q) : k = Len(p) + i /\ ~(k <= Len(p)) /\ k - Len(p) = i
    BY <1>1
  <2>2. (p \o q)[k] = q[i]
    BY <1>1, <2>1
  <2> QED BY <1>2, <2>2
<1>5. ASSUME NEW i \in 1 .. Len(p) + Len(q)
      PROVE  (p \o q)[i] \in ToSet(p) \cup ToSet(q)
  <2>1. CASE i <= Len(p)
    <3>1. i \in 1 .. Len(p) /\ (p \o q)[i] = p[i]
      BY <1>1, <2>1
    <3> QED BY <1>2, <3>1
  <2>2. CASE ~(i <= Len(p))
    <3>1. i - Len(p) \in 1 .. Len(q) /\ (p \o q)[i] = q[i - Len(p)]
      BY <1>1, <2>2
    <3> QED BY <1>2, <3>1
  <2> QED BY <2>1, <2>2
<1> QED BY <1>2, <1>3, <1>4, <1>5

\* A flattened sequence has the elements of its parts.
LEMMA FlattenElements ==
  ASSUME NEW S, NEW s \in Seq(Seq(S))
  PROVE  /\ FlattenSeq(s) \in Seq(S)
         /\ ToSet(FlattenSeq(s)) = UNION {ToSet(s[i]) : i \in 1 .. Len(s)}
<1>1. CASE s = <<>>
  <2>1. FlattenSeq(s) = <<>> /\ 1 .. Len(s) = {}
    BY <1>1, FlattenNone
  <2>2. ToSet(<<>>) = {}
    BY DEF ToSet
  <2> QED BY <2>1, <2>2
<1>2. CASE s # <<>>
  <2> DEFINE n == Len(s)
             Upto(i) == UNION {ToSet(s[k]) : k \in 1 .. i}
             J == [i \in 1 .. n |-> {q \in Seq(S) : ToSet(q) = Upto(i)}]
  <2>1. n \in Nat /\ 1 \in 1 .. n /\ n \in 1 .. n /\ \A i \in 1 .. n : s[i] \in Seq(S)
    BY <1>2
  <2>2. s[1] \in J[1]
    <3>1. Upto(1) = ToSet(s[1])
      BY <2>1
    <3> QED BY <2>1, <3>1
  <2>3. ASSUME NEW i \in 1 .. n - 1, NEW q \in J[i]
        PROVE  q \o s[i + 1] \in J[i + 1]
    <3>1. i \in 1 .. n /\ i + 1 \in 1 .. n
      BY <2>1
    <3>2. q \in Seq(S) /\ ToSet(q) = Upto(i) /\ s[i + 1] \in Seq(S)
      BY <2>1, <3>1
    <3>3. q \o s[i + 1] \in Seq(S)
      BY <3>2
    <3>4. Upto(i + 1) = Upto(i) \cup ToSet(s[i + 1])
      <4>1. 1 .. i + 1 = (1 .. i) \cup {i + 1}
        BY <2>1, <3>1
      <4> QED BY <4>1
    <3>5. ToSet(q \o s[i + 1]) = Upto(i + 1)
      <4> DEFINE r == s[i + 1]
      <4>1. r \in Seq(S)
        BY <3>2
      <4> HIDE DEF Upto, r
      <4>2. ToSet(q \o r) = ToSet(q) \cup ToSet(r)
        BY ONLY <3>2, <4>1, ToSetConcat
      <4> USE DEF r
      <4> QED BY <3>2, <3>4, <4>2
    <3> QED BY <3>1, <3>3, <3>5
  <2>4. FlattenSeq(s) \in J[n]
    <3> HIDE DEF J
    <3>1. s \in Seq(Seq(S)) /\ s # <<>> /\ s[1] \in J[1]
          /\ \A i \in 1 .. Len(s) - 1 : \A q \in J[i] : q \o s[i + 1] \in J[i + 1]
      BY <1>2, <2>2, <2>3
    <3> QED BY ONLY <3>1, FlattenInduction
  <2> QED BY <2>1, <2>4
<1> QED BY <1>1, <1>2

\* f of every element.
Mapped(f, q) == [k \in DOMAIN q |-> f[q[k]]]

LEMMA MapTyped ==
  ASSUME NEW S, NEW p \in Seq(S), NEW f
  PROVE  Mapped(f, p) \in Seq({f[x] : x \in S}) /\ Len(Mapped(f, p)) = Len(p)
BY DEF Mapped

LEMMA MapConcat ==
  ASSUME NEW S, NEW p \in Seq(S), NEW q \in Seq(S), NEW f
  PROVE  Mapped(f, p \o q) = Mapped(f, p) \o Mapped(f, q)
<1> DEFINE V == {f[x] : x \in S}
           a == Mapped(f, p)
           b == Mapped(f, q)
           c == p \o q
<1>1. /\ Len(p) \in Nat /\ Len(q) \in Nat /\ DOMAIN p = 1 .. Len(p)
      /\ DOMAIN q = 1 .. Len(q)
      /\ \A i \in 1 .. Len(p) : p[i] \in S
      /\ \A i \in 1 .. Len(q) : q[i] \in S
  OBVIOUS
<1>2. a \in Seq(V) /\ Len(a) = Len(p) /\ \A i \in 1 .. Len(p) : a[i] = f[p[i]]
  BY <1>1 DEF Mapped
<1>3. b \in Seq(V) /\ Len(b) = Len(q) /\ \A i \in 1 .. Len(q) : b[i] = f[q[i]]
  BY <1>1 DEF Mapped
<1>4. /\ c \in Seq(S) /\ Len(c) = Len(p) + Len(q) /\ DOMAIN c = 1 .. Len(p) + Len(q)
      /\ \A i \in 1 .. Len(p) + Len(q) :
           c[i] = IF i <= Len(p) THEN p[i] ELSE q[i - Len(p)]
  BY ConcatProperties
<1>5. Mapped(f, c) = [i \in 1 .. Len(p) + Len(q) |-> f[c[i]]]
  BY <1>4 DEF Mapped
<1>6. /\ a \o b = [i \in 1 .. Len(p) + Len(q) |-> (a \o b)[i]]
      /\ \A i \in 1 .. Len(p) + Len(q) :
           (a \o b)[i] = IF i <= Len(p) THEN a[i] ELSE b[i - Len(p)]
  <2> HIDE DEF a, b, V
  <2>1. /\ a \o b \in Seq(V) /\ Len(a \o b) = Len(a) + Len(b)
        /\ \A i \in 1 .. Len(a) + Len(b) :
             (a \o b)[i] = IF i <= Len(a) THEN a[i] ELSE b[i - Len(a)]
    BY ONLY <1>2, <1>3, ConcatProperties, ZenonT(60)
  <2> DEFINE d == a \o b
  <2>2. d \in Seq(V) /\ Len(d) = Len(p) + Len(q)
    BY ONLY <1>2, <1>3, <2>1
  <2> HIDE DEF d
  <2>3. d = [i \in 1 .. Len(p) + Len(q) |-> d[i]]
    BY ONLY <2>2
  <2> USE DEF d
  <2> QED BY ONLY <1>2, <1>3, <2>1, <2>3
<1>7. ASSUME NEW i \in 1 .. Len(p) + Len(q)
      PROVE  f[c[i]] = (a \o b)[i]
  <2> HIDE DEF a, b, c, V
  <2>1. CASE i <= Len(p)
    <3>1. i \in 1 .. Len(p)
      BY ONLY <1>1, <2>1, i \in 1 .. Len(p) + Len(q)
    <3> QED BY ONLY <1>2, <1>4, <1>6, <2>1, <3>1, i \in 1 .. Len(p) + Len(q)
  <2>2. CASE ~(i <= Len(p))
    <3>1. i - Len(p) \in 1 .. Len(q)
      BY ONLY <1>1, <2>2, i \in 1 .. Len(p) + Len(q)
    <3> QED BY ONLY <1>3, <1>4, <1>6, <2>2, <3>1, i \in 1 .. Len(p) + Len(q)
  <2> QED BY <2>1, <2>2
<1>8. Mapped(f, c) = a \o b
  <2> HIDE DEF a, b, c
  <2> QED BY <1>5, <1>6, <1>7
<1> QED BY <1>8

\* Mapping the parts and flattening is flattening and mapping the whole.
LEMMA FlattenMapped ==
  ASSUME NEW S, NEW s \in Seq(Seq(S)), NEW f
  PROVE  FlattenSeq([i \in DOMAIN s |-> Mapped(f, s[i])]) = Mapped(f, FlattenSeq(s))
<1> DEFINE n == Len(s)
           t == [i \in DOMAIN s |-> Mapped(f, s[i])]
<1>1. CASE s = <<>>
  <2>1. t = <<>> /\ Mapped(f, <<>>) = <<>>
    BY <1>1 DEF Mapped
  <2> QED BY <1>1, <2>1, FlattenNone
<1>2. CASE s # <<>>
  <2> DEFINE V == {f[x] : x \in S}
  <2>1. /\ n \in Nat /\ 1 \in 1 .. n /\ n \in 1 .. n /\ \A i \in 1 .. n : s[i] \in Seq(S)
        /\ DOMAIN s = 1 .. n
    BY <1>2
  <2>2. \A i \in 1 .. n : t[i] = Mapped(f, s[i]) /\ Mapped(f, s[i]) \in Seq(V)
    BY <2>1, MapTyped
  <2>3. t \in Seq(Seq(V)) /\ Len(t) = n /\ t # <<>>
    BY <2>1, <2>2
  <2>4. PICK g : /\ g[1] = s[1]
                 /\ \A i \in 1 .. n - 1 : g[i + 1] = g[i] \o s[i + 1]
                 /\ FlattenSeq(s) = g[n]
    BY <1>2, FlattenChain
  <2> DEFINE J == [i \in 1 .. n |-> {q \in {Mapped(f, g[i])} : g[i] \in Seq(S)}]
  <2>5. t[1] \in J[1]
    BY <2>1, <2>2, <2>4
  <2>6. ASSUME NEW i \in 1 .. n - 1, NEW q \in J[i]
        PROVE  q \o t[i + 1] \in J[i + 1]
    <3>1. i \in 1 .. n /\ i + 1 \in 1 .. n
      BY <2>1
    <3>2. q = Mapped(f, g[i]) /\ g[i] \in Seq(S)
      BY <3>1
    <3>3. s[i + 1] \in Seq(S) /\ t[i + 1] = Mapped(f, s[i + 1])
      BY <2>1, <2>2, <3>1
    <3>4. g[i + 1] = g[i] \o s[i + 1]
      BY <2>4
    <3>5. g[i + 1] \in Seq(S)
      BY <3>2, <3>3, <3>4
    <3>6. Mapped(f, g[i + 1]) = q \o t[i + 1]
      <4> DEFINE r == s[i + 1]
                 p == g[i]
      <4>1. r \in Seq(S) /\ p \in Seq(S)
        BY <3>2, <3>3
      <4> HIDE DEF r, p
      <4>2. Mapped(f, p \o r) = Mapped(f, p) \o Mapped(f, r)
        BY ONLY <4>1, MapConcat
      <4> USE DEF r, p
      <4> HIDE DEF t
      <4> QED BY <3>2, <3>3, <3>4, <4>2
    <3>7. J[i + 1] = {x \in {Mapped(f, g[i + 1])} : g[i + 1] \in Seq(S)}
      BY <3>1
    <3> HIDE DEF J, t
    <3> QED BY <3>5, <3>6, <3>7
  <2>7. FlattenSeq(t) \in J[n]
    <3> HIDE DEF J, t
    <3>1. t \in Seq(Seq(V)) /\ t # <<>> /\ t[1] \in J[1]
          /\ \A i \in 1 .. Len(t) - 1 : \A q \in J[i] : q \o t[i + 1] \in J[i + 1]
      BY <2>3, <2>5, <2>6
    <3>2. FlattenSeq(t) \in J[Len(t)]
      <4> HIDE DEF V
      <4> QED BY ONLY <3>1, FlattenInduction
    <3> QED BY <2>3, <3>2
  <2>8. FlattenSeq(t) = Mapped(f, g[n])
    BY <2>1, <2>7
  <2> QED BY <2>4, <2>8
<1> QED BY <1>1, <1>2

-----------------------------------------------------------------------------
(* The sums of sequences: what SumFunction makes of one after another.     *)

\* One more position.
LEMMA SumUpTo ==
  ASSUME NEW F, NEW n \in Nat \ {0}, \A i \in 1 .. n : F[i] \in Int
  PROVE  SumFunctionOnSet(F, 1 .. n) = SumFunctionOnSet(F, 1 .. n - 1) + F[n]
<1> DEFINE N == 1 .. n
           M == 1 .. n - 1
           R == N \ {n}
<1>1. IsFiniteSet(N) /\ n \in N /\ R = M /\ \A i \in N : F[i] \in Int
  <2>1. IsFiniteSet(1 .. n)
    BY FS_Interval
  <2> QED BY <2>1
<1>2. IsFiniteSet(M) /\ \A i \in M : F[i] \in Int
  <2>1. IsFiniteSet(1 .. n - 1)
    BY FS_Interval
  <2> QED BY <2>1
<1> HIDE DEF M, N
<1>3. SumFunctionOnSet(F, N) = F[n] + SumFunctionOnSet(F, R)
  <2>1. IsFiniteSet(N) /\ n \in N /\ \A i \in N : F[i] \in Int
    BY <1>1
  <2> QED BY ONLY <2>1, SumRemove, ZenonT(60)
<1>4. SumFunctionOnSet(F, M) \in Int
  BY ONLY <1>2, SumIsInt
<1>5. F[n] \in Int
  BY <1>1
<1> HIDE DEF R
<1>6. SumFunctionOnSet(F, N) = SumFunctionOnSet(F, M) + F[n]
  BY <1>1, <1>3, <1>4, <1>5
<1> QED BY <1>6 DEF M, N

\* The sum of a sequence of integers is an integer.
LEMMA SumOfSeq ==
  ASSUME NEW p \in Seq(Int)
  PROVE  SumFunction(p) = SumFunctionOnSet(p, 1 .. Len(p)) /\ SumFunction(p) \in Int
<1>1. Len(p) \in Nat /\ DOMAIN p = 1 .. Len(p) /\ \A i \in 1 .. Len(p) : p[i] \in Int
  OBVIOUS
<1>2. IsFiniteSet(1 .. Len(p))
  BY <1>1, FS_Interval
<1>3. SumFunctionOnSet(p, 1 .. Len(p)) \in Int
  BY <1>1, <1>2, SumIsInt
<1> QED BY <1>1, <1>3 DEF SumFunction

\* The sum of two sequences one after the other.
LEMMA SumConcat ==
  ASSUME NEW p \in Seq(Int), NEW q \in Seq(Int)
  PROVE  p \o q \in Seq(Int) /\ SumFunction(p \o q) = SumFunction(p) + SumFunction(q)
<1> DEFINE m == Len(p)
           n == Len(q)
           c == p \o q
           A(i) == SumFunctionOnSet(c, 1 .. m + i)
           B(i) == SumFunctionOnSet(q, 1 .. i)
           G == {i \in 1 .. n + 1 : A(i - 1) = SumFunction(p) + B(i - 1)}
<1>1. /\ m \in Nat /\ n \in Nat /\ c \in Seq(Int) /\ Len(c) = m + n
      /\ \A i \in 1 .. m + n : c[i] \in Int /\ c[i] = IF i <= m THEN p[i] ELSE q[i - m]
      /\ \A i \in 1 .. n : q[i] \in Int
  BY ConcatProperties
<1>2. SumFunction(p) = SumFunctionOnSet(p, 1 .. m) /\ SumFunction(p) \in Int
  BY SumOfSeq
<1> HIDE DEF m, n, c
<1>3. A(0) = SumFunction(p) + B(0)
  <2>0. (\A i \in 1 .. m : c[i] = p[i]) /\ m + 0 = m
    BY <1>1
  <2>1. IsFiniteSet(1 .. m)
    BY <1>1, FS_Interval
  <2>2. SumFunctionOnSet(c, 1 .. m) = SumFunctionOnSet(p, 1 .. m)
    BY ONLY <2>0, <2>1, SumSame
  <2>3. 1 .. 0 = {}
    OBVIOUS
  <2>4. B(0) = 0
    BY ONLY <2>3, SumOfNone, Zenon
  <2> HIDE DEF B
  <2> QED BY <1>2, <2>0, <2>2, <2>4
<1>4. ASSUME NEW i \in 1 .. n, A(i - 1) = SumFunction(p) + B(i - 1)
      PROVE  A(i) = SumFunction(p) + B(i)
  <2> DEFINE k == m + i
             j == i - 1
  <2>1. /\ i \in Nat \ {0} /\ k \in Nat \ {0} /\ k - 1 = m + j /\ j \in Nat
        /\ \A x \in 1 .. i : q[x] \in Int
        /\ \A x \in 1 .. k : c[x] \in Int
        /\ c[k] = q[i] /\ q[i] \in Int
    BY <1>1
  <2>2. B(j) \in Int
    <3>1. IsFiniteSet(1 .. j) /\ \A x \in 1 .. j : q[x] \in Int
      BY <2>1, FS_Interval
    <3> QED BY <3>1, SumIsInt
  <2> HIDE DEF k, j
  <2>3. SumFunctionOnSet(c, 1 .. k) = SumFunctionOnSet(c, 1 .. k - 1) + c[k]
    BY ONLY <2>1, SumUpTo
  <2>4. SumFunctionOnSet(q, 1 .. i) = SumFunctionOnSet(q, 1 .. i - 1) + q[i]
    BY ONLY <2>1, SumUpTo
  <2>5. A(i) = A(j) + q[i]
    BY ONLY <2>1, <2>3 DEF k
  <2>6. B(i) = B(j) + q[i]
    BY ONLY <2>4 DEF j
  <2>7. A(j) = SumFunction(p) + B(j)
    BY <1>4 DEF j
  <2> HIDE DEF A, B
  <2> QED BY <1>2, <2>1, <2>2, <2>5, <2>6, <2>7
<1> HIDE DEF A, B
<1>5. 1 \in G
  <2>1. 1 \in 1 .. n + 1 /\ 1 - 1 = 0
    BY <1>1
  <2> QED BY <1>3, <2>1
<1>6. \A i \in 1 .. n : i \in G => i + 1 \in G
  <2> SUFFICES ASSUME NEW i \in 1 .. n, i \in G PROVE i + 1 \in G
    OBVIOUS
  <2>1. i + 1 \in 1 .. n + 1 /\ i + 1 - 1 = i
    BY <1>1
  <2> QED BY <1>4, <2>1
<1>7. n + 1 \in G
  <2> DEFINE N == n + 1
  <2>1. N \in Nat /\ N \in 1 .. N /\ N - 1 = n
    BY <1>1
  <2> HIDE DEF N, G
  <2>2. \A i \in 1 .. N : i \in G
    BY ONLY <1>5, <1>6, <2>1, CountUp
  <2>3. N \in G
    BY <2>1, <2>2
  <2> QED BY <2>3 DEF N
<1>8. A(n) = SumFunction(p) + B(n)
  <2>1. n + 1 - 1 = n
    BY <1>1
  <2>2. \A i \in G : A(i - 1) = SumFunction(p) + B(i - 1)
    OBVIOUS
  <2> DEFINE x == n + 1
  <2> HIDE DEF G, x
  <2>3. x \in G /\ x - 1 = n
    <3>1. x - 1 = n
      BY <1>1 DEF x
    <3>2. x \in G
      BY <1>7, Zenon DEF x
    <3> QED BY <3>1, <3>2
  <2>4. A(x - 1) = SumFunction(p) + B(x - 1)
    BY ONLY <2>2, <2>3, Zenon
  <2> QED BY ONLY <2>3, <2>4
<1>9. SumFunction(q) = B(n)
  BY SumOfSeq DEF n, B
<1>10. SumFunction(c) = A(n)
  BY <1>1, SumOfSeq DEF A
<1> QED BY <1>1, <1>8, <1>9, <1>10 DEF c

\* The sum of sequences with equal sums.
LEMMA SumFlatten ==
  ASSUME NEW u \in Int, NEW s \in Seq(Seq(Int)), \A i \in 1 .. Len(s) : SumFunction(s[i]) = u
  PROVE  FlattenSeq(s) \in Seq(Int) /\ SumFunction(FlattenSeq(s)) = u * Len(s)
<1>1. CASE s = <<>>
  <2>1. FlattenSeq(s) = <<>> /\ Len(s) = 0 /\ DOMAIN <<>> = {} /\ <<>> \in Seq(Int)
    BY <1>1, FlattenNone
  <2>2. SumFunction(<<>>) = 0
    BY <2>1, SumOfNone DEF SumFunction
  <2> QED BY <2>1, <2>2
<1>2. CASE s # <<>>
  <2> DEFINE n == Len(s)
             J == [i \in 1 .. n |-> {q \in Seq(Int) : SumFunction(q) = u * i}]
  <2>1. n \in Nat /\ 1 \in 1 .. n /\ n \in 1 .. n /\ \A i \in 1 .. n : s[i] \in Seq(Int)
    BY <1>2
  <2>2. s[1] \in J[1]
    BY <2>1
  <2>3. ASSUME NEW i \in 1 .. n - 1, NEW q \in J[i]
        PROVE  q \o s[i + 1] \in J[i + 1]
    <3>1. i \in 1 .. n /\ i + 1 \in 1 .. n /\ i \in Int
      BY <2>1
    <3>2. q \in Seq(Int) /\ SumFunction(q) = u * i
      BY <3>1
    <3> DEFINE r == s[i + 1]
    <3>3. r \in Seq(Int) /\ SumFunction(r) = u
      BY <2>1, <3>1
    <3> HIDE DEF r, J, n
    <3>4. q \o r \in Seq(Int) /\ SumFunction(q \o r) = SumFunction(q) + SumFunction(r)
      BY ONLY <3>2, <3>3, SumConcat
    <3>5. u * i + u = u * (i + 1)
      BY <3>1
    <3>6. q \o r \in {x \in Seq(Int) : SumFunction(x) = u * (i + 1)}
      BY <3>2, <3>3, <3>4, <3>5
    <3>7. J[i + 1] = {x \in Seq(Int) : SumFunction(x) = u * (i + 1)}
      BY <3>1 DEF J
    <3> QED BY <3>6, <3>7 DEF r
  <2>4. FlattenSeq(s) \in J[n]
    <3> HIDE DEF J
    <3>1. s \in Seq(Seq(Int)) /\ s # <<>> /\ s[1] \in J[1]
          /\ \A i \in 1 .. Len(s) - 1 : \A q \in J[i] : q \o s[i + 1] \in J[i + 1]
      BY <1>2, <2>2, <2>3
    <3> QED BY ONLY <3>1, FlattenInduction
  <2> QED BY <2>1, <2>4
<1> QED BY <1>1, <1>2
=============================================================================
