--------------------------------- MODULE Sums ---------------------------------
(***************************************************************************)
(* Lemmas on least and greatest numbers of a set and on sums over finite   *)
(* sets, as FiniteSetsExt computes them, by induction on the size of a     *)
(* set: for the bytes of logs (DeployLog, DeployRegistry) and of the build *)
(* cache (BuildCache).                                                     *)
(***************************************************************************)
EXTENDS Naturals, FiniteSetsExt, WellFoundedInduction, FiniteSetTheorems, TLAPS

\* A set of numbers that is not empty has a least one.
LEMMA LeastOf ==
    ASSUME NEW S \in SUBSET Nat, S # {}
    PROVE  \E m \in S : \A n \in S : m <= n
<1>1. PICK m \in S : \A n \in S : ~(<<n, m>> \in OpToRel(<, Nat))
  BY WFMin, NatLessThanWellFounded
<1>2. \A n \in S : ~(n < m)
  BY <1>1 DEF OpToRel
<1> QED
  BY <1>2

\* Induction over the finite subsets of S: what holds of a set when it holds of all
\* its smaller ones, G, holds of them all.
LEMMA SmallerFirst ==
    ASSUME NEW S, IsFiniteSet(S), NEW G,
           \A s \in SUBSET S : (\A t \in SUBSET s : t # s => t \in G) => s \in G
    PROVE  \A s \in SUBSET S : s \in G
<1> DEFINE Bad == {s \in SUBSET S : s \notin G}
           Sizes == {Cardinality(s) : s \in Bad}
<1> SUFFICES ASSUME Bad # {} PROVE FALSE
  OBVIOUS
<1>1. \A s \in SUBSET S : IsFiniteSet(s) /\ Cardinality(s) \in Nat
  BY FS_Subset, FS_CardinalityType
<1>2. Sizes \in SUBSET Nat /\ Sizes # {}
  BY <1>1
<1>3. PICK m \in Sizes : \A n \in Sizes : m <= n
  BY <1>2, LeastOf
<1>4. PICK s \in Bad : Cardinality(s) = m
  BY <1>3
<1>5. ASSUME NEW t \in SUBSET s, t # s PROVE t \in G
  <2>1. Cardinality(t) <= Cardinality(s) /\ Cardinality(t) # Cardinality(s)
    BY <1>1, <1>5, FS_Subset
  <2>2. Cardinality(t) \in Nat /\ Cardinality(s) \in Nat
    BY <1>1
  <2>3. t \notin Bad
    BY <1>3, <1>4, <2>1, <2>2
  <2> QED
    BY <2>3
<1> QED
  BY <1>4, <1>5

\* The sum of v over S, as a fold of the library computes it.
First(s) == CHOOSE x \in s : TRUE
SumsUp(f, v, S) ==
    f = [s \in SUBSET S |-> IF s = {} THEN 0 ELSE v[First(s)] + f[s \ {First(s)}]]
SumOf(v, S) == (CHOOSE f : SumsUp(f, v, S))[S]

\* A set that is not empty has its first element.
LEMMA FirstIn == ASSUME NEW s, s # {} PROVE First(s) \in s
BY DEF First

\* Two such sums over a set agree, wherever they were begun.
LEMMA SumUnique ==
    ASSUME NEW S, NEW T \in SUBSET S, IsFiniteSet(T), NEW v, NEW w, NEW f, NEW g,
           SumsUp(f, v, S), SumsUp(g, w, T), \A x \in T : v[x] = w[x]
    PROVE  f[T] = g[T]
<1> DEFINE G == {s \in SUBSET T : f[s] = g[s]}
<1>1. ASSUME NEW s \in SUBSET T, \A t \in SUBSET s : t # s => t \in G PROVE s \in G
  <2>1. f[s] = IF s = {} THEN 0 ELSE v[First(s)] + f[s \ {First(s)}]
    BY DEF SumsUp
  <2>2. g[s] = IF s = {} THEN 0 ELSE w[First(s)] + g[s \ {First(s)}]
    BY DEF SumsUp
  <2>3. CASE s = {}
    BY <2>1, <2>2, <2>3
  <2>4. CASE s # {}
    <3>1. First(s) \in s
      BY <2>4, FirstIn
    <3>2. s \ {First(s)} \in G
      BY <1>1, <3>1
    <3> QED
      BY <2>1, <2>2, <2>4, <3>1, <3>2
  <2> QED
    BY <2>3, <2>4
<1> HIDE DEF G
<1>2. T \in G
  BY <1>1, SmallerFirst
<1> QED
  BY <1>2 DEF G

\* There is such a sum over every finite set.
LEMMA SumExists ==
    ASSUME NEW v, NEW S, IsFiniteSet(S)
    PROVE  \E f : SumsUp(f, v, S)
<1> DEFINE G == {s \in SUBSET S : \E f : SumsUp(f, v, s)}
<1>1. ASSUME NEW s \in SUBSET S, \A t \in SUBSET s : t # s => t \in G PROVE s \in G
  <2> DEFINE F == [u \in SUBSET s |-> IF u = {} THEN 0 ELSE v[First(u)] + SumOf(v, u \ {First(u)})]
  <2>1. ASSUME NEW u \in SUBSET s, u # s PROVE F[u] = SumOf(v, u)
    <3>1. \E f : SumsUp(f, v, u)
      BY <1>1, <2>1
    <3> DEFINE g == CHOOSE f : SumsUp(f, v, u)
    <3>2. SumsUp(g, v, u) /\ SumOf(v, u) = g[u]
      BY <3>1 DEF SumOf
    <3> HIDE DEF g
    <3>3. g[u] = IF u = {} THEN 0 ELSE v[First(u)] + g[u \ {First(u)}]
      BY <3>2 DEF SumsUp
    <3>4. CASE u = {}
      BY <3>2, <3>3, <3>4
    <3>5. CASE u # {}
      <4> DEFINE r == u \ {First(u)}
      <4>1. First(u) \in u
        BY <3>5, FirstIn
      <4>2. \E f : SumsUp(f, v, r)
        BY <1>1, <4>1
      <4> DEFINE h == CHOOSE f : SumsUp(f, v, r)
      <4>3. SumsUp(h, v, r) /\ SumOf(v, r) = h[r]
        BY <4>2 DEF SumOf
      <4>4. IsFiniteSet(r)
        BY FS_Subset
      <4> HIDE DEF h
      <4>5. g[r] = h[r]
        BY <3>2, <4>3, <4>4, SumUnique
      <4> QED
        BY <3>2, <3>3, <3>5, <4>3, <4>5
    <3> QED
      BY <3>4, <3>5
  <2>2. ASSUME NEW u \in SUBSET s, u # {} PROVE F[u \ {First(u)}] = SumOf(v, u \ {First(u)})
    BY <2>1, <2>2, FirstIn
  <2>3. SumsUp(F, v, s)
    BY <2>2 DEF SumsUp
  <2> QED
    BY <2>3
<1> HIDE DEF G
<1>2. S \in G
  BY <1>1, SmallerFirst
<1> QED
  BY <1>2 DEF G

\* How the sum unfolds.
LEMMA SumSteps ==
    ASSUME NEW v, NEW S, IsFiniteSet(S)
    PROVE  /\ SumOf(v, {}) = 0
           /\ S # {} => SumOf(v, S) = v[First(S)] + SumOf(v, S \ {First(S)})
           /\ \A f : SumsUp(f, v, S) => f[S] = SumOf(v, S)
<1>1. ASSUME NEW T, IsFiniteSet(T)
      PROVE  /\ SumOf(v, T) = IF T = {} THEN 0 ELSE v[First(T)] + SumOf(v, T \ {First(T)})
             /\ \A f : SumsUp(f, v, T) => f[T] = SumOf(v, T)
  <2> DEFINE g == CHOOSE f : SumsUp(f, v, T)
             r == T \ {First(T)}
             h == CHOOSE f : SumsUp(f, v, r)
  <2>1. IsFiniteSet(r)
    BY <1>1, FS_Subset
  <2>2. SumsUp(g, v, T) /\ SumsUp(h, v, r)
    BY <1>1, <2>1, SumExists
  <2>3. SumOf(v, T) = g[T] /\ SumOf(v, r) = h[r]
    BY DEF SumOf
  <2> HIDE DEF g, h
  <2>4. g[r] = h[r]
    BY <2>1, <2>2, SumUnique
  <2>5. g[T] = IF T = {} THEN 0 ELSE v[First(T)] + g[r]
    BY <2>2 DEF SumsUp
  <2>6. \A f : SumsUp(f, v, T) => f[T] = g[T]
    BY <1>1, <2>2, SumUnique
  <2> QED
    BY <2>3, <2>4, <2>5, <2>6
<1> QED
  BY <1>1, FS_EmptySet

\* It depends on the summands alone,
LEMMA SumSame ==
    ASSUME NEW v, NEW w, NEW S, IsFiniteSet(S), \A x \in S : v[x] = w[x]
    PROVE  SumOf(v, S) = SumOf(w, S)
<1>1. PICK f : SumsUp(f, v, S)
  BY SumExists
<1>2. PICK g : SumsUp(g, w, S)
  BY SumExists
<1>3. f[S] = g[S]
  BY <1>1, <1>2, SumUnique
<1>4. f[S] = SumOf(v, S)
  BY <1>1, SumSteps
<1>5. g[S] = SumOf(w, S)
  BY <1>2, SumSteps
<1> QED
  BY <1>3, <1>4, <1>5

\* is a number when they are,
LEMMA SumIsNat ==
    ASSUME NEW v, NEW S, IsFiniteSet(S), \A x \in S : v[x] \in Nat
    PROVE  SumOf(v, S) \in Nat
<1> DEFINE G == {s \in SUBSET S : SumOf(v, s) \in Nat}
<1>1. ASSUME NEW s \in SUBSET S, \A t \in SUBSET s : t # s => t \in G PROVE s \in G
  <2>1. IsFiniteSet(s)
    BY FS_Subset
  <2>2. CASE s = {}
    <3>1. SumOf(v, {}) = 0
      BY <2>1, SumSteps
    <3> QED
      BY <2>2, <3>1
  <2>3. CASE s # {}
    <3>1. First(s) \in s /\ s \ {First(s)} \in G
      BY <1>1, <2>3, FirstIn
    <3> QED
      BY <2>1, <2>3, <3>1, SumSteps
  <2> QED
    BY <2>2, <2>3
<1> HIDE DEF G
<1>2. S \in G
  BY <1>1, SmallerFirst
<1> QED
  BY <1>2 DEF G

\* takes any of them out first,
LEMMA SumWithout ==
    ASSUME NEW v, NEW S, IsFiniteSet(S), \A x \in S : v[x] \in Nat, NEW x \in S
    PROVE  SumOf(v, S) = v[x] + SumOf(v, S \ {x})
<1> DEFINE G == {s \in SUBSET S : \A y \in s : SumOf(v, s) = v[y] + SumOf(v, s \ {y})}
<1>1. ASSUME NEW s \in SUBSET S, \A t \in SUBSET s : t # s => t \in G PROVE s \in G
  <2> SUFFICES ASSUME NEW y \in s PROVE SumOf(v, s) = v[y] + SumOf(v, s \ {y})
    OBVIOUS
  <2> DEFINE a == First(s)
             r == (s \ {a}) \ {y}
  <2>1. /\ IsFiniteSet(s) /\ IsFiniteSet(s \ {a}) /\ IsFiniteSet(r) /\ IsFiniteSet(s \ {y})
    BY FS_Subset
  <2>2. a \in s /\ SumOf(v, s) = v[a] + SumOf(v, s \ {a})
    BY <2>1, FirstIn, SumSteps
  <2> HIDE DEF a
  <2>3. CASE y = a
    BY <2>2, <2>3
  <2>4. CASE y # a
    <3>1. s \ {a} \in G /\ s \ {y} \in G
      BY <1>1, <2>2
    <3>2. SumOf(v, s \ {a}) = v[y] + SumOf(v, r)
      BY <2>4, <3>1
    <3>3. (s \ {y}) \ {a} = r
      OBVIOUS
    <3>4. SumOf(v, s \ {y}) = v[a] + SumOf(v, r)
      BY <2>2, <2>4, <3>1, <3>3
    <3>5. SumOf(v, r) \in Nat /\ v[a] \in Nat /\ v[y] \in Nat
      BY <2>1, <2>2, SumIsNat
    <3> QED
      BY <2>2, <3>2, <3>4, <3>5
  <2> QED
    BY <2>3, <2>4
<1> HIDE DEF G
<1>2. S \in G
  BY <1>1, SmallerFirst
<1> QED
  BY <1>2 DEF G

\* and splits into the sums over a part and the rest.
LEMMA SumSplit ==
    ASSUME NEW v, NEW S, IsFiniteSet(S), \A x \in S : v[x] \in Nat, NEW T \in SUBSET S
    PROVE  /\ SumOf(v, S) = SumOf(v, T) + SumOf(v, S \ T)
           /\ SumOf(v, T) <= SumOf(v, S)
<1> DEFINE G == {s \in SUBSET T : SumOf(v, S) = SumOf(v, s) + SumOf(v, S \ s)}
<1>1. ASSUME NEW s \in SUBSET T, \A t \in SUBSET s : t # s => t \in G PROVE s \in G
  <2>1. CASE s = {}
    <3>1. S \ s = S /\ SumOf(v, s) = 0 /\ SumOf(v, S) \in Nat
      BY <2>1, SumSteps, SumIsNat
    <3> QED
      BY <3>1
  <2>2. CASE s # {}
    <3>1. PICK x \in s : TRUE
      BY <2>2
    <3> DEFINE r == s \ {x}
    <3>2. r \in G
      BY <1>1
    <3>3. IsFiniteSet(s) /\ IsFiniteSet(r) /\ IsFiniteSet(S \ s) /\ IsFiniteSet(S \ r)
      BY FS_Subset
    <3>4. SumOf(v, s) = v[x] + SumOf(v, r)
      BY <3>3, SumWithout
    <3>5. (S \ r) \ {x} = S \ s /\ x \in S \ r
      OBVIOUS
    <3>6. SumOf(v, S \ r) = v[x] + SumOf(v, S \ s)
      BY <3>3, <3>5, SumWithout
    <3>7. SumOf(v, r) \in Nat /\ SumOf(v, S \ s) \in Nat /\ v[x] \in Nat
      BY <3>3, SumIsNat
    <3> QED
      BY <3>2, <3>4, <3>6, <3>7
  <2> QED
    BY <2>1, <2>2
<1> HIDE DEF G
<1>2. IsFiniteSet(T) /\ IsFiniteSet(S \ T)
  BY FS_Subset
<1>3. T \in G
  BY <1>1, <1>2, SmallerFirst
<1>4. SumOf(v, T) \in Nat /\ SumOf(v, S \ T) \in Nat
  BY <1>2, SumIsNat
<1> QED
  BY <1>3, <1>4 DEF G

\* The library's sum of h over S.
TotalOf(h, S) == MapThenSumSet(LAMBDA r : h[r], S)

\* That fold is the sum.
LEMMA TotalIsSum ==
    ASSUME NEW h, NEW S, IsFiniteSet(S)
    PROVE  TotalOf(h, S) = SumOf(h, S)
<1> DEFINE iter[s \in SUBSET S] ==
               IF s = {} THEN 0
               ELSE h[CHOOSE x \in s : TRUE] + iter[s \ {CHOOSE x \in s : TRUE}]
<1>1. TotalOf(h, S) = iter[S]
  BY DEF TotalOf, MapThenSumSet, MapThenFoldSet
<1> DEFINE Eqs(f) == f = [s \in SUBSET S |->
                IF s = {} THEN 0
                ELSE h[CHOOSE x \in s : TRUE] + f[s \ {CHOOSE x \in s : TRUE}]]
<1>2. iter = CHOOSE f : Eqs(f)
  BY DEF iter
<1>3. PICK f : SumsUp(f, h, S)
  BY SumExists
<1>4. Eqs(f)
  BY <1>3 DEF SumsUp, First
<1>5. Eqs(iter)
  <2> HIDE DEF iter, Eqs
  <2> QED
    BY <1>2, <1>4
<1> HIDE DEF iter
<1>6. SumsUp(iter, h, S)
  BY <1>5 DEF SumsUp, First
<1>7. iter[S] = SumOf(h, S)
  BY <1>6, SumSteps
<1> QED
  BY <1>1, <1>7

\* A part sums up to no more, and the rest to what is left.
LEMMA TotalSplits ==
    ASSUME NEW h, NEW S, IsFiniteSet(S), \A x \in S : h[x] \in Nat, NEW T \in SUBSET S
    PROVE  /\ TotalOf(h, T) \in Nat /\ TotalOf(h, S) \in Nat /\ TotalOf(h, S \ T) \in Nat
           /\ TotalOf(h, S) = TotalOf(h, T) + TotalOf(h, S \ T)
           /\ TotalOf(h, T) <= TotalOf(h, S)
<1>1. IsFiniteSet(T) /\ IsFiniteSet(S \ T)
  BY FS_Subset
<1>2. /\ \A x \in T : h[x] \in Nat
      /\ \A x \in S \ T : h[x] \in Nat
  OBVIOUS
<1>3. SumOf(h, S) \in Nat
  BY SumIsNat
<1>4. SumOf(h, T) \in Nat
  BY <1>1, <1>2, SumIsNat
<1>5. SumOf(h, S \ T) \in Nat
  BY <1>1, <1>2, SumIsNat
<1>6. SumOf(h, S) = SumOf(h, T) + SumOf(h, S \ T)
  BY SumSplit
<1>7. TotalOf(h, S) = SumOf(h, S) /\ TotalOf(h, T) = SumOf(h, T) /\ TotalOf(h, S \ T) = SumOf(h, S \ T)
  BY <1>1, TotalIsSum
<1> QED
  BY <1>3, <1>4, <1>5, <1>6, <1>7

\* A finite set of numbers that is not empty has a greatest one.
LEMMA GreatestOf ==
    ASSUME NEW S \in SUBSET Nat, IsFiniteSet(S), S # {}
    PROVE  Max(S) \in S /\ \A n \in S : n <= Max(S)
<1> DEFINE G == {s \in SUBSET S : s # {} => \E m \in s : \A n \in s : m >= n}
<1>1. ASSUME NEW s \in SUBSET S, \A t \in SUBSET s : t # s => t \in G PROVE s \in G
  <2> SUFFICES ASSUME s # {} PROVE \E m \in s : \A n \in s : m >= n
    OBVIOUS
  <2>1. PICK x \in s : TRUE
    OBVIOUS
  <2>2. CASE s = {x}
    BY <2>2
  <2>3. CASE s # {x}
    <3>1. s \ {x} \in SUBSET s /\ s \ {x} # s /\ s \ {x} # {}
      BY <2>1, <2>3
    <3>2. s \ {x} \in G
      BY <1>1, <3>1
    <3>3. PICK m \in s \ {x} : \A n \in s \ {x} : m >= n
      BY <3>1, <3>2
    <3>4. m \in Nat /\ x \in Nat /\ s \in SUBSET Nat
      BY <2>1
    <3>5. CASE m >= x
      BY <3>3, <3>5
    <3>6. CASE ~(m >= x)
      BY <2>1, <3>3, <3>4, <3>6
    <3> QED
      BY <3>5, <3>6
  <2> QED
    BY <2>2, <2>3
<1> HIDE DEF G
<1>2. S \in G
  BY <1>1, SmallerFirst
<1>3. \E m \in S : \A n \in S : m >= n
  BY <1>2 DEF G
<1>4. Max(S) \in S /\ \A n \in S : Max(S) >= n
  BY <1>3 DEF Max
<1> QED
  BY <1>4

===============================================================================
