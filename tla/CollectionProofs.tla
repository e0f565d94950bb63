--------------------------- MODULE CollectionProofs ---------------------------
(***************************************************************************)
(* Facts on which the proofs about bundles rest: sorting by a key, sums    *)
(* over finite sets, the variance, and quotients that are compared.        *)
(***************************************************************************)
EXTENDS Ordering, Functions, FiniteSetTheorems, WellFoundedInduction, TLAPS

Tuples(k) == [1..k -> Int]

(* A key is good for a set when it tells its members apart. *)
Keys(S, k) == {key \in [S -> Tuples(k)] : \A x, y \in S : key[x] = key[y] => x = y}

(* The tuples of the source have four parts at most. *)
LEMMA TuplesOrdered ==
    ASSUME NEW k \in 1..4, NEW s \in Tuples(k), NEW t \in Tuples(k)
    PROVE  /\ ~Before(s, s)
           /\ s = t \/ Before(s, t) \/ Before(t, s)
           /\ ~(Before(s, t) /\ Before(t, s))
<1>1. DOMAIN s = 1..k /\ DOMAIN t = 1..k /\ \A n \in 1..k : s[n] \in Int /\ t[n] \in Int
  BY DEF Tuples
<1>2. ~Before(s, s)
  BY <1>1 DEF Before
<1>3. ~(Before(s, t) /\ Before(t, s))
  <2> SUFFICES ASSUME NEW m \in 1..k, NEW n \in 1..k, s[m] < t[m], t[n] < s[n],
                      \A i \in 1..(m - 1) : s[i] = t[i], \A i \in 1..(n - 1) : t[i] = s[i]
               PROVE  FALSE
    BY <1>1 DEF Before
  <2>1. m < n \/ m = n \/ n < m
    OBVIOUS
  <2>2. ~(m < n) /\ ~(n < m)
    BY <1>1
  <2> QED
    BY <1>1, <2>1, <2>2
<1>4. s = t \/ Before(s, t) \/ Before(t, s)
  <2> SUFFICES ASSUME ~Before(s, t), ~Before(t, s)
               PROVE  \A n \in 1..k : s[n] = t[n]
    BY DEF Tuples
  <2>1. ASSUME NEW n \in 1..k, \A i \in 1..(n - 1) : s[i] = t[i]
        PROVE  s[n] = t[n]
    <3>1. ~(s[n] < t[n]) /\ ~(t[n] < s[n])
      BY <1>1, <2>1 DEF Before
    <3> QED
      BY <1>1, <3>1
  <2>2. k >= 1 => s[1] = t[1]
    BY <2>1
  <2>3. k >= 2 => s[2] = t[2]
    BY <2>1, <2>2
  <2>4. k >= 3 => s[3] = t[3]
    BY <2>1, <2>2, <2>3
  <2>5. k >= 4 => s[4] = t[4]
    BY <2>1, <2>2, <2>3, <2>4
  <2> QED
    BY <2>2, <2>3, <2>4, <2>5
<1> QED
  BY <1>2, <1>3, <1>4

LEMMA BeforeTransitive ==
    ASSUME NEW k \in Nat, NEW s \in Tuples(k), NEW t \in Tuples(k), NEW u \in Tuples(k),
           Before(s, t), Before(t, u)
    PROVE  Before(s, u)
<1>1. PICK m \in 1..k : s[m] < t[m] /\ \A i \in 1..(m - 1) : s[i] = t[i]
  BY DEF Before, Tuples
<1>2. PICK n \in 1..k : t[n] < u[n] /\ \A i \in 1..(n - 1) : t[i] = u[i]
  BY DEF Before, Tuples
<1>3. DOMAIN s = 1..k /\ \A i \in 1..k : s[i] \in Int /\ t[i] \in Int /\ u[i] \in Int
  BY DEF Tuples
<1>4. CASE m <= n
  <2>1. s[m] < u[m]
    BY <1>1, <1>2, <1>3, <1>4
  <2>2. \A i \in 1..(m - 1) : s[i] = u[i]
    BY <1>1, <1>2, <1>4
  <2> QED
    BY <1>3, <2>1, <2>2 DEF Before
<1>5. CASE n < m
  <2>1. s[n] < u[n]
    BY <1>1, <1>2, <1>3, <1>5
  <2>2. \A i \in 1..(n - 1) : s[i] = u[i]
    BY <1>1, <1>2, <1>5
  <2> QED
    BY <1>3, <2>1, <2>2 DEF Before
<1> QED
  BY <1>4, <1>5

(* The first part decides, and the second where it does not. *)
LEMMA FirstPartDecides ==
    ASSUME NEW k \in 1..4, NEW s \in Tuples(k), NEW t \in Tuples(k)
    PROVE  (s[1] < t[1] => Before(s, t)) /\ (Before(s, t) => s[1] <= t[1])
<1>1. 1 \in DOMAIN s /\ s[1] \in Int /\ t[1] \in Int /\ DOMAIN s = 1..k
  BY DEF Tuples
<1>2. s[1] < t[1] => Before(s, t)
  BY <1>1 DEF Before
<1>3. ASSUME Before(s, t), ~(s[1] <= t[1])  PROVE FALSE
  <2>1. PICK n \in 1..k : s[n] < t[n] /\ \A m \in 1..(n - 1) : s[m] = t[m]
    BY <1>1, <1>3 DEF Before
  <2>2. CASE n = 1
    BY <1>1, <1>3, <2>1, <2>2
  <2>3. CASE n > 1
    BY <1>1, <1>3, <2>1, <2>3
  <2> QED
    BY <2>2, <2>3
<1> QED
  BY <1>2, <1>3

-----------------------------------------------------------------------------
(* As many members as come before it, a member has ahead of it. *)
LEMMA RanksTell ==
    ASSUME NEW S, IsFiniteSet(S), NEW k \in 1..4, NEW key \in Keys(S, k), NEW rank,
           \A x \in S : rank[x] = Cardinality({y \in S : Before(key[y], key[x])})
    PROVE  /\ \A x \in S : rank[x] \in 0..(Cardinality(S) - 1)
           /\ \A x, y \in S : Before(key[x], key[y]) <=> rank[x] < rank[y]
           /\ \A x, y \in S : rank[x] = rank[y] => x = y
<1> DEFINE Earlier(x) == {y \in S : Before(key[y], key[x])}
<1>1. k \in Nat /\ \A x \in S : key[x] \in Tuples(k)
  BY DEF Keys
<1>2. \A x, y \in S : x = y \/ Before(key[x], key[y]) \/ Before(key[y], key[x])
  BY <1>1, TuplesOrdered DEF Keys
<1>3. \A x, y \in S : ~(Before(key[x], key[y]) /\ Before(key[y], key[x]))
  BY <1>1, TuplesOrdered
<1>4. \A x \in S : /\ IsFiniteSet(Earlier(x)) /\ Earlier(x) \subseteq S
                   /\ rank[x] \in Nat /\ rank[x] < Cardinality(S)
  <2> SUFFICES ASSUME NEW x \in S
               PROVE  /\ IsFiniteSet(Earlier(x)) /\ Earlier(x) \subseteq S
                      /\ rank[x] \in Nat /\ rank[x] < Cardinality(S)
    OBVIOUS
  <2>1. Earlier(x) \in SUBSET S
    OBVIOUS
  <2>2. x \notin Earlier(x)
    BY <1>3
  <2>3. /\ IsFiniteSet(Earlier(x)) /\ Cardinality(Earlier(x)) <= Cardinality(S)
        /\ Cardinality(S) = Cardinality(Earlier(x)) => S = Earlier(x)
    <3> HIDE DEF Earlier
    <3> QED BY <2>1, FS_Subset
  <2>4. Cardinality(Earlier(x)) \in Nat /\ Cardinality(S) \in Nat
    <3> HIDE DEF Earlier
    <3> QED BY <2>3, FS_CardinalityType
  <2> QED
    BY <2>1, <2>2, <2>3, <2>4
<1>5. \A x, y \in S : Before(key[x], key[y]) => rank[x] < rank[y]
  <2> SUFFICES ASSUME NEW x \in S, NEW y \in S, Before(key[x], key[y])
               PROVE  rank[x] < rank[y]
    OBVIOUS
  <2>1. Earlier(x) \in SUBSET Earlier(y)
    BY <1>1, BeforeTransitive
  <2>2. x \in Earlier(y) /\ x \notin Earlier(x)
    BY <1>3
  <2>3. IsFiniteSet(Earlier(y)) /\ rank[x] = Cardinality(Earlier(x)) /\ rank[y] = Cardinality(Earlier(y))
    BY <1>4
  <2>4. Cardinality(Earlier(x)) <= Cardinality(Earlier(y))
        /\ (Cardinality(Earlier(y)) = Cardinality(Earlier(x)) => Earlier(y) = Earlier(x))
    <3> HIDE DEF Earlier
    <3> QED BY <2>1, <2>3, FS_Subset
  <2>5. rank[x] \in Nat /\ rank[y] \in Nat
    BY <1>4
  <2> HIDE DEF Earlier
  <2> QED
    BY <2>2, <2>3, <2>4, <2>5
<1>6. Cardinality(S) \in Nat
  BY FS_CardinalityType
<1>7. \A x \in S : rank[x] \in Nat /\ rank[x] < Cardinality(S)
  BY <1>4
<1>8. \A x, y \in S : Before(key[x], key[y]) <=> rank[x] < rank[y]
  BY <1>2, <1>5, <1>7
<1>9. \A x \in S : rank[x] \in 0..(Cardinality(S) - 1)
  BY <1>6, <1>7
<1>10. \A x, y \in S : rank[x] = rank[y] => x = y
  BY <1>2, <1>5, <1>7
<1> QED
  BY <1>8, <1>9, <1>10

KeysBefore(S, key, x) == Cardinality({y \in S : Before(key[y], key[x])})

LEMMA RankOrder ==
    ASSUME NEW S, IsFiniteSet(S), NEW k \in 1..4, NEW key \in Keys(S, k)
    PROVE  \A x, y \in S :
              Before(key[x], key[y]) <=> KeysBefore(S, key, x) < KeysBefore(S, key, y)
<1>1. PICK rank : rank = [x \in S |-> Cardinality({y \in S : Before(key[y], key[x])})]
  OBVIOUS
<1>2. \A x, y \in S : Before(key[x], key[y]) <=> rank[x] < rank[y]
  BY <1>1, RanksTell
<1>3. \A x \in S : rank[x] = KeysBefore(S, key, x)
  BY <1>1 DEF KeysBefore
<1> QED
  BY <1>2, <1>3

(* The members before a key, with their keys or without. *)
LEMMA CountedByKey ==
    ASSUME NEW S, IsFiniteSet(S), NEW key, NEW t
    PROVE  Cardinality({f \in {<<x, key[x]>> : x \in S} : Before(f[2], t)})
             = Cardinality({y \in S : Before(key[y], t)})
<1> DEFINE A == {y \in S : Before(key[y], t)}
           B == {f \in {<<x, key[x]>> : x \in S} : Before(f[2], t)}
           pair == [y \in A |-> <<y, key[y]>>]
<1>1. IsFiniteSet(A)
  BY FS_Subset
<1>2. pair \in Surjection(A, B)
  BY DEF Surjection
<1>3. pair \in Injection(A, B)
  BY DEF Injection, IsInjective
<1>4. ExistsBijection(A, B)
  BY <1>2, <1>3 DEF ExistsBijection, Bijection
<1> QED
  <2> HIDE DEF A, B
  <2>1. Cardinality(B) = Cardinality(A)
    BY <1>1, <1>4, FS_Bijection
  <2> QED BY <2>1 DEF A, B

LEMMA SortedSize ==
    ASSUME NEW S, NEW key
    PROVE  LET s == InOrder(S, key)
           IN DOMAIN s = 1..Cardinality(S) /\ s = [n \in DOMAIN s |-> s[n]]
BY DEF InOrder

(* A sorted sequence has every member of the set in one place, and is in   *)
(* the order of the keys.                                                  *)
LEMMA SortedByKey ==
    ASSUME NEW S, IsFiniteSet(S), NEW k \in 1..4, NEW key \in Keys(S, k)
    PROVE  LET s == InOrder(S, key)
           IN /\ Cardinality(S) \in Nat /\ s \in [1..Cardinality(S) -> S]
              /\ \A x \in S : \E n \in DOMAIN s : s[n] = x
              /\ \A m, n \in DOMAIN s : s[m] = s[n] => m = n
              /\ \A m, n \in DOMAIN s : m < n <=> Before(key[s[m]], key[s[n]])
<1> DEFINE N == Cardinality(S)
           s == InOrder(S, key)
<1>1. N \in Nat
  BY FS_CardinalityType
<1>2. PICK rank : rank = [x \in S |-> Cardinality({y \in S : Before(key[y], key[x])})]
  OBVIOUS
<1>3. /\ \A x \in S : rank[x] \in 0..(N - 1)
      /\ \A x, y \in S : Before(key[x], key[y]) <=> rank[x] < rank[y]
      /\ \A x, y \in S : rank[x] = rank[y] => x = y
  BY <1>2, RanksTell
<1> DEFINE keyed == {<<x, key[x]>> : x \in S}
           Ahead(t) == {f \in keyed : Before(f[2], t)}
           entry(n) == CHOOSE e \in keyed : Cardinality(Ahead(e[2])) = n - 1
<1>a. s = [n \in 1..N |-> entry(n)[1]]
  BY Zenon DEF InOrder
<1>4. DOMAIN s = 1..N /\ \A n \in 1..N : s[n] = entry(n)[1]
  BY <1>a
<1>b. \A x \in S : Cardinality(Ahead(key[x])) = rank[x]
  BY <1>2, CountedByKey
<1> DEFINE place == [x \in S |-> rank[x] + 1]
<1>5. place \in Surjection(S, 1..N)
  <2>1. IsFiniteSet(1..N) /\ Cardinality(1..N) = Cardinality(S)
    BY <1>1, FS_Interval
  <2>2. \A x \in S : place[x] \in 1..N
    BY <1>1, <1>3
  <2>3. \A x, y \in S : place[x] = place[y] => x = y
    BY <1>1, <1>3
  <2>4. place \in Injection(S, 1..N)
    BY <2>2, <2>3, Zenon DEF Injection, IsInjective
  <2> HIDE DEF place, N
  <2> QED
    BY <2>1, <2>4, FS_Injection
<1> HIDE DEF s
<1>6. \A n \in 1..N : \E x \in S : rank[x] = n - 1
  <2> TAKE n \in 1..N
  <2>1. PICK x \in S : place[x] = n
    BY <1>5 DEF Surjection
  <2> QED
    BY <1>1, <1>3, <2>1
<1>7. \A n \in 1..N : s[n] \in S /\ rank[s[n]] = n - 1
  <2> TAKE n \in 1..N
  <2>1. PICK x \in S : rank[x] = n - 1
    BY <1>6
  <2>2. <<x, key[x]>> \in keyed /\ Cardinality(Ahead(<<x, key[x]>>[2])) = n - 1
    BY <1>b, <2>1
  <2>3. entry(n) \in keyed /\ Cardinality(Ahead(entry(n)[2])) = n - 1
    <3> HIDE DEF keyed, Ahead
    <3> QED BY <2>2
  <2>4. PICK y \in S : entry(n) = <<y, key[y]>>
    BY <2>3
  <2>5. s[n] = y /\ rank[y] = n - 1
    <3> HIDE DEF entry, Ahead
    <3> QED BY <1>4, <1>b, <2>3, <2>4
  <2> QED
    BY <2>5
<1>8. s \in [1..N -> S] /\ DOMAIN s = 1..N
  BY <1>a, <1>4, <1>7
<1>9. \A x \in S : \E n \in DOMAIN s : s[n] = x
  <2> TAKE x \in S
  <2>1. rank[x] + 1 \in 1..N
    BY <1>1, <1>3
  <2>2. rank[s[rank[x] + 1]] = rank[x] /\ s[rank[x] + 1] \in S
    BY <1>1, <1>3, <1>7, <2>1
  <2> QED
    BY <1>3, <1>8, <2>1, <2>2
<1>10. \A m, n \in DOMAIN s : s[m] = s[n] => m = n
  BY <1>7, <1>8
<1>11. \A m, n \in DOMAIN s : m < n <=> Before(key[s[m]], key[s[n]])
  BY <1>1, <1>3, <1>7, <1>8
<1> QED
  BY <1>1, <1>8, <1>9, <1>10, <1>11 DEF s

-----------------------------------------------------------------------------
(* Induction, over a set instead of a predicate. *)

LEMMA NatSetInduction ==
    ASSUME NEW A, 0 \in A, \A n \in Nat : n \in A => n + 1 \in A
    PROVE  Nat \subseteq A
<1> DEFINE R == {p \in Nat \X Nat : p[1] < p[2]}
           Bad == Nat \ A
<1>1. IsWellFoundedOn(R, Nat)
  BY NatLessThanWellFounded DEF OpToRel
<1>2. CASE Bad # {}
  <2>1. PICK x \in Bad : \A y \in Bad : ~ (<<y, x>> \in R)
    <3> HIDE DEF R
    <3>1. Bad \subseteq Nat
      OBVIOUS
    <3> HIDE DEF Bad
    <3> QED BY <1>1, <1>2, <3>1, WFMin
  <2>2. x \in Nat /\ x # 0
    OBVIOUS
  <2>3. x - 1 \in Nat /\ <<x - 1, x>> \in R
    BY <2>2
  <2>4. x - 1 \in A /\ (x - 1) + 1 = x
    BY <2>1, <2>2, <2>3
  <2>5. x \in A
    BY <2>3, <2>4
  <2> QED BY <2>5
<1> QED BY <1>2

LEMMA SetInduction ==
    ASSUME NEW S, IsFiniteSet(S), NEW A,
           \A T \in SUBSET S : (\A x \in T : T \ {x} \in A) => T \in A
    PROVE  SUBSET S \subseteq A
<1> DEFINE R == StrictSubsetOrdering(S)
           Bad == (SUBSET S) \ A
<1>1. IsWellFoundedOn(R, SUBSET S)
  BY FS_StrictSubsetOrderingWellFounded, FS_FiniteSubsetsOfFinite
<1>2. CASE Bad # {}
  <2>1. PICK T \in Bad : \A U \in Bad : ~ (<<U, T>> \in R)
    <3> HIDE DEF R
    <3>1. Bad \subseteq SUBSET S
      OBVIOUS
    <3> HIDE DEF Bad
    <3> QED BY <1>1, <1>2, <3>1, WFMin
  <2>2. ASSUME NEW x \in T PROVE T \ {x} \in A
    <3>1. <<T \ {x}, T>> \in R
      BY DEF StrictSubsetOrdering
    <3> QED BY <2>1, <3>1
  <2> QED BY <2>2
<1> QED BY <1>2

-----------------------------------------------------------------------------
(* Sums: the fold of the community modules, unfolded. *)

Pick(s) == CHOOSE x \in s : TRUE

SumStep(f, g, s) == IF s = {} THEN 0 ELSE f[Pick(s)] + g[s \ {Pick(s)}]

Folded(f, S) == CHOOSE g : g = [s \in SUBSET S |-> SumStep(f, g, s)]

LEMMA SumUnfolds ==
    ASSUME NEW f, NEW S
    PROVE  SumFunctionOnSet(f, S) = Folded(f, S)[S]
BY DEF SumFunctionOnSet, FoldFunctionOnSet, MapThenFoldSet, Folded, SumStep, Pick

Few(S, n) == {s \in SUBSET S : Cardinality(s) <= n}

LEMMA FewerExist ==
    ASSUME NEW S, IsFiniteSet(S), NEW f
    PROVE  \A n \in Nat : \E g : g = [s \in Few(S, n) |-> SumStep(f, g, s)]
<1> DEFINE A == {n \in Nat : \E g : g = [s \in Few(S, n) |-> SumStep(f, g, s)]}
<1>1. \A s \in SUBSET S : IsFiniteSet(s) /\ Cardinality(s) \in Nat /\ (Cardinality(s) = 0 <=> s = {})
  BY FS_Subset, FS_CardinalityType, FS_EmptySet
<1>2. 0 \in A
  <2>1. PICK g : g = [s \in Few(S, 0) |-> 0]
    OBVIOUS
  <2>2. \A s \in Few(S, 0) : SumStep(f, g, s) = 0
    BY <1>1 DEF Few, SumStep
  <2> QED BY <2>1, <2>2
<1>3. ASSUME NEW n \in Nat, n \in A PROVE n + 1 \in A
  <2>1. PICK g : g = [s \in Few(S, n) |-> SumStep(f, g, s)]
    BY <1>3
  <2>2. PICK h : h = [s \in Few(S, n + 1) |-> SumStep(f, g, s)]
    OBVIOUS
  <2>3. ASSUME NEW s \in Few(S, n + 1) PROVE SumStep(f, g, s) = SumStep(f, h, s)
    <3>1. CASE s = {}
      BY <3>1 DEF SumStep
    <3>2. CASE s # {}
      <4> DEFINE x == Pick(s)
      <4>1. x \in s /\ s \in SUBSET S
        BY <3>2 DEF Pick, Few
      <4>2. s \ {x} \in Few(S, n) /\ s \ {x} \in Few(S, n + 1)
        <5>1. Cardinality(s \ {x}) = Cardinality(s) - 1 /\ Cardinality(s) \in Nat
          BY <1>1, <4>1, FS_RemoveElement
        <5> HIDE DEF x
        <5> QED BY <4>1, <5>1 DEF Few
      <4>3. h[s \ {x}] = g[s \ {x}]
        <5> HIDE DEF x
        <5>1. h[s \ {x}] = SumStep(f, g, s \ {x})
          BY <2>2, <4>2
        <5>2. g[s \ {x}] = SumStep(f, g, s \ {x})
          BY <2>1, <4>2
        <5> QED BY <5>1, <5>2
      <4> QED BY <3>2, <4>3 DEF SumStep
    <3> QED BY <3>1, <3>2
  <2>4. h = [s \in Few(S, n + 1) |-> SumStep(f, h, s)]
    BY <2>2, <2>3
  <2> QED BY <2>4
<1> HIDE DEF A
<1>4. Nat \subseteq A
  BY <1>2, <1>3, NatSetInduction
<1> QED BY <1>4 DEF A

LEMMA FoldExists ==
    ASSUME NEW S, IsFiniteSet(S), NEW f
    PROVE  \A s \in SUBSET S : Folded(f, S)[s] = SumStep(f, Folded(f, S), s)
<1>1. Cardinality(S) \in Nat
  BY FS_CardinalityType
<1>2. Few(S, Cardinality(S)) = SUBSET S
  BY FS_Subset DEF Few
<1>3. \E g : g = [s \in SUBSET S |-> SumStep(f, g, s)]
  <2>1. PICK g : g = [s \in Few(S, Cardinality(S)) |-> SumStep(f, g, s)]
    BY <1>1, FewerExist
  <2>2. g = [s \in SUBSET S |-> SumStep(f, g, s)]
    BY <1>2, <2>1
  <2> QED BY <2>2
<1>4. PICK g : g = Folded(f, S) /\ g = [s \in SUBSET S |-> SumStep(f, g, s)]
  BY <1>3 DEF Folded
<1> QED BY <1>4

(* The sum over a set, as a function of its subsets. *)
LEMMA FoldOfSubset ==
    ASSUME NEW S, IsFiniteSet(S), NEW f, NEW T \in SUBSET S
    PROVE  SumFunctionOnSet(f, T) = Folded(f, S)[T]
<1> DEFINE A == {U \in SUBSET T : Folded(f, T)[U] = Folded(f, S)[U]}
<1>1. IsFiniteSet(T)
  BY FS_Subset
<1>2. ASSUME NEW U \in SUBSET T, \A x \in U : U \ {x} \in A
      PROVE  U \in A
  <2>1. /\ Folded(f, T)[U] = SumStep(f, Folded(f, T), U)
        /\ Folded(f, S)[U] = SumStep(f, Folded(f, S), U)
    <3>1. U \in SUBSET S
      OBVIOUS
    <3> QED BY <1>1, <3>1, FoldExists
  <2>2. CASE U = {}
    BY <2>1, <2>2 DEF SumStep
  <2>3. CASE U # {}
    <3>1. Pick(U) \in U
      BY <2>3 DEF Pick
    <3>2. U \ {Pick(U)} \in A
      BY <1>2, <3>1
    <3> QED BY <2>1, <2>3, <3>2 DEF SumStep
  <2> QED BY <2>2, <2>3
<1> HIDE DEF A
<1>3. T \in A
  BY <1>1, <1>2, SetInduction
<1> QED BY <1>3, SumUnfolds DEF A

LEMMA SumOfPick ==
    ASSUME NEW S, IsFiniteSet(S), NEW f
    PROVE  SumFunctionOnSet(f, S)
             = IF S = {} THEN 0 ELSE f[Pick(S)] + SumFunctionOnSet(f, S \ {Pick(S)})
<1>1. Folded(f, S)[S] = SumStep(f, Folded(f, S), S)
  BY FoldExists
<1>2. SumFunctionOnSet(f, S) = Folded(f, S)[S]
  BY SumUnfolds
<1>3. SumFunctionOnSet(f, S \ {Pick(S)}) = Folded(f, S)[S \ {Pick(S)}]
  BY FoldOfSubset
<1> QED BY <1>1, <1>2, <1>3 DEF SumStep

LEMMA SumEmpty == \A f : SumFunctionOnSet(f, {}) = 0
BY SumOfPick, FS_EmptySet

LEMMA SumType ==
    ASSUME NEW S, IsFiniteSet(S), NEW f, \A x \in S : f[x] \in Int
    PROVE  SumFunctionOnSet(f, S) \in Int
<1> DEFINE A == {T \in SUBSET S : SumFunctionOnSet(f, T) \in Int}
<1>1. ASSUME NEW T \in SUBSET S, \A x \in T : T \ {x} \in A
      PROVE  T \in A
  <2>1. IsFiniteSet(T)
    BY FS_Subset
  <2>2. CASE T = {}
    BY <2>1, <2>2, SumEmpty
  <2>3. CASE T # {}
    <3>1. Pick(T) \in T /\ f[Pick(T)] \in Int
      BY <2>3 DEF Pick
    <3>2. SumFunctionOnSet(f, T \ {Pick(T)}) \in Int
      BY <1>1, <3>1
    <3>3. SumFunctionOnSet(f, T) = f[Pick(T)] + SumFunctionOnSet(f, T \ {Pick(T)})
      BY <2>1, <2>3, SumOfPick
    <3> QED BY <3>1, <3>2, <3>3
  <2> QED BY <2>2, <2>3
<1> HIDE DEF A
<1>2. S \in A
  BY <1>1, SetInduction
<1> QED BY <1>2 DEF A

(* In whatever order: any member can be taken out first. *)
LEMMA SumWithout ==
    ASSUME NEW S, IsFiniteSet(S), NEW f, \A x \in S : f[x] \in Int, NEW y \in S
    PROVE  SumFunctionOnSet(f, S) = f[y] + SumFunctionOnSet(f, S \ {y})
<1> DEFINE Sum(T) == SumFunctionOnSet(f, T)
           A == {T \in SUBSET S : \A x \in T : Sum(T) = f[x] + Sum(T \ {x})}
<1>1. \A T \in SUBSET S : IsFiniteSet(T) /\ Sum(T) \in Int
  BY FS_Subset, SumType
<1>2. \A T \in SUBSET S : Sum(T) = IF T = {} THEN 0 ELSE f[Pick(T)] + Sum(T \ {Pick(T)})
  BY <1>1, SumOfPick
<1> HIDE DEF Sum
<1>3. ASSUME NEW T \in SUBSET S, \A x \in T : T \ {x} \in A
      PROVE  T \in A
  <2> SUFFICES ASSUME NEW x \in T PROVE Sum(T) = f[x] + Sum(T \ {x})
    OBVIOUS
  <2> DEFINE c == Pick(T)
  <2>1. c \in T
    BY DEF Pick
  <2>2. Sum(T) = f[c] + Sum(T \ {c})
    BY <1>2, <2>1
  <2> HIDE DEF c
  <2>3. CASE x = c
    BY <2>2, <2>3
  <2>4. CASE x # c
    <3>1. Sum(T \ {c}) = f[x] + Sum((T \ {c}) \ {x})
      BY <1>3, <2>1, <2>4
    <3>2. Sum(T \ {x}) = f[c] + Sum((T \ {x}) \ {c})
      BY <1>3, <2>1, <2>4
    <3>3. (T \ {c}) \ {x} = (T \ {x}) \ {c}
      OBVIOUS
    <3>4. f[c] \in Int /\ f[x] \in Int /\ Sum((T \ {x}) \ {c}) \in Int
      BY <1>1, <2>1
    <3>5. Sum(T) = f[c] + (f[x] + Sum((T \ {x}) \ {c}))
      BY <2>2, <3>1, <3>3
    <3> QED BY <3>2, <3>4, <3>5
  <2> QED BY <2>3, <2>4
<1> HIDE DEF A
<1>4. S \in A
  BY <1>3, SetInduction
<1> QED BY <1>4 DEF A, Sum

LEMMA SumSame ==
    ASSUME NEW S, IsFiniteSet(S), NEW f, NEW g, \A x \in S : f[x] = g[x]
    PROVE  SumFunctionOnSet(f, S) = SumFunctionOnSet(g, S)
<1> DEFINE A == {T \in SUBSET S : SumFunctionOnSet(f, T) = SumFunctionOnSet(g, T)}
<1>1. ASSUME NEW T \in SUBSET S, \A x \in T : T \ {x} \in A
      PROVE  T \in A
  <2>1. IsFiniteSet(T)
    BY FS_Subset
  <2>2. CASE T = {}
    BY <2>2, SumEmpty
  <2>3. CASE T # {}
    <3>1. Pick(T) \in T /\ f[Pick(T)] = g[Pick(T)]
      BY <2>3 DEF Pick
    <3>2. SumFunctionOnSet(f, T \ {Pick(T)}) = SumFunctionOnSet(g, T \ {Pick(T)})
      BY <1>1, <3>1
    <3> QED BY <2>1, <2>3, <3>1, <3>2, SumOfPick
  <2> QED BY <2>2, <2>3
<1> HIDE DEF A
<1>2. S \in A
  BY <1>1, SetInduction
<1> QED BY <1>2 DEF A

(* The members of I with a key in K. *)
Having(I, key, K) == {i \in I : key[i] \in K}

(* Members counted by a key, key by key: as many as there are. *)
LEMMA SumOfParts ==
    ASSUME NEW I, IsFiniteSet(I), NEW key, NEW K, IsFiniteSet(K), NEW f,
           \A k \in K : f[k] = Cardinality(Having(I, key, {k}))
    PROVE  SumFunctionOnSet(f, K) = Cardinality(Having(I, key, K))
<1> DEFINE In(T) == {i \in I : key[i] \in T}
           A == {T \in SUBSET K : SumFunctionOnSet(f, T) = Cardinality(In(T))}
<1>0. \A T : Having(I, key, T) = In(T)
  BY DEF Having
<1>1. \A T : IsFiniteSet(In(T)) /\ Cardinality(In(T)) \in Nat
  <2> TAKE T
  <2>1. In(T) \in SUBSET I
    OBVIOUS
  <2> HIDE DEF In
  <2> QED BY <2>1, FS_Subset, FS_CardinalityType
<1>2. \A k \in K : f[k] = Cardinality(In({k})) /\ f[k] \in Int
  <2> HIDE DEF In
  <2> QED BY <1>0, <1>1
<1>3. ASSUME NEW T \in SUBSET K, \A k \in T : T \ {k} \in A
      PROVE  T \in A
  <2>1. CASE T = {}
    <3>1. In(T) = {}
      BY <2>1
    <3> HIDE DEF In
    <3> QED BY <2>1, <3>1, SumEmpty, FS_EmptySet
  <2>2. CASE T # {}
    <3>1. PICK k \in T : TRUE
      BY <2>2
    <3>2. IsFiniteSet(T) /\ k \in K
      BY FS_Subset
    <3>3. SumFunctionOnSet(f, T) = f[k] + SumFunctionOnSet(f, T \ {k})
      BY <1>2, <3>2, SumWithout
    <3>4. SumFunctionOnSet(f, T \ {k}) = Cardinality(In(T \ {k}))
      BY <1>3
    <3>5. In(T) = In({k}) \cup In(T \ {k}) /\ In({k}) \cap In(T \ {k}) = {}
      OBVIOUS
    <3> HIDE DEF In
    <3>6. Cardinality(In(T)) = Cardinality(In({k})) + Cardinality(In(T \ {k})) - Cardinality({})
      <4>1. IsFiniteSet(In({k})) /\ IsFiniteSet(In(T \ {k}))
        BY <1>1
      <4>2. Cardinality(In({k}) \cup In(T \ {k}))
              = Cardinality(In({k})) + Cardinality(In(T \ {k})) - Cardinality(In({k}) \cap In(T \ {k}))
        BY <4>1, FS_Union
      <4> QED BY <3>5, <4>2
    <3>7. Cardinality(In(T)) = f[k] + SumFunctionOnSet(f, T \ {k})
      BY <1>1, <1>2, <3>2, <3>4, <3>6, FS_EmptySet
    <3> QED BY <3>3, <3>7
  <2> QED BY <2>1, <2>2
<1> HIDE DEF A
<1>4. K \in A
  BY <1>3, SetInduction
<1>5. SumFunctionOnSet(f, K) = Cardinality(In(K))
  BY <1>4 DEF A
<1> HIDE DEF In
<1> QED BY <1>0, <1>5

(* The variance is not negative: n times the sum of the squares is at      *)
(* least the square of the sum.                                            *)
LEMMA SquaresFrom ==
    ASSUME NEW S, IsFiniteSet(S), NEW v, NEW w, NEW c \in Int,
           \A x \in S : v[x] \in Int /\ w[x] = v[x] * v[x]
    PROVE  SumFunctionOnSet(w, S) - 2 * (c * SumFunctionOnSet(v, S)) + Cardinality(S) * (c * c) >= 0
<1> DEFINE V(T) == SumFunctionOnSet(v, T)
           W(T) == SumFunctionOnSet(w, T)
           A == {T \in SUBSET S : W(T) - 2 * (c * V(T)) + Cardinality(T) * (c * c) >= 0}
<1>1. \A T \in SUBSET S : IsFiniteSet(T) /\ V(T) \in Int /\ W(T) \in Int /\ Cardinality(T) \in Nat
  BY FS_Subset, FS_CardinalityType, SumType
<1>2. ASSUME NEW T \in SUBSET S, \A x \in T : T \ {x} \in A
      PROVE  T \in A
  <2>1. CASE T = {}
    BY <2>1, SumEmpty, FS_EmptySet
  <2>2. CASE T # {}
    <3>1. PICK x \in T : TRUE
      BY <2>2
    <3> DEFINE U == T \ {x}
    <3>2. V(T) = v[x] + V(U) /\ W(T) = v[x] * v[x] + W(U)
      <4>1. IsFiniteSet(T) /\ \A y \in T : v[y] \in Int /\ w[y] \in Int
        BY <1>1
      <4>2. SumFunctionOnSet(v, T) = v[x] + SumFunctionOnSet(v, T \ {x})
        BY <4>1, SumWithout
      <4>3. SumFunctionOnSet(w, T) = w[x] + SumFunctionOnSet(w, T \ {x})
        BY <4>1, SumWithout
      <4> QED BY <4>2, <4>3
    <3>3. Cardinality(T) = Cardinality(U) + 1
      BY <1>1, FS_RemoveElement
    <3>4. W(U) - 2 * (c * V(U)) + Cardinality(U) * (c * c) >= 0 /\ U \in SUBSET S
      BY <1>2
    <3>5. PICK a \in Int, p \in Int, q \in Int, n \in Nat :
             a = v[x] /\ p = V(U) /\ q = W(U) /\ n = Cardinality(U)
      BY <1>1, <3>4
    <3> HIDE DEF V, W, U
    <3>6. (c - a) * (c - a) >= 0 /\ (c - a) * (c - a) = a * a - 2 * (c * a) + c * c
      <4>1. c - a >= 0 \/ a - c >= 0
        OBVIOUS
      <4> QED BY <4>1
    <3>7. c * (a + p) = c * a + c * p /\ (n + 1) * (c * c) = n * (c * c) + c * c
      OBVIOUS
    <3>8. (a * a + q) - 2 * (c * (a + p)) + (n + 1) * (c * c) >= 0
      <4>1. q - 2 * (c * p) + n * (c * c) >= 0
        BY <3>4, <3>5
      <4>2. c * a \in Int /\ c * p \in Int /\ n * (c * c) \in Int /\ c * c \in Int /\ a * a \in Int
        OBVIOUS
      <4> QED BY <3>6, <3>7, <4>1, <4>2
    <3>9. W(T) - 2 * (c * V(T)) + Cardinality(T) * (c * c) >= 0
      BY <3>2, <3>3, <3>5, <3>8
    <3> QED BY <3>9
  <2> QED BY <2>1, <2>2
<1> HIDE DEF A
<1>3. S \in A
  BY <1>2, SetInduction
<1> QED BY <1>3 DEF A

LEMMA VarianceOfSums ==
    ASSUME NEW S, IsFiniteSet(S), NEW v, NEW w,
           \A x \in S : v[x] \in Int /\ w[x] = v[x] * v[x]
    PROVE  Cardinality(S) * SumFunctionOnSet(w, S)
             - SumFunctionOnSet(v, S) * SumFunctionOnSet(v, S) >= 0
<1> DEFINE V(T) == SumFunctionOnSet(v, T)
           W(T) == SumFunctionOnSet(w, T)
           A == {T \in SUBSET S : Cardinality(T) * W(T) - V(T) * V(T) >= 0}
<1>1. \A T \in SUBSET S : IsFiniteSet(T) /\ V(T) \in Int /\ W(T) \in Int /\ Cardinality(T) \in Nat
  BY FS_Subset, FS_CardinalityType, SumType
<1>2. ASSUME NEW T \in SUBSET S, \A x \in T : T \ {x} \in A
      PROVE  T \in A
  <2>1. CASE T = {}
    BY <2>1, SumEmpty, FS_EmptySet
  <2>2. CASE T # {}
    <3>1. PICK x \in T : TRUE
      BY <2>2
    <3> DEFINE U == T \ {x}
    <3>2. V(T) = v[x] + V(U) /\ W(T) = v[x] * v[x] + W(U)
      <4>1. IsFiniteSet(T) /\ \A y \in T : v[y] \in Int /\ w[y] \in Int
        BY <1>1
      <4>2. SumFunctionOnSet(v, T) = v[x] + SumFunctionOnSet(v, T \ {x})
        BY <4>1, SumWithout
      <4>3. SumFunctionOnSet(w, T) = w[x] + SumFunctionOnSet(w, T \ {x})
        BY <4>1, SumWithout
      <4> QED BY <4>2, <4>3
    <3>3. Cardinality(T) = Cardinality(U) + 1
      BY <1>1, FS_RemoveElement
    <3>4. Cardinality(U) * W(U) - V(U) * V(U) >= 0 /\ U \in SUBSET S
      BY <1>2
    <3>5. W(U) - 2 * (v[x] * V(U)) + Cardinality(U) * (v[x] * v[x]) >= 0
      BY <1>1, <3>4, SquaresFrom
    <3>6. PICK a \in Int, p \in Int, q \in Int, n \in Nat :
             a = v[x] /\ p = V(U) /\ q = W(U) /\ n = Cardinality(U)
      BY <1>1, <3>4
    <3> HIDE DEF V, W, U
    <3>7. (n + 1) * (a * a + q) = n * q + n * (a * a) + a * a + q
      OBVIOUS
    <3>8. (a + p) * (a + p) = a * a + 2 * (a * p) + p * p
      OBVIOUS
    <3>9. (n + 1) * (a * a + q) - (a + p) * (a + p) >= 0
      <4>1. n * q - p * p >= 0 /\ q - 2 * (a * p) + n * (a * a) >= 0
        BY <3>4, <3>5, <3>6
      <4>2. n * q \in Int /\ n * (a * a) \in Int /\ a * a \in Int /\ a * p \in Int /\ p * p \in Int
        OBVIOUS
      <4> QED BY <3>7, <3>8, <4>1, <4>2
    <3> QED BY <3>2, <3>3, <3>6, <3>9
  <2> QED BY <2>1, <2>2
<1> HIDE DEF A
<1>3. S \in A
  BY <1>2, SetInduction
<1> QED BY <1>3 DEF A

-----------------------------------------------------------------------------
(* Quotients, compared by cross multiplication. *)

LEMMA TimesPositive ==
    ASSUME NEW p \in Int, NEW q \in Int, NEW d \in Int, d > 0
    PROVE  p > q <=> p * d > q * d
<1>1. p > q => p * d > q * d
  <2> SUFFICES ASSUME p > q PROVE p * d > q * d
    OBVIOUS
  <2>1. PICK e \in Int : e > 0 /\ p = q + e
    <3>1. p - q \in Int /\ p - q > 0 /\ p = q + (p - q)
      OBVIOUS
    <3> QED BY <3>1
  <2>2. p * d = q * d + e * d /\ e * d > 0 /\ q * d \in Int /\ e * d \in Int
    BY <2>1
  <2> QED BY <2>2
<1>2. ~(p > q) => ~(p * d > q * d)
  <2> SUFFICES ASSUME p <= q PROVE p * d <= q * d
    OBVIOUS
  <2>1. PICK e \in Nat : q = p + e
    <3>1. q - p \in Nat /\ q = p + (q - p)
      OBVIOUS
    <3> QED BY <3>1
  <2>2. q * d = p * d + e * d /\ e * d >= 0 /\ p * d \in Int /\ e * d \in Int
    BY <2>1
  <2> QED BY <2>2
<1> QED BY <1>1, <1>2

LEMMA QuotientsTransitive ==
    ASSUME NEW a \in Int, NEW c \in Int, NEW e \in Int,
           NEW b \in Int, NEW d \in Int, NEW f \in Int, b > 0, d > 0, f > 0,
           a * d > c * b, c * f > e * d
    PROVE  a * f > e * b
<1>1. (a * d) * f > (c * b) * f
  <2>1. a * d \in Int /\ c * b \in Int
    OBVIOUS
  <2> QED BY <2>1, TimesPositive
<1>2. (c * f) * b > (e * d) * b
  <2>1. c * f \in Int /\ e * d \in Int
    OBVIOUS
  <2> QED BY <2>1, TimesPositive
<1>3. (a * d) * f = (a * f) * d /\ (c * b) * f = (c * f) * b /\ (e * d) * b = (e * b) * d
  OBVIOUS
<1>4. (a * f) * d > (e * b) * d
  <2>1. (a * f) * d \in Int /\ (c * f) * b \in Int /\ (e * b) * d \in Int
    OBVIOUS
  <2> QED BY <1>1, <1>2, <1>3, <2>1
<1>5. a * f \in Int /\ e * b \in Int
  OBVIOUS
<1> QED BY <1>4, <1>5, TimesPositive

(* By how many quotients are greater: the greater one has fewer. *)
Above(S, num, den, x) == {z \in S : num[z] * den[x] > num[x] * den[z]}

LEMMA QuotientsRank ==
    ASSUME NEW S, IsFiniteSet(S), NEW num, NEW den,
           \A x \in S : num[x] \in Int /\ den[x] \in Int /\ den[x] > 0,
           NEW x \in S, NEW y \in S, num[x] * den[y] > num[y] * den[x]
    PROVE  Cardinality(Above(S, num, den, x)) < Cardinality(Above(S, num, den, y))
<1> DEFINE up(u) == Above(S, num, den, u)
<1>1. up(x) \in SUBSET up(y)
  <2> SUFFICES ASSUME NEW z \in up(x) PROVE num[z] * den[y] > num[y] * den[z]
    BY DEF Above
  <2> QED BY QuotientsTransitive DEF Above
<1>2. x \in up(y) /\ x \notin up(x)
  <2>1. num[x] * den[x] \in Int
    OBVIOUS
  <2> QED BY <2>1 DEF Above
<1>3. \A u : IsFiniteSet(up(u)) /\ Cardinality(up(u)) \in Nat
  <2> TAKE u
  <2>1. up(u) \in SUBSET S
    BY DEF Above
  <2> HIDE DEF up
  <2> QED BY <2>1, FS_Subset, FS_CardinalityType
<1> HIDE DEF up
<1>4. /\ Cardinality(up(x)) <= Cardinality(up(y))
      /\ Cardinality(up(y)) = Cardinality(up(x)) => up(y) = up(x)
  BY <1>1, <1>3, FS_Subset
<1>5. Cardinality(up(x)) < Cardinality(up(y))
  BY <1>2, <1>3, <1>4
<1> QED BY <1>5 DEF up

(* A finite set has a member of the greatest measure. *)
LEMMA GreatestOf ==
    ASSUME NEW S, IsFiniteSet(S), S # {}, NEW m, \A x \in S : m[x] \in Int
    PROVE  \E x \in S : \A y \in S : m[y] <= m[x]
<1> DEFINE A == {T \in SUBSET S : T # {} => \E x \in T : \A y \in T : m[y] <= m[x]}
<1>1. ASSUME NEW T \in SUBSET S, \A x \in T : T \ {x} \in A
      PROVE  T \in A
  <2> SUFFICES ASSUME NEW c \in T PROVE \E x \in T : \A y \in T : m[y] <= m[x]
    OBVIOUS
  <2>1. CASE T \ {c} = {}
    BY <2>1
  <2>2. CASE T \ {c} # {}
    <3>1. PICK x \in T \ {c} : \A y \in T \ {c} : m[y] <= m[x]
      BY <1>1, <2>2
    <3>2. CASE m[c] <= m[x]
      BY <3>1, <3>2
    <3>3. CASE m[x] < m[c]
      BY <3>1, <3>3
    <3> QED BY <3>1, <3>2, <3>3
  <2> QED BY <2>1, <2>2
<1> HIDE DEF A
<1>2. S \in A
  BY <1>1, SetInduction
<1> QED BY <1>2 DEF A

=============================================================================
