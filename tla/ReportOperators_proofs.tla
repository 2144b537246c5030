----------------------- MODULE ReportOperators_proofs -----------------------
(***************************************************************************)
(* Lemmas about the operators of the measurements and the timeline: what a *)
(* recursion, a sum, an ordering and a selection return, and then what the *)
(* sampling plan, the palette, the tracks, the tension and a window do.    *)
(***************************************************************************)
EXTENDS ReportStages, FiniteSetTheorems, WellFoundedInduction, TLAPS

-----------------------------------------------------------------------------
(* Least numbers, ranks, and functions that are defined by recursion.      *)

LEMMA LeastNatural ==
  ASSUME NEW S \in SUBSET Nat, S # {}
  PROVE  \E x \in S : \A y \in S : x <= y
<1>1. PICK x \in S : \A y \in S : ~(<< y, x >> \in OpToRel(<, Nat))
  BY NatLessThanWellFounded, WFMin
<1>2. ASSUME NEW y \in S PROVE x <= y
  <2>1. x \in Nat /\ y \in Nat
    OBVIOUS
  <2>2. y < x => << y, x >> \in OpToRel(<, Nat)
    BY <2>1 DEF OpToRel
  <2>3. ~(y < x)
    BY <1>1, <2>2, Zenon
  <2> QED BY <2>1, <2>3
<1> QED BY <1>2

LEMMA UpTo ==
  ASSUME NEW n \in Nat, NEW J, 0 \in J,
         \A k \in 1..n : k - 1 \in J => k \in J
  PROVE  \A k \in 0..n : k \in J
<1> DEFINE S == {k \in 0..n : k \notin J}
<1> SUFFICES ASSUME S # {} PROVE FALSE
  OBVIOUS
<1>0. S \subseteq Nat
  OBVIOUS
<1>1. PICK x \in S : \A y \in S : x <= y
  <2> HIDE DEF S
  <2> QED BY <1>0, LeastNatural
<1>2. x \in 1..n /\ x - 1 \in 0..n /\ x - 1 \notin S
  BY <1>1
<1> QED BY <1>2

\* A strict total order ranks the members of a finite set from the first on.
StrictOrder(R, S) ==
  /\ \A s \in S : << s, s >> \notin R
  /\ \A s, t \in S : s # t => << s, t >> \in R \/ << t, s >> \in R
  /\ \A s, t, u \in S : << s, t >> \in R /\ << t, u >> \in R => << s, u >> \in R

Rank(s, S, R) == Cardinality({t \in S : << t, s >> \in R})

LEMMA Ranks ==
  ASSUME NEW S, IsFiniteSet(S), NEW R, StrictOrder(R, S)
  PROVE  /\ \A s \in S : Rank(s, S, R) \in 0..(Cardinality(S) - 1)
         /\ \A s, t \in S : Rank(s, S, R) < Rank(t, S, R) <=> << s, t >> \in R
         /\ \A k \in 1..Cardinality(S) : \E s \in S : Rank(s, S, R) = k - 1
<1> DEFINE n == Cardinality(S)
           B(s) == {t \in S : << t, s >> \in R}
           rank == [s \in S |-> Cardinality(B(s))]
<1>1. n \in Nat
  BY FS_CardinalityType
<1>2. \A s \in S : IsFiniteSet(B(s)) /\ rank[s] \in Nat
  BY FS_Subset, FS_CardinalityType
<1>21. \A s \in S : rank[s] = Cardinality(B(s))
  OBVIOUS
<1> HIDE DEF rank
<1>3. ASSUME NEW s \in S PROVE rank[s] \in 0..(n - 1)
  <2>1. B(s) \subseteq S \ {s}
    BY DEF StrictOrder
  <2>2. IsFiniteSet(S \ {s}) /\ Cardinality(S \ {s}) = n - 1
    BY FS_RemoveElement
  <2> HIDE DEF B, n
  <2>3. Cardinality(B(s)) <= Cardinality(S \ {s})
    BY Zenon, <2>1, <2>2, FS_Subset
  <2>4. Cardinality(B(s)) <= n - 1
    BY <2>2, <2>3
  <2> QED BY <2>4, <1>1, <1>2, <1>21
<1>4. ASSUME NEW s \in S, NEW t \in S, << s, t >> \in R PROVE rank[s] < rank[t]
  <2>1. B(s) \cup {s} \subseteq B(t)
    BY <1>4 DEF StrictOrder
  <2>2. s \notin B(s)
    BY DEF StrictOrder
  <2>3. Cardinality(B(s) \cup {s}) = Cardinality(B(s)) + 1
    BY <1>2, <2>2, FS_AddElement
  <2>4. Cardinality(B(s) \cup {s}) <= Cardinality(B(t))
    BY <1>2, <2>1, FS_Subset
  <2>5. Cardinality(B(s)) \in Nat /\ Cardinality(B(t)) \in Nat
    BY <1>2, FS_CardinalityType
  <2>6. rank[s] = Cardinality(B(s)) /\ rank[t] = Cardinality(B(t))
    BY <1>21
  <2> HIDE DEF B
  <2> QED BY <2>3, <2>4, <2>5, <2>6
<1> HIDE DEF B, n
<1>5. \A s, t \in S : rank[s] < rank[t] <=> << s, t >> \in R
  <2> SUFFICES ASSUME NEW s \in S, NEW t \in S, rank[s] < rank[t] PROVE << s, t >> \in R
    BY <1>4
  <2>1. s # t /\ ~(<< t, s >> \in R)
    BY <1>4, <1>2
  <2> QED BY <2>1 DEF StrictOrder
<1>6. rank \in Injection(S, 0..(n - 1))
  <2>1. \A s, t \in S : rank[s] = rank[t] => s = t
    <3> SUFFICES ASSUME NEW s \in S, NEW t \in S, rank[s] = rank[t], s # t PROVE FALSE
      OBVIOUS
    <3>1. << s, t >> \in R \/ << t, s >> \in R
      BY Zenon DEF StrictOrder
    <3> QED BY <3>1, <1>2, <1>4
  <2>2. rank \in [S -> 0..(n - 1)]
    BY <1>3 DEF rank
  <2> QED BY <2>1, <2>2 DEF Injection, IsInjective
<1>7. Cardinality(0..(n - 1)) = n /\ IsFiniteSet(0..(n - 1))
  BY <1>1, FS_Interval
<1>8. rank \in Surjection(S, 0..(n - 1))
  BY <1>6, <1>7, FS_Injection DEF n
<1>9. \A k \in 1..n : \E s \in S : rank[s] = k - 1
  <2> SUFFICES ASSUME NEW k \in 1..n PROVE \E s \in S : rank[s] = k - 1
    OBVIOUS
  <2>1. k - 1 \in 0..(n - 1)
    BY <1>1
  <2> QED BY <1>8, <2>1 DEF Surjection
<1>10. \A s \in S : rank[s] = Rank(s, S, R)
  BY <1>21 DEF B, Rank
<1> QED BY <1>3, <1>5, <1>9, <1>10 DEF n

Ascends(h, n, base, step) ==
  h[0] = base /\ \A k \in 1..n : h[k] = step[<< h[k - 1], k >>]

\* A function that is defined by recursion over 0..n exists.
LEMMA Recursion ==
  ASSUME NEW n \in Nat, NEW T, NEW base \in T, NEW step,
         \A k \in 1..n, x \in T : step[<< x, k >>] \in T
  PROVE  \E h \in [0..n -> T] : Ascends(h, n, base, step)
<1> DEFINE Solves(h, m) ==
             /\ h \in [0..m -> T]
             /\ h[0] = base
             /\ \A k \in 1..m : h[k] = step[<< h[k - 1], k >>]
           J == {m \in 0..n : \E h : Solves(h, m)}
<1>1. 0 \in J
  <2> DEFINE h == [i \in 0..0 |-> base]
  <2>1. Solves(h, 0)
    OBVIOUS
  <2>2. 0 \in 0..n
    OBVIOUS
  <2> HIDE DEF h, Solves
  <2> QED BY <2>1, <2>2
<1>2. ASSUME NEW k \in 1..n, k - 1 \in J PROVE k \in J
  <2>1. PICK h : Solves(h, k - 1)
    BY <1>2
  <2> DEFINE g == [i \in 0..k |-> IF i < k THEN h[i] ELSE step[<< h[k - 1], k >>]]
  <2>2. /\ h[k - 1] \in T /\ k - 1 \in 0..(k - 1) /\ k \in 0..k /\ 0 \in 0..k /\ 0 < k
        /\ step[<< h[k - 1], k >>] \in T
    BY <2>1
  <2>3. g \in [0..k -> T]
    BY <2>1, <2>2
  <2>4. g[0] = base
    BY <2>1, <2>2
  <2>41. g[k] = step[<< h[k - 1], k >>]
    BY <2>2
  <2>42. \A i \in 0..(k - 1) : g[i] = h[i]
    OBVIOUS
  <2> HIDE DEF g
  <2>5. ASSUME NEW i \in 1..k PROVE g[i] = step[<< g[i - 1], i >>]
    <3>1. i - 1 \in 0..(k - 1)
      OBVIOUS
    <3>2. g[i - 1] = h[i - 1]
      BY <3>1, <2>42
    <3>3. CASE i = k
      BY <3>2, <3>3, <2>41
    <3>4. CASE i # k
      <4>1. i \in 1..(k - 1) /\ i \in 0..(k - 1)
        BY <3>4
      <4>2. h[i] = step[<< h[i - 1], i >>] /\ g[i] = h[i]
        BY <4>1, <2>1, <2>42
      <4> QED BY <3>2, <4>2
    <3> QED BY <3>3, <3>4
  <2>6. Solves(g, k)
    BY <2>3, <2>4, <2>5
  <2>7. k \in 0..n
    OBVIOUS
  <2> HIDE DEF Solves
  <2> QED BY <2>6, <2>7
<1>3. n \in J
  <2> HIDE DEF J
  <2>1. \A k \in 0..n : k \in J
    BY <1>1, <1>2, UpTo
  <2> QED BY <2>1
<1> QED BY <1>3 DEF Ascends

\* Induction over the subsets of a finite set.
LEMMA SubsetInduction ==
  ASSUME NEW S, IsFiniteSet(S), NEW J,
         \A s \in SUBSET S : (\A r \in SUBSET s : r # s => r \in J) => s \in J
  PROVE  \A s \in SUBSET S : s \in J
<1> DEFINE Left == {r \in SUBSET S : r \notin J}
           Sizes == {Cardinality(s) : s \in Left}
<1> SUFFICES ASSUME Left # {} PROVE FALSE
  OBVIOUS
<1>1. \A s \in SUBSET S : IsFiniteSet(s) /\ Cardinality(s) \in Nat
  BY FS_Subset, FS_CardinalityType
<1>2. Sizes \subseteq Nat /\ Sizes # {}
  BY <1>1
<1>3. \A s \in Left : Cardinality(s) \in Sizes
  OBVIOUS
<1>4. \A k \in Sizes : \E s \in Left : Cardinality(s) = k
  OBVIOUS
<1> HIDE DEF Sizes
<1>5. PICK k \in Sizes : \A m \in Sizes : k <= m
  BY <1>2, LeastNatural
<1>6. PICK s \in Left : Cardinality(s) = k
  BY <1>4
<1>7. ASSUME NEW r \in SUBSET s, r # s PROVE r \in J
  <2>1. Cardinality(r) <= Cardinality(s) /\ Cardinality(r) # Cardinality(s)
    BY <1>1, <1>7, FS_Subset
  <2>2. r \in SUBSET S
    OBVIOUS
  <2>3. Cardinality(r) \in Nat /\ Cardinality(s) \in Nat
    BY <1>1, <2>2
  <2>4. r \notin Left
    BY <1>3, <1>5, <1>6, <2>1, <2>3
  <2> QED BY <2>2, <2>4
<1> QED BY <1>7

Descends(h, S, Stop, base, rest, step) ==
  \A s \in SUBSET S : h[s] = IF s \in Stop THEN base ELSE step[<< s, h[rest[s]] >>]

\* A function that is defined by recursion over the subsets of a finite set exists.
LEMMA SubsetRecursion ==
  ASSUME NEW S, IsFiniteSet(S), NEW T, NEW Stop, NEW base \in T, NEW rest, NEW step,
         \A s \in SUBSET S : s \notin Stop => rest[s] \in SUBSET s /\ rest[s] # s,
         \A s \in SUBSET S, x \in T : step[<< s, x >>] \in T
  PROVE  \E h \in [SUBSET S -> T] : Descends(h, S, Stop, base, rest, step)
<1> DEFINE n == Cardinality(S)
           Upto(m) == {s \in SUBSET S : Cardinality(s) <= m}
           Solves(h, m) ==
             /\ h \in [Upto(m) -> T]
             /\ \A s \in Upto(m) : h[s] = IF s \in Stop THEN base ELSE step[<< s, h[rest[s]] >>]
           J == {m \in 0..n : \E h : Solves(h, m)}
<1>1. n \in Nat /\ \A s \in SUBSET S : IsFiniteSet(s) /\ Cardinality(s) \in 0..n
  <2>1. n \in Nat
    BY FS_CardinalityType
  <2>2. ASSUME NEW s \in SUBSET S PROVE IsFiniteSet(s) /\ Cardinality(s) \in 0..n
    <3>1. IsFiniteSet(s) /\ Cardinality(s) <= n
      BY FS_Subset
    <3> QED BY <2>1, <3>1, FS_CardinalityType
  <2> QED BY <2>1, <2>2
<1> HIDE DEF n
<1>2. ASSUME NEW s \in SUBSET S, s \notin Stop
      PROVE  rest[s] \in SUBSET S /\ Cardinality(rest[s]) < Cardinality(s)
  <2>1. rest[s] \in SUBSET s /\ rest[s] # s
    BY <1>2
  <2>2. Cardinality(rest[s]) <= Cardinality(s) /\ Cardinality(rest[s]) # Cardinality(s)
    BY <2>1, <1>1, FS_Subset
  <2>3. rest[s] \in SUBSET S
    BY <2>1
  <2>4. Cardinality(rest[s]) \in Nat /\ Cardinality(s) \in Nat
    BY <1>1, <2>3
  <2> QED BY <2>2, <2>3, <2>4
<1>3. ASSUME NEW k \in 0..n, NEW h, k = 0 \/ Solves(h, k - 1) PROVE k \in J
  <2> DEFINE g == [s \in Upto(k) |-> IF Cardinality(s) < k THEN h[s]
                                     ELSE IF s \in Stop THEN base
                                     ELSE step[<< s, h[rest[s]] >>]]
  <2>1. ASSUME NEW s \in Upto(k), Cardinality(s) < k
        PROVE  k # 0 /\ s \in Upto(k - 1) /\ s \in SUBSET S
    BY <1>1, <2>1
  <2>2. ASSUME NEW s \in Upto(k), s \notin Stop
        PROVE  k # 0 /\ rest[s] \in Upto(k - 1) /\ rest[s] \in Upto(k) /\ Cardinality(rest[s]) < k
    <3>1. Cardinality(s) \in 0..n /\ Cardinality(s) <= k
      BY <1>1
    <3>2. rest[s] \in SUBSET S /\ Cardinality(rest[s]) < Cardinality(s)
      BY <1>2, <2>2
    <3>3. Cardinality(rest[s]) \in 0..n
      BY <1>1, <3>2
    <3> QED BY <3>1, <3>2, <3>3
  <2>3. \A s \in Upto(k) : s \in SUBSET S
    OBVIOUS
  <2>4. k # 0 => /\ \A s \in Upto(k - 1) : h[s] \in T
                 /\ \A s \in Upto(k - 1) :
                      h[s] = IF s \in Stop THEN base ELSE step[<< s, h[rest[s]] >>]
    BY <1>3
  <2> HIDE DEF Upto
  <2>5. \A s \in Upto(k) : g[s] = IF Cardinality(s) < k THEN h[s]
                                  ELSE IF s \in Stop THEN base ELSE step[<< s, h[rest[s]] >>]
    OBVIOUS
  <2>6. ASSUME NEW s \in Upto(k)
        PROVE  g[s] = IF s \in Stop THEN base ELSE step[<< s, h[rest[s]] >>]
    <3>1. CASE Cardinality(s) < k
      BY <2>1, <2>4, <2>5, <3>1
    <3>2. CASE ~(Cardinality(s) < k)
      BY <2>5, <3>2
    <3> QED BY <3>1, <3>2
  <2>7. ASSUME NEW s \in Upto(k), s \notin Stop PROVE g[rest[s]] = h[rest[s]]
    BY <2>2, <2>5, <2>7
  <2>8. \A s \in Upto(k) : g[s] = IF s \in Stop THEN base ELSE step[<< s, g[rest[s]] >>]
    BY <2>6, <2>7
  <2>9. \A s \in Upto(k) : g[s] \in T
    <3> SUFFICES ASSUME NEW s \in Upto(k), s \notin Stop PROVE step[<< s, h[rest[s]] >>] \in T
      BY <2>6
    <3>1. h[rest[s]] \in T
      BY <2>2, <2>4
    <3> QED BY <3>1, <2>3
  <2>10. g \in [Upto(k) -> T]
    BY <2>9
  <2> HIDE DEF g
  <2>11. Solves(g, k)
    BY <2>8, <2>10
  <2> HIDE DEF Solves
  <2> QED BY <2>11
<1>4. 0 \in J
  <2>1. 0 \in 0..n
    BY <1>1
  <2> HIDE DEF J, Solves
  <2> QED BY <2>1, <1>3
<1>5. \A k \in 1..n : k - 1 \in J => k \in J
  <2> SUFFICES ASSUME NEW k \in 1..n, k - 1 \in J PROVE k \in J
    OBVIOUS
  <2>1. k \in 0..n
    BY <1>1
  <2> HIDE DEF Solves
  <2>2. PICK h : Solves(h, k - 1)
    OBVIOUS
  <2> HIDE DEF J
  <2> QED BY <2>1, <2>2, <1>3
<1>6. n \in J
  <2> HIDE DEF J
  <2>1. \A k \in 0..n : k \in J
    BY <1>1, <1>4, <1>5, UpTo
  <2> QED BY <2>1, <1>1
<1>7. PICK h : Solves(h, n)
  BY <1>6
<1>8. Upto(n) = SUBSET S
  BY <1>1
<1> HIDE DEF Upto
<1> QED BY <1>7, <1>8 DEF Descends

-----------------------------------------------------------------------------
(* Sums.                                                                   *)

Sums(h, v, S) ==
  /\ SumFunction(v) = h[S]
  /\ h[{}] = 0
  /\ \A s \in SUBSET S : s # {} => \E x \in s : h[s] = v[x] + h[s \ {x}]

\* The sum over a finite set: one member is taken out after the other.
LEMMA SumSolution ==
  ASSUME NEW S, IsFiniteSet(S), NEW v \in [S -> Int]
  PROVE  \E h \in [SUBSET S -> Int] : Sums(h, v, S)
<1> DEFINE one(s) == CHOOSE x \in s : TRUE
           G(h) == h = [s \in SUBSET S |-> IF s = {} THEN 0 ELSE v[one(s)] + h[s \ {one(s)}]]
           H == CHOOSE h : G(h)
           rest == [s \in SUBSET S |-> s \ {one(s)}]
           step == [p \in (SUBSET S) \X Int |-> IF p[1] = {} THEN 0 ELSE v[one(p[1])] + p[2]]
<1>1. \A s \in SUBSET S : s # {} => one(s) \in s /\ one(s) \in S
  BY Zenon
<1>2. SumFunction(v) = H[S]
  BY Zenon DEF SumFunction, SumFunctionOnSet, FoldFunctionOnSet, MapThenFoldSet
<1> HIDE DEF one
<1>3. \A s \in SUBSET S : s \notin {{}} => rest[s] \in SUBSET s /\ rest[s] # s
  BY <1>1
<1>4. \A s \in SUBSET S, x \in Int : step[<< s, x >>] = IF s = {} THEN 0 ELSE v[one(s)] + x
  OBVIOUS
<1>6. \A s \in SUBSET S : rest[s] = s \ {one(s)}
  OBVIOUS
<1> HIDE DEF rest, step
<1>5. \A s \in SUBSET S, x \in Int : step[<< s, x >>] \in Int
  <2> SUFFICES ASSUME NEW s \in SUBSET S, NEW x \in Int PROVE step[<< s, x >>] \in Int
    OBVIOUS
  <2>1. step[<< s, x >>] = IF s = {} THEN 0 ELSE v[one(s)] + x
    BY <1>4
  <2>2. s # {} => v[one(s)] \in Int
    BY <1>1
  <2> QED BY <2>1, <2>2
<1>7. PICK h \in [SUBSET S -> Int] : Descends(h, S, {{}}, 0, rest, step)
  <2>1. 0 \in Int
    OBVIOUS
  <2> QED BY <2>1, <1>3, <1>5, SubsetRecursion
<1>8. ASSUME NEW s \in SUBSET S PROVE h[s] = IF s = {} THEN 0 ELSE v[one(s)] + h[s \ {one(s)}]
  <2>1. CASE s = {}
    BY <1>7, <2>1 DEF Descends
  <2>2. CASE s # {}
    <3>1. s \ {one(s)} \in SUBSET S /\ h[s \ {one(s)}] \in Int
      OBVIOUS
    <3>2. h[s] = step[<< s, h[s \ {one(s)}] >>]
      BY <1>6, <1>7, <2>2 DEF Descends
    <3> QED BY <3>1, <3>2, <1>4, <2>2
  <2> QED BY <2>1, <2>2
<1>9. G(h)
  BY <1>8
<1>10. G(H)
  <2> HIDE DEF G
  <2> QED BY <1>9
<1>11. H \in [SUBSET S -> Int] /\ \A s \in SUBSET S :
          H[s] = IF s = {} THEN 0 ELSE v[one(s)] + H[s \ {one(s)}]
  <2>1. DOMAIN H = SUBSET S
    BY <1>10
  <2>2. \A s \in SUBSET S : H[s] = IF s = {} THEN 0 ELSE v[one(s)] + H[s \ {one(s)}]
    BY <1>10
  <2> DEFINE J == {s \in SUBSET S : H[s] \in Int}
  <2> HIDE DEF H
  <2>3. ASSUME NEW s \in SUBSET S, \A r \in SUBSET s : r # s => r \in J PROVE s \in J
    <3>1. CASE s = {}
      <4>1. H[s] = 0
        BY <2>2, <3>1
      <4> QED BY <4>1
    <3>2. CASE s # {}
      <4>1. s \ {one(s)} \in J
        BY <1>1, <2>3, <3>2
      <4>2. v[one(s)] \in Int
        BY <1>1, <3>2
      <4>3. H[s] = v[one(s)] + H[s \ {one(s)}]
        BY <2>2, <3>2
      <4> QED BY <4>1, <4>2, <4>3
    <3> QED BY <3>1, <3>2
  <2>4. \A s \in SUBSET S : s \in J
    <3> HIDE DEF J
    <3> QED BY <2>3, SubsetInduction
  <2>5. H = [s \in SUBSET S |-> H[s]]
    <3>1. G(H)
      BY <1>10
    <3> HIDE DEF one
    <3> QED BY <3>1, <2>1
  <2> QED BY <2>2, <2>4, <2>5
<1>12. ASSUME NEW s \in SUBSET S, s # {} PROVE \E x \in s : H[s] = v[x] + H[s \ {x}]
  <2> HIDE DEF H
  <2> QED BY <1>1, <1>11, <1>12
<1>13. H[{}] = 0
  <2> HIDE DEF H
  <2> QED BY <1>11
<1> HIDE DEF H
<1> QED BY <1>2, <1>11, <1>12, <1>13 DEF Sums

LEMMA SumType ==
  ASSUME NEW S, IsFiniteSet(S), NEW v \in [S -> Int]
  PROVE  SumFunction(v) \in Int
<1>1. PICK h \in [SUBSET S -> Int] : Sums(h, v, S)
  BY SumSolution
<1> QED BY <1>1 DEF Sums

\* A sum is at least as often its least term as it has terms.
LEMMA SumAtLeast ==
  ASSUME NEW S, IsFiniteSet(S), NEW v \in [S -> Int], NEW low \in Int, \A x \in S : low <= v[x]
  PROVE  low * Cardinality(S) <= SumFunction(v)
<1>1. PICK h \in [SUBSET S -> Int] : Sums(h, v, S)
  BY SumSolution
<1> DEFINE J == {s \in SUBSET S : low * Cardinality(s) <= h[s]}
<1>2. ASSUME NEW s \in SUBSET S, \A r \in SUBSET s : r # s => r \in J PROVE s \in J
  <2>1. CASE s = {}
    BY <1>1, <2>1, FS_EmptySet DEF Sums
  <2>2. CASE s # {}
    <3>1. PICK x \in s : h[s] = v[x] + h[s \ {x}]
      BY <1>1, <2>2 DEF Sums
    <3>2. /\ IsFiniteSet(s) /\ Cardinality(s) \in Nat
          /\ Cardinality(s \ {x}) = Cardinality(s) - 1
      BY FS_Subset, FS_CardinalityType, FS_RemoveElement
    <3>3. low * (Cardinality(s) - 1) <= h[s \ {x}] /\ h[s \ {x}] \in Int
      BY <1>2, <3>2
    <3>4. low <= v[x] /\ v[x] \in Int
      OBVIOUS
    <3>5. low * Cardinality(s) = low * (Cardinality(s) - 1) + low
      BY <3>2
    <3>6. low * (Cardinality(s) - 1) \in Int
      BY <3>2
    <3> QED BY <3>1, <3>3, <3>4, <3>5, <3>6
  <2> QED BY <2>1, <2>2
<1>3. \A s \in SUBSET S : s \in J
  <2> HIDE DEF J
  <2> QED BY <1>2, SubsetInduction
<1> QED BY <1>1, <1>3 DEF Sums

LEMMA SumAtMost ==
  ASSUME NEW S, IsFiniteSet(S), NEW v \in [S -> Int], NEW high \in Int, \A x \in S : v[x] <= high
  PROVE  SumFunction(v) <= high * Cardinality(S)
<1>1. PICK h \in [SUBSET S -> Int] : Sums(h, v, S)
  BY SumSolution
<1> DEFINE J == {s \in SUBSET S : h[s] <= high * Cardinality(s)}
<1>2. ASSUME NEW s \in SUBSET S, \A r \in SUBSET s : r # s => r \in J PROVE s \in J
  <2>1. CASE s = {}
    BY <1>1, <2>1, FS_EmptySet DEF Sums
  <2>2. CASE s # {}
    <3>1. PICK x \in s : h[s] = v[x] + h[s \ {x}]
      BY <1>1, <2>2 DEF Sums
    <3>2. /\ IsFiniteSet(s) /\ Cardinality(s) \in Nat
          /\ Cardinality(s \ {x}) = Cardinality(s) - 1
      BY FS_Subset, FS_CardinalityType, FS_RemoveElement
    <3>3. h[s \ {x}] <= high * (Cardinality(s) - 1) /\ h[s \ {x}] \in Int
      BY <1>2, <3>2
    <3>4. v[x] <= high /\ v[x] \in Int
      OBVIOUS
    <3>5. high * Cardinality(s) = high * (Cardinality(s) - 1) + high
      BY <3>2
    <3>6. high * (Cardinality(s) - 1) \in Int
      BY <3>2
    <3> QED BY <3>1, <3>3, <3>4, <3>5, <3>6
  <2> QED BY <2>1, <2>2
<1>3. \A s \in SUBSET S : s \in J
  <2> HIDE DEF J
  <2> QED BY <1>2, SubsetInduction
<1> QED BY <1>1, <1>3 DEF Sums

-----------------------------------------------------------------------------
(* Orders and selections.                                                  *)

\* The members of a set one after the other, each before the next.
Orders(o, S, R) ==
  /\ o \in [1..Cardinality(S) -> S]
  /\ \A j, k \in 1..Cardinality(S) : j < k => << o[j], o[k] >> \in R
  /\ \A s \in S : \E k \in 1..Cardinality(S) : o[k] = s

LEMMA RanksOrder ==
  ASSUME NEW S, IsFiniteSet(S), NEW R, StrictOrder(R, S),
         NEW o, DOMAIN o = 1..Cardinality(S), o = [k \in DOMAIN o |-> o[k]],
         \A k \in 1..Cardinality(S) : o[k] \in S /\ Rank(o[k], S, R) = k - 1
  PROVE  Orders(o, S, R)
<1> DEFINE n == Cardinality(S)
           rank(s) == Rank(s, S, R)
<1>1. n \in Nat
  BY FS_CardinalityType
<1>2. /\ \A s \in S : rank(s) \in 0..(n - 1)
      /\ \A s, t \in S : rank(s) < rank(t) <=> << s, t >> \in R
  BY Ranks
<1>3. \A k \in 1..n : o[k] \in S /\ rank(o[k]) = k - 1
  OBVIOUS
<1>4. \A s, t \in S : rank(s) = rank(t) => s = t
  <2> SUFFICES ASSUME NEW s \in S, NEW t \in S, rank(s) = rank(t), s # t PROVE FALSE
    OBVIOUS
  <2> HIDE DEF rank
  <2>1. << s, t >> \in R \/ << t, s >> \in R
    BY Zenon DEF StrictOrder
  <2> QED BY <2>1, <1>2
<1> HIDE DEF rank, n
<1>5. o \in [1..n -> S]
  BY <1>3 DEF n
<1>6. \A j, k \in 1..n : j < k => << o[j], o[k] >> \in R
  BY <1>1, <1>2, <1>3
<1>7. ASSUME NEW s \in S PROVE \E k \in 1..n : o[k] = s
  <2>1. rank(s) + 1 \in 1..n /\ (rank(s) + 1) - 1 = rank(s)
    BY <1>1, <1>2
  <2>2. rank(o[rank(s) + 1]) = rank(s) /\ o[rank(s) + 1] \in S
    BY <1>3, <2>1
  <2> QED BY <1>4, <2>1, <2>2
<1> QED BY <1>5, <1>6, <1>7 DEF Orders, n

\* Whole numbers in their order.
LEMMA NumbersInOrder ==
  ASSUME NEW S \in SUBSET Int, IsFiniteSet(S)
  PROVE  LET o == InOrder(S, <) IN
         /\ o \in [1..Cardinality(S) -> S]
         /\ \A j, k \in 1..Cardinality(S) : j < k => o[j] < o[k]
         /\ \A s \in S : \E k \in 1..Cardinality(S) : o[k] = s
<1> DEFINE R == {p \in S \X S : p[1] < p[2]}
           o == InOrder(S, <)
           before(s) == {t \in S : t < s}
<1>1. StrictOrder(R, S)
  BY DEF StrictOrder
<1>2. \A s \in S : Rank(s, S, R) = Cardinality(before(s))
  <2>1. \A s \in S : before(s) = {t \in S : << t, s >> \in R}
    OBVIOUS
  <2> QED BY <2>1 DEF Rank
<1>3. \A k \in 1..Cardinality(S) : \E s \in S : Cardinality(before(s)) = k - 1
  <2> HIDE DEF R, before
  <2>1. \A k \in 1..Cardinality(S) : \E s \in S : Rank(s, S, R) = k - 1
    BY <1>1, Ranks
  <2> QED BY <1>2, <2>1
<1>4. o = [k \in 1..Cardinality(S) |-> CHOOSE s \in S : Cardinality(before(s)) = k - 1]
  BY Zenon DEF InOrder
<1> HIDE DEF o, before, R
<1>5. \A k \in 1..Cardinality(S) : o[k] \in S /\ Cardinality(before(o[k])) = k - 1
  <2> SUFFICES ASSUME NEW k \in 1..Cardinality(S)
               PROVE  o[k] \in S /\ Cardinality(before(o[k])) = k - 1
    OBVIOUS
  <2>1. o[k] = CHOOSE s \in S : Cardinality(before(s)) = k - 1
    BY <1>4
  <2> QED BY <2>1, <1>3, Zenon
<1>6. DOMAIN o = 1..Cardinality(S) /\ o = [k \in DOMAIN o |-> o[k]]
  BY <1>4
<1>7. \A k \in 1..Cardinality(S) : o[k] \in S /\ Rank(o[k], S, R) = k - 1
  BY <1>2, <1>5
<1>8. Orders(o, S, R)
  BY <1>1, <1>6, <1>7, RanksOrder
<1>9. \A j, k \in 1..Cardinality(S) : << o[j], o[k] >> \in R => o[j] < o[k]
  BY DEF R
<1> QED BY <1>8, <1>9 DEF Orders, o

\* What At keeps of a sequence, and where.
Keeps(o, seq, places) ==
  /\ \A j, k \in 1..Cardinality(places) : j < k => o[j] < o[k]
  /\ \A i \in places : \E k \in 1..Cardinality(places) : o[k] = i
  /\ \A k \in 1..Cardinality(places) : At(seq, places)[k] = seq[o[k]]

LEMMA AtPlaces ==
  ASSUME NEW seq, NEW n \in Nat, NEW places \in SUBSET (1..n)
  PROVE  /\ IsFiniteSet(places) /\ Cardinality(places) \in 0..n
         /\ Len(At(seq, places)) = Cardinality(places)
         /\ DOMAIN At(seq, places) = 1..Cardinality(places)
         /\ \E o \in [1..Cardinality(places) -> places] : Keeps(o, seq, places)
<1> DEFINE m == Cardinality(places)
           o == InOrder(places, <)
<1>1. IsFiniteSet(places) /\ m <= n /\ m \in Nat
  <2>1. IsFiniteSet(1..n) /\ Cardinality(1..n) = n
    BY FS_Interval
  <2> QED BY <2>1, FS_Subset, FS_CardinalityType
<1>2. places \in SUBSET Int
  OBVIOUS
<1>3. /\ o \in [1..m -> places]
      /\ \A j, k \in 1..m : j < k => o[j] < o[k]
      /\ \A s \in places : \E k \in 1..m : o[k] = s
  BY <1>1, <1>2, NumbersInOrder
<1>4. At(seq, places) = [k \in 1..m |-> seq[o[k]]]
  BY Zenon DEF At
<1> HIDE DEF o, m
<1>5. Len(At(seq, places)) = m
  BY <1>1, <1>4
<1>6. \A k \in 1..m : At(seq, places)[k] = seq[o[k]]
  BY <1>4
<1>7. DOMAIN At(seq, places) = 1..m
  BY <1>4
<1>8. o \in [1..m -> places] /\ Keeps(o, seq, places)
  BY <1>3, <1>6 DEF Keeps, m
<1> QED BY <1>1, <1>5, <1>7, <1>8 DEF m

-----------------------------------------------------------------------------
(* Quotients, and the frames of a regular clip.                            *)

LEMMA Quotient ==
  ASSUME NEW x \in Int, NEW y \in Nat, y > 0
  PROVE  /\ x \div y \in Int
         /\ y * (x \div y) <= x
         /\ x < y * (x \div y) + y
OBVIOUS

LEMMA MultipleBelow ==
  ASSUME NEW b \in Nat, NEW x \in Int, NEW y \in Int, x <= y
  PROVE  b * x <= b * y
OBVIOUS

\* The kth frame of a regular clip, and how many there are.
FrameAt(n, d, k) == (2000 * d * (k - 1) + n) \div (2 * n)
FrameCount(n, d, duration) == (duration * n) \div (1000 * d)

\* Neighbouring frames of a regular clip lie at most one frame duration and a
\* millisecond apart, the first one at 0, and the last one close to the end.
LEMMA RegularFrames ==
  ASSUME NEW n \in Nat, n > 0, NEW d \in Nat, d > 0, NEW dur \in Nat
  PROVE  LET P == frame_duration_ms(n, d)
             F(k) == FrameAt(n, d, k)
             last == FrameCount(n, d, dur)
         IN  /\ P \in Nat /\ P >= 1
             /\ F(1) = 0
             /\ \A k \in Nat \ {0} : F(k) \in Int /\ F(k + 1) \in Int /\ F(k + 1) <= F(k) + P + 1
             /\ last \in Nat
             /\ dur >= 5 * P => last >= 1 /\ F(last) >= dur - 2 * P - 1
<1> DEFINE q == (2000 * d + n) \div (2 * n)
           P == frame_duration_ms(n, d)
           F(k) == (2000 * d * (k - 1) + n) \div (2 * n)
           last == (dur * n) \div (1000 * d)
<1>1. /\ q \in Int /\ (2 * n) * q <= 2000 * d + n /\ 2000 * d + n < (2 * n) * q + 2 * n
  BY Quotient
<1>2. P = Larger(1, q)
  BY DEF frame_duration_ms
<1> HIDE DEF q, P
<1>3. P \in Nat /\ P >= 1 /\ q <= P
  BY <1>1, <1>2 DEF Larger
<1>4. 2000 * d < 2 * n * P + n
  <2>1. (2 * n) * q <= (2 * n) * P
    BY <1>1, <1>3, MultipleBelow
  <2> QED BY <2>1, <1>1, <1>3
<1>5. ASSUME NEW k \in Nat \ {0}
      PROVE  /\ F(k) \in Int
             /\ (2 * n) * F(k) <= 2000 * d * (k - 1) + n
             /\ 2000 * d * (k - 1) + n < (2 * n) * F(k) + 2 * n
  <2>1. 2000 * d * (k - 1) + n \in Int /\ 2 * n \in Nat /\ 2 * n > 0
    OBVIOUS
  <2> QED BY <2>1, Quotient
<1>6. F(1) = 0
  <2>1. 2000 * d * (1 - 1) + n = n
    OBVIOUS
  <2>2. n \div (2 * n) = 0
    OBVIOUS
  <2> QED BY <2>1, <2>2
<1>10. /\ last \in Int /\ (1000 * d) * last <= dur * n /\ dur * n < (1000 * d) * last + 1000 * d
  BY Quotient
<1> HIDE DEF F, last
<1>7. ASSUME NEW k \in Nat \ {0} PROVE F(k + 1) <= F(k) + P + 1
  <2>1. /\ F(k) \in Int /\ F(k + 1) \in Int /\ k + 1 \in Nat \ {0} /\ (k + 1) - 1 = k
    BY <1>5
  <2>2. (2 * n) * F(k + 1) <= 2000 * d * k + n
    BY <2>1, <1>5
  <2>3. 2000 * d * (k - 1) + n < (2 * n) * F(k) + 2 * n
    BY <1>5
  <2>4. (2 * n) * F(k + 1) < 2 * n * F(k) + 2 * n + 2 * n * P + n
    BY <2>1, <2>2, <2>3, <1>3, <1>4
  <2> SUFFICES ASSUME F(k) + P + 2 <= F(k + 1) PROVE FALSE
    BY <2>1, <1>3
  <2>5. (2 * n) * (F(k) + P + 2) <= (2 * n) * F(k + 1)
    BY <2>1, <1>3, MultipleBelow
  <2> QED BY <2>1, <2>4, <2>5, <1>3
<1>8. last \in Nat
  <2>0. last \in Int
    BY <1>10
  <2> SUFFICES ASSUME last <= -1 PROVE FALSE
    BY <2>0
  <2>1. (1000 * d) * last <= (1000 * d) * (-1)
    BY <2>0, MultipleBelow
  <2>2. dur * n >= 0
    OBVIOUS
  <2> QED BY <2>1, <2>2, <1>10
<1>9. ASSUME dur >= 5 * P PROVE last >= 1 /\ F(last) >= dur - 2 * P - 1
  <2>1. n * (5 * P) <= n * dur
    BY <1>9, <1>3, MultipleBelow
  <2>2. n * 1 <= n * P
    BY <1>3, MultipleBelow
  <2>3. last >= 1
    <3> SUFFICES ASSUME last = 0 PROVE FALSE
      BY <1>8
    <3>1. dur * n < 1000 * d
      BY <1>10
    <3> QED BY <3>1, <2>1, <2>2, <1>3, <1>4
  <2>4. last \in Nat \ {0} /\ F(last) \in Int
    BY <1>8, <2>3, <1>5
  <2>5. 2000 * d * (last - 1) + n < (2 * n) * F(last) + 2 * n
    BY <2>4, <1>5
  <2>6. 2 * (dur * n) - 4000 * d + n < (2 * n) * F(last) + 2 * n
    BY <2>4, <2>5, <1>10
  <2>7. 2 * (dur * n) - 4 * n * P - 2 * n + n < (2 * n) * F(last) + 2 * n
    BY <2>4, <2>6, <1>3, <1>4
  <2> SUFFICES ASSUME F(last) <= dur - 2 * P - 2 PROVE FALSE
    BY <2>3, <2>4, <1>3
  <2>8. (2 * n) * F(last) <= (2 * n) * (dur - 2 * P - 2)
    BY <2>4, <1>3, MultipleBelow
  <2> QED BY <2>4, <2>7, <2>8, <1>3
<1> QED BY <1>3, <1>5, <1>6, <1>7, <1>8, <1>9 DEF P, F, last, FrameAt, FrameCount

-----------------------------------------------------------------------------
(* A window of a timeline.                                                 *)

\* A quotient rounded to the nearest is at most a half away.
LEMMA RoundDivNear ==
  ASSUME NEW a \in Nat, NEW b \in Nat, b > 0
  PROVE  /\ RoundDiv(a, b) \in Nat
         /\ 2 * a - b <= 2 * (b * RoundDiv(a, b))
         /\ 2 * (b * RoundDiv(a, b)) <= 2 * a + b
<1> DEFINE q == a \div b
           m == a % b
           r == RoundDiv(a, b)
<1>1. q \in Int /\ b * q <= a /\ a < b * q + b
  BY Quotient
<1>2. m = a - b * q
  BY <1>1
<1>3. r = IF 2 * m > b \/ (2 * m = b /\ q % 2 = 1) THEN q + 1 ELSE q
  BY DEF RoundDiv
<1> HIDE DEF q, m, r
<1>4. q \in Nat
  <2> SUFFICES ASSUME q <= -1 PROVE FALSE
    BY <1>1
  <2>1. b * q <= b * (-1)
    BY <1>1, MultipleBelow
  <2> QED BY <2>1, <1>1
<1>5. CASE r = q + 1 /\ 2 * m >= b
  <2>1. b * r = b * q + b
    BY <1>4, <1>5
  <2> QED BY <2>1, <1>1, <1>2, <1>4, <1>5 DEF r
<1>6. CASE r = q /\ 2 * m <= b
  BY <1>1, <1>2, <1>4, <1>6 DEF r
<1>7. m \in Int
  BY <1>1, <1>2, <1>4
<1> QED BY <1>3, <1>5, <1>6, <1>7

LEMMA RoundDivExact ==
  ASSUME NEW n \in Nat, NEW b \in Nat, b > 0
  PROVE  RoundDiv(b * n, b) = n
<1> DEFINE r == RoundDiv(b * n, b)
<1>1. b * n \in Nat
  OBVIOUS
<1>2. r \in Nat /\ 2 * (b * n) - b <= 2 * (b * r) /\ 2 * (b * r) <= 2 * (b * n) + b
  BY <1>1, RoundDivNear
<1> HIDE DEF r
<1>3. ~(r <= n - 1)
  <2> SUFFICES ASSUME r <= n - 1 PROVE FALSE
    OBVIOUS
  <2>1. b * r <= b * (n - 1)
    BY <1>2, MultipleBelow
  <2> QED BY <2>1, <1>2
<1>4. ~(n + 1 <= r)
  <2> SUFFICES ASSUME n + 1 <= r PROVE FALSE
    OBVIOUS
  <2>1. b * (n + 1) <= b * r
    BY <1>2, MultipleBelow
  <2> QED BY <2>1, <1>2
<1> QED BY <1>2, <1>3, <1>4 DEF r

\* A stride of more than one point never shows a point twice.
LEMMA RoundDivStrict ==
  ASSUME NEW a \in Nat, NEW c \in Nat, NEW b \in Nat, b > 0, a + b < c
  PROVE  RoundDiv(a, b) < RoundDiv(c, b)
<1>1. /\ RoundDiv(a, b) \in Nat /\ 2 * (b * RoundDiv(a, b)) <= 2 * a + b
      /\ RoundDiv(c, b) \in Nat /\ 2 * c - b <= 2 * (b * RoundDiv(c, b))
  BY RoundDivNear
<1> SUFFICES ASSUME RoundDiv(c, b) <= RoundDiv(a, b) PROVE FALSE
  BY <1>1
<1>2. b * RoundDiv(c, b) <= b * RoundDiv(a, b)
  BY <1>1, MultipleBelow
<1>3. b * RoundDiv(c, b) \in Int /\ b * RoundDiv(a, b) \in Int
  BY <1>1
<1> QED BY <1>1, <1>2, <1>3

LEMMA Cap ==
  ASSUME NEW max \in 1..MAX_TIMELINE_POINTS
  PROVE  Min({Max({1, max}), MAX_TIMELINE_POINTS}) = max /\ Larger(1, max) = max
<1>1. max \in Nat /\ 1 <= max /\ max <= 2000
  BY DEF MAX_TIMELINE_POINTS
<1>2. Max({1, max}) = max
  BY <1>1 DEF Max
<1>3. Min({max, 2000}) = max
  BY <1>1 DEF Min
<1> QED BY <1>1, <1>2, <1>3 DEF MAX_TIMELINE_POINTS, Larger

\* What a window shows of a timeline.
ShowsWindow(shown, inside, max) ==
  /\ Len(shown) = Smaller(Len(inside), Larger(1, max))
  /\ points_are_strictly_increasing(shown)
  /\ \A i \in 1..Len(shown) : shown[i] \in {inside[j] : j \in 1..Len(inside)}
  /\ shown # << >> => shown[1] = inside[1]
  /\ Len(shown) > 1 => shown[Len(shown)] = inside[Len(inside)]

LEMMA WindowShows ==
  ASSUME NEW points, Len(points) \in Nat,
         \A i \in 1..Len(points) : points[i].at_ms \in Int,
         \A i, j \in 1..Len(points) : i < j => points[i].at_ms < points[j].at_ms,
         NEW start \in Int, NEW end \in Int, NEW max \in 1..MAX_TIMELINE_POINTS
  PROVE  ShowsWindow(window_timeline(points, start, end, max), Inside(points, start, end), max)
<1> DEFINE inside == Inside(points, start, end)
           L == Len(inside)
           shown == window_timeline(points, start, end, max)
<1>1. /\ L \in Nat /\ DOMAIN inside = 1..L
      /\ \E o \in [1..L -> 1..Len(points)] :
           /\ \A j, k \in 1..L : j < k => o[j] < o[k]
           /\ \A k \in 1..L : inside[k] = points[o[k]]
  <2> DEFINE places == {i \in 1..Len(points) : start <= points[i].at_ms /\ points[i].at_ms < end}
  <2>1. inside = At(points, places)
    BY DEF Inside
  <2>2. places \in SUBSET (1..Len(points))
    OBVIOUS
  <2> HIDE DEF places, inside
  <2>3. /\ Cardinality(places) \in 0..Len(points)
        /\ Len(At(points, places)) = Cardinality(places)
        /\ DOMAIN At(points, places) = 1..Cardinality(places)
        /\ \E o \in [1..Cardinality(places) -> places] : Keeps(o, points, places)
    BY <2>2, AtPlaces
  <2>4. PICK o \in [1..Cardinality(places) -> places] : Keeps(o, points, places)
    BY <2>3
  <2>5. o \in [1..L -> 1..Len(points)] /\ Cardinality(places) = L
    BY <2>1, <2>2, <2>3
  <2>6. /\ \A j, k \in 1..Cardinality(places) : j < k => o[j] < o[k]
        /\ \A k \in 1..Cardinality(places) : inside[k] = points[o[k]]
    BY <2>1, <2>4 DEF Keeps
  <2>7. L \in Nat /\ DOMAIN inside = 1..L
    BY <2>1, <2>3
  <2> HIDE DEF L
  <2> QED BY <2>5, <2>6, <2>7
<1>2. \A j, k \in 1..L : j < k => inside[j].at_ms < inside[k].at_ms
  <2>1. PICK o \in [1..L -> 1..Len(points)] :
           /\ \A j, k \in 1..L : j < k => o[j] < o[k]
           /\ \A k \in 1..L : inside[k] = points[o[k]]
    BY <1>1
  <2> HIDE DEF inside, L
  <2> QED BY <2>1
<1>3. max \in Nat /\ max >= 1
  OBVIOUS
<1>4. shown = IF L <= max THEN inside
              ELSE IF max = 1 THEN << inside[1] >>
              ELSE [i \in 1..max |-> inside[RoundDiv((i - 1) * (L - 1), max - 1) + 1]]
  BY Cap DEF window_timeline
<1>5. Larger(1, max) = max
  BY Cap
<1> HIDE DEF inside, L, shown
<1>6. CASE L <= max
  <2>1. shown = inside /\ Len(shown) = L
    BY <1>4, <1>6 DEF L
  <2>2. Smaller(L, max) = L
    BY <1>1, <1>3, <1>6 DEF Smaller
  <2>3. points_are_strictly_increasing(shown)
    BY <1>1, <1>2, <2>1 DEF points_are_strictly_increasing
  <2> QED BY <1>5, <2>1, <2>2, <2>3 DEF ShowsWindow, L, shown, inside
<1>7. CASE L > max /\ max = 1
  <2>1. shown = << inside[1] >> /\ Len(shown) = 1 /\ shown[1] = inside[1]
    BY <1>1, <1>3, <1>4, <1>7
  <2>2. Smaller(L, max) = 1 /\ 1 \in 1..L
    BY <1>1, <1>3, <1>7 DEF Smaller
  <2>3. points_are_strictly_increasing(shown)
    BY <2>1 DEF points_are_strictly_increasing
  <2>4. ShowsWindow(shown, inside, max)
    BY <1>5, <2>1, <2>2, <2>3 DEF ShowsWindow, L
  <2> QED BY <2>4 DEF shown, inside
<1>8. CASE L > max /\ max # 1
  <2> DEFINE e(i) == RoundDiv((i - 1) * (L - 1), max - 1)
  <2>1. shown = [i \in 1..max |-> inside[e(i) + 1]]
    BY <1>1, <1>3, <1>4, <1>8
  <2>2. max - 1 \in Nat /\ max - 1 > 0 /\ L - 1 \in Nat /\ max - 1 < L - 1
    BY <1>1, <1>3, <1>8
  <2>3. \A i \in 1..max : (i - 1) * (L - 1) \in Nat
    BY <2>2
  <2>4. \A i \in 1..max : e(i) \in Nat
    BY <2>2, <2>3, RoundDivNear
  <2>5. ASSUME NEW i \in 1..max, NEW j \in 1..max, i < j PROVE e(i) < e(j)
    <3>1. (i - 1) * (L - 1) + (L - 1) = i * (L - 1)
      BY <2>2
    <3>2. (L - 1) * i <= (L - 1) * (j - 1)
      BY <2>2, <2>5, MultipleBelow
    <3>3. (i - 1) * (L - 1) + (max - 1) < (j - 1) * (L - 1)
      BY <2>2, <3>1, <3>2
    <3> QED BY <2>2, <2>3, <3>3, RoundDivStrict
  <2>6. e(1) = 0
    <3>1. (1 - 1) * (L - 1) = (max - 1) * 0
      BY <2>2
    <3> QED BY <2>2, <3>1, RoundDivExact
  <2>7. e(max) = L - 1
    BY <2>2, RoundDivExact
  <2> HIDE DEF e
  <2>8. \A i \in 1..max : e(i) + 1 \in 1..L
    <3> SUFFICES ASSUME NEW i \in 1..max PROVE e(i) + 1 \in 1..L
      OBVIOUS
    <3>1. i = max \/ e(i) < e(max)
      BY <2>5, <1>3
    <3> QED BY <3>1, <2>2, <2>4, <2>7, <1>1, <1>3
  <2>9. Len(shown) = max /\ \A i \in 1..max : shown[i] = inside[e(i) + 1]
    BY <2>1, <1>3
  <2>10. points_are_strictly_increasing(shown)
    <3> SUFFICES ASSUME NEW i \in 1..(max - 1) PROVE shown[i].at_ms < shown[i + 1].at_ms
      BY <2>9 DEF points_are_strictly_increasing
    <3>1. i \in 1..max /\ i + 1 \in 1..max /\ i < i + 1
      BY <1>3
    <3>2. e(i) + 1 < e(i + 1) + 1
      BY <2>4, <2>5, <3>1
    <3> QED BY <1>2, <2>8, <2>9, <3>1, <3>2
  <2>11. Smaller(L, max) = max
    BY <1>1, <1>3, <1>8 DEF Smaller
  <2>12. shown[1] = inside[1] /\ shown[max] = inside[L]
    <3>1. 1 \in 1..max /\ max \in 1..max /\ e(1) + 1 = 1 /\ e(max) + 1 = L
      BY <2>6, <2>7, <1>1, <1>3
    <3> QED BY <2>9, <3>1
  <2>13. ShowsWindow(shown, inside, max)
    BY <1>5, <2>8, <2>9, <2>10, <2>11, <2>12 DEF ShowsWindow, L
  <2> QED BY <2>13 DEF shown, inside
<1> QED BY <1>1, <1>3, <1>6, <1>7, <1>8

-----------------------------------------------------------------------------
(* The palette.                                                            *)

\* A swatch, of any lightness.
Tone == [lstar : Int, count : Nat \ {0}]

LEMMA ImageFinite ==
  ASSUME NEW S, IsFiniteSet(S), NEW f, f = [x \in S |-> f[x]]
  PROVE  /\ IsFiniteSet({f[x] : x \in S})
         /\ Cardinality({f[x] : x \in S}) <= Cardinality(S)
<1> DEFINE T == {f[x] : x \in S}
<1>1. f \in [S -> T]
  OBVIOUS
<1>2. \A t \in T : \E x \in S : f[x] = t
  OBVIOUS
<1> HIDE DEF T
<1>3. f \in Surjection(S, T)
  BY <1>1, <1>2, Zenon DEF Surjection
<1>4. IsFiniteSet(T) /\ Cardinality(T) <= Cardinality(S)
  BY <1>3, FS_Surjection
<1> QED BY <1>4 DEF T

InOrderAhead(o, S) ==
  /\ o \in [1..Cardinality(S) -> S]
  /\ Len(o) = Cardinality(S)
  /\ \A j, k \in 1..Cardinality(S) : j < k => Ahead(o[j], o[k])

LEMMA TonesInOrder ==
  ASSUME NEW S, S \subseteq [lstar : Int, count : Int], IsFiniteSet(S)
  PROVE  InOrderAhead(InOrder(S, Ahead), S)
<1> DEFINE R == {p \in S \X S : Ahead(p[1], p[2])}
           o == InOrder(S, Ahead)
           before(s) == {t \in S : Ahead(t, s)}
<1>1. StrictOrder(R, S)
  <2>1. \A a, b \in S : a # b => Ahead(a, b) \/ Ahead(b, a)
    BY DEF Ahead
  <2>2. \A a \in S : ~Ahead(a, a)
    BY DEF Ahead
  <2>3. \A a, b, c \in S : Ahead(a, b) /\ Ahead(b, c) => Ahead(a, c)
    BY DEF Ahead
  <2>4. \A a, b \in S : << a, b >> \in R <=> Ahead(a, b)
    OBVIOUS
  <2> HIDE DEF R
  <2> QED BY <2>1, <2>2, <2>3, <2>4, Zenon DEF StrictOrder
<1>2. \A s \in S : Rank(s, S, R) = Cardinality(before(s))
  <2>1. \A s \in S : before(s) = {t \in S : << t, s >> \in R}
    OBVIOUS
  <2> QED BY <2>1 DEF Rank
<1>3. \A k \in 1..Cardinality(S) : \E s \in S : Cardinality(before(s)) = k - 1
  <2> HIDE DEF R, before
  <2>1. \A k \in 1..Cardinality(S) : \E s \in S : Rank(s, S, R) = k - 1
    BY <1>1, Ranks
  <2> QED BY <1>2, <2>1
<1>4. o = [k \in 1..Cardinality(S) |-> CHOOSE s \in S : Cardinality(before(s)) = k - 1]
  BY Zenon DEF InOrder
<1> HIDE DEF o, before, R
<1>5. \A k \in 1..Cardinality(S) : o[k] \in S /\ Cardinality(before(o[k])) = k - 1
  <2> SUFFICES ASSUME NEW k \in 1..Cardinality(S)
               PROVE  o[k] \in S /\ Cardinality(before(o[k])) = k - 1
    OBVIOUS
  <2>1. o[k] = CHOOSE s \in S : Cardinality(before(s)) = k - 1
    BY <1>4
  <2> QED BY <2>1, <1>3, Zenon
<1>6. DOMAIN o = 1..Cardinality(S) /\ o = [k \in DOMAIN o |-> o[k]]
  BY <1>4
<1>7. \A k \in 1..Cardinality(S) : o[k] \in S /\ Rank(o[k], S, R) = k - 1
  BY <1>2, <1>5
<1>8. Orders(o, S, R)
  BY <1>1, <1>6, <1>7, RanksOrder
<1>9. \A j, k \in 1..Cardinality(S) : << o[j], o[k] >> \in R => Ahead(o[j], o[k])
  BY DEF R
<1>10. Cardinality(S) \in Nat
  BY FS_CardinalityType
<1>11. Len(o) = Cardinality(S)
  BY <1>4, <1>10
<1> QED BY <1>8, <1>9, <1>11 DEF Orders, InOrderAhead, o

LEMMA BlendType ==
  ASSUME NEW a \in Tone, NEW b \in Tone
  PROVE  Blend(a, b) \in Tone
<1>1. /\ a.lstar \in Int /\ a.count \in Nat /\ a.count > 0
      /\ b.lstar \in Int /\ b.count \in Nat /\ b.count > 0
  BY DEF Tone
<1> DEFINE n == a.count + b.count
           s == a.lstar * a.count + b.lstar * b.count
<1>2. n \in Nat /\ n > 0
  BY <1>1
<1>3. s \in Int
  BY <1>1
<1>4. Blend(a, b) = [lstar |-> s \div n, count |-> n]
  BY DEF Blend
<1> HIDE DEF n, s
<1>5. s \div n \in Int
  BY <1>2, <1>3
<1> QED BY <1>2, <1>4, <1>5 DEF Tone

\* A centre joins one of those before it or follows them.
Joined(before, item) ==
  LET near == {i \in 1..Len(before) : near_enough(before[i], item)} IN
  IF near = {} THEN Append(before, item)
  ELSE LET i == CHOOSE x \in near : \A y \in near : x <= y
       IN  [before EXCEPT ![i] = Blend(@, item)]

LEMMA JoinedType ==
  ASSUME NEW before \in Seq(Tone), NEW item \in Tone
  PROVE  /\ Joined(before, item) \in Seq(Tone)
         /\ Len(Joined(before, item)) >= 1
         /\ Len(Joined(before, item)) <= Len(before) + 1
<1> DEFINE near == {i \in 1..Len(before) : near_enough(before[i], item)}
           i == CHOOSE x \in near : \A y \in near : x <= y
<1>1. Len(before) \in Nat
  OBVIOUS
<1>2. CASE near = {}
  <2>1. Joined(before, item) = Append(before, item)
    BY <1>2, Zenon DEF Joined
  <2> QED BY <2>1, <1>1
<1>3. CASE near # {}
  <2>1. Joined(before, item) = [before EXCEPT ![i] = Blend(before[i], item)]
    BY <1>3, Zenon DEF Joined
  <2>2. near \subseteq Nat /\ near \subseteq 1..Len(before)
    OBVIOUS
  <2> HIDE DEF near
  <2>3. \E x \in near : \A y \in near : x <= y
    BY <1>3, <2>2, LeastNatural
  <2>4. i \in near
    BY <2>3, Zenon
  <2> HIDE DEF i
  <2>5. i \in 1..Len(before) /\ before[i] \in Tone
    BY <2>2, <2>4
  <2>6. Blend(before[i], item) \in Tone
    BY <2>5, BlendType
  <2> DEFINE b == Blend(before[i], item)
             new == [before EXCEPT ![i] = b]
  <2> HIDE DEF b
  <2>7. new \in [1..Len(before) -> Tone]
    BY <2>5, <2>6 DEF b
  <2>8. new \in Seq(Tone) /\ Len(new) = Len(before)
    <3> HIDE DEF new
    <3> QED BY <2>7, <1>1
  <2>9. Len(before) >= 1
    BY <2>5, <1>1
  <2> QED BY <2>1, <2>8, <2>9, <1>1 DEF new, b
<1> QED BY <1>2, <1>3

\* At least one swatch is left of the centres, and at most as many as there were.
LEMMA MergedType ==
  ASSUME NEW centres \in SUBSET Tone, IsFiniteSet(centres), centres # {}
  PROVE  /\ merge_centres(centres) \in Seq(Tone)
         /\ Len(merge_centres(centres)) \in 1..Cardinality(centres)
<1> DEFINE items == InOrder(centres, Ahead)
           n == Len(items)
           G(h) == h = [k \in 0..n |-> IF k = 0 THEN << >> ELSE Joined(h[k - 1], items[k])]
           H == CHOOSE h : G(h)
           step == [p \in Seq(Tone) \X (1..n) |-> Joined(p[1], items[p[2]])]
<1>1. n = Cardinality(centres) /\ n \in Nat /\ n >= 1 /\ \A k \in 1..n : items[k] \in Tone
  <2>1. centres \subseteq [lstar : Int, count : Int]
    BY DEF Tone
  <2>2. InOrderAhead(items, centres)
    BY <2>1, TonesInOrder
  <2>3. Cardinality(centres) \in Nat /\ Cardinality(centres) # 0
    BY FS_CardinalityType, FS_EmptySet
  <2> HIDE DEF items
  <2> QED BY <2>2, <2>3 DEF InOrderAhead
<1>2. merge_centres(centres) = H[n]
  BY Zenon DEF merge_centres, Joined
<1> HIDE DEF items, n
<1>3. \A k \in 1..n, x \in Seq(Tone) : step[<< x, k >>] = Joined(x, items[k])
  OBVIOUS
<1> HIDE DEF step
<1>4. \A k \in 1..n, x \in Seq(Tone) : step[<< x, k >>] \in Seq(Tone)
  BY <1>1, <1>3, JoinedType
<1>5. PICK h \in [0..n -> Seq(Tone)] : Ascends(h, n, << >>, step)
  <2>1. << >> \in Seq(Tone)
    OBVIOUS
  <2> QED BY <2>1, <1>1, <1>4, Recursion
<1>6. \A k \in 0..n : h[k] = IF k = 0 THEN << >> ELSE Joined(h[k - 1], items[k])
  <2> SUFFICES ASSUME NEW k \in 0..n, k # 0 PROVE h[k] = Joined(h[k - 1], items[k])
    BY <1>5 DEF Ascends
  <2>1. k \in 1..n /\ k - 1 \in 0..n
    BY <1>1
  <2> QED BY <2>1, <1>3, <1>5 DEF Ascends
<1>7. G(h)
  <2>1. h = [k \in 0..n |-> h[k]]
    OBVIOUS
  <2> QED BY <2>1, <1>6
<1>8. G(H)
  <2> HIDE DEF G
  <2> QED BY <1>7
<1>9. /\ H[0] = << >>
      /\ \A k \in 1..n : H[k] = Joined(H[k - 1], items[k])
  <2>1. \A k \in 0..n : H[k] = IF k = 0 THEN << >> ELSE Joined(H[k - 1], items[k])
    <3> DEFINE F(g) == [k \in 0..n |-> IF k = 0 THEN << >> ELSE Joined(g[k - 1], items[k])]
    <3>1. H = F(H)
      BY <1>8
    <3>2. \A k \in 0..n : F(H)[k] = IF k = 0 THEN << >> ELSE Joined(H[k - 1], items[k])
      <4> HIDE DEF H
      <4> QED OBVIOUS
    <3> HIDE DEF F, H
    <3> QED BY <3>1, <3>2
  <2> HIDE DEF H
  <2> QED BY <2>1, <1>1
<1> HIDE DEF H
<1> DEFINE J == {k \in 0..n : H[k] \in Seq(Tone) /\ Len(H[k]) <= k /\ (k >= 1 => Len(H[k]) >= 1)}
<1>10. 0 \in J
  <2>1. 0 \in 0..n /\ ~(0 >= 1)
    BY <1>1
  <2>2. H[0] \in Seq(Tone) /\ Len(H[0]) = 0
    BY <1>9
  <2> QED BY <2>1, <2>2
<1>11. ASSUME NEW k \in 1..n, k - 1 \in J PROVE k \in J
  <2>1. H[k - 1] \in Seq(Tone) /\ Len(H[k - 1]) <= k - 1 /\ Len(H[k - 1]) \in Nat
    BY <1>11
  <2>2. H[k] = Joined(H[k - 1], items[k]) /\ items[k] \in Tone
    BY <1>1, <1>9
  <2>3. H[k] \in Seq(Tone) /\ Len(H[k]) >= 1 /\ Len(H[k]) <= Len(H[k - 1]) + 1
    BY <2>1, <2>2, JoinedType
  <2>4. Len(H[k]) \in Nat
    BY <2>3
  <2> QED BY <2>1, <2>3, <2>4
<1>12. n \in J
  <2> HIDE DEF J
  <2>1. \A k \in 0..n : k \in J
    BY <1>1, <1>10, <1>11, UpTo
  <2> QED BY <2>1, <1>1
<1>13. H[n] \in Seq(Tone) /\ Len(H[n]) <= n /\ Len(H[n]) >= 1 /\ Len(H[n]) \in Nat
  BY <1>1, <1>12
<1> QED BY <1>1, <1>2, <1>13

\* One swatch for each lightness, no more than there were.
LEMMA DuplicatesType ==
  ASSUME NEW merged \in Seq(Tone), Len(merged) >= 1
  PROVE  /\ merge_duplicates(merged) \subseteq [lstar : Int, count : Int]
         /\ IsFiniteSet(merge_duplicates(merged))
         /\ Cardinality(merge_duplicates(merged)) \in 1..Len(merged)
<1> DEFINE n == Len(merged)
           same(v) == {i \in 1..n : merged[i].lstar = v}
           V == {merged[i].lstar : i \in 1..n}
           count(v) == SumFunction([i \in same(v) |-> merged[i].count])
           swatch == [v \in V |-> [lstar |-> v, count |-> count(v)]]
           M == merge_duplicates(merged)
<1>1. n \in Nat /\ n >= 1 /\ IsFiniteSet(1..n) /\ Cardinality(1..n) = n
  <2>1. n \in Nat
    OBVIOUS
  <2> QED BY <2>1, FS_Interval
<1>2. \A i \in 1..n : merged[i].lstar \in Int /\ merged[i].count \in Int
  <2> SUFFICES ASSUME NEW i \in 1..n PROVE merged[i].lstar \in Int /\ merged[i].count \in Int
    OBVIOUS
  <2>1. merged[i] \in Tone
    BY <1>1
  <2> HIDE DEF n
  <2> QED BY <2>1 DEF Tone
<1>3. IsFiniteSet(V) /\ Cardinality(V) <= n
  <2> DEFINE tone == [i \in 1..n |-> merged[i].lstar]
  <2>1. tone = [i \in 1..n |-> tone[i]] /\ {tone[i] : i \in 1..n} = V
    OBVIOUS
  <2> HIDE DEF tone, V, n
  <2>2. IsFiniteSet({tone[i] : i \in 1..n}) /\ Cardinality({tone[i] : i \in 1..n}) <= Cardinality(1..n)
    BY <1>1, <2>1, ImageFinite
  <2> QED BY <1>1, <2>1, <2>2
<1>4. V # {} /\ V \subseteq Int
  <2>1. 1 \in 1..n
    BY <1>1
  <2> QED BY <2>1, <1>2
<1>5. ASSUME NEW v \in V PROVE count(v) \in Int
  <2>1. IsFiniteSet(same(v))
    BY <1>1, FS_Subset
  <2> DEFINE g == [i \in same(v) |-> merged[i].count]
  <2>2. g \in [same(v) -> Int]
    BY <1>2
  <2> HIDE DEF g
  <2>3. SumFunction(g) \in Int
    BY <2>1, <2>2, SumType
  <2> QED BY <2>3 DEF g
<1>6. M = {swatch[v] : v \in V}
  <2>1. M = {[lstar |-> v, count |-> count(v)] : v \in V}
    BY Zenon DEF merge_duplicates
  <2> HIDE DEF V, M, count
  <2> QED BY <2>1
<1> HIDE DEF V, count, M
<1>7. \A v \in V : swatch[v] \in [lstar : Int, count : Int] /\ swatch[v].lstar = v
  BY <1>4, <1>5
<1>8. swatch = [v \in V |-> swatch[v]]
  OBVIOUS
<1> HIDE DEF swatch
<1>9. IsFiniteSet(M) /\ Cardinality(M) <= Cardinality(V)
  BY <1>3, <1>6, <1>8, ImageFinite
<1>10. M # {} /\ M \subseteq [lstar : Int, count : Int]
  <2>1. \A x \in M : \E v \in V : x = swatch[v]
    BY <1>6
  <2>2. PICK v \in V : TRUE
    BY <1>4
  <2>3. swatch[v] \in M
    BY <1>6, <2>2
  <2> QED BY <2>1, <2>3, <1>7
<1>11. Cardinality(M) \in Nat /\ Cardinality(M) # 0 /\ Cardinality(V) \in Nat
  BY <1>3, <1>9, <1>10, FS_CardinalityType, FS_EmptySet
<1>12. Cardinality(M) \in 1..n
  BY <1>1, <1>3, <1>9, <1>11
<1> QED BY <1>9, <1>10, <1>12 DEF M, n

\* The validator accepts swatches, whatever the error of the last proportion, unless
\* the last two of three or more have one count.
RankedOrTied(p) ==
  \/ \A dust \in Dust(p) : palette_is_ranked(p, dust)
  \/ Len(p) >= 3 /\ p[Len(p) - 1].count = p[Len(p)].count

LEMMA AheadIsRanked ==
  ASSUME NEW p, Len(p) \in 1..5, \A i \in 1..(Len(p) - 1) : Ahead(p[i], p[i + 1])
  PROVE  RankedOrTied(p)
<1> DEFINE n == Len(p)
<1>1. CASE n < 3
  <2>1. Dust(p) = {0}
    BY <1>1 DEF Dust
  <2>2. \A i \in 1..(n - 1) : RankedBefore(p[i], p[i + 1], 0)
    BY DEF Ahead, RankedBefore
  <2>3. palette_is_ranked(p, 0)
    BY <2>2 DEF palette_is_ranked
  <2> QED BY <2>1, <2>3 DEF RankedOrTied
<1>2. CASE n >= 3 /\ p[n - 1].count # p[n].count
  <2> SUFFICES ASSUME NEW dust PROVE palette_is_ranked(p, dust)
    BY DEF RankedOrTied
  <2>1. ASSUME NEW i \in 1..(n - 1)
        PROVE  RankedBefore(p[i], p[i + 1], IF i + 1 = n THEN dust ELSE 0)
    <3>1. CASE i + 1 = n
      <4>1. i = n - 1 /\ Ahead(p[i], p[i + 1])
        BY <3>1
      <4> QED BY <1>2, <3>1, <4>1 DEF Ahead, RankedBefore
    <3>2. CASE i + 1 # n
      BY <3>2 DEF Ahead, RankedBefore
    <3> QED BY <3>1, <3>2
  <2> QED BY <2>1 DEF palette_is_ranked
<1>3. CASE n >= 3 /\ p[n - 1].count = p[n].count
  BY <1>3 DEF RankedOrTied
<1> QED BY <1>1, <1>2, <1>3

LEMMA LargeEnoughRanked ==
  ASSUME NEW sorted, Len(sorted) \in 1..5,
         \A j, k \in 1..Len(sorted) : j < k => Ahead(sorted[j], sorted[k])
  PROVE  RankedOrTied(LargeEnough(sorted))
<1> DEFINE least == (MinSwatchProportion * Total(sorted)) \div 100
           kept == {i \in 1..Len(sorted) : sorted[i].count >= least /\ sorted[i].count >= 1}
           n == Len(sorted)
<1>1. LargeEnough(sorted) = IF kept = {} THEN << sorted[1] >> ELSE At(sorted, kept)
  BY Zenon DEF LargeEnough
<1>2. kept \in SUBSET (1..n) /\ n \in Nat /\ n <= 5
  OBVIOUS
<1> HIDE DEF kept, least
<1>3. CASE kept = {}
  <2>1. LargeEnough(sorted) = << sorted[1] >>
    BY <1>1, <1>3
  <2>2. Len(<< sorted[1] >>) = 1
    OBVIOUS
  <2> QED BY <2>1, <2>2, AheadIsRanked
<1>4. CASE kept # {}
  <2> DEFINE p == At(sorted, kept)
             m == Cardinality(kept)
  <2>1. /\ IsFiniteSet(kept) /\ m \in 0..n /\ Len(p) = m
        /\ \E o \in [1..m -> kept] : Keeps(o, sorted, kept)
    BY <1>2, AtPlaces
  <2>2. m # 0
    BY <1>4, <2>1, FS_EmptySet
  <2>3. PICK o \in [1..m -> kept] : Keeps(o, sorted, kept)
    BY <2>1
  <2> HIDE DEF m
  <2>4. \A k \in 1..m : p[k] = sorted[o[k]] /\ o[k] \in 1..n
    BY <1>2, <2>3 DEF Keeps, m
  <2>5. \A j, k \in 1..m : j < k => o[j] < o[k]
    BY <2>3 DEF Keeps, m
  <2>6. \A i \in 1..(m - 1) : Ahead(p[i], p[i + 1])
    <3> SUFFICES ASSUME NEW i \in 1..(m - 1) PROVE Ahead(p[i], p[i + 1])
      OBVIOUS
    <3>1. i \in 1..m /\ i + 1 \in 1..m /\ i < i + 1
      BY <2>1
    <3>2. o[i] < o[i + 1]
      BY <2>5, <3>1
    <3> HIDE DEF p
    <3> QED BY <2>4, <3>1, <3>2
  <2>7. LargeEnough(sorted) = p
    BY <1>1, <1>4
  <2> HIDE DEF p
  <2>8. Len(p) \in 1..5
    BY <1>2, <2>1, <2>2
  <2>9. Len(p) = m
    BY <2>1 DEF p
  <2> QED BY <2>6, <2>7, <2>8, <2>9, AheadIsRanked
<1> QED BY <1>3, <1>4

PixelsKnown(pixels) ==
  IsFiniteSet(pixels) /\ pixels # {} /\ \A p \in pixels : p.lstar \in Int

\* A centre for each of the darkest tones, the last one for the rest.
LEMMA CentresType ==
  ASSUME NEW pixels, PixelsKnown(pixels)
  PROVE  /\ Centres(pixels) \in SUBSET Tone /\ IsFiniteSet(Centres(pixels))
         /\ Centres(pixels) # {} /\ Cardinality(Centres(pixels)) <= Clusters
<1> DEFINE tones == Tones(pixels)
           rank(v) == Cardinality({u \in tones : u < v}) + 1
           cluster(k) == {p \in pixels : rank(p.lstar) = k \/ (k = Clusters /\ rank(p.lstar) > k)}
           K == {n \in 1..Clusters : cluster(n) # {}}
           mean(k) == SumFunction([p \in cluster(k) |-> p.lstar]) \div Cardinality(cluster(k))
           centre == [k \in K |-> [lstar |-> mean(k), count |-> Cardinality(cluster(k))]]
           C == Centres(pixels)
<1>1. IsFiniteSet(pixels) /\ pixels # {} /\ \A p \in pixels : p.lstar \in Int
  BY DEF PixelsKnown
<1>2. Clusters \in Nat /\ Clusters >= 1
  BY ChromaticAssumption
<1>3. ASSUME NEW k \in K
      PROVE  mean(k) \in Int /\ Cardinality(cluster(k)) \in Nat /\ Cardinality(cluster(k)) > 0
  <2>1. cluster(k) \subseteq pixels /\ cluster(k) # {}
    OBVIOUS
  <2> DEFINE D == cluster(k)
             g == [p \in D |-> p.lstar]
  <2> HIDE DEF cluster
  <2>2. IsFiniteSet(D) /\ Cardinality(D) \in Nat /\ Cardinality(D) # 0
    BY <1>1, <2>1, FS_Subset, FS_CardinalityType, FS_EmptySet
  <2>3. g \in [D -> Int]
    BY <1>1, <2>1
  <2>4. SumFunction(g) \in Int
    <3> HIDE DEF g, D
    <3> QED BY <2>2, <2>3, SumType
  <2>5. mean(k) = SumFunction(g) \div Cardinality(D)
    OBVIOUS
  <2> HIDE DEF g, D, mean
  <2>6. mean(k) \in Int
    BY <2>2, <2>4, <2>5
  <2> QED BY <2>2, <2>6 DEF D
<1>4. C = {centre[k] : k \in K}
  <2>1. C = {[lstar |-> mean(k), count |-> Cardinality(cluster(k))] : k \in K}
    BY Zenon DEF Centres
  <2> HIDE DEF K, mean, cluster, C
  <2> QED BY <2>1
<1>5. K # {}
  <2>1. IsFiniteSet(tones) /\ tones \subseteq Int /\ tones # {}
    <3> DEFINE f == [p \in pixels |-> p.lstar]
    <3>1. f = [p \in pixels |-> f[p]] /\ {f[p] : p \in pixels} = tones
      BY DEF Tones
    <3> HIDE DEF f, tones
    <3>2. IsFiniteSet({f[p] : p \in pixels})
      BY <1>1, <3>1, ImageFinite
    <3> QED BY <3>1, <3>2, <1>1 DEF tones, Tones
  <2> DEFINE o == InOrder(tones, <)
  <2>2. /\ o \in [1..Cardinality(tones) -> tones]
        /\ \A j, k \in 1..Cardinality(tones) : j < k => o[j] < o[k]
        /\ \A s \in tones : \E k \in 1..Cardinality(tones) : o[k] = s
    <3> HIDE DEF tones
    <3> QED BY <2>1, NumbersInOrder
  <2>3. Cardinality(tones) \in Nat /\ Cardinality(tones) >= 1
    <3> HIDE DEF tones
    <3> QED BY <2>1, FS_CardinalityType, FS_EmptySet
  <2> HIDE DEF o, tones
  <2>4. 1 \in 1..Cardinality(tones) /\ o[1] \in tones
    BY <2>2, <2>3
  <2>5. {u \in tones : u < o[1]} = {}
    <3> SUFFICES ASSUME NEW u \in tones, u < o[1] PROVE FALSE
      OBVIOUS
    <3>1. PICK k \in 1..Cardinality(tones) : o[k] = u
      BY <2>2
    <3>2. k = 1 \/ 1 < k
      OBVIOUS
    <3>3. u \in Int /\ o[1] \in Int
      BY <2>1, <2>4
    <3> QED BY <2>2, <2>4, <3>1, <3>2, <3>3
  <2>6. rank(o[1]) = 1
    BY <2>5, FS_EmptySet
  <2>7. PICK p \in pixels : p.lstar = o[1]
    BY <2>4 DEF tones, Tones
  <2> HIDE DEF rank
  <2>8. p \in cluster(1)
    BY <2>6, <2>7
  <2>9. 1 \in 1..Clusters
    BY <1>2
  <2> QED BY <2>8, <2>9
<1>6. IsFiniteSet(K) /\ Cardinality(K) <= Clusters
  <2>1. IsFiniteSet(1..Clusters) /\ Cardinality(1..Clusters) = Clusters
    BY <1>2, FS_Interval
  <2>2. K \in SUBSET (1..Clusters)
    OBVIOUS
  <2> HIDE DEF K
  <2> QED BY <2>1, <2>2, FS_Subset
<1> HIDE DEF K, mean, cluster, C
<1>7. \A k \in K : centre[k] \in Tone
  BY <1>3 DEF Tone
<1>8. centre = [k \in K |-> centre[k]]
  OBVIOUS
<1> HIDE DEF centre
<1>9. IsFiniteSet(C) /\ Cardinality(C) <= Cardinality(K)
  BY <1>4, <1>6, <1>8, ImageFinite
<1>10. Cardinality(C) \in Nat /\ Cardinality(K) \in Nat
  BY <1>6, <1>9, FS_CardinalityType
<1>11. C # {} /\ C \subseteq Tone
  BY <1>4, <1>5, <1>7
<1> QED BY <1>2, <1>6, <1>9, <1>10, <1>11 DEF C

\* Merged, sorted and cut down, the swatches are one to five, the largest first.
LEMMA PaletteRanked ==
  ASSUME NEW pixels, PixelsKnown(pixels)
  PROVE  RankedOrTied(palette(pixels))
<1> DEFINE C == Centres(pixels)
           merged == merge_centres(C)
           M == merge_duplicates(merged)
           o == InOrder(M, Ahead)
<1>1. C \in SUBSET Tone /\ IsFiniteSet(C) /\ C # {} /\ Cardinality(C) <= Clusters
  BY CentresType
<1>2. palette(pixels) = LargeEnough(o)
  BY DEF palette
<1> HIDE DEF C
<1>3. merged \in Seq(Tone) /\ Len(merged) \in 1..Cardinality(C) /\ Cardinality(C) \in Nat
  BY <1>1, MergedType, FS_CardinalityType
<1> HIDE DEF merged
<1>4. /\ M \subseteq [lstar : Int, count : Int] /\ IsFiniteSet(M)
      /\ Cardinality(M) \in 1..Len(merged)
  BY <1>3, DuplicatesType
<1> HIDE DEF M
<1>5. InOrderAhead(o, M)
  BY <1>4, TonesInOrder
<1> HIDE DEF o
<1>6. Clusters \in 1..5
  BY ChromaticAssumption
<1>7. Len(o) = Cardinality(M) /\ Len(o) \in 1..5
  BY <1>1, <1>3, <1>4, <1>5, <1>6 DEF InOrderAhead
<1>8. \A j, k \in 1..Len(o) : j < k => Ahead(o[j], o[k])
  BY <1>5, <1>7 DEF InOrderAhead
<1> QED BY <1>2, <1>7, <1>8, LargeEnoughRanked

LEMMA MaskType ==
  ASSUME NEW picture
  PROVE  letterbox_mask(picture) \subseteq (1..Height(picture)) \X (1..Width(picture))
<1> DEFINE Bar(r) == IsBar(1..Width(picture), LAMBDA c : picture[r][c])
           kept == {r \in 1..Height(picture) : /\ \E t \in 1..r : ~Bar(t)
                                               /\ \E b \in r..Height(picture) : ~Bar(b)}
<1>1. \E P : letterbox_mask(picture) = IF kept = {} THEN {} ELSE kept \X {c \in 1..Width(picture) : c \in P}
  <2> DEFINE Side(c) == IsBar(kept, LAMBDA r : picture[r][c])
             inside == {c \in 1..Width(picture) : /\ \E l \in 1..c : ~Side(l)
                                                  /\ \E e \in c..Width(picture) : ~Side(e)}
  <2>1. letterbox_mask(picture) = IF kept = {} THEN {} ELSE kept \X inside
    BY Zenon DEF letterbox_mask
  <2>2. inside = {c \in 1..Width(picture) : c \in inside}
    OBVIOUS
  <2> HIDE DEF inside, kept
  <2> QED BY <2>1, <2>2
<1>2. kept \subseteq 1..Height(picture)
  OBVIOUS
<1> HIDE DEF kept
<1>3. PICK P : letterbox_mask(picture) = IF kept = {} THEN {} ELSE kept \X {c \in 1..Width(picture) : c \in P}
  BY <1>1
<1>4. {c \in 1..Width(picture) : c \in P} \subseteq 1..Width(picture)
  OBVIOUS
<1> DEFINE places == {c \in 1..Width(picture) : c \in P}
           R == 1..Height(picture)
           S == 1..Width(picture)
<1>5. kept \subseteq R /\ places \subseteq S /\ letterbox_mask(picture) = IF kept = {} THEN {} ELSE kept \X places
  BY Zenon, <1>2, <1>3, <1>4
<1> HIDE DEF places, R, S
<1>6. CASE kept = {}
  BY <1>5, <1>6
<1>7. CASE kept # {}
  <2>1. letterbox_mask(picture) = kept \X places
    BY <1>5, <1>7
  <2> HIDE DEF places
  <2>2. kept \X places \subseteq R \X S
    BY <1>5
  <2> QED BY Zenon, <2>1, <2>2 DEF R, S
<1> QED BY <1>6, <1>7 DEF R, S

\* The pixels of a picture that its mask keeps.
PixelsOf(pictures, k) ==
  {[picture |-> k, at |-> p, lstar |-> pictures[k][p[1]][p[2]]] : p \in letterbox_mask(pictures[k])}

LEMMA RowValue ==
  ASSUME NEW S, NEW row \in Seq(S), NEW c \in 1..Len(row)
  PROVE  row[c] \in S
OBVIOUS

LEMMA PixelsType ==
  ASSUME NEW pictures, NEW k, pictures[k] \in Pictures, Readable(pictures[k])
  PROVE  IsFiniteSet(PixelsOf(pictures, k)) /\ \A p \in PixelsOf(pictures, k) : p.lstar \in Int
<1> DEFINE picture == pictures[k]
           mask == letterbox_mask(picture)
           pixel == [p \in mask |-> [picture |-> k, at |-> p, lstar |-> picture[p[1]][p[2]]]]
<1>1. /\ picture \in Seq(Seq(0..100))
      /\ \A r \in 1..Height(picture) : Len(picture[r]) = Width(picture)
  BY PicturesAssumption
<1>2. mask \subseteq (1..Height(picture)) \X (1..Width(picture))
  BY MaskType
<1> HIDE DEF picture, mask
<1>3. Height(picture) \in Nat /\ \A r \in 1..Height(picture) : picture[r] \in Seq(0..100)
  BY <1>1 DEF Height
<1>4. ASSUME NEW p \in mask PROVE picture[p[1]][p[2]] \in Int
  <2> HIDE DEF pixel
  <2>1. p[1] \in 1..Height(picture) /\ p[2] \in 1..Width(picture)
    BY <1>2
  <2> DEFINE row == picture[p[1]]
  <2>2. row \in Seq(0..100) /\ p[2] \in 1..Len(row)
    BY <1>1, <1>3, <2>1
  <2> DEFINE c == p[2]
  <2> HIDE DEF row, c
  <2>3. row \in Seq(0..100) /\ c \in 1..Len(row)
    BY Zenon, <2>2 DEF c
  <2>4. row[c] \in 0..100
    BY Zenon, <2>3, RowValue
  <2>5. row[c] \in Int
    BY <2>4
  <2> QED BY Zenon, <2>5 DEF row, c
<1>5. IsFiniteSet(mask)
  <2>1. CASE mask = {}
    BY <2>1, FS_EmptySet
  <2>2. CASE mask # {}
    <3>1. PICK p : p \in mask
      BY <2>2
    <3>2. p[1] \in 1..Height(picture)
      BY <1>2, <3>1
    <3>3. Width(picture) \in Nat
      BY <1>1, <1>3, <3>2
    <3>4. IsFiniteSet(1..Height(picture)) /\ IsFiniteSet(1..Width(picture))
      BY <1>3, <3>3, FS_Interval
    <3>5. IsFiniteSet((1..Height(picture)) \X (1..Width(picture)))
      BY <3>4, FS_Product
    <3> QED BY <3>5, <1>2, FS_Subset
  <2> QED BY <2>1, <2>2
<1>6. pixel = [p \in mask |-> pixel[p]] /\ \A p \in mask : pixel[p].lstar = picture[p[1]][p[2]]
  OBVIOUS
<1>7. PixelsOf(pictures, k) = {pixel[p] : p \in mask}
  <2>1. PixelsOf(pictures, k) = {[picture |-> k, at |-> p, lstar |-> picture[p[1]][p[2]]] : p \in mask}
    BY Zenon DEF PixelsOf, picture, mask
  <2> QED BY <2>1
<1> HIDE DEF pixel
<1> QED BY <1>4, <1>5, <1>6, <1>7, ImageFinite

\* What analyze_shot calls measured passes the validator, but for a tie of the last two.
LEMMA ChromaRanked ==
  ASSUME NEW pictures, NEW n \in Nat, Len(pictures) = n, \A k \in 1..n : pictures[k] \in Pictures
  PROVE  /\ AnalyzeChroma(pictures).status \in {"OK", "INSUFFICIENT_DATA", "FAILED"}
         /\ AnalyzeChroma(pictures).status = "OK" => RankedOrTied(AnalyzeChroma(pictures).palette)
<1> DEFINE places == {k \in 1..n : Readable(pictures[k])}
           decoded == At(pictures, places)
           pixels == Kept(decoded)
           total == SumFunction([k \in 1..Len(decoded) |-> Size(decoded[k])])
           used == {k \in 1..n : Readable(pictures[k]) /\ letterbox_mask(pictures[k]) # {}}
           few == 100 * Cardinality(pixels) < MinUsablePixelRatio * total
           key == estimate_lighting_key(pixels)
           result == AnalyzeChroma(pictures)
<1>1. result = IF pictures = << >> THEN NoChroma("INSUFFICIENT_DATA", {})
               ELSE IF decoded = << >> THEN NoChroma("FAILED", {})
               ELSE IF few \/ used = {} THEN NoChroma("INSUFFICIENT_DATA", used)
               ELSE [status |-> "OK", palette |-> palette(pixels), key |-> key, used |-> used]
  BY Zenon DEF AnalyzeChroma
<1> HIDE DEF decoded, few, used, key, result
<1>2. result.status \in {"OK", "INSUFFICIENT_DATA", "FAILED"}
  <2> DEFINE ok == [status |-> "OK", palette |-> palette(pixels), key |-> key, used |-> used]
  <2>1. ok.status = "OK" /\ NoChroma("INSUFFICIENT_DATA", used).status = "INSUFFICIENT_DATA"
    BY DEF NoChroma
  <2>2. NoChroma("FAILED", {}).status = "FAILED" /\ NoChroma("INSUFFICIENT_DATA", {}).status = "INSUFFICIENT_DATA"
    BY DEF NoChroma
  <2>3. result = IF pictures = << >> THEN NoChroma("INSUFFICIENT_DATA", {})
                 ELSE IF decoded = << >> THEN NoChroma("FAILED", {})
                 ELSE IF few \/ used = {} THEN NoChroma("INSUFFICIENT_DATA", used)
                 ELSE ok
    BY <1>1
  <2> HIDE DEF ok
  <2> QED BY <2>1, <2>2, <2>3
<1>3. ASSUME result.status = "OK" PROVE RankedOrTied(result.palette)
  <2>1. used # {} /\ result.palette = palette(pixels)
    BY <1>1, <1>3 DEF NoChroma
  <2>2. places \in SUBSET (1..n)
    OBVIOUS
  <2>3. /\ Cardinality(places) \in 0..n /\ Len(decoded) = Cardinality(places)
        /\ \E o \in [1..Cardinality(places) -> places] : Keeps(o, pictures, places)
    <3> HIDE DEF places
    <3> QED BY <2>2, AtPlaces DEF decoded
  <2>4. PICK o \in [1..Cardinality(places) -> places] : Keeps(o, pictures, places)
    BY <2>3
  <2>5. \A j \in 1..Len(decoded) : o[j] \in places /\ decoded[j] = pictures[o[j]]
    <3> HIDE DEF places
    <3> QED BY <2>3, <2>4 DEF Keeps, decoded
  <2>6. \A j \in 1..Len(decoded) : decoded[j] \in Pictures /\ Readable(decoded[j])
    BY <2>5
  <2>7. pixels = UNION {PixelsOf(decoded, j) : j \in 1..Len(decoded)}
    BY Zenon DEF Kept, PixelsOf
  <2>8. Len(decoded) \in Nat
    BY <2>3
  <2> HIDE DEF pixels
  <2>9. IsFiniteSet(pixels)
    <3> DEFINE P == [j \in 1..Len(decoded) |-> PixelsOf(decoded, j)]
               all == {P[j] : j \in 1..Len(decoded)}
    <3>1. pixels = UNION all /\ P = [j \in 1..Len(decoded) |-> P[j]]
      BY <2>7
    <3>2. \A j \in 1..Len(decoded) : IsFiniteSet(P[j])
      BY <2>6, PixelsType
    <3> HIDE DEF P
    <3>3. IsFiniteSet(all)
      <4> HIDE DEF pixels
      <4>1. IsFiniteSet(1..Len(decoded))
        BY <2>8, FS_Interval
      <4> QED BY <3>1, <4>1, ImageFinite
    <3>4. \A T \in all : IsFiniteSet(T)
      BY <3>2
    <3> HIDE DEF all
    <3> QED BY <3>1, <3>3, <3>4, FS_UNION
  <2>10. \A p \in pixels : p.lstar \in Int
    <3> SUFFICES ASSUME NEW p \in pixels PROVE p.lstar \in Int
      OBVIOUS
    <3>1. PICK j \in 1..Len(decoded) : p \in PixelsOf(decoded, j)
      BY <2>7
    <3> QED BY <3>1, <2>6, PixelsType
  <2>11. pixels # {}
    <3>1. PICK k \in used : TRUE
      BY <2>1
    <3>2. k \in places /\ letterbox_mask(pictures[k]) # {}
      BY <3>1 DEF used
    <3>3. PICK j \in 1..Len(decoded) : o[j] = k
      <4> HIDE DEF places
      <4> QED BY <2>3, <2>4, <3>2 DEF Keeps
    <3>4. PICK p : p \in letterbox_mask(decoded[j])
      BY <2>5, <3>2, <3>3
    <3>5. PixelsOf(decoded, j) # {}
      BY <3>4 DEF PixelsOf
    <3> QED BY <2>7, <3>3, <3>5
  <2>12. PixelsKnown(pixels)
    BY <2>9, <2>10, <2>11 DEF PixelsKnown
  <2> QED BY <2>1, <2>12, PaletteRanked
<1> QED BY <1>2, <1>3 DEF result

-----------------------------------------------------------------------------
(* Percentiles, activities and the tension.                                *)

\* Of finitely many numbers one is the least and one the greatest.
LEMMA EndsExist ==
  ASSUME NEW S, IsFiniteSet(S), S # {}, NEW v \in [S -> Int]
  PROVE  /\ \E x \in S : \A y \in S : v[x] <= v[y]
         /\ \E x \in S : \A y \in S : v[y] <= v[x]
<1> DEFINE V == {v[x] : x \in S}
           o == InOrder(V, <)
           n == Cardinality(V)
<1>1. V \in SUBSET Int /\ V # {} /\ v = [x \in S |-> v[x]]
  OBVIOUS
<1>2. IsFiniteSet(V)
  BY <1>1, ImageFinite
<1> HIDE DEF V
<1>3. n \in Nat /\ n # 0
  BY <1>1, <1>2, FS_CardinalityType, FS_EmptySet
<1>4. /\ o \in [1..n -> V]
      /\ \A j, k \in 1..n : j < k => o[j] < o[k]
      /\ \A s \in V : \E k \in 1..n : o[k] = s
  BY <1>1, <1>2, NumbersInOrder
<1> HIDE DEF n, o
<1>5. \A s \in V : o[1] <= s /\ s <= o[n]
  <2> SUFFICES ASSUME NEW s \in V PROVE o[1] <= s /\ s <= o[n]
    OBVIOUS
  <2>1. PICK k \in 1..n : o[k] = s
    BY <1>4
  <2>2. 1 \in 1..n /\ n \in 1..n
    BY <1>3
  <2>3. o[1] \in Int /\ o[n] \in Int /\ s \in Int
    BY <1>1, <1>4, <2>2
  <2> QED BY <1>4, <2>1, <2>2, <2>3
<1>6. o[1] \in V /\ o[n] \in V
  BY <1>3, <1>4
<1> QED BY <1>5, <1>6 DEF V

\* A member with fewer than k below it, and k or more up to it.
IsKth(o, S, v, k) ==
  /\ Cardinality({p \in S : v[p] < v[o]}) < k
  /\ k <= Cardinality({p \in S : v[p] <= v[o]})

LEMMA KthExists ==
  ASSUME NEW S, IsFiniteSet(S), NEW v \in [S -> Int], NEW k \in 1..Cardinality(S)
  PROVE  \E o \in S : IsKth(o, S, v, k)
<1> DEFINE n == Cardinality(S)
           below(o) == {p \in S : v[p] < v[o]}
           upto(o) == {p \in S : v[p] <= v[o]}
           high == {o \in S : k <= Cardinality(upto(o))}
<1>1. n \in Nat /\ k \in 1..n /\ k \in Nat
  BY FS_CardinalityType
<1>2. \A T \in SUBSET S : IsFiniteSet(T) /\ Cardinality(T) \in Nat
  BY FS_Subset, FS_CardinalityType
<1>3. \A o \in S : v[o] \in Int
  OBVIOUS
<1>4. high # {}
  <2>1. S # {}
    <3>1. Cardinality({}) = 0
      BY FS_EmptySet
    <3> QED BY <1>1, <3>1
  <2>2. PICK x \in S : \A y \in S : v[y] <= v[x]
    BY <2>1, EndsExist
  <2>3. upto(x) = S
    BY <2>2
  <2>4. Cardinality(upto(x)) = n
    BY Zenon, <2>3
  <2> HIDE DEF upto, n
  <2> QED BY <1>1, <2>4
<1> DEFINE w == [o \in high |-> v[o]]
<1>5. high \in SUBSET S /\ \A o \in S : o \in high <=> k <= Cardinality(upto(o))
  OBVIOUS
<1>6. w \in [high -> Int] /\ \A o \in high : w[o] = v[o]
  BY <1>3, <1>5
<1> HIDE DEF high, w
<1>7. PICK o \in high : \A p \in high : w[o] <= w[p]
  BY <1>2, <1>4, <1>5, <1>6, EndsExist
<1>8. Cardinality(below(o)) < k
  <2>1. below(o) \in SUBSET S /\ \A p \in S : p \in below(o) <=> v[p] < v[o]
    OBVIOUS
  <2>2. CASE below(o) = {}
    <3>1. Cardinality({}) = 0
      BY FS_EmptySet
    <3> HIDE DEF below
    <3> QED BY <1>1, <2>2, <3>1
  <2>3. CASE below(o) # {}
    <3> DEFINE B == below(o)
               u == [p \in B |-> v[p]]
    <3>1. u \in [B -> Int] /\ \A p \in B : u[p] = v[p]
      BY <1>3
    <3> HIDE DEF B, u
    <3>2. B \in SUBSET S /\ B # {} /\ \A p \in S : p \in B <=> v[p] < v[o]
      BY <2>1, <2>3 DEF B
    <3>3. PICK m \in B : \A p \in B : u[p] <= u[m]
      BY <1>2, <3>1, <3>2, EndsExist
    <3>4. m \in S /\ v[m] < v[o] /\ v[m] \in Int /\ v[o] \in Int
      BY <1>3, <1>5, <3>2, <3>3
    <3>5. B \subseteq upto(m) /\ upto(m) \in SUBSET S
      BY <3>1, <3>2, <3>3
    <3>6. m \notin high
      BY <1>6, <1>7, <3>4
    <3> HIDE DEF upto
    <3>7. ~(k <= Cardinality(upto(m)))
      BY <1>5, <3>4, <3>6
    <3>8. IsFiniteSet(upto(m)) /\ Cardinality(upto(m)) \in Nat /\ Cardinality(B) \in Nat
      BY <1>2, <3>2, <3>5
    <3>9. Cardinality(B) <= Cardinality(upto(m))
      BY <3>5, <3>8, FS_Subset
    <3>10. Cardinality(B) < k
      BY <1>1, <3>7, <3>8, <3>9
    <3> QED BY <3>10 DEF B
  <2> QED BY <2>2, <2>3
<1>9. o \in S /\ k <= Cardinality(upto(o))
  BY <1>5, <1>7
<1>10. IsKth(o, S, v, k)
  BY Zenon, <1>8, <1>9 DEF IsKth
<1> QED BY <1>9, <1>10

\* There is a kth smallest of the numbers of a sequence.
LEMMA OrderedType ==
  ASSUME NEW values \in Seq(Int), NEW k \in 1..Len(values)
  PROVE  Ordered(values, k) \in Int
<1> DEFINE n == Len(values)
           Found(x) == /\ Cardinality({j \in 1..n : values[j] < values[x]}) < k
                       /\ Cardinality({j \in 1..n : values[j] <= values[x]}) >= k
           c == CHOOSE x \in 1..n : Found(x)
<1>1. n \in Nat /\ values \in [1..n -> Int] /\ k \in 1..n
  OBVIOUS
<1> HIDE DEF n
<1>2. IsFiniteSet(1..n) /\ Cardinality(1..n) = n
  BY <1>1, FS_Interval
<1>3. PICK x \in 1..n : IsKth(x, 1..n, values, k)
  BY <1>1, <1>2, KthExists
<1>4. Found(x)
  <2> DEFINE below == Cardinality({j \in 1..n : values[j] < values[x]})
             upto == Cardinality({j \in 1..n : values[j] <= values[x]})
  <2>1. below < k /\ k <= upto
    BY Zenon, <1>3 DEF IsKth
  <2> HIDE DEF below, upto
  <2>2. upto >= k
    BY <2>1
  <2> QED BY Zenon, <2>1, <2>2 DEF below, upto
<1>5. Ordered(values, k) = values[c]
  BY Zenon DEF Ordered, n
<1> HIDE DEF Found
<1>6. c \in 1..n
  BY <1>3, <1>4
<1> HIDE DEF c
<1> QED BY <1>1, <1>5, <1>6

LEMMA PercentileType ==
  ASSUME NEW values \in Seq(Int), Len(values) >= 1, NEW q \in 0..100
  PROVE  percentile(values, q) \in Int
<1> DEFINE n == Len(values)
           rank == q * (n - 1)
           low == rank \div 100
           high == Min({low + 1, n - 1})
<1>1. n \in Nat /\ n >= 1
  OBVIOUS
<1> HIDE DEF n
<1>2. rank \in Nat /\ rank <= 100 * (n - 1)
  <2>1. (n - 1) * q <= (n - 1) * 100
    BY <1>1, MultipleBelow
  <2>2. q * (n - 1) \in Nat
    BY <1>1
  <2> QED BY <1>1, <2>1, <2>2
<1> HIDE DEF rank
<1>3. low \in 0..(n - 1)
  BY <1>1, <1>2
<1> HIDE DEF low
<1>4. high \in 0..(n - 1)
  <2>1. \A x, y \in Int : Min({x, y}) = IF x <= y THEN x ELSE y
    BY DEF Min
  <2> QED BY <1>1, <1>3, <2>1
<1> HIDE DEF high
<1>5. Ordered(values, low + 1) \in Int /\ Ordered(values, high + 1) \in Int
  BY <1>1, <1>3, <1>4, OrderedType DEF n
<1>6. rank % 100 \in 0..99
  BY <1>2
<1> DEFINE a == Ordered(values, low + 1)
           b == Ordered(values, high + 1)
           r == rank % 100
<1>7. percentile(values, q) = a * (100 - r) + b * r
  BY Zenon DEF percentile, n, rank, low, high
<1>8. a \in Int /\ b \in Int /\ r \in 0..99
  BY Zenon, <1>5, <1>6
<1> HIDE DEF a, b, r
<1> QED BY <1>7, <1>8

LEMMA ClipType01 ==
  ASSUME NEW x \in Int
  PROVE  clip01(x) \in 0..Unit /\ (x \in 0..Unit => clip01(x) = x)
BY DEF clip01, Unit

\* What is normalized lies between nothing and the whole.
LEMMA NormalizedType ==
  ASSUME NEW values \in Seq(Int), NEW i \in 1..Len(values)
  PROVE  robust_normalize(values)[i] \in 0..Unit
<1> DEFINE low == percentile(values, PercentileLow)
           high == percentile(values, PercentileHigh)
           normal(x) == IF high > low THEN clip01((Unit * (100 * x - low)) \div (high - low))
                        ELSE IF 100 * x > low THEN Unit ELSE 0
<1>1. PercentileLow \in 0..100 /\ PercentileHigh \in 0..100 /\ Len(values) \in Nat /\ Len(values) >= 1
  BY TensionAssumption
<1>2. low \in Int /\ high \in Int
  BY <1>1, PercentileType
<1>3. robust_normalize(values) = [k \in 1..Len(values) |-> normal(values[k])]
  BY Zenon DEF robust_normalize
<1>4. values[i] \in Int
  OBVIOUS
<1> HIDE DEF low, high
<1>5. ASSUME NEW x \in Int PROVE normal(x) \in 0..Unit
  <2>1. CASE high > low
    <3>1. (Unit * (100 * x - low)) \div (high - low) \in Int
      BY <1>2, <2>1 DEF Unit
    <3> QED BY <2>1, <3>1, ClipType01
  <2>2. CASE ~(high > low)
    BY <2>2 DEF Unit
  <2> QED BY <2>1, <2>2
<1>6. robust_normalize(values)[i] = normal(values[i])
  BY <1>3
<1> HIDE DEF normal
<1> QED BY <1>4, <1>5, <1>6

LEMMA AudioActivityType ==
  ASSUME NEW windows \in Seq([flux : Nat, level : Int]), NEW i \in 1..Len(windows)
  PROVE  AudioActivity(windows)[i] \in 0..Unit
<1> DEFINE n == Len(windows)
           fluxes == [k \in 1..n |-> windows[k].flux]
           levels == [k \in 1..n |-> windows[k].level]
           f == robust_normalize(fluxes)
           l == robust_normalize(levels)
<1>1. n \in Nat /\ \A k \in 1..n : windows[k].flux \in Int /\ windows[k].level \in Int
  <2>1. ASSUME NEW k \in 1..n PROVE windows[k].flux \in Int /\ windows[k].level \in Int
    <3>1. windows[k] \in [flux : Nat, level : Int]
      BY RowValue
    <3> QED BY <3>1
  <2> QED BY <2>1
<1>2. i \in 1..n
  OBVIOUS
<1>3. AudioActivity(windows) = [k \in 1..n |-> (2 * f[k] + l[k]) \div 3]
  BY Zenon DEF AudioActivity
<1> HIDE DEF n
<1>4. fluxes \in Seq(Int) /\ Len(fluxes) = n /\ levels \in Seq(Int) /\ Len(levels) = n
  BY <1>1
<1> HIDE DEF fluxes, levels
<1>5. f[i] \in 0..Unit /\ l[i] \in 0..Unit
  BY <1>2, <1>4, NormalizedType
<1>6. AudioActivity(windows)[i] = (2 * f[i] + l[i]) \div 3
  BY <1>2, <1>3
<1> DEFINE x == f[i]
           y == l[i]
<1>7. AudioActivity(windows)[i] = (2 * x + y) \div 3 /\ x \in 0..Unit /\ y \in 0..Unit
  BY Zenon, <1>5, <1>6
<1> HIDE DEF f, l, x, y
<1> QED BY <1>7 DEF Unit

LEMMA MotionActivityType ==
  ASSUME NEW raw, NEW n \in Nat, Len(raw) = n, NEW i \in 1..n,
         \A k \in 1..n : raw[k].global \in Int /\ raw[k].residual \in Int
  PROVE  MotionActivity(raw)[i] \in 0..Unit
<1> DEFINE globals == [k \in 1..n |-> raw[k].global]
           residuals == [k \in 1..n |-> raw[k].residual]
           g == robust_normalize(globals)
           r == robust_normalize(residuals)
<1>1. MotionActivity(raw) = [k \in 1..n |-> (g[k] + r[k]) \div 2]
  BY Zenon DEF MotionActivity
<1>2. globals \in [1..n -> Int] /\ residuals \in [1..n -> Int]
  OBVIOUS
<1> HIDE DEF globals, residuals
<1>5. globals \in Seq(Int) /\ Len(globals) = n /\ residuals \in Seq(Int) /\ Len(residuals) = n
  BY <1>2
<1>3. g[i] \in 0..Unit /\ r[i] \in 0..Unit
  BY <1>5, NormalizedType
<1>4. MotionActivity(raw)[i] = (g[i] + r[i]) \div 2
  BY <1>1
<1> DEFINE x == g[i]
           y == r[i]
<1>6. MotionActivity(raw)[i] = (x + y) \div 2 /\ x \in 0..Unit /\ y \in 0..Unit
  BY Zenon, <1>3, <1>4
<1> HIDE DEF g, r, x, y
<1> QED BY <1>6 DEF Unit

LEMMA CutActivityType ==
  ASSUME NEW at \in Nat, NEW boundaries \in SUBSET Nat, IsFiniteSet(boundaries)
  PROVE  cut_activity(at, boundaries) \in 0..Unit
<1> DEFINE near(b) == Kernel[Min({8, (2 * Distance(at, b)) \div CutSigmaMs}) + 1]
           v == [b \in boundaries |-> near(b)]
<1>1. ASSUME NEW b \in boundaries PROVE near(b) \in Int
  <2> DEFINE x == (2 * Distance(at, b)) \div CutSigmaMs
  <2>1. CutSigmaMs \in Nat \ {0}
    BY TensionAssumption
  <2>2. Distance(at, b) \in Nat
    BY DEF Distance
  <2>3. x \in Nat
    BY <2>1, <2>2
  <2> HIDE DEF x
  <2>4. Min({8, x}) \in 0..8
    <3>1. Min({8, x}) = IF x <= 8 THEN x ELSE 8
      BY <2>3 DEF Min
    <3> QED BY <2>3, <3>1
  <2> DEFINE m == Min({8, x})
  <2> HIDE DEF m
  <2>5. Kernel[m + 1] \in Int
    BY <2>4 DEF Kernel, m
  <2> QED BY Zenon, <2>5 DEF m, x
<1>2. v \in [boundaries -> Int]
  BY <1>1
<1>3. cut_activity(at, boundaries) = clip01(SumFunction(v) \div CutReference)
  BY Zenon DEF cut_activity
<1> HIDE DEF v
<1>4. SumFunction(v) \in Int
  BY <1>2, SumType
<1> DEFINE total == SumFunction(v)
<1> HIDE DEF total
<1>5. total \in Int
  BY Zenon, <1>4 DEF total
<1>6. total \div CutReference \in Int
  BY <1>5 DEF CutReference
<1>7. cut_activity(at, boundaries) = clip01(total \div CutReference)
  BY Zenon, <1>3 DEF total
<1> QED BY <1>6, <1>7, ClipType01

LEMMA WeightsType ==
  ASSUME NEW a \in BOOLEAN, NEW m \in BOOLEAN
  PROVE  LET w == effective_weights(a, m) IN
         /\ w.cut \in Nat /\ w.audio \in Nat /\ w.motion \in Nat
         /\ w.total = w.cut + w.audio + w.motion /\ w.total > 0
         /\ (w.audio > 0) = (a /\ TensionWeights.audio > 0)
         /\ (w.motion > 0) = (m /\ TensionWeights.motion > 0)
<1>1. /\ TensionWeights.cut \in 0..100 /\ TensionWeights.audio \in 0..100
      /\ TensionWeights.motion \in 0..100
  BY TensionAssumption
<1> DEFINE sound == IF a THEN TensionWeights.audio ELSE 0
           motion == IF m THEN TensionWeights.motion ELSE 0
           cut == TensionWeights.cut
           total == cut + sound + motion
           w == effective_weights(a, m)
<1>2. /\ cut \in Nat /\ sound \in Nat /\ motion \in Nat
      /\ (sound > 0) = (a /\ TensionWeights.audio > 0)
      /\ (motion > 0) = (m /\ TensionWeights.motion > 0)
  BY <1>1
<1>3. w = IF total = 0 THEN [cut |-> 1, audio |-> 0, motion |-> 0, total |-> 1]
          ELSE [cut |-> cut, audio |-> sound, motion |-> motion, total |-> total]
  BY Zenon DEF effective_weights
<1> HIDE DEF sound, motion, cut, w
<1>4. CASE total = 0
  <2>1. w.cut = 1 /\ w.audio = 0 /\ w.motion = 0 /\ w.total = 1
    BY <1>3, <1>4
  <2>2. sound = 0 /\ motion = 0
    BY <1>2, <1>4
  <2>3. (w.audio > 0) = (a /\ TensionWeights.audio > 0)
    BY <1>2, <2>1, <2>2
  <2>4. (w.motion > 0) = (m /\ TensionWeights.motion > 0)
    BY <1>2, <2>1, <2>2
  <2> QED BY <2>1, <2>3, <2>4 DEF w
<1>5. CASE total # 0
  <2>1. w.cut = cut /\ w.audio = sound /\ w.motion = motion /\ w.total = total
    BY <1>3, <1>5
  <2> QED BY <1>2, <1>5, <2>1 DEF w
<1> QED BY <1>4, <1>5

\* The combined value is in its range, and between the components that weigh.
Between(c, cut, sound, motion, w) ==
  LET parts == {x \in {<< w.cut, cut >>, << w.audio, sound >>, << w.motion, motion >>} : x[1] > 0}
  IN  /\ \E x \in parts : x[2] <= c
      /\ \E x \in parts : x[2] >= c

LEMMA Weighted ==
  ASSUME NEW a \in Nat, NEW x \in Nat, NEW l \in Int, a > 0 => l <= x
  PROVE  a * l <= a * x
<1>1. CASE a > 0
  BY <1>1, MultipleBelow
<1>2. CASE a = 0
  BY <1>2
<1> QED BY <1>1, <1>2

LEMMA WeightedAbove ==
  ASSUME NEW a \in Nat, NEW x \in Nat, NEW h \in Int, a > 0 => x <= h
  PROVE  a * x <= a * h
<1>1. CASE a > 0
  BY <1>1, MultipleBelow
<1>2. CASE a = 0
  BY <1>2
<1> QED BY <1>1, <1>2

\* A weighted mean of three numbers is as large as the least and as small as the
\* greatest of those that weigh.
LEMMA MeanOfThree ==
  ASSUME NEW a \in Nat, NEW b \in Nat, NEW d \in Nat, a + b + d > 0,
         NEW x \in Nat, NEW y \in Nat, NEW z \in Nat
  PROVE  LET mean == (a * x + b * y + d * z) \div (a + b + d) IN
         /\ mean \in Int
         /\ (a > 0 /\ x <= mean) \/ (b > 0 /\ y <= mean) \/ (d > 0 /\ z <= mean)
         /\ (a > 0 /\ x >= mean) \/ (b > 0 /\ y >= mean) \/ (d > 0 /\ z >= mean)
<1> DEFINE X == a * x + b * y + d * z
           t == a + b + d
           mean == X \div t
<1>1. /\ a * x \in Int /\ b * y \in Int /\ d * z \in Int /\ X \in Int /\ t \in Nat /\ t > 0
  OBVIOUS
<1> HIDE DEF X, t
<1>2. mean \in Int /\ t * mean <= X /\ X < t * mean + t
  BY <1>1, Quotient
<1> HIDE DEF mean
<1>3. \A u \in Int : t * u = a * u + b * u + d * u /\ a * u \in Int /\ b * u \in Int /\ d * u \in Int
  BY DEF t
<1>4. ASSUME ~((a > 0 /\ x <= mean) \/ (b > 0 /\ y <= mean) \/ (d > 0 /\ z <= mean))
      PROVE  FALSE
  <2> DEFINE l == mean + 1
  <2>1. l \in Int /\ (a > 0 => l <= x) /\ (b > 0 => l <= y) /\ (d > 0 => l <= z)
    BY <1>2, <1>4
  <2>2. t * l = t * mean + t
    BY <1>1, <1>2
  <2> HIDE DEF l
  <2>3. a * l <= a * x /\ b * l <= b * y /\ d * l <= d * z
    BY <2>1, Weighted
  <2>4. t * l <= X
    BY <1>1, <1>3, <2>1, <2>3 DEF X
  <2>5. t * mean \in Int
    BY <1>1, <1>2
  <2> QED BY <1>1, <1>2, <2>2, <2>4, <2>5
<1>5. ASSUME ~((a > 0 /\ x >= mean) \/ (b > 0 /\ y >= mean) \/ (d > 0 /\ z >= mean))
      PROVE  FALSE
  <2> DEFINE h == mean - 1
  <2>1. h \in Int /\ (a > 0 => x <= h) /\ (b > 0 => y <= h) /\ (d > 0 => z <= h)
    BY <1>2, <1>5
  <2>2. t * h = t * mean - t
    BY <1>1, <1>2
  <2> HIDE DEF h
  <2>3. a * x <= a * h /\ b * y <= b * h /\ d * z <= d * h
    BY <2>1, WeightedAbove
  <2>4. X <= t * h
    BY <1>1, <1>3, <2>1, <2>3 DEF X
  <2>5. t * mean \in Int
    BY <1>1, <1>2
  <2> QED BY <1>1, <1>2, <2>2, <2>4, <2>5
<1> QED BY <1>2, <1>4, <1>5 DEF mean, X, t

LEMMA CombinedBetween ==
  ASSUME NEW cut \in 0..Unit, NEW sound \in 0..Unit, NEW motion \in 0..Unit,
         NEW a \in BOOLEAN, NEW m \in BOOLEAN
  PROVE  LET w == effective_weights(a, m)
             c == combine_tension(cut, sound, motion, w)
         IN  c \in 0..Unit /\ Between(c, cut, sound, motion, w)
<1> DEFINE w == effective_weights(a, m)
           c == combine_tension(cut, sound, motion, w)
           p == w.cut
           q == w.audio
           r == w.motion
           mean == (p * cut + q * sound + r * motion) \div (p + q + r)
<1>1. /\ p \in Nat /\ q \in Nat /\ r \in Nat /\ w.total = p + q + r /\ p + q + r > 0
  BY WeightsType
<1>2. c = clip01(mean)
  BY Zenon, <1>1 DEF combine_tension
<1> HIDE DEF w
<1>3. cut \in Nat /\ sound \in Nat /\ motion \in Nat /\ cut <= Unit /\ sound <= Unit /\ motion <= Unit
  BY DEF Unit
<1> HIDE DEF p, q, r
<1>4. /\ mean \in Int
      /\ (p > 0 /\ cut <= mean) \/ (q > 0 /\ sound <= mean) \/ (r > 0 /\ motion <= mean)
      /\ (p > 0 /\ cut >= mean) \/ (q > 0 /\ sound >= mean) \/ (r > 0 /\ motion >= mean)
  BY <1>1, <1>3, MeanOfThree
<1> HIDE DEF mean
<1>5. mean \in 0..Unit
  BY <1>3, <1>4 DEF Unit
<1>6. c = mean
  BY <1>2, <1>4, <1>5, ClipType01
<1> HIDE DEF c
<1> DEFINE parts == {x \in {<< p, cut >>, << q, sound >>, << r, motion >>} : x[1] > 0}
<1>7. /\ p > 0 => << p, cut >> \in parts
      /\ q > 0 => << q, sound >> \in parts
      /\ r > 0 => << r, motion >> \in parts
  OBVIOUS
<1> HIDE DEF parts
<1>8. (\E x \in parts : x[2] <= c) /\ (\E x \in parts : x[2] >= c)
  <2>1. \E x \in parts : x[2] <= c
    BY <1>4, <1>6, <1>7
  <2>2. \E x \in parts : x[2] >= c
    BY <1>4, <1>6, <1>7
  <2> QED BY <2>1, <2>2
<1>9. Between(c, cut, sound, motion, w)
  BY Zenon, <1>8 DEF Between, parts, p, q, r
<1> QED BY <1>5, <1>6, <1>9 DEF c, w

-----------------------------------------------------------------------------
(* Peaks.                                                                  *)

Highest(points) ==
  {i \in 1..Len(points) : \A j \in 1..Len(points) : points[i].combined >= points[j].combined}

PeaksAreHigh(points) ==
  /\ Peaks(points) # {}
  /\ \/ Peaks(points) \cap Highest(points) # {}
     \/ \E i \in Highest(points) \ {1} : /\ points[i - 1].combined < points[i].combined
                                       /\ isclose(points[i - 1].combined, points[i].combined)
  /\ \A i \in Peaks(points), j \in 1..Len(points) :
       Distance(i, j) = 1 => points[i].combined >= points[j].combined

LEMMA HighestIsPeak ==
  ASSUME NEW points, NEW n \in Nat, Len(points) = n, n >= 1, points # << >>,
         \A i \in 1..n : points[i].combined \in Nat
  PROVE  PeaksAreHigh(points)
<1> DEFINE v == [i \in 1..n |-> points[i].combined]
           value(i) == IF i \in 1..n THEN v[i] ELSE -1
           found == {i \in 1..n : /\ value(i) >= value(i - 1) /\ value(i) >= value(i + 1) /\ value(i) > 0
                                  /\ ~(i > 1 /\ isclose(value(i - 1), value(i)))}
           First(i) == \A j \in 1..n \ {i} : value(i) > value(j) \/ (value(i) = value(j) /\ i < j)
           first == CHOOSE i \in 1..n : First(i)
<1>1. v \in [1..n -> Nat] /\ \A i \in 1..n : v[i] = points[i].combined
  OBVIOUS
<1>2. Peaks(points) = IF found # {} THEN found ELSE {first}
  <2> DEFINE val(i) == IF i \in 1..Len(points) THEN points[i].combined ELSE -1
             fnd == {i \in 1..Len(points) :
                       /\ val(i) >= val(i - 1) /\ val(i) >= val(i + 1) /\ val(i) > 0
                       /\ ~(i > 1 /\ isclose(val(i - 1), val(i)))}
             fst == CHOOSE i \in 1..Len(points) :
                      \A j \in 1..Len(points) \ {i} : val(i) > val(j) \/ (val(i) = val(j) /\ i < j)
  <2>1. Peaks(points) = IF fnd # {} \/ points = << >> THEN fnd ELSE {fst}
    BY Zenon DEF Peaks
  <2>2. \A i : val(i) = value(i)
    BY <1>1
  <2>3. fnd = found
    BY <2>2
  <2> HIDE DEF val, value
  <2>4. fst = first
    BY <2>2
  <2> QED BY <2>1, <2>3, <2>4
<1> HIDE DEF v
<1>3. \E i \in 1..n : First(i)
  <2>1. IsFiniteSet(1..n) /\ 1..n # {} /\ v \in [1..n -> Int]
    <3>1. IsFiniteSet(1..n)
      BY FS_Interval
    <3>2. 1 \in 1..n
      OBVIOUS
    <3>3. v \in [1..n -> Int]
      BY <1>1
    <3> QED BY <3>1, <3>2, <3>3
  <2>2. PICK x \in 1..n : \A y \in 1..n : v[y] <= v[x]
    BY <2>1, EndsExist
  <2> DEFINE T == {i \in 1..n : v[i] = v[x]}
  <2>3. T \in SUBSET Nat /\ x \in T
    OBVIOUS
  <2>4. \A i \in 1..n : v[i] = v[x] <=> i \in T
    OBVIOUS
  <2> HIDE DEF T
  <2>5. PICK i \in T : \A j \in T : i <= j
    BY <2>3, LeastNatural
  <2>6. i \in 1..n
    BY <2>3, <2>5 DEF T
  <2>7. ASSUME NEW j \in 1..n \ {i} PROVE v[i] > v[j] \/ (v[i] = v[j] /\ i < j)
    <3>1. v[j] \in Nat /\ v[i] \in Nat /\ v[x] \in Nat /\ v[j] <= v[x] /\ v[i] = v[x]
      BY <1>1, <2>2, <2>4, <2>5, <2>6
    <3>2. CASE j \in T
      BY <2>4, <2>5, <2>6, <3>1, <3>2
    <3>3. CASE j \notin T
      BY <2>4, <3>1, <3>3
    <3> QED BY <3>2, <3>3
  <2> QED BY <2>6, <2>7
<1>4. first \in 1..n /\ First(first)
  <2> HIDE DEF First
  <2> QED BY <1>3
<1> HIDE DEF first
<1>5. \A j \in 1..n : v[first] >= v[j]
  BY <1>1, <1>4
<1>6. ASSUME NEW i \in found PROVE i \in 1..n /\ \A j \in 1..n : Distance(i, j) = 1 => v[i] >= v[j]
  <2>1. i \in 1..n /\ value(i) >= value(i - 1) /\ value(i) >= value(i + 1)
    OBVIOUS
  <2>2. ASSUME NEW j \in 1..n, Distance(i, j) = 1 PROVE v[i] >= v[j]
    <3>1. j = i - 1 \/ j = i + 1
      BY <2>1, <2>2 DEF Distance
    <3> QED BY <1>1, <2>1, <3>1
  <2> QED BY <2>1, <2>2
<1>7. first \in Highest(points)
  BY <1>1, <1>4, <1>5 DEF Highest
<1>8. CASE first \in found
  <2>1. Peaks(points) = found
    BY <1>2, <1>8
  <2> HIDE DEF found
  <2> QED BY <1>1, <1>6, <1>7, <1>8, <2>1 DEF PeaksAreHigh
<1>9. CASE found = {}
  <2>1. Peaks(points) = {first}
    BY <1>2, <1>9
  <2> QED BY <1>1, <1>4, <1>5, <1>7, <2>1 DEF PeaksAreHigh
<1>10. CASE found # {} /\ first \notin found
  <2>1. v[first] > 0
    <3>1. PICK i \in found : TRUE
      BY <1>10
    <3>2. i \in 1..n /\ v[i] > 0
      OBVIOUS
    <3> QED BY <1>1, <1>4, <1>5, <3>2
  <2>2. value(first) = v[first] /\ v[first] \in Nat
    BY <1>1, <1>4
  <2>3. value(first - 1) < v[first] /\ value(first + 1) <= v[first]
    BY <1>1, <1>4, <1>5, <2>2
  <2>4. value(first - 1) \in Int
    BY <1>1, <1>4
  <2>5. first > 1 /\ isclose(value(first - 1), value(first))
    <3> HIDE DEF value
    <3> QED BY <1>4, <1>10, <2>1, <2>2, <2>3, <2>4
  <2>6. value(first - 1) = points[first - 1].combined /\ value(first) = points[first].combined
    BY <1>1, <1>4, <2>5
  <2>7. Peaks(points) = found
    BY <1>2, <1>10
  <2>8. /\ first \in Highest(points) \ {1} /\ points[first - 1].combined < points[first].combined
        /\ isclose(points[first - 1].combined, points[first].combined)
    <3> HIDE DEF value
    <3> QED BY <1>4, <1>7, <2>2, <2>3, <2>5, <2>6
  <2> HIDE DEF found
  <2> QED BY <1>1, <1>6, <1>10, <2>7, <2>8 DEF PeaksAreHigh
<1> QED BY <1>8, <1>9, <1>10

-----------------------------------------------------------------------------
(* Boxes, and the order of the pairs of a track and a hit.                 *)

LEMMA MultipleStrict ==
  ASSUME NEW b \in Int, b > 0, NEW x \in Int, NEW y \in Int
  PROVE  (x < y) = (b * x < b * y)
<1>1. CASE x < y
  <2>1. b * (y - x) > 0
    BY <1>1
  <2>2. b * (y - x) = b * y - b * x /\ b * y \in Int /\ b * x \in Int
    OBVIOUS
  <2> QED BY <1>1, <2>1, <2>2
<1>2. CASE y <= x
  <2>1. b * (x - y) >= 0
    BY <1>2
  <2>2. b * (x - y) = b * x - b * y /\ b * y \in Int /\ b * x \in Int
    OBVIOUS
  <2> QED BY <1>2, <2>1, <2>2
<1> QED BY <1>1, <1>2

\* A quotient of numbers, of which the second is positive.
IsQuotient(p) == p.part \in Int /\ p.whole \in Int /\ p.whole > 0

\* To exceed is a strict weak order of quotients.
LEMMA ExceedsOrder ==
  ASSUME NEW p, NEW q, NEW r, IsQuotient(p), IsQuotient(q), IsQuotient(r)
  PROVE  /\ ~Exceeds(p, p)
         /\ Exceeds(p, q) => ~Exceeds(q, p)
         /\ ~Exceeds(q, p) /\ Exceeds(q, r) => Exceeds(p, r)
         /\ Exceeds(p, q) /\ ~Exceeds(r, q) => Exceeds(p, r)
         /\ ~Exceeds(q, p) /\ ~Exceeds(r, q) => ~Exceeds(r, p)
<1> DEFINE a == p.part  A == p.whole
           b == q.part  B == q.whole
           c == r.part  C == r.whole
<1>1. /\ a \in Int /\ b \in Int /\ c \in Int /\ A \in Int /\ B \in Int /\ C \in Int
      /\ A > 0 /\ B > 0 /\ C > 0
  BY DEF IsQuotient
<1>2. /\ Exceeds(p, p) <=> (a * A > a * A)
      /\ Exceeds(p, q) <=> (a * B > b * A)
      /\ Exceeds(q, p) <=> (b * A > a * B)
      /\ Exceeds(q, r) <=> (b * C > c * B)
      /\ Exceeds(r, q) <=> (c * B > b * C)
      /\ Exceeds(p, r) <=> (a * C > c * A)
      /\ Exceeds(r, p) <=> (c * A > a * C)
  BY DEF Exceeds
<1> HIDE DEF a, b, c, A, B, C
<1> DEFINE pq == a * B  qp == b * A
           qr == b * C  rq == c * B
           pr == a * C  rp == c * A
<1>3. /\ pq \in Int /\ qp \in Int /\ qr \in Int /\ rq \in Int /\ pr \in Int /\ rp \in Int
      /\ a * A \in Int
  BY <1>1
<1>4. C * pq = B * pr /\ C * qp = A * qr /\ A * rq = B * rp
  BY <1>1
<1> HIDE DEF pq, qp, qr, rq, pr, rp
<1>5. /\ (qp < pq) = (C * qp < C * pq) /\ (pq < qp) = (C * pq < C * qp)
      /\ (qr < rq) = (A * qr < A * rq) /\ (rq < qr) = (A * rq < A * qr)
      /\ (pr < rp) = (B * pr < B * rp) /\ (rp < pr) = (B * rp < B * pr)
  BY <1>1, <1>3, MultipleStrict
<1> DEFINE x == C * pq  y == C * qp  z == A * rq
<1>6. x \in Int /\ y \in Int /\ z \in Int
  BY <1>1, <1>3
<1>7. /\ (qp < pq) = (y < x) /\ (pq < qp) = (x < y)
      /\ (qr < rq) = (y < z) /\ (rq < qr) = (z < y)
      /\ (pr < rp) = (x < z) /\ (rp < pr) = (z < x)
  BY <1>4, <1>5
<1> HIDE DEF x, y, z
<1>8. /\ Exceeds(p, q) <=> (y < x)
      /\ Exceeds(q, p) <=> (x < y)
      /\ Exceeds(q, r) <=> (z < y)
      /\ Exceeds(r, q) <=> (y < z)
      /\ Exceeds(p, r) <=> (z < x)
      /\ Exceeds(r, p) <=> (x < z)
  BY <1>2, <1>3, <1>7 DEF pq, qp, qr, rq, pr, rp
<1> DEFINE s == a * A
<1>9. ~Exceeds(p, p)
  <2>1. Exceeds(p, p) <=> (s > s)
    BY <1>2
  <2>2. s \in Int
    BY <1>3
  <2> HIDE DEF s
  <2> QED BY <2>1, <2>2
<1> QED BY <1>6, <1>8, <1>9

LEMMA BoxType ==
  ASSUME NEW b \in BoxNorm
  PROVE  /\ b.x_min \in Int /\ b.x_max \in Int /\ b.y_min \in Int /\ b.y_max \in Int
         /\ b.x_min < b.x_max /\ b.y_min < b.y_max
BY DEF BoxNorm

LEMMA ProductMonotone ==
  ASSUME NEW w \in Nat, NEW h \in Nat, NEW W \in Nat, NEW H \in Nat, w <= W, h <= H
  PROVE  w * h <= W * H /\ w * h \in Nat /\ W * H \in Nat
<1>1. h * w <= h * W /\ W * h <= W * H
  BY MultipleBelow
<1>2. h * w = w * h /\ h * W = W * h /\ w * h \in Nat /\ W * h \in Nat /\ W * H \in Nat
  OBVIOUS
<1> QED BY <1>1, <1>2

\* Two boxes overlap in no more than either of them, and their union is not empty.
LEMMA IouType ==
  ASSUME NEW a \in BoxNorm, NEW b \in BoxNorm
  PROVE  IsQuotient(box_iou(a, b))
<1> DEFINE w == Greatest(0, Least(a.x_max, b.x_max) - Greatest(a.x_min, b.x_min))
           h == Greatest(0, Least(a.y_max, b.y_max) - Greatest(a.y_min, b.y_min))
           W == a.x_max - a.x_min
           H == a.y_max - a.y_min
           V == b.x_max - b.x_min
           K == b.y_max - b.y_min
<1>1. /\ w \in Nat /\ h \in Nat /\ W \in Nat /\ H \in Nat /\ V \in Nat /\ K \in Nat
      /\ w <= W /\ h <= H /\ V > 0 /\ K > 0
  BY BoxType DEF Greatest, Least
<1>2. box_iou(a, b) = [part |-> w * h, whole |-> W * H + V * K - w * h]
  BY Zenon DEF box_iou, Intersection, box_area
<1> HIDE DEF w, h, W, H, V, K
<1>3. w * h <= W * H /\ w * h \in Nat /\ W * H \in Nat
  BY <1>1, ProductMonotone
<1>4. V * K \in Int /\ V * K > 0
  BY <1>1
<1> DEFINE p == w * h  whole == W * H + V * K - w * h
<1>5. p \in Int /\ whole \in Int /\ whole > 0
  BY <1>3, <1>4
<1>6. box_iou(a, b) = [part |-> p, whole |-> whole]
  BY <1>2
<1> HIDE DEF p, whole
<1> QED BY <1>5, <1>6 DEF IsQuotient

Pairs(last, hits) == [track : 1..Len(last), hit : 1..Len(hits)]

\* A live track has a last box, and a hit a box.
Boxed(last, hits) ==
  /\ Len(last) \in Nat /\ Len(hits) \in Nat
  /\ \A t \in 1..Len(last) : last[t] \in BoxNorm
  /\ \A h \in 1..Len(hits) : hits[h].box \in BoxNorm

\* Of some pairs one comes before all the others.
LEMMA BestExists ==
  ASSUME NEW last, NEW hits, Boxed(last, hits), NEW good \in SUBSET Pairs(last, hits), good # {}
  PROVE  \E x \in good : \A y \in good \ {x} : Before(last, hits, x, y)
<1> DEFINE iou == [p \in good |-> box_iou(last[p.track], hits[p.hit].box)]
           R == {e \in good \X good : Before(last, hits, e[1], e[2])}
<1>1. ASSUME NEW p \in good
      PROVE  p.track \in Int /\ p.hit \in Int /\ IsQuotient(iou[p])
  <2>1. p.track \in 1..Len(last) /\ p.hit \in 1..Len(hits)
    BY DEF Pairs
  <2>2. last[p.track] \in BoxNorm /\ hits[p.hit].box \in BoxNorm
    BY <2>1 DEF Boxed
  <2> QED BY <2>1, <2>2, IouType
<1>2. ASSUME NEW p \in good, NEW q \in good
      PROVE  Before(last, hits, p, q) <=>
               \/ Exceeds(iou[p], iou[q])
               \/ /\ ~Exceeds(iou[q], iou[p])
                  /\ p.track < q.track \/ (p.track = q.track /\ p.hit < q.hit)
  BY DEF Before
<1>3. \A p, q \in good : << p, q >> \in R <=> Before(last, hits, p, q)
  BY DEF R
<1>4. \A p, q \in good : p.track = q.track /\ p.hit = q.hit => p = q
  BY DEF Pairs
<1>5. IsFiniteSet(good)
  <2> DEFINE places == (1..Len(last)) \X (1..Len(hits))
             f == [e \in places |-> [track |-> e[1], hit |-> e[2]]]
             all == {f[e] : e \in places}
  <2>1. IsFiniteSet(1..Len(last)) /\ IsFiniteSet(1..Len(hits))
    BY FS_Interval DEF Boxed
  <2>2. IsFiniteSet(places)
    BY <2>1, FS_Product
  <2>3. \A p \in good : << p.track, p.hit >> \in places /\ p = f[<< p.track, p.hit >>]
    BY DEF Pairs
  <2>4. f = [e \in places |-> f[e]]
    OBVIOUS
  <2> HIDE DEF f, places
  <2>5. IsFiniteSet(all)
    BY <2>2, <2>4, ImageFinite
  <2>6. good \subseteq all
    BY <2>3
  <2> QED BY <2>5, <2>6, FS_Subset
<1> HIDE DEF iou, R
<1>6. StrictOrder(R, good)
  <2>1. ASSUME NEW p \in good PROVE << p, p >> \notin R
    <3>1. ~Exceeds(iou[p], iou[p])
      BY <1>1, ExceedsOrder
    <3> QED BY <1>1, <1>2, <1>3, <3>1
  <2>2. ASSUME NEW p \in good, NEW q \in good, p # q PROVE << p, q >> \in R \/ << q, p >> \in R
    <3>1. p.track < q.track \/ q.track < p.track \/ p.hit < q.hit \/ q.hit < p.hit
      BY <1>1, <1>4, <2>2
    <3> QED BY <1>1, <1>2, <1>3, <3>1
  <2>3. ASSUME NEW p \in good, NEW q \in good, NEW r \in good, << p, q >> \in R, << q, r >> \in R
        PROVE  << p, r >> \in R
    <3> DEFINE pq == Exceeds(iou[p], iou[q])
               qp == Exceeds(iou[q], iou[p])
               qr == Exceeds(iou[q], iou[r])
               rq == Exceeds(iou[r], iou[q])
               pr == Exceeds(iou[p], iou[r])
               rp == Exceeds(iou[r], iou[p])
    <3>1. /\ pq => ~qp
          /\ qr => ~rq
          /\ ~qp /\ qr => pr
          /\ pq /\ ~rq => pr
          /\ ~qp /\ ~rq => ~rp
      BY <1>1, ExceedsOrder
    <3>2. pq \/ (~qp /\ (p.track < q.track \/ (p.track = q.track /\ p.hit < q.hit)))
      BY <1>2, <1>3, <2>3
    <3>3. qr \/ (~rq /\ (q.track < r.track \/ (q.track = r.track /\ q.hit < r.hit)))
      BY <1>2, <1>3, <2>3
    <3>4. /\ p.track \in Int /\ q.track \in Int /\ r.track \in Int
          /\ p.hit \in Int /\ q.hit \in Int /\ r.hit \in Int
      BY <1>1
    <3> HIDE DEF pq, qp, qr, rq, pr, rp
    <3>5. pr \/ (~rp /\ (p.track < r.track \/ (p.track = r.track /\ p.hit < r.hit)))
      BY <3>1, <3>2, <3>3, <3>4
    <3> QED BY <1>2, <1>3, <3>5 DEF pr, rp
  <2> QED BY <2>1, <2>2, <2>3 DEF StrictOrder
<1>7. Cardinality(good) \in Nat /\ Cardinality(good) # 0
  BY <1>5, FS_CardinalityType, FS_EmptySet
<1>8. PICK x \in good : Rank(x, good, R) = 1 - 1
  <2>1. 1 \in 1..Cardinality(good)
    BY <1>7
  <2> QED BY <1>5, <1>6, <2>1, Ranks
<1>9. ASSUME NEW y \in good \ {x} PROVE Before(last, hits, x, y)
  <2>1. << y, x >> \in R \/ << x, y >> \in R
    BY <1>6 DEF StrictOrder
  <2>2. CASE << y, x >> \in R
    <3>1. Rank(y, good, R) < Rank(x, good, R) /\ Rank(y, good, R) \in 0..(Cardinality(good) - 1)
      BY <1>5, <1>6, <2>2, Ranks
    <3> QED BY <1>7, <1>8, <3>1
  <2> QED BY <1>3, <2>1, <2>2
<1> QED BY <1>9

\* What a greedy assignment takes: pairs of enough overlap, no two of which share
\* their track or their hit.
GoodTaken(last, hits, taken) ==
  /\ taken \subseteq Pairs(last, hits)
  /\ \A p \in taken : AtLeast(box_iou(last[p.track], hits[p.hit].box), TrackIouMin)
  /\ \A p, q \in taken : p.track = q.track \/ p.hit = q.hit => p = q

\* Every pair of enough overlap shares its track or its hit with one that is taken.
NoneLeft(last, hits, pairs, taken) ==
  \A p \in pairs :
    AtLeast(box_iou(last[p.track], hits[p.hit].box), TrackIouMin) =>
      \E q \in taken : q.track = p.track \/ q.hit = p.hit

LEMMA PairsFinite ==
  ASSUME NEW last, NEW hits, Boxed(last, hits)
  PROVE  IsFiniteSet(Pairs(last, hits))
<1> DEFINE places == (1..Len(last)) \X (1..Len(hits))
           f == [e \in places |-> [track |-> e[1], hit |-> e[2]]]
           all == {f[e] : e \in places}
<1>1. IsFiniteSet(1..Len(last)) /\ IsFiniteSet(1..Len(hits))
  BY FS_Interval DEF Boxed
<1>2. IsFiniteSet(places)
  BY <1>1, FS_Product
<1>3. \A p \in Pairs(last, hits) : << p.track, p.hit >> \in places /\ p = f[<< p.track, p.hit >>]
  BY DEF Pairs
<1>4. f = [e \in places |-> f[e]]
  OBVIOUS
<1> HIDE DEF f, places
<1>5. IsFiniteSet(all)
  BY <1>2, <1>4, ImageFinite
<1>6. Pairs(last, hits) \subseteq all
  BY <1>3
<1> QED BY <1>5, <1>6, FS_Subset

LEMMA GreedyTakes ==
  ASSUME NEW last, NEW hits, Boxed(last, hits)
  PROVE  /\ GoodTaken(last, hits, Greedy(last, hits))
         /\ NoneLeft(last, hits, Pairs(last, hits), Greedy(last, hits))
<1> DEFINE S == Pairs(last, hits)
           fits(P) == {p \in P : AtLeast(box_iou(last[p.track], hits[p.hit].box), TrackIouMin)}
           best(P) == CHOOSE x \in fits(P) : \A y \in fits(P) \ {x} : Before(last, hits, x, y)
           others(P) == {q \in fits(P) : q.track # best(P).track /\ q.hit # best(P).hit}
           G(h) == h = [P \in SUBSET S |-> IF fits(P) = {} THEN {} ELSE {best(P)} \cup h[others(P)]]
           H == CHOOSE h : G(h)
           good == [P \in SUBSET S |-> fits(P)]
           one == [P \in SUBSET S |-> best(P)]
           rest == [P \in SUBSET S |-> others(P)]
           Stop == {P \in SUBSET S : fits(P) = {}}
           step == [e \in (SUBSET S) \X (SUBSET S) |-> {one[e[1]]} \cup e[2]]
<1>1. Greedy(last, hits) = H[S]
  BY Zenon DEF Greedy, Pairs
<1>2. ASSUME NEW P \in SUBSET S, fits(P) # {}
      PROVE  best(P) \in fits(P)
  <2>1. fits(P) \in SUBSET Pairs(last, hits)
    OBVIOUS
  <2> HIDE DEF fits
  <2>2. \E x \in fits(P) : \A y \in fits(P) \ {x} : Before(last, hits, x, y)
    BY <1>2, <2>1, BestExists
  <2> QED BY <2>2
<1>3. /\ \A P \in SUBSET S : good[P] = fits(P) /\ one[P] = best(P) /\ rest[P] = others(P)
      /\ \A P \in SUBSET S : P \in Stop <=> good[P] = {}
  OBVIOUS
<1>4. ASSUME NEW P \in SUBSET S
      PROVE  /\ good[P] \subseteq P /\ rest[P] \subseteq good[P]
             /\ \A p \in good[P] : AtLeast(box_iou(last[p.track], hits[p.hit].box), TrackIouMin)
             /\ \A q \in rest[P] : q.track # one[P].track /\ q.hit # one[P].hit
             /\ good[P] # {} => one[P] \in good[P] /\ one[P] \notin rest[P]
             /\ \A p \in P :
                  AtLeast(box_iou(last[p.track], hits[p.hit].box), TrackIouMin) => p \in good[P]
             /\ \A q \in good[P] \ rest[P] : q.track = one[P].track \/ q.hit = one[P].hit
  <2>1. good[P] = fits(P) /\ one[P] = best(P) /\ rest[P] = others(P)
    BY <1>3
  <2>2. fits(P) # {} => best(P) \in fits(P)
    BY <1>2
  <2> HIDE DEF good, one, rest
  <2>3. /\ fits(P) \subseteq P
        /\ \A p \in fits(P) : AtLeast(box_iou(last[p.track], hits[p.hit].box), TrackIouMin)
        /\ \A p \in P :
             AtLeast(box_iou(last[p.track], hits[p.hit].box), TrackIouMin) => p \in fits(P)
    OBVIOUS
  <2> HIDE DEF fits, best
  <2> QED BY <2>1, <2>2, <2>3
<1>5. ASSUME NEW P \in SUBSET S, NEW x \in SUBSET S PROVE step[<< P, x >>] = {one[P]} \cup x
  OBVIOUS
<1>6. \A h : G(h) <=> h = [P \in SUBSET S |-> IF good[P] = {} THEN {} ELSE {one[P]} \cup h[rest[P]]]
  <2> SUFFICES ASSUME NEW h
               PROVE  [P \in SUBSET S |-> IF fits(P) = {} THEN {} ELSE {best(P)} \cup h[others(P)]] =
                      [P \in SUBSET S |-> IF good[P] = {} THEN {} ELSE {one[P]} \cup h[rest[P]]]
    BY Zenon
  <2> HIDE DEF good, one, rest
  <2>1. ASSUME NEW P \in SUBSET S
        PROVE  (IF fits(P) = {} THEN {} ELSE {best(P)} \cup h[others(P)]) =
               (IF good[P] = {} THEN {} ELSE {one[P]} \cup h[rest[P]])
    <3>1. fits(P) = good[P] /\ best(P) = one[P] /\ others(P) = rest[P]
      BY <1>3
    <3> HIDE DEF fits, best, others
    <3> QED BY <3>1
  <2> HIDE DEF fits, best, others, S
  <2> QED BY Zenon, <2>1
<1> HIDE DEF good, one, rest, Stop, step, G
<1>7. ASSUME NEW P \in SUBSET S, P \notin Stop PROVE rest[P] \in SUBSET P /\ rest[P] # P
  BY <1>3, <1>4, <1>7
<1> DEFINE part == [e \in (SUBSET S) \X (SUBSET S) |-> step[e] \cap S]
<1>8. ASSUME NEW P \in SUBSET S, NEW x \in SUBSET S
      PROVE  /\ part[<< P, x >>] \in SUBSET S
             /\ P \notin Stop => part[<< P, x >>] = {one[P]} \cup x
  <2>1. part[<< P, x >>] = ({one[P]} \cup x) \cap S
    BY <1>5
  <2>2. P \notin Stop => one[P] \in S
    BY <1>3, <1>4
  <2> QED BY <2>1, <2>2
<1> HIDE DEF part
<1>9. PICK h \in [SUBSET S -> SUBSET S] : Descends(h, S, Stop, {}, rest, part)
  <2>1. IsFiniteSet(S) /\ {} \in SUBSET S
    BY PairsFinite
  <2> HIDE DEF S
  <2> QED BY <2>1, <1>7, <1>8, SubsetRecursion
<1>10. ASSUME NEW P \in SUBSET S
       PROVE  h[P] = IF good[P] = {} THEN {} ELSE {one[P]} \cup h[rest[P]]
  <2>1. CASE good[P] = {}
    BY <1>3, <1>9, <2>1 DEF Descends
  <2>2. CASE good[P] # {}
    <3>1. P \notin Stop /\ rest[P] \in SUBSET S
      BY <1>3, <1>7, <2>2
    <3>2. h[P] = part[<< P, h[rest[P]] >>] /\ h[rest[P]] \in SUBSET S
      BY <1>9, <3>1 DEF Descends
    <3> QED BY <1>8, <2>2, <3>1, <3>2
  <2> QED BY <2>1, <2>2
<1>11. G(h)
  BY <1>6, <1>10
<1>12. G(H)
  BY <1>11
<1>13. \A P \in SUBSET S : H[P] = IF good[P] = {} THEN {} ELSE {one[P]} \cup H[rest[P]]
  BY <1>6, <1>12
<1> HIDE DEF H
<1> DEFINE J == {P \in SUBSET S : /\ H[P] \subseteq P
                                   /\ GoodTaken(last, hits, H[P]) /\ NoneLeft(last, hits, P, H[P])}
<1>14. ASSUME NEW P \in SUBSET S, \A r \in SUBSET P : r # P => r \in J PROVE P \in J
  <2>1. CASE good[P] = {}
    <3>1. H[P] = {}
      BY <1>13, <2>1
    <3>2. NoneLeft(last, hits, P, H[P])
      BY <1>4, <2>1 DEF NoneLeft
    <3> QED BY <3>1, <3>2 DEF GoodTaken
  <2>2. CASE good[P] # {}
    <3>1. H[P] = {one[P]} \cup H[rest[P]]
      BY <1>13, <2>2
    <3>2. rest[P] \in J
      BY <1>3, <1>7, <1>14, <2>2
    <3>3. /\ H[rest[P]] \subseteq rest[P]
          /\ GoodTaken(last, hits, H[rest[P]]) /\ NoneLeft(last, hits, rest[P], H[rest[P]])
      BY <3>2
    <3>4. one[P] \in good[P] /\ rest[P] \subseteq good[P] /\ good[P] \subseteq P
      BY <1>4, <2>2
    <3>5. \A q \in H[rest[P]] : q.track # one[P].track /\ q.hit # one[P].hit
      BY <1>4, <3>3
    <3>6. AtLeast(box_iou(last[one[P].track], hits[one[P].hit].box), TrackIouMin)
      BY <1>4, <3>4
    <3> DEFINE a == one[P]
               T == H[rest[P]]
               K == H[P]
    <3>7. /\ K = {a} \cup T /\ T \subseteq P /\ a \in P /\ GoodTaken(last, hits, T)
          /\ \A q \in T : q.track # a.track /\ q.hit # a.hit
          /\ AtLeast(box_iou(last[a.track], hits[a.hit].box), TrackIouMin)
      BY <3>1, <3>3, <3>4, <3>5, <3>6
    <3> HIDE DEF a, T, K
    <3>8. K \subseteq P /\ K \subseteq Pairs(last, hits)
      BY <3>7
    <3>9. \A p \in K : AtLeast(box_iou(last[p.track], hits[p.hit].box), TrackIouMin)
      BY <3>7 DEF GoodTaken
    <3>10. \A p, q \in K : p.track = q.track \/ p.hit = q.hit => p = q
      BY <3>7 DEF GoodTaken
    <3>11. NoneLeft(last, hits, P, K)
      <4> SUFFICES ASSUME NEW p \in P,
                          AtLeast(box_iou(last[p.track], hits[p.hit].box), TrackIouMin)
                   PROVE  \E q \in K : q.track = p.track \/ q.hit = p.hit
        BY DEF NoneLeft
      <4>1. p \in good[P]
        BY <1>4
      <4>2. CASE p \in rest[P]
        <5>1. \E q \in T : q.track = p.track \/ q.hit = p.hit
          BY <3>3, <4>2 DEF NoneLeft, T
        <5> QED BY <3>7, <5>1
      <4>3. CASE p \notin rest[P]
        <5>1. p.track = a.track \/ p.hit = a.hit
          BY <1>4, <4>1, <4>3 DEF a
        <5> QED BY <3>7, <5>1
      <4> QED BY <4>2, <4>3
    <3> QED BY <3>8, <3>9, <3>10, <3>11 DEF GoodTaken, K
  <2> QED BY <2>1, <2>2
<1>15. \A P \in SUBSET S : P \in J
  <2>1. IsFiniteSet(S)
    BY PairsFinite
  <2> HIDE DEF J, S
  <2> QED BY <1>14, <2>1, SubsetInduction
<1> QED BY <1>1, <1>15

-----------------------------------------------------------------------------
(* The tracks of one shot, sample by sample.                               *)

Confident(hits) ==
  /\ Len(hits) \in Nat
  /\ \A h \in 1..Len(hits) : hits[h].box \in BoxNorm /\ hits[h].detector_confidence \in 0..100

LEMMA PersonsType ==
  ASSUME NEW hits \in Seq(DetectionHit)
  PROVE  Confident(Persons(hits))
<1> DEFINE places == {k \in 1..Len(hits) : /\ hits[k].class_name = "person"
                                            /\ hits[k].detector_confidence >= PersonConfidence}
           some == At(hits, places)
<1>1. Len(hits) \in Nat /\ \A k \in 1..Len(hits) : hits[k] \in DetectionHit
  BY RowValue
<1>2. places \in SUBSET (1..Len(hits))
  OBVIOUS
<1>3. Persons(hits) = some
  BY Zenon DEF Persons
<1> HIDE DEF places
<1>4. /\ Cardinality(places) \in 0..Len(hits)
      /\ Len(some) = Cardinality(places)
  BY <1>1, <1>2, AtPlaces
<1>5. PICK o \in [1..Cardinality(places) -> places] : Keeps(o, hits, places)
  BY <1>1, <1>2, AtPlaces
<1>6. Len(some) \in Nat
  BY <1>1, <1>4
<1>7. ASSUME NEW k \in 1..Len(some)
      PROVE  some[k].box \in BoxNorm /\ some[k].detector_confidence \in 0..100
  <2>1. k \in 1..Cardinality(places)
    BY <1>4
  <2>2. some[k] = hits[o[k]] /\ o[k] \in places
    BY <1>5, <2>1 DEF Keeps
  <2>3. some[k] \in DetectionHit
    BY <1>1, <1>2, <2>2
  <2> HIDE DEF some
  <2> QED BY <2>3 DEF DetectionHit
<1> HIDE DEF some
<1> QED BY <1>3, <1>6, <1>7 DEF Confident

\* The identities that the hits of a sample get: every hit its own, an open track's
\* only from a pair that was taken, and the next ones in turn.
Identified(id, live, taken, hits, opened) ==
  /\ id \in [1..Len(hits) -> 1..(live + opened)]
  /\ \A g, h \in 1..Len(hits) : id[g] = id[h] => g = h
  /\ \A h \in 1..Len(hits) : id[h] <= live => \E p \in taken : p.hit = h /\ p.track = id[h]
  /\ \A t \in 1..(live + opened) : t > live => \E h \in 1..Len(hits) : id[h] = t
  /\ \A p \in taken : id[p.hit] = p.track

LEMMA OpensRanked ==
  ASSUME NEW n \in Nat, NEW opens \in SUBSET (1..n)
  PROVE  /\ IsFiniteSet(opens) /\ Cardinality(opens) \in Nat
         /\ \A h \in opens : Cardinality({g \in opens : g <= h}) \in 1..Cardinality(opens)
         /\ \A g, h \in opens :
              Cardinality({i \in opens : i <= g}) = Cardinality({i \in opens : i <= h}) => g = h
         /\ \A k \in 1..Cardinality(opens) :
              \E h \in opens : Cardinality({g \in opens : g <= h}) = k
<1> DEFINE R == {e \in opens \X opens : e[1] < e[2]}
           upto == [h \in opens |-> Cardinality({g \in opens : g <= h})]
           rank == [h \in opens |-> Rank(h, opens, R)]
           m == Cardinality(opens)
<1>1. IsFiniteSet(opens) /\ m \in Nat
  <2>1. IsFiniteSet(1..n)
    BY FS_Interval
  <2> HIDE DEF R, upto, rank
  <2> QED BY <2>1, FS_Subset, FS_CardinalityType
<1>2. StrictOrder(R, opens)
  BY DEF StrictOrder
<1>3. /\ \A s \in opens : rank[s] \in 0..(m - 1)
      /\ \A s, t \in opens : rank[s] < rank[t] <=> << s, t >> \in R
      /\ \A k \in 1..m : \E s \in opens : rank[s] = k - 1
  <2> HIDE DEF R
  <2>1. /\ \A s \in opens : Rank(s, opens, R) \in 0..(Cardinality(opens) - 1)
        /\ \A s, t \in opens : Rank(s, opens, R) < Rank(t, opens, R) <=> << s, t >> \in R
        /\ \A k \in 1..Cardinality(opens) : \E s \in opens : Rank(s, opens, R) = k - 1
    BY <1>1, <1>2, Ranks
  <2> QED BY <2>1
<1>4. ASSUME NEW h \in opens PROVE upto[h] = rank[h] + 1
  <2> DEFINE B == {g \in opens : << g, h >> \in R}
  <2>1. {g \in opens : g <= h} = B \cup {h} /\ h \notin B /\ B \subseteq opens
    <3>1. \A g \in opens : g \in B <=> g < h
      OBVIOUS
    <3>2. opens \subseteq Int /\ B \subseteq opens
      OBVIOUS
    <3> HIDE DEF B, R, upto, rank, m
    <3>3. h \notin B /\ h \in Int
      BY <3>1, <3>2
    <3>4. ASSUME NEW g \in opens PROVE g <= h <=> g \in B \cup {h}
      <4>1. g \in Int
        BY <3>2
      <4>2. g <= h <=> g < h \/ g = h
        BY <3>3, <4>1
      <4> QED BY <3>1, <4>2
    <3> QED BY Zenon, <3>2, <3>3, <3>4
  <2>2. rank[h] = Cardinality(B)
    BY Zenon DEF Rank
  <2>3. upto[h] = Cardinality(B \cup {h})
    BY Zenon, <2>1
  <2>4. IsFiniteSet(B)
    BY <1>1, <2>1, FS_Subset
  <2> HIDE DEF B, upto, rank
  <2>5. Cardinality(B \cup {h}) = Cardinality(B) + 1
    BY <2>1, <2>4, FS_AddElement
  <2> QED BY <2>2, <2>3, <2>5
<1>5. /\ \A g \in opens : upto[g] = Cardinality({i \in opens : i <= g})
      /\ \A g, h \in opens : << g, h >> \in R \/ << h, g >> \in R \/ g = h
  BY <1>2 DEF StrictOrder
<1> HIDE DEF upto, rank, R, m
<1>6. ASSUME NEW h \in opens PROVE upto[h] \in 1..m
  BY <1>1, <1>3, <1>4
<1>7. ASSUME NEW g \in opens, NEW h \in opens, upto[g] = upto[h] PROVE g = h
  <2>1. rank[g] = rank[h]
    BY <1>3, <1>4, <1>7
  <2>2. << g, h >> \notin R /\ << h, g >> \notin R
    BY <1>1, <1>3, <2>1
  <2> QED BY <1>5, <2>2
<1>8. ASSUME NEW k \in 1..m PROVE \E h \in opens : upto[h] = k
  <2>1. PICK h \in opens : rank[h] = k - 1
    BY <1>3
  <2> QED BY <1>1, <1>4, <2>1
<1> QED BY <1>1, <1>5, <1>6, <1>7, <1>8 DEF m

LEMMA TrackOfIdentifies ==
  ASSUME NEW last, NEW hits, Boxed(last, hits), NEW taken, GoodTaken(last, hits, taken)
  PROVE  LET opens == Opens(taken, hits) IN
         /\ Cardinality(opens) \in Nat
         /\ Identified(TrackOf(taken, opens, hits, Len(last)), Len(last), taken, hits,
                       Cardinality(opens))
<1> DEFINE opens == Opens(taken, hits)
           live == Len(last)
           n == Len(hits)
           m == Cardinality(opens)
           upto == [h \in opens |-> Cardinality({g \in opens : g <= h})]
           own == [h \in 1..n |-> (CHOOSE p \in taken : p.hit = h).track]
           id == TrackOf(taken, opens, hits, live)
<1>1. live \in Nat /\ n \in Nat
  BY DEF Boxed
<1>2. /\ opens \in SUBSET (1..n)
      /\ \A h \in 1..n : h \notin opens => \E p \in taken : p.hit = h
      /\ \A p \in taken : p.hit \notin opens
  BY DEF Opens
<1> HIDE DEF opens, n
<1>3. /\ m \in Nat
      /\ \A h \in opens : upto[h] \in 1..m
      /\ \A g, h \in opens : upto[g] = upto[h] => g = h
      /\ \A k \in 1..m : \E h \in opens : upto[h] = k
  <2>1. /\ Cardinality(opens) \in Nat
        /\ \A h \in opens : Cardinality({g \in opens : g <= h}) \in 1..Cardinality(opens)
        /\ \A g, h \in opens :
             Cardinality({i \in opens : i <= g}) = Cardinality({i \in opens : i <= h}) => g = h
        /\ \A k \in 1..Cardinality(opens) :
             \E h \in opens : Cardinality({g \in opens : g <= h}) = k
    BY <1>1, <1>2, OpensRanked
  <2>2. \A h \in opens : upto[h] = Cardinality({g \in opens : g <= h})
    OBVIOUS
  <2> HIDE DEF upto
  <2> QED BY <2>1, <2>2
<1>4. ASSUME NEW h \in 1..n, h \notin opens
      PROVE  \E p \in taken : p.hit = h /\ p.track = own[h]
  <2>1. \E p \in taken : p.hit = h
    BY <1>2, <1>4
  <2>2. own[h] = (CHOOSE p \in taken : p.hit = h).track
    OBVIOUS
  <2> HIDE DEF own
  <2> QED BY <2>1, <2>2, Zenon
<1>5. id = [h \in 1..n |-> IF h \in opens THEN live + upto[h] ELSE own[h]]
  <2>1. ASSUME NEW h \in 1..n
        PROVE  (IF h \in opens THEN live + Cardinality({g \in opens : g <= h})
                ELSE (CHOOSE p \in taken : p.hit = h).track)
               = IF h \in opens THEN live + upto[h] ELSE own[h]
    OBVIOUS
  <2> HIDE DEF upto, own
  <2>2. id = [h \in 1..n |-> IF h \in opens THEN live + Cardinality({g \in opens : g <= h})
                             ELSE (CHOOSE p \in taken : p.hit = h).track]
    BY Zenon DEF TrackOf, n
  <2> HIDE DEF id, n, opens, live
  <2> QED BY Zenon, <2>1, <2>2
<1> HIDE DEF upto, own, id, m
<1>6. \A p \in taken : p.track \in 1..live /\ p.hit \in 1..n
  BY DEF GoodTaken, Pairs, n
<1>7. \A p, q \in taken : (p.track = q.track => p.hit = q.hit) /\ (p.hit = q.hit => p = q)
  BY DEF GoodTaken
<1> HIDE DEF live
<1>8. /\ \A h \in opens : id[h] = live + upto[h] /\ id[h] \in 1..(live + m) /\ id[h] > live
      /\ \A h \in 1..n : h \notin opens => id[h] = own[h] /\ id[h] \in 1..live
  <2>1. ASSUME NEW h \in opens
        PROVE  id[h] = live + upto[h] /\ id[h] \in 1..(live + m) /\ id[h] > live
    BY <1>1, <1>2, <1>3, <1>5
  <2>2. ASSUME NEW h \in 1..n, h \notin opens PROVE id[h] = own[h] /\ id[h] \in 1..live
    BY <1>4, <1>5, <1>6, <2>2
  <2> QED BY <2>1, <2>2
<1>9. id \in [1..n -> 1..(live + m)]
  <2>1. ASSUME NEW h \in 1..n PROVE id[h] \in 1..(live + m)
    BY <1>1, <1>3, <1>8
  <2>2. id = [h \in 1..n |-> id[h]]
    BY <1>5
  <2> QED BY <2>1, <2>2
<1>10. ASSUME NEW g \in 1..n, NEW h \in 1..n, id[g] = id[h] PROVE g = h
  <2>1. CASE g \in opens /\ h \in opens
    BY <1>1, <1>3, <1>8, <1>10, <2>1
  <2>2. CASE g \notin opens /\ h \notin opens
    BY <1>4, <1>7, <1>8, <1>10, <2>2
  <2>3. CASE ~(g \in opens <=> h \in opens)
    BY <1>1, <1>8, <1>10, <2>3
  <2> QED BY <2>1, <2>2, <2>3
<1>11. ASSUME NEW h \in 1..n, id[h] <= live PROVE \E p \in taken : p.hit = h /\ p.track = id[h]
  <2>1. h \notin opens
    BY <1>1, <1>3, <1>8, <1>11
  <2> QED BY <1>4, <1>8, <2>1
<1>12. ASSUME NEW t \in 1..(live + m), t > live PROVE \E h \in 1..n : id[h] = t
  <2>1. t - live \in 1..m
    BY <1>1, <1>3, <1>12
  <2>2. PICK h \in opens : upto[h] = t - live
    BY <1>3, <2>1
  <2> QED BY <1>1, <1>2, <1>8, <2>2
<1>13. ASSUME NEW p \in taken PROVE id[p.hit] = p.track
  <2>1. p.hit \in 1..n /\ p.hit \notin opens
    BY <1>2, <1>6
  <2>2. PICK q \in taken : q.hit = p.hit /\ q.track = own[p.hit]
    BY <1>4, <2>1
  <2> QED BY <1>7, <1>8, <2>1, <2>2
<1> QED BY <1>3, <1>9, <1>10, <1>11, <1>12, <1>13 DEF Identified, id, m, n, live, opens

\* One box of a track in a sample, and enough overlap with the one before.
GoesOn(seen) ==
  /\ \A o, p \in seen : o.track_id = p.track_id /\ o.sample = p.sample => o = p
  /\ \A o, p \in seen :
       /\ o.track_id = p.track_id /\ o.sample < p.sample
       /\ ~\E q \in seen : q.track_id = o.track_id /\ o.sample < q.sample /\ q.sample < p.sample
       => AtLeast(box_iou(o.box, p.box), TrackIouMin)

\* No hit opens a track if it could go on with one that has no hit in its sample.
NotSplit(seen) ==
  \A o, p \in seen :
    /\ ~\E q \in seen : q.track_id = o.track_id /\ q.sample < o.sample
    /\ p.sample < o.sample
    /\ ~\E q \in seen : q.track_id = p.track_id /\ p.sample < q.sample /\ q.sample <= o.sample
    => ~AtLeast(box_iou(p.box, o.box), TrackIouMin)

Latest(seen, t, box) ==
  \E o \in seen : /\ o.track_id = t /\ o.box = box
                  /\ \A p \in seen : p.track_id = t => p.sample <= o.sample

\* What is seen in the first samples of a shot, and by which of its tracks.
SeenBy(seen, live, samples) ==
  \A o \in seen : /\ o.track_id \in 1..live /\ o.sample \in 1..samples
                  /\ o.box \in BoxNorm /\ o.detector_confidence \in 0..100

\* The tracks after some samples: each ends at the box that was seen last.
Followed(tracks, samples) ==
  /\ tracks.last \in Seq(BoxNorm)
  /\ IsFiniteSet(tracks.observed)
  /\ SeenBy(tracks.observed, Len(tracks.last), samples)
  /\ GoesOn(tracks.observed) /\ NotSplit(tracks.observed)
  /\ \A t \in 1..Len(tracks.last) : Latest(tracks.observed, t, tracks.last[t])

LEMMA ObserveFollows ==
  ASSUME NEW k \in Nat, NEW tracks, Followed(tracks, k), NEW hits, Confident(hits),
         NEW taken, GoodTaken(tracks.last, hits, taken),
         NoneLeft(tracks.last, hits, Pairs(tracks.last, hits), taken),
         NEW opened \in Nat, NEW id, Identified(id, Len(tracks.last), taken, hits, opened)
  PROVE  Followed(Observe(tracks, k + 1, hits, id, Len(tracks.last) + opened), k + 1)
<1> DEFINE last == tracks.last
           seen == tracks.observed
           live == Len(last)
           n == Len(hits)
           new == [h \in 1..n |->
                     [track_id |-> id[h], sample |-> k + 1, box |-> hits[h].box,
                      detector_confidence |-> hits[h].detector_confidence]]
           N == {new[h] : h \in 1..n}
           hit == [t \in 1..(live + opened) |-> CHOOSE h \in 1..n : id[h] = t]
           seq == [t \in 1..(live + opened) |->
                     IF \E h \in 1..n : id[h] = t THEN hits[hit[t]].box ELSE last[t]]
           next == Observe(tracks, k + 1, hits, id, Len(tracks.last) + opened)
<1>1. live \in Nat /\ n \in Nat /\ \A t \in 1..live : last[t] \in BoxNorm
  BY RowValue DEF Followed, Confident
<1>2. next = [last |-> seq, observed |-> seen \cup N]
  <2>1. ASSUME NEW t \in 1..(live + opened)
        PROVE  (IF \E h \in 1..n : id[h] = t THEN hits[CHOOSE h \in 1..n : id[h] = t].box ELSE last[t])
               = IF \E h \in 1..n : id[h] = t THEN hits[hit[t]].box ELSE last[t]
    OBVIOUS
  <2>2. seq = [t \in 1..(live + opened) |->
                 IF \E h \in 1..n : id[h] = t THEN hits[CHOOSE h \in 1..n : id[h] = t].box ELSE last[t]]
    <3> HIDE DEF hit, n, live, last
    <3> QED BY Zenon, <2>1
  <2>3. N = {[track_id |-> id[h], sample |-> k + 1, box |-> hits[h].box,
              detector_confidence |-> hits[h].detector_confidence] : h \in 1..n}
    BY Zenon
  <2> HIDE DEF hit, seq, new, N
  <2> QED BY Zenon, <2>2, <2>3 DEF Observe
<1>3. /\ \A h \in 1..n : id[h] \in 1..(live + opened)
      /\ \A g, h \in 1..n : id[g] = id[h] => g = h
      /\ \A h \in 1..n : id[h] <= live => \E p \in taken : p.hit = h /\ p.track = id[h]
      /\ \A t \in 1..(live + opened) : t > live => \E h \in 1..n : id[h] = t
      /\ \A p \in taken : id[p.hit] = p.track
  BY DEF Identified
<1>4. \A h \in 1..n : hits[h].box \in BoxNorm /\ hits[h].detector_confidence \in 0..100
  BY DEF Confident
<1>5. \A p \in taken : AtLeast(box_iou(last[p.track], hits[p.hit].box), TrackIouMin)
  BY DEF GoodTaken
<1>51. ASSUME NEW t \in 1..live, NEW h \in 1..n,
              AtLeast(box_iou(last[t], hits[h].box), TrackIouMin)
       PROVE  \E q \in taken : q.track = t \/ q.hit = h
  <2> DEFINE p == [track |-> t, hit |-> h]
  <2>1. p \in Pairs(last, hits) /\ p.track = t /\ p.hit = h
    BY DEF Pairs
  <2> HIDE DEF p
  <2> QED BY <1>51, <2>1 DEF NoneLeft
<1>52. \A p \in taken : p.hit \in 1..n /\ p.track \in 1..live
  BY DEF GoodTaken, Pairs
<1>6. /\ IsFiniteSet(seen) /\ SeenBy(seen, live, k) /\ GoesOn(seen) /\ NotSplit(seen)
      /\ \A t \in 1..live : Latest(seen, t, last[t])
  BY DEF Followed
<1>7. \A h \in 1..n : /\ new[h].track_id = id[h] /\ new[h].sample = k + 1 /\ new[h].box = hits[h].box
                      /\ new[h].detector_confidence = hits[h].detector_confidence
  OBVIOUS
<1>8. /\ \A o \in N : \E h \in 1..n : o = new[h]
      /\ \A h \in 1..n : new[h] \in N
  OBVIOUS
<1>9. IsFiniteSet(N)
  <2>1. IsFiniteSet(1..n) /\ new = [h \in 1..n |-> new[h]]
    BY <1>1, FS_Interval
  <2> HIDE DEF new, n
  <2> QED BY <2>1, ImageFinite
<1>10. \A t \in 1..(live + opened) :
         (\E h \in 1..n : id[h] = t) => hit[t] \in 1..n /\ id[hit[t]] = t
  <2> SUFFICES ASSUME NEW t \in 1..(live + opened), \E h \in 1..n : id[h] = t
               PROVE  hit[t] \in 1..n /\ id[hit[t]] = t
    OBVIOUS
  <2>1. hit[t] = CHOOSE h \in 1..n : id[h] = t
    OBVIOUS
  <2> HIDE DEF hit, n, live
  <2> QED BY Zenon, <2>1
<1>11. \A t \in 1..(live + opened) :
         seq[t] = IF \E h \in 1..n : id[h] = t THEN hits[hit[t]].box ELSE last[t]
  OBVIOUS
<1>12. seq = [t \in 1..(live + opened) |-> seq[t]]
  OBVIOUS
<1> HIDE DEF last, seen, live, n, new, N, hit, seq, next
<1> DEFINE all == seen \cup N
           L == live + opened
<1>13. L \in Nat /\ L >= live
  BY <1>1
<1>14. \A t \in 1..L : (~\E h \in 1..n : id[h] = t) => t \in 1..live
  BY <1>1, <1>3, <1>13
<1>15. seq \in Seq(BoxNorm) /\ Len(seq) = L
  <2>1. ASSUME NEW t \in 1..L PROVE seq[t] \in BoxNorm
    BY <1>1, <1>4, <1>10, <1>11, <1>14
  <2> HIDE DEF L
  <2>2. seq = [t \in 1..L |-> seq[t]]
    BY Zenon, <1>12 DEF L
  <2> QED BY <1>13, <2>1, <2>2
<1> HIDE DEF L
<1>16. IsFiniteSet(all)
  BY <1>6, <1>9, FS_Union
<1>17. /\ \A o \in seen : o.track_id \in 1..live /\ o.sample \in 1..k
       /\ \A o \in N : o.sample = k + 1
       /\ \A o \in all : o \in seen \/ o \in N
  BY <1>6, <1>7, <1>8 DEF SeenBy
<1>18. SeenBy(all, L, k + 1)
  <2>1. ASSUME NEW o \in seen
        PROVE  /\ o.track_id \in 1..L /\ o.sample \in 1..(k + 1)
               /\ o.box \in BoxNorm /\ o.detector_confidence \in 0..100
    <3>1. /\ o.track_id \in 1..live /\ o.sample \in 1..k
          /\ o.box \in BoxNorm /\ o.detector_confidence \in 0..100
      BY <1>6 DEF SeenBy
    <3> QED BY <1>1, <1>13, <3>1
  <2>2. ASSUME NEW o \in N
        PROVE  /\ o.track_id \in 1..L /\ o.sample \in 1..(k + 1)
               /\ o.box \in BoxNorm /\ o.detector_confidence \in 0..100
    <3>1. PICK h \in 1..n : o = new[h]
      BY <1>8
    <3>2. k + 1 \in 1..(k + 1)
      OBVIOUS
    <3> QED BY <1>3, <1>4, <1>7, <3>1, <3>2 DEF L
  <2> QED BY <2>1, <2>2 DEF SeenBy
<1>19. ASSUME NEW o \in all, NEW p \in all, o.track_id = p.track_id, o.sample = p.sample
       PROVE  o = p
  <2>1. CASE o \in seen /\ p \in seen
    BY <1>6, <1>19, <2>1 DEF GoesOn
  <2>2. CASE o \in N /\ p \in N
    <3>1. PICK g \in 1..n : o = new[g]
      BY <1>8, <2>2
    <3>2. PICK h \in 1..n : p = new[h]
      BY <1>8, <2>2
    <3>3. id[g] = id[h]
      BY <1>7, <1>19, <3>1, <3>2
    <3> QED BY <1>3, <3>1, <3>2, <3>3
  <2>3. CASE ~(o \in seen /\ p \in seen) /\ ~(o \in N /\ p \in N)
    <3>1. (o.sample \in 1..k /\ p.sample = k + 1) \/ (p.sample \in 1..k /\ o.sample = k + 1)
      BY <1>17, <2>3
    <3> QED BY <1>19, <3>1
  <2> QED BY <2>1, <2>2, <2>3
<1>20. ASSUME NEW o \in all, NEW p \in all, o.track_id = p.track_id, o.sample < p.sample,
              ~\E q \in all : q.track_id = o.track_id /\ o.sample < q.sample /\ q.sample < p.sample
       PROVE  AtLeast(box_iou(o.box, p.box), TrackIouMin)
  <2>1. o \in seen
    <3> SUFFICES ASSUME o \in N PROVE FALSE
      BY <1>17
    <3>1. o.sample = k + 1 /\ (p.sample = k + 1 \/ p.sample \in 1..k)
      BY <1>17
    <3> QED BY <1>20, <3>1
  <2>2. CASE p \in seen
    <3>1. ~\E q \in seen : q.track_id = o.track_id /\ o.sample < q.sample /\ q.sample < p.sample
      BY <1>20
    <3> QED BY <1>6, <1>20, <2>1, <2>2, <3>1 DEF GoesOn
  <2>3. CASE p \in N
    <3>1. PICK h \in 1..n : p = new[h]
      BY <1>8, <2>3
    <3> DEFINE t == o.track_id
    <3>2. t = id[h] /\ t \in 1..live /\ p.box = hits[h].box /\ p.sample = k + 1
      BY <1>7, <1>17, <1>20, <2>1, <3>1
    <3>3. PICK e \in taken : e.hit = h /\ e.track = id[h]
      BY SMTT(30), <1>1, <1>3, <3>2
    <3>4. AtLeast(box_iou(last[t], p.box), TrackIouMin)
      BY <1>5, <3>2, <3>3
    <3>5. PICK x \in seen : /\ x.track_id = t /\ x.box = last[t]
                            /\ \A y \in seen : y.track_id = t => y.sample <= x.sample
      BY <1>6, <3>2 DEF Latest
    <3>6. o.sample \in 1..k /\ x.sample \in 1..k /\ o.sample <= x.sample
      BY <1>17, <2>1, <3>5
    <3>7. ~(o.sample < x.sample)
      <4>1. x \in all /\ x.sample < p.sample
        BY <3>2, <3>5, <3>6
      <4> QED BY <1>20, <3>5, <4>1
    <3>8. o.sample = x.sample
      BY <3>6, <3>7
    <3>9. o = x
      BY <1>6, <2>1, <3>5, <3>8 DEF GoesOn
    <3> QED BY <3>4, <3>5, <3>9
  <2> QED BY <1>17, <2>2, <2>3
<1>21. GoesOn(all)
  <2> HIDE DEF all
  <2> QED BY <1>19, <1>20 DEF GoesOn
<1>22. ASSUME NEW t \in 1..L PROVE Latest(all, t, seq[t])
  <2>1. CASE \E h \in 1..n : id[h] = t
    <3> DEFINE x == new[hit[t]]
    <3>1. hit[t] \in 1..n /\ id[hit[t]] = t /\ seq[t] = hits[hit[t]].box
      BY <1>10, <1>11, <2>1 DEF L
    <3>2. x \in all /\ x.track_id = t /\ x.sample = k + 1 /\ x.box = seq[t]
      BY <1>7, <1>8, <3>1
    <3>3. \A p \in all : p.sample <= k + 1
      BY <1>17
    <3> HIDE DEF x
    <3> QED BY <3>2, <3>3 DEF Latest
  <2>2. CASE ~\E h \in 1..n : id[h] = t
    <3>1. t \in 1..live /\ seq[t] = last[t]
      BY <1>11, <1>14, <2>2 DEF L
    <3>2. PICK x \in seen : /\ x.track_id = t /\ x.box = last[t]
                            /\ \A y \in seen : y.track_id = t => y.sample <= x.sample
      BY <1>6, <3>1 DEF Latest
    <3>3. \A p \in N : p.track_id # t
      BY <1>7, <1>8, <2>2
    <3>4. \A p \in all : p.track_id = t => p.sample <= x.sample
      BY <1>17, <3>2, <3>3
    <3> QED BY <3>1, <3>2, <3>4 DEF Latest
  <2> QED BY <2>1, <2>2
<1>23. ASSUME NEW o \in all, NEW p \in all,
              ~\E q \in all : q.track_id = o.track_id /\ q.sample < o.sample,
              p.sample < o.sample,
              ~\E q \in all : q.track_id = p.track_id /\ p.sample < q.sample /\ q.sample <= o.sample
       PROVE  ~AtLeast(box_iou(p.box, o.box), TrackIouMin)
  <2>1. p \in seen
    <3> SUFFICES ASSUME p \in N PROVE FALSE
      BY <1>17
    <3>1. p.sample = k + 1 /\ (o.sample = k + 1 \/ o.sample \in 1..k)
      BY <1>17
    <3> QED BY <1>23, <3>1
  <2>2. CASE o \in seen
    <3>1. /\ ~\E q \in seen : q.track_id = o.track_id /\ q.sample < o.sample
          /\ ~\E q \in seen : q.track_id = p.track_id /\ p.sample < q.sample /\ q.sample <= o.sample
      BY <1>23
    <3> QED BY <1>6, <1>23, <2>1, <2>2, <3>1 DEF NotSplit
  <2>3. CASE o \in N
    <3>1. PICK h \in 1..n : o = new[h]
      BY <1>8, <2>3
    <3> DEFINE t == p.track_id
    <3>2. o.track_id = id[h] /\ o.sample = k + 1 /\ o.box = hits[h].box /\ t \in 1..live
      BY <1>7, <1>17, <2>1, <3>1
    <3>3. id[h] \notin 1..live
      <4> SUFFICES ASSUME id[h] \in 1..live PROVE FALSE
        OBVIOUS
      <4>1. PICK x \in seen : x.track_id = id[h]
        BY <1>6 DEF Latest
      <4>2. x \in all /\ x.sample < o.sample
        BY <1>17, <3>2
      <4> QED BY <1>23, <3>2, <4>1, <4>2
    <3>4. ASSUME NEW g \in 1..n PROVE id[g] # t
      <4>1. new[g] \in all /\ new[g].track_id = id[g] /\ new[g].sample = k + 1
        BY <1>7, <1>8
      <4>2. p.sample < k + 1 /\ k + 1 <= o.sample
        BY <1>23, <3>2
      <4> QED BY <1>23, <4>1, <4>2
    <3>5. PICK x \in seen : /\ x.track_id = t /\ x.box = last[t]
                            /\ \A y \in seen : y.track_id = t => y.sample <= x.sample
      BY <1>6, <3>2 DEF Latest
    <3>6. p.sample \in 1..k /\ x.sample \in 1..k /\ p.sample <= x.sample
      BY <1>17, <2>1, <3>5
    <3>7. ~(p.sample < x.sample)
      <4>1. x \in all /\ x.sample <= o.sample
        BY <3>2, <3>6
      <4> QED BY <1>23, <3>5, <4>1
    <3>8. p.sample = x.sample
      BY <3>6, <3>7
    <3>9. p = x
      BY <1>6, <2>1, <3>5, <3>8 DEF GoesOn
    <3> SUFFICES ASSUME AtLeast(box_iou(last[t], hits[h].box), TrackIouMin) PROVE FALSE
      BY <3>2, <3>5, <3>9
    <3>10. PICK e \in taken : e.track = t \/ e.hit = h
      BY <1>51, <3>2
    <3>11. id[e.hit] = e.track /\ e.hit \in 1..n /\ e.track \in 1..live
      BY <1>3, <1>52
    <3> QED BY <3>3, <3>4, <3>10, <3>11
  <2> QED BY <1>17, <2>2, <2>3
<1>24. NotSplit(all)
  <2> HIDE DEF all
  <2> QED BY <1>23 DEF NotSplit
<1>25. next.last = seq /\ next.observed = all
  BY <1>2
<1> HIDE DEF all
<1>26. Followed(next, k + 1)
  BY <1>15, <1>16, <1>18, <1>21, <1>22, <1>24, <1>25 DEF Followed
<1> QED BY <1>26 DEF next

NoTracks == [last |-> << >>, observed |-> {}]

\* The tracks of a shot sample by sample, as track builds them.
TracksAre(after, hits, m) ==
  /\ DOMAIN after = 0..m /\ after = [k \in DOMAIN after |-> after[k]]
  /\ after[0] = NoTracks
  /\ \A k \in 1..m : after[k] = TrackSample(after[k - 1], k, Persons(hits[k]))

LEMMA TracksExist ==
  ASSUME NEW n \in Nat, NEW hits
  PROVE  \E after : TracksAre(after, hits, n)
<1> DEFINE J == {m \in 0..n : \E after : TracksAre(after, hits, m)}
<1>1. 0 \in J
  <2> DEFINE h == [i \in 0..0 |-> NoTracks]
  <2>1. DOMAIN h = 0..0 /\ h = [k \in DOMAIN h |-> h[k]] /\ h[0] = NoTracks
    OBVIOUS
  <2>2. 0 \in 0..n /\ \A k \in 1..0 : FALSE
    OBVIOUS
  <2> HIDE DEF h
  <2>3. TracksAre(h, hits, 0)
    BY <2>1, <2>2 DEF TracksAre
  <2> QED BY <2>2, <2>3
<1>2. ASSUME NEW k \in 1..n, k - 1 \in J PROVE k \in J
  <2>1. PICK h : TracksAre(h, hits, k - 1)
    BY <1>2
  <2> DEFINE new == TrackSample(h[k - 1], k, Persons(hits[k]))
             g == [i \in 0..k |-> IF i < k THEN h[i] ELSE new]
  <2>2. k - 1 \in 0..(k - 1) /\ k \in 0..k /\ 0 \in 0..k /\ 0 < k /\ k \in 0..n
    OBVIOUS
  <2> HIDE DEF new
  <2>3. DOMAIN g = 0..k /\ g = [i \in DOMAIN g |-> g[i]]
    OBVIOUS
  <2>4. g[0] = NoTracks
    BY <2>1, <2>2 DEF TracksAre
  <2>5. g[k] = new /\ \A i \in 0..(k - 1) : g[i] = h[i]
    BY <2>2
  <2> HIDE DEF g
  <2>6. ASSUME NEW i \in 1..k PROVE g[i] = TrackSample(g[i - 1], i, Persons(hits[i]))
    <3>1. i - 1 \in 0..(k - 1) /\ g[i - 1] = h[i - 1]
      BY <2>5
    <3>2. CASE i = k
      BY <2>5, <3>1, <3>2 DEF new
    <3>3. CASE i # k
      <4>1. i \in 1..(k - 1) /\ i \in 0..(k - 1)
        BY <3>3
      <4> QED BY <2>1, <2>5, <3>1, <4>1 DEF TracksAre
    <3> QED BY <3>2, <3>3
  <2>7. TracksAre(g, hits, k)
    BY <2>3, <2>4, <2>6 DEF TracksAre
  <2> QED BY <2>2, <2>7
<1>3. n \in J
  <2> HIDE DEF J
  <2>1. \A k \in 0..n : k \in J
    BY <1>1, <1>2, UpTo
  <2> QED BY <2>1
<1> QED BY <1>3

LEMMA TrackSampleFollows ==
  ASSUME NEW k \in Nat, NEW tracks, Followed(tracks, k), NEW hits, Confident(hits)
  PROVE  Followed(TrackSample(tracks, k + 1, hits), k + 1)
<1> DEFINE last == tracks.last
           taken == Greedy(last, hits)
           opens == Opens(taken, hits)
           id == TrackOf(taken, opens, hits, Len(last))
           m == Cardinality(opens)
<1>1. Boxed(last, hits)
  BY RowValue DEF Followed, Confident, Boxed
<1>2. GoodTaken(last, hits, taken) /\ NoneLeft(last, hits, Pairs(last, hits), taken)
  BY <1>1, GreedyTakes
<1> HIDE DEF taken
<1>3. m \in Nat /\ Identified(id, Len(last), taken, hits, m)
  BY <1>1, <1>2, TrackOfIdentifies
<1>4. TrackSample(tracks, k + 1, hits) = Observe(tracks, k + 1, hits, id, Len(last) + m)
  BY Zenon DEF TrackSample, TrackHits, WithTaken, taken
<1> HIDE DEF opens, id, m
<1> QED BY <1>2, <1>3, <1>4, ObserveFollows DEF last

\* What the tracker sees in the samples of a shot.
SeenInShot(seen, samples) ==
  IsFiniteSet(seen) /\ GoesOn(seen) /\ NotSplit(seen) /\ \E live \in Nat : SeenBy(seen, live, samples)

LEMMA TracksFollowed ==
  ASSUME NEW hits, Len(hits) \in Nat,
         \A k \in 1..Len(hits) : hits[k] \in Seq(DetectionHit)
  PROVE  SeenInShot(track(hits), Len(hits))
<1> DEFINE n == Len(hits)
           F(h) == [k \in 0..n |->
                      IF k = 0 THEN NoTracks ELSE TrackSample(h[k - 1], k, Persons(hits[k]))]
           H == CHOOSE h : h = F(h)
<1>1. track(hits) = H[n].observed
  BY Zenon DEF track, NoTracks
<1>2. n \in Nat
  OBVIOUS
<1> HIDE DEF n
<1>3. PICK a : TracksAre(a, hits, n)
  BY <1>2, TracksExist
<1>4. a = F(a)
  <2>1. ASSUME NEW k \in 0..n
        PROVE  a[k] = IF k = 0 THEN NoTracks ELSE TrackSample(a[k - 1], k, Persons(hits[k]))
    <3>1. CASE k = 0
      BY <1>3, <3>1 DEF TracksAre
    <3>2. CASE k # 0
      <4>1. k \in 1..n
        BY <1>2, <3>2
      <4> QED BY <1>3, <3>2, <4>1 DEF TracksAre
    <3> QED BY <3>1, <3>2
  <2>2. a = [k \in 0..n |-> a[k]]
    BY <1>3 DEF TracksAre
  <2> QED BY Zenon, <2>1, <2>2
<1>5. H = F(H)
  <2> HIDE DEF F
  <2> QED BY <1>4
<1>6. H[0] = NoTracks /\ \A k \in 1..n : H[k] = TrackSample(H[k - 1], k, Persons(hits[k]))
  <2>1. \A k \in 0..n :
          F(H)[k] = IF k = 0 THEN NoTracks ELSE TrackSample(H[k - 1], k, Persons(hits[k]))
    <3> HIDE DEF H
    <3> QED OBVIOUS
  <2> HIDE DEF F, H
  <2>2. \A k \in 0..n :
          H[k] = IF k = 0 THEN NoTracks ELSE TrackSample(H[k - 1], k, Persons(hits[k]))
    BY <1>5, <2>1
  <2> QED BY <1>2, <2>2
<1> HIDE DEF H
<1> DEFINE J == {k \in 0..n : Followed(H[k], k)}
<1>7. 0 \in J
  <2>1. Followed(NoTracks, 0)
    <3>1. NoTracks.last = << >> /\ NoTracks.observed = {} /\ Len(<< >>) = 0 /\ << >> \in Seq(BoxNorm)
      BY DEF NoTracks
    <3>2. IsFiniteSet({})
      BY FS_EmptySet
    <3>3. \A t \in 1..0 : FALSE
      OBVIOUS
    <3> QED BY <3>1, <3>2, <3>3 DEF Followed, SeenBy, GoesOn, NotSplit
  <2>2. 0 \in 0..n
    BY <1>2
  <2> QED BY <1>6, <2>1, <2>2
<1>8. ASSUME NEW k \in 1..n, k - 1 \in J PROVE k \in J
  <2>1. k - 1 \in Nat /\ (k - 1) + 1 = k /\ k \in 0..n /\ Followed(H[k - 1], k - 1)
    BY <1>2, <1>8
  <2>2. Confident(Persons(hits[k]))
    BY PersonsType DEF n
  <2>3. Followed(TrackSample(H[k - 1], (k - 1) + 1, Persons(hits[k])), (k - 1) + 1)
    BY <2>1, <2>2, TrackSampleFollows
  <2>4. Followed(TrackSample(H[k - 1], k, Persons(hits[k])), k)
    BY <2>1, <2>3
  <2> QED BY <1>6, <2>1, <2>4
<1>9. n \in J
  <2> HIDE DEF J
  <2>1. \A k \in 0..n : k \in J
    BY <1>2, <1>7, <1>8, UpTo
  <2> QED BY <1>2, <2>1
<1>10. Followed(H[n], n)
  BY <1>9
<1>11. Len(H[n].last) \in Nat
  BY <1>10, RowValue DEF Followed
<1> QED BY <1>1, <1>10, <1>11 DEF Followed, SeenInShot, n

-----------------------------------------------------------------------------
(* The choice of the primary track.                                        *)

LEMMA Halves ==
  ASSUME NEW n \in Nat, n > 0
  PROVE  /\ n % 2 = 1 => (n + 1) \div 2 \in 1..n
         /\ n % 2 # 1 => n \div 2 \in 1..n /\ n \div 2 + 1 \in 1..n
<1>1. n = 2 * (n \div 2) + (n % 2) /\ n % 2 \in {0, 1} /\ n \div 2 \in Nat
  OBVIOUS
<1>2. n + 1 = 2 * ((n + 1) \div 2) + ((n + 1) % 2) /\ (n + 1) % 2 \in {0, 1} /\ (n + 1) \div 2 \in Nat
  OBVIOUS
<1> QED BY <1>1, <1>2

LEMMA MedianArea ==
  ASSUME NEW S, IsFiniteSet(S), S # {}, \A o \in S : o.box \in BoxNorm
  PROVE  TwiceMedian(S, LAMBDA o : box_area(o.box)) \in Int
<1> DEFINE n == Cardinality(S)
           v == [o \in S |-> box_area(o.box)]
           kth(k) == CHOOSE o \in S : IsKth(o, S, v, k)
           at(k) == box_area((CHOOSE o \in S :
                      /\ Cardinality({p \in S : box_area(p.box) < box_area(o.box)}) < k
                      /\ k <= Cardinality({p \in S : box_area(p.box) <= box_area(o.box)})).box)
<1>1. n \in Nat /\ n > 0
  BY FS_CardinalityType, FS_EmptySet
<1>2. TwiceMedian(S, LAMBDA o : box_area(o.box)) =
        IF n % 2 = 1 THEN 2 * at((n + 1) \div 2) ELSE at(n \div 2) + at(n \div 2 + 1)
  BY Zenon DEF TwiceMedian
<1>3. v \in [S -> Int]
  <2>1. ASSUME NEW o \in S PROVE box_area(o.box) \in Int
    <3>1. /\ o.box.x_min \in Int /\ o.box.x_max \in Int
          /\ o.box.y_min \in Int /\ o.box.y_max \in Int
      BY BoxType
    <3> QED BY <3>1 DEF box_area
  <2> QED BY <2>1
<1>4. \A o \in S : v[o] = box_area(o.box)
  OBVIOUS
<1> HIDE DEF v
<1>5. ASSUME NEW k \in 1..n PROVE at(k) \in Int
  <2>1. \E o \in S : IsKth(o, S, v, k)
    BY <1>3, KthExists
  <2>2. kth(k) \in S
    BY Zenon, <2>1
  <2>3. ASSUME NEW o \in S
        PROVE  IsKth(o, S, v, k) <=>
                 /\ Cardinality({p \in S : box_area(p.box) < box_area(o.box)}) < k
                 /\ k <= Cardinality({p \in S : box_area(p.box) <= box_area(o.box)})
    <3>1. {p \in S : v[p] < v[o]} = {p \in S : box_area(p.box) < box_area(o.box)}
      BY <1>4
    <3>2. {p \in S : v[p] <= v[o]} = {p \in S : box_area(p.box) <= box_area(o.box)}
      BY <1>4
    <3> QED BY Zenon, <3>1, <3>2 DEF IsKth
  <2>4. at(k) = box_area(kth(k).box)
    BY Zenon, <2>3
  <2>5. v[kth(k)] \in Int
    BY <1>3, <2>2
  <2> HIDE DEF kth, at
  <2> QED BY <1>4, <2>2, <2>4, <2>5
<1> HIDE DEF at, n
<1>6. ASSUME n % 2 = 1 PROVE 2 * at((n + 1) \div 2) \in Int
  <2>1. at((n + 1) \div 2) \in Int
    BY <1>1, <1>5, <1>6, Halves
  <2> QED BY <2>1
<1>7. ASSUME n % 2 # 1 PROVE at(n \div 2) + at(n \div 2 + 1) \in Int
  <2>1. at(n \div 2) \in Int /\ at(n \div 2 + 1) \in Int
    BY <1>1, <1>5, <1>7, Halves
  <2> QED BY <2>1
<1> QED BY Zenon, <1>2, <1>6, <1>7

LEMMA MedianConfidence ==
  ASSUME NEW S, IsFiniteSet(S), S # {}, \A o \in S : o.detector_confidence \in Int
  PROVE  TwiceMedian(S, LAMBDA o : o.detector_confidence) \in Int
<1> DEFINE n == Cardinality(S)
           v == [o \in S |-> o.detector_confidence]
           kth(k) == CHOOSE o \in S : IsKth(o, S, v, k)
           at(k) == (CHOOSE o \in S :
                      /\ Cardinality({p \in S : p.detector_confidence < o.detector_confidence}) < k
                      /\ k <= Cardinality({p \in S : p.detector_confidence <= o.detector_confidence})).detector_confidence
<1>1. n \in Nat /\ n > 0
  BY FS_CardinalityType, FS_EmptySet
<1>2. TwiceMedian(S, LAMBDA o : o.detector_confidence) =
        IF n % 2 = 1 THEN 2 * at((n + 1) \div 2) ELSE at(n \div 2) + at(n \div 2 + 1)
  BY Zenon DEF TwiceMedian
<1>3. v \in [S -> Int]
  OBVIOUS
<1>4. \A o \in S : v[o] = o.detector_confidence
  OBVIOUS
<1> HIDE DEF v
<1>5. ASSUME NEW k \in 1..n PROVE at(k) \in Int
  <2>1. \E o \in S : IsKth(o, S, v, k)
    BY <1>3, KthExists
  <2>2. kth(k) \in S
    BY Zenon, <2>1
  <2>3. ASSUME NEW o \in S
        PROVE  IsKth(o, S, v, k) <=>
                 /\ Cardinality({p \in S : p.detector_confidence < o.detector_confidence}) < k
                 /\ k <= Cardinality({p \in S : p.detector_confidence <= o.detector_confidence})
    <3>1. {p \in S : v[p] < v[o]} = {p \in S : p.detector_confidence < o.detector_confidence}
      BY <1>4
    <3>2. {p \in S : v[p] <= v[o]} = {p \in S : p.detector_confidence <= o.detector_confidence}
      BY <1>4
    <3> QED BY Zenon, <3>1, <3>2 DEF IsKth
  <2>4. at(k) = kth(k).detector_confidence
    BY Zenon, <2>3
  <2>5. v[kth(k)] \in Int
    BY <1>3, <2>2
  <2> HIDE DEF kth, at
  <2> QED BY <1>4, <2>2, <2>4, <2>5
<1> HIDE DEF at, n
<1>6. ASSUME n % 2 = 1 PROVE 2 * at((n + 1) \div 2) \in Int
  <2>1. at((n + 1) \div 2) \in Int
    BY <1>1, <1>5, <1>6, Halves
  <2> QED BY <2>1
<1>7. ASSUME n % 2 # 1 PROVE at(n \div 2) + at(n \div 2 + 1) \in Int
  <2>1. at(n \div 2) \in Int /\ at(n \div 2 + 1) \in Int
    BY <1>1, <1>5, <1>7, Halves
  <2> QED BY <2>1
<1> QED BY Zenon, <1>2, <1>6, <1>7

LEMMA ScoreType ==
  ASSUME NEW seen, NEW live \in Nat, NEW samples \in Nat, IsFiniteSet(seen),
         SeenBy(seen, live, samples), NEW t \in Tracks(seen)
  PROVE  Score(seen, samples, t) \in Int
<1> DEFINE own == Members(seen, t)
           area == TwiceMedian(own, LAMBDA o : box_area(o.box))
           sure == TwiceMedian(own, LAMBDA o : o.detector_confidence)
           times == [o \in own |-> o.sample]
           frames == FramesOf(seen, t)
<1>1. own \subseteq seen /\ own # {}
  BY DEF Members, Tracks
<1>2. IsFiniteSet(own)
  BY <1>1, FS_Subset
<1>3. \A o \in own : o.box \in BoxNorm /\ o.detector_confidence \in Int
  BY <1>1 DEF SeenBy
<1>4. IsFiniteSet(frames)
  <2>1. frames = {times[o] : o \in own} /\ times = [o \in own |-> times[o]]
    BY DEF FramesOf
  <2> HIDE DEF own, frames, times
  <2> QED BY <1>2, <2>1, ImageFinite
<1> DEFINE count == Cardinality(frames)
<1>5. count \in Int
  BY <1>4, FS_CardinalityType
<1>6. Score(seen, samples, t) =
        20000 * PrimaryTrackWeights.coverage * count
        + samples * PrimaryTrackWeights.median_area * area
        + 100 * samples * PrimaryTrackWeights.median_confidence * sure
  BY DEF Score
<1> HIDE DEF own, frames, times
<1>7. area \in Int /\ sure \in Int
  BY <1>1, <1>2, <1>3, MedianArea, MedianConfidence
<1>8. /\ PrimaryTrackWeights.coverage = 45 /\ PrimaryTrackWeights.median_area = 35
      /\ PrimaryTrackWeights.median_confidence = 20
  BY DEF PrimaryTrackWeights
<1> HIDE DEF area, sure, count
<1> QED BY <1>5, <1>6, <1>7, <1>8

\* The primary track is one that is seen in enough of the samples, if there is any.
LEMMA SelectIsStable ==
  ASSUME NEW seen, NEW samples \in Nat, SeenInShot(seen, samples)
  PROVE  LET primary == select(seen, samples)
         IN  primary = 0 \/ primary \in Stable(seen, samples)
<1> DEFINE stable == Stable(seen, samples)
           score == [t \in stable |-> Score(seen, samples, t)]
           best == CHOOSE t \in stable : \A u \in stable \ {t} :
                     score[t] > score[u] \/ (score[t] = score[u] /\ t < u)
<1> USE DEF SeenInShot
<1>1. PICK live \in Nat : SeenBy(seen, live, samples)
  OBVIOUS
<1>2. stable \subseteq Tracks(seen)
  BY DEF Stable
<1>3. Tracks(seen) \subseteq Nat
  BY <1>1 DEF Tracks, SeenBy
<1>4. IsFiniteSet(stable)
  <2> DEFINE by == [o \in seen |-> o.track_id]
  <2>1. Tracks(seen) = {by[o] : o \in seen} /\ by = [o \in seen |-> by[o]]
    BY DEF Tracks
  <2> HIDE DEF by
  <2>2. IsFiniteSet(Tracks(seen))
    BY <2>1, ImageFinite
  <2> QED BY <1>2, <2>2, FS_Subset
<1>5. \A t \in stable : score[t] \in Int
  <2>1. ASSUME NEW t \in stable PROVE Score(seen, samples, t) \in Int
    BY <1>1, <1>2, ScoreType
  <2> HIDE DEF stable
  <2> QED BY <2>1
<1>6. select(seen, samples) = IF stable = {} THEN 0 ELSE best
  <2>1. ASSUME NEW t \in stable
        PROVE  (\A u \in stable \ {t} :
                  \/ Score(seen, samples, t) > Score(seen, samples, u)
                  \/ (Score(seen, samples, t) = Score(seen, samples, u) /\ t < u))
               <=> (\A u \in stable \ {t} : score[t] > score[u] \/ (score[t] = score[u] /\ t < u))
    <3>1. \A u \in stable : score[u] = Score(seen, samples, u)
      OBVIOUS
    <3> HIDE DEF stable, score
    <3> QED BY Zenon, <3>1
  <2> DEFINE raw == CHOOSE t \in stable : \A u \in stable \ {t} :
                \/ Score(seen, samples, t) > Score(seen, samples, u)
                \/ (Score(seen, samples, t) = Score(seen, samples, u) /\ t < u)
  <2>2. select(seen, samples) = IF stable = {} THEN 0 ELSE raw
    BY Zenon DEF select
  <2>3. raw = best
    <3> HIDE DEF stable, score
    <3> QED BY Zenon, <2>1
  <2> HIDE DEF raw, best, stable
  <2> QED BY Zenon, <2>2, <2>3
<1>7. ASSUME stable # {} PROVE best \in stable
  <2>1. score \in [stable -> Int]
    BY <1>5
  <2> HIDE DEF stable, score
  <2>2. PICK x \in stable : \A y \in stable : score[y] <= score[x]
    BY <1>4, <1>7, <2>1, EndsExist
  <2> DEFINE top == {t \in stable : score[t] = score[x]}
  <2>3. top \in SUBSET Nat /\ top # {}
    BY <1>2, <1>3
  <2> HIDE DEF top
  <2>4. PICK t \in top : \A u \in top : t <= u
    BY <2>3, LeastNatural
  <2>5. \A u \in stable : u \in top <=> score[u] = score[x]
    BY DEF top
  <2>6. t \in stable /\ score[t] = score[x] /\ t \in Nat
    BY <2>3 DEF top
  <2>7. ASSUME NEW u \in stable \ {t} PROVE score[t] > score[u] \/ (score[t] = score[u] /\ t < u)
    <3>1. score[u] <= score[x] /\ score[u] \in Int /\ score[x] \in Int
      BY <2>1, <2>2
    <3>2. CASE u \in top
      <4>1. t <= u /\ t # u /\ u \in Nat
        BY <2>3, <2>4, <3>2
      <4> QED BY <2>5, <2>6, <3>2, <4>1
    <3>3. CASE u \notin top
      BY <2>5, <2>6, <3>1, <3>3
    <3> QED BY <3>2, <3>3
  <2>8. \E s \in stable : \A u \in stable \ {s} :
          score[s] > score[u] \/ (score[s] = score[u] /\ s < u)
    BY <2>6, <2>7
  <2> QED BY Zenon, <2>8
<1> HIDE DEF best, stable
<1> QED BY <1>6, <1>7 DEF stable

=============================================================================
