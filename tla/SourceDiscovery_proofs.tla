---------------------- MODULE SourceDiscovery_proofs ----------------------
(***************************************************************************)
(* Proofs about the discovery of sources: whatever changes meanwhile, it   *)
(* stays below the directory to analyze and within its budget, and if      *)
(* nothing changes it finds what it is to find.                            *)
(***************************************************************************)
EXTENDS SourceDiscovery, FiniteSetTheorems, SequenceTheorems, WellFoundedInduction, TLAPS

-----------------------------------------------------------------------------
(* Numbers. *)

LEMMA LeastIsThere ==
  ASSUME NEW S \in SUBSET Nat, S # {}
  PROVE  \E x \in S : \A y \in S : x <= y
<1> DEFINE R == OpToRel(<, Nat)
<1>1. \A a, b \in Nat : a < b => <<a, b>> \in R
  BY DEF OpToRel
<1>2. IsWellFoundedOn(R, Nat)
  BY NatLessThanWellFounded
<1> HIDE DEF R
<1>3. PICK x \in S : \A y \in S : ~(<<y, x>> \in R)
  BY <1>2, WFMin
<1>4. ASSUME NEW y \in S PROVE x <= y
  <2>1. x \in Nat /\ y \in Nat
    OBVIOUS
  <2>2. ~(y < x)
    BY <1>1, <1>3, <2>1
  <2>3. QED
    BY <2>1, <2>2
<1>5. QED
  BY <1>4

LEMMA MaxIs ==
  ASSUME NEW S \in SUBSET Nat, S # {}, NEW n \in Nat, \A x \in S : x <= n
  PROVE  Max(S) \in S /\ \A x \in S : x <= Max(S)
<1> DEFINE T == {m \in Nat : \A x \in S : x <= m}
<1>1. T \in SUBSET Nat /\ n \in T
  OBVIOUS
<1>2. PICK m \in T : \A y \in T : m <= y
  BY <1>1, LeastIsThere
<1>3. m \in Nat /\ \A x \in S : x <= m
  OBVIOUS
<1>4. m \in S
  <2>1. SUFFICES ASSUME m \notin S PROVE FALSE
    OBVIOUS
  <2>2. PICK x \in S : TRUE
    OBVIOUS
  <2>3. x \in Nat /\ x <= m /\ x # m
    BY <1>3, <2>1
  <2>4. m - 1 \in Nat /\ \A y \in S : y <= m - 1
    BY <1>3, <2>1, <2>3
  <2>5. m - 1 \in T
    BY <2>4
  <2>6. QED
    BY <1>2, <1>3, <2>5
<1>5. \E x \in S : \A y \in S : x >= y
  BY <1>3, <1>4
<1>6. Max(S) \in S /\ \A y \in S : Max(S) >= y
  BY <1>5 DEF Max
<1>7. QED
  BY <1>6

LEMMA IntervalIs ==
  ASSUME NEW n \in Nat
  PROVE  IsFiniteSet(1..n) /\ Cardinality(1..n) = n
<1>1. IsFiniteSet(1..n) /\ Cardinality(1..n) = IF 1 > n THEN 0 ELSE n - 1 + 1
  BY FS_Interval
<1>2. QED
  BY <1>1

(* In a finite set that is put in an order, R, each has its own number, and *)
(* each number is somebody's.                                              *)
Ordering(S, R) ==
  /\ \A x \in S : <<x, x>> \notin R
  /\ \A x, y \in S : x # y => <<x, y>> \in R \/ <<y, x>> \in R
  /\ \A x, y, z \in S : <<x, y>> \in R /\ <<y, z>> \in R => <<x, z>> \in R
Ahead(S, R, x) == {y \in S : <<y, x>> \in R}

LEMMA NumbersAre ==
  ASSUME NEW S, IsFiniteSet(S), NEW R, Ordering(S, R)
  PROVE  /\ Cardinality(S) \in Nat
         /\ \A x \in S : Cardinality(Ahead(S, R, x)) + 1 \in 1..Cardinality(S)
         /\ \A x, y \in S : <<x, y>> \in R => Cardinality(Ahead(S, R, x)) < Cardinality(Ahead(S, R, y))
         /\ \A x, y \in S : Cardinality(Ahead(S, R, x)) = Cardinality(Ahead(S, R, y)) => x = y
         /\ \A n \in 1..Cardinality(S) : \E x \in S : Cardinality(Ahead(S, R, x)) = n - 1
<1> DEFINE size == Cardinality(S)
           f == [x \in S |-> Cardinality(Ahead(S, R, x)) + 1]
<1>1. size \in Nat
  BY FS_CardinalityType
<1>2. ASSUME NEW x \in S
      PROVE  IsFiniteSet(Ahead(S, R, x)) /\ Cardinality(Ahead(S, R, x)) \in Nat /\ Cardinality(Ahead(S, R, x)) < size
  <2>1. x \notin Ahead(S, R, x) /\ Ahead(S, R, x) \in SUBSET S
    BY DEF Ordering, Ahead
  <2>2. IsFiniteSet(Ahead(S, R, x)) /\ Cardinality(Ahead(S, R, x)) <= size
        /\ (size = Cardinality(Ahead(S, R, x)) => S = Ahead(S, R, x))
    BY <2>1, FS_Subset
  <2>3. Cardinality(Ahead(S, R, x)) \in Nat
    BY <2>2, FS_CardinalityType
  <2>4. QED
    BY <1>1, <2>1, <2>2, <2>3
<1>3. ASSUME NEW x \in S, NEW y \in S, <<x, y>> \in R
      PROVE  Cardinality(Ahead(S, R, x)) < Cardinality(Ahead(S, R, y))
  <2>1. Ahead(S, R, x) \in SUBSET Ahead(S, R, y)
    BY <1>3 DEF Ordering, Ahead
  <2>2. x \in Ahead(S, R, y) /\ x \notin Ahead(S, R, x)
    BY <1>3 DEF Ordering, Ahead
  <2>3. /\ IsFiniteSet(Ahead(S, R, y)) /\ Cardinality(Ahead(S, R, y)) \in Nat
        /\ Cardinality(Ahead(S, R, x)) \in Nat
    BY <1>2
  <2>4. /\ Cardinality(Ahead(S, R, x)) <= Cardinality(Ahead(S, R, y))
        /\ Cardinality(Ahead(S, R, y)) = Cardinality(Ahead(S, R, x)) => Ahead(S, R, y) = Ahead(S, R, x)
    BY <2>1, <2>3, FS_Subset
  <2>5. QED
    BY <2>2, <2>3, <2>4
<1>4. ASSUME NEW x \in S, NEW y \in S, Cardinality(Ahead(S, R, x)) = Cardinality(Ahead(S, R, y)) PROVE x = y
  <2>1. SUFFICES ASSUME x # y PROVE FALSE
    OBVIOUS
  <2>2. <<x, y>> \in R \/ <<y, x>> \in R
    BY <2>1 DEF Ordering
  <2>3. Cardinality(Ahead(S, R, x)) \in Nat /\ Cardinality(Ahead(S, R, y)) \in Nat
    BY <1>2
  <2>4. QED
    BY <1>3, <1>4, <2>2, <2>3
<1>5. \A x \in S : Cardinality(Ahead(S, R, x)) + 1 \in 1..size
  BY <1>1, <1>2
<1>6. f \in [S -> 1..size]
  BY <1>5
<1>7. f \in Injection(S, 1..size)
  <2>1. \A x, y \in S : f[x] = f[y] => x = y
    <3>1. TAKE x, y \in S
    <3>2. Cardinality(Ahead(S, R, x)) \in Nat /\ Cardinality(Ahead(S, R, y)) \in Nat
      BY <1>2
    <3>3. f[x] = f[y] => Cardinality(Ahead(S, R, x)) = Cardinality(Ahead(S, R, y))
      BY <3>2
    <3>4. QED
      BY <3>3, <1>4
  <2>2. QED
    BY <1>6, <2>1 DEF Injection, IsInjective
<1>8. IsFiniteSet(1..size) /\ Cardinality(1..size) = size
  BY <1>1, IntervalIs
<1>9. f \in Surjection(S, 1..size)
  BY <1>7, <1>8, FS_Injection
<1>10. ASSUME NEW n \in 1..size PROVE \E x \in S : Cardinality(Ahead(S, R, x)) = n - 1
  <2>1. PICK x \in S : f[x] = n
    BY <1>9 DEF Surjection
  <2>2. Cardinality(Ahead(S, R, x)) \in Nat /\ Cardinality(Ahead(S, R, x)) + 1 = n
    BY <1>2, <2>1
  <2>3. QED
    BY <2>2
<1>11. QED
  BY <1>1, <1>3, <1>4, <1>5, <1>10

-----------------------------------------------------------------------------
(* Paths. *)

(* One path leads to another, or below it.                                 *)
Under(p, q) == Len(p) <= Len(q) /\ \A i \in 1..Len(p) : p[i] = q[i]
Apart(p, q) == ~Under(p, q) /\ ~Under(q, p)

LEMMA PrefixIs ==
  ASSUME NEW S, NEW p \in Seq(S), NEW n \in 0..Len(p)
  PROVE  Prefix(p, n) \in Seq(S) /\ Len(Prefix(p, n)) = n /\ \A i \in 1..n : Prefix(p, n)[i] = p[i]
<1>1. n \in Int /\ 1 \in Int /\ \A i \in 1..n : p[i] \in S
  OBVIOUS
<1>2. /\ SubSeq(p, 1, n) \in Seq(S)
      /\ Len(SubSeq(p, 1, n)) = IF 1 <= n THEN n - 1 + 1 ELSE 0
      /\ \A i \in 1..(n - 1 + 1) : SubSeq(p, 1, n)[i] = p[1 + i - 1]
  BY <1>1, SubSeqProperties
<1>3. QED
  BY <1>2 DEF Prefix

LEMMA PrefixesAre ==
  ASSUME NEW S, NEW p \in Seq(S)
  PROVE  /\ Prefix(p, 0) = <<>> /\ Prefix(p, Len(p)) = p
         /\ \A n \in 0..Len(p) : \A m \in 0..n : Prefix(Prefix(p, n), m) = Prefix(p, m)
         /\ \A n \in 1..Len(p) : Prefix(p, n) = Append(Prefix(p, n - 1), p[n])
<1>0. Len(p) \in Nat
  OBVIOUS
<1>1. Prefix(p, 0) = <<>>
  <2>1. Prefix(p, 0) \in Seq(S) /\ Len(Prefix(p, 0)) = 0
    BY <1>0, PrefixIs
  <2>2. QED
    BY <2>1, EmptySeq
<1>2. Prefix(p, Len(p)) = p
  BY <1>0, PrefixIs, SeqEqual
<1>3. ASSUME NEW n \in 0..Len(p), NEW m \in 0..n PROVE Prefix(Prefix(p, n), m) = Prefix(p, m)
  <2>1. Prefix(p, n) \in Seq(S) /\ Len(Prefix(p, n)) = n /\ \A i \in 1..n : Prefix(p, n)[i] = p[i]
    BY PrefixIs
  <2>2. /\ Prefix(Prefix(p, n), m) \in Seq(S) /\ Len(Prefix(Prefix(p, n), m)) = m
        /\ \A i \in 1..m : Prefix(Prefix(p, n), m)[i] = Prefix(p, n)[i]
    BY <2>1, PrefixIs
  <2>3. Prefix(p, m) \in Seq(S) /\ Len(Prefix(p, m)) = m /\ \A i \in 1..m : Prefix(p, m)[i] = p[i]
    BY PrefixIs
  <2>4. QED
    BY <2>1, <2>2, <2>3, SeqEqual
<1>4. ASSUME NEW n \in 1..Len(p) PROVE Prefix(p, n) = Append(Prefix(p, n - 1), p[n])
  <2>1. n \in 0..Len(p) /\ n - 1 \in 0..Len(p) /\ p[n] \in S
    OBVIOUS
  <2>2. Prefix(p, n) \in Seq(S) /\ Len(Prefix(p, n)) = n /\ \A i \in 1..n : Prefix(p, n)[i] = p[i]
    BY <2>1, PrefixIs
  <2>3. /\ Prefix(p, n - 1) \in Seq(S) /\ Len(Prefix(p, n - 1)) = n - 1
        /\ \A i \in 1..(n - 1) : Prefix(p, n - 1)[i] = p[i]
    BY <2>1, PrefixIs
  <2>4. /\ Append(Prefix(p, n - 1), p[n]) \in Seq(S) /\ Len(Append(Prefix(p, n - 1), p[n])) = n
        /\ \A i \in 1..(n - 1) : Append(Prefix(p, n - 1), p[n])[i] = p[i]
        /\ Append(Prefix(p, n - 1), p[n])[n] = p[n]
    BY <2>1, <2>3, AppendProperties
  <2>5. QED
    BY <2>2, <2>4, SeqEqual
<1>5. QED
  BY <1>1, <1>2, <1>3, <1>4

LEMMA ExtendedIs ==
  ASSUME NEW S, NEW p \in Seq(S), NEW x \in S
  PROVE  /\ Append(p, x) \in Seq(S) /\ Append(p, x) # <<>> /\ Len(Append(p, x)) = Len(p) + 1
         /\ Append(p, x)[Len(p) + 1] = x /\ \A i \in 1..Len(p) : Append(p, x)[i] = p[i]
         /\ Front(Append(p, x)) = p /\ Last(Append(p, x)) = x
         /\ \A n \in 0..Len(p) : Prefix(Append(p, x), n) = Prefix(p, n)
<1>1. /\ Append(p, x) \in Seq(S) /\ Append(p, x) # <<>> /\ Len(Append(p, x)) = Len(p) + 1
      /\ Append(p, x)[Len(p) + 1] = x /\ \A i \in 1..Len(p) : Append(p, x)[i] = p[i]
  BY AppendProperties
<1>2. Last(Append(p, x)) = x
  BY <1>1 DEF Last
<1>3. ASSUME NEW n \in 0..Len(p) PROVE Prefix(Append(p, x), n) = Prefix(p, n)
  <2>1. n \in 0..Len(Append(p, x))
    BY <1>1
  <2>2. /\ Prefix(Append(p, x), n) \in Seq(S) /\ Len(Prefix(Append(p, x), n)) = n
        /\ \A i \in 1..n : Prefix(Append(p, x), n)[i] = Append(p, x)[i]
    BY <1>1, <2>1, PrefixIs
  <2>3. Prefix(p, n) \in Seq(S) /\ Len(Prefix(p, n)) = n /\ \A i \in 1..n : Prefix(p, n)[i] = p[i]
    BY PrefixIs
  <2>4. QED
    BY <1>1, <2>2, <2>3, SeqEqual
<1>4. Front(Append(p, x)) = Prefix(Append(p, x), Len(p))
  BY <1>1 DEF Front, Prefix
<1>5. Front(Append(p, x)) = p
  BY <1>3, <1>4, PrefixesAre
<1>6. QED
  BY <1>1, <1>2, <1>3, <1>5

LEMMA UnderIs ==
  ASSUME NEW S, NEW p \in Seq(S), NEW q \in Seq(S)
  PROVE  /\ Under(p, p) /\ Under(<<>>, p)
         /\ Under(p, q) /\ Len(p) = Len(q) => p = q
         /\ \A x \in S : Under(Append(p, x), q) => Under(p, q)
         /\ \A x \in S : Under(p, Append(q, x)) => Under(p, q) \/ p = Append(q, x)
         /\ Under(p, q) /\ p # q => Len(p) + 1 \in 1..Len(q) /\ Under(Append(p, q[Len(p) + 1]), q)
<1>1. Len(p) \in Nat /\ Len(q) \in Nat
  OBVIOUS
<1>2. Under(p, p) /\ Under(<<>>, p)
  BY <1>1 DEF Under
<1>3. ASSUME Under(p, q), Len(p) = Len(q) PROVE p = q
  BY <1>3, SeqEqual DEF Under
<1>4. ASSUME NEW x \in S, Under(Append(p, x), q) PROVE Under(p, q)
  BY <1>1, <1>4, ExtendedIs DEF Under
<1>5. ASSUME NEW x \in S, Under(p, Append(q, x)) PROVE Under(p, q) \/ p = Append(q, x)
  <2>1. /\ Append(q, x) \in Seq(S) /\ Len(Append(q, x)) = Len(q) + 1
        /\ \A i \in 1..Len(q) : Append(q, x)[i] = q[i]
    BY ExtendedIs
  <2>2. CASE Len(p) = Len(q) + 1
    BY <1>5, <2>1, <2>2, SeqEqual DEF Under
  <2>3. CASE Len(p) # Len(q) + 1
    BY <1>1, <1>5, <2>1, <2>3 DEF Under
  <2>4. QED
    BY <2>2, <2>3
<1>6. ASSUME Under(p, q), p # q PROVE Len(p) + 1 \in 1..Len(q) /\ Under(Append(p, q[Len(p) + 1]), q)
  <2>1. Len(p) # Len(q) /\ Len(p) <= Len(q)
    BY <1>3, <1>6 DEF Under
  <2>2. Len(p) + 1 \in 1..Len(q)
    BY <1>1, <2>1
  <2>3. q[Len(p) + 1] \in S
    BY <2>2
  <2> DEFINE r == Append(p, q[Len(p) + 1])
  <2>4. Len(r) = Len(p) + 1 /\ r[Len(p) + 1] = q[Len(p) + 1] /\ \A i \in 1..Len(p) : r[i] = p[i]
    BY <2>3, ExtendedIs
  <2>5. \A i \in 1..Len(r) : r[i] = q[i]
    BY <1>1, <1>6, <2>4 DEF Under
  <2>6. QED
    BY <2>2, <2>4, <2>5 DEF Under
<1>7. QED
  BY <1>2, <1>3, <1>4, <1>5, <1>6

-----------------------------------------------------------------------------
(* Where paths lead. *)

Walks(b, p, k, g) == g = [n \in 0..k |-> IF n = 0 THEN From(b) ELSE Below(g[n - 1], p[n])]
Follows(p, k, g) == g = [n \in 0..k |-> IF n = 0 THEN From(Base) ELSE Followed(g[n - 1], p[n])]

LEMMA WalksAre ==
  ASSUME NEW b, NEW p, NEW k \in Nat
  PROVE  \E g : Walks(b, p, k, g)
<1> DEFINE Bad == {n \in Nat : ~\E g : Walks(b, p, n, g)}
<1>1. SUFFICES ASSUME k \in Bad PROVE FALSE
  OBVIOUS
<1>2. PICK n \in Bad : \A m \in Bad : n <= m
  BY <1>1, LeastIsThere
<1>3. CASE n = 0
  <2> DEFINE g == [x \in 0..0 |-> From(b)]
  <2>1. Walks(b, p, 0, g)
    BY DEF Walks
  <2>2. QED
    BY <1>3, <2>1
<1>4. CASE n # 0
  <2>1. n - 1 \in Nat /\ n - 1 \notin Bad
    BY <1>2, <1>4
  <2>2. PICK g : Walks(b, p, n - 1, g)
    BY <2>1
  <2> DEFINE h == [x \in 0..n |-> IF x = n THEN Below(g[n - 1], p[n]) ELSE g[x]]
  <2>3. \A x \in 0..(n - 1) : g[x] = IF x = 0 THEN From(b) ELSE Below(g[x - 1], p[x])
    BY <2>2 DEF Walks
  <2>4. \A x \in 0..n : h[x] = IF x = 0 THEN From(b) ELSE Below(h[x - 1], p[x])
    BY <1>4, <2>1, <2>3
  <2>5. Walks(b, p, n, h)
    BY <2>4 DEF Walks
  <2>6. QED
    BY <2>5
<1>5. QED
  BY <1>3, <1>4

LEMMA FollowsAre ==
  ASSUME NEW p, NEW k \in Nat
  PROVE  \E g : Follows(p, k, g)
<1> DEFINE Bad == {n \in Nat : ~\E g : Follows(p, n, g)}
<1>1. SUFFICES ASSUME k \in Bad PROVE FALSE
  OBVIOUS
<1>2. PICK n \in Bad : \A m \in Bad : n <= m
  BY <1>1, LeastIsThere
<1>3. CASE n = 0
  <2> DEFINE g == [x \in 0..0 |-> From(Base)]
  <2>1. Follows(p, 0, g)
    BY DEF Follows
  <2>2. QED
    BY <1>3, <2>1
<1>4. CASE n # 0
  <2>1. n - 1 \in Nat /\ n - 1 \notin Bad
    BY <1>2, <1>4
  <2>2. PICK g : Follows(p, n - 1, g)
    BY <2>1
  <2> DEFINE h == [x \in 0..n |-> IF x = n THEN Followed(g[n - 1], p[n]) ELSE g[x]]
  <2>3. \A x \in 0..(n - 1) : g[x] = IF x = 0 THEN From(Base) ELSE Followed(g[x - 1], p[x])
    BY <2>2 DEF Follows
  <2>4. \A x \in 0..n : h[x] = IF x = 0 THEN From(Base) ELSE Followed(h[x - 1], p[x])
    BY <1>4, <2>1, <2>3
  <2>5. Follows(p, n, h)
    BY <2>4 DEF Follows
  <2>6. QED
    BY <2>5
<1>5. QED
  BY <1>3, <1>4

LEMMA SameWalk ==
  ASSUME NEW b, NEW p, NEW q, NEW k \in Nat, NEW m \in Nat, k <= m, NEW g, NEW h,
         Walks(b, p, k, g), Walks(b, q, m, h), \A n \in 1..k : p[n] = q[n]
  PROVE  g[k] = h[k]
<1> DEFINE Bad == {n \in 0..k : g[n] # h[n]}
<1>1. SUFFICES ASSUME k \in Bad PROVE FALSE
  OBVIOUS
<1>2. PICK n \in Bad : \A x \in Bad : n <= x
  <2>1. Bad \in SUBSET Nat
    OBVIOUS
  <2>2. QED
    BY <1>1, <2>1, LeastIsThere
<1>3. \A x \in 0..k : g[x] = IF x = 0 THEN From(b) ELSE Below(g[x - 1], p[x])
  BY DEF Walks
<1>4. \A x \in 0..m : h[x] = IF x = 0 THEN From(b) ELSE Below(h[x - 1], q[x])
  BY DEF Walks
<1>5. n # 0
  BY <1>2, <1>3, <1>4
<1>6. n \in 1..k /\ n - 1 \in 0..k /\ n - 1 \notin Bad
  BY <1>2, <1>5
<1>7. g[n - 1] = h[n - 1] /\ n \in 0..m
  BY <1>6
<1>8. g[n] = h[n]
  BY <1>3, <1>4, <1>6, <1>7
<1>9. QED
  BY <1>2, <1>8

LEMMA SameFollow ==
  ASSUME NEW p, NEW q, NEW k \in Nat, NEW m \in Nat, k <= m, NEW g, NEW h,
         Follows(p, k, g), Follows(q, m, h), \A n \in 1..k : p[n] = q[n]
  PROVE  g[k] = h[k]
<1> DEFINE Bad == {n \in 0..k : g[n] # h[n]}
<1>1. SUFFICES ASSUME k \in Bad PROVE FALSE
  OBVIOUS
<1>2. PICK n \in Bad : \A x \in Bad : n <= x
  <2>1. Bad \in SUBSET Nat
    OBVIOUS
  <2>2. QED
    BY <1>1, <2>1, LeastIsThere
<1>3. \A x \in 0..k : g[x] = IF x = 0 THEN From(Base) ELSE Followed(g[x - 1], p[x])
  BY DEF Follows
<1>4. \A x \in 0..m : h[x] = IF x = 0 THEN From(Base) ELSE Followed(h[x - 1], q[x])
  BY DEF Follows
<1>5. n # 0
  BY <1>2, <1>3, <1>4
<1>6. n \in 1..k /\ n - 1 \in 0..k /\ n - 1 \notin Bad
  BY <1>2, <1>5
<1>7. g[n - 1] = h[n - 1] /\ n \in 0..m
  BY <1>6
<1>8. g[n] = h[n]
  BY <1>3, <1>4, <1>6, <1>7
<1>9. QED
  BY <1>2, <1>8

LEMMA PlainIs ==
  ASSUME NEW b, NEW S, NEW p \in Seq(S)
  PROVE  \E g : Walks(b, p, Len(p), g) /\ Plain(b, p) = g[Len(p)]
<1> DEFINE g == CHOOSE x : Walks(b, p, Len(p), x)
<1>1. Walks(b, p, Len(p), g)
  BY WalksAre
<1>2. Plain(b, p) = g[Len(p)]
  BY DEF Plain, Walks
<1>3. QED
  BY <1>1, <1>2

LEMMA ResolveIs ==
  ASSUME NEW S, NEW p \in Seq(S)
  PROVE  \E g : Follows(p, Len(p), g) /\ Resolve(p) = g[Len(p)]
<1> DEFINE g == CHOOSE x : Follows(p, Len(p), x)
<1>1. Follows(p, Len(p), g)
  BY FollowsAre
<1>2. Resolve(p) = g[Len(p)]
  BY DEF Resolve, Follows
<1>3. QED
  BY <1>1, <1>2

LEMMA PlainStep ==
  ASSUME NEW b, NEW S
  PROVE  /\ Plain(b, <<>>) = From(b)
         /\ \A p \in Seq(S), x \in S : Plain(b, Append(p, x)) = Below(Plain(b, p), x)
<1>1. Plain(b, <<>>) = From(b)
  <2>1. <<>> \in Seq(S) /\ Len(<<>>) = 0
    BY EmptySeq
  <2>2. PICK g : Walks(b, <<>>, 0, g) /\ Plain(b, <<>>) = g[0]
    BY <2>1, PlainIs
  <2>3. QED
    BY <2>2 DEF Walks
<1>2. ASSUME NEW p \in Seq(S), NEW x \in S PROVE Plain(b, Append(p, x)) = Below(Plain(b, p), x)
  <2> DEFINE q == Append(p, x)
  <2>1. Len(p) \in Nat /\ q \in Seq(S) /\ Len(q) = Len(p) + 1 /\ q[Len(p) + 1] = x /\ \A n \in 1..Len(p) : p[n] = q[n]
    BY ExtendedIs
  <2>2. PICK g : Walks(b, p, Len(p), g) /\ Plain(b, p) = g[Len(p)]
    BY PlainIs
  <2>3. PICK h : Walks(b, q, Len(q), h) /\ Plain(b, q) = h[Len(q)]
    BY <2>1, PlainIs
  <2>4. g[Len(p)] = h[Len(p)]
    <3>1. Len(p) \in Nat /\ Len(q) \in Nat /\ Len(p) <= Len(q)
      BY <2>1
    <3> HIDE DEF q
    <3>2. QED
      BY <2>1, <2>2, <2>3, <3>1, SameWalk
  <2> HIDE DEF q
  <2>5. h = [n \in 0..Len(q) |-> IF n = 0 THEN From(b) ELSE Below(h[n - 1], q[n])]
    BY <2>3 DEF Walks
  <2>6. h[Len(q)] = Below(h[Len(p)], x)
    BY <2>1, <2>5
  <2>7. QED
    BY <2>2, <2>3, <2>4, <2>6 DEF q
<1>3. QED
  BY <1>1, <1>2

LEMMA ResolveStep ==
  ASSUME NEW S
  PROVE  /\ Resolve(<<>>) = From(Base)
         /\ \A p \in Seq(S), x \in S : Resolve(Append(p, x)) = Followed(Resolve(p), x)
<1>1. Resolve(<<>>) = From(Base)
  <2>1. <<>> \in Seq(S) /\ Len(<<>>) = 0
    BY EmptySeq
  <2>2. PICK g : Follows(<<>>, 0, g) /\ Resolve(<<>>) = g[0]
    BY <2>1, ResolveIs
  <2>3. QED
    BY <2>2 DEF Follows
<1>2. ASSUME NEW p \in Seq(S), NEW x \in S PROVE Resolve(Append(p, x)) = Followed(Resolve(p), x)
  <2> DEFINE q == Append(p, x)
  <2>1. Len(p) \in Nat /\ q \in Seq(S) /\ Len(q) = Len(p) + 1 /\ q[Len(p) + 1] = x /\ \A n \in 1..Len(p) : p[n] = q[n]
    BY ExtendedIs
  <2>2. PICK g : Follows(p, Len(p), g) /\ Resolve(p) = g[Len(p)]
    BY ResolveIs
  <2>3. PICK h : Follows(q, Len(q), h) /\ Resolve(q) = h[Len(q)]
    BY <2>1, ResolveIs
  <2>4. g[Len(p)] = h[Len(p)]
    <3>1. Len(p) \in Nat /\ Len(q) \in Nat /\ Len(p) <= Len(q)
      BY <2>1
    <3> HIDE DEF q
    <3>2. QED
      BY <2>1, <2>2, <2>3, <3>1, SameFollow
  <2> HIDE DEF q
  <2>5. h = [n \in 0..Len(q) |-> IF n = 0 THEN From(Base) ELSE Followed(h[n - 1], q[n])]
    BY <2>3 DEF Follows
  <2>6. h[Len(q)] = Followed(h[Len(p)], x)
    BY <2>1, <2>5
  <2>7. QED
    BY <2>2, <2>3, <2>4, <2>6 DEF q
<1>3. QED
  BY <1>1, <1>2

(* A plain path is where it is.                                            *)
LEMMA PlainPlace ==
  ASSUME Sound(disk), NEW b \in DOMAIN disk.nodes, NEW S, NEW p \in Seq(S)
  PROVE  \/ Plain(b, p) = Nowhere
         \/ \E i \in DOMAIN disk.nodes : Plain(b, p) = [inode |-> i, base |-> b, path |-> p]
<1> DEFINE Placed(q) ==
             \/ Plain(b, q) = Nowhere
             \/ \E i \in DOMAIN disk.nodes : Plain(b, q) = [inode |-> i, base |-> b, path |-> q]
           Bad == {n \in 0..Len(p) : ~Placed(Prefix(p, n))}
<1>1. Len(p) \in Nat /\ Prefix(p, Len(p)) = p /\ Prefix(p, 0) = <<>>
  BY PrefixesAre
<1>2. SUFFICES ASSUME ~Placed(p) PROVE FALSE
  OBVIOUS
<1>3. Len(p) \in Bad /\ Bad \in SUBSET Nat
  BY <1>1, <1>2
<1>4. PICK n \in Bad : \A m \in Bad : n <= m
  BY <1>3, LeastIsThere
<1>5. n # 0
  <2>1. Plain(b, <<>>) = [inode |-> b, base |-> b, path |-> <<>>]
    BY PlainStep DEF From
  <2>2. Placed(<<>>)
    BY <2>1
  <2>3. QED
    BY <1>1, <1>4, <2>2
<1>6. n \in 1..Len(p) /\ n - 1 \in 0..Len(p) /\ n - 1 \notin Bad
  <2>1. n \in 1..Len(p) /\ n - 1 \in 0..Len(p) /\ ~(n <= n - 1)
    BY <1>1, <1>5
  <2>2. QED
    BY <1>4, <2>1
<1>7. PICK q \in Seq(S) : p[n] \in S /\ Placed(q) /\ Prefix(p, n) = Append(q, p[n])
  <2>1. Prefix(p, n - 1) \in Seq(S) /\ p[n] \in S
    BY <1>6, PrefixIs
  <2>2. Prefix(p, n) = Append(Prefix(p, n - 1), p[n])
    BY <1>6, PrefixesAre
  <2>3. Placed(Prefix(p, n - 1))
    BY <1>6
  <2>4. QED
    BY <2>1, <2>2, <2>3
<1>8. Plain(b, Append(q, p[n])) = Below(Plain(b, q), p[n])
  BY <1>7, PlainStep
<1>9. Placed(Append(q, p[n]))
  <2>1. CASE Below(Plain(b, q), p[n]) = Nowhere
    BY <1>8, <2>1
  <2>2. CASE Below(Plain(b, q), p[n]) # Nowhere
    <3>1. Plain(b, q) # Nowhere /\ Kind(Plain(b, q).inode) = "directory"
          /\ p[n] \in DOMAIN disk.entries[Plain(b, q).inode]
      BY <2>2 DEF Below, IsA
    <3>2. PICK i \in DOMAIN disk.nodes : Plain(b, q) = [inode |-> i, base |-> b, path |-> q]
      BY <1>7, <3>1
    <3>3. Below(Plain(b, q), p[n]) = [inode |-> disk.entries[i][p[n]], base |-> b, path |-> Append(q, p[n])]
      BY <2>2, <3>2 DEF Below
    <3>4. i \in DOMAIN disk.entries
      BY <3>1, <3>2 DEF Sound, Kind
    <3>5. disk.entries[i][p[n]] \in DOMAIN disk.nodes
      BY <3>1, <3>2, <3>4 DEF Sound
    <3>6. QED
      BY <1>8, <3>3, <3>5
  <2>3. QED
    BY <2>1, <2>2
<1>10. QED
  BY <1>4, <1>7, <1>9

(* To where a path leads, a plain path does, which is that of a link, if any. *)
PlacedIn(T, at) ==
  \/ at = Nowhere
  \/ at.path \in Seq(T) /\ at.base \in DOMAIN disk.nodes /\ at = Plain(at.base, at.path)

LEMMA ResolvePlace ==
  ASSUME Sound(disk), NEW S, NEW p \in Seq(S)
  PROVE  PlacedIn(S \cup STRING, Resolve(p))
<1> DEFINE T == S \cup STRING
           Bad == {n \in 0..Len(p) : ~PlacedIn(T, Resolve(Prefix(p, n)))}
<1>1. Len(p) \in Nat /\ Prefix(p, Len(p)) = p /\ Prefix(p, 0) = <<>>
  BY PrefixesAre
<1>2. SUFFICES ASSUME ~PlacedIn(T, Resolve(p)) PROVE FALSE
  OBVIOUS
<1>3. Len(p) \in Bad /\ Bad \in SUBSET Nat
  BY <1>1, <1>2
<1>4. PICK n \in Bad : \A m \in Bad : n <= m
  BY <1>3, LeastIsThere
<1>5. n # 0
  <2>1. Resolve(<<>>) = From(Base) /\ Plain(Base, <<>>) = From(Base) /\ <<>> \in Seq(T)
    BY PlainStep, ResolveStep, EmptySeq
  <2>2. From(Base).base = Base /\ From(Base).path = <<>> /\ Base \in DOMAIN disk.nodes
    BY DEF From, Sound
  <2>3. PlacedIn(T, Resolve(<<>>))
    BY <2>1, <2>2 DEF PlacedIn
  <2>4. QED
    BY <1>1, <1>4, <2>3
<1>6. n \in 1..Len(p) /\ n - 1 \in 0..Len(p) /\ n - 1 \notin Bad
  <2>1. n \in 1..Len(p) /\ n - 1 \in 0..Len(p) /\ ~(n <= n - 1)
    BY <1>1, <1>5
  <2>2. QED
    BY <1>4, <2>1
<1>7. PICK q \in Seq(S) : PlacedIn(T, Resolve(q)) /\ Prefix(p, n) = Append(q, p[n])
  <2>1. Prefix(p, n - 1) \in Seq(S)
    BY <1>6, PrefixIs
  <2>2. Prefix(p, n) = Append(Prefix(p, n - 1), p[n])
    BY <1>6, PrefixesAre
  <2>3. PlacedIn(T, Resolve(Prefix(p, n - 1)))
    BY <1>6
  <2>4. QED
    BY <2>1, <2>2, <2>3
<1>8. PICK x \in S : x = p[n]
  BY <1>6
<1>9. PICK at, next : at = Resolve(q) /\ next = Below(at, x)
  OBVIOUS
<1>10. Resolve(Prefix(p, n)) = Followed(at, x) /\ PlacedIn(T, at)
  BY <1>7, <1>8, <1>9, ResolveStep
<1>11. next # Nowhere =>
         /\ at # Nowhere /\ Kind(at.inode) = "directory" /\ x \in DOMAIN disk.entries[at.inode]
         /\ next = [inode |-> disk.entries[at.inode][x], base |-> at.base, path |-> Append(at.path, x)]
  BY <1>9 DEF Below, IsA
<1>12. PlacedIn(T, Followed(at, x))
  <2>1. CASE next = Nowhere
    BY <1>9, <2>1 DEF Followed, IsA, PlacedIn
  <2>2. CASE next # Nowhere /\ Kind(next.inode) # "link"
    <3>1. Followed(at, x) = next
      BY <1>9, <2>2 DEF Followed, IsA
    <3>2. at.path \in Seq(T) /\ at.base \in DOMAIN disk.nodes /\ at = Plain(at.base, at.path) /\ x \in T
      BY <1>10, <1>11, <2>2 DEF PlacedIn
    <3>3. PICK b, r : b = at.base /\ r = at.path
      OBVIOUS
    <3>4. Plain(b, Append(r, x)) = Below(Plain(b, r), x) /\ Append(r, x) \in Seq(T)
      <4>1. r \in Seq(T) /\ x \in T
        BY <3>2, <3>3
      <4> HIDE DEF T
      <4>2. Append(r, x) \in Seq(T)
        BY <4>1
      <4>3. QED
        BY <4>1, <4>2, PlainStep
    <3>5. next.base = b /\ next.path = Append(r, x)
      BY <1>11, <2>2, <3>3
    <3>6. next = Plain(b, Append(r, x))
      BY <1>9, <3>2, <3>3, <3>4
    <3>7. next.path \in Seq(T) /\ next.base \in DOMAIN disk.nodes /\ next = Plain(next.base, next.path)
      BY <3>2, <3>3, <3>4, <3>5, <3>6
    <3>8. QED
      BY <3>1, <3>7 DEF PlacedIn
  <2>3. CASE next # Nowhere /\ Kind(next.inode) = "link"
    <3>a. at.path \in Seq(T) /\ at.base \in DOMAIN disk.nodes /\ at = Plain(at.base, at.path) /\ at # Nowhere
      BY <1>10, <1>11, <2>3 DEF PlacedIn
    <3>b. \E i \in DOMAIN disk.nodes : at = [inode |-> i, base |-> at.base, path |-> at.path]
      BY <3>a, PlainPlace
    <3>1. at.inode \in DOMAIN disk.entries
      BY <1>11, <2>3, <3>b DEF Sound, Kind
    <3>2. next.inode \in DOMAIN disk.nodes
      BY <1>11, <2>3, <3>1 DEF Sound
    <3>3. PICK b, r : b = disk.nodes[next.inode].to.base /\ r = disk.nodes[next.inode].to.path
      OBVIOUS
    <3>4. r \in Seq(STRING) /\ b \in DOMAIN disk.nodes
      BY <2>3, <3>2, <3>3 DEF Sound, Kind
    <3>5. Followed(at, x) = Plain(b, r)
      BY <1>9, <2>3, <3>3 DEF Followed, IsA
    <3>6. Plain(b, r) = Nowhere \/ \E i \in DOMAIN disk.nodes : Plain(b, r) = [inode |-> i, base |-> b, path |-> r]
      BY <3>4, PlainPlace
    <3>7. r \in Seq(T)
      BY <3>4, SeqMonotonic
    <3>8. Plain(b, r) # Nowhere => Plain(b, r).base = b /\ Plain(b, r).path = r
      BY <3>6
    <3>9. QED
      BY <3>4, <3>5, <3>7, <3>8 DEF PlacedIn
  <2>4. QED
    BY <2>1, <2>2, <2>3
<1>13. QED
  BY <1>4, <1>10, <1>12

-----------------------------------------------------------------------------
(* Directories. *)

Word == AllNames \cup STRING \cup {".git", "info", "exclude", ".gitignore", ".ignore"}
Dir(p) == IsA("directory", Plain(Base, p))
File(p) == IsA("file", Plain(Base, p))

LEMMA KindsDiffer == \A p : ~(Dir(p) /\ File(p))
  BY DEF Dir, File, IsA

LEMMA RootIs ==
  ASSUME Sound(disk)
  PROVE  /\ Base \in DOMAIN disk.nodes /\ Base \in DOMAIN disk.entries
         /\ Plain(Base, <<>>) = From(Base) /\ Resolve(<<>>) = From(Base) /\ Dir(<<>>)
<1>1. Base \in DOMAIN disk.nodes /\ Base \in DOMAIN disk.entries /\ Kind(Base) = "directory" /\ Base # 0
  BY DEF Sound, Kind
<1>2. Plain(Base, <<>>) = From(Base) /\ Resolve(<<>>) = From(Base)
  BY PlainStep, ResolveStep
<1>3. From(Base) # Nowhere /\ From(Base).inode = Base
  BY <1>1 DEF From, Nowhere
<1>4. QED
  BY <1>1, <1>2, <1>3 DEF Dir, IsA

LEMMA DirIs ==
  ASSUME Sound(disk), NEW S, NEW p \in Seq(S), Dir(p)
  PROVE  \E i \in DOMAIN disk.entries : i # 0 /\ Plain(Base, p) = [inode |-> i, base |-> Base, path |-> p]
<1>1. Plain(Base, p) # Nowhere /\ Kind(Plain(Base, p).inode) = "directory"
  BY DEF Dir, IsA
<1>2. PICK i \in DOMAIN disk.nodes : Plain(Base, p) = [inode |-> i, base |-> Base, path |-> p]
  BY <1>1, PlainPlace, RootIs
<1>3. i \in DOMAIN disk.entries /\ i # 0
  BY <1>1, <1>2 DEF Sound, Kind
<1>4. QED
  BY <1>2, <1>3

(* What is there has directories above it.                                 *)
LEMMA ParentIs ==
  ASSUME Sound(disk), NEW S, NEW p \in Seq(S), NEW x \in S, Plain(Base, Append(p, x)) # Nowhere
  PROVE  Dir(p) /\ x \in DOMAIN disk.entries[Plain(Base, p).inode]
<1>1. Plain(Base, Append(p, x)) = Below(Plain(Base, p), x)
  BY PlainStep
<1>2. QED
  BY <1>1 DEF Below, Dir

LEMMA AboveIs ==
  ASSUME Sound(disk), NEW S, NEW q \in Seq(S), Plain(Base, q) # Nowhere, NEW n \in 0..Len(q)
  PROVE  Plain(Base, Prefix(q, n)) # Nowhere /\ (n < Len(q) => Dir(Prefix(q, n)))
<1> DEFINE Bad == {m \in 0..Len(q) : Plain(Base, Prefix(q, Len(q) - m)) = Nowhere}
<1>0. Len(q) \in Nat
  OBVIOUS
<1>1. Bad = {}
  <2>1. SUFFICES ASSUME Bad # {} PROVE FALSE
    OBVIOUS
  <2>2. Bad \in SUBSET Nat
    OBVIOUS
  <2>3. PICK m \in Bad : \A k \in Bad : m <= k
    BY <2>1, <2>2, LeastIsThere
  <2>4. m # 0
    BY <1>0, <2>3, PrefixesAre
  <2>5. m - 1 \in 0..Len(q) /\ ~(m <= m - 1)
    BY <1>0, <2>4
  <2>6. Plain(Base, Prefix(q, Len(q) - (m - 1))) # Nowhere
    BY <2>3, <2>5
  <2>7. PICK k \in 1..Len(q) : k = Len(q) - (m - 1) /\ k - 1 = Len(q) - m
    BY <1>0, <2>4
  <2>8. Prefix(q, k) = Append(Prefix(q, k - 1), q[k]) /\ Prefix(q, k - 1) \in Seq(S) /\ q[k] \in S
    BY PrefixesAre, PrefixIs
  <2>a. PICK r \in Seq(S), x \in S : r = Prefix(q, k - 1) /\ x = q[k] /\ Prefix(q, k) = Append(r, x)
    BY <2>8
  <2>b. Plain(Base, Prefix(q, k)) # Nowhere
    BY <2>6, <2>7
  <2>c. Plain(Base, Append(r, x)) # Nowhere
    BY <2>a, <2>b
  <2>d. Dir(r)
    BY <2>c, ParentIs
  <2>9. Dir(Prefix(q, k - 1))
    BY <2>a, <2>d
  <2>10. Plain(Base, Prefix(q, Len(q) - m)) # Nowhere
    BY <2>7, <2>9 DEF Dir, IsA
  <2>11. QED
    BY <2>3, <2>10
<1>2. \A k \in 0..Len(q) : Plain(Base, Prefix(q, k)) # Nowhere
  <2>1. TAKE k \in 0..Len(q)
  <2>2. Len(q) - k \in 0..Len(q) /\ Len(q) - (Len(q) - k) = k
    BY <1>0
  <2>3. Len(q) - k \notin Bad
    BY <1>1
  <2>4. QED
    BY <2>2, <2>3
<1>3. ASSUME n < Len(q) PROVE Dir(Prefix(q, n))
  <2>1. PICK k \in 1..Len(q) : k = n + 1 /\ k - 1 = n
    BY <1>0, <1>3
  <2>2. Prefix(q, k) = Append(Prefix(q, n), q[k]) /\ Prefix(q, n) \in Seq(S) /\ q[k] \in S
    BY <2>1, PrefixesAre, PrefixIs
  <2>3. Plain(Base, Prefix(q, k)) # Nowhere
    BY <1>2
  <2>4. QED
    BY <2>2, <2>3, ParentIs
<1>4. QED
  BY <1>2, <1>3

(* No link is on the way to a directory, nor to what is in it.             *)
LEMMA DirResolves ==
  ASSUME Sound(disk), NEW S, NEW p \in Seq(S), Dir(p)
  PROVE  Resolve(p) = Plain(Base, p)
<1> DEFINE Bad == {n \in 0..Len(p) : Resolve(Prefix(p, n)) # Plain(Base, Prefix(p, n))}
<1>0. Len(p) \in Nat /\ Prefix(p, Len(p)) = p /\ Prefix(p, 0) = <<>>
  BY PrefixesAre
<1>1. SUFFICES ASSUME Resolve(p) # Plain(Base, p) PROVE FALSE
  OBVIOUS
<1>2. Len(p) \in Bad /\ Bad \in SUBSET Nat
  BY <1>0, <1>1
<1>3. PICK n \in Bad : \A m \in Bad : n <= m
  BY <1>2, LeastIsThere
<1>4. n # 0
  BY <1>0, <1>3, RootIs
<1>5. n \in 1..Len(p) /\ n - 1 \in 0..Len(p) /\ ~(n <= n - 1)
  BY <1>0, <1>4
<1>6. n - 1 \notin Bad
  BY <1>3, <1>5
<1>7. PICK q \in Seq(S) : Resolve(q) = Plain(Base, q) /\ p[n] \in S /\ Prefix(p, n) = Append(q, p[n])
  <2>1. Prefix(p, n - 1) \in Seq(S) /\ p[n] \in S
    BY <1>5, PrefixIs
  <2>2. Prefix(p, n) = Append(Prefix(p, n - 1), p[n])
    BY <1>5, PrefixesAre
  <2>3. Resolve(Prefix(p, n - 1)) = Plain(Base, Prefix(p, n - 1))
    BY <1>5, <1>6
  <2>4. QED
    BY <2>1, <2>2, <2>3
<1>8. /\ Plain(Base, Append(q, p[n])) = Below(Plain(Base, q), p[n])
      /\ Resolve(Append(q, p[n])) = Followed(Resolve(q), p[n])
  BY <1>7, PlainStep, ResolveStep
<1>9. Dir(Prefix(p, n))
  <2>1. Plain(Base, p) # Nowhere
    BY DEF Dir, IsA
  <2>2. CASE n = Len(p)
    BY <1>0, <2>2
  <2>3. CASE n # Len(p)
    <3>1. n \in 0..Len(p) /\ n < Len(p)
      BY <1>5, <2>3
    <3>2. QED
      BY <2>1, <3>1, AboveIs
  <2>4. QED
    BY <2>2, <2>3
<1>10. ~IsA("link", Below(Plain(Base, q), p[n]))
  BY <1>7, <1>8, <1>9 DEF Dir, IsA
<1>11. Followed(Resolve(q), p[n]) = Below(Plain(Base, q), p[n])
  BY <1>7, <1>10 DEF Followed
<1>12. QED
  BY <1>3, <1>7, <1>8, <1>11

LEMMA ChildIs ==
  ASSUME Sound(disk), NEW S, NEW p \in Seq(S), NEW x \in S, Dir(p)
  PROVE  \E i \in DOMAIN disk.entries :
           /\ Plain(Base, p) = [inode |-> i, base |-> Base, path |-> p]
           /\ Entry(Append(p, x)) = Plain(Base, Append(p, x))
           /\ Resolve(Append(p, x)) = Followed(Plain(Base, p), x)
           /\ ~IsA("link", Plain(Base, Append(p, x))) => Resolve(Append(p, x)) = Plain(Base, Append(p, x))
           /\ x \notin DOMAIN disk.entries[i] => Plain(Base, Append(p, x)) = Nowhere
           /\ x \in DOMAIN disk.entries[i] =>
                /\ disk.entries[i][x] \in DOMAIN disk.nodes /\ disk.entries[i][x] # 0
                /\ Plain(Base, Append(p, x)) = [inode |-> disk.entries[i][x], base |-> Base, path |-> Append(p, x)]
                /\ Plain(Base, Append(p, x)) # Nowhere
<1>1. PICK i \in DOMAIN disk.entries : i # 0 /\ Plain(Base, p) = [inode |-> i, base |-> Base, path |-> p]
  BY DirIs
<1>2. Plain(Base, Append(p, x)) = Below(Plain(Base, p), x)
  BY PlainStep
<1>3. Resolve(p) = Plain(Base, p)
  BY DirResolves
<1>4. Resolve(Append(p, x)) = Followed(Plain(Base, p), x)
  BY <1>3, ResolveStep
<1>5. Entry(Append(p, x)) = Plain(Base, Append(p, x))
  <2>1. Append(p, x) # <<>> /\ Front(Append(p, x)) = p /\ Last(Append(p, x)) = x
    BY ExtendedIs
  <2>2. QED
    BY <1>2, <1>3, <2>1 DEF Entry
<1>6. ~IsA("link", Plain(Base, Append(p, x))) => Resolve(Append(p, x)) = Plain(Base, Append(p, x))
  BY <1>2, <1>4 DEF Followed
<1>7. x \notin DOMAIN disk.entries[i] => Plain(Base, Append(p, x)) = Nowhere
  BY <1>1, <1>2 DEF Below
<1>8. ASSUME x \in DOMAIN disk.entries[i]
      PROVE  /\ disk.entries[i][x] \in DOMAIN disk.nodes /\ disk.entries[i][x] # 0
             /\ Plain(Base, Append(p, x)) = [inode |-> disk.entries[i][x], base |-> Base, path |-> Append(p, x)]
             /\ Plain(Base, Append(p, x)) # Nowhere
  <2>1. disk.entries[i][x] \in DOMAIN disk.nodes /\ disk.entries[i][x] # 0
    BY <1>8 DEF Sound
  <2>2. IsA("directory", Plain(Base, p)) /\ Plain(Base, p).inode = i
    BY <1>1 DEF Dir
  <2>3. Plain(Base, Append(p, x)) = [inode |-> disk.entries[i][x], base |-> Base, path |-> Append(p, x)]
    BY <1>1, <1>2, <1>8, <2>2 DEF Below
  <2>4. Nowhere.inode = 0
    BY DEF Nowhere, From
  <2>5. QED
    BY <2>1, <2>3, <2>4
<1>9. QED
  BY <1>1, <1>4, <1>5, <1>6, <1>7, <1>8

-----------------------------------------------------------------------------
(* Where paths lead, while nothing changes. *)

LEMMA PlainSteps ==
  /\ \A b : Plain(b, <<>>) = From(b)
  /\ \A b : \A p \in Seq(Word), x \in Word : Plain(b, Append(p, x)) = Below(Plain(b, p), x)
  /\ Resolve(<<>>) = From(Base)
  /\ \A p \in Seq(Word), x \in Word : Resolve(Append(p, x)) = Followed(Resolve(p), x)
  BY PlainStep, ResolveStep

LEMMA PlainStepsNext ==
  (/\ \A b : Plain(b, <<>>) = From(b)
   /\ \A b : \A p \in Seq(Word), x \in Word : Plain(b, Append(p, x)) = Below(Plain(b, p), x)
   /\ Resolve(<<>>) = From(Base)
   /\ \A p \in Seq(Word), x \in Word : Resolve(Append(p, x)) = Followed(Resolve(p), x))'
  BY PlainSteps, PTL

LEMMA PlainStays ==
  ASSUME disk' = disk, NEW b, NEW p \in Seq(Word)
  PROVE  Plain(b, p)' = Plain(b, p)
<1> DEFINE Bad == {n \in 0..Len(p) : Plain(b, Prefix(p, n))' # Plain(b, Prefix(p, n))}
<1>0. Len(p) \in Nat /\ Prefix(p, Len(p)) = p /\ Prefix(p, 0) = <<>>
  BY PrefixesAre
<1>1. SUFFICES ASSUME Plain(b, p)' # Plain(b, p) PROVE FALSE
  OBVIOUS
<1>2. Len(p) \in Bad /\ Bad \in SUBSET Nat
  BY <1>0, <1>1
<1>3. PICK n \in Bad : \A m \in Bad : n <= m
  BY <1>2, LeastIsThere
<1>4. n # 0
  BY <1>0, <1>3, PlainSteps, PlainStepsNext DEF From
<1>5. n \in 1..Len(p) /\ n - 1 \in 0..Len(p) /\ ~(n <= n - 1)
  BY <1>0, <1>4
<1>6. n - 1 \notin Bad
  BY <1>3, <1>5
<1>7. PICK q \in Seq(Word) : Plain(b, q)' = Plain(b, q) /\ p[n] \in Word /\ Prefix(p, n) = Append(q, p[n])
  <2>1. Prefix(p, n - 1) \in Seq(Word) /\ p[n] \in Word
    BY <1>5, PrefixIs
  <2>2. Prefix(p, n) = Append(Prefix(p, n - 1), p[n])
    BY <1>5, PrefixesAre
  <2>3. Plain(b, Prefix(p, n - 1))' = Plain(b, Prefix(p, n - 1))
    BY <1>5, <1>6
  <2>4. QED
    BY <2>1, <2>2, <2>3
<1>8. Plain(b, Append(q, p[n])) = Below(Plain(b, q), p[n])
  BY <1>7, PlainSteps
<1>9. Plain(b, Append(q, p[n]))' = Below(Plain(b, q), p[n])'
  BY <1>7, PlainStepsNext
<1>10. Below(Plain(b, q), p[n])' = Below(Plain(b, q), p[n])
  BY <1>7 DEF Below, IsA, Kind
<1>11. QED
  BY <1>3, <1>7, <1>8, <1>9, <1>10

LEMMA ResolveStays ==
  ASSUME disk' = disk, Sound(disk), NEW p \in Seq(Word)
  PROVE  Resolve(p)' = Resolve(p)
<1> DEFINE Bad == {n \in 0..Len(p) : Resolve(Prefix(p, n))' # Resolve(Prefix(p, n))}
<1>0. Len(p) \in Nat /\ Prefix(p, Len(p)) = p /\ Prefix(p, 0) = <<>>
  BY PrefixesAre
<1>1. SUFFICES ASSUME Resolve(p)' # Resolve(p) PROVE FALSE
  OBVIOUS
<1>2. Len(p) \in Bad /\ Bad \in SUBSET Nat
  BY <1>0, <1>1
<1>3. PICK n \in Bad : \A m \in Bad : n <= m
  BY <1>2, LeastIsThere
<1>4. n # 0
  BY <1>0, <1>3, PlainSteps, PlainStepsNext DEF From
<1>5. n \in 1..Len(p) /\ n - 1 \in 0..Len(p) /\ ~(n <= n - 1)
  BY <1>0, <1>4
<1>6. n - 1 \notin Bad
  BY <1>3, <1>5
<1>7. PICK q \in Seq(Word), x \in Word : Resolve(q)' = Resolve(q) /\ Prefix(p, n) = Append(q, x)
  <2>1. Prefix(p, n - 1) \in Seq(Word) /\ p[n] \in Word
    BY <1>5, PrefixIs
  <2>2. Prefix(p, n) = Append(Prefix(p, n - 1), p[n])
    BY <1>5, PrefixesAre
  <2>3. Resolve(Prefix(p, n - 1))' = Resolve(Prefix(p, n - 1))
    BY <1>5, <1>6
  <2>4. QED
    BY <2>1, <2>2, <2>3
<1>8. Resolve(Append(q, x)) = Followed(Resolve(q), x)
  BY <1>7, PlainSteps
<1>9. Resolve(Append(q, x))' = Followed(Resolve(q), x)'
  BY <1>7, PlainStepsNext
<1>10. Below(Resolve(q), x)' = Below(Resolve(q), x)
  BY <1>7 DEF Below, IsA, Kind
<1>11. PICK next, to : next = Below(Resolve(q), x) /\ to = disk.nodes[next.inode].to
  OBVIOUS
<1>12. Followed(Resolve(q), x) = IF IsA("link", next) THEN Plain(to.base, to.path) ELSE next
  BY <1>11 DEF Followed
<1>13. Followed(Resolve(q), x)' = IF IsA("link", next) THEN Plain(to.base, to.path)' ELSE next
  BY <1>10, <1>11 DEF Followed, IsA, Kind
<1>14. IsA("link", next) => to.path \in Seq(Word)
  <2>1. SUFFICES ASSUME IsA("link", next) PROVE to.path \in Seq(Word)
    OBVIOUS
  <2>2. next # Nowhere /\ Kind(next.inode) = "link"
    BY <2>1 DEF IsA
  <2>3. /\ Resolve(q) # Nowhere /\ Kind(Resolve(q).inode) = "directory"
        /\ x \in DOMAIN disk.entries[Resolve(q).inode]
        /\ next.inode = disk.entries[Resolve(q).inode][x]
    BY <1>11, <2>2 DEF Below, IsA
  <2>4. PICK b, r : b = Resolve(q).base /\ r = Resolve(q).path
    OBVIOUS
  <2>5. b \in DOMAIN disk.nodes /\ r \in Seq(Word \cup STRING) /\ Resolve(q) = Plain(b, r)
    BY <2>3, <2>4, ResolvePlace DEF PlacedIn
  <2>6. Resolve(q).inode \in DOMAIN disk.nodes
    BY <2>3, <2>5, PlainPlace
  <2>7. Resolve(q).inode \in DOMAIN disk.entries
    BY <2>3, <2>6 DEF Sound, Kind
  <2>8. next.inode \in DOMAIN disk.nodes
    BY <2>3, <2>7 DEF Sound
  <2>9. to.path \in Seq(STRING)
    BY <1>11, <2>2, <2>8 DEF Sound, Kind
  <2>10. STRING \subseteq Word
    BY DEF Word
  <2>11. QED
    BY <2>9, <2>10, SeqMonotonic
<1>15. IsA("link", next) => Plain(to.base, to.path)' = Plain(to.base, to.path)
  <2>1. PICK b, r : b = to.base /\ r = to.path
    OBVIOUS
  <2>2. IsA("link", next) => Plain(b, r)' = Plain(b, r)
    BY <1>14, <2>1, PlainStays
  <2>3. QED
    BY <2>1, <2>2
<1>16. QED
  BY <1>3, <1>7, <1>8, <1>9, <1>12, <1>13, <1>15

LEMMA Unmoved ==
  ASSUME disk' = disk, Sound(disk), NEW p \in Seq(Word)
  PROVE  /\ Dir(p)' = Dir(p) /\ File(p)' = File(p)
         /\ PatternsAt(p)' = PatternsAt(p)
         /\ HasGit(p)' = HasGit(p)
<1>1. Plain(Base, p)' = Plain(Base, p) /\ Resolve(p)' = Resolve(p)
  BY PlainStays, ResolveStays
<1>2. Dir(p)' = Dir(p) /\ File(p)' = File(p)
  BY <1>1 DEF Dir, File, IsA, Kind
<1>3. PatternsAt(p)' = PatternsAt(p)
  BY <1>1 DEF PatternsAt, IsA, Kind
<1>4. HasGit(p)' = HasGit(p)
  <2>1. ".git" \in Word
    BY DEF Word
  <2>2. PICK q \in Seq(Word) : q = Append(p, ".git")
    BY <2>1, ExtendedIs
  <2>3. Plain(Base, q)' = Plain(Base, q)
    BY PlainStays
  <2>4. QED
    BY <2>2, <2>3 DEF HasGit, IsA, Kind
<1>5. QED
  BY <1>2, <1>3, <1>4

-----------------------------------------------------------------------------
(* Rules. *)

LEMMA MinIs ==
  ASSUME NEW S \in SUBSET Nat, S # {}
  PROVE  Min(S) \in S /\ \A x \in S : Min(S) <= x
<1>1. \E x \in S : \A y \in S : x <= y
  BY LeastIsThere
<1>2. QED
  BY <1>1 DEF Min

LEMMA NoRules == \A x : Decides(<<>>, x) = "no" /\ Chain(<<>>, x) = "no"
<1>1. TAKE x
<1>2. DOMAIN <<>> = {}
  OBVIOUS
<1>3. QED
  BY <1>2 DEF Decides, Chain

LEMMA OneFile == \A f, x : Chain(<<f>>, x) = Decides(f, x)
<1>1. TAKE f, x
<1> DEFINE D == {i \in DOMAIN <<f>> : Decides(<<f>>[i], x) # "no"}
<1>2. Chain(<<f>>, x) = IF D = {} THEN "no" ELSE Decides(<<f>>[Max(D)], x)
  BY DEF Chain
<1>3. D = IF Decides(f, x) # "no" THEN {1} ELSE {}
  OBVIOUS
<1>4. Max({1}) = 1
  BY MaxIs
<1> HIDE DEF D
<1>5. CASE Decides(f, x) # "no"
  BY <1>2, <1>3, <1>4, <1>5
<1>6. CASE Decides(f, x) = "no"
  BY <1>2, <1>3, <1>6
<1>7. QED
  BY <1>5, <1>6

LEMMA ChainStep ==
  ASSUME NEW S, NEW files \in Seq(S), NEW f \in S, NEW x
  PROVE  Chain(Append(files, f), x) = IF Decides(f, x) # "no" THEN Decides(f, x) ELSE Chain(files, x)
<1> DEFINE all == Append(files, f)
           D == {i \in DOMAIN all : Decides(all[i], x) # "no"}
           C == {i \in DOMAIN files : Decides(files[i], x) # "no"}
<1>1. /\ Len(files) \in Nat /\ DOMAIN files = 1..Len(files) /\ DOMAIN all = 1..(Len(files) + 1)
      /\ all[Len(files) + 1] = f /\ \A i \in 1..Len(files) : all[i] = files[i]
  BY AppendProperties
<1>2. Chain(all, x) = IF D = {} THEN "no" ELSE Decides(all[Max(D)], x)
  BY DEF Chain
<1>3. Chain(files, x) = IF C = {} THEN "no" ELSE Decides(files[Max(C)], x)
  BY DEF Chain
<1>4. CASE Decides(f, x) # "no"
  <2>1. Len(files) + 1 \in D /\ D \in SUBSET Nat /\ \A i \in D : i <= Len(files) + 1
    BY <1>1, <1>4
  <2> HIDE DEF D
  <2>2. Max(D) \in D /\ \A i \in D : i <= Max(D)
    BY <1>1, <2>1, MaxIs
  <2>a. PICK m \in Nat : m = Max(D) /\ m \in D
    BY <2>1, <2>2
  <2>3. Max(D) = Len(files) + 1
    <3>1. m <= Len(files) + 1 /\ Len(files) + 1 <= m
      BY <2>1, <2>2, <2>a
    <3>2. QED
      BY <1>1, <2>a, <3>1
  <2>4. D # {}
    BY <2>1
  <2>5. Chain(all, x) = Decides(all[Len(files) + 1], x)
    BY <1>2, <2>3, <2>4
  <2>6. QED
    BY <1>1, <1>4, <2>5
<1>5. CASE Decides(f, x) = "no"
  <2>1. D = C
    BY <1>1, <1>5
  <2>2. C # {} => Max(C) \in C
    <3>1. C \in SUBSET Nat /\ \A i \in C : i <= Len(files)
      BY <1>1
    <3> HIDE DEF C
    <3>2. QED
      BY <1>1, <3>1, MaxIs
  <2>3. C # {} => all[Max(C)] = files[Max(C)]
    BY <1>1, <2>2
  <2>4. Chain(all, x) = Chain(files, x)
    <3> HIDE DEF C, D, all
    <3>1. CASE C = {}
      BY <1>2, <1>3, <2>1, <3>1
    <3>2. CASE C # {}
      BY <1>2, <1>3, <2>1, <2>3, <3>2
    <3>3. QED
      BY <3>1, <3>2
  <2>5. QED
    BY <1>5, <2>4
<1>6. QED
  BY <1>4, <1>5

(* What the rule files of some directories above an entry decide of it, the *)
(* nearest first, and in which repository it is.                           *)
Says(p, n, file, x) == Decides(PatternsAt(Prefix(p, n) \o file), x)
Upto(p, from, k, file, x) ==
  LET deciding == {n \in from..k : Says(p, n, file, x) # "no"}
  IN  IF deciding = {} THEN "no" ELSE Says(p, Max(deciding), file, x)
Home(p) == Max({0} \cup {n \in 0..Len(p) : HasGit(Prefix(p, n))})

LEMMA UptoStep ==
  ASSUME NEW p, NEW from \in Nat, NEW k \in Int, NEW file, NEW x
  PROVE  /\ k < from => Upto(p, from, k, file, x) = "no"
         /\ from <= k => Upto(p, from, k, file, x)
                           = IF Says(p, k, file, x) # "no" THEN Says(p, k, file, x) ELSE Upto(p, from, k - 1, file, x)
<1> DEFINE D == {n \in from..k : Says(p, n, file, x) # "no"}
           C == {n \in from..(k - 1) : Says(p, n, file, x) # "no"}
<1>1. Upto(p, from, k, file, x) = IF D = {} THEN "no" ELSE Says(p, Max(D), file, x)
  BY DEF Upto
<1>2. Upto(p, from, k - 1, file, x) = IF C = {} THEN "no" ELSE Says(p, Max(C), file, x)
  BY DEF Upto
<1>3. k < from => D = {}
  OBVIOUS
<1>4. CASE from <= k /\ Says(p, k, file, x) # "no"
  <2>1. k \in D /\ D \in SUBSET Nat /\ k \in Nat /\ \A n \in D : n <= k
    BY <1>4
  <2> HIDE DEF D
  <2>2. Max(D) \in D /\ \A n \in D : n <= Max(D)
    BY <2>1, MaxIs
  <2>a. PICK m \in Nat : m = Max(D) /\ m \in D
    BY <2>1, <2>2
  <2>3. Max(D) = k
    <3>1. m <= k /\ k <= m
      BY <2>1, <2>2, <2>a
    <3>2. QED
      BY <2>1, <2>a, <3>1
  <2>4. QED
    BY <1>1, <1>4, <2>1, <2>3
<1>5. CASE from <= k /\ Says(p, k, file, x) = "no"
  <2>1. D = C
    BY <1>5
  <2> HIDE DEF C, D
  <2>2. QED
    BY <1>1, <1>2, <1>5, <2>1
<1>6. QED
  BY <1>1, <1>3, <1>4, <1>5

LEMMA UptoSame ==
  ASSUME NEW p, NEW q, NEW from \in Nat, NEW k \in Int, NEW file, NEW x,
         \A n \in from..k : Says(p, n, file, x) = Says(q, n, file, x)
  PROVE  Upto(p, from, k, file, x) = Upto(q, from, k, file, x)
<1> DEFINE D == {n \in from..k : Says(p, n, file, x) # "no"}
           C == {n \in from..k : Says(q, n, file, x) # "no"}
<1>1. D = C
  OBVIOUS
<1>2. CASE D = {}
  BY <1>1, <1>2 DEF Upto
<1>3. CASE D # {}
  <2>1. D \in SUBSET Nat /\ k \in Nat /\ \A n \in D : n <= k
    BY <1>3
  <2>2. Upto(p, from, k, file, x) = Says(p, Max(D), file, x)
    BY <1>3 DEF Upto
  <2>3. Upto(q, from, k, file, x) = Says(q, Max(C), file, x)
    BY <1>1, <1>3 DEF Upto
  <2>4. Max(D) \in D
    <3> HIDE DEF D
    <3>1. QED
      BY <1>3, <2>1, MaxIs
  <2>5. Says(p, Max(D), file, x) = Says(q, Max(D), file, x)
    BY <2>4
  <2> HIDE DEF C, D
  <2>6. QED
    BY <1>1, <2>2, <2>3, <2>5
<1>4. QED
  BY <1>2, <1>3

LEMMA HomeIs ==
  ASSUME NEW S, NEW p \in Seq(S)
  PROVE  /\ Home(p) \in 0..Len(p)
         /\ HasGit(p) => Home(p) = Len(p)
         /\ p = <<>> => Home(p) = 0
         /\ \A x \in S : ~HasGit(Append(p, x)) => Home(Append(p, x)) = Home(p)
<1> DEFINE H == {0} \cup {n \in 0..Len(p) : HasGit(Prefix(p, n))}
<1>0. Len(p) \in Nat
  OBVIOUS
<1>1. H \in SUBSET Nat /\ H # {} /\ \A n \in H : n <= Len(p)
  BY <1>0
<1>2. Home(p) = Max(H)
  BY DEF Home
<1>3. Max(H) \in H /\ \A n \in H : n <= Max(H)
  <2> HIDE DEF H
  <2>1. QED
    BY <1>0, <1>1, MaxIs
<1>4. Home(p) \in 0..Len(p)
  BY <1>0, <1>2, <1>3
<1>5. ASSUME HasGit(p) PROVE Home(p) = Len(p)
  <2>1. Len(p) \in H
    BY <1>0, <1>5, PrefixesAre
  <2>2. QED
    BY <1>0, <1>2, <1>3, <1>4, <2>1
<1>6. p = <<>> => Home(p) = 0
  BY <1>4, EmptySeq
<1>7. ASSUME NEW x \in S, ~HasGit(Append(p, x)) PROVE Home(Append(p, x)) = Home(p)
  <2> DEFINE q == Append(p, x)
             G == {0} \cup {n \in 0..Len(q) : HasGit(Prefix(q, n))}
  <2>1. q \in Seq(S) /\ Len(q) = Len(p) + 1 /\ \A n \in 0..Len(p) : Prefix(q, n) = Prefix(p, n)
    BY ExtendedIs
  <2>2. ~HasGit(Prefix(q, Len(q)))
    BY <1>7, <2>1, PrefixesAre
  <2>3. G = H
    BY <1>0, <2>1, <2>2
  <2>4. Home(q) = Max(G)
    BY DEF Home
  <2>5. QED
    BY <1>2, <2>3, <2>4
<1>8. QED
  BY <1>4, <1>5, <1>6, <1>7

(* The same for an entry of a directory.                                   *)
Dotted(p, x) == Upto(p, 0, Len(p), ignore, x)
Gitted(p, x) == Upto(p, Home(p), Len(p), gitignore, x)
Barred(p, x) == Excludes(Prefix(p, Home(p)), x)
RuledOut(p, x) ==
  IF Dotted(p, x) # "no" THEN Dotted(p, x) = "ignore"
  ELSE IF Gitted(p, x) # "no" THEN Gitted(p, x) = "ignore"
  ELSE Barred(p, x) = "ignore"

LEMMA NearestIs ==
  ASSUME NEW p \in Seq(Word), NEW x \in Word, NEW from \in Nat, NEW file
  PROVE  Nearest(Append(p, x), from, file) = Upto(p, from, Len(p), file, x)
<1> DEFINE q == Append(p, x)
           D == {n \in from..(Len(q) - 1) : Decides(PatternsAt(Prefix(q, n) \o file), Last(q)) # "no"}
           C == {n \in from..Len(p) : Says(p, n, file, x) # "no"}
<1>1. Len(q) = Len(p) + 1 /\ Last(q) = x /\ Len(p) \in Nat /\ \A n \in 0..Len(p) : Prefix(q, n) = Prefix(p, n)
  BY ExtendedIs
<1>2. \A n \in from..Len(p) : Decides(PatternsAt(Prefix(q, n) \o file), Last(q)) = Says(p, n, file, x)
  BY <1>1 DEF Says
<1>3. D = C
  BY <1>1, <1>2
<1>4. Nearest(q, from, file) = IF D = {} THEN "no" ELSE Decides(PatternsAt(Prefix(q, Max(D)) \o file), Last(q))
  BY DEF Nearest
<1>5. Upto(p, from, Len(p), file, x) = IF C = {} THEN "no" ELSE Says(p, Max(C), file, x)
  BY DEF Upto
<1>6. C # {} => Max(C) \in C
  <2>1. C \in SUBSET Nat /\ \A n \in C : n <= Len(p)
    BY <1>1
  <2> HIDE DEF C
  <2>2. QED
    BY <1>1, <2>1, MaxIs
<1>7. C # {} => Decides(PatternsAt(Prefix(q, Max(C)) \o file), Last(q)) = Says(p, Max(C), file, x)
  BY <1>2, <1>6
<1> HIDE DEF C, D
<1>8. QED
  BY <1>3, <1>4, <1>5, <1>7

LEMMA RepositoryIs ==
  ASSUME NEW p \in Seq(Word), NEW x \in Word
  PROVE  Repository(Append(p, x)) = Home(p)
<1> DEFINE q == Append(p, x)
<1>1. Len(q) = Len(p) + 1 /\ Len(p) \in Nat /\ \A n \in 0..Len(p) : Prefix(q, n) = Prefix(p, n)
  BY ExtendedIs
<1>2. {n \in 0..(Len(q) - 1) : HasGit(Prefix(q, n))} = {n \in 0..Len(p) : HasGit(Prefix(p, n))}
  BY <1>1
<1>3. QED
  BY <1>2 DEF Repository, Home

LEMMA LeftOutIs ==
  \A p \in Seq(Word), x \in Word : LeftOut(Append(p, x)) <=> x \in Excluded \/ RuledOut(p, x)
<1>1. TAKE p \in Seq(Word), x \in Word
<1> DEFINE q == Append(p, x)
           rules == <<Dotted(p, x), Gitted(p, x), Barred(p, x)>>
           deciding == {i \in DOMAIN rules : rules[i] # "no"}
<1>2. Last(q) = x /\ Len(p) \in Nat /\ \A n \in 0..Len(p) : Prefix(q, n) = Prefix(p, n)
  BY ExtendedIs
<1>3. Repository(q) = Home(p) /\ Home(p) \in 0..Len(p)
  BY RepositoryIs, HomeIs
<1>4. /\ Nearest(q, 0, ignore) = Dotted(p, x)
      /\ Nearest(q, Repository(q), gitignore) = Gitted(p, x)
      /\ Excludes(Prefix(q, Repository(q)), Last(q)) = Barred(p, x)
  <2>1. Home(p) \in Nat
    BY <1>2, <1>3
  <2>2. Nearest(q, 0, ignore) = Dotted(p, x)
    BY NearestIs DEF Dotted
  <2>3. Nearest(q, Home(p), gitignore) = Gitted(p, x)
    BY <2>1, NearestIs DEF Gitted
  <2>4. QED
    BY <1>2, <1>3, <2>2, <2>3 DEF Barred
<1>5. LeftOut(q) <=> Last(q) \in Excluded \/ (deciding # {} /\ rules[Min(deciding)] = "ignore")
  BY <1>4 DEF LeftOut
<1>6. DOMAIN rules = 1..3 /\ rules[1] = Dotted(p, x) /\ rules[2] = Gitted(p, x) /\ rules[3] = Barred(p, x)
  OBVIOUS
<1>7. deciding \in SUBSET Nat
  BY <1>6
<1>8. deciding # {} => Min(deciding) \in deciding /\ \A i \in deciding : Min(deciding) <= i
  <2> HIDE DEF deciding
  <2>1. QED
    BY <1>7, MinIs
<1>9. (deciding # {} /\ rules[Min(deciding)] = "ignore") <=> RuledOut(p, x)
  <2>1. \A i : i \in deciding <=> i \in 1..3 /\ rules[i] # "no"
    BY <1>6
  <2> HIDE DEF deciding, rules
  <2>2. CASE Dotted(p, x) # "no"
    <3>1. 1 \in deciding
      BY <1>6, <2>1, <2>2
    <3>2. Min(deciding) = 1
      BY <1>8, <2>1, <3>1
    <3>3. QED
      BY <1>6, <2>2, <3>1, <3>2 DEF RuledOut
  <2>3. CASE Dotted(p, x) = "no" /\ Gitted(p, x) # "no"
    <3>1. 2 \in deciding /\ 1 \notin deciding
      BY <1>6, <2>1, <2>3
    <3>2. Min(deciding) = 2
      BY <1>8, <2>1, <3>1
    <3>3. QED
      BY <1>6, <2>3, <3>1, <3>2 DEF RuledOut
  <2>4. CASE Dotted(p, x) = "no" /\ Gitted(p, x) = "no"
    <3>1. 1 \notin deciding /\ 2 \notin deciding
      BY <1>6, <2>1, <2>4
    <3>2. deciding # {} => Min(deciding) = 3
      BY <1>8, <2>1, <3>1
    <3>3. deciding # {} <=> Barred(p, x) # "no"
      BY <1>6, <2>1, <3>1
    <3>4. QED
      BY <1>6, <2>4, <3>2, <3>3 DEF RuledOut
  <2>5. QED
    BY <2>2, <2>3, <2>4
<1>10. QED
  BY <1>2, <1>5, <1>9

LEMMA LeftOutNext ==
  (\A p \in Seq(Word), x \in Word : LeftOut(Append(p, x)) <=> x \in Excluded \/ RuledOut(p, x))'
  BY LeftOutIs, PTL

(* When the matchers of a directory say the same.                          *)
LEMMA IgnoredIs ==
  ASSUME NEW p, NEW x, NEW m,
         Chain(m.dot, x) = Dotted(p, x), Chain(m.git, x) = Gitted(p, x), Chain(m.exclude, x) = Barred(p, x)
  PROVE  Ignored(m, x) <=> RuledOut(p, x)
  BY DEF Ignored, RuledOut

(* What is to be found stays the same while nothing changes.               *)
Good(p) == \A n \in 1..Len(p) : ~LeftOut(Prefix(p, n))
Target(p) == File(p) /\ Good(p) /\ Len(p) <= Limits.depth + 1 /\ Selects(Language(p, Plain(Base, p)), p)

LEMMA RuleFiles == exclude \in Seq(Word) /\ gitignore \in Seq(Word) /\ ignore \in Seq(Word)
<1>1. ".git" \in Word /\ "info" \in Word /\ "exclude" \in Word /\ ".gitignore" \in Word /\ ".ignore" \in Word
  BY DEF Word
<1> HIDE DEF Word
<1>2. QED
  BY <1>1 DEF exclude, gitignore, ignore

LEMMA UptoStays ==
  ASSUME disk' = disk, Sound(disk), NEW p \in Seq(Word), NEW from \in Nat, NEW k \in Int, k <= Len(p),
         NEW file \in Seq(Word), NEW x
  PROVE  Upto(p, from, k, file, x)' = Upto(p, from, k, file, x)
<1>1. ASSUME NEW n \in from..k PROVE Says(p, n, file, x)' = Says(p, n, file, x)
  <2>1. n \in 0..Len(p)
    OBVIOUS
  <2>2. Prefix(p, n) \o file \in Seq(Word)
    BY <2>1, PrefixIs, ConcatProperties
  <2>3. PICK q \in Seq(Word) : q = Prefix(p, n) \o file
    BY <2>2
  <2>4. PatternsAt(q)' = PatternsAt(q)
    BY Unmoved
  <2>5. QED
    BY <2>3, <2>4 DEF Says, Decides
<1>2. PICK D : D = {n \in from..k : Says(p, n, file, x) # "no"}
  OBVIOUS
<1>3. D = {n \in from..k : Says(p, n, file, x)' # "no"}
  BY <1>1, <1>2
<1>4. Upto(p, from, k, file, x) = IF D = {} THEN "no" ELSE Says(p, Max(D), file, x)
  BY <1>2 DEF Upto
<1>5. Upto(p, from, k, file, x)' = IF D = {} THEN "no" ELSE Says(p, Max(D), file, x)'
  BY <1>3 DEF Upto
<1>6. D # {} => Max(D) \in D
  <2>1. D \in SUBSET Nat /\ \A n \in D : n <= k
    BY <1>2
  <2>2. D # {} => k \in Nat
    BY <1>2
  <2>3. QED
    BY <2>1, <2>2, MaxIs
<1>7. D # {} => Says(p, Max(D), file, x)' = Says(p, Max(D), file, x)
  <2>1. SUFFICES ASSUME D # {} PROVE Says(p, Max(D), file, x)' = Says(p, Max(D), file, x)
    OBVIOUS
  <2>2. PICK m \in from..k : m = Max(D)
    BY <1>2, <1>6, <2>1
  <2>3. QED
    BY <1>1, <2>2
<1>8. CASE D = {}
  BY <1>4, <1>5, <1>8
<1>9. CASE D # {}
  BY <1>4, <1>5, <1>7, <1>9
<1>10. QED
  BY <1>8, <1>9

LEMMA RulesStay ==
  ASSUME disk' = disk, Sound(disk), NEW p \in Seq(Word)
  PROVE  /\ Home(p)' = Home(p)
         /\ \A x : Dotted(p, x)' = Dotted(p, x) /\ Gitted(p, x)' = Gitted(p, x) /\ Barred(p, x)' = Barred(p, x)
<1>0. Len(p) \in Nat /\ Home(p) \in 0..Len(p) /\ Home(p) \in Nat
  BY HomeIs
<1>1. \A n \in 0..Len(p) : Prefix(p, n) \in Seq(Word) /\ HasGit(Prefix(p, n))' = HasGit(Prefix(p, n))
  <2>1. TAKE n \in 0..Len(p)
  <2>2. PICK q \in Seq(Word) : q = Prefix(p, n)
    BY PrefixIs
  <2>3. QED
    BY <2>2, Unmoved
<1>2. Home(p)' = Home(p)
  <2>1. {n \in 0..Len(p) : HasGit(Prefix(p, n))'} = {n \in 0..Len(p) : HasGit(Prefix(p, n))}
    BY <1>1
  <2>2. Home(p)' = Max({0} \cup {n \in 0..Len(p) : HasGit(Prefix(p, n))'})
    BY DEF Home
  <2>3. QED
    BY <2>1, <2>2 DEF Home
<1>3. ASSUME NEW x
      PROVE  Dotted(p, x)' = Dotted(p, x) /\ Gitted(p, x)' = Gitted(p, x) /\ Barred(p, x)' = Barred(p, x)
  <2>1. Dotted(p, x)' = Dotted(p, x)
    BY <1>0, RuleFiles, UptoStays DEF Dotted
  <2>2. PICK h \in Nat : h = Home(p)
    BY <1>0
  <2>3. Upto(p, h, Len(p), gitignore, x)' = Upto(p, h, Len(p), gitignore, x)
    BY <1>0, RuleFiles, UptoStays
  <2>4. Gitted(p, x)' = Gitted(p, x)
    BY <1>2, <2>2, <2>3 DEF Gitted
  <2>5. PICK q \in Seq(Word) : q = Prefix(p, h)
    BY <1>0, <1>1, <2>2
  <2>6. HasGit(q)' = HasGit(q)
    BY Unmoved
  <2>7. q \o exclude \in Seq(Word)
    BY RuleFiles, ConcatProperties
  <2>8. PICK r \in Seq(Word) : r = q \o exclude
    BY <2>7
  <2>9. PatternsAt(r)' = PatternsAt(r)
    BY Unmoved
  <2>10. Excludes(q, x)' = Excludes(q, x)
    BY <2>6, <2>8, <2>9 DEF Excludes
  <2>11. Barred(p, x)' = Barred(p, x)
    BY <1>2, <2>2, <2>5, <2>10 DEF Barred
  <2>12. QED
    BY <2>1, <2>4, <2>11
<1>4. QED
  BY <1>2, <1>3

LEMMA GoodStays ==
  ASSUME disk' = disk, Sound(disk), NEW p \in Seq(Word)
  PROVE  Good(p)' = Good(p)
<1>1. ASSUME NEW n \in 1..Len(p) PROVE LeftOut(Prefix(p, n))' = LeftOut(Prefix(p, n))
  <2>a. n - 1 \in 0..Len(p) /\ p[n] \in Word
    OBVIOUS
  <2>b. Prefix(p, n - 1) \in Seq(Word)
    BY <2>a, PrefixIs
  <2>c. Prefix(p, n) = Append(Prefix(p, n - 1), p[n])
    BY PrefixesAre
  <2>1. Prefix(p, n - 1) \in Seq(Word) /\ p[n] \in Word /\ Prefix(p, n) = Append(Prefix(p, n - 1), p[n])
    BY <2>a, <2>b, <2>c
  <2>2. PICK q \in Seq(Word), x \in Word : Prefix(p, n) = Append(q, x)
    BY <2>1
  <2>3. RuledOut(q, x)' = RuledOut(q, x)
    BY RulesStay DEF RuledOut
  <2>4. LeftOut(Append(q, x))' = LeftOut(Append(q, x))
    <3>1. LeftOut(Append(q, x)) <=> x \in Excluded \/ RuledOut(q, x)
      BY LeftOutIs
    <3>2. LeftOut(Append(q, x))' <=> x \in Excluded \/ RuledOut(q, x)'
      BY LeftOutNext
    <3>3. (LeftOut(Append(q, x))' \in BOOLEAN) /\ (LeftOut(Append(q, x)) \in BOOLEAN)
      BY DEF LeftOut
    <3>4. QED
      BY <2>3, <3>1, <3>2, <3>3
  <2>5. QED
    BY <2>2, <2>4
<1>2. QED
  BY <1>1 DEF Good

LEMMA TargetStays ==
  ASSUME disk' = disk, options' = options, Sound(disk), NEW p \in Seq(Word)
  PROVE  Target(p)' = Target(p) /\ Language(p, Plain(Base, p))' = Language(p, Plain(Base, p))
<1>1. Plain(Base, p)' = Plain(Base, p) /\ File(p)' = File(p) /\ Good(p)' = Good(p)
  BY PlainStays, Unmoved, GoodStays
<1>2. Language(p, Plain(Base, p))' = Language(p, Plain(Base, p))
  BY <1>1 DEF Language, IsA, Kind
<1>3. PICK l : l = Language(p, Plain(Base, p))
  OBVIOUS
<1>4. Selects(l, p)' = Selects(l, p)
  BY DEF Selects
<1>5. Selects(Language(p, Plain(Base, p)), p)' = Selects(Language(p, Plain(Base, p)), p)
  BY <1>2, <1>3, <1>4 DEF Selects
<1>6. QED
  BY <1>1, <1>2, <1>5 DEF Target

-----------------------------------------------------------------------------
(* Sequences. *)

Sequence(s) == \E S : s \in Seq(S)

LEMMA SequenceIs ==
  ASSUME NEW s, Sequence(s)
  PROVE  /\ Len(s) \in Nat /\ DOMAIN s = 1..Len(s) /\ (s # <<>> => 1 \in DOMAIN s) /\ (s = <<>> <=> Len(s) = 0)
         /\ \E S : s \in Seq(S)
<1>1. PICK S : s \in Seq(S)
  BY DEF Sequence
<1>2. Len(s) \in Nat /\ DOMAIN s = 1..Len(s)
  BY <1>1, LenProperties
<1>3. s # <<>> => Len(s) # 0
  BY <1>1, EmptySeq
<1>4. QED
  BY <1>1, <1>2, <1>3, EmptySeq

LEMMA NoneIs == Sequence(<<>>) /\ Len(<<>>) = 0 /\ DOMAIN <<>> = {}
  BY EmptySeq DEF Sequence

LEMMA AppendedIs ==
  ASSUME NEW s, Sequence(s), NEW x
  PROVE  /\ Sequence(Append(s, x)) /\ Len(Append(s, x)) = Len(s) + 1
         /\ Append(s, x)[Len(s) + 1] = x /\ \A i \in 1..Len(s) : Append(s, x)[i] = s[i]
<1>1. PICK S : s \in Seq(S)
  BY DEF Sequence
<1>2. PICK T : T = S \cup {x}
  OBVIOUS
<1>3. s \in Seq(T) /\ x \in T
  BY <1>1, <1>2, SeqMonotonic
<1>4. /\ Append(s, x) \in Seq(T) /\ Len(Append(s, x)) = Len(s) + 1
      /\ Append(s, x)[Len(s) + 1] = x /\ \A i \in 1..Len(s) : Append(s, x)[i] = s[i]
  BY <1>3, AppendProperties
<1>5. QED
  BY <1>4 DEF Sequence

LEMMA TailIs ==
  ASSUME NEW s, Sequence(s), s # <<>>
  PROVE  Sequence(Tail(s)) /\ Len(Tail(s)) = Len(s) - 1 /\ \A i \in 1..(Len(s) - 1) : Tail(s)[i] = s[i + 1]
<1>1. PICK S : s \in Seq(S)
  BY DEF Sequence
<1>2. Tail(s) \in Seq(S) /\ Len(Tail(s)) = Len(s) - 1 /\ \A i \in 1..Len(Tail(s)) : Tail(s)[i] = s[i + 1]
  BY <1>1, HeadTailProperties
<1>3. QED
  BY <1>2 DEF Sequence

LEMMA FrontIs ==
  ASSUME NEW s, Sequence(s), s # <<>>
  PROVE  /\ Sequence(Front(s)) /\ Len(Front(s)) = Len(s) - 1 /\ \A i \in 1..(Len(s) - 1) : Front(s)[i] = s[i]
         /\ Last(s) = s[Len(s)] /\ Len(s) \in DOMAIN s
<1>1. PICK S : s \in Seq(S)
  BY DEF Sequence
<1>2. Len(s) \in Nat /\ Len(s) # 0 /\ DOMAIN s = 1..Len(s)
  BY SequenceIs
<1>3. Front(s) = Prefix(s, Len(s) - 1)
  BY DEF Front, Prefix
<1>4. Len(s) - 1 \in 0..Len(s)
  BY <1>2
<1>5. Front(s) \in Seq(S) /\ Len(Front(s)) = Len(s) - 1 /\ \A i \in 1..(Len(s) - 1) : Front(s)[i] = s[i]
  BY <1>1, <1>3, <1>4, PrefixIs
<1>6. QED
  BY <1>2, <1>5 DEF Sequence, Last

LEMMA JoinedIs ==
  ASSUME NEW s, Sequence(s), NEW t, Sequence(t)
  PROVE  /\ Sequence(s \o t) /\ Len(s \o t) = Len(s) + Len(t)
         /\ \A i \in 1..Len(s) : (s \o t)[i] = s[i]
         /\ \A i \in 1..Len(t) : (s \o t)[Len(s) + i] = t[i]
<1>1. PICK S, T : s \in Seq(S) /\ t \in Seq(T)
  BY DEF Sequence
<1>2. PICK U : U = S \cup T
  OBVIOUS
<1>3. s \in Seq(U) /\ t \in Seq(U) /\ Len(s) \in Nat /\ Len(t) \in Nat
  BY <1>1, <1>2, SeqMonotonic
<1>4. /\ s \o t \in Seq(U) /\ Len(s \o t) = Len(s) + Len(t)
      /\ \A i \in 1..Len(s) + Len(t) : (s \o t)[i] = IF i <= Len(s) THEN s[i] ELSE t[i - Len(s)]
  BY <1>3, ConcatProperties
<1>5. \A i \in 1..Len(t) : (s \o t)[Len(s) + i] = t[i]
  BY <1>3, <1>4
<1>6. QED
  BY <1>3, <1>4, <1>5 DEF Sequence

LEMMA ListIs ==
  ASSUME NEW n \in Nat, NEW s, s = [i \in 1..n |-> s[i]]
  PROVE  Sequence(s) /\ Len(s) = n
<1>1. PICK S : S = {s[i] : i \in 1..n}
  OBVIOUS
<1>2. s \in [1..n -> S]
  BY <1>1
<1>3. s \in Seq(S)
  BY <1>2
<1>4. QED
  BY <1>2, <1>3 DEF Sequence

-----------------------------------------------------------------------------
(* The invariant: what the walk keeps, whatever changes. *)

IsMatchers(m) ==
  m = [dot |-> m.dot, git |-> m.git, exclude |-> m.exclude] /\ Sequence(m.dot) /\ Sequence(m.git)
IsTask(t) ==
  /\ t = [path |-> t.path, depth |-> t.depth, matchers |-> t.matchers, step |-> t.step]
  /\ t.path \in Seq(AllNames) /\ t.depth = Len(t.path) /\ Len(t.path) <= Limits.depth
  /\ IsMatchers(t.matchers)
IsReading(r) ==
  /\ r = [path |-> r.path, step |-> r.step, canonical |-> r.canonical, expected |-> r.expected,
          descriptor |-> r.descriptor, opened |-> r.opened]
  /\ r.canonical \in Seq(Word) /\ r.opened \in Nat
  /\ r.step \in {"none", "exists", "resolve", "regular", "inspect", "open", "opened", "read"}
  /\ r.step = "none" => r = NoReading
  /\ r.step \in {"exists", "resolve", "regular", "inspect"} => r.opened = 0 /\ r.descriptor = Base
  /\ r.step \in {"inspect", "open", "opened", "read"} => r.canonical # <<>>
  /\ r.step = "read" => r.descriptor = r.expected
IsEntry(e) ==
  /\ e = [path |-> e.path, step |-> e.step, canonical |-> e.canonical, size |-> e.size]
  /\ e.size \in Nat /\ e.canonical \in Seq(Word) /\ e.step \in {"none", "canonical", "opened", "select"}
  /\ e.step = "none" => e = NoEntry

TasksShape(pd, t) ==
  /\ Sequence(pd) /\ \A i \in DOMAIN pd : IsTask(pd[i]) /\ pd[i].step = "popped"
  /\ IsTask(t) /\ t.step \in {"none", "alias", "boundary", "ignores", "entries"}
  /\ t.step = "none" => t = NoTask
ReadingShape(t, w, r) ==
  /\ w \in {<<>>, <<ignore>>, <<gitignore, ignore>>, <<exclude, gitignore, ignore>>}
  /\ w # <<>> => t.step = "ignores"
  /\ IsReading(r)
  /\ r.step # "none" => w # <<>> /\ r.path = t.path \o w[1]
Child(t, p) == \E x \in AllNames : p = Append(t.path, x)
ListingShape(t, l, f, e) ==
  /\ Sequence(l) /\ Sequence(f)
  /\ l # <<>> \/ f # <<>> => t.step = "entries"
  /\ \A i \in DOMAIN l : Child(t, l[i].path)
  /\ \A i \in DOMAIN f : Child(t, f[i].path) /\ f[i].depth = Len(t.path) + 1 /\ Len(t.path) + 1 <= Limits.depth
  /\ IsEntry(e)
  /\ e.step # "none" => l # <<>> /\ e.path = l[1].path
SourcesShape(s) ==
  /\ Sequence(s)
  /\ \A i \in DOMAIN s :
       s[i].relative \in Seq(AllNames) /\ Len(s[i].relative) \in 1..(Limits.depth + 1) /\ s[i].size \in Nat

(* What is still to come and what was found are apart.                     *)
Early == {"alias", "boundary", "ignores"}
Distinct(pd, t, l, f, s) ==
  /\ \A i, j \in DOMAIN pd : i # j => Apart(pd[i].path, pd[j].path)
  /\ t.step # "none" => \A i \in DOMAIN pd : Apart(pd[i].path, t.path)
  /\ \A i, j \in DOMAIN l : i # j => l[i].path # l[j].path
  /\ \A i, j \in DOMAIN f : i # j => f[i].path # f[j].path
  /\ \A i \in DOMAIN l, j \in DOMAIN f : l[i].path # f[j].path
  /\ \A i, j \in DOMAIN s : i # j => s[i].relative # s[j].relative
  /\ \A i \in DOMAIN s : \A j \in DOMAIN pd : ~Under(pd[j].path, s[i].relative)
  /\ t.step \in Early => \A i \in DOMAIN s : ~Under(t.path, s[i].relative)
  /\ \A i \in DOMAIN s : \A j \in DOMAIN l : ~Under(l[j].path, s[i].relative)
  /\ \A i \in DOMAIN s : \A j \in DOMAIN f : ~Under(f[j].path, s[i].relative)

(* What is read lies below, and what was read as well.                     *)
Lies(i) == i \in DOMAIN disk.nodes /\ ~disk.nodes[i].foreign
Counters == {"files", "bytes", "ignoreFiles", "ignoreBytes", "patterns", "entries", "directories", "read"}
Kept(r, s, b) ==
  /\ DOMAIN b = Counters
  /\ Lies(r.descriptor) /\ \A i \in b.read : Lies(i)
  /\ r.step = "read" => r.descriptor = r.expected
  /\ b.files = Len(s) /\ b.bytes = Total(s) /\ b.bytes <= Limits.bytes
  /\ \A i \in DOMAIN s : s[i].size <= options.maxBytes

(* And the rest of it, if nothing changes.                                 *)
Inherits(t) ==
  /\ Dir(t.path) /\ Good(t.path)
  /\ t.path = <<>> => t.matchers = NoMatchers
  /\ t.path # <<>> => \A x :
       /\ Chain(t.matchers.dot, x) = Dotted(Front(t.path), x)
       /\ Chain(t.matchers.git, x) = Gitted(Front(t.path), x)
       /\ Chain(t.matchers.exclude, x) = Barred(Front(t.path), x)
ToldDot(t, k) == \A x : Chain(t.matchers.dot, x) = Upto(t.path, 0, k, ignore, x)
ToldGit(t, k) == \A x : Chain(t.matchers.git, x) = Upto(t.path, Home(t.path), k, gitignore, x)
ToldExclude(t) == \A x : Chain(t.matchers.exclude, x) = Barred(t.path, x)
Told(t, w) ==
  /\ Dir(t.path) /\ Good(t.path)
  /\ IF Len(w) = 3 THEN HasGit(t.path) ELSE ToldExclude(t)
  /\ ToldGit(t, IF Len(w) \in {2, 3} THEN Len(t.path) - 1 ELSE Len(t.path))
  /\ ToldDot(t, IF Len(w) \in {1, 2, 3} THEN Len(t.path) - 1 ELSE Len(t.path))
OnTasks(pd, t, w) ==
  /\ \A i \in DOMAIN pd : Inherits(pd[i])
  /\ t.step \in {"alias", "boundary"} => Inherits(t)
  /\ t.step \in {"ignores", "entries"} => Told(t, w)
OnRead(r) ==
  /\ r.step \in {"regular", "inspect", "open", "opened", "read"} =>
       Inside(Resolve(r.path)) /\ r.canonical = Resolve(r.path).path
  /\ r.step = "open" => /\ r.opened < Len(r.canonical)
                        /\ Plain(Base, Prefix(r.canonical, r.opened)) # Nowhere
                        /\ r.descriptor = Plain(Base, Prefix(r.canonical, r.opened)).inode
  /\ r.step \in {"opened", "read"} => r.descriptor = Resolve(r.path).inode
  /\ r.step = "read" => Kind(r.descriptor) = "file"
OnListing(l, f, e) ==
  /\ \A i \in DOMAIN l : Plain(Base, l[i].path) # Nowhere /\ l[i].kind = Kind(Plain(Base, l[i].path).inode)
  /\ \A i \in DOMAIN f : Dir(f[i].path) /\ Good(f[i].path)
  /\ e.step # "none" => l[1].kind = "file" /\ ~LeftOut(l[1].path)
  /\ e.step \in {"opened", "select"} => e.canonical = e.path
Awaited(pd, t, l, f, p) ==
  \/ \E i \in DOMAIN pd : Under(pd[i].path, p)
  \/ t.step \in Early /\ Under(t.path, p)
  \/ \E i \in DOMAIN l : Under(l[i].path, p)
  \/ \E i \in DOMAIN f : Under(f[i].path, p)
OnSources(pd, t, l, f, s) ==
  /\ \A i \in DOMAIN s : Target(s[i].relative) /\ s[i].path = s[i].relative
  /\ \A p \in Seq(AllNames) : Target(p) => Awaited(pd, t, l, f, p) \/ \E i \in DOMAIN s : s[i].relative = p

Shaped(pd, t, w, r, l, f, e, s) ==
  /\ TasksShape(pd, t) /\ ReadingShape(t, w, r) /\ ListingShape(t, l, f, e) /\ SourcesShape(s)
  /\ Distinct(pd, t, l, f, s)
Settled(pd, t, w, r, l, f, e, s) ==
  OnTasks(pd, t, w) /\ OnRead(r) /\ OnListing(l, f, e) /\ OnSources(pd, t, l, f, s)
IsSettled ==
  \E pd, t, w, r, l, f, e, s :
    /\ pd = pending /\ t = task /\ w = wanted /\ r = reading
    /\ l = listing /\ f = found /\ e = entry /\ s = located
    /\ Settled(pd, t, w, r, l, f, e, s)
IsComplete == \E s : s = located /\ OnSources(<<>>, NoTask, <<>>, <<>>, s)
InOrderAtLast(s) ==
  \A i, j \in DOMAIN s : i < j => Order(s[i].relative) < Order(s[j].relative)
DiscoveryInv ==
  /\ WellFormed /\ Sound(disk) /\ Allows(disk) /\ changes \in Nat
  /\ Kept(reading, located, budget)
  /\ state \in {"walk", "done", "refused"}
  /\ state = "walk" => Shaped(pending, task, wanted, reading, listing, found, entry, located)
  /\ state = "walk" /\ changes = 0 => IsSettled
  /\ state = "done" => SourcesShape(located) /\ InOrderAtLast(located)
  /\ state = "done" /\ changes = 0 => IsComplete

-----------------------------------------------------------------------------
(* What is settled stays so, while nothing changes. *)

LEMMA WordsAre == \A p \in Seq(AllNames) : p \in Seq(Word)
<1>1. AllNames \subseteq Word
  BY DEF Word
<1>2. QED
  BY <1>1, SeqMonotonic

LEMMA AboveLast ==
  ASSUME NEW S, NEW p \in Seq(S), p # <<>>
  PROVE  /\ Front(p) \in Seq(S) /\ Last(p) \in S /\ p = Append(Front(p), Last(p)) /\ Len(Front(p)) = Len(p) - 1
         /\ Front(p) = Prefix(p, Len(p) - 1) /\ Len(p) \in Nat \ {0}
<1>1. Len(p) \in Nat /\ Len(p) # 0
  BY EmptySeq
<1>2. Front(p) = Prefix(p, Len(p) - 1)
  BY DEF Front, Prefix
<1>3. Len(p) - 1 \in 0..Len(p) /\ Len(p) \in 1..Len(p)
  BY <1>1
<1>4. Prefix(p, Len(p) - 1) \in Seq(S) /\ Len(Prefix(p, Len(p) - 1)) = Len(p) - 1
  BY <1>3, PrefixIs
<1>5. p = Append(Prefix(p, Len(p) - 1), p[Len(p)])
  BY <1>3, PrefixesAre
<1>6. Last(p) = p[Len(p)] /\ p[Len(p)] \in S
  BY <1>3 DEF Last
<1>7. QED
  BY <1>1, <1>2, <1>4, <1>5, <1>6

LEMMA InheritsStays ==
  ASSUME disk' = disk, Sound(disk), NEW t, IsTask(t), Inherits(t)
  PROVE  Inherits(t)'
<1>1. PICK p \in Seq(Word) : p = t.path
  BY WordsAre DEF IsTask
<1>2. Dir(p)' = Dir(p) /\ Good(p)' = Good(p)
  BY Unmoved, GoodStays
<1>3. Dir(t.path)' /\ Good(t.path)'
  BY <1>1, <1>2 DEF Inherits
<1>4. ASSUME p # <<>>
      PROVE  \A x : /\ Dotted(Front(t.path), x)' = Dotted(Front(t.path), x)
                    /\ Gitted(Front(t.path), x)' = Gitted(Front(t.path), x)
                    /\ Barred(Front(t.path), x)' = Barred(Front(t.path), x)
  <2>1. PICK q \in Seq(Word) : q = Front(p)
    BY <1>4, AboveLast
  <2>2. \A x : Dotted(q, x)' = Dotted(q, x) /\ Gitted(q, x)' = Gitted(q, x) /\ Barred(q, x)' = Barred(q, x)
    BY RulesStay
  <2>3. QED
    BY <1>1, <2>1, <2>2
<1>5. QED
  BY <1>1, <1>3, <1>4 DEF Inherits

LEMMA ToldStays ==
  ASSUME disk' = disk, Sound(disk), NEW t, IsTask(t), NEW w, Told(t, w)
  PROVE  Told(t, w)'
<1>1. PICK p \in Seq(Word) : p = t.path
  BY WordsAre DEF IsTask
<1>2. Dir(p)' = Dir(p) /\ Good(p)' = Good(p) /\ HasGit(p)' = HasGit(p)
  BY Unmoved, GoodStays
<1>3. Home(p)' = Home(p) /\ \A x : Barred(p, x)' = Barred(p, x)
  BY RulesStay
<1>4. PICK h \in Nat : h = Home(p)
  BY HomeIs
<1>5. Len(p) \in Nat
  OBVIOUS
<1>6. ASSUME NEW k \in Int, k <= Len(p), ToldGit(t, k) PROVE ToldGit(t, k)'
  <2>1. ASSUME NEW x PROVE Upto(p, h, k, gitignore, x)' = Upto(p, h, k, gitignore, x)
    BY <1>6, RuleFiles, UptoStays
  <2>2. \A x : Upto(t.path, Home(t.path), k, gitignore, x)' = Upto(p, h, k, gitignore, x)'
    BY <1>1, <1>3, <1>4
  <2>3. QED
    BY <1>1, <1>4, <1>6, <2>1, <2>2 DEF ToldGit
<1>7. ASSUME NEW k \in Int, k <= Len(p), ToldDot(t, k) PROVE ToldDot(t, k)'
  <2>1. ASSUME NEW x PROVE Upto(p, 0, k, ignore, x)' = Upto(p, 0, k, ignore, x)
    BY <1>7, RuleFiles, UptoStays
  <2>2. QED
    BY <1>1, <1>7, <2>1 DEF ToldDot
<1>8. ToldExclude(t) => ToldExclude(t)'
  BY <1>1, <1>3 DEF ToldExclude
<1>9. PICK k : k = IF Len(w) \in {2, 3} THEN Len(t.path) - 1 ELSE Len(t.path)
  OBVIOUS
<1>10. PICK m : m = IF Len(w) \in {1, 2, 3} THEN Len(t.path) - 1 ELSE Len(t.path)
  OBVIOUS
<1>11. k \in Int /\ m \in Int /\ k <= Len(p) /\ m <= Len(p)
  <2>1. k \in {Len(t.path) - 1, Len(t.path)} /\ m \in {Len(t.path) - 1, Len(t.path)}
    BY <1>9, <1>10, Zenon
  <2>2. QED
    BY <1>1, <1>5, <2>1
<1>12. ToldGit(t, k)' /\ ToldDot(t, m)'
  <2>1. ToldGit(t, k) /\ ToldDot(t, m)
    BY <1>9, <1>10 DEF Told
  <2>2. QED
    BY <1>6, <1>7, <1>11, <2>1
<1>13. Dir(t.path)' /\ Good(t.path)' /\ (Len(w) = 3 => HasGit(t.path)') /\ (Len(w) # 3 => ToldExclude(t)')
  BY <1>1, <1>2, <1>8 DEF Told
<1>14. QED
  BY <1>9, <1>10, <1>12, <1>13 DEF Told

LEMMA ReadStays ==
  ASSUME disk' = disk, Sound(disk), NEW r, IsReading(r), r.step # "none" => r.path \in Seq(Word), OnRead(r)
  PROVE  OnRead(r)'
<1>1. ASSUME r.step # "none" PROVE Resolve(r.path)' = Resolve(r.path)
  <2>1. PICK p \in Seq(Word) : p = r.path
    BY <1>1
  <2>2. QED
    BY <2>1, ResolveStays
<1>2. ASSUME r.step = "open"
      PROVE Plain(Base, Prefix(r.canonical, r.opened))' = Plain(Base, Prefix(r.canonical, r.opened))
  <2>1. r.opened \in 0..Len(r.canonical)
    BY <1>2 DEF OnRead, IsReading
  <2>2. PICK p \in Seq(Word) : p = Prefix(r.canonical, r.opened)
    BY <2>1, PrefixIs DEF IsReading
  <2>3. QED
    BY <2>2, PlainStays
<1>3. PICK c, p, at : c = Prefix(r.canonical, r.opened) /\ p = r.path /\ at = Resolve(p)
  OBVIOUS
<1>4. r.step # "none" => Inside(Resolve(p))' = Inside(Resolve(p))
  BY <1>1, <1>3 DEF Inside
<1>5. r.step \in {"regular", "inspect", "open", "opened", "read"} =>
        Inside(Resolve(r.path))' /\ r.canonical = Resolve(r.path)'.path
  BY <1>1, <1>3, <1>4 DEF OnRead
<1>6. r.step = "open" =>
        /\ r.opened < Len(r.canonical) /\ Plain(Base, Prefix(r.canonical, r.opened))' # Nowhere
        /\ r.descriptor = Plain(Base, Prefix(r.canonical, r.opened))'.inode
  BY <1>2 DEF OnRead
<1>7. r.step \in {"opened", "read"} => r.descriptor = Resolve(r.path)'.inode
  BY <1>1 DEF OnRead
<1>8. r.step = "read" => Kind(r.descriptor)' = "file"
  BY DEF OnRead, Kind
<1>9. QED
  BY <1>5, <1>6, <1>7, <1>8 DEF OnRead, Nowhere, From

LEMMA ListingStays ==
  ASSUME disk' = disk, Sound(disk), NEW t, IsTask(t), NEW l, NEW f, NEW e, ListingShape(t, l, f, e), OnListing(l, f, e)
  PROVE  OnListing(l, f, e)'
<1>1. ASSUME NEW p, Child(t, p) PROVE p \in Seq(Word) /\ LeftOut(p)' = LeftOut(p)
  <2>1. PICK q \in Seq(Word), x \in Word : p = Append(q, x)
    BY <1>1, WordsAre DEF Child, IsTask, Word
  <2>2. p \in Seq(Word)
    BY <2>1, ExtendedIs
  <2>3. Good(p)' = Good(p) /\ RuledOut(q, x)' = RuledOut(q, x)
    BY <2>1, <2>2, GoodStays, RulesStay DEF RuledOut
  <2>4. /\ LeftOut(Append(q, x)) <=> x \in Excluded \/ RuledOut(q, x)
        /\ LeftOut(Append(q, x))' <=> x \in Excluded \/ RuledOut(q, x)'
        /\ LeftOut(Append(q, x))' \in BOOLEAN /\ LeftOut(Append(q, x)) \in BOOLEAN
    <3>1. LeftOut(Append(q, x)) <=> x \in Excluded \/ RuledOut(q, x)
      BY LeftOutIs
    <3>2. LeftOut(Append(q, x))' <=> x \in Excluded \/ RuledOut(q, x)'
      BY LeftOutNext
    <3>3. (LeftOut(Append(q, x))' \in BOOLEAN) /\ (LeftOut(Append(q, x)) \in BOOLEAN)
      BY DEF LeftOut
    <3>4. QED
      BY <3>1, <3>2, <3>3
  <2>5. QED
    BY <2>1, <2>2, <2>3, <2>4
<1>2. ASSUME NEW i \in DOMAIN l
      PROVE  Plain(Base, l[i].path)' # Nowhere /\ l[i].kind = Kind(Plain(Base, l[i].path).inode)'
  <2>1. PICK p \in Seq(Word) : p = l[i].path
    BY <1>1 DEF ListingShape
  <2>2. Plain(Base, p)' = Plain(Base, p)
    BY PlainStays
  <2>3. Kind(Plain(Base, p).inode)' = Kind(Plain(Base, p).inode)
    BY <2>2 DEF Kind
  <2>4. QED
    BY <2>1, <2>2, <2>3 DEF OnListing
<1>3. ASSUME NEW i \in DOMAIN f PROVE Dir(f[i].path)' /\ Good(f[i].path)'
  <2>1. PICK p \in Seq(Word) : p = f[i].path
    BY <1>1 DEF ListingShape
  <2>2. Dir(p)' = Dir(p) /\ Good(p)' = Good(p)
    BY Unmoved, GoodStays
  <2>3. QED
    BY <2>1, <2>2 DEF OnListing
<1>4. ASSUME e.step # "none" PROVE ~LeftOut(l[1].path)'
  <2>1. Child(t, l[1].path)
    BY <1>4, SequenceIs DEF ListingShape
  <2>2. PICK p : p = l[1].path
    OBVIOUS
  <2>3. LeftOut(p)' = LeftOut(p)
    BY <1>1, <2>1, <2>2
  <2>4. QED
    BY <1>4, <2>2, <2>3 DEF OnListing
<1>5. /\ e.step # "none" => l[1].kind = "file"
      /\ e.step \in {"opened", "select"} => e.canonical = e.path
  BY DEF OnListing
<1>6. QED
  BY <1>2, <1>3, <1>4, <1>5 DEF OnListing, Nowhere, From

LEMMA SourcesStay ==
  ASSUME disk' = disk, options' = options, Sound(disk), NEW pd, NEW t, NEW l, NEW f, NEW s, SourcesShape(s),
         OnSources(pd, t, l, f, s)
  PROVE  OnSources(pd, t, l, f, s)'
<1>1. ASSUME NEW p \in Seq(AllNames) PROVE Target(p)' = Target(p)
  BY WordsAre, TargetStays
<1>2. ASSUME NEW i \in DOMAIN s PROVE Target(s[i].relative)'
  <2>1. PICK p \in Seq(AllNames) : p = s[i].relative
    BY DEF SourcesShape
  <2>2. QED
    BY <1>1, <2>1 DEF OnSources
<1>3. \A i \in DOMAIN s : s[i].path = s[i].relative
  BY DEF OnSources
<1>4. \A p \in Seq(AllNames) : Target(p)' => Awaited(pd, t, l, f, p) \/ \E i \in DOMAIN s : s[i].relative = p
  BY <1>1 DEF OnSources
<1>5. QED
  BY <1>2, <1>3, <1>4 DEF OnSources

LEMMA SettledStays ==
  ASSUME disk' = disk, options' = options, Sound(disk),
         NEW pd, NEW t, NEW w, NEW r, NEW l, NEW f, NEW e, NEW s,
         Shaped(pd, t, w, r, l, f, e, s), Settled(pd, t, w, r, l, f, e, s)
  PROVE  Settled(pd, t, w, r, l, f, e, s)'
<1>1. IsTask(t) /\ \A i \in DOMAIN pd : IsTask(pd[i])
  BY DEF Shaped, TasksShape
<1>2. OnTasks(pd, t, w)'
  <2>1. ASSUME NEW i \in DOMAIN pd PROVE Inherits(pd[i])'
    <3>1. PICK u : u = pd[i]
      OBVIOUS
    <3>2. IsTask(u) /\ Inherits(u)
      BY <1>1, <3>1 DEF Settled, OnTasks
    <3>3. Inherits(u)'
      BY <3>2, InheritsStays
    <3>4. QED
      BY <3>1, <3>3
  <2>2. t.step \in {"alias", "boundary"} => Inherits(t)'
    BY <1>1, InheritsStays DEF Settled, OnTasks
  <2>3. t.step \in {"ignores", "entries"} => Told(t, w)'
    BY <1>1, ToldStays DEF Settled, OnTasks
  <2>4. QED
    BY <2>1, <2>2, <2>3 DEF OnTasks
<1>3. OnRead(r)'
  <2>1. IsReading(r)
    BY DEF Shaped, ReadingShape
  <2>2. ASSUME r.step # "none" PROVE r.path \in Seq(Word)
    <3>1. r.path = t.path \o w[1] /\ w # <<>>
      BY <2>2 DEF Shaped, ReadingShape
    <3>2. w[1] \in {exclude, gitignore, ignore}
      BY <3>1 DEF Shaped, ReadingShape
    <3>3. w[1] \in Seq(Word) /\ t.path \in Seq(Word)
      BY <1>1, <3>2, RuleFiles, WordsAre DEF IsTask
    <3>4. QED
      BY <3>1, <3>3, ConcatProperties
  <2>3. QED
    BY <2>1, <2>2, ReadStays DEF Settled
<1>4. OnListing(l, f, e)'
  BY <1>1, ListingStays DEF Shaped, Settled
<1>5. OnSources(pd, t, l, f, s)'
  BY SourcesStay DEF Shaped, Settled
<1>6. QED
  BY <1>2, <1>3, <1>4, <1>5 DEF Settled

-----------------------------------------------------------------------------
(* Sums. *)

Adds(s, k, g) == g = [n \in 0..k |-> IF n = 0 THEN 0 ELSE g[n - 1] + s[n].size]
Units(s, n) == {u \in (1..n) \X Nat : u[2] \in 1..s[u[1]].size}

LEMMA AddsAre ==
  ASSUME NEW s, NEW k \in Nat
  PROVE  \E g : Adds(s, k, g)
<1> DEFINE Bad == {n \in Nat : ~\E g : Adds(s, n, g)}
<1>1. SUFFICES ASSUME k \in Bad PROVE FALSE
  OBVIOUS
<1>2. PICK n \in Bad : \A m \in Bad : n <= m
  BY <1>1, LeastIsThere
<1>3. CASE n = 0
  <2> DEFINE g == [x \in 0..0 |-> 0]
  <2>1. Adds(s, 0, g)
    BY DEF Adds
  <2>2. QED
    BY <1>3, <2>1
<1>4. CASE n # 0
  <2>1. n - 1 \in Nat /\ n - 1 \notin Bad
    BY <1>2, <1>4
  <2>2. PICK g : Adds(s, n - 1, g)
    BY <2>1
  <2> DEFINE h == [x \in 0..n |-> IF x = n THEN g[n - 1] + s[n].size ELSE g[x]]
  <2>3. \A x \in 0..(n - 1) : g[x] = IF x = 0 THEN 0 ELSE g[x - 1] + s[x].size
    BY <2>2 DEF Adds
  <2>4. \A x \in 0..n : h[x] = IF x = 0 THEN 0 ELSE h[x - 1] + s[x].size
    BY <1>4, <2>1, <2>3
  <2>5. Adds(s, n, h)
    BY <2>4 DEF Adds
  <2>6. QED
    BY <2>5
<1>5. QED
  BY <1>3, <1>4

LEMMA TotalIs ==
  ASSUME NEW s, Sequence(s)
  PROVE  \E g : Adds(s, Len(s), g) /\ Total(s) = g[Len(s)]
<1> DEFINE sum == CHOOSE g : Adds(s, Len(s), g)
<1>1. Adds(s, Len(s), sum)
  BY AddsAre, SequenceIs
<1>2. Total(s) = sum[Len(s)]
  BY DEF Total, Adds
<1>3. QED
  BY <1>1, <1>2

LEMMA OneMore ==
  ASSUME NEW s, NEW n \in Nat \ {0}, s[n].size \in Nat, IsFiniteSet(Units(s, n - 1))
  PROVE  IsFiniteSet(Units(s, n)) /\ Cardinality(Units(s, n)) = Cardinality(Units(s, n - 1)) + s[n].size
<1> DEFINE T == {n} \X (1..s[n].size)
           F == [b \in 1..s[n].size |-> <<n, b>>]
<1>1. IsFiniteSet(1..s[n].size) /\ Cardinality(1..s[n].size) = s[n].size
  BY IntervalIs
<1>2. F \in Bijection(1..s[n].size, T)
  <2>1. F \in [1..s[n].size -> T] /\ \A a, b \in 1..s[n].size : F[a] = F[b] => a = b
    OBVIOUS
  <2>2. \A y \in T : \E b \in 1..s[n].size : F[b] = y
    OBVIOUS
  <2>3. QED
    BY <2>1, <2>2 DEF Bijection, Injection, Surjection, IsInjective
<1>3. IsFiniteSet(T) /\ Cardinality(T) = s[n].size
  <2>1. ExistsBijection(1..s[n].size, T)
    BY <1>2 DEF ExistsBijection
  <2>2. QED
    BY <1>1, <2>1, FS_Bijection
<1>4. Units(s, n) = Units(s, n - 1) \cup T
  <2>1. ASSUME NEW u \in Units(s, n) PROVE u \in Units(s, n - 1) \cup T
    <3>1. PICK i \in 1..n, b \in Nat : u = <<i, b>> /\ b \in 1..s[i].size
      BY DEF Units
    <3>2. CASE i = n
      BY <3>1, <3>2
    <3>3. CASE i # n
      <4>1. i \in 1..(n - 1)
        BY <3>3
      <4>2. u \in Units(s, n - 1)
        BY <3>1, <4>1 DEF Units
      <4>3. QED
        BY <4>2
    <3>4. QED
      BY <3>2, <3>3
  <2>2. ASSUME NEW u \in Units(s, n - 1) PROVE u \in Units(s, n)
    BY DEF Units
  <2>3. ASSUME NEW u \in T PROVE u \in Units(s, n)
    <3>1. PICK b \in 1..s[n].size : u = <<n, b>>
      OBVIOUS
    <3>2. QED
      BY <3>1 DEF Units
  <2>4. QED
    BY <2>1, <2>2, <2>3
<1>5. Units(s, n - 1) \cap T = {}
  <2>1. \A u \in Units(s, n - 1) : u[1] \in 1..(n - 1)
    BY DEF Units
  <2>2. \A u \in T : u[1] = n
    OBVIOUS
  <2>3. n \notin 1..(n - 1)
    OBVIOUS
  <2>4. QED
    BY <2>1, <2>2, <2>3
<1> HIDE DEF T
<1>6. /\ IsFiniteSet(Units(s, n - 1) \cup T)
      /\ Cardinality(Units(s, n - 1) \cup T) = Cardinality(Units(s, n - 1)) + Cardinality(T) - Cardinality({})
  <2>1. PICK U, V : U = Units(s, n - 1) /\ V = T
    OBVIOUS
  <2>2. IsFiniteSet(U) /\ IsFiniteSet(V)
    BY <1>3, <2>1
  <2>3. IsFiniteSet(U \cup V) /\ Cardinality(U \cup V) = Cardinality(U) + Cardinality(V) - Cardinality(U \cap V)
    BY <2>2, FS_Union
  <2>4. U \cap V = {}
    BY <1>5, <2>1
  <2>5. QED
    BY <2>1, <2>3, <2>4
<1>7. Cardinality({}) = 0 /\ Cardinality(Units(s, n - 1)) \in Nat
  BY FS_EmptySet, FS_CardinalityType
<1>8. QED
  BY <1>3, <1>4, <1>6, <1>7

LEMMA UnitsAre ==
  ASSUME NEW s, NEW k \in Nat, \A i \in 1..k : s[i].size \in Nat, NEW g, Adds(s, k, g), NEW n \in 0..k
  PROVE  IsFiniteSet(Units(s, n)) /\ Cardinality(Units(s, n)) = g[n]
<1> DEFINE Fits2(m) == IsFiniteSet(Units(s, m)) /\ Cardinality(Units(s, m)) = g[m]
           Odd == {m \in 0..k : ~Fits2(m)}
<1>1. SUFFICES ASSUME n \in Odd PROVE FALSE
  OBVIOUS
<1>2. Odd \in SUBSET Nat
  OBVIOUS
<1>3. PICK m \in Odd : \A x \in Odd : m <= x
  BY <1>1, <1>2, LeastIsThere
<1>4. CASE m = 0
  <2>1. Units(s, 0) = {}
    BY DEF Units
  <2>2. g[0] = 0
    BY DEF Adds
  <2>3. QED
    BY <1>3, <1>4, <2>1, <2>2, FS_EmptySet
<1>5. CASE m # 0
  <2>1. m \in 1..k /\ m - 1 \in 0..k /\ ~(m <= m - 1) /\ m \in Nat \ {0}
    BY <1>5
  <2>2. Fits2(m - 1)
    BY <1>3, <2>1
  <2>3. g[m] = g[m - 1] + s[m].size
    BY <2>1 DEF Adds
  <2>4. IsFiniteSet(Units(s, m)) /\ Cardinality(Units(s, m)) = Cardinality(Units(s, m - 1)) + s[m].size
    BY <2>1, <2>2, OneMore
  <2>5. QED
    BY <1>3, <2>2, <2>3, <2>4
<1>6. QED
  BY <1>4, <1>5

Sized(s) == Sequence(s) /\ \A i \in DOMAIN s : s[i].size \in Nat

LEMMA TotalUnits ==
  ASSUME NEW s, Sized(s)
  PROVE  IsFiniteSet(Units(s, Len(s))) /\ Cardinality(Units(s, Len(s))) = Total(s) /\ Total(s) \in Nat
<1>1. Len(s) \in Nat /\ DOMAIN s = 1..Len(s)
  BY SequenceIs DEF Sized
<1>2. PICK g : Adds(s, Len(s), g) /\ Total(s) = g[Len(s)]
  BY TotalIs DEF Sized
<1>3. Len(s) \in 0..Len(s) /\ \A i \in 1..Len(s) : s[i].size \in Nat
  BY <1>1 DEF Sized
<1>4. IsFiniteSet(Units(s, Len(s))) /\ Cardinality(Units(s, Len(s))) = g[Len(s)]
  BY <1>1, <1>2, <1>3, UnitsAre
<1>5. QED
  BY <1>2, <1>4, FS_CardinalityType

LEMMA TotalOfNone == Total(<<>>) = 0
<1>1. Sequence(<<>>) /\ Len(<<>>) = 0
  BY NoneIs
<1>2. PICK g : Adds(<<>>, 0, g) /\ Total(<<>>) = g[0]
  BY <1>1, TotalIs
<1>3. QED
  BY <1>2 DEF Adds

LEMMA TotalAdded ==
  ASSUME NEW s, Sized(s), NEW x, x.size \in Nat
  PROVE  Total(Append(s, x)) = Total(s) + x.size
<1>1. PICK t, n : t = Append(s, x) /\ n = Len(s) + 1
  OBVIOUS
<1>2. Len(s) \in Nat /\ DOMAIN s = 1..Len(s)
  BY SequenceIs DEF Sized
<1>3. Sequence(t) /\ Len(t) = n /\ t[n] = x /\ n \in Nat \ {0} /\ n - 1 = Len(s) /\ \A i \in 1..Len(s) : t[i] = s[i]
  BY <1>1, <1>2, AppendedIs DEF Sized
<1>4. DOMAIN t = 1..n
  BY <1>3, SequenceIs
<1>5. Sized(t)
  <2>1. ASSUME NEW i \in 1..n PROVE t[i].size \in Nat
    <3>1. i = n \/ i \in 1..Len(s)
      BY <1>2, <1>3
    <3>2. QED
      BY <1>2, <1>3, <3>1 DEF Sized
  <2>2. QED
    BY <1>3, <1>4, <2>1 DEF Sized
<1>6. Units(t, n - 1) = Units(s, Len(s))
  <2>1. \A u \in (1..Len(s)) \X Nat : t[u[1]] = s[u[1]]
    BY <1>3
  <2>2. QED
    BY <1>3, <2>1 DEF Units
<1>7. IsFiniteSet(Units(t, n - 1)) /\ Cardinality(Units(t, n - 1)) = Total(s)
  BY <1>6, TotalUnits
<1>8. Cardinality(Units(t, n)) = Total(s) + x.size
  BY <1>3, <1>7, OneMore
<1>9. Cardinality(Units(t, n)) = Total(t)
  BY <1>3, <1>5, TotalUnits
<1>10. QED
  BY <1>1, <1>8, <1>9

(* The same files in another order come to the same.                       *)
LEMMA TotalMoved ==
  ASSUME NEW s, Sized(s), NEW t, Sized(t), Len(t) = Len(s), NEW h \in [DOMAIN s -> DOMAIN s],
         \A i, j \in DOMAIN s : h[i] = h[j] => i = j, \A j \in DOMAIN s : \E i \in DOMAIN s : h[i] = j,
         \A i \in DOMAIN s : t[i] = s[h[i]]
  PROVE  Total(t) = Total(s)
<1>1. PICK n \in Nat : n = Len(s) /\ n = Len(t) /\ DOMAIN s = 1..n
  BY SequenceIs DEF Sized
<1> DEFINE F == [u \in Units(t, n) |-> <<h[u[1]], u[2]>>]
<1>2. \A u \in Units(t, n) : u \in (1..n) \X Nat /\ u[2] \in 1..t[u[1]].size
  BY DEF Units
<1>3. F \in [Units(t, n) -> Units(s, n)]
  <2>1. ASSUME NEW u \in Units(t, n) PROVE <<h[u[1]], u[2]>> \in Units(s, n)
    <3>1. PICK i \in 1..n, b \in Nat : u = <<i, b>> /\ b \in 1..t[i].size
      BY <1>2
    <3>2. h[i] \in 1..n /\ t[i] = s[h[i]]
      BY <1>1
    <3>3. QED
      BY <3>1, <3>2 DEF Units
  <2>2. QED
    BY <2>1
<1>4. \A u, v \in Units(t, n) : F[u] = F[v] => u = v
  <2>1. TAKE u, v \in Units(t, n)
  <2>2. PICK i \in 1..n, b \in Nat : u = <<i, b>>
    BY <1>2
  <2>3. PICK j \in 1..n, c \in Nat : v = <<j, c>>
    BY <1>2
  <2>4. F[u] = <<h[i], b>> /\ F[v] = <<h[j], c>>
    BY <2>2, <2>3
  <2>5. F[u] = F[v] => h[i] = h[j] /\ b = c
    BY <2>4
  <2>6. QED
    BY <1>1, <2>2, <2>3, <2>5
<1>5. \A v \in Units(s, n) : \E u \in Units(t, n) : F[u] = v
  <2>1. TAKE v \in Units(s, n)
  <2>2. PICK j \in 1..n, b \in Nat : v = <<j, b>> /\ b \in 1..s[j].size
    BY DEF Units
  <2>3. PICK i \in 1..n : h[i] = j
    BY <1>1
  <2>4. t[i] = s[j]
    BY <1>1, <2>3
  <2>5. <<i, b>> \in Units(t, n)
    BY <2>2, <2>4 DEF Units
  <2>6. F[<<i, b>>] = v
    BY <2>2, <2>3, <2>5
  <2>7. QED
    BY <2>5, <2>6
<1>6. F \in Bijection(Units(t, n), Units(s, n))
  BY <1>3, <1>4, <1>5 DEF Bijection, Injection, Surjection, IsInjective
<1>7. ExistsBijection(Units(t, n), Units(s, n))
  BY <1>6 DEF ExistsBijection
<1>8. IsFiniteSet(Units(t, n)) /\ Cardinality(Units(t, n)) = Total(t) /\ Cardinality(Units(s, n)) = Total(s)
  BY <1>1, TotalUnits
<1>9. QED
  BY <1>7, <1>8, FS_Bijection

-----------------------------------------------------------------------------
(* Orders. *)

LEMMA InOrderIs ==
  ASSUME NEW paths, IsFiniteSet(paths), \A p, q \in paths : Order(p) \in Nat /\ (Order(p) = Order(q) => p = q)
  PROVE  /\ Cardinality(paths) \in Nat
         /\ InOrder(paths) \in [1..Cardinality(paths) -> paths]
         /\ \A i, j \in 1..Cardinality(paths) : InOrder(paths)[i] = InOrder(paths)[j] => i = j
         /\ \A p \in paths : \E i \in 1..Cardinality(paths) : InOrder(paths)[i] = p
<1>1. PICK R : R = {x \in paths \X paths : Order(x[1]) < Order(x[2])}
  OBVIOUS
<1>2. \A p, q \in paths : <<p, q>> \in R <=> Order(p) < Order(q)
  BY <1>1
<1>3. Ordering(paths, R)
  <2>1. \A x \in paths : <<x, x>> \notin R
    BY <1>2
  <2>2. \A x, y \in paths : x # y => <<x, y>> \in R \/ <<y, x>> \in R
    BY <1>2
  <2>3. \A x, y, z \in paths : <<x, y>> \in R /\ <<y, z>> \in R => <<x, z>> \in R
    BY <1>2
  <2>4. QED
    BY <2>1, <2>2, <2>3 DEF Ordering
<1>4. \A p \in paths : Ahead(paths, R, p) = {q \in paths : Order(q) < Order(p)}
  BY <1>2 DEF Ahead
<1>5. /\ Cardinality(paths) \in Nat
      /\ \A x \in paths : Cardinality(Ahead(paths, R, x)) + 1 \in 1..Cardinality(paths)
      /\ \A x, y \in paths : Cardinality(Ahead(paths, R, x)) = Cardinality(Ahead(paths, R, y)) => x = y
      /\ \A n \in 1..Cardinality(paths) : \E x \in paths : Cardinality(Ahead(paths, R, x)) = n - 1
  BY <1>3, NumbersAre
<1>6. PICK N : N = Cardinality(paths)
  OBVIOUS
<1>7. ASSUME NEW n \in 1..N
      PROVE  InOrder(paths)[n] \in paths /\ Cardinality(Ahead(paths, R, InOrder(paths)[n])) = n - 1
  <2>1. InOrder(paths)[n] = CHOOSE p \in paths : Cardinality({q \in paths : Order(q) < Order(p)}) = n - 1
    BY <1>6 DEF InOrder
  <2>2. \E p \in paths : Cardinality({q \in paths : Order(q) < Order(p)}) = n - 1
    BY <1>4, <1>5, <1>6
  <2>3. InOrder(paths)[n] \in paths
        /\ Cardinality({q \in paths : Order(q) < Order(InOrder(paths)[n])}) = n - 1
    BY <2>1, <2>2
  <2>4. QED
    BY <1>4, <2>3
<1>8. InOrder(paths) \in [1..N -> paths]
  <2> DEFINE C(n) == CHOOSE p \in paths : Cardinality({q \in paths : Order(q) < Order(p)}) = n - 1
  <2>1. InOrder(paths) = [n \in 1..Cardinality(paths) |-> C(n)]
    BY DEF InOrder
  <2> HIDE DEF C
  <2>2. PICK T : T = InOrder(paths) /\ T = [n \in 1..N |-> C(n)]
    BY <1>6, <2>1
  <2>3. \A n \in 1..N : T[n] \in paths
    BY <1>7, <2>2
  <2>4. T = [n \in 1..N |-> T[n]]
    BY <2>2
  <2>5. QED
    BY <2>2, <2>3, <2>4
<1>9. ASSUME NEW i \in 1..N, NEW j \in 1..N, InOrder(paths)[i] = InOrder(paths)[j] PROVE i = j
  <2>1. i - 1 = j - 1
    BY <1>7, <1>9
  <2>2. QED
    BY <1>5, <1>6, <2>1
<1>10. ASSUME NEW p \in paths PROVE \E i \in 1..N : InOrder(paths)[i] = p
  <2>1. PICK n \in 1..N : n = Cardinality(Ahead(paths, R, p)) + 1
    BY <1>5, <1>6
  <2>2. Cardinality(Ahead(paths, R, p)) + 1 \in 1..N
    BY <1>5, <1>6
  <2>3. Cardinality(Ahead(paths, R, p)) \in Int
    <3>1. \A x \in paths : IsFiniteSet(Ahead(paths, R, x))
      <4>1. \A x \in paths : Ahead(paths, R, x) \in SUBSET paths
        BY DEF Ahead
      <4>2. QED
        BY <4>1, FS_Subset
    <3>2. QED
      BY <3>1, FS_CardinalityType
  <2>4. Cardinality(Ahead(paths, R, p)) = n - 1
    BY <1>5, <1>6, <2>1, <2>3
  <2>5. InOrder(paths)[n] = p
    BY <1>5, <1>7, <2>4
  <2>6. QED
    BY <2>5
<1>11. QED
  BY <1>5, <1>6, <1>8, <1>9, <1>10

LEMMA SortedIs ==
  ASSUME Sequence(located), \A i \in DOMAIN located : Order(located[i].relative) \in Nat,
         \A i, j \in DOMAIN located : i # j => Order(located[i].relative) # Order(located[j].relative)
  PROVE  /\ Sequence(Sorted) /\ Len(Sorted) = Len(located) /\ DOMAIN Sorted = DOMAIN located
         /\ InOrderAtLast(Sorted)
         /\ \E h \in [DOMAIN located -> DOMAIN located] :
              /\ \A i, j \in DOMAIN located : h[i] = h[j] => i = j
              /\ \A j \in DOMAIN located : \E i \in DOMAIN located : h[i] = j
              /\ \A i \in DOMAIN located : Sorted[i] = located[h[i]]
<1>1. PICK N \in Nat : N = Len(located) /\ DOMAIN located = 1..N
  BY SequenceIs
<1>2. PICK o \in [1..N -> Nat] : o = [i \in 1..N |-> Order(located[i].relative)]
  BY <1>1
<1>3. \A i, j \in 1..N : Earlier(i, j) <=> o[i] < o[j]
  <2>1. TAKE i, j \in 1..N
  <2>2. located[i].relative = located[j].relative /\ i < j => FALSE
    <3>1. i < j => i # j
      OBVIOUS
    <3>2. QED
      BY <1>1, <3>1
  <2>3. Earlier(i, j) <=> Order(located[i].relative) < Order(located[j].relative)
    BY <2>2 DEF Earlier
  <2>4. QED
    BY <1>2, <2>3
<1>4. \A i, j \in 1..N : i # j => o[i] # o[j]
  BY <1>1, <1>2
<1>5. PICK R : R = {x \in (1..N) \X (1..N) : o[x[1]] < o[x[2]]}
  OBVIOUS
<1>6. \A i, j \in 1..N : <<i, j>> \in R <=> o[i] < o[j]
  BY <1>5
<1>7. Ordering(1..N, R)
  <2>1. \A x \in 1..N : <<x, x>> \notin R
    BY <1>6
  <2>2. \A x, y \in 1..N : x # y => <<x, y>> \in R \/ <<y, x>> \in R
    <3>1. TAKE x, y \in 1..N
    <3>2. o[x] \in Nat /\ o[y] \in Nat /\ (x # y => o[x] # o[y])
      BY <1>4
    <3>3. QED
      BY <1>6, <3>2
  <2>3. \A x, y, z \in 1..N : <<x, y>> \in R /\ <<y, z>> \in R => <<x, z>> \in R
    <3>1. TAKE x, y, z \in 1..N
    <3>2. o[x] \in Nat /\ o[y] \in Nat /\ o[z] \in Nat
      OBVIOUS
    <3>3. QED
      BY <1>6, <3>2
  <2>4. QED
    BY <2>1, <2>2, <2>3 DEF Ordering
<1>8. \A i \in 1..N : Ahead(1..N, R, i) = {j \in 1..N : Earlier(j, i)}
  BY <1>3, <1>6 DEF Ahead
<1>9. IsFiniteSet(1..N) /\ Cardinality(1..N) = N
  BY IntervalIs
<1>a. PICK S : S = 1..N
  OBVIOUS
<1>b. IsFiniteSet(S) /\ Ordering(S, R) /\ Cardinality(S) = N
  BY <1>7, <1>9, <1>a
<1>c. /\ \A x \in S : Cardinality(Ahead(S, R, x)) + 1 \in 1..Cardinality(S)
      /\ \A x, y \in S : <<x, y>> \in R => Cardinality(Ahead(S, R, x)) < Cardinality(Ahead(S, R, y))
      /\ \A x, y \in S : Cardinality(Ahead(S, R, x)) = Cardinality(Ahead(S, R, y)) => x = y
      /\ \A n \in 1..Cardinality(S) : \E x \in S : Cardinality(Ahead(S, R, x)) = n - 1
  <2>1. IsFiniteSet(S) /\ Ordering(S, R)
    BY <1>b
  <2>2. QED
    BY <2>1, NumbersAre
<1>d. PICK c \in [1..N -> 0..N] : \A i \in 1..N : c[i] = Cardinality(Ahead(1..N, R, i))
  <2> DEFINE d == [i \in 1..N |-> Cardinality(Ahead(1..N, R, i))]
  <2>1. \A i \in 1..N : Cardinality(Ahead(1..N, R, i)) \in 0..N
    <3>1. TAKE i \in 1..N
    <3>2. Ahead(S, R, i) \in SUBSET S /\ i \in S
      BY <1>a DEF Ahead
    <3>3. IsFiniteSet(Ahead(S, R, i)) /\ Cardinality(Ahead(S, R, i)) <= N
      BY <1>b, <3>2, FS_Subset
    <3>4. Cardinality(Ahead(S, R, i)) \in Nat
      BY <3>3, FS_CardinalityType
    <3>5. QED
      BY <1>a, <3>3, <3>4
  <2>2. d \in [1..N -> 0..N] /\ \A i \in 1..N : d[i] = Cardinality(Ahead(1..N, R, i))
    BY <2>1
  <2>3. QED
    BY <2>2
<1>10. /\ \A x, y \in 1..N : o[x] < o[y] => c[x] < c[y]
       /\ \A x, y \in 1..N : c[x] = c[y] => x = y
       /\ \A n \in 1..N : \E x \in 1..N : c[x] = n - 1
       /\ \A x \in 1..N : c[x] + 1 \in 1..N
  <2>1. \A x \in 1..N : Ahead(S, R, x) = Ahead(1..N, R, x) /\ x \in S
    BY <1>a
  <2>2. \A x, y \in 1..N : o[x] < o[y] => c[x] < c[y]
    <3>1. TAKE x, y \in 1..N
    <3>2. o[x] < o[y] => <<x, y>> \in R
      BY <1>6
    <3>3. <<x, y>> \in R => Cardinality(Ahead(S, R, x)) < Cardinality(Ahead(S, R, y))
      BY <1>c, <2>1
    <3>4. c[x] = Cardinality(Ahead(S, R, x)) /\ c[y] = Cardinality(Ahead(S, R, y))
      BY <1>d, <2>1
    <3>5. QED
      BY <3>2, <3>3, <3>4
  <2>3. \A x, y \in 1..N : c[x] = c[y] => x = y
    BY <1>c, <1>d, <2>1
  <2>4. \A n \in 1..N : \E x \in 1..N : c[x] = n - 1
    <3>1. TAKE n \in 1..N
    <3>2. PICK x \in S : Cardinality(Ahead(S, R, x)) = n - 1
      BY <1>b, <1>c
    <3>3. x \in 1..N /\ c[x] = n - 1
      BY <1>a, <1>d, <2>1, <3>2
    <3>4. QED
      BY <3>3
  <2>5. \A x \in 1..N : c[x] + 1 \in 1..N
    BY <1>b, <1>c, <1>d, <2>1
  <2>6. QED
    BY <2>2, <2>3, <2>4, <2>5
<1> DEFINE H(n) == CHOOSE i \in DOMAIN located : Cardinality({j \in DOMAIN located : Earlier(j, i)}) = n - 1
<1>11. PICK h : h = [n \in 1..N |-> H(n)]
  OBVIOUS
<1>12. \A n \in 1..N : h[n] \in 1..N /\ c[h[n]] = n - 1
  <2>1. TAKE n \in 1..N
  <2>2. \E i \in DOMAIN located : Cardinality({j \in DOMAIN located : Earlier(j, i)}) = n - 1
    <3>1. PICK i \in 1..N : c[i] = n - 1
      BY <1>10
    <3>2. {j \in DOMAIN located : Earlier(j, i)} = Ahead(1..N, R, i)
      BY <1>1, <1>8
    <3>3. Cardinality({j \in DOMAIN located : Earlier(j, i)}) = n - 1 /\ i \in DOMAIN located
      BY <1>1, <1>d, <3>1, <3>2
    <3>4. QED
      BY <3>3
  <2>3. H(n) \in DOMAIN located /\ Cardinality({j \in DOMAIN located : Earlier(j, H(n))}) = n - 1
    BY <2>2
  <2> HIDE DEF H
  <2>4. QED
    BY <1>1, <1>8, <1>11, <1>d, <2>3
<1>13. Sorted = [n \in 1..N |-> located[h[n]]]
  <2>1. Sorted = [n \in DOMAIN located |-> located[H(n)]]
    BY DEF Sorted
  <2> HIDE DEF H
  <2>2. QED
    BY <1>1, <1>11, <2>1
<1> HIDE DEF H
<1>14. h \in [1..N -> 1..N]
  BY <1>11, <1>12
<1>15. \A i, j \in 1..N : h[i] = h[j] => i = j
  <2>1. TAKE i, j \in 1..N
  <2>2. h[i] = h[j] => i - 1 = j - 1
    BY <1>12
  <2>3. QED
    BY <2>2
<1>16. \A j \in 1..N : \E i \in 1..N : h[i] = j
  <2>1. TAKE j \in 1..N
  <2>2. PICK i \in 1..N : i = c[j] + 1
    BY <1>10
  <2>3. c[h[i]] = c[j]
    BY <1>12, <2>2
  <2>4. h[i] = j
    BY <1>10, <1>12, <2>3
  <2>5. QED
    BY <2>4
<1>17. PICK T : T = Sorted /\ T = [n \in 1..N |-> T[n]] /\ \A n \in 1..N : T[n] = located[h[n]]
  BY <1>13
<1>18. Sequence(T) /\ Len(T) = N /\ DOMAIN T = 1..N
  BY <1>17, ListIs
<1>19. ASSUME NEW i \in 1..N, NEW j \in 1..N, i < j PROVE Order(T[i].relative) < Order(T[j].relative)
  <2>1. h[i] \in 1..N /\ h[j] \in 1..N /\ c[h[i]] = i - 1 /\ c[h[j]] = j - 1
    BY <1>12
  <2>2. ~(o[h[j]] < o[h[i]])
    <3>1. ~(j - 1 < i - 1)
      BY <1>19
    <3>2. QED
      <4>1. PICK a \in 1..N, b \in 1..N : a = h[i] /\ b = h[j]
        BY <2>1
      <4>2. o[b] < o[a] => c[b] < c[a]
        BY <1>10
      <4>3. QED
        BY <2>1, <3>1, <4>1, <4>2
  <2>3. h[i] # h[j]
    BY <1>15, <1>19
  <2>4. o[h[i]] # o[h[j]] /\ o[h[i]] \in Nat /\ o[h[j]] \in Nat
    BY <1>4, <2>1, <2>3
  <2>5. o[h[i]] < o[h[j]]
    BY <2>2, <2>4
  <2>6. QED
    BY <1>2, <1>17, <2>1, <2>5
<1>20. InOrderAtLast(T)
  BY <1>18, <1>19 DEF InOrderAtLast
<1>21. \A i \in 1..N : Sorted[i] = located[h[i]]
  BY <1>17
<1>22. Sequence(Sorted) /\ Len(Sorted) = Len(located) /\ DOMAIN Sorted = DOMAIN located /\ InOrderAtLast(Sorted)
  BY <1>1, <1>17, <1>18, <1>20
<1>23. /\ h \in [DOMAIN located -> DOMAIN located]
       /\ \A i, j \in DOMAIN located : h[i] = h[j] => i = j
       /\ \A j \in DOMAIN located : \E i \in DOMAIN located : h[i] = j
       /\ \A i \in DOMAIN located : Sorted[i] = located[h[i]]
  BY <1>1, <1>14, <1>15, <1>16, <1>21
<1>24. QED
  BY <1>22, <1>23

-----------------------------------------------------------------------------
(* The steps of the walk. *)

Walking ==
  /\ state = "walk" /\ WellFormed /\ Sound(disk) /\ Kept(reading, located, budget)
  /\ Shaped(pending, task, wanted, reading, listing, found, entry, located)
Still == Settled(pending, task, wanted, reading, listing, found, entry, located)
Proceeds ==
  /\ state' = "walk" /\ Kept(reading', located', budget')
  /\ Shaped(pending', task', wanted', reading', listing', found', entry', located')
  /\ Still => Settled(pending', task', wanted', reading', listing', found', entry', located')

LEMMA ResolvesTo ==
  ASSUME Sound(disk), NEW p \in Seq(Word), Resolve(p) # Nowhere
  PROVE  \E i \in DOMAIN disk.nodes, b \in DOMAIN disk.nodes, q \in Seq(Word) :
           /\ Resolve(p) = [inode |-> i, base |-> b, path |-> q] /\ Resolve(p) = Plain(b, q) /\ i # 0
<1>1. PICK b \in DOMAIN disk.nodes, q \in Seq(Word \cup STRING) :
        b = Resolve(p).base /\ q = Resolve(p).path /\ Resolve(p) = Plain(b, q)
  BY ResolvePlace DEF PlacedIn
<1>2. Word \cup STRING = Word
  BY DEF Word
<1>3. q \in Seq(Word)
  BY <1>1, <1>2
<1>4. PICK i \in DOMAIN disk.nodes : Plain(b, q) = [inode |-> i, base |-> b, path |-> q]
  BY <1>1, <1>3, PlainPlace
<1>5. i # 0
  BY DEF Sound
<1>6. QED
  BY <1>1, <1>3, <1>4, <1>5

LEMMA ChildPath ==
  ASSUME Limits.depth \in Nat, NEW t, IsTask(t), NEW p, Child(t, p)
  PROVE  /\ p \in Seq(AllNames) /\ p \in Seq(Word) /\ p # <<>> /\ Len(p) = Len(t.path) + 1 /\ Front(p) = t.path
         /\ Last(p) \in AllNames /\ p = Append(t.path, Last(p)) /\ Under(t.path, p) /\ Len(p) \in 1..(Limits.depth + 1)
<1>1. PICK x \in AllNames : p = Append(t.path, x)
  BY DEF Child
<1>2. t.path \in Seq(AllNames) /\ Len(t.path) \in Nat
  BY DEF IsTask
<1>3. p \in Seq(AllNames) /\ p # <<>> /\ Len(p) = Len(t.path) + 1 /\ Front(p) = t.path /\ Last(p) = x
      /\ \A i \in 1..Len(t.path) : p[i] = t.path[i]
  BY <1>1, <1>2, ExtendedIs
<1>4. Under(t.path, p)
  BY <1>2, <1>3 DEF Under
<1>5. Len(p) \in 1..(Limits.depth + 1)
  BY <1>2, <1>3 DEF IsTask
<1>6. QED
  BY <1>1, <1>3, <1>4, <1>5, WordsAre

LEMMA PopKeeps ==
  ASSUME Walking, Pop
  PROVE  Refuse \/ Proceeds
<1>1. SUFFICES ASSUME ~Refuse PROVE Proceeds
  OBVIOUS
<1>n. PICK n \in Nat \ {0} : n = Len(pending)
  BY SequenceIs DEF Walking, Shaped, TasksShape, Pop
<1>2. PICK last : /\ n = Len(pending) /\ last = pending[n] /\ Last(pending) = last /\ DOMAIN pending = 1..n
  <2>1. Sequence(pending) /\ pending # <<>>
    BY DEF Walking, Shaped, TasksShape, Pop
  <2>2. Len(pending) \in Nat /\ Len(pending) # 0 /\ DOMAIN pending = 1..Len(pending) /\ Last(pending) = pending[Len(pending)]
    BY <2>1, SequenceIs, FrontIs
  <2>3. QED
    BY <1>n, <2>2
<1>3. /\ task = NoTask /\ task.step = "none" /\ task' = [last EXCEPT !.step = "alias"] /\ pending' = Front(pending)
      /\ UNCHANGED <<wanted, reading, listing, found, entry, located, budget, state>>
  BY <1>1, <1>2 DEF Pop, NoTask, Popped
<1>4. /\ Sequence(pending') /\ DOMAIN pending' = 1..(n - 1) /\ \A i \in 1..(n - 1) : pending'[i] = pending[i]
  <2>1. Sequence(pending) /\ pending # <<>>
    BY DEF Walking, Shaped, TasksShape, Pop
  <2>2. Sequence(Front(pending)) /\ Len(Front(pending)) = n - 1 /\ \A i \in 1..(n - 1) : Front(pending)[i] = pending[i]
    BY <1>2, <2>1, FrontIs
  <2>3. DOMAIN Front(pending) = 1..(n - 1)
    BY <2>2, SequenceIs
  <2>4. QED
    BY <1>3, <2>2, <2>3
<1>5. n \in 1..n /\ \A i \in 1..(n - 1) : i \in 1..n /\ i # n
  OBVIOUS
<1>6. IsTask(last) /\ task'.path = last.path /\ task'.matchers = last.matchers /\ task'.depth = last.depth /\ task'.step = "alias"
      /\ task' = [path |-> task'.path, depth |-> task'.depth, matchers |-> task'.matchers, step |-> task'.step]
  <2>1. IsTask(last)
    BY <1>2, <1>5 DEF Walking, Shaped, TasksShape
  <2>2. QED
    BY <1>3, <2>1 DEF IsTask
<1>7. TasksShape(pending', task')
  <2>1. IsTask(task')
    BY <1>6 DEF IsTask
  <2>2. \A i \in DOMAIN pending' : IsTask(pending'[i]) /\ pending'[i].step = "popped"
    BY <1>2, <1>4, <1>5 DEF Walking, Shaped, TasksShape
  <2>3. QED
    BY <1>4, <1>6, <2>1, <2>2 DEF TasksShape
<1>8. wanted = <<>> /\ reading.step = "none" /\ listing = <<>> /\ found = <<>> /\ entry.step = "none"
  BY <1>3 DEF Walking, Shaped, ReadingShape, ListingShape
<1>9. ReadingShape(task', wanted', reading')
  BY <1>3, <1>8 DEF Walking, Shaped, ReadingShape
<1>10. ListingShape(task', listing', found', entry')
  <2>1. DOMAIN listing = {} /\ DOMAIN found = {}
    BY <1>8, NoneIs
  <2>2. QED
    BY <1>3, <1>8, <2>1 DEF Walking, Shaped, ListingShape
<1>11. Distinct(pending', task', listing', found', located')
  <2>1. DOMAIN listing = {} /\ DOMAIN found = {}
    BY <1>8, NoneIs
  <2>2. \A i, j \in DOMAIN pending' : i # j => Apart(pending'[i].path, pending'[j].path)
    BY <1>2, <1>4, <1>5 DEF Walking, Shaped, Distinct
  <2>3. \A i \in DOMAIN pending' : Apart(pending'[i].path, task'.path)
    BY <1>2, <1>4, <1>5, <1>6 DEF Walking, Shaped, Distinct
  <2>4. \A i \in DOMAIN located : \A j \in DOMAIN pending' : ~Under(pending'[j].path, located[i].relative)
    BY <1>2, <1>4, <1>5 DEF Walking, Shaped, Distinct
  <2>5. \A i \in DOMAIN located : ~Under(task'.path, located[i].relative)
    BY <1>2, <1>5, <1>6 DEF Walking, Shaped, Distinct
  <2>6. \A i, j \in DOMAIN located : i # j => located[i].relative # located[j].relative
    BY DEF Walking, Shaped, Distinct
  <2>7. located' = located /\ listing' = listing /\ found' = found
    BY <1>3
  <2>8. QED
    BY <2>1, <2>2, <2>3, <2>4, <2>5, <2>6, <2>7 DEF Distinct
<1>12. Kept(reading', located', budget') /\ state' = "walk"
  BY <1>3 DEF Walking
<1>13. ASSUME Still PROVE Settled(pending', task', wanted', reading', listing', found', entry', located')
  <2>1. OnTasks(pending', task', wanted')
    <3>1. Inherits(last) /\ \A i \in DOMAIN pending' : Inherits(pending'[i])
      BY <1>2, <1>4, <1>5, <1>13 DEF Still, Settled, OnTasks
    <3>2. Inherits(task')
      BY <1>6, <3>1 DEF Inherits
    <3>3. QED
      BY <1>6, <3>1, <3>2 DEF OnTasks
  <2>2. OnRead(reading') /\ OnListing(listing', found', entry')
    BY <1>3, <1>13 DEF Still, Settled
  <2>3. OnSources(pending', task', listing', found', located')
    <3>1. ASSUME NEW p, Awaited(pending, task, listing, found, p) PROVE Awaited(pending', task', listing', found', p)
      <4>1. PICK i \in 1..n : Under(pending[i].path, p)
        <5>1. DOMAIN listing = {} /\ DOMAIN found = {}
          BY <1>8, NoneIs
        <5>2. task.step \notin Early
          BY <1>3 DEF Early
        <5>3. QED
          BY <1>2, <3>1, <5>1, <5>2 DEF Awaited
      <4>2. CASE i = n
        BY <1>2, <1>6, <4>1, <4>2 DEF Awaited, Early
      <4>3. CASE i # n
        <5>1. i \in DOMAIN pending' /\ pending'[i] = pending[i]
          BY <1>4, <4>3
        <5>2. QED
          BY <4>1, <5>1 DEF Awaited
      <4>4. QED
        BY <4>2, <4>3
    <3>2. located' = located
      BY <1>3
    <3>3. QED
      BY <1>13, <3>1, <3>2 DEF Still, Settled, OnSources
  <2>4. QED
    BY <2>1, <2>2, <2>3 DEF Settled
<1>14. Shaped(pending', task', wanted', reading', listing', found', entry', located')
  <2>1. SourcesShape(located')
    BY <1>3 DEF Walking, Shaped
  <2>2. QED
    BY <1>7, <1>9, <1>10, <1>11, <2>1 DEF Shaped
<1>15. QED
  BY <1>12, <1>13, <1>14 DEF Proceeds

LEMMA AliasKeeps ==
  ASSUME Walking, Alias
  PROVE  Refuse \/ Proceeds
<1>1. SUFFICES ASSUME ~Refuse PROVE Proceeds
  OBVIOUS
<1>2. /\ task.step = "alias" /\ task' = [task EXCEPT !.step = "boundary"]
      /\ UNCHANGED <<pending, wanted, reading, listing, found, entry, located, budget, state>>
  BY <1>1 DEF Alias, At
<1>3. IsTask(task)
  BY DEF Walking, Shaped, TasksShape
<1>4. /\ task'.path = task.path /\ task'.matchers = task.matchers /\ task'.depth = task.depth /\ task'.step = "boundary"
      /\ task' = [path |-> task'.path, depth |-> task'.depth, matchers |-> task'.matchers, step |-> task'.step]
  BY <1>2, <1>3 DEF IsTask
<1>5. IsTask(task')
  BY <1>3, <1>4 DEF IsTask
<1>6. TasksShape(pending', task')
  BY <1>2, <1>4, <1>5 DEF Walking, Shaped, TasksShape
<1>7. wanted = <<>> /\ listing = <<>> /\ found = <<>>
  BY <1>2 DEF Walking, Shaped, ReadingShape, ListingShape
<1>8. ReadingShape(task', wanted', reading')
  BY <1>2, <1>7 DEF Walking, Shaped, ReadingShape
<1>9. ListingShape(task', listing', found', entry')
  <2>1. DOMAIN listing = {} /\ DOMAIN found = {}
    BY <1>7, NoneIs
  <2>2. QED
    BY <1>2, <1>7, <2>1 DEF Walking, Shaped, ListingShape
<1>10. Distinct(pending', task', listing', found', located')
  BY <1>2, <1>4 DEF Walking, Shaped, Distinct, Early
<1>11. Shaped(pending', task', wanted', reading', listing', found', entry', located')
  BY <1>2, <1>6, <1>8, <1>9, <1>10 DEF Walking, Shaped
<1>12. ASSUME Still PROVE Settled(pending', task', wanted', reading', listing', found', entry', located')
  <2>1. Inherits(task) => Inherits(task')
    BY <1>4 DEF Inherits
  <2>2. OnTasks(pending', task', wanted')
    BY <1>2, <1>4, <1>12, <2>1 DEF Still, Settled, OnTasks
  <2>3. OnRead(reading') /\ OnListing(listing', found', entry')
    BY <1>2, <1>12 DEF Still, Settled
  <2>4. \A p : Awaited(pending, task, listing, found, p) => Awaited(pending', task', listing', found', p)
    BY <1>2, <1>4 DEF Awaited, Early
  <2>5. located' = located
    BY <1>2
  <2>6. OnSources(pending', task', listing', found', located')
    BY <1>12, <2>4, <2>5 DEF Still, Settled, OnSources
  <2>7. QED
    BY <2>2, <2>3, <2>6 DEF Settled
<1>13. Kept(reading', located', budget') /\ state' = "walk"
  BY <1>2 DEF Walking
<1>14. QED
  BY <1>11, <1>12, <1>13 DEF Proceeds

(* A step of a bounded read changes nothing else.                          *)
LEMMA ReadingKeeps ==
  ASSUME Walking, UNCHANGED <<pending, task, wanted, listing, found, entry, located, budget, state>>,
         IsReading(reading'), reading'.step # "none" => wanted # <<>> /\ reading'.path = task.path \o wanted[1],
         Lies(reading'.descriptor), reading'.step = "read" => reading'.descriptor = reading'.expected,
         Still => OnRead(reading')
  PROVE  Proceeds
<1>1. ReadingShape(task', wanted', reading')
  BY DEF Walking, Shaped, ReadingShape
<1>2. Shaped(pending', task', wanted', reading', listing', found', entry', located')
  BY <1>1 DEF Walking, Shaped
<1>3. Kept(reading', located', budget')
  BY DEF Walking, Kept
<1>4. Still => Settled(pending', task', wanted', reading', listing', found', entry', located')
  BY DEF Still, Settled
<1>5. state' = "walk"
  BY DEF Walking
<1>6. QED
  BY <1>2, <1>3, <1>4, <1>5 DEF Proceeds

LEMMA ReadPath ==
  ASSUME Walking, reading.step # "none"
  PROVE  /\ wanted # <<>> /\ wanted[1] \in {exclude, gitignore, ignore} /\ task.step = "ignores"
         /\ reading.path = task.path \o wanted[1]
         /\ task.path \in Seq(AllNames) /\ task.path \in Seq(Word) /\ wanted[1] \in Seq(Word)
         /\ reading.path \in Seq(Word) /\ reading.path # <<>> /\ Last(reading.path) = Last(wanted[1])
<1>1. /\ wanted # <<>> /\ reading.path = task.path \o wanted[1] /\ task.step = "ignores"
      /\ wanted \in {<<>>, <<ignore>>, <<gitignore, ignore>>, <<exclude, gitignore, ignore>>}
  BY DEF Walking, Shaped, ReadingShape
<1>2. wanted[1] \in {exclude, gitignore, ignore}
  BY <1>1
<1>3. task.path \in Seq(AllNames)
  BY DEF Walking, Shaped, TasksShape, IsTask
<1>4. PICK w \in Seq(Word) : w = wanted[1]
  BY <1>2, RuleFiles
<1>5. PICK p \in Seq(Word) : p = task.path
  BY <1>3, WordsAre
<1>6. Len(w) \in Nat /\ Len(w) # 0
  <2>1. Len(exclude) = 3 /\ Len(gitignore) = 1 /\ Len(ignore) = 1
    BY DEF exclude, gitignore, ignore
  <2>2. Len(w) = 1 \/ Len(w) = 3
    BY <1>2, <1>4, <2>1
  <2>3. PICK k : k = Len(w)
    OBVIOUS
  <2>4. k = 1 \/ k = 3
    BY <2>2, <2>3
  <2>5. k \in Nat /\ k # 0
    BY <2>4
  <2>6. QED
    BY <2>3, <2>5
<1>7. PICK q \in Seq(Word) : q = p \o w /\ Len(q) = Len(p) + Len(w) /\ q[Len(p) + Len(w)] = w[Len(w)]
  <2>1. /\ p \o w \in Seq(Word) /\ Len(p \o w) = Len(p) + Len(w)
        /\ \A i \in 1..Len(p) + Len(w) : (p \o w)[i] = IF i <= Len(p) THEN p[i] ELSE w[i - Len(p)]
    BY ConcatProperties
  <2>a. Len(p) \in Nat
    OBVIOUS
  <2>b. Len(w) \in Nat /\ Len(w) # 0
    BY <1>6
  <2>2. PICK m \in Nat, k \in Nat : m = Len(p) /\ k = Len(w) /\ k # 0
    BY <2>a, <2>b, Zenon
  <2>3. m + k \in 1..m + k /\ ~(m + k <= m) /\ m + k - m = k
    BY <2>2
  <2>4. (p \o w)[m + k] = w[k]
    BY <2>1, <2>2, <2>3
  <2>5. QED
    BY <2>1, <2>2, <2>4
<1>8. q # <<>> /\ Last(q) = Last(w)
  <2>1. Len(p) \in Nat /\ Len(q) # 0
    BY <1>6, <1>7
  <2>2. QED
    BY <1>7, <2>1, EmptySeq DEF Last
<1>9. QED
  BY <1>1, <1>2, <1>3, <1>4, <1>5, <1>7, <1>8

LEMMA StartReadKeeps ==
  ASSUME Walking, StartRead
  PROVE  Refuse \/ Proceeds
<1>1. /\ wanted # <<>> /\ reading' = Start(task.path \o wanted[1])
      /\ UNCHANGED <<pending, task, wanted, listing, found, entry, located, budget, state>>
  BY DEF StartRead
<1>2. /\ reading'.path = task.path \o wanted[1] /\ reading'.step = "exists" /\ reading'.canonical = <<>>
      /\ reading'.opened = 0 /\ reading'.descriptor = Base
      /\ reading' = [path |-> reading'.path, step |-> reading'.step, canonical |-> reading'.canonical,
                     expected |-> reading'.expected, descriptor |-> reading'.descriptor, opened |-> reading'.opened]
  BY <1>1 DEF Start, NoReading
<1>3. IsReading(reading')
  <2>1. <<>> \in Seq(Word)
    BY EmptySeq
  <2>2. \A r : r.step = "exists" /\ r.canonical = <<>> /\ r.opened = 0 /\ r.descriptor = Base
                /\ r = [path |-> r.path, step |-> r.step, canonical |-> r.canonical,
                        expected |-> r.expected, descriptor |-> r.descriptor, opened |-> r.opened]
              => IsReading(r)
    BY <2>1 DEF IsReading
  <2>3. QED
    BY <1>2, <2>2
<1>4. Lies(reading'.descriptor)
  BY <1>2, RootIs DEF Walking, Sound, Lies
<1>5. OnRead(reading')
  BY <1>2 DEF OnRead
<1>6. QED
  BY <1>1, <1>2, <1>3, <1>4, <1>5, ReadingKeeps

LEMMA ContainedKeeps ==
  ASSUME Walking, Contained
  PROVE  Refuse \/ Proceeds
<1>1. SUFFICES ASSUME ~Refuse PROVE Proceeds
  OBVIOUS
<1>2. PICK at : at = Resolve(reading.path)
  OBVIOUS
<1>3. /\ reading.step = "resolve" /\ Inside(at) /\ reading' = [reading EXCEPT !.step = "regular", !.canonical = at.path]
      /\ UNCHANGED <<pending, task, wanted, listing, found, entry, located, budget, state>>
  BY <1>1, <1>2 DEF Contained, Reading, Advance
<1>4. IsReading(reading) /\ Lies(reading.descriptor)
  BY DEF Walking, Shaped, ReadingShape, Kept
<1>5. /\ reading'.path = reading.path /\ reading'.step = "regular" /\ reading'.canonical = at.path
      /\ reading'.opened = reading.opened /\ reading'.descriptor = reading.descriptor
      /\ reading' = [path |-> reading'.path, step |-> reading'.step, canonical |-> reading'.canonical,
                     expected |-> reading'.expected, descriptor |-> reading'.descriptor, opened |-> reading'.opened]
  BY <1>3, <1>4 DEF IsReading
<1>6. at.path \in Seq(Word)
  <2>1. at # Nowhere
    BY <1>3, RootIs DEF Inside, Nowhere, From, Walking, Sound
  <2>2. reading.path \in Seq(Word)
    BY <1>3, ReadPath
  <2>3. PICK p \in Seq(Word) : p = reading.path
    BY <2>2
  <2>4. QED
    BY <1>2, <2>1, <2>3, ResolvesTo DEF Walking
<1>7. IsReading(reading')
  BY <1>3, <1>4, <1>5, <1>6 DEF IsReading
<1>8. wanted # <<>> /\ reading'.path = task.path \o wanted[1]
  BY <1>3, <1>5, ReadPath
<1>9. OnRead(reading')
  BY <1>2, <1>3, <1>5 DEF OnRead
<1>10. QED
  BY <1>3, <1>4, <1>5, <1>7, <1>8, <1>9, ReadingKeeps

LEMMA RegularKeeps ==
  ASSUME Walking, Regular
  PROVE  Refuse \/ Proceeds
<1>1. SUFFICES ASSUME ~Refuse PROVE Proceeds
  OBVIOUS
<1>2. /\ reading.step = "regular" /\ IsA("file", Resolve(reading.canonical)) /\ reading' = [reading EXCEPT !.step = "inspect"]
      /\ UNCHANGED <<pending, task, wanted, listing, found, entry, located, budget, state>>
  BY <1>1 DEF Regular, Reading, Advance
<1>3. IsReading(reading) /\ Lies(reading.descriptor)
  BY DEF Walking, Shaped, ReadingShape, Kept
<1>4. /\ reading'.path = reading.path /\ reading'.step = "inspect" /\ reading'.canonical = reading.canonical
      /\ reading'.opened = reading.opened /\ reading'.descriptor = reading.descriptor
      /\ reading' = [path |-> reading'.path, step |-> reading'.step, canonical |-> reading'.canonical,
                     expected |-> reading'.expected, descriptor |-> reading'.descriptor, opened |-> reading'.opened]
  BY <1>2, <1>3 DEF IsReading
<1>5. reading.canonical # <<>>
  <2>1. Dir(<<>>) /\ Resolve(<<>>) = Plain(Base, <<>>)
    BY RootIs DEF Walking
  <2>2. QED
    BY <1>2, <2>1 DEF Dir, IsA
<1>6. IsReading(reading')
  BY <1>2, <1>3, <1>4, <1>5 DEF IsReading
<1>7. wanted # <<>> /\ reading'.path = task.path \o wanted[1]
  BY <1>2, <1>4, ReadPath
<1>8. Still => OnRead(reading')
  BY <1>2, <1>4 DEF Still, Settled, OnRead
<1>9. QED
  BY <1>2, <1>3, <1>4, <1>6, <1>7, <1>8, ReadingKeeps

LEMMA InspectKeeps ==
  ASSUME Walking, Inspect
  PROVE  Refuse \/ Proceeds
<1>1. SUFFICES ASSUME ~Refuse PROVE Proceeds
  OBVIOUS
<1>2. PICK at : at = Resolve(reading.canonical)
  OBVIOUS
<1>3. /\ reading.step = "inspect" /\ reading' = [reading EXCEPT !.step = "open", !.expected = at.inode]
      /\ UNCHANGED <<pending, task, wanted, listing, found, entry, located, budget, state>>
  BY <1>1, <1>2 DEF Inspect, Reading, Advance
<1>4. IsReading(reading) /\ Lies(reading.descriptor)
  BY DEF Walking, Shaped, ReadingShape, Kept
<1>5. /\ reading'.path = reading.path /\ reading'.step = "open" /\ reading'.canonical = reading.canonical
      /\ reading'.opened = reading.opened /\ reading'.descriptor = reading.descriptor
      /\ reading' = [path |-> reading'.path, step |-> reading'.step, canonical |-> reading'.canonical,
                     expected |-> reading'.expected, descriptor |-> reading'.descriptor, opened |-> reading'.opened]
  BY <1>3, <1>4 DEF IsReading
<1>6. reading.canonical # <<>> /\ reading.canonical \in Seq(Word) /\ reading.opened = 0 /\ reading.descriptor = Base
  BY <1>3, <1>4 DEF IsReading
<1>7. IsReading(reading')
  BY <1>3, <1>4, <1>5, <1>6 DEF IsReading
<1>8. wanted # <<>> /\ reading'.path = task.path \o wanted[1]
  BY <1>3, <1>5, ReadPath
<1>9. ASSUME Still PROVE OnRead(reading')
  <2>1. Inside(Resolve(reading'.path)) /\ reading'.canonical = Resolve(reading'.path).path
    BY <1>3, <1>5, <1>9 DEF Still, Settled, OnRead
  <2>2. 0 < Len(reading.canonical)
    BY <1>6, EmptySeq
  <2>3. Prefix(reading.canonical, 0) = <<>>
    BY <1>6, PrefixesAre
  <2>4. Plain(Base, <<>>) # Nowhere /\ Plain(Base, <<>>).inode = Base
    BY RootIs DEF Walking, Dir, IsA, From
  <2>5. QED
    BY <1>5, <1>6, <2>1, <2>2, <2>3, <2>4 DEF OnRead
<1>10. QED
  BY <1>3, <1>4, <1>5, <1>7, <1>8, <1>9, ReadingKeeps

LEMMA OpenedKeeps ==
  ASSUME Walking, Opened
  PROVE  Refuse \/ Proceeds
<1>1. SUFFICES ASSUME ~Refuse PROVE Proceeds
  OBVIOUS
<1>2. /\ reading.step = "opened" /\ Kind(reading.descriptor) = "file" /\ reading.descriptor = reading.expected
      /\ reading' = [reading EXCEPT !.step = "read"]
      /\ UNCHANGED <<pending, task, wanted, listing, found, entry, located, budget, state>>
  BY <1>1 DEF Opened, Reading, Advance
<1>3. IsReading(reading) /\ Lies(reading.descriptor)
  BY DEF Walking, Shaped, ReadingShape, Kept
<1>4. /\ reading'.path = reading.path /\ reading'.step = "read" /\ reading'.canonical = reading.canonical
      /\ reading'.opened = reading.opened /\ reading'.descriptor = reading.descriptor /\ reading'.expected = reading.expected
      /\ reading' = [path |-> reading'.path, step |-> reading'.step, canonical |-> reading'.canonical,
                     expected |-> reading'.expected, descriptor |-> reading'.descriptor, opened |-> reading'.opened]
  BY <1>2, <1>3 DEF IsReading
<1>5. IsReading(reading')
  BY <1>2, <1>3, <1>4 DEF IsReading
<1>6. wanted # <<>> /\ reading'.path = task.path \o wanted[1]
  BY <1>2, <1>4, ReadPath
<1>7. Still => OnRead(reading')
  BY <1>2, <1>4 DEF Still, Settled, OnRead
<1>8. QED
  BY <1>2, <1>3, <1>4, <1>5, <1>6, <1>7, ReadingKeeps

LEMMA OpenComponentKeeps ==
  ASSUME Walking, OpenComponent
  PROVE  Refuse \/ Proceeds
<1>1. SUFFICES ASSUME ~Refuse PROVE Proceeds
  OBVIOUS
<1>2. PICK n, c, d, next : /\ n = reading.opened + 1 /\ c = reading.canonical /\ d = reading.descriptor
                           /\ next = Opens(From(d), c[n])
  OBVIOUS
<1>3. /\ reading.step = "open" /\ next # Nowhere
      /\ reading' = [reading EXCEPT !.opened = n, !.descriptor = next.inode, !.step = IF n = Len(c) THEN "opened" ELSE @]
      /\ UNCHANGED <<pending, task, wanted, listing, found, entry, located, budget, state>>
  BY <1>1, <1>2 DEF OpenComponent, Reading, Advance
<1>4. IsReading(reading) /\ Lies(d)
  BY <1>2 DEF Walking, Shaped, ReadingShape, Kept
<1>5. /\ reading'.path = reading.path /\ reading'.canonical = c /\ reading'.expected = reading.expected
      /\ reading'.opened = n /\ reading'.descriptor = next.inode
      /\ reading'.step = (IF n = Len(c) THEN "opened" ELSE "open")
      /\ reading' = [path |-> reading'.path, step |-> reading'.step, canonical |-> reading'.canonical,
                     expected |-> reading'.expected, descriptor |-> reading'.descriptor, opened |-> reading'.opened]
  BY <1>2, <1>3, <1>4 DEF IsReading
<1>6. n \in Nat /\ n - 1 = reading.opened /\ n # 0 /\ c \in Seq(Word) /\ c # <<>>
  BY <1>2, <1>3, <1>4 DEF IsReading
<1>7. IsReading(reading')
  <2>1. \A r : /\ r.canonical \in Seq(Word) /\ r.opened \in Nat /\ r.step \in {"open", "opened"} /\ r.canonical # <<>>
               /\ r = [path |-> r.path, step |-> r.step, canonical |-> r.canonical,
                       expected |-> r.expected, descriptor |-> r.descriptor, opened |-> r.opened]
               => IsReading(r)
    BY DEF IsReading
  <2>2. QED
    BY <1>5, <1>6, <2>1
<1>8. next = Below(From(d), c[n])
  BY <1>2, <1>3 DEF Opens
<1>9. /\ Kind(d) = "directory" /\ d \in DOMAIN disk.entries /\ c[n] \in DOMAIN disk.entries[d]
      /\ next.inode = disk.entries[d][c[n]]
  <2>1. IsA("directory", From(d)) /\ c[n] \in DOMAIN disk.entries[d] /\ next.inode = disk.entries[d][c[n]]
    BY <1>3, <1>8 DEF Below, From
  <2>2. Kind(d) = "directory"
    BY <2>1 DEF IsA, From
  <2>3. d \in DOMAIN disk.entries
    BY <1>4, <2>2 DEF Lies, Kind, Walking, Sound
  <2>4. QED
    BY <2>1, <2>2, <2>3
<1>10. Lies(next.inode)
  BY <1>4, <1>9 DEF Lies, Walking, Sound
<1>11. wanted # <<>> /\ reading'.path = task.path \o wanted[1] /\ reading.path \in Seq(Word)
  BY <1>3, <1>5, ReadPath
<1>12. ASSUME Still PROVE OnRead(reading')
  <2>1. /\ Inside(Resolve(reading.path)) /\ c = Resolve(reading.path).path
        /\ n - 1 < Len(c) /\ Plain(Base, Prefix(c, n - 1)) # Nowhere /\ d = Plain(Base, Prefix(c, n - 1)).inode
    BY <1>2, <1>3, <1>6, <1>12 DEF Still, Settled, OnRead
  <2>2. n \in 1..Len(c) /\ n - 1 \in 0..Len(c)
    BY <1>6, <2>1
  <2>3. PICK q \in Seq(Word), x \in Word : q = Prefix(c, n - 1) /\ x = c[n] /\ Prefix(c, n) = Append(q, x)
    <3>1. Prefix(c, n - 1) \in Seq(Word) /\ c[n] \in Word
      BY <1>6, <2>2, PrefixIs
    <3>2. Prefix(c, n) = Append(Prefix(c, n - 1), c[n])
      BY <1>6, <2>2, PrefixesAre
    <3>3. QED
      BY <3>1, <3>2
  <2>4. Plain(Base, Append(q, x)) = Below(Plain(Base, q), x)
    BY PlainSteps
  <2>5. PICK at, here : at = Plain(Base, q) /\ here = Below(at, x)
    OBVIOUS
  <2>6. at # Nowhere /\ at.inode = d
    BY <2>1, <2>3, <2>5
  <2>7. here.inode = next.inode /\ here # Nowhere
    <3>1. IsA("directory", at)
      BY <1>9, <2>6 DEF IsA
    <3>2. here.inode = disk.entries[d][x]
      BY <1>9, <2>3, <2>5, <2>6, <3>1 DEF Below
    <3>3. here.inode = next.inode
      BY <1>9, <2>3, <3>2
    <3>4. next.inode # 0
      BY <1>10 DEF Lies, Walking, Sound
    <3>5. QED
      BY <3>3, <3>4 DEF Nowhere, From
  <2>8. Plain(Base, Prefix(c, n)) = here
    BY <2>3, <2>4, <2>5
  <2>9. CASE n = Len(c)
    <3>1. reading'.step = "opened"
      BY <1>5, <2>9
    <3>2. Prefix(c, n) = c
      BY <1>6, <2>9, PrefixesAre
    <3>3. Resolve(reading.path) = Plain(Base, c)
      <4>1. Resolve(reading.path) # Nowhere
        BY <2>1, RootIs DEF Inside, Nowhere, From, Walking, Sound
      <4>2. PICK p \in Seq(Word) : p = reading.path
        BY <1>11
      <4>3. PICK b \in DOMAIN disk.nodes, r \in Seq(Word), i \in DOMAIN disk.nodes :
              Resolve(p) = [inode |-> i, base |-> b, path |-> r] /\ Resolve(p) = Plain(b, r)
        BY <4>1, <4>2, ResolvesTo DEF Walking
      <4>4. b = Base /\ r = c
        BY <2>1, <4>2, <4>3 DEF Inside
      <4>5. QED
        BY <4>2, <4>3, <4>4
    <3>4. reading'.descriptor = Resolve(reading'.path).inode
      BY <1>5, <2>7, <2>8, <3>2, <3>3
    <3>5. QED
      BY <1>5, <2>1, <3>1, <3>4 DEF OnRead
  <2>10. CASE n # Len(c)
    <3>1. reading'.step = "open"
      BY <1>5, <2>10
    <3>2. n < Len(c)
      BY <2>2, <2>10
    <3>3. reading'.descriptor = Plain(Base, Prefix(c, n)).inode /\ Plain(Base, Prefix(c, n)) # Nowhere
      BY <1>5, <2>7, <2>8
    <3>4. QED
      BY <1>5, <2>1, <3>1, <3>2, <3>3 DEF OnRead
  <2>11. QED
    BY <2>9, <2>10
<1>13. reading'.step # "read"
  BY <1>5
<1>14. QED
  BY <1>3, <1>5, <1>7, <1>10, <1>11, <1>12, <1>13, ReadingKeeps

(* What a directory's matchers say, once one more file is read.            *)
LEMMA ChainAdded ==
  ASSUME NEW files, Sequence(files), NEW f, NEW x
  PROVE  Chain(Append(files, f), x) = IF Decides(f, x) # "no" THEN Decides(f, x) ELSE Chain(files, x)
<1>1. PICK S : files \in Seq(S)
  BY DEF Sequence
<1>2. PICK T : T = S \cup {f}
  OBVIOUS
<1>3. files \in Seq(T) /\ f \in T
  BY <1>1, <1>2, SeqMonotonic
<1>4. QED
  BY <1>3, ChainStep

LEMMA FileNames ==
  /\ Last(exclude) = "exclude" /\ Last(gitignore) = ".gitignore" /\ Last(ignore) = ".ignore"
  /\ exclude # gitignore /\ exclude # ignore /\ gitignore # ignore
<1>1. Len(exclude) = 3 /\ Len(gitignore) = 1 /\ Len(ignore) = 1
  BY DEF exclude, gitignore, ignore
<1>2. exclude[3] = "exclude" /\ gitignore[1] = ".gitignore" /\ ignore[1] = ".ignore"
  BY DEF exclude, gitignore, ignore
<1>3. QED
  BY <1>1, <1>2 DEF Last

LEMMA WantedAre ==
  ASSUME NEW w, w \in {<<>>, <<ignore>>, <<gitignore, ignore>>, <<exclude, gitignore, ignore>>}, w # <<>>
  PROVE  \/ Len(w) = 3 /\ w[1] = exclude /\ Tail(w) = <<gitignore, ignore>> /\ Len(Tail(w)) = 2
         \/ Len(w) = 2 /\ w[1] = gitignore /\ Tail(w) = <<ignore>> /\ Len(Tail(w)) = 1
         \/ Len(w) = 1 /\ w[1] = ignore /\ Tail(w) = <<>> /\ Len(Tail(w)) = 0
<1>1. CASE w = <<exclude, gitignore, ignore>>
  <2>1. w[1] = exclude /\ Len(w) = 3 /\ Tail(w) = <<gitignore, ignore>>
    BY <1>1
  <2>2. Len(<<gitignore, ignore>>) = 2
    OBVIOUS
  <2>3. QED
    BY <2>1, <2>2
<1>2. CASE w = <<gitignore, ignore>>
  <2>1. w[1] = gitignore /\ Len(w) = 2 /\ Tail(w) = <<ignore>>
    BY <1>2
  <2>2. Len(<<ignore>>) = 1
    OBVIOUS
  <2>3. QED
    BY <2>1, <2>2
<1>3. CASE w = <<ignore>>
  <2>1. w[1] = ignore /\ Len(w) = 1 /\ Tail(w) = <<>>
    BY <1>3
  <2>2. Len(<<>>) = 0
    OBVIOUS
  <2>3. QED
    BY <2>1, <2>2
<1>4. QED
  BY <1>1, <1>2, <1>3

LEMMA ToldOneMore ==
  ASSUME NEW t, IsTask(t), NEW w, w \in {<<ignore>>, <<gitignore, ignore>>, <<exclude, gitignore, ignore>>}, Told(t, w),
         NEW u, u.path = t.path, u.matchers = WithPatterns(t.matchers, Last(w[1]), PatternsAt(t.path \o w[1]))
  PROVE  Told(u, Tail(w))
<1>p. PICK p \in Seq(Word) : p = t.path
  BY WordsAre DEF IsTask
<1>1. PICK m, patterns : p = t.path /\ m = t.matchers /\ patterns = PatternsAt(p \o w[1])
  BY <1>p
<1>2. /\ m = [dot |-> m.dot, git |-> m.git, exclude |-> m.exclude] /\ Sequence(m.dot) /\ Sequence(m.git)
      /\ u.matchers = WithPatterns(m, Last(w[1]), patterns) /\ u.path = p
  BY <1>1 DEF IsTask, IsMatchers
<1>3. Len(p) \in Nat /\ Home(p) \in 0..Len(p) /\ Home(p) \in Nat /\ Prefix(p, Len(p)) = p /\ (HasGit(p) => Home(p) = Len(p))
  BY HomeIs, PrefixesAre
<1>4. Dir(p) /\ Good(p)
  BY <1>1 DEF Told
<1>5. \A x : Decides(<<>>, x) = "no" /\ Chain(<<>>, x) = "no"
  BY NoRules
<1>6. /\ Last(exclude) = "exclude" /\ Last(gitignore) = ".gitignore" /\ Last(ignore) = ".ignore"
  BY FileNames
<1>7. w # <<>>
  OBVIOUS
<1>8. CASE Len(w) = 3 /\ w[1] = exclude /\ Len(Tail(w)) = 2
  <2>1. HasGit(p) /\ ToldGit(t, Len(p) - 1) /\ ToldDot(t, Len(p) - 1)
    BY <1>1, <1>8 DEF Told
  <2>2. u.matchers.dot = m.dot /\ u.matchers.git = m.git
        /\ u.matchers.exclude = (IF patterns = <<>> THEN <<>> ELSE <<patterns>>)
    BY <1>2, <1>6, <1>8 DEF WithPatterns
  <2>3. \A x : Chain(u.matchers.exclude, x) = Decides(patterns, x)
    BY <1>5, <2>2, OneFile
  <2>4. \A x : Barred(p, x) = Decides(patterns, x)
    BY <1>1, <1>3, <1>8, <2>1 DEF Barred, Excludes
  <2>5. ToldExclude(u) /\ ToldGit(u, Len(p) - 1) /\ ToldDot(u, Len(p) - 1)
    BY <1>1, <1>2, <2>1, <2>2, <2>3, <2>4 DEF ToldExclude, ToldGit, ToldDot
  <2>6. QED
    BY <1>2, <1>4, <1>8, <2>5 DEF Told
<1>9. CASE Len(w) = 2 /\ w[1] = gitignore /\ Len(Tail(w)) = 1
  <2>1. ToldExclude(t) /\ ToldGit(t, Len(p) - 1) /\ ToldDot(t, Len(p) - 1)
    BY <1>1, <1>9 DEF Told
  <2>2. u.matchers.dot = m.dot /\ u.matchers.exclude = m.exclude
        /\ u.matchers.git = (IF patterns = <<>> THEN m.git ELSE Append(m.git, patterns))
    BY <1>2, <1>6, <1>9 DEF WithPatterns
  <2>3. ASSUME NEW x PROVE Chain(u.matchers.git, x) = Upto(p, Home(p), Len(p), gitignore, x)
    <3>1. Chain(u.matchers.git, x) = IF Decides(patterns, x) # "no" THEN Decides(patterns, x) ELSE Chain(m.git, x)
      BY <1>2, <1>5, <2>2, ChainAdded
    <3>2. Says(p, Len(p), gitignore, x) = Decides(patterns, x)
      BY <1>1, <1>3, <1>9 DEF Says
    <3>3. PICK h \in Nat, k \in Int : h = Home(p) /\ k = Len(p) /\ h <= k
      BY <1>3
    <3>4. Upto(p, h, k, gitignore, x)
            = IF Says(p, k, gitignore, x) # "no" THEN Says(p, k, gitignore, x) ELSE Upto(p, h, k - 1, gitignore, x)
      <4>1. h <= k
        BY <3>3
      <4>2. QED
        BY <4>1, UptoStep
    <3>5. Chain(m.git, x) = Upto(p, h, k - 1, gitignore, x)
      BY <1>1, <2>1, <3>3 DEF ToldGit
    <3>6. QED
      BY <3>1, <3>2, <3>3, <3>4, <3>5
  <2>4. ToldExclude(u) /\ ToldGit(u, Len(p)) /\ ToldDot(u, Len(p) - 1)
    BY <1>1, <1>2, <2>1, <2>2, <2>3 DEF ToldExclude, ToldGit, ToldDot
  <2>5. PICK k : k = Len(Tail(w)) /\ k = 1
    BY <1>9, Zenon
  <2>6. k # 3 /\ k \notin {2, 3} /\ k \in {1, 2, 3}
    <3>1. k = 1
      BY <2>5, Zenon
    <3>2. QED
      BY <3>1
  <2>7. QED
    BY <1>2, <1>4, <2>4, <2>5, <2>6, Zenon DEF Told
<1>10. CASE Len(w) = 1 /\ w[1] = ignore /\ Len(Tail(w)) = 0
  <2>1. ToldExclude(t) /\ ToldGit(t, Len(p)) /\ ToldDot(t, Len(p) - 1)
    BY <1>1, <1>10 DEF Told
  <2>2. u.matchers.git = m.git /\ u.matchers.exclude = m.exclude
        /\ u.matchers.dot = (IF patterns = <<>> THEN m.dot ELSE Append(m.dot, patterns))
    BY <1>2, <1>6, <1>10 DEF WithPatterns
  <2>3. ASSUME NEW x PROVE Chain(u.matchers.dot, x) = Upto(p, 0, Len(p), ignore, x)
    <3>1. Chain(u.matchers.dot, x) = IF Decides(patterns, x) # "no" THEN Decides(patterns, x) ELSE Chain(m.dot, x)
      BY <1>2, <1>5, <2>2, ChainAdded
    <3>2. Says(p, Len(p), ignore, x) = Decides(patterns, x)
      BY <1>1, <1>3, <1>10 DEF Says
    <3>3. PICK k \in Int : k = Len(p) /\ 0 <= k
      BY <1>3
    <3>4. Upto(p, 0, k, ignore, x)
            = IF Says(p, k, ignore, x) # "no" THEN Says(p, k, ignore, x) ELSE Upto(p, 0, k - 1, ignore, x)
      BY <3>3, UptoStep
    <3>5. Chain(m.dot, x) = Upto(p, 0, k - 1, ignore, x)
      BY <1>1, <2>1, <3>3 DEF ToldDot
    <3>6. QED
      BY <3>1, <3>2, <3>3, <3>4, <3>5
  <2>4. ToldExclude(u) /\ ToldGit(u, Len(p)) /\ ToldDot(u, Len(p))
    BY <1>1, <1>2, <2>1, <2>2, <2>3 DEF ToldExclude, ToldGit, ToldDot
  <2>5. PICK k : k = Len(Tail(w)) /\ k = 0
    BY <1>10, Zenon
  <2>6. k # 3 /\ k \notin {2, 3} /\ k \notin {1, 2, 3}
    <3>1. k = 0
      BY <2>5, Zenon
    <3>2. QED
      BY <3>1
  <2>7. QED
    BY <1>2, <1>4, <2>4, <2>5, <2>6, Zenon DEF Told
<1>11. QED
  BY <1>7, <1>8, <1>9, <1>10, WantedAre

LEMMA FinishedKeeps ==
  ASSUME Walking, reading.step # "none", NEW patterns, NEW spent, Finished(patterns, spent),
         Kept(NoReading, located, spent), Still => patterns = PatternsAt(reading.path)
  PROVE  Proceeds
<1>1. PICK w : w = wanted
  OBVIOUS
<1>2. /\ w \in {<<ignore>>, <<gitignore, ignore>>, <<exclude, gitignore, ignore>>} /\ w # <<>> /\ task.step = "ignores"
      /\ reading.path = task.path \o w[1] /\ Last(reading.path) = Last(w[1])
  BY <1>1, ReadPath DEF Walking, Shaped, ReadingShape
<1>3. /\ task' = [task EXCEPT !.matchers = WithPatterns(task.matchers, Last(w[1]), patterns)]
      /\ budget' = spent /\ wanted' = Tail(w) /\ reading' = NoReading
      /\ UNCHANGED <<pending, listing, found, entry, located, state>>
  BY <1>1, <1>2 DEF Finished
<1>4. IsTask(task) /\ IsMatchers(task.matchers)
  BY DEF Walking, Shaped, TasksShape, IsTask
<1>5. /\ task'.path = task.path /\ task'.depth = task.depth /\ task'.step = "ignores"
      /\ task'.matchers = WithPatterns(task.matchers, Last(w[1]), patterns)
      /\ task' = [path |-> task'.path, depth |-> task'.depth, matchers |-> task'.matchers, step |-> task'.step]
  BY <1>2, <1>3, <1>4 DEF IsTask
<1>6. IsMatchers(task'.matchers)
  <2>1. PICK m : m = task.matchers
    OBVIOUS
  <2>2. /\ m = [dot |-> m.dot, git |-> m.git, exclude |-> m.exclude] /\ Sequence(m.dot) /\ Sequence(m.git)
    BY <1>4, <2>1 DEF IsMatchers
  <2>3. Sequence(Append(m.dot, patterns)) /\ Sequence(Append(m.git, patterns))
    BY <2>2, AppendedIs
  <2>4. PICK e, g, d : e = (IF patterns = <<>> THEN <<>> ELSE <<patterns>>) /\ g = Append(m.git, patterns) /\ d = Append(m.dot, patterns)
    OBVIOUS
  <2>5. \/ task'.matchers = [m EXCEPT !.exclude = e]
        \/ task'.matchers = m
        \/ task'.matchers = [m EXCEPT !.git = g]
        \/ task'.matchers = [m EXCEPT !.dot = d]
    BY <1>5, <2>1, <2>4 DEF WithPatterns
  <2>6. QED
    BY <2>2, <2>3, <2>4, <2>5 DEF IsMatchers
<1>7. TasksShape(pending', task')
  <2>1. IsTask(task')
    BY <1>4, <1>5, <1>6 DEF IsTask
  <2>2. QED
    BY <1>3, <1>5, <2>1 DEF Walking, Shaped, TasksShape
<1>8. ReadingShape(task', wanted', reading')
  <2>1. Tail(w) \in {<<>>, <<ignore>>, <<gitignore, ignore>>, <<exclude, gitignore, ignore>>}
    <3>1. Tail(w) = <<gitignore, ignore>> \/ Tail(w) = <<ignore>> \/ Tail(w) = <<>>
      BY <1>2, WantedAre
    <3>2. QED
      BY <3>1
  <2>2. IsReading(NoReading) /\ NoReading.step = "none"
    BY DEF IsReading, NoReading
  <2>3. QED
    BY <1>3, <1>5, <2>1, <2>2 DEF ReadingShape
<1>9. ListingShape(task', listing', found', entry') /\ Distinct(pending', task', listing', found', located')
  <2>1. ListingShape(task', listing', found', entry')
    BY <1>2, <1>3, <1>5 DEF Walking, Shaped, ListingShape, Child
  <2>2. Distinct(pending', task', listing', found', located')
    BY <1>2, <1>3, <1>5 DEF Walking, Shaped, Distinct
  <2>3. QED
    BY <2>1, <2>2
<1>10. Shaped(pending', task', wanted', reading', listing', found', entry', located')
  BY <1>3, <1>7, <1>8, <1>9 DEF Walking, Shaped
<1>11. ASSUME Still PROVE Settled(pending', task', wanted', reading', listing', found', entry', located')
  <2>1. Told(task', Tail(w))
    <3>1. Told(task, w)
      BY <1>1, <1>2, <1>11 DEF Still, Settled, OnTasks
    <3>2. task'.matchers = WithPatterns(task.matchers, Last(w[1]), PatternsAt(task.path \o w[1]))
      BY <1>2, <1>5, <1>11
    <3>3. PICK t, u : t = task /\ u = task'
      OBVIOUS
    <3>4. IsTask(t) /\ Told(t, w) /\ u.path = t.path /\ u.matchers = WithPatterns(t.matchers, Last(w[1]), PatternsAt(t.path \o w[1]))
      BY <1>4, <1>5, <3>1, <3>2, <3>3
    <3>5. Told(u, Tail(w))
      BY <1>2, <3>4, ToldOneMore
    <3>6. QED
      BY <3>3, <3>5
  <2>2. OnTasks(pending', task', wanted')
    BY <1>2, <1>3, <1>5, <1>11, <2>1 DEF Still, Settled, OnTasks
  <2>3. OnRead(reading')
    BY <1>3 DEF OnRead, NoReading
  <2>4. OnListing(listing', found', entry')
    BY <1>3, <1>11 DEF Still, Settled
  <2>5. \A p : Awaited(pending, task, listing, found, p) => Awaited(pending', task', listing', found', p)
    BY <1>2, <1>3, <1>5 DEF Awaited
  <2>6. OnSources(pending', task', listing', found', located')
    BY <1>3, <1>11, <2>5 DEF Still, Settled, OnSources
  <2>7. QED
    BY <2>2, <2>3, <2>4, <2>6 DEF Settled
<1>12. Kept(reading', located', budget') /\ state' = "walk"
  BY <1>3 DEF Walking
<1>13. QED
  BY <1>10, <1>11, <1>12 DEF Proceeds

LEMMA ExistsKeeps ==
  ASSUME Walking, Exists
  PROVE  Refuse \/ Proceeds
<1>1. SUFFICES ASSUME ~Refuse PROVE Proceeds
  OBVIOUS
<1>2. reading.step = "exists"
  BY DEF Exists, Reading
<1>3. CASE Entry(reading.path) = Nowhere /\ Finished(<<>>, budget)
  <2>1. Kept(NoReading, located, budget)
    <3>1. Lies(Base)
      BY RootIs DEF Walking, Sound, Lies
    <3>2. QED
      BY <3>1 DEF Walking, Kept, NoReading
  <2>2. ASSUME Still PROVE <<>> = PatternsAt(reading.path)
    <3>1. reading.path \in Seq(Word) /\ reading.path # <<>>
      BY <1>2, ReadPath
    <3>2. PICK p \in Seq(Word), x \in Word : p = Front(reading.path) /\ x = Last(reading.path) /\ reading.path = Append(p, x)
      BY <3>1, AboveLast
    <3>3. Below(Resolve(p), x) = Nowhere
      BY <1>3, <3>1, <3>2 DEF Entry
    <3>4. Resolve(Append(p, x)) = Followed(Resolve(p), x)
      BY PlainSteps
    <3>5. Resolve(reading.path) = Nowhere
      BY <3>2, <3>3, <3>4 DEF Followed, IsA
    <3>6. QED
      BY <3>5 DEF PatternsAt, IsA
  <2>3. QED
    BY <1>2, <1>3, <2>1, <2>2, FinishedKeeps
<1>4. CASE Entry(reading.path) # Nowhere
  <2>1. /\ reading' = [reading EXCEPT !.step = "resolve"]
        /\ UNCHANGED <<pending, task, wanted, listing, found, entry, located, budget, state>>
    BY <1>1, <1>4 DEF Exists, Advance
  <2>2. IsReading(reading) /\ Lies(reading.descriptor)
    BY DEF Walking, Shaped, ReadingShape, Kept
  <2>3. /\ reading'.path = reading.path /\ reading'.canonical = reading.canonical /\ reading'.expected = reading.expected
        /\ reading'.opened = reading.opened /\ reading'.descriptor = reading.descriptor /\ reading'.step = "resolve"
        /\ reading' = [path |-> reading'.path, step |-> reading'.step, canonical |-> reading'.canonical,
                       expected |-> reading'.expected, descriptor |-> reading'.descriptor, opened |-> reading'.opened]
    BY <2>1, <2>2 DEF IsReading
  <2>4. IsReading(reading')
    BY <1>2, <2>2, <2>3 DEF IsReading
  <2>5. wanted # <<>> /\ reading'.path = task.path \o wanted[1]
    BY <1>2, <2>3, ReadPath
  <2>6. OnRead(reading')
    BY <2>3 DEF OnRead
  <2>7. QED
    BY <2>1, <2>2, <2>3, <2>4, <2>5, <2>6, ReadingKeeps
<1>5. QED
  BY <1>1, <1>3, <1>4 DEF Exists

LEMMA ContentsKeeps ==
  ASSUME Walking, Contents
  PROVE  Refuse \/ Proceeds
<1>1. SUFFICES ASSUME ~Refuse PROVE Proceeds
  OBVIOUS
<1>2. PICK i, patterns, spent :
        /\ i = reading.descriptor /\ patterns = Patterns(disk.nodes[i].lines)
        /\ spent = [Reads({i}) EXCEPT !.ignoreFiles = @ + 1, !.ignoreBytes = @ + disk.sizes[i], !.patterns = @ + Len(patterns)]
        /\ Finished(patterns, spent)
  BY <1>1 DEF Contents
<1>3. reading.step = "read"
  BY DEF Contents, Reading
<1>4. Kept(NoReading, located, spent)
  <2>1. Lies(Base) /\ Lies(i)
    BY <1>2, RootIs DEF Walking, Sound, Lies, Kept
  <2>2. Counters = DOMAIN budget
    BY DEF Walking, Kept
  <2>3. /\ DOMAIN spent = Counters /\ spent.files = budget.files /\ spent.bytes = budget.bytes
        /\ spent.read = budget.read \cup {i}
    BY <1>2, <2>2 DEF Reads, Counters
  <2>4. QED
    BY <2>1, <2>3 DEF Walking, Kept, NoReading
<1>5. ASSUME Still PROVE patterns = PatternsAt(reading.path)
  <2>1. i = Resolve(reading.path).inode /\ Kind(i) = "file"
    BY <1>2, <1>3, <1>5 DEF Still, Settled, OnRead
  <2>2. Inside(Resolve(reading.path))
    BY <1>3, <1>5 DEF Still, Settled, OnRead
  <2>3. Resolve(reading.path) # Nowhere
    BY <2>2, RootIs DEF Inside, Nowhere, From, Walking, Sound
  <2>4. QED
    BY <1>2, <2>1, <2>3 DEF PatternsAt, IsA
<1>6. QED
  BY <1>2, <1>3, <1>4, <1>5, FinishedKeeps

(* What the rules above a directory say, that of the directory above says. *)
LEMMA RulesAbove ==
  ASSUME NEW q \in Seq(Word), NEW y \in Word, NEW p, p = Append(q, y)
  PROVE  /\ \A x : Upto(p, 0, Len(p) - 1, ignore, x) = Dotted(q, x)
         /\ ~HasGit(p) => \A x : /\ Upto(p, Home(p), Len(p) - 1, gitignore, x) = Gitted(q, x)
                                 /\ Barred(p, x) = Barred(q, x)
<1>1. PICK k \in Nat : k = Len(q)
  OBVIOUS
<1>2. Len(p) - 1 = k /\ \A n \in 0..k : Prefix(p, n) = Prefix(q, n)
  <2>1. Len(Append(q, y)) = Len(q) + 1 /\ \A n \in 0..Len(q) : Prefix(Append(q, y), n) = Prefix(q, n)
    BY ExtendedIs
  <2>2. Len(p) = k + 1 /\ \A n \in 0..k : Prefix(p, n) = Prefix(q, n)
    BY <1>1, <2>1, Zenon
  <2>3. QED
    BY <2>2
<1>3. \A file, x : \A n \in 0..k : Says(p, n, file, x) = Says(q, n, file, x)
  BY <1>2 DEF Says
<1>4. ASSUME NEW x PROVE Upto(p, 0, Len(p) - 1, ignore, x) = Dotted(q, x)
  <2>1. \A n \in 0..k : Says(p, n, ignore, x) = Says(q, n, ignore, x)
    BY <1>3
  <2>2. Upto(p, 0, k, ignore, x) = Upto(q, 0, k, ignore, x)
    BY <2>1, UptoSame
  <2>3. QED
    BY <1>1, <1>2, <2>2 DEF Dotted
<1>5. ASSUME ~HasGit(p), NEW x
      PROVE  Upto(p, Home(p), Len(p) - 1, gitignore, x) = Gitted(q, x) /\ Barred(p, x) = Barred(q, x)
  <2>1. PICK h \in 0..k : h = Home(q)
    BY <1>1, HomeIs
  <2>2. Home(p) = h
    BY <1>5, <2>1, HomeIs
  <2>3. h \in Nat /\ \A n \in h..k : n \in 0..k
    BY <2>1
  <2>4. \A n \in h..k : Says(p, n, gitignore, x) = Says(q, n, gitignore, x)
    BY <1>3, <2>3
  <2>5. Upto(p, h, k, gitignore, x) = Upto(q, h, k, gitignore, x)
    BY <2>3, <2>4, UptoSame
  <2>6. Upto(p, Home(p), Len(p) - 1, gitignore, x) = Gitted(q, x)
    BY <1>1, <1>2, <2>1, <2>2, <2>5 DEF Gitted
  <2>7. Prefix(p, h) = Prefix(q, h)
    BY <1>2, <2>1
  <2>8. QED
    BY <2>1, <2>2, <2>6, <2>7 DEF Barred
<1>6. QED
  BY <1>4, <1>5

(* And above the one to analyze, there is nothing that says anything.      *)
LEMMA RulesAtTop ==
  ASSUME ~HasGit(<<>>)
  PROVE  \A x : Upto(<<>>, Home(<<>>), -1, gitignore, x) = "no" /\ Barred(<<>>, x) = "no"
<1>1. <<>> \in Seq(Word) /\ Len(<<>>) = 0
  BY EmptySeq
<1>2. Home(<<>>) = 0 /\ Prefix(<<>>, 0) = <<>>
  BY <1>1, HomeIs, PrefixesAre
<1>3. QED
  BY <1>2, UptoStep DEF Barred, Excludes

LEMMA BoundaryKeeps ==
  ASSUME Walking, Boundary
  PROVE  Refuse \/ Proceeds
<1>1. SUFFICES ASSUME ~Refuse PROVE Proceeds
  OBVIOUS
<1>2. PICK git, p, m, n :
        /\ git = IsA("directory", Entry(Append(task.path, ".git"))) /\ p = task.path /\ m = task.matchers
        /\ n = IF git /\ p # <<>> THEN [m EXCEPT !.git = <<>>, !.exclude = <<>>] ELSE m
  OBVIOUS
<1>3. /\ task.step = "boundary" /\ task' = [task EXCEPT !.step = "ignores", !.matchers = n]
      /\ wanted' = IF git THEN <<exclude, gitignore, ignore>> ELSE <<gitignore, ignore>>
      /\ UNCHANGED <<pending, reading, listing, found, entry, located, budget, state>>
  BY <1>1, <1>2 DEF Boundary, At
<1>4. /\ IsTask(task) /\ p \in Seq(AllNames) /\ p \in Seq(Word)
      /\ m = [dot |-> m.dot, git |-> m.git, exclude |-> m.exclude] /\ Sequence(m.dot) /\ Sequence(m.git)
  BY <1>2, WordsAre DEF Walking, Shaped, TasksShape, IsTask, IsMatchers
<1>5. n = [dot |-> m.dot, git |-> n.git, exclude |-> n.exclude] /\ Sequence(n.git)
      /\ n.dot = m.dot
      /\ (git /\ p # <<>> => n.git = <<>> /\ n.exclude = <<>>)
      /\ (~(git /\ p # <<>>) => n = m)
  BY <1>2, <1>4, NoneIs
<1>6. /\ task'.path = p /\ task'.matchers = n /\ task'.depth = task.depth /\ task'.step = "ignores"
      /\ task' = [path |-> task'.path, depth |-> task'.depth, matchers |-> task'.matchers, step |-> task'.step]
  BY <1>2, <1>3, <1>4 DEF IsTask
<1>7. IsTask(task')
  BY <1>2, <1>4, <1>5, <1>6 DEF IsTask, IsMatchers
<1>8. TasksShape(pending', task')
  BY <1>3, <1>6, <1>7 DEF Walking, Shaped, TasksShape
<1>9. listing = <<>> /\ found = <<>> /\ reading.step = "none"
  BY <1>3 DEF Walking, Shaped, ReadingShape, ListingShape
<1>10. ReadingShape(task', wanted', reading')
  BY <1>3, <1>6, <1>9 DEF Walking, Shaped, ReadingShape
<1>11. ListingShape(task', listing', found', entry')
  <2>1. DOMAIN listing = {} /\ DOMAIN found = {}
    BY <1>9, NoneIs
  <2>2. QED
    BY <1>3, <1>6, <1>9, <2>1 DEF Walking, Shaped, ListingShape
<1>12. Distinct(pending', task', listing', found', located')
  BY <1>2, <1>3, <1>6 DEF Walking, Shaped, Distinct, Early
<1>13. Shaped(pending', task', wanted', reading', listing', found', entry', located')
  BY <1>3, <1>8, <1>10, <1>11, <1>12 DEF Walking, Shaped
<1>14. ASSUME Still PROVE Settled(pending', task', wanted', reading', listing', found', entry', located')
  <2>1. /\ Dir(p) /\ Good(p) /\ (p = <<>> => m = NoMatchers)
        /\ p # <<>> => \A x : /\ Chain(m.dot, x) = Dotted(Front(p), x)
                              /\ Chain(m.git, x) = Gitted(Front(p), x)
                              /\ Chain(m.exclude, x) = Barred(Front(p), x)
    BY <1>2, <1>3, <1>14 DEF Still, Settled, OnTasks, Inherits
  <2>2. git <=> HasGit(p)
    <3>1. ".git" \in Word
      BY DEF Word
    <3>2. Entry(Append(p, ".git")) = Plain(Base, Append(p, ".git"))
      BY <1>4, <2>1, <3>1, ChildIs DEF Walking
    <3>3. QED
      BY <1>2, <3>2 DEF HasGit
  <2>3. \A x : Chain(<<>>, x) = "no"
    BY NoRules
  <2>k. PICK k \in Nat : k = Len(p)
    BY <1>4, LenProperties
  <2>4. PICK h : k = Len(p) /\ h = Home(p) /\ (HasGit(p) => h = k)
    BY <1>4, <2>k, HomeIs
  <2>5. p = <<>> => k - 1 = -1 /\ \A x : Chain(m.dot, x) = "no" /\ Chain(m.git, x) = "no" /\ Chain(m.exclude, x) = "no"
    <3>1. p = <<>> => k = 0
      BY <2>4, EmptySeq
    <3>2. QED
      BY <2>1, <2>3, <3>1 DEF NoMatchers
  <2>6. p # <<>> => /\ \A x : Upto(p, 0, k - 1, ignore, x) = Dotted(Front(p), x)
                    /\ ~HasGit(p) => \A x : /\ Upto(p, Home(p), k - 1, gitignore, x) = Gitted(Front(p), x)
                                            /\ Barred(p, x) = Barred(Front(p), x)
    <3>1. SUFFICES ASSUME p # <<>>
                   PROVE /\ \A x : Upto(p, 0, k - 1, ignore, x) = Dotted(Front(p), x)
                         /\ ~HasGit(p) => \A x : /\ Upto(p, Home(p), k - 1, gitignore, x) = Gitted(Front(p), x)
                                                 /\ Barred(p, x) = Barred(Front(p), x)
      OBVIOUS
    <3>2. PICK q \in Seq(Word), y \in Word : q = Front(p) /\ p = Append(q, y)
      BY <1>4, <3>1, AboveLast
    <3>3. p = Append(q, y)
      BY <3>2, Zenon
    <3>4. /\ \A x : Upto(p, 0, Len(p) - 1, ignore, x) = Dotted(q, x)
          /\ ~HasGit(p) => \A x : /\ Upto(p, Home(p), Len(p) - 1, gitignore, x) = Gitted(q, x)
                                  /\ Barred(p, x) = Barred(q, x)
      BY ONLY <3>3, RulesAbove, Zenon
    <3>5. k = Len(p) /\ q = Front(p)
      BY <2>4, <3>2, Zenon
    <3>6. QED
      BY <3>4, <3>5, Zenon
  <2>7. \A x : Chain(n.dot, x) = Upto(p, 0, k - 1, ignore, x)
    <3>1. CASE p = <<>>
      <4>1. \A x : Upto(p, 0, -1, ignore, x) = "no"
        BY UptoStep
      <4>2. QED
        BY <1>5, <2>5, <3>1, <4>1
    <3>2. CASE p # <<>>
      BY <1>5, <2>1, <2>6, <3>2
    <3>3. QED
      BY <3>1, <3>2
  <2>8. \A x : Chain(n.git, x) = Upto(p, Home(p), k - 1, gitignore, x)
    <3>1. CASE git
      <4>1. k - 1 < k /\ k - 1 \in Int
        OBVIOUS
      <4>2. \A x : Upto(p, k, k - 1, gitignore, x) = "no"
        BY <4>1, UptoStep
      <4>3. \A x : Chain(n.git, x) = "no"
        BY <1>5, <2>3, <2>5, <3>1
      <4>4. QED
        BY <2>2, <2>4, <3>1, <4>2, <4>3
    <3>2. CASE ~git /\ p = <<>>
      BY <1>5, <2>2, <2>5, <3>2, RulesAtTop
    <3>3. CASE ~git /\ p # <<>>
      BY <1>5, <2>1, <2>2, <2>6, <3>3
    <3>4. QED
      BY <3>1, <3>2, <3>3
  <2>9. ~git => \A x : Chain(n.exclude, x) = Barred(p, x)
    <3>1. CASE ~git /\ p = <<>>
      BY <1>5, <2>2, <2>5, <3>1, RulesAtTop
    <3>2. CASE ~git /\ p # <<>>
      BY <1>5, <2>1, <2>2, <2>6, <3>2
    <3>3. QED
      BY <3>1, <3>2
  <2>10. Told(task', wanted')
    <3>1. ToldDot(task', Len(p) - 1) /\ ToldGit(task', Len(p) - 1) /\ (~git => ToldExclude(task'))
      BY <1>6, <2>4, <2>7, <2>8, <2>9 DEF ToldDot, ToldGit, ToldExclude
    <3>2. PICK j : j = Len(wanted') /\ (IF git THEN j = 3 ELSE j = 2)
      <4>1. CASE git
        <5>1. wanted' = <<exclude, gitignore, ignore>>
          BY <1>3, <4>1
        <5>2. Len(<<exclude, gitignore, ignore>>) = 3
          OBVIOUS
        <5>3. QED
          BY <4>1, <5>1, <5>2
      <4>2. CASE ~git
        <5>1. wanted' = <<gitignore, ignore>>
          BY <1>3, <4>2
        <5>2. Len(<<gitignore, ignore>>) = 2
          OBVIOUS
        <5>3. QED
          BY <4>2, <5>1, <5>2
      <4>3. QED
        BY <4>1, <4>2
    <3>3. j \in {2, 3} /\ j \in {1, 2, 3} /\ (j = 3 => git) /\ (git => j = 3)
      <4>1. IF git THEN j = 3 ELSE j = 2
        BY <3>2
      <4>2. QED
        BY <4>1
    <3>4. QED
      BY <1>6, <2>1, <2>2, <3>1, <3>2, <3>3, Zenon DEF Told
  <2>11. OnTasks(pending', task', wanted')
    BY <1>3, <1>6, <1>14, <2>10 DEF Still, Settled, OnTasks
  <2>12. OnRead(reading') /\ OnListing(listing', found', entry')
    BY <1>3, <1>14 DEF Still, Settled
  <2>13. \A x : Awaited(pending, task, listing, found, x) => Awaited(pending', task', listing', found', x)
    BY <1>2, <1>3, <1>6 DEF Awaited, Early
  <2>14. OnSources(pending', task', listing', found', located')
    BY <1>3, <1>14, <2>13 DEF Still, Settled, OnSources
  <2>15. QED
    BY <2>11, <2>12, <2>14 DEF Settled
<1>15. Kept(reading', located', budget') /\ state' = "walk"
  BY <1>3 DEF Walking
<1>16. QED
  BY <1>13, <1>14, <1>15 DEF Proceeds

(* The order of paths, and what is below a directory.                      *)
LEMMA OrderIs ==
  ASSUME WellFormed, NEW p \in Seq(AllNames), Len(p) \in 1..(Limits.depth + 1),
         NEW q \in Seq(AllNames), Len(q) \in 1..(Limits.depth + 1)
  PROVE  Order(p) \in Nat /\ (Order(p) = Order(q) => p = q)
<1>1. ASSUME NEW r \in Seq(AllNames), Len(r) \in 1..(Limits.depth + 1) PROVE r \in Paths
  <2>1. PICK n \in 1..(Limits.depth + 1) : n = Len(r)
    BY <1>1
  <2>2. r \in [1..n -> AllNames]
    BY <1>1, <2>1
  <2>3. [1..n -> AllNames] \in {[1..m -> AllNames] : m \in 1..(Limits.depth + 1)}
    OBVIOUS
  <2>4. QED
    BY <2>2, <2>3 DEF Paths
<1>2. p \in Paths /\ q \in Paths
  BY <1>1
<1>3. QED
  BY <1>2 DEF WellFormed

LEMMA DownTo ==
  ASSUME Sound(disk), NEW p \in Seq(AllNames), NEW q \in Seq(AllNames), Dir(p), File(q), Under(p, q)
  PROVE  \E x \in AllNames : x \in DOMAIN disk.entries[Plain(Base, p).inode] /\ Under(Append(p, x), q)
<1>1. p # q
  BY KindsDiffer
<1>2. Len(p) + 1 \in 1..Len(q) /\ Under(Append(p, q[Len(p) + 1]), q)
  BY <1>1, UnderIs
<1>3. PICK k \in Nat, x \in AllNames : k = Len(p) /\ x = q[k + 1] /\ k + 1 \in 1..Len(q)
  <2>1. Len(p) \in Nat /\ q[Len(p) + 1] \in AllNames
    BY <1>2
  <2>2. QED
    BY <1>2, <2>1
<1>4. k \in 0..Len(q) /\ k + 1 \in 0..Len(q)
  BY <1>3
<1>5. Prefix(q, k) = p
  <2>1. PICK r \in Seq(AllNames) : r = Prefix(q, k) /\ Len(r) = k /\ \A i \in 1..k : r[i] = q[i]
    BY <1>4, PrefixIs
  <2>2. \A i \in 1..k : p[i] = q[i]
    BY <1>3 DEF Under
  <2>3. QED
    BY <1>3, <2>1, <2>2
<1>6. Prefix(q, k + 1) = Append(p, x)
  <2>1. Prefix(q, k + 1) = Append(Prefix(q, k + 1 - 1), q[k + 1])
    BY <1>3, PrefixesAre
  <2>2. k + 1 - 1 = k
    BY <1>3
  <2>3. QED
    BY <1>3, <1>5, <2>1, <2>2
<1>7. Plain(Base, q) # Nowhere
  BY DEF File, IsA
<1>8. Plain(Base, Append(p, x)) # Nowhere
  <2>1. Plain(Base, Prefix(q, k + 1)) # Nowhere
    BY <1>4, <1>7, AboveIs
  <2>2. QED
    BY <1>6, <2>1
<1>9. x \in DOMAIN disk.entries[Plain(Base, p).inode]
  BY <1>8, ParentIs
<1>10. QED
  BY <1>2, <1>3, <1>9

LEMMA ReadDirectoryKeeps ==
  ASSUME Walking, ReadDirectory
  PROVE  Refuse \/ Proceeds
<1>1. SUFFICES ASSUME ~Refuse PROVE Proceeds
  OBVIOUS
<1> DEFINE here == Resolve(task.path)
           inside == IF IsA("directory", here) THEN DOMAIN disk.entries[here.inode] ELSE {}
           listed == {Append(task.path, x) : x \in inside}
           inOrder == InOrder(listed)
           Listed(a, o) == [i \in DOMAIN o |-> [path |-> o[i], kind |-> Kind(disk.entries[a.inode][Last(o[i])])]]
<1>a. /\ IsA("directory", here) /\ listing' = Listed(here, inOrder)
      /\ budget' = [budget EXCEPT !.entries = @ + Cardinality(inside)]
      /\ task' = [task EXCEPT !.step = "entries"]
      /\ UNCHANGED <<pending, wanted, reading, found, entry, located, state>>
  BY <1>1, Zenon DEF ReadDirectory
<1> HIDE DEF Listed, inOrder, listed, inside, here
<1>b. PICK p, at, names, paths, order : p = task.path /\ at = here /\ names = inside /\ paths = listed /\ order = inOrder
  OBVIOUS
<1>c. /\ at = Resolve(p) /\ (IsA("directory", at) => names = DOMAIN disk.entries[at.inode])
      /\ paths = {Append(p, x) : x \in names} /\ order = InOrder(paths)
  <2>1. at = Resolve(p)
    BY <1>b, Zenon DEF here
  <2>2. IsA("directory", at) => names = DOMAIN disk.entries[at.inode]
    BY <1>b DEF inside
  <2>3. paths = {Append(p, x) : x \in names}
    BY <1>b DEF listed
  <2>4. order = InOrder(paths)
    BY <1>b, Zenon DEF inOrder
  <2>5. QED
    BY <2>1, <2>2, <2>3, <2>4
<1>d. listing' = Listed(at, order)
  BY <1>a, <1>b, Zenon
<1>2. /\ p = task.path /\ at = Resolve(p) /\ IsA("directory", at) /\ names = DOMAIN disk.entries[at.inode]
      /\ paths = {Append(p, x) : x \in names} /\ order = InOrder(paths)
      /\ listing' = [i \in DOMAIN order |-> [path |-> order[i], kind |-> Kind(disk.entries[at.inode][Last(order[i])])]]
      /\ budget' = [budget EXCEPT !.entries = @ + Cardinality(names)]
      /\ task' = [task EXCEPT !.step = "entries"]
      /\ UNCHANGED <<pending, wanted, reading, found, entry, located, state>>
  <2>1. IsA("directory", at) /\ budget' = [budget EXCEPT !.entries = @ + Cardinality(names)]
    BY <1>a, <1>b, Zenon
  <2>2. listing' = [i \in DOMAIN order |-> [path |-> order[i], kind |-> Kind(disk.entries[at.inode][Last(order[i])])]]
    BY <1>d, Zenon DEF Listed
  <2>3. QED
    BY <1>a, <1>b, <1>c, <2>1, <2>2, Zenon
<1>3. task.step = "ignores" /\ reading = NoReading /\ wanted = <<>>
  BY DEF ReadDirectory, At
<1>4. /\ IsTask(task) /\ p \in Seq(AllNames) /\ p \in Seq(Word) /\ Len(p) \in Nat /\ Len(p) <= Limits.depth
      /\ Limits.depth \in Nat /\ Sound(disk)
  BY <1>2, WordsAre DEF Walking, Shaped, TasksShape, IsTask, WellFormed
<1>5. PICK d \in DOMAIN disk.entries : d = at.inode
  <2>1. Resolve(p) # Nowhere
    BY <1>2 DEF IsA
  <2>2. at.inode \in DOMAIN disk.nodes
    BY <1>2, <1>4, <2>1, ResolvesTo
  <2>3. QED
    BY <1>2, <1>4, <2>2 DEF IsA, Kind, Sound
<1>6. IsFiniteSet(names) /\ names \subseteq AllNames
  BY <1>2, <1>4, <1>5 DEF Sound
<1>7. \A x \in names : /\ Append(p, x) \in Seq(AllNames) /\ Len(Append(p, x)) = Len(p) + 1 /\ Last(Append(p, x)) = x
                       /\ Len(Append(p, x)) \in 1..(Limits.depth + 1)
  <2>1. TAKE x \in names
  <2>2. PICK y \in AllNames : y = x
    BY <1>6
  <2>3. Append(p, y) \in Seq(AllNames) /\ Len(Append(p, y)) = Len(p) + 1 /\ Last(Append(p, y)) = y
    BY <1>4, ExtendedIs
  <2>4. Len(Append(p, y)) \in 1..(Limits.depth + 1)
    BY <1>4, <2>3
  <2>5. QED
    BY <2>2, <2>3, <2>4
<1>8. IsFiniteSet(paths)
  <2>1. PICK g : g = [x \in names |-> Append(p, x)]
    OBVIOUS
  <2>2. g \in Surjection(names, paths)
    BY <1>2, <2>1 DEF Surjection
  <2>3. QED
    BY <1>6, <2>2, FS_Surjection
<1>9. \A q, r \in paths : Order(q) \in Nat /\ (Order(q) = Order(r) => q = r)
  <2>1. \A q \in paths : q \in Seq(AllNames) /\ Len(q) \in 1..(Limits.depth + 1)
    BY <1>2, <1>7
  <2>2. WellFormed
    BY DEF Walking
  <2>3. QED
    BY <2>1, <2>2, OrderIs
<1>10. PICK N \in Nat : /\ order \in [1..N -> paths]
                        /\ \A i, j \in 1..N : order[i] = order[j] => i = j
                        /\ \A q \in paths : \E i \in 1..N : order[i] = q
  <2>1. /\ Cardinality(paths) \in Nat
        /\ InOrder(paths) \in [1..Cardinality(paths) -> paths]
        /\ \A i, j \in 1..Cardinality(paths) : InOrder(paths)[i] = InOrder(paths)[j] => i = j
        /\ \A q \in paths : \E i \in 1..Cardinality(paths) : InOrder(paths)[i] = q
    BY <1>8, <1>9, InOrderIs
  <2>2. PICK N : N = Cardinality(paths)
    OBVIOUS
  <2>3. order = InOrder(paths)
    BY <1>2, Zenon
  <2>4. QED
    BY <2>1, <2>2, <2>3, Zenon
<1>11. PICK l : l = listing' /\ l = [i \in 1..N |-> [path |-> order[i], kind |-> Kind(disk.entries[d][Last(order[i])])]]
  BY <1>2, <1>5, <1>10
<1>12. /\ Sequence(l) /\ DOMAIN l = 1..N
       /\ \A i \in 1..N : l[i].path = order[i] /\ l[i].kind = Kind(disk.entries[d][Last(order[i])])
  <2>1. l = [i \in 1..N |-> l[i]]
    BY <1>11
  <2>2. QED
    BY <1>11, <2>1, ListIs
<1>13. \A i \in 1..N : \E x \in names : /\ l[i].path = Append(p, x) /\ l[i].kind = Kind(disk.entries[d][x])
                                        /\ x \in AllNames
  <2>1. TAKE i \in 1..N
  <2>2. order[i] \in paths
    BY <1>10
  <2>3. PICK x \in names : order[i] = Append(p, x)
    BY <1>2, <2>2
  <2>4. Last(order[i]) = x /\ x \in AllNames
    BY <1>6, <1>7, <2>3
  <2>5. QED
    BY <1>12, <2>3, <2>4
<1>14. /\ task'.path = p /\ task'.matchers = task.matchers /\ task'.depth = task.depth /\ task'.step = "entries"
       /\ task' = [path |-> task'.path, depth |-> task'.depth, matchers |-> task'.matchers, step |-> task'.step]
  BY <1>2, <1>4 DEF IsTask
<1>15. TasksShape(pending', task')
  <2>1. IsTask(task')
    BY <1>2, <1>4, <1>14 DEF IsTask
  <2>2. QED
    BY <1>2, <1>14, <2>1 DEF Walking, Shaped, TasksShape
<1>16. ReadingShape(task', wanted', reading')
  <2>1. reading.step = "none"
    BY <1>3 DEF NoReading
  <2>2. QED
    BY <1>2, <1>3, <2>1 DEF Walking, Shaped, ReadingShape
<1>17. listing = <<>> /\ found = <<>> /\ entry.step = "none" /\ IsEntry(entry)
  BY <1>3 DEF Walking, Shaped, ListingShape
<1>18. ListingShape(task', listing', found', entry')
  <2>1. \A i \in DOMAIN l : Child(task', l[i].path)
    BY <1>12, <1>13, <1>14 DEF Child
  <2>2. found' = <<>> /\ DOMAIN found' = {} /\ Sequence(found')
    BY <1>2, <1>17, NoneIs
  <2>3. QED
    BY <1>2, <1>11, <1>12, <1>14, <1>17, <2>1, <2>2 DEF ListingShape
<1>19. Distinct(pending', task', listing', found', located')
  <2>1. DOMAIN found' = {}
    BY <1>2, <1>17, NoneIs
  <2>2. \A i, j \in DOMAIN l : i # j => l[i].path # l[j].path
    BY <1>10, <1>12
  <2>3. \A i \in DOMAIN located : \A j \in DOMAIN l : ~Under(l[j].path, located[i].relative)
    <3>1. TAKE i \in DOMAIN located
    <3>2. TAKE j \in DOMAIN l
    <3>3. PICK x \in AllNames : l[j].path = Append(p, x)
      BY <1>12, <1>13
    <3>4. ~Under(p, located[i].relative)
      BY <1>2, <1>3 DEF Walking, Shaped, Distinct, Early
    <3>5. PICK q \in Seq(AllNames) : q = located[i].relative
      BY DEF Walking, Shaped, SourcesShape
    <3>6. Under(Append(p, x), q) => Under(p, q)
      BY <1>4, UnderIs
    <3>7. QED
      BY <3>3, <3>4, <3>5, <3>6
  <2>4. task'.step \notin Early /\ task.step # "none"
    BY <1>3, <1>14 DEF Early
  <2>5. /\ \A i, j \in DOMAIN pending : i # j => Apart(pending[i].path, pending[j].path)
        /\ \A i \in DOMAIN pending : Apart(pending[i].path, p)
        /\ \A i, j \in DOMAIN located : i # j => located[i].relative # located[j].relative
        /\ \A i \in DOMAIN located : \A j \in DOMAIN pending : ~Under(pending[j].path, located[i].relative)
    BY <1>2, <2>4 DEF Walking, Shaped, Distinct
  <2>6. pending' = pending /\ located' = located
    BY <1>2
  <2>7. QED
    BY <1>11, <1>14, <2>1, <2>2, <2>3, <2>4, <2>5, <2>6 DEF Distinct
<1>20. Shaped(pending', task', wanted', reading', listing', found', entry', located')
  BY <1>2, <1>15, <1>16, <1>18, <1>19 DEF Walking, Shaped
<1>21. ASSUME Still PROVE Settled(pending', task', wanted', reading', listing', found', entry', located')
  <2>1. Told(task, wanted) /\ Dir(p)
    BY <1>2, <1>3, <1>21 DEF Still, Settled, OnTasks, Told
  <2>2. Told(task', wanted')
    <3>1. wanted' = wanted
      BY <1>2
    <3>2. QED
      BY <1>2, <1>14, <2>1, <3>1 DEF Told, ToldDot, ToldGit, ToldExclude
  <2>3. OnTasks(pending', task', wanted')
    BY <1>2, <1>14, <1>21, <2>2 DEF Still, Settled, OnTasks
  <2>4. OnRead(reading')
    BY <1>2, <1>21 DEF Still, Settled
  <2>5. at = Plain(Base, p)
    BY <1>2, <1>4, <2>1, DirResolves
  <2>6. OnListing(listing', found', entry')
    <3>1. ASSUME NEW i \in 1..N
          PROVE  Plain(Base, l[i].path) # Nowhere /\ l[i].kind = Kind(Plain(Base, l[i].path).inode)
      <4>1. PICK x \in AllNames : x \in names /\ l[i].path = Append(p, x) /\ l[i].kind = Kind(disk.entries[d][x])
        BY <1>13
      <4>2. PICK k \in DOMAIN disk.entries :
              /\ Plain(Base, p) = [inode |-> k, base |-> Base, path |-> p]
              /\ x \in DOMAIN disk.entries[k] =>
                   /\ Plain(Base, Append(p, x)) = [inode |-> disk.entries[k][x], base |-> Base, path |-> Append(p, x)]
                   /\ Plain(Base, Append(p, x)) # Nowhere
        BY <1>4, <2>1, ChildIs
      <4>3. k = d /\ x \in DOMAIN disk.entries[k]
        BY <1>2, <1>5, <2>5, <4>1, <4>2
      <4>4. QED
        BY <4>1, <4>2, <4>3
    <3>2. DOMAIN found' = {} /\ entry'.step = "none"
      BY <1>2, <1>17, NoneIs
    <3>3. QED
      BY <1>11, <1>12, <3>1, <3>2 DEF OnListing
  <2>7. OnSources(pending', task', listing', found', located')
    <3>1. ASSUME NEW q \in Seq(AllNames), Target(q), Awaited(pending, task, listing, found, q)
          PROVE  Awaited(pending', task', listing', found', q)
      <4>1. DOMAIN listing = {} /\ DOMAIN found = {} /\ File(q)
        BY <1>17, <3>1, NoneIs DEF Target
      <4>2. CASE \E i \in DOMAIN pending : Under(pending[i].path, q)
        BY <1>2, <4>2 DEF Awaited
      <4>3. CASE Under(p, q)
        <5>1. PICK x \in AllNames : x \in DOMAIN disk.entries[Plain(Base, p).inode] /\ Under(Append(p, x), q)
          BY <1>4, <2>1, <4>1, <4>3, DownTo
        <5>2. Append(p, x) \in paths
          BY <1>2, <2>5, <5>1
        <5>3. PICK i \in 1..N : order[i] = Append(p, x)
          BY <1>10, <5>2
        <5>4. i \in DOMAIN l /\ Under(l[i].path, q)
          BY <1>12, <5>1, <5>3
        <5>5. QED
          BY <1>11, <5>4 DEF Awaited
      <4>4. QED
        BY <1>2, <3>1, <4>1, <4>2, <4>3 DEF Awaited
    <3>2. located' = located
      BY <1>2
    <3>3. QED
      BY <1>21, <3>1, <3>2 DEF Still, Settled, OnSources
  <2>8. QED
    BY <2>3, <2>4, <2>6, <2>7 DEF Settled
<1>22. Kept(reading', located', budget') /\ state' = "walk"
  <2>1. DOMAIN budget' = DOMAIN budget /\ budget'.files = budget.files /\ budget'.bytes = budget.bytes /\ budget'.read = budget.read
    BY <1>2
  <2>2. QED
    BY <1>2, <2>1 DEF Walking, Kept
<1>23. QED
  BY <1>20, <1>21, <1>22 DEF Proceeds

-----------------------------------------------------------------------------
(* The entries of a directory. *)

LEMMA ChildrenApart ==
  ASSUME Limits.depth \in Nat, NEW t, IsTask(t), NEW p, Child(t, p), NEW q, Child(t, q), p # q
  PROVE  Apart(p, q)
<1>1. p \in Seq(AllNames) /\ q \in Seq(AllNames) /\ Len(p) = Len(q)
  BY ChildPath
<1>2. QED
  BY <1>1, UnderIs DEF Apart

LEMMA ChildApart ==
  ASSUME Limits.depth \in Nat, NEW t, IsTask(t), NEW p, Child(t, p), NEW q \in Seq(AllNames), Apart(q, t.path)
  PROVE  Apart(q, p)
<1>1. PICK r \in Seq(AllNames), x \in AllNames : r = t.path /\ p = Append(r, x)
  BY DEF Child, IsTask
<1>2. Under(r, r) /\ Under(r, Append(r, x)) /\ ~Under(q, r) /\ ~Under(r, q)
  <2>1. Under(t.path, p)
    BY ChildPath
  <2>2. Under(r, r)
    BY UnderIs
  <2>3. QED
    BY <1>1, <2>1, <2>2 DEF Apart
<1>3. ~Under(Append(r, x), q)
  BY <1>2, UnderIs
<1>4. ~Under(q, Append(r, x))
  <2>1. Under(q, Append(r, x)) => Under(q, r) \/ q = Append(r, x)
    BY UnderIs
  <2>2. q # Append(r, x)
    BY <1>2
  <2>3. QED
    BY <1>2, <2>1, <2>2
<1>5. QED
  BY <1>1, <1>3, <1>4 DEF Apart

LEMMA ListingTail ==
  ASSUME NEW l, Sequence(l), l # <<>>
  PROVE  /\ Sequence(Tail(l)) /\ 1 \in DOMAIN l
         /\ \A i \in DOMAIN Tail(l) : i + 1 \in DOMAIN l /\ i + 1 # 1 /\ Tail(l)[i] = l[i + 1]
         /\ \A i, j \in DOMAIN Tail(l) : i # j => i + 1 # j + 1
         /\ \A j \in DOMAIN l : j # 1 => \E i \in DOMAIN Tail(l) : Tail(l)[i] = l[j]
<1>1. PICK n \in Nat : n = Len(l) /\ DOMAIN l = 1..n /\ n # 0
  BY SequenceIs
<1>2. Sequence(Tail(l)) /\ Len(Tail(l)) = n - 1 /\ \A i \in 1..(n - 1) : Tail(l)[i] = l[i + 1]
  BY <1>1, TailIs
<1>3. DOMAIN Tail(l) = 1..(n - 1)
  BY <1>2, SequenceIs
<1>4. PICK t : t = Tail(l) /\ DOMAIN t = 1..(n - 1) /\ \A i \in 1..(n - 1) : t[i] = l[i + 1]
  BY <1>2, <1>3
<1>5. \A i \in 1..(n - 1) : i + 1 \in 1..n /\ i + 1 # 1
  BY <1>1
<1>6. \A j \in 1..n : j # 1 => \E i \in 1..(n - 1) : t[i] = l[j]
  <2>1. TAKE j \in 1..n
  <2>2. ASSUME j # 1 PROVE \E i \in 1..(n - 1) : t[i] = l[j]
    <3>1. PICK i \in 1..(n - 1) : i = j - 1 /\ j = i + 1
      BY <2>2
    <3>2. QED
      BY <1>4, <3>1
  <2>3. QED
    BY <2>2
<1>7. 1 \in 1..n
  BY <1>1
<1>8. \A i, j \in 1..(n - 1) : i # j => i + 1 # j + 1
  OBVIOUS
<1>9. QED
  BY <1>1, <1>2, <1>4, <1>5, <1>6, <1>7, <1>8

(* An entry is skipped when it is left out, in a directory that is not.    *)
LEMMA GoodChild ==
  ASSUME NEW p \in Seq(Word), NEW x \in Word
  PROVE  Good(Append(p, x)) <=> Good(p) /\ ~LeftOut(Append(p, x))
<1>1. PICK k \in Nat : k = Len(p)
  OBVIOUS
<1>a. PICK q : q = Append(p, x)
  OBVIOUS
<1>2. Len(q) = k + 1 /\ \A n \in 0..k : Prefix(q, n) = Prefix(p, n)
  <2>1. Len(Append(p, x)) = Len(p) + 1 /\ \A n \in 0..Len(p) : Prefix(Append(p, x), n) = Prefix(p, n)
    BY ExtendedIs
  <2>2. QED
    BY <1>1, <1>a, <2>1
<1>3. Prefix(q, k + 1) = q
  <2>1. q \in Seq(Word)
    BY <1>a, ExtendedIs
  <2>2. QED
    BY <1>2, <2>1, PrefixesAre
<1>4. Good(q) <=> (\A n \in 1..k : ~LeftOut(Prefix(p, n))) /\ ~LeftOut(q)
  <2>1. \A n \in 1..(k + 1) : n = k + 1 \/ n \in 1..k
    OBVIOUS
  <2>2. \A n \in 1..k : n \in 1..(k + 1) /\ n \in 0..k
    OBVIOUS
  <2>3. k + 1 \in 1..(k + 1)
    OBVIOUS
  <2>4. QED
    BY <1>2, <1>3, <2>1, <2>2, <2>3 DEF Good
<1>5. QED
  BY <1>1, <1>4, <1>a DEF Good

LEMMA SkippedIs ==
  ASSUME Limits.depth \in Nat, NEW t, IsTask(t), Told(t, <<>>), NEW p, Child(t, p)
  PROVE  Skipped(p, t.matchers) <=> LeftOut(p)
<1>1. PICK r, m : r = t.path /\ m = t.matchers
  OBVIOUS
<1>2. r \in Seq(AllNames) /\ r \in Seq(Word)
  BY <1>1, WordsAre DEF IsTask
<1>3. PICK x \in AllNames : p = Append(r, x)
  BY <1>1 DEF Child
<1>4. /\ x \in Word /\ Last(Append(r, x)) = x /\ Len(Append(r, x)) = Len(r) + 1 /\ Append(r, x)[Len(r) + 1] = x
      /\ \A i \in 1..Len(r) : Append(r, x)[i] = r[i]
  <2>1. x \in Word
    BY DEF Word
  <2>2. QED
    BY <1>2, <2>1, ExtendedIs
<1>5. Good(r) /\ ToldDot(t, Len(r)) /\ ToldGit(t, Len(r)) /\ ToldExclude(t)
  <2>1. PICK k : k = Len(<<>>) /\ k = 0
    BY EmptySeq
  <2>2. k # 3 /\ k \notin {2, 3} /\ k \notin {1, 2, 3}
    <3>1. k = 0
      BY <2>1
    <3>2. QED
      BY <3>1
  <2>3. QED
    BY <1>1, <2>1, <2>2, Zenon DEF Told
<1>6. Chain(m.dot, x) = Dotted(r, x) /\ Chain(m.git, x) = Gitted(r, x) /\ Chain(m.exclude, x) = Barred(r, x)
  BY <1>1, <1>5 DEF ToldDot, ToldGit, ToldExclude, Dotted, Gitted
<1>7. Ignored(m, x) <=> RuledOut(r, x)
  BY <1>6, IgnoredIs
<1>8. LeftOut(Append(r, x)) <=> x \in Excluded \/ RuledOut(r, x)
  BY <1>2, <1>4, LeftOutIs
<1>9. Range(Append(r, x)) \cap Excluded # {} <=> x \in Excluded
  <2>a. PICK k \in Nat : k = Len(r)
    BY <1>2
  <2>b. Append(r, x) \in Seq(Word)
    BY <1>2, <1>4, ExtendedIs
  <2>c. PICK q \in Seq(Word) : q = Append(r, x)
    BY <2>b
  <2>1. k = Len(r) /\ q = Append(r, x) /\ DOMAIN q = 1..(k + 1) /\ q[k + 1] = x /\ \A i \in 1..k : q[i] = r[i]
    <3>1. Len(q) = k + 1
      BY <1>4, <2>a, <2>c
    <3>2. QED
      BY <1>4, <2>a, <2>c, <3>1
  <2>2. \A i \in 1..k : r[i] \notin Excluded
    <3>1. TAKE i \in 1..k
    <3>2. i \in 1..Len(r) /\ i \in 0..Len(r) /\ i - 1 \in 0..Len(r)
      BY <2>1
    <3>3. Prefix(r, i) = Append(Prefix(r, i - 1), r[i]) /\ Prefix(r, i - 1) \in Seq(Word) /\ r[i] \in Word
      BY <1>2, <3>2, PrefixesAre, PrefixIs
    <3>4. ~LeftOut(Prefix(r, i))
      BY <1>5, <3>2 DEF Good
    <3>5. PICK u \in Seq(Word), y \in Word : u = Prefix(r, i - 1) /\ y = r[i] /\ Prefix(r, i) = Append(u, y)
      BY <3>3
    <3>6. y \notin Excluded
      BY <3>4, <3>5, LeftOutIs
    <3>7. QED
      BY <3>5, <3>6
  <2>3. \A i \in 1..(k + 1) : i \in 1..k \/ i = k + 1
    OBVIOUS
  <2>4. k + 1 \in 1..(k + 1)
    OBVIOUS
  <2>5. QED
    BY <2>1, <2>2, <2>3, <2>4 DEF Range
<1>10. QED
  BY <1>1, <1>3, <1>4, <1>7, <1>8, <1>9 DEF Skipped

LEMMA OnTheWay ==
  ASSUME Sound(disk), NEW q \in Seq(AllNames), q # <<>>, NEW p \in Seq(AllNames), Target(p), Under(q, p)
  PROVE  ~LeftOut(q) /\ (q # p => Dir(q)) /\ (q = p => File(q)) /\ Plain(Base, q) # Nowhere
<1>1. Len(q) \in Nat /\ Len(q) # 0 /\ Len(q) <= Len(p) /\ Len(p) \in Nat
  BY EmptySeq DEF Under
<1>2. PICK n \in Nat : n = Len(q) /\ n \in 1..Len(p) /\ n \in 0..Len(p)
  BY <1>1
<1>3. Prefix(p, n) = q
  <2>1. PICK r \in Seq(AllNames) : r = Prefix(p, n) /\ Len(r) = n /\ \A i \in 1..n : r[i] = p[i]
    BY <1>2, PrefixIs
  <2>2. \A i \in 1..n : q[i] = p[i]
    BY <1>2 DEF Under
  <2>3. QED
    BY <1>2, <2>1, <2>2
<1>4. ~LeftOut(q) /\ Plain(Base, p) # Nowhere /\ File(p)
  BY <1>2, <1>3 DEF Target, Good, File, IsA
<1>5. Plain(Base, q) # Nowhere /\ (n < Len(p) => Dir(q))
  <2>1. Plain(Base, Prefix(p, n)) # Nowhere /\ (n < Len(p) => Dir(Prefix(p, n)))
    BY <1>2, <1>4, AboveIs
  <2>2. QED
    BY <1>3, <2>1
<1>6. q # p => n < Len(p)
  <2>1. Len(q) = Len(p) => q = p
    BY UnderIs
  <2>2. QED
    BY <1>1, <1>2, <2>1
<1>7. QED
  BY <1>4, <1>5, <1>6

LEMMA FirstEntry ==
  ASSUME Walking, listing # <<>>
  PROVE  /\ task.step = "entries" /\ wanted = <<>> /\ IsTask(task) /\ Limits.depth \in Nat /\ Sound(disk)
         /\ Sequence(listing) /\ 1 \in DOMAIN listing /\ Child(task, listing[1].path)
         /\ Still => /\ Told(task, <<>>) /\ Dir(task.path) /\ Good(task.path)
                     /\ Plain(Base, listing[1].path) # Nowhere
                     /\ listing[1].kind = Kind(Plain(Base, listing[1].path).inode)
                     /\ Skipped(listing[1].path, task.matchers) <=> LeftOut(listing[1].path)
<1>1. task.step = "entries" /\ Sequence(listing) /\ \A i \in DOMAIN listing : Child(task, listing[i].path)
  BY DEF Walking, Shaped, ListingShape
<1>2. 1 \in DOMAIN listing /\ wanted = <<>>
  BY <1>1, ListingTail DEF Walking, Shaped, ReadingShape
<1>3. IsTask(task) /\ Limits.depth \in Nat /\ Sound(disk)
  BY DEF Walking, Shaped, TasksShape, WellFormed
<1>4. ASSUME Still
      PROVE  /\ Told(task, <<>>) /\ Dir(task.path) /\ Good(task.path)
             /\ Plain(Base, listing[1].path) # Nowhere /\ listing[1].kind = Kind(Plain(Base, listing[1].path).inode)
  BY <1>1, <1>2, <1>4 DEF Still, Settled, OnTasks, OnListing, Told
<1>5. ASSUME Still PROVE Skipped(listing[1].path, task.matchers) <=> LeftOut(listing[1].path)
  <2>1. PICK t, p : t = task /\ p = listing[1].path
    OBVIOUS
  <2>2. IsTask(t) /\ Told(t, <<>>) /\ Child(t, p)
    BY <1>1, <1>2, <1>3, <1>4, <1>5, <2>1
  <2>3. Skipped(p, t.matchers) <=> LeftOut(p)
    BY <1>3, <2>2, SkippedIs
  <2>4. QED
    BY <2>1, <2>3
<1>6. QED
  BY <1>1, <1>2, <1>3, <1>4, <1>5

(* A step that checks the first entry changes nothing else.                *)
LEMMA EntryKeeps ==
  ASSUME Walking, UNCHANGED <<pending, task, wanted, reading, listing, found, located, budget, state>>,
         IsEntry(entry'), entry'.step # "none" => listing # <<>> /\ entry'.path = listing[1].path,
         Still => OnListing(listing, found, entry')
  PROVE  Proceeds
<1>1. ListingShape(task', listing', found', entry')
  BY DEF Walking, Shaped, ListingShape
<1>2. Shaped(pending', task', wanted', reading', listing', found', entry', located')
  BY <1>1 DEF Walking, Shaped
<1>3. Kept(reading', located', budget') /\ state' = "walk"
  BY DEF Walking, Kept
<1>4. Still => Settled(pending', task', wanted', reading', listing', found', entry', located')
  BY DEF Still, Settled
<1>5. QED
  BY <1>2, <1>3, <1>4 DEF Proceeds

LEMMA LookAtKeeps ==
  ASSUME Walking, LookAt
  PROVE  Refuse \/ Proceeds
<1>1. SUFFICES ASSUME ~Refuse PROVE Proceeds
  OBVIOUS
<1>2. /\ entry' = [NoEntry EXCEPT !.path = listing[1].path, !.step = "canonical"]
      /\ UNCHANGED <<pending, task, wanted, reading, listing, found, located, budget, state>>
      /\ ~Skipped(listing[1].path, task.matchers) /\ listing[1].kind = "file" /\ listing # <<>>
  BY <1>1 DEF LookAt, Check
<1>3. /\ entry'.path = listing[1].path /\ entry'.step = "canonical" /\ entry'.canonical = <<>> /\ entry'.size = 0
      /\ entry' = [path |-> entry'.path, step |-> entry'.step, canonical |-> entry'.canonical, size |-> entry'.size]
  BY <1>2 DEF NoEntry
<1>4. IsEntry(entry')
  <2>1. <<>> \in Seq(Word) /\ 0 \in Nat
    BY EmptySeq
  <2>2. QED
    BY <1>3, <2>1 DEF IsEntry
<1>5. ASSUME Still PROVE OnListing(listing, found, entry')
  <2>1. ~LeftOut(listing[1].path)
    BY <1>2, <1>5, FirstEntry
  <2>2. QED
    BY <1>2, <1>3, <1>5, <2>1 DEF Still, Settled, OnListing
<1>6. QED
  BY <1>2, <1>3, <1>4, <1>5, EntryKeeps

LEMMA CanonicalFileKeeps ==
  ASSUME Walking, CanonicalFile
  PROVE  Refuse \/ Proceeds
<1>1. SUFFICES ASSUME ~Refuse PROVE Proceeds
  OBVIOUS
<1>2. PICK at : at = Resolve(entry.path)
  OBVIOUS
<1>3. /\ entry' = [entry EXCEPT !.step = "opened", !.canonical = at.path] /\ Inside(at)
      /\ UNCHANGED <<pending, task, wanted, reading, listing, found, located, budget, state>>
      /\ entry.step = "canonical"
  BY <1>1, <1>2 DEF CanonicalFile, Check
<1>4. IsEntry(entry) /\ listing # <<>> /\ entry.path = listing[1].path
  BY <1>3 DEF Walking, Shaped, ListingShape
<1>5. /\ entry'.path = entry.path /\ entry'.step = "opened" /\ entry'.canonical = at.path /\ entry'.size = entry.size
      /\ entry' = [path |-> entry'.path, step |-> entry'.step, canonical |-> entry'.canonical, size |-> entry'.size]
  BY <1>3, <1>4 DEF IsEntry
<1>6. PICK t, p : t = task /\ p = entry.path
  OBVIOUS
<1>7. IsTask(t) /\ Child(t, p) /\ Limits.depth \in Nat /\ Sound(disk)
  BY <1>4, <1>6, FirstEntry
<1>8. PICK q \in Seq(AllNames), x \in AllNames : q = t.path /\ p = Append(q, x) /\ q \in Seq(Word) /\ x \in Word /\ p \in Seq(Word)
  <2>1. t.path \in Seq(AllNames) /\ t.path \in Seq(Word)
    BY <1>7, WordsAre DEF IsTask
  <2>2. p \in Seq(Word) /\ p = Append(t.path, Last(p)) /\ Last(p) \in AllNames
    BY <1>7, ChildPath
  <2>3. Last(p) \in Word
    BY <2>2 DEF Word
  <2>4. QED
    BY <2>1, <2>2, <2>3
<1>9. at.path \in Seq(Word)
  <2>1. at # Nowhere
    BY <1>3, <1>7, RootIs DEF Inside, Nowhere, From, Sound
  <2>2. Resolve(p) # Nowhere
    BY <1>2, <1>6, <2>1
  <2>a. Sound(disk) /\ p \in Seq(Word) /\ Resolve(p) # Nowhere
    BY <1>7, <1>8, <2>2
  <2>3. PICK i \in DOMAIN disk.nodes, b \in DOMAIN disk.nodes, r \in Seq(Word) :
          Resolve(p) = [inode |-> i, base |-> b, path |-> r]
    BY <2>a, ResolvesTo
  <2>4. QED
    BY <1>2, <1>6, <2>3
<1>10. IsEntry(entry')
  BY <1>4, <1>5, <1>9 DEF IsEntry
<1>11. ASSUME Still PROVE OnListing(listing, found, entry')
  <2>1. Dir(q) /\ Plain(Base, p) # Nowhere /\ listing[1].kind = Kind(Plain(Base, p).inode)
    BY <1>4, <1>6, <1>8, <1>11, FirstEntry
  <2>2. listing[1].kind = "file"
    BY <1>3, <1>11 DEF Still, Settled, OnListing
  <2>3. at = Plain(Base, p)
    <3>1. ~IsA("link", Plain(Base, p))
      BY <2>1, <2>2 DEF IsA
    <3>2. Resolve(p) = Plain(Base, p)
      BY <1>7, <1>8, <2>1, <3>1, ChildIs
    <3>3. QED
      BY <1>2, <1>6, <3>2
  <2>4. at.path = p
    <3>1. Base \in DOMAIN disk.nodes
      BY <1>7, RootIs
    <3>2. PICK b \in DOMAIN disk.nodes : b = Base
      BY <3>1
    <3>3. \E i \in DOMAIN disk.nodes : Plain(b, p) = [inode |-> i, base |-> b, path |-> p]
      BY <1>7, <1>8, <2>1, <3>2, PlainPlace
    <3>4. QED
      BY <2>3, <3>2, <3>3
  <2>5. QED
    BY <1>3, <1>5, <1>6, <1>11, <2>4 DEF Still, Settled, OnListing
<1>12. QED
  BY <1>3, <1>4, <1>5, <1>10, <1>11, EntryKeeps

LEMMA MeasureKeeps ==
  ASSUME Walking, Measure
  PROVE  Refuse \/ Proceeds
<1>1. SUFFICES ASSUME ~Refuse PROVE Proceeds
  OBVIOUS
<1>2. PICK at : at = Resolve(entry.canonical)
  OBVIOUS
<1>3. /\ entry' = [entry EXCEPT !.step = "select", !.size = disk.sizes[at.inode]] /\ IsA("file", at)
      /\ UNCHANGED <<pending, task, wanted, reading, listing, found, located, budget, state>>
      /\ entry.step = "opened"
  BY <1>1, <1>2 DEF Measure, Check
<1>4. IsEntry(entry) /\ listing # <<>> /\ entry.path = listing[1].path /\ Sound(disk)
  BY <1>3 DEF Walking, Shaped, ListingShape
<1>5. /\ entry'.path = entry.path /\ entry'.step = "select" /\ entry'.canonical = entry.canonical
      /\ entry'.size = disk.sizes[at.inode]
      /\ entry' = [path |-> entry'.path, step |-> entry'.step, canonical |-> entry'.canonical, size |-> entry'.size]
  BY <1>3, <1>4 DEF IsEntry
<1>6. disk.sizes[at.inode] \in Nat
  <2>1. PICK c \in Seq(Word) : c = entry.canonical
    BY <1>4 DEF IsEntry
  <2>2. Resolve(c) # Nowhere
    BY <1>2, <1>3, <2>1 DEF IsA
  <2>3. PICK i \in DOMAIN disk.nodes : \E b, r : Resolve(c) = [inode |-> i, base |-> b, path |-> r]
    BY <1>4, <2>2, ResolvesTo
  <2>4. at.inode \in DOMAIN disk.nodes
    BY <1>2, <2>1, <2>3
  <2>5. QED
    BY <1>4, <2>4 DEF Sound
<1>7. IsEntry(entry')
  BY <1>4, <1>5, <1>6 DEF IsEntry
<1>8. Still => OnListing(listing, found, entry')
  BY <1>3, <1>5 DEF Still, Settled, OnListing
<1>9. QED
  BY <1>3, <1>4, <1>5, <1>7, <1>8, EntryKeeps

LeftOf(t, m, l) ==
  /\ Sequence(l)
  /\ \A i \in DOMAIN l : Child(t, l[i].path) /\ l[i].path # m[1].path
  /\ \A i \in DOMAIN l : \E j \in DOMAIN m : l[i] = m[j]
  /\ \A i, j \in DOMAIN l : i # j => l[i].path # l[j].path
  /\ \A j \in DOMAIN m : j # 1 => \E i \in DOMAIN l : l[i] = m[j]

LEMMA EntriesLeft ==
  ASSUME Walking, listing # <<>>
  PROVE  LeftOf(task, listing, Tail(listing))
<1>1. /\ Sequence(listing) /\ \A i \in DOMAIN listing : Child(task, listing[i].path)
      /\ \A i, j \in DOMAIN listing : i # j => listing[i].path # listing[j].path
  BY DEF Walking, Shaped, ListingShape, Distinct
<1>2. PICK m, l : m = listing /\ l = Tail(listing)
  OBVIOUS
<1>3. /\ Sequence(Tail(m)) /\ 1 \in DOMAIN m
      /\ \A i \in DOMAIN Tail(m) : i + 1 \in DOMAIN m /\ i + 1 # 1 /\ Tail(m)[i] = m[i + 1]
      /\ \A i, j \in DOMAIN Tail(m) : i # j => i + 1 # j + 1
      /\ \A j \in DOMAIN m : j # 1 => \E i \in DOMAIN Tail(m) : Tail(m)[i] = m[j]
  BY <1>1, <1>2, ListingTail
<1>4. /\ Sequence(l) /\ 1 \in DOMAIN m
      /\ \A i \in DOMAIN l : i + 1 \in DOMAIN m /\ i + 1 # 1 /\ l[i] = m[i + 1]
      /\ \A i, j \in DOMAIN l : i # j => i + 1 # j + 1
      /\ \A j \in DOMAIN m : j # 1 => \E i \in DOMAIN l : l[i] = m[j]
  BY <1>2, <1>3
<1>5. LeftOf(task, m, l)
  BY <1>1, <1>2, <1>4 DEF LeftOf
<1>6. QED
  BY <1>2, <1>5

LEMMA PassOverKeeps ==
  ASSUME Walking, PassOver
  PROVE  Proceeds
<1>1. /\ listing' = Tail(listing) /\ entry = NoEntry /\ listing # <<>> /\ task.step = "entries"
      /\ Skipped(listing[1].path, task.matchers) \/ listing[1].kind \notin {"directory", "file"}
      /\ UNCHANGED <<pending, task, wanted, reading, found, entry, located, budget, state>>
  BY DEF PassOver, At
<1>2. PICK l : l = Tail(listing)
  OBVIOUS
<1>3. /\ Sequence(l)
      /\ \A i \in DOMAIN l : Child(task, l[i].path) /\ l[i].path # listing[1].path
      /\ \A i \in DOMAIN l : \E j \in DOMAIN listing : l[i] = listing[j]
      /\ \A i, j \in DOMAIN l : i # j => l[i].path # l[j].path
      /\ \A j \in DOMAIN listing : j # 1 => \E i \in DOMAIN l : l[i] = listing[j]
  <2>1. LeftOf(task, listing, l)
    BY <1>1, <1>2, EntriesLeft
  <2>2. QED
    BY <2>1 DEF LeftOf
<1>4. entry.step = "none"
  BY <1>1 DEF NoEntry
<1>5. ListingShape(task, l, found, entry)
  BY <1>1, <1>3, <1>4 DEF Walking, Shaped, ListingShape
<1>6. Distinct(pending, task, l, found, located)
  BY <1>3 DEF Walking, Shaped, Distinct
<1>7. Shaped(pending', task', wanted', reading', listing', found', entry', located')
  BY <1>1, <1>2, <1>5, <1>6 DEF Walking, Shaped
<1>8. Kept(reading', located', budget') /\ state' = "walk"
  BY <1>1 DEF Walking
<1>9. ASSUME Still PROVE Settled(pending', task', wanted', reading', listing', found', entry', located')
  <2>1. OnListing(l, found, entry)
    BY <1>3, <1>4, <1>9 DEF Still, Settled, OnListing
  <2>2. ASSUME NEW p \in Seq(AllNames), Target(p), Awaited(pending, task, listing, found, p)
        PROVE  Awaited(pending, task, l, found, p)
    <3>1. PICK q \in Seq(AllNames) : q = listing[1].path /\ q # <<>>
      BY <1>1, FirstEntry, ChildPath
    <3>2. ~Under(q, p)
      <4>1. SUFFICES ASSUME Under(q, p) PROVE FALSE
        OBVIOUS
      <4>2. ~LeftOut(q) /\ (q # p => Dir(q)) /\ (q = p => File(q))
        <5>1. Sound(disk)
          BY DEF Walking
        <5>2. QED
          BY <2>2, <3>1, <4>1, <5>1, OnTheWay
      <4>3. Plain(Base, q) # Nowhere /\ listing[1].kind = Kind(Plain(Base, q).inode)
            /\ (Skipped(q, task.matchers) <=> LeftOut(q))
        BY <1>1, <1>9, <3>1, FirstEntry
      <4>4. listing[1].kind \in {"directory", "file"}
        BY <4>2, <4>3 DEF Dir, File, IsA
      <4>5. QED
        BY <1>1, <3>1, <4>2, <4>3, <4>4
    <3>3. QED
      BY <1>3, <2>2, <3>1, <3>2 DEF Awaited
  <2>3. OnSources(pending, task, l, found, located)
    BY <1>9, <2>2 DEF Still, Settled, OnSources
  <2>4. QED
    BY <1>1, <1>2, <1>9, <2>1, <2>3 DEF Still, Settled
<1>10. QED
  BY <1>7, <1>8, <1>9 DEF Proceeds

LEMMA RegisterKeeps ==
  ASSUME Walking, Register
  PROVE  Refuse \/ Proceeds
<1>1. SUFFICES ASSUME ~Refuse PROVE Proceeds
  OBVIOUS
<1>2. /\ task.step = "entries" /\ entry = NoEntry /\ listing # <<>>
      /\ ~Skipped(listing[1].path, task.matchers) /\ listing[1].kind = "directory"
      /\ task.depth + 1 <= Limits.depth
      /\ found' = Append(found, [path |-> listing[1].path, depth |-> task.depth + 1])
      /\ budget' = [budget EXCEPT !.directories = @ + 1]
      /\ listing' = Tail(listing)
      /\ UNCHANGED <<pending, task, wanted, reading, entry, located, state>>
  BY <1>1 DEF Register, At
<1>3. PICK l, q, n, f, g :
        l = Tail(listing) /\ q = listing[1].path /\ n = [path |-> q, depth |-> task.depth + 1] /\ f = found /\ g = Append(f, n)
  OBVIOUS
<1>4. /\ Sequence(l)
      /\ \A i \in DOMAIN l : Child(task, l[i].path) /\ l[i].path # q
      /\ \A i \in DOMAIN l : \E j \in DOMAIN listing : l[i] = listing[j]
      /\ \A i, j \in DOMAIN l : i # j => l[i].path # l[j].path
      /\ \A j \in DOMAIN listing : j # 1 => \E i \in DOMAIN l : l[i] = listing[j]
  <2>1. LeftOf(task, listing, l)
    BY <1>2, <1>3, EntriesLeft
  <2>2. QED
    BY <1>3, <2>1 DEF LeftOf
<1>5. PICK k \in Nat : /\ DOMAIN f = 1..k /\ Sequence(g) /\ DOMAIN g = 1..(k + 1) /\ g[k + 1] = n
                       /\ \A i \in 1..k : g[i] = f[i]
  <2>1. Sequence(f)
    BY <1>3 DEF Walking, Shaped, ListingShape
  <2>2. Len(f) \in Nat /\ DOMAIN f = 1..Len(f)
    BY <2>1, SequenceIs
  <2>3. PICK k \in Nat : k = Len(f) /\ DOMAIN f = 1..k
    BY <2>2
  <2>4. Sequence(g) /\ Len(g) = k + 1 /\ g[k + 1] = n /\ \A i \in 1..k : g[i] = f[i]
    BY <1>3, <2>1, <2>3, AppendedIs
  <2>5. DOMAIN g = 1..(k + 1)
    BY <2>4, SequenceIs
  <2>6. QED
    BY <2>3, <2>4, <2>5
<1>6. \A i \in 1..(k + 1) : g[i] = n \/ (i \in DOMAIN f /\ g[i] = f[i] /\ i # k + 1)
  <2>1. \A i \in 1..(k + 1) : i = k + 1 \/ (i \in 1..k /\ i # k + 1)
    OBVIOUS
  <2>2. QED
    BY <1>5, <2>1
<1>7. /\ IsTask(task) /\ Child(task, q) /\ Limits.depth \in Nat /\ Sound(disk) /\ 1 \in DOMAIN listing
      /\ n.path = q /\ n.depth = Len(task.path) + 1 /\ Len(task.path) + 1 <= Limits.depth
  <2>1. IsTask(task) /\ Child(task, q) /\ Limits.depth \in Nat /\ Sound(disk) /\ 1 \in DOMAIN listing
    BY <1>2, <1>3, FirstEntry
  <2>2. QED
    BY <1>2, <1>3, <2>1 DEF IsTask
<1>8. ListingShape(task, l, g, entry)
  <2>1. \A i \in DOMAIN g : Child(task, g[i].path) /\ g[i].depth = Len(task.path) + 1
    BY <1>3, <1>5, <1>6, <1>7 DEF Walking, Shaped, ListingShape
  <2>2. entry.step = "none" /\ IsEntry(entry)
    BY <1>2 DEF NoEntry, Walking, Shaped, ListingShape
  <2>3. QED
    BY <1>2, <1>4, <1>5, <1>7, <2>1, <2>2 DEF ListingShape
<1>9. Distinct(pending, task, l, g, located)
  <2>1. \A i \in DOMAIN listing, j \in DOMAIN f : listing[i].path # f[j].path
    BY <1>3 DEF Walking, Shaped, Distinct
  <2>2. \A i, j \in DOMAIN f : i # j => f[i].path # f[j].path
    BY <1>3 DEF Walking, Shaped, Distinct
  <2>3. \A i, j \in DOMAIN g : i # j => g[i].path # g[j].path
    <3>1. TAKE i, j \in DOMAIN g
    <3>2. i \in 1..k \/ i = k + 1
      BY <1>5
    <3>3. j \in 1..k \/ j = k + 1
      BY <1>5
    <3>4. \A h \in 1..k : g[h] = f[h] /\ f[h].path # q
      BY <1>3, <1>5, <1>7, <2>1
    <3>5. g[k + 1].path = q
      BY <1>5, <1>7
    <3>6. QED
      BY <1>5, <2>2, <3>2, <3>3, <3>4, <3>5
  <2>4. \A i \in DOMAIN l, j \in DOMAIN g : l[i].path # g[j].path
    BY <1>4, <1>5, <1>6, <1>7, <2>1
  <2>5. \A i \in DOMAIN located : \A j \in DOMAIN g : ~Under(g[j].path, located[i].relative)
    <3>1. \A i \in DOMAIN located : ~Under(q, located[i].relative)
      BY <1>3, <1>7 DEF Walking, Shaped, Distinct
    <3>2. \A i \in DOMAIN located : \A j \in DOMAIN f : ~Under(f[j].path, located[i].relative)
      BY <1>3 DEF Walking, Shaped, Distinct
    <3>3. QED
      BY <1>5, <1>6, <1>7, <3>1, <3>2
  <2>6. \A i \in DOMAIN located : \A j \in DOMAIN l : ~Under(l[j].path, located[i].relative)
    BY <1>4 DEF Walking, Shaped, Distinct
  <2>7. QED
    BY <1>4, <2>3, <2>4, <2>5, <2>6 DEF Walking, Shaped, Distinct
<1>10. Shaped(pending', task', wanted', reading', listing', found', entry', located')
  BY <1>2, <1>3, <1>8, <1>9 DEF Walking, Shaped
<1>11. Kept(reading', located', budget') /\ state' = "walk"
  <2>1. DOMAIN budget' = DOMAIN budget /\ budget'.files = budget.files /\ budget'.bytes = budget.bytes /\ budget'.read = budget.read
    BY <1>2
  <2>2. QED
    BY <1>2, <2>1 DEF Walking, Kept
<1>12. ASSUME Still PROVE Settled(pending', task', wanted', reading', listing', found', entry', located')
  <2>1. Dir(q) /\ Good(q)
    <3>1. /\ Good(task.path) /\ Plain(Base, q) # Nowhere /\ listing[1].kind = Kind(Plain(Base, q).inode)
          /\ (Skipped(q, task.matchers) <=> LeftOut(q))
      BY <1>2, <1>3, <1>12, FirstEntry
    <3>2. Dir(q)
      BY <1>2, <3>1 DEF Dir, IsA
    <3>3. ~LeftOut(q)
      BY <1>2, <1>3, <3>1
    <3>4. PICK r \in Seq(Word), x \in Word : r = task.path /\ q = Append(r, x)
      <4>1. PICK t : t = task
        OBVIOUS
      <4>2. IsTask(t) /\ Child(t, q)
        BY <1>7, <4>1
      <4>3. q = Append(t.path, Last(q)) /\ Last(q) \in AllNames
        BY <1>7, <4>2, ChildPath
      <4>4. t.path \in Seq(Word) /\ Last(q) \in Word
        BY <4>2, <4>3, WordsAre DEF IsTask, Word
      <4>5. QED
        BY <4>1, <4>3, <4>4
    <3>5. Good(q)
      BY <3>1, <3>3, <3>4, GoodChild
    <3>6. QED
      BY <3>2, <3>5
  <2>2. OnListing(l, g, entry)
    <3>1. \A i \in DOMAIN g : Dir(g[i].path) /\ Good(g[i].path)
      BY <1>3, <1>5, <1>6, <1>7, <1>12, <2>1 DEF Still, Settled, OnListing
    <3>2. entry.step = "none"
      BY <1>2 DEF NoEntry
    <3>3. QED
      BY <1>4, <1>12, <3>1, <3>2 DEF Still, Settled, OnListing
  <2>3. ASSUME NEW p, Awaited(pending, task, listing, f, p) PROVE Awaited(pending, task, l, g, p)
    <3>1. ASSUME NEW i \in DOMAIN f PROVE i \in DOMAIN g /\ g[i] = f[i]
      BY <1>5, <3>1
    <3>2. k + 1 \in DOMAIN g /\ g[k + 1].path = q
      BY <1>5, <1>7
    <3>3. QED
      BY <1>3, <1>4, <2>3, <3>1, <3>2 DEF Awaited
  <2>4. OnSources(pending, task, l, g, located)
    BY <1>3, <1>12, <2>3 DEF Still, Settled, OnSources
  <2>5. QED
    BY <1>2, <1>3, <1>12, <2>2, <2>4 DEF Still, Settled
<1>13. QED
  BY <1>10, <1>11, <1>12 DEF Proceeds

(* The file that is checked is one that is to be found, if it is selected. *)
LEMMA CheckedIs ==
  ASSUME Walking, Still, entry.step = "select", NEW q, q = entry.path
  PROVE  /\ File(q) /\ ~Dir(q) /\ entry.canonical = q
         /\ Target(q) <=> Selects(Language(entry.canonical, Resolve(entry.canonical)), q)
<1>1. listing # <<>> /\ q = listing[1].path
  BY DEF Walking, Shaped, ListingShape
<1>2. listing[1].kind = "file" /\ ~LeftOut(q) /\ entry.canonical = q
  BY <1>1 DEF Still, Settled, OnListing
<1>3. /\ IsTask(task) /\ Child(task, q) /\ Limits.depth \in Nat /\ Sound(disk) /\ Dir(task.path) /\ Good(task.path)
      /\ Plain(Base, q) # Nowhere /\ listing[1].kind = Kind(Plain(Base, q).inode)
  BY <1>1, FirstEntry
<1>4. File(q) /\ ~Dir(q) /\ ~IsA("link", Plain(Base, q))
  BY <1>2, <1>3 DEF File, Dir, IsA
<1>5. PICK t : t = task
  OBVIOUS
<1>6. IsTask(t) /\ Child(t, q)
  BY <1>3, <1>5
<1>7. t.path \in Seq(AllNames) /\ t.path \in Seq(Word) /\ q = Append(t.path, Last(q)) /\ Last(q) \in AllNames
      /\ Last(q) \in Word /\ Len(q) \in 1..(Limits.depth + 1)
  <2>1. q = Append(t.path, Last(q)) /\ Last(q) \in AllNames /\ Len(q) \in 1..(Limits.depth + 1)
    BY <1>3, <1>6, ChildPath
  <2>2. QED
    BY <1>6, <2>1, WordsAre DEF IsTask, Word
<1>8. PICK r \in Seq(Word), x \in Word : r = t.path /\ x = Last(q) /\ q = Append(r, x)
  BY <1>7
<1>9. Resolve(q) = Plain(Base, q)
  <2>1. Dir(r) /\ ~IsA("link", Plain(Base, Append(r, x)))
    BY <1>3, <1>4, <1>5, <1>8
  <2>2. Resolve(Append(r, x)) = Plain(Base, Append(r, x))
    BY <1>3, <2>1, ChildIs
  <2>3. QED
    BY <1>8, <2>2
<1>10. Good(q)
  <2>1. Good(r) /\ ~LeftOut(Append(r, x))
    BY <1>2, <1>3, <1>5, <1>8
  <2>2. QED
    BY <1>8, <2>1, GoodChild
<1>11. Len(q) <= Limits.depth + 1
  BY <1>3, <1>7
<1>12. QED
  BY <1>2, <1>4, <1>9, <1>10, <1>11 DEF Target

LEMMA SelectKeeps ==
  ASSUME Walking, Select
  PROVE  Refuse \/ Proceeds
<1>1. SUFFICES ASSUME ~Refuse PROVE Proceeds
  OBVIOUS
<1>2. PICK language, q, z, n, l :
        /\ language = Language(entry.canonical, Resolve(entry.canonical)) /\ q = entry.path /\ z = entry.size
        /\ n = SourceOf(language) /\ l = Tail(listing)
  OBVIOUS
<1>3. /\ entry.step = "select" /\ entry' = NoEntry /\ listing' = l
      /\ UNCHANGED <<pending, task, wanted, reading, found, state>>
      /\ IF Selects(language, q)
           THEN /\ Observes(z) /\ located' = Append(located, n)
                /\ budget' = [budget EXCEPT !.files = @ + 1, !.bytes = @ + z]
           ELSE located' = located /\ budget' = budget
  BY <1>1, <1>2, Zenon DEF Select
<1>4. listing # <<>> /\ q = listing[1].path /\ z \in Nat /\ IsEntry(entry)
  BY <1>2, <1>3 DEF Walking, Shaped, ListingShape, IsEntry
<1>5. /\ n.relative = q /\ n.path = entry.canonical /\ n.size = z
  BY <1>2 DEF SourceOf
<1>6. /\ IsTask(task) /\ Child(task, q) /\ Limits.depth \in Nat /\ Sound(disk) /\ 1 \in DOMAIN listing
      /\ task.step = "entries"
  BY <1>4, FirstEntry
<1>7. q \in Seq(AllNames) /\ q \in Seq(Word) /\ q # <<>> /\ Len(q) \in 1..(Limits.depth + 1)
  <2>1. PICK t : t = task
    OBVIOUS
  <2>2. IsTask(t) /\ Child(t, q)
    BY <1>6, <2>1
  <2>3. QED
    BY <1>6, <2>2, ChildPath
<1>8. /\ Sequence(l)
      /\ \A i \in DOMAIN l : Child(task, l[i].path) /\ l[i].path # q
      /\ \A i \in DOMAIN l : \E j \in DOMAIN listing : l[i] = listing[j]
      /\ \A i, j \in DOMAIN l : i # j => l[i].path # l[j].path
      /\ \A j \in DOMAIN listing : j # 1 => \E i \in DOMAIN l : l[i] = listing[j]
  <2>1. LeftOf(task, listing, l)
    BY <1>2, <1>4, EntriesLeft
  <2>2. QED
    BY <1>4, <2>1 DEF LeftOf
<1>9. ListingShape(task, l, found, NoEntry)
  <2>1. IsEntry(NoEntry) /\ NoEntry.step = "none"
    <3>1. <<>> \in Seq(Word) /\ 0 \in Nat
      BY EmptySeq
    <3>2. QED
      BY <3>1 DEF IsEntry, NoEntry
  <2>2. QED
    BY <1>6, <1>8, <2>1 DEF Walking, Shaped, ListingShape
<1>10. Distinct(pending, task, l, found, located)
  BY <1>8 DEF Walking, Shaped, Distinct
<1>11. ASSUME Still PROVE OnListing(l, found, NoEntry)
  <2>1. NoEntry.step = "none"
    BY DEF NoEntry
  <2>2. QED
    BY <1>8, <1>11, <2>1 DEF Still, Settled, OnListing
<1>12. ASSUME Still, NEW p \in Seq(AllNames), Target(p), Awaited(pending, task, listing, found, p)
       PROVE  Awaited(pending, task, l, found, p) \/ (p = q /\ Selects(language, q))
  <2>1. ~Dir(q) /\ (Target(q) <=> Selects(language, q))
    BY <1>2, <1>3, <1>12, CheckedIs
  <2>2. Under(q, p) => p = q
    <3>1. Under(q, p) => (q # p => Dir(q))
      BY <1>6, <1>7, <1>12, OnTheWay
    <3>2. QED
      BY <2>1, <3>1
  <2>3. QED
    BY <1>4, <1>8, <1>12, <2>1, <2>2 DEF Awaited
<1>13. CASE ~Selects(language, q)
  <2>1. located' = located /\ budget' = budget
    BY <1>3, <1>13
  <2>2. Shaped(pending', task', wanted', reading', listing', found', entry', located')
    <3>1. ReadingShape(task', wanted', reading') /\ TasksShape(pending', task') /\ SourcesShape(located')
      BY <1>3, <2>1 DEF Walking, Shaped
    <3>2. QED
      BY <1>3, <1>9, <1>10, <2>1, <3>1 DEF Shaped
  <2>3. Kept(reading', located', budget') /\ state' = "walk"
    BY <1>3, <2>1 DEF Walking
  <2>4. ASSUME Still PROVE Settled(pending', task', wanted', reading', listing', found', entry', located')
    <3>1. OnSources(pending, task, l, found, located)
      <4>1. \A p \in Seq(AllNames) : Target(p) =>
              Awaited(pending, task, listing, found, p) \/ \E i \in DOMAIN located : located[i].relative = p
        BY <2>4 DEF Still, Settled, OnSources
      <4>2. \A p \in Seq(AllNames) : Target(p) /\ Awaited(pending, task, listing, found, p) => Awaited(pending, task, l, found, p)
        BY <1>12, <1>13, <2>4
      <4>3. \A i \in DOMAIN located : Target(located[i].relative) /\ located[i].path = located[i].relative
        BY <2>4 DEF Still, Settled, OnSources
      <4>4. QED
        BY <4>1, <4>2, <4>3 DEF OnSources
    <3>2. OnTasks(pending', task', wanted') /\ OnRead(reading')
      BY <1>3, <2>4 DEF Still, Settled
    <3>3. QED
      BY <1>3, <1>11, <2>1, <2>4, <3>1, <3>2 DEF Settled
  <2>5. QED
    BY <2>2, <2>3, <2>4 DEF Proceeds
<1>14. CASE Selects(language, q)
  <2>1. PICK s, g : s = located /\ g = Append(s, n)
    OBVIOUS
  <2>2. located' = g /\ budget' = [budget EXCEPT !.files = @ + 1, !.bytes = @ + z] /\ Observes(z)
    BY <1>3, <1>14, <2>1
  <2>3. PICK k \in Nat : /\ k = Len(s) /\ Len(g) = k + 1 /\ DOMAIN s = 1..k /\ Sequence(g) /\ DOMAIN g = 1..(k + 1)
                         /\ g[k + 1] = n /\ \A i \in 1..k : g[i] = s[i]
    <3>1. Sequence(s)
      BY <2>1 DEF Walking, Shaped, SourcesShape
    <3>2. Len(s) \in Nat /\ DOMAIN s = 1..Len(s)
      BY <3>1, SequenceIs
    <3>3. PICK k \in Nat : k = Len(s) /\ DOMAIN s = 1..k
      BY <3>2
    <3>4. Sequence(g) /\ Len(g) = k + 1 /\ g[k + 1] = n /\ \A i \in 1..k : g[i] = s[i]
      BY <2>1, <3>1, <3>3, AppendedIs
    <3>5. DOMAIN g = 1..(k + 1)
      BY <3>4, SequenceIs
    <3>6. QED
      BY <3>3, <3>4, <3>5
  <2>4. /\ \A i \in 1..(k + 1) : (i = k + 1 /\ g[i] = n) \/ (i \in DOMAIN s /\ g[i] = s[i] /\ i # k + 1)
        /\ \A i \in DOMAIN s : i \in DOMAIN g /\ g[i] = s[i]
        /\ k + 1 \in DOMAIN g
    <3>1. \A i \in 1..(k + 1) : i = k + 1 \/ (i \in 1..k /\ i # k + 1)
      OBVIOUS
    <3>2. \A i \in 1..k : i \in 1..(k + 1)
      OBVIOUS
    <3>3. k + 1 \in 1..(k + 1)
      OBVIOUS
    <3>4. QED
      BY <2>3, <3>1, <3>2, <3>3
  <2>5. SourcesShape(g)
    <3>1. \A i \in DOMAIN s : s[i].relative \in Seq(AllNames) /\ Len(s[i].relative) \in 1..(Limits.depth + 1) /\ s[i].size \in Nat
      BY <2>1 DEF Walking, Shaped, SourcesShape
    <3>2. QED
      BY <1>4, <1>5, <1>7, <2>3, <2>4, <3>1 DEF SourcesShape
  <2>6. Distinct(pending, task, l, found, g)
    <3>1. PICK t : t = task
      OBVIOUS
    <3>2. IsTask(t) /\ Child(t, q) /\ \A i \in DOMAIN l : Child(t, l[i].path)
      BY <1>6, <1>8, <3>1
    <3>3. \A i \in DOMAIN found : Child(t, found[i].path) /\ found[i].path # q
      BY <1>4, <1>6, <3>1 DEF Walking, Shaped, ListingShape, Distinct
    <3>4. \A i \in DOMAIN s : s[i].relative # q
      <4>1. TAKE i \in DOMAIN s
      <4>2. ~Under(q, s[i].relative)
        BY <1>4, <1>6, <2>1 DEF Walking, Shaped, Distinct
      <4>3. Under(q, q)
        BY <1>7, UnderIs
      <4>4. QED
        BY <4>2, <4>3
    <3>5. \A i \in DOMAIN l : ~Under(l[i].path, q)
      <4>1. \A i \in DOMAIN l : Apart(l[i].path, q)
        BY <1>6, <1>8, <3>2, ChildrenApart
      <4>2. QED
        BY <4>1 DEF Apart
    <3>6. \A i \in DOMAIN found : ~Under(found[i].path, q)
      <4>1. \A i \in DOMAIN found : Apart(found[i].path, q)
        BY <1>6, <3>2, <3>3, ChildrenApart
      <4>2. QED
        BY <4>1 DEF Apart
    <3>7. \A i \in DOMAIN pending : ~Under(pending[i].path, q)
      <4>1. TAKE i \in DOMAIN pending
      <4>2. PICK r : r = pending[i].path
        OBVIOUS
      <4>3. r \in Seq(AllNames)
        BY <4>2 DEF Walking, Shaped, TasksShape, IsTask
      <4>4. Apart(r, t.path)
        BY <1>6, <3>1, <4>2 DEF Walking, Shaped, Distinct
      <4>5. Apart(r, q)
        BY <1>6, <3>2, <4>3, <4>4, ChildApart
      <4>6. QED
        BY <4>2, <4>5 DEF Apart
    <3>8. task.step \notin Early
      BY <1>6 DEF Early
    <3>9. \A i, j \in DOMAIN g : i # j => g[i].relative # g[j].relative
      <4>1. TAKE i, j \in DOMAIN g
      <4>2. i \in 1..(k + 1) /\ j \in 1..(k + 1)
        BY <2>3
      <4>3. \A a, b \in DOMAIN s : a # b => s[a].relative # s[b].relative
        BY <2>1 DEF Walking, Shaped, Distinct
      <4>4. QED
        BY <1>5, <2>4, <3>4, <4>2, <4>3
    <3>10. \A i \in DOMAIN g : \/ g[i].relative = q
                               \/ \E h \in DOMAIN s : g[i].relative = s[h].relative
      BY <1>5, <2>3, <2>4
    <3>11. /\ \A i \in DOMAIN g : \A j \in DOMAIN pending : ~Under(pending[j].path, g[i].relative)
           /\ \A i \in DOMAIN g : \A j \in DOMAIN l : ~Under(l[j].path, g[i].relative)
           /\ \A i \in DOMAIN g : \A j \in DOMAIN found : ~Under(found[j].path, g[i].relative)
      <4>1. /\ \A i \in DOMAIN s : \A j \in DOMAIN pending : ~Under(pending[j].path, s[i].relative)
            /\ \A i \in DOMAIN s : \A j \in DOMAIN l : ~Under(l[j].path, s[i].relative)
            /\ \A i \in DOMAIN s : \A j \in DOMAIN found : ~Under(found[j].path, s[i].relative)
        BY <1>10, <2>1 DEF Distinct
      <4>2. QED
        BY <3>5, <3>6, <3>7, <3>10, <4>1
    <3>12. QED
      BY <1>10, <3>8, <3>9, <3>11 DEF Distinct
  <2>7. Shaped(pending', task', wanted', reading', listing', found', entry', located')
    <3>1. ReadingShape(task', wanted', reading') /\ TasksShape(pending', task')
      BY <1>3 DEF Walking, Shaped
    <3>2. QED
      BY <1>3, <1>9, <2>2, <2>5, <2>6, <3>1 DEF Shaped
  <2>8. Kept(reading, g, budget')
    <3>1. /\ DOMAIN budget = Counters /\ budget.files = k /\ budget.bytes = Total(s) /\ \A i \in budget.read : Lies(i)
          /\ \A i \in DOMAIN s : s[i].size <= options.maxBytes
      BY <2>1, <2>3 DEF Walking, Kept
    <3>2. /\ DOMAIN budget' = Counters /\ budget'.read = budget.read
          /\ budget'.files = k + 1 /\ budget'.bytes = Total(s) + z
      BY <2>2, <3>1 DEF Counters
    <3>3. Total(g) = Total(s) + z
      <4>1. Sized(s)
        BY <2>1 DEF Walking, Shaped, SourcesShape, Sized
      <4>2. QED
        BY <1>4, <1>5, <2>1, <4>1, TotalAdded
    <3>4. z <= options.maxBytes /\ Total(s) + z <= Limits.bytes
      BY <2>2, <3>1 DEF Observes
    <3>5. \A i \in DOMAIN g : g[i].size <= options.maxBytes
      BY <1>5, <2>3, <2>4, <3>1, <3>4
    <3>6. QED
      BY <2>3, <3>1, <3>2, <3>3, <3>4, <3>5 DEF Walking, Kept
  <2>9. Kept(reading', located', budget') /\ state' = "walk"
    <3>1. located' = g /\ reading' = reading /\ state' = state
      BY <1>3, <2>2
    <3>2. QED
      BY <2>8, <3>1 DEF Walking
  <2>10. ASSUME Still PROVE Settled(pending', task', wanted', reading', listing', found', entry', located')
    <3>1. Target(q) /\ entry.canonical = q
      BY <1>2, <1>3, <1>14, <2>10, CheckedIs
    <3>2. \A i \in DOMAIN g : Target(g[i].relative) /\ g[i].path = g[i].relative
      <4>1. \A i \in DOMAIN s : Target(s[i].relative) /\ s[i].path = s[i].relative
        BY <2>1, <2>10 DEF Still, Settled, OnSources
      <4>2. QED
        BY <1>5, <2>3, <2>4, <3>1, <4>1
    <3>3. ASSUME NEW p \in Seq(AllNames), Target(p)
          PROVE  Awaited(pending, task, l, found, p) \/ \E i \in DOMAIN g : g[i].relative = p
      <4>1. Awaited(pending, task, listing, found, p) \/ \E i \in DOMAIN s : s[i].relative = p
        BY <2>1, <2>10, <3>3 DEF Still, Settled, OnSources
      <4>2. CASE Awaited(pending, task, listing, found, p)
        <5>1. Awaited(pending, task, l, found, p) \/ p = q
          BY <1>12, <2>10, <3>3, <4>2
        <5>2. k + 1 \in DOMAIN g /\ g[k + 1].relative = q
          BY <1>5, <2>3, <2>4
        <5>3. QED
          BY <5>1, <5>2
      <4>3. CASE \E i \in DOMAIN s : s[i].relative = p
        BY <2>4, <4>3
      <4>4. QED
        BY <4>1, <4>2, <4>3
    <3>4. OnSources(pending, task, l, found, g)
      BY <3>2, <3>3 DEF OnSources
    <3>5. OnTasks(pending', task', wanted') /\ OnRead(reading')
      BY <1>3, <2>10 DEF Still, Settled
    <3>6. QED
      BY <1>3, <1>11, <2>2, <2>10, <3>4, <3>5 DEF Settled
  <2>11. QED
    BY <2>7, <2>9, <2>10 DEF Proceeds
<1>15. QED
  BY <1>13, <1>14

LEMMA Backwards ==
  ASSUME NEW n \in Nat
  PROVE  /\ \A i \in 1..n : n + 1 - i \in 1..n
         /\ \A i \in 1..n : \E j \in 1..n : n + 1 - j = i
         /\ \A i, j \in 1..n : i # j => n + 1 - i # n + 1 - j
<1>1. \A i \in 1..n : n + 1 - i \in 1..n /\ n + 1 - (n + 1 - i) = i
  OBVIOUS
<1>2. \A i, j \in 1..n : i # j => n + 1 - i # n + 1 - j
  OBVIOUS
<1>3. QED
  BY <1>1, <1>2

LEMMA LeaveKeeps ==
  ASSUME Walking, Leave
  PROVE  Proceeds
<1> DEFINE Reversed(f, m) == [i \in DOMAIN f |-> LET d == f[Len(f) + 1 - i] IN Popped(d.path, d.depth, m)]
<1>1. /\ task.step = "entries" /\ entry = NoEntry /\ listing = <<>>
      /\ pending' = pending \o Reversed(found, task.matchers)
      /\ found' = <<>> /\ task' = NoTask
      /\ UNCHANGED <<wanted, reading, listing, entry, located, budget, state>>
  BY Zenon DEF Leave, At
<1> HIDE DEF Reversed
<1>2. PICK pd, f, t, m, r, g :
        pd = pending /\ f = found /\ t = task /\ m = task.matchers /\ r = Reversed(f, m) /\ g = pd \o r
  OBVIOUS
<1>3. pending' = g
  BY <1>1, <1>2
<1>4. PICK a \in Nat, n \in Nat : /\ a = Len(pd) /\ n = Len(f) /\ DOMAIN pd = 1..a /\ DOMAIN f = 1..n
                                  /\ Sequence(pd) /\ Sequence(f)
  <2>1. Sequence(pd) /\ Sequence(f)
    BY <1>2 DEF Walking, Shaped, TasksShape, ListingShape
  <2>2. Len(pd) \in Nat /\ Len(f) \in Nat /\ DOMAIN pd = 1..Len(pd) /\ DOMAIN f = 1..Len(f)
    BY <2>1, SequenceIs
  <2>3. QED
    BY <2>1, <2>2
<1>5. /\ Sequence(r) /\ Len(r) = n
      /\ \A i \in 1..n : r[i] = Popped(f[n + 1 - i].path, f[n + 1 - i].depth, m)
  <2>1. r = [i \in 1..n |-> Popped(f[n + 1 - i].path, f[n + 1 - i].depth, m)]
    BY <1>2, <1>4 DEF Reversed
  <2>2. r = [i \in 1..n |-> r[i]] /\ \A i \in 1..n : r[i] = Popped(f[n + 1 - i].path, f[n + 1 - i].depth, m)
    BY <2>1
  <2>3. QED
    BY <2>2, ListIs
<1>6. Sequence(g) /\ DOMAIN g = 1..(a + n) /\ (\A i \in 1..a : g[i] = pd[i]) /\ \A i \in 1..n : g[a + i] = r[i]
  <2>1. Sequence(pd \o r) /\ Len(pd \o r) = a + n /\ (\A i \in 1..a : (pd \o r)[i] = pd[i]) /\ \A i \in 1..n : (pd \o r)[a + i] = r[i]
    <3>1. Sequence(pd) /\ Sequence(r)
      BY <1>4, <1>5
    <3>2. /\ Sequence(pd \o r) /\ Len(pd \o r) = Len(pd) + Len(r)
          /\ (\A i \in 1..Len(pd) : (pd \o r)[i] = pd[i]) /\ \A i \in 1..Len(r) : (pd \o r)[Len(pd) + i] = r[i]
      BY <3>1, JoinedIs
    <3>3. a = Len(pd) /\ n = Len(r)
      BY <1>4, <1>5
    <3>4. QED
      BY <3>2, <3>3
  <2>2. Sequence(g) /\ Len(g) = a + n /\ (\A i \in 1..a : g[i] = pd[i]) /\ \A i \in 1..n : g[a + i] = r[i]
    BY <1>2, <2>1
  <2>3. QED
    BY <2>2, SequenceIs
<1>7. PICK back : back = [i \in 1..n |-> n + 1 - i]
  OBVIOUS
<1>8. /\ \A i \in 1..n : back[i] \in 1..n
      /\ \A i \in 1..n : \E j \in 1..n : back[j] = i
      /\ \A i, j \in 1..n : i # j => back[i] # back[j]
      /\ \A i \in 1..n : r[i] = Popped(f[back[i]].path, f[back[i]].depth, m)
  <2>1. \A i \in 1..n : back[i] = n + 1 - i
    BY <1>7
  <2>2. QED
    BY <1>5, <2>1, Backwards
<1>9. /\ \A i \in 1..(a + n) : i \in 1..a \/ \E j \in 1..n : i = a + j
      /\ \A i \in 1..a : i \in 1..(a + n)
      /\ \A j \in 1..n : a + j \in 1..(a + n) /\ a + j \notin 1..a
      /\ \A i, j \in 1..n : a + i # a + j => i # j
  <2>1. \A i \in 1..(a + n) : i \in 1..a \/ \E j \in 1..n : i = a + j
    <3>1. TAKE i \in 1..(a + n)
    <3>2. i \notin 1..a => i - a \in 1..n /\ i = a + (i - a)
      OBVIOUS
    <3>3. QED
      BY <3>2
  <2>2. \A i \in 1..a : i \in 1..(a + n)
    OBVIOUS
  <2>3. \A j \in 1..n : a + j \in 1..(a + n) /\ a + j \notin 1..a
    OBVIOUS
  <2>4. QED
    BY <2>1, <2>2, <2>3
<1>10. IsTask(t) /\ IsMatchers(m) /\ Limits.depth \in Nat /\ Sound(disk) /\ t.step = "entries"
  BY <1>1, <1>2 DEF Walking, Shaped, TasksShape, WellFormed, IsTask
<1>11. \A i \in 1..n : Child(t, f[i].path) /\ f[i].depth = Len(t.path) + 1 /\ Len(t.path) + 1 <= Limits.depth
  BY <1>2, <1>4 DEF Walking, Shaped, ListingShape
<1>12. \A i \in 1..n : /\ r[i].path = f[back[i]].path /\ r[i].matchers = m /\ r[i].step = "popped"
                       /\ IsTask(r[i])
  <2>1. TAKE i \in 1..n
  <2>2. PICK p, e : p = f[back[i]].path /\ e = f[back[i]].depth
    OBVIOUS
  <2>3. Child(t, p) /\ e = Len(t.path) + 1 /\ e <= Limits.depth
    BY <1>8, <1>11, <2>2
  <2>4. p \in Seq(AllNames) /\ Len(p) = e
    BY <1>10, <2>3, ChildPath
  <2>5. r[i] = [path |-> p, depth |-> e, matchers |-> m, step |-> "popped"]
    BY <1>8, <2>2 DEF Popped
  <2>6. IsTask(r[i])
    BY <1>10, <2>3, <2>4, <2>5 DEF IsTask
  <2>7. QED
    BY <2>2, <2>5, <2>6
<1>a. PICK place : place = [j \in 1..n |-> a + j]
  OBVIOUS
<1>b. PICK A, G, N : A = 1..a /\ G = 1..(a + n) /\ N = 1..n
  OBVIOUS
<1>13. /\ A = DOMAIN pd /\ G = DOMAIN g /\ N = DOMAIN f /\ A = 1..a /\ G = 1..(a + n) /\ N = 1..n
       /\ \A i \in G : (i \in A /\ g[i] = pd[i]) \/ (i \notin A /\ \E j \in N : i = place[j] /\ g[i] = r[j])
       /\ \A j \in N : place[j] \in G /\ g[place[j]] = r[j]
       /\ \A i \in A : i \in G /\ g[i] = pd[i]
  <2>2. \A j \in 1..n : place[j] = a + j
    BY <1>a
  <2>3. \A i \in 1..(a + n) : (i \in 1..a /\ g[i] = pd[i]) \/ (i \notin 1..a /\ \E j \in 1..n : i = place[j] /\ g[i] = r[j])
    BY <1>6, <1>9, <2>2
  <2>4. \A j \in 1..n : place[j] \in 1..(a + n) /\ g[place[j]] = r[j]
    BY <1>6, <1>9, <2>2
  <2>5. \A i \in 1..a : i \in 1..(a + n) /\ g[i] = pd[i]
    BY <1>6, <1>9
  <2>6. A = DOMAIN pd /\ G = DOMAIN g /\ N = DOMAIN f
    BY <1>4, <1>6, <1>b
  <2>7. QED
    BY <1>b, <2>3, <2>4, <2>5, <2>6
<1>z. /\ A = DOMAIN pd /\ G = DOMAIN g /\ N = DOMAIN f
      /\ \A i \in G : (i \in A /\ g[i] = pd[i]) \/ (i \notin A /\ \E j \in N : i = place[j] /\ g[i] = r[j])
      /\ \A j \in N : place[j] \in G /\ g[place[j]] = r[j]
      /\ \A i \in A : i \in G /\ g[i] = pd[i]
      /\ \A j \in N : back[j] \in N /\ r[j].path = f[back[j]].path /\ r[j].step = "popped" /\ IsTask(r[j])
      /\ \A i, j \in N : i # j => back[i] # back[j]
      /\ \A i \in N : \E j \in N : back[j] = i
  BY <1>8, <1>12, <1>13
<1>14. TasksShape(g, NoTask)
  <2>1. \A i \in DOMAIN pd : IsTask(pd[i]) /\ pd[i].step = "popped"
    BY <1>2 DEF Walking, Shaped, TasksShape
  <2>2. \A i \in DOMAIN g : IsTask(g[i]) /\ g[i].step = "popped"
    BY <1>z, <2>1
  <2>3. IsTask(NoTask) /\ NoTask.step = "none"
    <3>1. <<>> \in Seq(AllNames) /\ Len(<<>>) = 0 /\ Sequence(<<>>) /\ 0 <= Limits.depth
      BY <1>10, EmptySeq, NoneIs
    <3>2. QED
      BY <3>1 DEF IsTask, NoTask, Popped, IsMatchers, NoMatchers
  <2>4. QED
    BY <1>6, <2>2, <2>3 DEF TasksShape
<1>15. wanted = <<>> /\ entry.step = "none"
  BY <1>1 DEF Walking, Shaped, ReadingShape, NoEntry
<1>16. ReadingShape(NoTask, wanted, reading)
  BY <1>15 DEF Walking, Shaped, ReadingShape
<1>17. ListingShape(NoTask, <<>>, <<>>, entry)
  <2>1. Sequence(<<>>) /\ DOMAIN <<>> = {} /\ IsEntry(entry)
    BY NoneIs DEF Walking, Shaped, ListingShape
  <2>2. QED
    BY <1>15, <2>1 DEF ListingShape
<1>18. Distinct(g, NoTask, <<>>, <<>>, located)
  <2>1. /\ \A i, j \in DOMAIN pd : i # j => Apart(pd[i].path, pd[j].path)
        /\ \A i \in DOMAIN pd : Apart(pd[i].path, t.path)
        /\ \A i, j \in DOMAIN f : i # j => f[i].path # f[j].path
        /\ \A i, j \in DOMAIN located : i # j => located[i].relative # located[j].relative
        /\ \A i \in DOMAIN located : \A j \in DOMAIN pd : ~Under(pd[j].path, located[i].relative)
        /\ \A i \in DOMAIN located : \A j \in DOMAIN f : ~Under(f[j].path, located[i].relative)
    BY <1>2, <1>10 DEF Walking, Shaped, Distinct
  <2>2. \A i, j \in 1..n : i # j => Apart(f[i].path, f[j].path)
    <3>1. TAKE i, j \in 1..n
    <3>2. PICK p, q : p = f[i].path /\ q = f[j].path
      OBVIOUS
    <3>3. Child(t, p) /\ Child(t, q)
      BY <1>11, <3>2
    <3>4. p # q => Apart(p, q)
      BY <1>10, <3>3, ChildrenApart
    <3>5. QED
      BY <1>4, <2>1, <3>2, <3>4
  <2>3. \A i \in 1..a, j \in 1..n : Apart(pd[i].path, f[j].path) /\ Apart(f[j].path, pd[i].path)
    <3>1. TAKE i \in 1..a, j \in 1..n
    <3>2. PICK q, p : q = pd[i].path /\ p = f[j].path
      OBVIOUS
    <3>3. q \in Seq(AllNames)
      BY <1>2, <1>4, <3>2 DEF Walking, Shaped, TasksShape, IsTask
    <3>4. Child(t, p) /\ Apart(q, t.path)
      BY <1>4, <1>11, <2>1, <3>2
    <3>5. Apart(q, p)
      BY <1>10, <3>3, <3>4, ChildApart
    <3>6. QED
      BY <3>2, <3>5 DEF Apart
  <2>4. ASSUME NEW i \in G, NEW j \in G, i # j PROVE Apart(g[i].path, g[j].path)
    <3>a. /\ \A x, y \in N : x # y => Apart(f[x].path, f[y].path)
          /\ \A x \in A, y \in N : Apart(pd[x].path, f[y].path) /\ Apart(f[y].path, pd[x].path)
      BY <1>13, <2>2, <2>3
    <3>1. CASE i \in A /\ j \in A
      BY <1>z, <2>1, <2>4, <3>1
    <3>2. CASE i \in A /\ j \notin A
      <4>1. PICK h \in N : g[j] = r[h]
        BY <1>z, <3>2
      <4>2. g[j].path = f[back[h]].path /\ back[h] \in N /\ g[i] = pd[i]
        BY <1>z, <3>2, <4>1
      <4>3. QED
        BY <3>2, <3>a, <4>2
    <3>3. CASE i \notin A /\ j \in A
      <4>1. PICK h \in N : g[i] = r[h]
        BY <1>z, <3>3
      <4>2. g[i].path = f[back[h]].path /\ back[h] \in N /\ g[j] = pd[j]
        BY <1>z, <3>3, <4>1
      <4>3. QED
        BY <3>3, <3>a, <4>2
    <3>4. CASE i \notin A /\ j \notin A
      <4>1. PICK h \in N : i = place[h] /\ g[i] = r[h]
        BY <1>z, <3>4
      <4>2. PICK k \in N : j = place[k] /\ g[j] = r[k]
        BY <1>z, <3>4
      <4>3. h # k
        BY <2>4, <4>1, <4>2
      <4>4. back[h] # back[k] /\ back[h] \in N /\ back[k] \in N
        BY <1>z, <4>3
      <4>5. Apart(f[back[h]].path, f[back[k]].path)
        BY <3>a, <4>4
      <4>6. QED
        BY <1>z, <4>1, <4>2, <4>5
    <3>5. QED
      BY <3>1, <3>2, <3>3, <3>4
  <2>5. \A i \in DOMAIN located : \A j \in G : ~Under(g[j].path, located[i].relative)
    <3>1. TAKE i \in DOMAIN located
    <3>2. TAKE j \in G
    <3>3. CASE j \in A
      BY <1>z, <2>1, <3>3
    <3>4. CASE j \notin A
      <4>1. PICK h \in N : g[j] = r[h]
        BY <1>z, <3>4
      <4>2. g[j].path = f[back[h]].path /\ back[h] \in DOMAIN f
        BY <1>z, <4>1
      <4>3. QED
        BY <2>1, <4>2
    <3>5. QED
      BY <3>3, <3>4
  <2>6. DOMAIN <<>> = {} /\ NoTask.step = "none" /\ "none" \notin Early
    BY NoneIs DEF NoTask, Early
  <2>7. QED
    BY <1>z, <2>1, <2>4, <2>5, <2>6 DEF Distinct
<1>19. Shaped(pending', task', wanted', reading', listing', found', entry', located')
  BY <1>1, <1>3, <1>14, <1>16, <1>17, <1>18 DEF Walking, Shaped
<1>20. Kept(reading', located', budget') /\ state' = "walk"
  BY <1>1 DEF Walking
<1>21. ASSUME Still PROVE Settled(pending', task', wanted', reading', listing', found', entry', located')
  <2>1. Told(t, <<>>)
    BY <1>2, <1>10, <1>15, <1>21 DEF Still, Settled, OnTasks
  <2>2. ToldDot(t, Len(t.path)) /\ ToldGit(t, Len(t.path)) /\ ToldExclude(t)
    <3>1. PICK k : k = Len(<<>>) /\ k = 0
      BY EmptySeq
    <3>2. k # 3 /\ k \notin {2, 3} /\ k \notin {1, 2, 3}
      <4>1. k = 0
        BY <3>1
      <4>2. QED
        BY <4>1
    <3>3. QED
      BY <2>1, <3>1, <3>2, Zenon DEF Told
  <2>3. \A i \in 1..n : Inherits(r[i])
    <3>1. TAKE i \in 1..n
    <3>2. PICK p : p = f[back[i]].path
      OBVIOUS
    <3>3. Child(t, p) /\ Dir(p) /\ Good(p) /\ r[i].path = p /\ r[i].matchers = m
      BY <1>2, <1>4, <1>8, <1>11, <1>12, <1>21, <3>2 DEF Still, Settled, OnListing
    <3>4. p # <<>> /\ Front(p) = t.path
      BY <1>10, <3>3, ChildPath
    <3>5. \A x : /\ Chain(m.dot, x) = Dotted(Front(p), x)
                 /\ Chain(m.git, x) = Gitted(Front(p), x)
                 /\ Chain(m.exclude, x) = Barred(Front(p), x)
      BY <1>2, <2>2, <3>4 DEF ToldDot, ToldGit, ToldExclude, Dotted, Gitted
    <3>6. QED
      BY <3>3, <3>4, <3>5 DEF Inherits
  <2>4. OnTasks(g, NoTask, wanted)
    <3>1. \A i \in DOMAIN pd : Inherits(pd[i])
      BY <1>2, <1>21 DEF Still, Settled, OnTasks
    <3>2. NoTask.step = "none"
      BY DEF NoTask
    <3>3. QED
      BY <1>13, <2>3, <3>1, <3>2 DEF OnTasks
  <2>5. OnListing(<<>>, <<>>, entry)
    BY <1>15, NoneIs DEF OnListing
  <2>6. ASSUME NEW p, Awaited(pending, task, listing, f, p) PROVE Awaited(g, NoTask, <<>>, <<>>, p)
    <3>1. DOMAIN listing = {} /\ task.step \notin Early
      BY <1>1, <1>2, <1>10, NoneIs DEF Early
    <3>2. CASE \E i \in DOMAIN pd : Under(pd[i].path, p)
      BY <1>z, <3>2 DEF Awaited
    <3>3. CASE \E i \in DOMAIN f : Under(f[i].path, p)
      <4>1. PICK i \in N : Under(f[i].path, p)
        BY <1>z, <3>3
      <4>2. PICK j \in N : back[j] = i
        BY <1>z
      <4>3. place[j] \in DOMAIN g /\ g[place[j]].path = f[i].path
        BY <1>z, <4>2
      <4>4. QED
        BY <4>1, <4>3 DEF Awaited
    <3>4. QED
      BY <1>2, <2>6, <3>1, <3>2, <3>3 DEF Awaited
  <2>7. OnSources(g, NoTask, <<>>, <<>>, located)
    <3>1. /\ \A i \in DOMAIN located : Target(located[i].relative) /\ located[i].path = located[i].relative
          /\ \A p \in Seq(AllNames) : Target(p) => Awaited(pending, task, listing, f, p) \/ \E i \in DOMAIN located : located[i].relative = p
      BY <1>2, <1>21 DEF Still, Settled, OnSources
    <3>2. QED
      BY <2>6, <3>1 DEF OnSources
  <2>8. OnRead(reading)
    BY <1>21 DEF Still, Settled
  <2>9. Settled(g, NoTask, wanted, reading, <<>>, <<>>, entry, located)
    BY <2>4, <2>5, <2>7, <2>8 DEF Settled
  <2>10. QED
    BY <1>1, <1>3, <2>9
<1>22. QED
  BY <1>19, <1>20, <1>21 DEF Proceeds

LEMMA DoneKeeps ==
  ASSUME Walking, Done
  PROVE  /\ state' = "done" /\ Kept(reading', located', budget') /\ SourcesShape(located') /\ InOrderAtLast(located')
         /\ Still => OnSources(<<>>, NoTask, <<>>, <<>>, located')
<1>1. /\ task = NoTask /\ pending = <<>> /\ state' = "done" /\ located' = Sorted
      /\ UNCHANGED <<pending, task, wanted, reading, listing, found, entry, budget>>
  BY DEF Done
<1>2. task.step = "none" /\ listing = <<>> /\ found = <<>>
  <2>1. task.step = "none"
    BY <1>1 DEF NoTask
  <2>2. QED
    BY <2>1 DEF Walking, Shaped, ListingShape
<1>3. /\ Sequence(located) /\ WellFormed
      /\ \A i \in DOMAIN located : /\ located[i].relative \in Seq(AllNames) /\ located[i].size \in Nat
                                   /\ Len(located[i].relative) \in 1..(Limits.depth + 1)
      /\ \A i, j \in DOMAIN located : i # j => located[i].relative # located[j].relative
  BY DEF Walking, Shaped, SourcesShape, Distinct
<1>4. \A i, j \in DOMAIN located : /\ Order(located[i].relative) \in Nat
                                   /\ i # j => Order(located[i].relative) # Order(located[j].relative)
  <2>1. TAKE i, j \in DOMAIN located
  <2>2. PICK p, q : p = located[i].relative /\ q = located[j].relative
    OBVIOUS
  <2>3. p \in Seq(AllNames) /\ q \in Seq(AllNames) /\ Len(p) \in 1..(Limits.depth + 1) /\ Len(q) \in 1..(Limits.depth + 1)
    BY <1>3, <2>2
  <2>4. Order(p) \in Nat /\ (Order(p) = Order(q) => p = q)
    BY <1>3, <2>3, OrderIs
  <2>5. QED
    BY <1>3, <2>2, <2>4
<1>5. /\ Sequence(Sorted) /\ Len(Sorted) = Len(located) /\ DOMAIN Sorted = DOMAIN located
      /\ InOrderAtLast(Sorted)
      /\ \E h \in [DOMAIN located -> DOMAIN located] :
           /\ \A i, j \in DOMAIN located : h[i] = h[j] => i = j
           /\ \A j \in DOMAIN located : \E i \in DOMAIN located : h[i] = j
           /\ \A i \in DOMAIN located : Sorted[i] = located[h[i]]
  BY <1>3, <1>4, SortedIs
<1>6. PICK s, g : s = located /\ g = Sorted
  OBVIOUS
<1>7. PICK h \in [DOMAIN s -> DOMAIN s] :
        /\ \A i, j \in DOMAIN s : h[i] = h[j] => i = j
        /\ \A j \in DOMAIN s : \E i \in DOMAIN s : h[i] = j
        /\ \A i \in DOMAIN s : g[i] = s[h[i]]
  BY <1>5, <1>6
<1>8. Sequence(g) /\ Len(g) = Len(s) /\ DOMAIN g = DOMAIN s /\ InOrderAtLast(g)
  BY <1>5, <1>6
<1>9. SourcesShape(g)
  BY <1>3, <1>6, <1>7, <1>8 DEF SourcesShape
<1>10. Total(g) = Total(s)
  <2>1. Sized(s) /\ Sized(g)
    BY <1>3, <1>6, <1>8, <1>9 DEF Sized, SourcesShape
  <2>2. QED
    BY <1>7, <1>8, <2>1, TotalMoved
<1>11. Kept(reading, g, budget)
  <2>1. Kept(reading, s, budget)
    BY <1>6 DEF Walking
  <2>2. QED
    BY <1>7, <1>8, <1>10, <2>1 DEF Kept
<1>12. ASSUME Still PROVE OnSources(<<>>, NoTask, <<>>, <<>>, g)
  <2>1. /\ \A i \in DOMAIN s : Target(s[i].relative) /\ s[i].path = s[i].relative
        /\ \A p \in Seq(AllNames) : Target(p) => Awaited(<<>>, NoTask, <<>>, <<>>, p) \/ \E i \in DOMAIN s : s[i].relative = p
    BY <1>1, <1>2, <1>6, <1>12 DEF Still, Settled, OnSources
  <2>2. \A p : (\E i \in DOMAIN s : s[i].relative = p) => \E i \in DOMAIN g : g[i].relative = p
    BY <1>7, <1>8
  <2>3. \A i \in DOMAIN g : Target(g[i].relative) /\ g[i].path = g[i].relative
    BY <1>7, <1>8, <2>1
  <2>4. QED
    BY <2>1, <2>2, <2>3 DEF OnSources
<1>13. QED
  BY <1>1, <1>6, <1>8, <1>9, <1>11, <1>12

-----------------------------------------------------------------------------
(* Every step keeps the invariant. *)

LEMMA KeptStays ==
  ASSUME disk'.nodes = disk.nodes, options' = options, Kept(reading', located', budget')
  PROVE  Kept(reading, located, budget)'
<1>1. \A i : Lies(i)' <=> Lies(i)
  BY DEF Lies
<1>2. PICK r, s, b : r = reading' /\ s = located' /\ b = budget'
  OBVIOUS
<1>3. Kept(r, s, b)
  BY <1>2
<1>4. Kept(r, s, b)'
  BY <1>1, <1>3 DEF Kept
<1>5. QED
  BY <1>2, <1>4

LEMMA SettledNext ==
  ASSUME disk' = disk, options' = options, Sound(disk),
         Shaped(pending', task', wanted', reading', listing', found', entry', located'),
         Settled(pending', task', wanted', reading', listing', found', entry', located')
  PROVE  IsSettled'
<1>1. PICK pd, t, w, r, l, f, e, s :
        /\ pd = pending' /\ t = task' /\ w = wanted' /\ r = reading'
        /\ l = listing' /\ f = found' /\ e = entry' /\ s = located'
  OBVIOUS
<1>2. Shaped(pd, t, w, r, l, f, e, s) /\ Settled(pd, t, w, r, l, f, e, s)
  BY <1>1
<1>3. Settled(pd, t, w, r, l, f, e, s)'
  BY <1>2, SettledStays
<1>4. QED
  BY <1>1, <1>3, Zenon DEF IsSettled

LEMMA CompleteNext ==
  ASSUME disk' = disk, options' = options, Sound(disk), SourcesShape(located'),
         OnSources(<<>>, NoTask, <<>>, <<>>, located')
  PROVE  IsComplete'
<1>1. PICK s, none, t : s = located' /\ none = <<>> /\ t = NoTask
  OBVIOUS
<1>2. SourcesShape(s) /\ OnSources(none, t, none, none, s)
  BY <1>1
<1>3. OnSources(none, t, none, none, s)'
  BY <1>2, SourcesStay
<1>4. OnSources(<<>>, NoTask, <<>>, <<>>, s)'
  BY <1>1, <1>3
<1>5. QED
  BY <1>1, <1>4, Zenon DEF IsComplete

LEMMA WalkKeeps ==
  ASSUME Walking, Walk
  PROVE  Refuse \/ Proceeds \/ Done
<1>1. CASE Pop \/ Alias \/ Boundary \/ ReadDirectory
  BY <1>1, PopKeeps, AliasKeeps, BoundaryKeeps, ReadDirectoryKeeps
<1>2. CASE BoundedRead
  <2>1. CASE StartRead \/ Exists \/ Contained \/ Regular
    BY <2>1, StartReadKeeps, ExistsKeeps, ContainedKeeps, RegularKeeps
  <2>2. CASE Inspect \/ OpenComponent \/ Opened \/ Contents
    BY <2>2, InspectKeeps, OpenComponentKeeps, OpenedKeeps, ContentsKeeps
  <2>3. QED
    BY <1>2, <2>1, <2>2, Zenon DEF BoundedRead
<1>3. CASE PassOver \/ Register \/ LookAt \/ CanonicalFile
  BY <1>3, PassOverKeeps, RegisterKeeps, LookAtKeeps, CanonicalFileKeeps
<1>4. CASE Measure \/ Select \/ Leave
  BY <1>4, MeasureKeeps, SelectKeeps, LeaveKeeps
<1>5. QED
  BY <1>1, <1>2, <1>3, <1>4, Zenon DEF Walk

LEMMA WalkStep ==
  ASSUME DiscoveryInv, Walk
  PROVE  DiscoveryInv'
<1>1. /\ state = "walk" /\ UNCHANGED <<disk, changes, options>>
      /\ WellFormed /\ Sound(disk) /\ Allows(disk) /\ changes \in Nat
      /\ Kept(reading, located, budget)
      /\ Shaped(pending, task, wanted, reading, listing, found, entry, located)
  BY DEF Walk, DiscoveryInv
<1>2. Walking
  BY <1>1 DEF Walking
<1>3. changes = 0 => Still
  BY <1>1 DEF DiscoveryInv, IsSettled, Still
<1>4. Refuse \/ Proceeds \/ Done
  BY <1>2, WalkKeeps
<1>5. WellFormed' /\ Sound(disk)' /\ Allows(disk)' /\ changes' \in Nat
  BY <1>1
<1>6. CASE Refuse
  <2>1. state' = "refused" /\ reading' = reading /\ located' = located /\ budget' = budget
    BY <1>6 DEF Refuse
  <2>2. Kept(reading, located, budget)'
    BY <1>1, <2>1, KeptStays
  <2>3. QED
    BY <1>5, <2>1, <2>2 DEF DiscoveryInv
<1>7. CASE Proceeds
  <2>1. /\ state' = "walk"
        /\ Shaped(pending', task', wanted', reading', listing', found', entry', located')
        /\ Still => Settled(pending', task', wanted', reading', listing', found', entry', located')
        /\ Kept(reading', located', budget')
    BY <1>7 DEF Proceeds
  <2>2. Kept(reading, located, budget)'
    BY <1>1, <2>1, KeptStays
  <2>3. changes' = 0 => IsSettled'
    BY <1>1, <1>3, <2>1, SettledNext
  <2>4. Shaped(pending, task, wanted, reading, listing, found, entry, located)'
    BY <2>1
  <2>5. QED
    BY <1>5, <2>1, <2>2, <2>3, <2>4 DEF DiscoveryInv
<1>8. CASE Done
  <2>1. /\ state' = "done" /\ Kept(reading', located', budget') /\ SourcesShape(located') /\ InOrderAtLast(located')
        /\ Still => OnSources(<<>>, NoTask, <<>>, <<>>, located')
    BY <1>2, <1>8, DoneKeeps
  <2>2. Kept(reading, located, budget)'
    BY <1>1, <2>1, KeptStays
  <2>3. changes' = 0 => IsComplete'
    BY <1>1, <1>3, <2>1, CompleteNext
  <2>4. SourcesShape(located)' /\ InOrderAtLast(located)'
    BY <2>1
  <2>5. QED
    BY <1>5, <2>1, <2>2, <2>3, <2>4 DEF DiscoveryInv
<1>9. QED
  BY <1>4, <1>6, <1>7, <1>8

LEMMA ChangeKeeps ==
  ASSUME WellFormed, Sound(disk), Allows(disk), Change
  PROVE  Sound(disk') /\ Allows(disk') /\ disk'.nodes = disk.nodes
<1>1. CASE \E c \in Changes :
             /\ c[1] \in DOMAIN disk.entries
             /\ disk' = [disk EXCEPT !.entries[c[1]] = [n \in DOMAIN @ \cup {c[2]} |-> IF n = c[2] THEN c[3] ELSE @[n]]]
  <2>1. PICK c \in Changes :
          /\ c[1] \in DOMAIN disk.entries
          /\ disk' = [disk EXCEPT !.entries[c[1]] = [n \in DOMAIN @ \cup {c[2]} |-> IF n = c[2] THEN c[3] ELSE @[n]]]
    BY <1>1
  <2>a. PICK d, i, x, k : d = disk /\ i = c[1] /\ x = c[2] /\ k = c[3]
    OBVIOUS
  <2>b. PICK old : old = d.entries[i]
    OBVIOUS
  <2>c. PICK new : new = [n \in DOMAIN old \cup {x} |-> IF n = x THEN k ELSE old[n]]
    OBVIOUS
  <2>2. /\ d = disk /\ i = c[1] /\ x = c[2] /\ k = c[3] /\ old = disk.entries[i]
        /\ new = [n \in DOMAIN old \cup {x} |-> IF n = x THEN k ELSE old[n]]
    BY <2>a, <2>b, <2>c
  <2>3. d = [nodes |-> d.nodes, entries |-> d.entries, sizes |-> d.sizes] /\ i \in DOMAIN d.entries
    BY <2>1, <2>2 DEF Sound
  <2>4. disk' = [d EXCEPT !.entries = [d.entries EXCEPT ![i] = new]]
    BY <2>1, <2>2
  <2>5. /\ disk'.nodes = d.nodes /\ disk'.sizes = d.sizes /\ disk'.entries = [d.entries EXCEPT ![i] = new]
        /\ disk' = [nodes |-> disk'.nodes, entries |-> disk'.entries, sizes |-> disk'.sizes]
    BY <2>3, <2>4
  <2>6. /\ DOMAIN disk'.entries = DOMAIN d.entries /\ disk'.entries[i] = new
        /\ \A j \in DOMAIN d.entries : j # i => disk'.entries[j] = d.entries[j]
    BY <2>3, <2>5
  <2>7. x \in AllNames /\ k \in DOMAIN d.nodes /\ (d.nodes[k].foreign => d.nodes[i].foreign)
    <3>1. c[2] \in AllNames
      <4>1. PICK S, U : S = {e[2] : e \in Changes} /\ AllNames = U \cup S
        BY Zenon DEF AllNames
      <4>2. c[2] \in S
        BY <2>1, <4>1
      <4>3. QED
        BY <4>1, <4>2
    <3>2. c[3] \in DOMAIN d.nodes /\ (d.nodes[c[3]].foreign => d.nodes[c[1]].foreign)
      BY <2>1, <2>2 DEF Allows
    <3>3. QED
      BY <2>2, <3>1, <3>2
  <2>8. /\ IsFiniteSet(DOMAIN new)
        /\ \A y \in DOMAIN new : y \in AllNames /\ new[y] \in DOMAIN d.nodes /\ (d.nodes[new[y]].foreign => d.nodes[i].foreign)
    <3>1. IsFiniteSet(DOMAIN old)
          /\ \A y \in DOMAIN old : y \in AllNames /\ old[y] \in DOMAIN d.nodes /\ (d.nodes[old[y]].foreign => d.nodes[i].foreign)
      BY <2>2, <2>3 DEF Sound
    <3>2. PICK S : S = DOMAIN old
      OBVIOUS
    <3>3. IsFiniteSet(S \cup {x})
      BY <3>1, <3>2, FS_AddElement
    <3>4. DOMAIN new = S \cup {x} /\ \A y \in S \cup {x} : new[y] = IF y = x THEN k ELSE old[y]
      BY <2>2, <3>2
    <3>5. QED
      BY <2>7, <3>1, <3>2, <3>3, <3>4
  <2>9. \A j \in DOMAIN disk'.entries : IsFiniteSet(DOMAIN disk'.entries[j]) /\ \A y \in DOMAIN disk'.entries[j] :
          y \in AllNames /\ disk'.entries[j][y] \in DOMAIN d.nodes /\ (d.nodes[disk'.entries[j][y]].foreign => d.nodes[j].foreign)
    <3>1. TAKE j \in DOMAIN disk'.entries
    <3>2. CASE j = i
      BY <2>6, <2>8, <3>2
    <3>3. CASE j # i
      BY <2>2, <2>6, <3>3 DEF Sound
    <3>4. QED
      BY <3>2, <3>3
  <2>10. Sound(disk')
    <3>1. PICK e : e = disk'
      OBVIOUS
    <3>2. e.nodes = d.nodes /\ e.sizes = d.sizes /\ DOMAIN e.entries = DOMAIN d.entries
          /\ e = [nodes |-> e.nodes, entries |-> e.entries, sizes |-> e.sizes]
      BY <2>5, <2>6, <3>1
    <3>3. /\ 0 \notin DOMAIN d.nodes /\ Base \in DOMAIN d.entries /\ ~d.nodes[Base].foreign
          /\ DOMAIN d.entries = {j \in DOMAIN d.nodes : d.nodes[j].kind = "directory"}
          /\ d.sizes \in [DOMAIN d.nodes -> Nat]
          /\ \A j \in DOMAIN d.nodes : d.nodes[j].kind = "link" =>
               d.nodes[j].to.base \in DOMAIN d.nodes /\ d.nodes[j].to.path \in Seq(STRING)
      BY <2>2 DEF Sound
    <3>4. \A j \in DOMAIN e.entries : IsFiniteSet(DOMAIN e.entries[j]) /\ \A y \in DOMAIN e.entries[j] :
            y \in AllNames /\ e.entries[j][y] \in DOMAIN e.nodes /\ (e.nodes[e.entries[j][y]].foreign => e.nodes[j].foreign)
      BY <2>9, <3>1, <3>2
    <3>5. Sound(e)
      BY <3>2, <3>3, <3>4 DEF Sound
    <3>6. QED
      BY <3>1, <3>5
  <2>11. Allows(disk')
    BY <2>2, <2>5, <2>6 DEF Allows
  <2>12. QED
    BY <2>2, <2>5, <2>10, <2>11
<1>2. CASE \E g \in Growths : disk' = [disk EXCEPT !.sizes[g[1]] = g[2]]
  <2>1. PICK g \in Growths : disk' = [disk EXCEPT !.sizes[g[1]] = g[2]]
    BY <1>2
  <2>2. PICK d, i, n : d = disk /\ i = g[1] /\ n = g[2]
    OBVIOUS
  <2>3. /\ d = [nodes |-> d.nodes, entries |-> d.entries, sizes |-> d.sizes]
        /\ d.sizes \in [DOMAIN d.nodes -> Nat] /\ n \in Nat
    BY <2>2 DEF Sound, WellFormed
  <2>4. /\ disk'.nodes = d.nodes /\ disk'.entries = d.entries /\ disk'.sizes = [d.sizes EXCEPT ![i] = n]
        /\ disk' = [nodes |-> disk'.nodes, entries |-> disk'.entries, sizes |-> disk'.sizes]
    BY <2>1, <2>2, <2>3
  <2>5. disk'.sizes \in [DOMAIN d.nodes -> Nat]
    BY <2>3, <2>4
  <2>6. Sound(disk')
    BY <2>2, <2>4, <2>5 DEF Sound
  <2>7. Allows(disk')
    BY <2>2, <2>4 DEF Allows
  <2>8. QED
    BY <2>2, <2>4, <2>6, <2>7
<1>3. QED
  BY <1>1, <1>2 DEF Change

LEMMA ChangeStep ==
  ASSUME DiscoveryInv, Change
  PROVE  DiscoveryInv'
<1>1. /\ state = "walk" /\ changes' = changes + 1 /\ UNCHANGED <<options, walk>>
      /\ WellFormed /\ Sound(disk) /\ Allows(disk) /\ changes \in Nat
      /\ Kept(reading, located, budget)
      /\ Shaped(pending, task, wanted, reading, listing, found, entry, located)
  BY DEF Change, DiscoveryInv
<1>2. UNCHANGED <<pending, task, wanted, reading, listing, found, entry, located, budget, state>>
  BY <1>1 DEF walk
<1>3. Sound(disk') /\ Allows(disk') /\ disk'.nodes = disk.nodes
  BY <1>1, ChangeKeeps
<1>4. Kept(reading, located, budget)'
  BY <1>1, <1>2, <1>3, KeptStays
<1>5. WellFormed' /\ Sound(disk)' /\ Allows(disk)'
  BY <1>1, <1>3
<1>6. changes' \in Nat /\ changes' # 0 /\ state' = "walk"
  BY <1>1, <1>2
<1>7. Shaped(pending, task, wanted, reading, listing, found, entry, located)'
  BY <1>1, <1>2
<1>8. QED
  BY <1>4, <1>5, <1>6, <1>7 DEF DiscoveryInv

LEMMA StutterStep ==
  ASSUME DiscoveryInv, UNCHANGED vars
  PROVE  DiscoveryInv'
<1>1. UNCHANGED <<disk, changes, options, pending, task, wanted, reading, listing, found, entry, located, budget, state>>
  BY DEF vars
<1>2. /\ WellFormed' /\ Sound(disk)' /\ Allows(disk)' /\ changes' \in Nat
      /\ state' \in {"walk", "done", "refused"}
  BY <1>1 DEF DiscoveryInv
<1>3. Kept(reading, located, budget)'
  BY <1>1, KeptStays DEF DiscoveryInv
<1>4. state' = "walk" => Shaped(pending, task, wanted, reading, listing, found, entry, located)'
  BY <1>1 DEF DiscoveryInv
<1>5. state' = "walk" /\ changes' = 0 => IsSettled'
  <2>1. SUFFICES ASSUME state' = "walk", changes' = 0 PROVE IsSettled'
    OBVIOUS
  <2>2. Still /\ Shaped(pending, task, wanted, reading, listing, found, entry, located)
    BY <1>1, <2>1 DEF DiscoveryInv, IsSettled, Still
  <2>3. /\ Shaped(pending', task', wanted', reading', listing', found', entry', located')
        /\ Settled(pending', task', wanted', reading', listing', found', entry', located')
    BY <1>1, <2>2 DEF Still
  <2>4. QED
    BY <1>1, <2>3, SettledNext DEF DiscoveryInv
<1>6. state' = "done" => SourcesShape(located)' /\ InOrderAtLast(located)'
  BY <1>1 DEF DiscoveryInv
<1>7. state' = "done" /\ changes' = 0 => IsComplete'
  <2>1. SUFFICES ASSUME state' = "done", changes' = 0 PROVE IsComplete'
    OBVIOUS
  <2>2. SourcesShape(located') /\ OnSources(<<>>, NoTask, <<>>, <<>>, located')
    BY <1>1, <2>1 DEF DiscoveryInv, IsComplete
  <2>3. QED
    BY <1>1, <2>2, CompleteNext DEF DiscoveryInv
<1>8. QED
  BY <1>2, <1>3, <1>4, <1>5, <1>6, <1>7 DEF DiscoveryInv

LEMMA StartKeeps ==
  ASSUME WellFormed, Init
  PROVE  DiscoveryInv
<1>1. PICK pd, t, none, r, e, x :
        pd = pending /\ t = NoTask /\ none = <<>> /\ r = NoReading /\ e = NoEntry /\ x = Popped(<<>>, 0, NoMatchers)
  OBVIOUS
<1>2. /\ pending = pd /\ task = t /\ wanted = none /\ reading = r
      /\ listing = none /\ found = none /\ entry = e /\ located = none
      /\ pd = <<x>> /\ state = "walk" /\ changes = 0
      /\ budget = [files |-> 0, bytes |-> 0, ignoreFiles |-> 0, ignoreBytes |-> 0, patterns |-> 0,
                   entries |-> 0, directories |-> 1, read |-> {}]
  BY <1>1 DEF Init
<1>3. Sound(disk) /\ Allows(disk) /\ Limits.depth \in Nat /\ Limits.bytes \in Nat
  BY DEF Init, WellFormed
<1>4. Sequence(none) /\ Len(none) = 0 /\ DOMAIN none = {} /\ none \in Seq(AllNames) /\ none \in Seq(Word)
  BY <1>1, NoneIs, EmptySeq
<1>5. Sequence(pd) /\ DOMAIN pd = {1} /\ pd[1] = x
  <2>1. pd \in Seq({x}) /\ Len(pd) = 1 /\ pd[1] = x
    BY <1>2
  <2>2. QED
    BY <2>1 DEF Sequence
<1>6. x = [path |-> none, depth |-> 0, matchers |-> NoMatchers, step |-> "popped"]
      /\ t = [path |-> none, depth |-> 0, matchers |-> NoMatchers, step |-> "none"]
  BY <1>1 DEF Popped, NoTask
<1>7. IsMatchers(NoMatchers)
  BY <1>1, <1>4 DEF IsMatchers, NoMatchers
<1>8. IsTask(x) /\ IsTask(t) /\ x.path = none /\ x.step = "popped" /\ x.matchers = NoMatchers /\ t.step = "none"
  BY <1>3, <1>4, <1>6, <1>7 DEF IsTask
<1>9. IsReading(r) /\ r.step = "none" /\ r.descriptor = Base
  <2>1. r = [path |-> none, step |-> "none", canonical |-> none, expected |-> 0, descriptor |-> Base, opened |-> 0]
    BY <1>1 DEF NoReading
  <2>2. QED
    BY <1>1, <1>4, <2>1 DEF IsReading
<1>10. IsEntry(e) /\ e.step = "none"
  <2>1. e = [path |-> none, step |-> "none", canonical |-> none, size |-> 0]
    BY <1>1 DEF NoEntry
  <2>2. QED
    BY <1>1, <1>4, <2>1 DEF IsEntry
<1>11. Shaped(pd, t, none, r, none, none, e, none)
  <2>1. TasksShape(pd, t)
    BY <1>1, <1>5, <1>8 DEF TasksShape
  <2>2. ReadingShape(t, none, r)
    BY <1>1, <1>9 DEF ReadingShape
  <2>3. ListingShape(t, none, none, e) /\ SourcesShape(none)
    BY <1>1, <1>4, <1>10 DEF ListingShape, SourcesShape
  <2>4. Distinct(pd, t, none, none, none)
    BY <1>4, <1>5, <1>8 DEF Distinct, Early
  <2>5. QED
    BY <2>1, <2>2, <2>3, <2>4 DEF Shaped
<1>12. Kept(r, none, budget)
  <2>1. Total(none) = 0
    BY <1>1, TotalOfNone
  <2>2. Lies(Base)
    BY <1>3, RootIs DEF Lies, Sound
  <2>3. QED
    BY <1>2, <1>3, <1>4, <1>9, <2>1, <2>2 DEF Kept, Counters
<1>13. Settled(pd, t, none, r, none, none, e, none)
  <2>1. Inherits(x)
    <3>1. Dir(none) /\ Good(none)
      BY <1>1, <1>3, <1>4, RootIs DEF Good
    <3>2. QED
      BY <1>1, <1>8, <3>1 DEF Inherits
  <2>2. OnTasks(pd, t, none)
    BY <1>5, <1>8, <2>1 DEF OnTasks
  <2>3. OnRead(r)
    BY <1>9 DEF OnRead
  <2>4. OnListing(none, none, e)
    BY <1>4, <1>10 DEF OnListing
  <2>5. OnSources(pd, t, none, none, none)
    <3>1. ASSUME NEW p \in Seq(AllNames) PROVE Awaited(pd, t, none, none, p)
      <4>1. Under(<<>>, p)
        BY UnderIs
      <4>2. QED
        BY <1>1, <1>5, <1>8, <4>1 DEF Awaited
    <3>2. QED
      BY <1>4, <3>1 DEF OnSources
  <2>6. QED
    BY <2>2, <2>3, <2>4, <2>5 DEF Settled
<1>14. IsSettled
  BY <1>2, <1>13, Zenon DEF IsSettled
<1>15. QED
  BY <1>2, <1>3, <1>11, <1>12, <1>14 DEF DiscoveryInv

-----------------------------------------------------------------------------
(* What the invariant says at last. *)

LEMMA NamesAbove ==
  ASSUME Sound(disk), NEW p \in Seq(AllNames), Plain(Base, p) # Nowhere, NEW n \in 1..Len(p)
  PROVE  p[n] \in Names
<1>1. Len(p) \in Nat /\ n \in 0..Len(p) /\ n - 1 \in 0..Len(p) /\ p[n] \in AllNames
  OBVIOUS
<1>2. Plain(Base, Prefix(p, n)) # Nowhere
  BY <1>1, AboveIs
<1>3. PICK q, x : q = Prefix(p, n - 1) /\ x = p[n]
  OBVIOUS
<1>4. q \in Seq(AllNames) /\ x \in AllNames /\ Prefix(p, n) = Append(q, x)
  BY <1>1, <1>3, PrefixIs, PrefixesAre
<1>5. Dir(q) /\ x \in DOMAIN disk.entries[Plain(Base, q).inode]
  BY <1>2, <1>4, ParentIs
<1>6. PICK i \in DOMAIN disk.entries : Plain(Base, q) = [inode |-> i, base |-> Base, path |-> q]
  BY <1>4, <1>5, DirIs
<1>7. x \in DOMAIN disk.entries[i]
  BY <1>5, <1>6
<1>8. QED
  BY <1>3, <1>7 DEF Names

LEMMA FilesBelowAre ==
  ASSUME Sound(disk), Limits.depth \in Nat, NEW p
  PROVE  p \in FilesBelow <=> p \in Seq(AllNames) /\ Len(p) \in 1..(Limits.depth + 1) /\ File(p) /\ Good(p)
<1>1. ASSUME p \in FilesBelow
      PROVE  p \in Seq(AllNames) /\ Len(p) \in 1..(Limits.depth + 1) /\ File(p) /\ Good(p)
  <2>1. p \in UNION {[1..n -> Names] : n \in 1..(Limits.depth + 1)} /\ File(p) /\ Good(p)
    BY <1>1 DEF FilesBelow, File, Good
  <2>2. PICK n \in 1..(Limits.depth + 1) : p \in [1..n -> Names]
    BY <2>1
  <2>3. Names \subseteq AllNames
    BY DEF Names, Sound
  <2>4. n \in Nat /\ p \in Seq(AllNames) /\ Len(p) = n
    <3>1. n \in Nat /\ p \in [1..n -> AllNames]
      BY <2>2, <2>3
    <3>2. p \in Seq(AllNames)
      BY <3>1
    <3>3. QED
      BY <3>1, <3>2
  <2>5. QED
    BY <2>1, <2>4
<1>2. ASSUME p \in Seq(AllNames), Len(p) \in 1..(Limits.depth + 1), File(p), Good(p)
      PROVE  p \in FilesBelow
  <2>1. PICK n : n = Len(p)
    OBVIOUS
  <2>2. Plain(Base, p) # Nowhere
    BY <1>2 DEF File, IsA
  <2>3. \A i \in 1..n : p[i] \in Names
    BY <1>2, <2>1, <2>2, NamesAbove
  <2>4. p \in [1..n -> Names] /\ n \in 1..(Limits.depth + 1)
    BY <1>2, <2>1, <2>3
  <2>5. p \in UNION {[1..m -> Names] : m \in 1..(Limits.depth + 1)}
    BY <2>4
  <2>6. QED
    BY <1>2, <2>5 DEF FilesBelow, File, Good
<1>3. QED
  BY <1>1, <1>2

LEMMA InvContains == DiscoveryInv => DiscoveryIsContained
<1>1. SUFFICES ASSUME DiscoveryInv PROVE DiscoveryIsContained
  OBVIOUS
<1>2. /\ \A i \in budget.read : ~disk.nodes[i].foreign
      /\ reading.step = "read" => reading.descriptor = reading.expected
      /\ budget.files = Len(located) /\ budget.bytes = Total(located) /\ budget.bytes <= Limits.bytes
      /\ \A i \in DOMAIN located : located[i].size <= options.maxBytes
  BY <1>1 DEF DiscoveryInv, Kept, Lies
<1>3. ASSUME state = "done", changes = 0
      PROVE  /\ {s.relative : s \in Range(located)} = {p \in FilesBelow : Selects(Language(p, Plain(Base, p)), p)}
             /\ \A i, j \in DOMAIN located : i < j => Order(located[i].relative) < Order(located[j].relative)
             /\ \A i \in DOMAIN located : located[i].path = located[i].relative
  <2>1. PICK g : g = located /\ OnSources(<<>>, NoTask, <<>>, <<>>, g)
    BY <1>1, <1>3 DEF DiscoveryInv, IsComplete
  <2>2. SourcesShape(g) /\ InOrderAtLast(g) /\ Sound(disk) /\ Limits.depth \in Nat
    BY <1>1, <1>3, <2>1 DEF DiscoveryInv, WellFormed
  <2>3. ASSUME NEW p PROVE ~Awaited(<<>>, NoTask, <<>>, <<>>, p)
    <3>1. DOMAIN <<>> = {} /\ NoTask.step = "none"
      BY NoneIs DEF NoTask
    <3>2. QED
      BY <3>1 DEF Awaited, Early
  <2>4. /\ \A i \in DOMAIN g : Target(g[i].relative) /\ g[i].path = g[i].relative
        /\ \A p \in Seq(AllNames) : Target(p) => \E i \in DOMAIN g : g[i].relative = p
    BY <2>1, <2>3 DEF OnSources
  <2>5. PICK L, R : /\ L = {s.relative : s \in Range(located)}
                    /\ R = {p \in FilesBelow : Selects(Language(p, Plain(Base, p)), p)}
    OBVIOUS
  <2>6. \A p : p \in L <=> \E i \in DOMAIN g : p = g[i].relative
    BY <2>1, <2>5 DEF Range
  <2>7. \A p : p \in R <=> p \in FilesBelow /\ Selects(Language(p, Plain(Base, p)), p)
    BY <2>5
  <2>8. ASSUME NEW p \in L PROVE p \in R
    <3>1. PICK i \in DOMAIN g : p = g[i].relative
      BY <2>6
    <3>2. Target(p) /\ p \in Seq(AllNames) /\ Len(p) \in 1..(Limits.depth + 1)
      BY <2>2, <2>4, <3>1 DEF SourcesShape
    <3>3. p \in FilesBelow
      BY <2>2, <3>2, FilesBelowAre DEF Target
    <3>4. QED
      BY <2>7, <3>2, <3>3 DEF Target
  <2>9. ASSUME NEW p \in R PROVE p \in L
    <3>1. p \in FilesBelow /\ Selects(Language(p, Plain(Base, p)), p)
      BY <2>7
    <3>2. p \in Seq(AllNames) /\ Len(p) \in 1..(Limits.depth + 1) /\ File(p) /\ Good(p)
      BY <2>2, <3>1, FilesBelowAre
    <3>3. Target(p)
      BY <2>2, <3>1, <3>2 DEF Target
    <3>4. QED
      BY <2>4, <2>6, <3>2, <3>3
  <2>10. L = R
    BY <2>8, <2>9
  <2>11. /\ \A i, j \in DOMAIN located : i < j => Order(located[i].relative) < Order(located[j].relative)
         /\ \A i \in DOMAIN located : located[i].path = located[i].relative
    BY <2>1, <2>2, <2>4 DEF InOrderAtLast
  <2>12. QED
    BY <2>5, <2>10, <2>11
<1>4. QED
  BY <1>2, <1>3 DEF DiscoveryIsContained

-----------------------------------------------------------------------------
(* The discovery of sources (DiscoveryState::run), while entries come to   *)
(* name something else and files grow: rules are only read from files      *)
(* below the analyzed directory and from none that was swapped for the one *)
(* that was checked, sources are no larger than allowed, and the budget is *)
(* what they add up to.  If nothing changes, the sources are the selected  *)
(* files that no ignore rule leaves out, each once and in order.           *)
THEOREM DiscoveryStaysContained == Spec => []DiscoveryIsContained
<1>1. Init => DiscoveryInv
  BY StartKeeps, DiscoveryAssumption
<1>2. DiscoveryInv /\ [Next]_vars => DiscoveryInv'
  BY WalkStep, ChangeStep, StutterStep DEF Next
<1>3. DiscoveryInv => DiscoveryIsContained
  BY InvContains
<1>4. QED
  BY <1>1, <1>2, <1>3, PTL DEF Spec
=====
