------------------------- MODULE OutputTail_proofs -------------------------
(***************************************************************************)
(* For any limit, any output and any cut of it into chunks: the text of an *)
(* outcome is an end of what the streams would render to, fits into the    *)
(* limit, and is marked exactly when it is not all of it.                  *)
(***************************************************************************)
EXTENDS OutputTail, SequenceTheorems, WellFoundedInduction, TLAPS

Least(m, n) == IF m <= n THEN m ELSE n
From(m, n) == IF m > n THEN m - n + 1 ELSE 1

\* tail_bytes keeps as many of the last bytes as fit.
LEMMA TailFacts ==
    ASSUME NEW S, NEW s \in Seq(S), NEW n \in Nat
    PROVE  /\ TailBytes(s, n) \in Seq(S)
           /\ Len(TailBytes(s, n)) = Least(Len(s), n)
           /\ \A i \in 1..Least(Len(s), n) :
                 TailBytes(s, n)[i] = s[Len(s) - Least(Len(s), n) + i]
<1>1. Len(s) \in Nat
  BY LenProperties
<1>2. CASE Len(s) <= n
  BY <1>1, <1>2 DEF TailBytes, Least
<1>3. CASE Len(s) > n
  <2>1. \A i \in (Len(s) - n + 1)..Len(s) : s[i] \in S
    BY <1>1, <1>3, ElementOfSeq
  <2> DEFINE t == SubSeq(s, Len(s) - n + 1, Len(s))
  <2>2. /\ t \in Seq(S)
        /\ Len(t) = IF Len(s) - n + 1 <= Len(s) THEN Len(s) - (Len(s) - n + 1) + 1 ELSE 0
        /\ \A i \in 1..Len(s) - (Len(s) - n + 1) + 1 : t[i] = s[Len(s) - n + 1 + i - 1]
    BY <1>1, <2>1, SubSeqProperties
  <2>3. TailBytes(s, n) = t /\ Least(Len(s), n) = n
    BY <1>1, <1>3 DEF TailBytes, Least
  <2>4. Len(t) = n /\ \A i \in 1..n : t[i] = s[Len(s) - n + i]
    BY <1>1, <2>2
  <2>5. QED
    BY <2>2, <2>3, <2>4
<1>4. QED
  BY <1>1, <1>2, <1>3

\* ... and is told by its length and its bytes.
LEMMA TailIs ==
    ASSUME NEW S, NEW s \in Seq(S), NEW n \in Nat, NEW t \in Seq(S),
           Len(t) = Least(Len(s), n),
           \A i \in 1..Len(t) : t[i] = s[Len(s) - Len(t) + i]
    PROVE  t = TailBytes(s, n)
<1> DEFINE u == TailBytes(s, n)
<1>1. /\ u \in Seq(S) /\ Len(u) = Least(Len(s), n)
      /\ \A i \in 1..Least(Len(s), n) : u[i] = s[Len(s) - Least(Len(s), n) + i]
  BY TailFacts
<1> HIDE DEF u
<1>2. Len(t) = Len(u) /\ \A i \in 1..Len(t) : t[i] = u[i]
  BY <1>1
<1>3. t = u
  BY <1>1, <1>2, SeqEqual
<1>4. QED
  BY <1>3 DEF u

\* extend_tail: the end of what was kept and of the chunk is the end of all.
LEMMA TailOfMore ==
    ASSUME NEW S, NEW s \in Seq(S), NEW c \in Seq(S), NEW n \in Nat, NEW k \in Nat,
           n <= k + Len(c)
    PROVE  TailBytes(TailBytes(s, k) \o c, n) = TailBytes(s \o c, n)
<1> DEFINE a == TailBytes(s, k)
           some == a \o c
           all == s \o c
           b == TailBytes(some, n)
<1>1. Len(s) \in Nat /\ Len(c) \in Nat
  BY LenProperties
<1>2. /\ a \in Seq(S) /\ Len(a) = Least(Len(s), k)
      /\ \A i \in 1..Least(Len(s), k) : a[i] = s[Len(s) - Least(Len(s), k) + i]
  BY TailFacts
<1> HIDE DEF a
<1>3. /\ some \in Seq(S) /\ Len(some) = Len(a) + Len(c)
      /\ \A i \in 1..Len(a) + Len(c) : some[i] = IF i <= Len(a) THEN a[i] ELSE c[i - Len(a)]
  BY <1>2, ConcatProperties
<1>4. /\ all \in Seq(S) /\ Len(all) = Len(s) + Len(c)
      /\ \A i \in 1..Len(s) + Len(c) : all[i] = IF i <= Len(s) THEN s[i] ELSE c[i - Len(s)]
  BY ConcatProperties
<1> HIDE DEF some, all
<1>5. /\ b \in Seq(S) /\ Len(b) = Least(Len(some), n)
      /\ \A i \in 1..Least(Len(some), n) : b[i] = some[Len(some) - Least(Len(some), n) + i]
  BY <1>3, TailFacts
<1> HIDE DEF b
<1>6. /\ Len(b) = Least(Len(all), n) /\ Len(b) \in Nat
      /\ Len(a) \in Nat /\ Len(a) <= Len(s) /\ Len(b) <= Len(a) + Len(c)
  <2>1. /\ Len(a) = Least(Len(s), k) /\ Len(some) = Len(a) + Len(c)
        /\ Len(all) = Len(s) + Len(c) /\ Len(b) = Least(Len(some), n)
    BY <1>2, <1>3, <1>4, <1>5
  <2>2. QED
    BY <1>1, <2>1 DEF Least
<1>7. ASSUME NEW i \in 1..Len(b)
      PROVE  b[i] = all[Len(all) - Len(b) + i]
  <2> DEFINE j == Len(a) + Len(c) - Len(b) + i
  <2>1. j \in 1..Len(a) + Len(c) /\ b[i] = some[j]
    BY <1>1, <1>3, <1>5, <1>6
  <2>2. CASE j <= Len(a)
    <3>1. b[i] = a[j] /\ j \in 1..Len(a)
      BY <2>1, <2>2, <1>3, <1>6
    <3>2. b[i] = s[Len(s) - Len(a) + j]
      BY <3>1, <1>2
    <3>3. /\ Len(s) - Len(a) + j = Len(s) + Len(c) - Len(b) + i
          /\ Len(s) + Len(c) - Len(b) + i \in 1..Len(s) + Len(c)
          /\ Len(s) + Len(c) - Len(b) + i <= Len(s)
      BY <3>1, <1>1, <1>6
    <3>4. QED
      BY <3>2, <3>3, <1>4
  <2>3. CASE j > Len(a)
    <3>1. b[i] = c[Len(c) - Len(b) + i]
      BY <2>1, <2>3, <1>1, <1>3, <1>6
    <3>2. /\ Len(s) + Len(c) - Len(b) + i \in 1..Len(s) + Len(c)
          /\ ~(Len(s) + Len(c) - Len(b) + i <= Len(s))
          /\ Len(s) + Len(c) - Len(b) + i - Len(s) = Len(c) - Len(b) + i
      BY <2>1, <2>3, <1>1, <1>6
    <3>3. QED
      <4> DEFINE m == Len(s) + Len(c) - Len(b) + i
      <4>1. all[m] = c[m - Len(s)] /\ m = Len(all) - Len(b) + i
        BY <3>2, <1>4
      <4>2. m - Len(s) = Len(c) - Len(b) + i
        BY <3>2
      <4> HIDE DEF m
      <4>3. QED
        BY <3>1, <4>1, <4>2
  <2>4. j <= Len(a) \/ j > Len(a)
    BY <2>1, <1>6
  <2>5. QED
    BY <2>2, <2>3, <2>4
<1>8. b = TailBytes(all, n)
  BY <1>4, <1>5, <1>6, <1>7, TailIs
<1>9. QED
  BY <1>8 DEF b, some, all, a

\* What has no end is empty.
LEMMA NoTail ==
    ASSUME NEW S, NEW s \in Seq(S)
    PROVE  TailBytes(s, 0) = <<>>
<1> DEFINE t == TailBytes(s, 0)
<1>1. Len(s) \in Nat
  BY LenProperties
<1>2. t \in Seq(S) /\ Len(t) = Least(Len(s), 0)
  BY TailFacts
<1> HIDE DEF t
<1>3. Len(t) = 0
  BY <1>1, <1>2 DEF Least
<1>4. t = <<>>
  BY <1>2, <1>3, EmptySeq
<1>5. QED
  BY <1>4 DEF t

\* What is left of a sequence when its first elements are cut off.
LEMMA CutFacts ==
    ASSUME NEW S, NEW b \in Seq(S), NEW m \in 1..Len(b) + 1
    PROVE  /\ SubSeq(b, m, Len(b)) \in Seq(S)
           /\ Len(SubSeq(b, m, Len(b))) = Len(b) - m + 1
           /\ \A i \in 1..Len(b) - m + 1 : SubSeq(b, m, Len(b))[i] = b[m + i - 1]
<1>1. Len(b) \in Nat /\ m \in Int /\ m <= Len(b) + 1
  BY LenProperties
<1>2. \A i \in m..Len(b) : b[i] \in S
  BY <1>1, ElementOfSeq
<1>3. /\ SubSeq(b, m, Len(b)) \in Seq(S)
      /\ Len(SubSeq(b, m, Len(b))) = IF m <= Len(b) THEN Len(b) - m + 1 ELSE 0
      /\ \A i \in 1..Len(b) - m + 1 : SubSeq(b, m, Len(b))[i] = b[m + i - 1]
  BY <1>1, <1>2, SubSeqProperties
<1>4. QED
  BY <1>1, <1>3

\* The end of a whole that begins before the chunk, cut where extend_tail cuts.
LEMMA CutIsTail ==
    ASSUME NEW S, NEW t \in Seq(S), NEW n \in Nat, NEW k \in Nat, k <= n,
           NEW b \in Seq(S), b = TailBytes(t, n),
           NEW m \in Nat, m = From(Len(b), k)
    PROVE  SubSeq(b, m, Len(b)) = TailBytes(t, k)
<1> DEFINE u == SubSeq(b, m, Len(b))
<1>1. Len(t) \in Nat
  BY LenProperties
<1>2. /\ b \in Seq(S) /\ Len(b) = Least(Len(t), n)
      /\ \A i \in 1..Least(Len(t), n) : b[i] = t[Len(t) - Least(Len(t), n) + i]
  BY TailFacts
<1>3. Len(b) \in Nat /\ m \in 1..Len(b) + 1
  BY <1>2, LenProperties DEF From
<1>4. /\ u \in Seq(S) /\ Len(u) = Len(b) - m + 1
      /\ \A i \in 1..Len(b) - m + 1 : u[i] = b[m + i - 1]
  BY <1>2, <1>3, CutFacts
<1> HIDE DEF u
<1>7. Len(b) = Least(Len(t), n)
  BY <1>2
<1>8. Len(u) = Least(Len(t), k)
  <2>1. Len(u) = IF Len(b) > k THEN k ELSE Len(b)
    BY <1>3, <1>4 DEF From
  <2>2. QED
    BY <1>1, <1>3, <1>7, <2>1 DEF Least
<1>9. ASSUME NEW i \in 1..Len(u) PROVE u[i] = t[Len(t) - Len(u) + i]
  <2>1. u[i] = b[m + i - 1] /\ m + i - 1 \in 1..Len(b)
    <3>1. i \in 1..Len(b) - m + 1 /\ m + i - 1 \in 1..Len(b)
      BY <1>3, <1>4
    <3>2. QED
      BY <1>4, <3>1
  <2>2. b[m + i - 1] = t[Len(t) - Len(b) + (m + i - 1)]
    BY <1>2, <2>1
  <2>3. Len(t) - Len(b) + (m + i - 1) = Len(t) - Len(u) + i
    BY <1>1, <1>3, <1>4
  <2>4. QED
    BY <2>1, <2>2, <2>3
<1>10. u = TailBytes(t, k)
  BY <1>4, <1>8, <1>9, TailIs
<1>11. QED
  BY <1>10 DEF u

\* ... and what was kept of it makes room for the chunk.
LEMMA EndAndMore ==
    ASSUME NEW S, NEW t \in Seq(S), NEW c \in Seq(S), NEW n \in Nat, NEW k \in Nat, k + Len(c) = n
    PROVE  TailBytes(t \o c, n) = TailBytes(t, k) \o c
<1> DEFINE end == TailBytes(t, k)
           whole == end \o c
<1>1. Len(t) \in Nat /\ Len(c) \in Nat /\ n <= k + Len(c)
  BY LenProperties
<1>2. end \in Seq(S) /\ Len(end) = Least(Len(t), k)
  BY TailFacts
<1>3. TailBytes(end \o c, n) = TailBytes(t \o c, n)
  BY <1>1, TailOfMore
<1> HIDE DEF end
<1>4. Len(whole) = Len(end) + Len(c)
  BY <1>2, ConcatProperties
<1> HIDE DEF whole
<1>5. Len(whole) <= n
  BY <1>1, <1>2, <1>4 DEF Least
<1>6. TailBytes(whole, n) = whole
  BY <1>5 DEF TailBytes
<1>7. QED
  BY <1>3, <1>6 DEF whole, end

\* A chunk of any size: what is kept stays the end of what was written, and the
\* mark says whether something before it is missing.
LEMMA ChunkKeepsTail ==
    ASSUME NEW c \in CapturedOutput, NEW incoming \in Seq(Byte), incoming # <<>>,
           limit \in Nat,
           c.bytes = TailBytes(c.total, limit),
           c.truncated <=> Len(c.total) > limit
    PROVE  LET d == ExtendTail(c, incoming)
               total == c.total \o incoming
           IN  /\ d.bytes = TailBytes(total, limit)
               /\ d.truncated <=> Len(total) > limit
<1> DEFINE t == c.total
           total == t \o incoming
           d == ExtendTail(c, incoming)
<1>1. t \in Seq(Byte)
  BY DEF CapturedOutput
<1>2. total \in Seq(Byte) /\ Len(total) = Len(t) + Len(incoming)
  BY <1>1, ConcatProperties
<1>3. Len(t) \in Nat /\ Len(incoming) \in Nat /\ Len(incoming) > 0
  BY <1>1, LenProperties, EmptySeq
<1>4. Len(c.bytes) = Least(Len(t), limit)
  BY <1>1, TailFacts
<1>5. c.bytes \in Seq(Byte) /\ (c.bytes = <<>> <=> Len(c.bytes) = 0)
  BY EmptySeq, LenProperties DEF CapturedOutput
<1> HIDE DEF total, t
<1>6. CASE limit = 0
  <2>1. c.bytes = <<>> /\ TailBytes(total, limit) = <<>>
    BY <1>1, <1>2, <1>6, NoTail DEF t
  <2>2. d.bytes = c.bytes /\ d.truncated
    BY <1>6 DEF ExtendTail
  <2>3. Len(total) > limit
    BY <1>2, <1>3, <1>6
  <2>4. QED
    BY <2>1, <2>2, <2>3 DEF total, t
<1>7. CASE limit # 0 /\ Len(incoming) >= limit
  <2>1. d.bytes = TailBytes(incoming, limit)
        /\ (d.truncated <=> c.truncated \/ c.bytes # <<>> \/ Len(incoming) > limit)
    BY <1>7 DEF ExtendTail, ReplaceWithTail
  <2>2. <<>> \o incoming = incoming
    BY ConcatEmptySeq
  <2>3. TailBytes(t, 0) = <<>>
    BY <1>1, NoTail
  <2>4. limit <= 0 + Len(incoming)
    BY <1>3, <1>7
  <2>5. TailBytes(TailBytes(t, 0) \o incoming, limit) = TailBytes(t \o incoming, limit)
    BY <1>1, <2>4, TailOfMore
  <2>6. d.truncated <=> Len(total) > limit
    BY <1>2, <1>3, <1>4, <1>5, <1>7, <2>1 DEF Least, t
  <2>7. QED
    BY <2>1, <2>2, <2>3, <2>5, <2>6 DEF total, t
<1>8. CASE limit # 0 /\ Len(incoming) < limit
  <2> DEFINE b == c.bytes
             sum == Len(b) + Len(incoming)
             excess == IF sum > limit THEN sum - limit ELSE 0
             kept == SubSeq(b, excess + 1, Len(b))
             m == excess + 1
  <2>1. d.bytes = kept \o incoming /\ (d.truncated <=> c.truncated \/ excess > 0)
    <3>1. limit # 0 /\ ~(Len(incoming) >= limit)
      BY <1>3, <1>8
    <3>2. d = [bytes |-> kept \o incoming, truncated |-> c.truncated \/ excess > 0]
      BY <3>1, Zenon DEF ExtendTail
    <3> HIDE DEF d, kept, excess
    <3>3. QED
      BY <3>2, Zenon
  <2>2. Len(b) \in Nat
    BY <1>3, <1>4 DEF Least
  <2>3. d.truncated <=> Len(total) > limit
    <3>1. c.truncated <=> Len(t) > limit
      BY DEF t
    <3>2. excess > 0 <=> Len(b) + Len(incoming) > limit
      BY <1>3, <2>2
    <3> HIDE DEF excess, d
    <3>3. QED
      BY <1>2, <1>3, <1>4, <1>8, <2>1, <3>1, <3>2 DEF Least
  <2>4. b \in Seq(Byte) /\ b = TailBytes(t, limit)
    BY <1>5 DEF t
  <2> DEFINE k == limit - Len(incoming)
  <2>5. /\ k \in Nat /\ k <= limit /\ k + Len(incoming) = limit
        /\ m \in Nat /\ m = From(Len(b), k)
    BY <1>3, <1>8, <2>2 DEF From
  <2> HIDE DEF b, m, k
  <2>6. SubSeq(b, m, Len(b)) = TailBytes(t, k)
    BY <1>1, <2>4, <2>5, CutIsTail
  <2>7. TailBytes(t \o incoming, limit) = TailBytes(t, k) \o incoming
    BY <1>1, <2>5, EndAndMore
  <2>8. d.bytes = TailBytes(total, limit)
    BY <2>1, <2>6, <2>7 DEF total, b, m
  <2>9. QED
    BY <2>3, <2>8 DEF total, t
<1>9. QED
  BY <1>3, <1>6, <1>7, <1>8
\* The fold of no text.
LEMMA NothingHasNoWidth == WidthOf(<<>>) = 0
<1> DEFINE step0(iter) ==
             [s \in SUBSET (DOMAIN <<>>) |->
                IF s = {} THEN 0
                ELSE LET x == Max(s) IN iter[s \ {x}] + Width(<<>>[x])]
           fold == CHOOSE iter : iter = step0(iter)
           zero == [s \in {{}} |-> 0]
<1>1. WidthOf(<<>>) = fold[DOMAIN <<>>]
  BY DEF WidthOf, FoldLeft, MapThenFoldSet
<1>2. DOMAIN <<>> = {} /\ SUBSET {} = {{}}
  OBVIOUS
<1>3. \A iter : step0(iter) = zero
  BY <1>2
<1> HIDE DEF step0
<1>4. fold = zero
  BY <1>3
<1> HIDE DEF fold
<1>5. QED
  BY <1>1, <1>2, <1>4

\* A set of numbers below a bound has a greatest one.
LEMMA Greatest ==
    ASSUME NEW n \in Nat, NEW T, T \subseteq 0..n, T # {}
    PROVE  \E m \in T : \A k \in T : k <= m
<1> DEFINE U == {n - k : k \in T}
           R == OpToRel(<, Nat)
<1>1. U \subseteq Nat
  OBVIOUS
<1>2. U # {}
  <2>1. PICK t \in T : TRUE
    OBVIOUS
  <2>2. n - t \in U
    OBVIOUS
  <2>3. QED
    BY <2>2
<1>3. \A a, b \in Nat : a < b => <<a, b>> \in R
  BY DEF OpToRel
<1>4. IsWellFoundedOn(R, Nat)
  BY NatLessThanWellFounded
<1> HIDE DEF R
<1>5. \E u \in U : \A v \in U : ~(<<v, u>> \in R)
  <2> HIDE DEF U
  <2>1. QED
    BY <1>1, <1>2, <1>4, WFMin
<1>6. PICK u \in U : \A v \in U : ~(<<v, u>> \in R)
  BY <1>5
<1>7. PICK m \in T : u = n - m
  OBVIOUS
<1>8. ASSUME NEW k \in T PROVE k <= m
  <2>1. n - k \in U /\ n - k \in Nat /\ u \in Nat
    BY <1>1
  <2>2. ~(n - k < u)
    BY <1>3, <1>6, <2>1
  <2>3. QED
    BY <1>7, <2>1, <2>2
<1>9. QED
  BY <1>8

\* The end of an end is an end of the whole.
LEMMA TailOfTail ==
    ASSUME NEW S, NEW s \in Seq(S), NEW n \in Nat, NEW k \in Nat, k <= n
    PROVE  TailBytes(TailBytes(s, n), k) = TailBytes(s, k)
<1> DEFINE none == <<>>
           end == TailBytes(s, n)
<1>1. none \in Seq(S) /\ Len(none) = 0
  BY EmptySeq
<1>2. end \in Seq(S)
  BY TailFacts
<1>3. end \o none = end /\ s \o none = s
  BY <1>2, ConcatEmptySeq
<1> HIDE DEF none, end
<1>4. k <= n + Len(none)
  BY <1>1
<1>5. TailBytes(TailBytes(s, n) \o none, k) = TailBytes(s \o none, k)
  BY <1>1, <1>4, TailOfMore
<1>6. QED
  BY <1>3, <1>5 DEF end

\* The end that begins in the second of two parts is an end of that part.
LEMMA TailOfSecond ==
    ASSUME NEW S, NEW s \in Seq(S), NEW c \in Seq(S), NEW n \in Nat, n <= Len(c)
    PROVE  TailBytes(s \o c, n) = TailBytes(c, n)
<1>1. TailBytes(s, 0) = <<>> /\ <<>> \o c = c
  BY NoTail, ConcatEmptySeq
<1>2. n <= 0 + Len(c)
  BY LenProperties
<1>3. TailBytes(TailBytes(s, 0) \o c, n) = TailBytes(s \o c, n)
  BY <1>2, TailOfMore
<1>4. QED
  BY <1>1, <1>3

\* The end of two ends is the end of the two wholes.
LEMMA TailOfBoth ==
    ASSUME NEW S, NEW s \in Seq(S), NEW t \in Seq(S), NEW n \in Nat
    PROVE  TailBytes(TailBytes(s, n) \o TailBytes(t, n), n) = TailBytes(s \o t, n)
<1> DEFINE c == TailBytes(t, n)
<1>1. c \in Seq(S) /\ Len(c) = Least(Len(t), n) /\ Len(t) \in Nat
  BY TailFacts, LenProperties
<1>2. Len(t) <= n => c = t
  BY DEF TailBytes
<1>3. TailBytes(c, n) = TailBytes(t, n)
  BY TailOfTail
<1> HIDE DEF c
<1>4. n <= n + Len(c)
  BY <1>1 DEF Least
<1>5. TailBytes(TailBytes(s, n) \o c, n) = TailBytes(s \o c, n)
  BY <1>1, <1>4, TailOfMore
<1>6. CASE Len(t) <= n
  BY <1>2, <1>5, <1>6 DEF c
<1>7. CASE Len(t) > n
  <2>1. n <= Len(c) /\ n <= Len(t)
    BY <1>1, <1>7 DEF Least
  <2>2. TailBytes(s \o c, n) = TailBytes(c, n)
    BY <1>1, <2>1, TailOfSecond
  <2>3. TailBytes(s \o t, n) = TailBytes(t, n)
    BY <2>1, TailOfSecond
  <2>4. QED
    BY <1>3, <1>5, <2>2, <2>3 DEF c
<1>8. QED
  BY <1>1, <1>6, <1>7

\* from_utf8_lossy renders byte by byte, so that an end is rendered to an end.
LEMMA RenderedTail ==
    ASSUME NEW s \in Seq(Byte), NEW n \in Nat
    PROVE  /\ Rendered(s) \in Seq({"ascii", "replacement"})
           /\ Len(Rendered(s)) = Len(s)
           /\ Rendered(TailBytes(s, n)) = TailBytes(Rendered(s), n)
<1> DEFINE Char == {"ascii", "replacement"}
<1>1. ASSUME NEW t \in Seq(Byte)
      PROVE  /\ Rendered(t) \in Seq(Char)
             /\ Len(Rendered(t)) = Len(t)
             /\ \A i \in 1..Len(t) : Rendered(t)[i] = IF t[i] = "invalid" THEN "replacement" ELSE t[i]
  <2>1. DOMAIN t = 1..Len(t) /\ Len(t) \in Nat /\ \A i \in 1..Len(t) : t[i] \in Byte
    BY LenProperties, ElementOfSeq
  <2>2. Rendered(t) = [i \in 1..Len(t) |-> IF t[i] = "invalid" THEN "replacement" ELSE t[i]]
    BY <2>1 DEF Rendered
  <2>3. Rendered(t) \in [1..Len(t) -> Char]
    BY <2>1, <2>2 DEF Byte
  <2>4. QED
    BY <2>1, <2>2, <2>3
<1> DEFINE e == TailBytes(s, n)
           r == Rendered(s)
           u == Rendered(e)
<1>2. /\ e \in Seq(Byte) /\ Len(e) = Least(Len(s), n) /\ Len(s) \in Nat
      /\ \A i \in 1..Least(Len(s), n) : e[i] = s[Len(s) - Least(Len(s), n) + i]
  BY TailFacts, LenProperties
<1> HIDE DEF e
<1>3. /\ r \in Seq(Char) /\ Len(r) = Len(s)
      /\ \A i \in 1..Len(s) : r[i] = IF s[i] = "invalid" THEN "replacement" ELSE s[i]
  BY <1>1
<1>4. /\ u \in Seq(Char) /\ Len(u) = Len(e)
      /\ \A i \in 1..Len(e) : u[i] = IF e[i] = "invalid" THEN "replacement" ELSE e[i]
  BY <1>1, <1>2
<1> HIDE DEF r, u, Char
<1>5. Len(e) \in Nat /\ Len(e) <= Len(s)
  BY <1>2 DEF Least
<1>6. ASSUME NEW i \in 1..Len(u) PROVE u[i] = r[Len(r) - Len(u) + i]
  <2>1. i \in 1..Len(e) /\ Len(s) - Len(e) + i \in 1..Len(s)
    BY <1>2, <1>4, <1>5
  <2>2. e[i] = s[Len(s) - Len(e) + i]
    BY <1>2, <2>1
  <2>3. r[Len(s) - Len(e) + i] = u[i]
    BY <1>3, <1>4, <2>1, <2>2
  <2>4. QED
    BY <1>3, <1>4, <2>3
<1>7. u = TailBytes(r, n)
  BY <1>2, <1>3, <1>4, <1>6, TailIs
<1>8. QED
  BY <1>3, <1>7 DEF u, r, e, Char

\* bounded_lossy ends with the last characters, and no more than fit.
LEMMA LossyIsTail ==
    ASSUME NEW s \in Seq(Byte), limit \in Nat
    PROVE  \E m \in 0..Len(s) :
              /\ BoundedLossy(s) = TailBytes(Rendered(s), m)
              /\ Len(BoundedLossy(s)) = m
              /\ WidthOf(BoundedLossy(s)) <= limit
<1> DEFINE text == Rendered(s)
           fits == {n \in 0..Len(text) : WidthOf(TailBytes(text, n)) <= limit}
           m == CHOOSE n \in fits : \A k \in fits : k <= n
<1>1. text \in Seq({"ascii", "replacement"}) /\ Len(text) = Len(s) /\ Len(s) \in Nat
  BY RenderedTail, LenProperties
<1>2. BoundedLossy(s) = TailBytes(text, m)
  BY DEF BoundedLossy
<1> HIDE DEF text
<1>3. WidthOf(TailBytes(text, 0)) = 0
  BY <1>1, NoTail, NothingHasNoWidth
<1>4. 0 \in fits
  BY <1>1, <1>3
<1>5. fits \subseteq 0..Len(text)
  OBVIOUS
<1>6. \E n \in fits : \A k \in fits : k <= n
  <2> HIDE DEF fits
  <2>1. QED
    BY <1>1, <1>4, <1>5, Greatest
<1>7. m \in fits
  <2> HIDE DEF fits
  <2>1. QED
    BY <1>6
<1> HIDE DEF m
<1>8. m \in 0..Len(s) /\ WidthOf(TailBytes(text, m)) <= limit
  BY <1>1, <1>7
<1>9. Len(TailBytes(text, m)) = Least(Len(text), m)
  BY <1>1, <1>8, TailFacts
<1>10. Least(Len(text), m) = m
  BY <1>1, <1>8 DEF Least
<1>11. QED
  BY <1>2, <1>8, <1>9, <1>10 DEF text

\* What each stream keeps is the end of what was written to it, marked if that
\* is not all.
KeepsTails ==
    /\ limit \in Nat
    /\ stream \in [Stream -> CapturedOutput]
    /\ \A s \in Stream :
          /\ stream[s].bytes = TailBytes(stream[s].total, limit)
          /\ stream[s].truncated <=> Len(stream[s].total) > limit

\* The inductive invariant of the capture, for chunks of any size and a stream
\* of any length.
THEOREM TailInvariant == Spec => []KeepsTails
<1>1. Init => KeepsTails
  <2> SUFFICES ASSUME Init PROVE KeepsTails
    OBVIOUS
  <2>1. limit \in Nat
    BY DEF Init
  <2> DEFINE empty == [total |-> <<>>, bytes |-> <<>>, truncated |-> FALSE]
  <2>2. empty \in CapturedOutput
    BY EmptySeq DEF CapturedOutput
  <2>3. stream = [s \in Stream |-> empty]
    BY DEF Init
  <2>4. TailBytes(<<>>, limit) = <<>> /\ ~(Len(<<>>) > limit)
    BY <2>1, EmptySeq DEF TailBytes
  <2>5. QED
    BY <2>1, <2>2, <2>3, <2>4 DEF KeepsTails
<1>2. KeepsTails /\ [Next]_(vars) => KeepsTails'
  <2>1. ASSUME KeepsTails, NEW s \in Stream, NEW incoming \in Chunk, Extend(s, incoming)
        PROVE  KeepsTails'
    <3>1. incoming \in Seq(Byte) /\ incoming # <<>>
      <4>1. PICK n \in 1..MaxTotal : incoming \in [1..n -> Byte]
        BY DEF Chunk
      <4>2. incoming \in Seq(Byte) /\ Len(incoming) = n
        BY <4>1
      <4>3. QED
        BY <4>2, EmptySeq
    <3> DEFINE old == stream[s]
               kept == ExtendTail(old, incoming)
               new == [total |-> old.total \o incoming, bytes |-> kept.bytes, truncated |-> kept.truncated]
    <3>2. limit' = limit /\ stream' = [stream EXCEPT ![s] = new]
      BY <2>1 DEF Extend
    <3>3. /\ old \in CapturedOutput /\ limit \in Nat
          /\ old.bytes = TailBytes(old.total, limit)
          /\ old.truncated <=> Len(old.total) > limit
      BY <2>1 DEF KeepsTails
    <3> HIDE DEF old
    <3>4. /\ kept.bytes = TailBytes(old.total \o incoming, limit)
          /\ kept.truncated <=> Len(old.total \o incoming) > limit
      BY <3>1, <3>3, ChunkKeepsTail
    <3> DEFINE total == old.total \o incoming
    <3>5. total \in Seq(Byte)
      BY <3>1, <3>3, ConcatProperties DEF CapturedOutput
    <3>6. kept.truncated \in BOOLEAN
      BY <3>3, Zenon DEF ExtendTail, ReplaceWithTail, CapturedOutput
    <3> HIDE DEF total, kept
    <3>7. TailBytes(total, limit) \in Seq(Byte)
      BY <3>3, <3>5, TailFacts
    <3>8. /\ new = [total |-> total, bytes |-> kept.bytes, truncated |-> kept.truncated]
          /\ kept.bytes = TailBytes(total, limit)
          /\ kept.truncated <=> Len(total) > limit
      BY <3>4 DEF total
    <3>9. new \in CapturedOutput
      BY <3>5, <3>6, <3>7, <3>8 DEF CapturedOutput
    <3>10. /\ new.bytes = TailBytes(new.total, limit)
           /\ new.truncated <=> Len(new.total) > limit
      BY <3>8
    <3> HIDE DEF new
    <3>11. \A r \in Stream : stream'[r] = IF r = s THEN new ELSE stream[r]
      BY <2>1, <3>2 DEF KeepsTails
    <3>12. stream' \in [Stream -> CapturedOutput]
      BY <2>1, <3>2, <3>9 DEF KeepsTails
    <3>13. QED
      BY <2>1, <3>2, <3>10, <3>11, <3>12 DEF KeepsTails
  <2>2. QED
    BY <2>1 DEF Next, vars, KeepsTails
<1>3. QED
  BY <1>1, <1>2, PTL DEF Spec

\* However the streams are cut into chunks, the text of an outcome fits into the
\* limit, is an end of what both streams would render to, and is marked exactly
\* when it is not all of it (command.rs).
THEOREM TextIsAnEnd == Spec => []OutputIsAnEnd
<1>1. KeepsTails => OutputIsAnEnd
  <2> SUFFICES ASSUME KeepsTails PROVE OutputIsAnEnd
    OBVIOUS
  <2> DEFINE o == stream["stdout"]
             e == stream["stderr"]
             total == o.total \o e.total
             all == Rendered(total)
             n == limit
             text == Rendered(Kept)
  <2>1. /\ n \in Nat
        /\ o.total \in Seq(Byte) /\ o.bytes = TailBytes(o.total, n)
        /\ e.total \in Seq(Byte) /\ e.bytes = TailBytes(e.total, n)
    BY DEF KeepsTails, Stream, CapturedOutput
  <2>2. (o.truncated <=> Len(o.total) > n) /\ (e.truncated <=> Len(e.total) > n)
    BY DEF KeepsTails, Stream
  <2>3. /\ total \in Seq(Byte) /\ Len(total) = Len(o.total) + Len(e.total)
        /\ Len(o.total) \in Nat /\ Len(e.total) \in Nat
    BY <2>1, ConcatProperties, LenProperties
  <2>4. Kept = TailBytes(total, n)
    BY <2>1, TailOfBoth DEF Kept, Combined
  <2>a. /\ n \in Nat /\ Len(total) \in Nat
        /\ Len(total) <= n => Len(o.total) <= n /\ Len(e.total) <= n
        /\ Len(total) <= n => ~(Len(o.total) > n) /\ ~(Len(e.total) > n) /\ ~(Len(total) > n)
        /\ ~(Len(total) > n) => Len(total) <= n
    <3> DEFINE lt == Len(total)
               lo == Len(o.total)
               le == Len(e.total)
    <3>1. n \in Nat /\ lo \in Nat /\ le \in Nat /\ lt = lo + le
      BY <2>1, <2>3
    <3> HIDE DEF lt, lo, le, n
    <3>2. /\ n \in Nat /\ lt \in Nat
          /\ lt <= n => lo <= n /\ le <= n
          /\ lt <= n => ~(lo > n) /\ ~(le > n) /\ ~(lt > n)
          /\ ~(lt > n) => lt <= n
      BY <3>1
    <3>3. QED
      BY <3>2 DEF lt, lo, le
  <2>5. Len(total) <= n => Combined = total /\ Kept = total
    <3> SUFFICES ASSUME Len(total) <= n PROVE Combined = total /\ Kept = total
      OBVIOUS
    <3>1. Len(o.total) <= n /\ Len(e.total) <= n
      BY <2>a
    <3>2. o.bytes = o.total /\ e.bytes = e.total
      BY <2>1, <3>1 DEF TailBytes
    <3>3. Combined = total
      BY <3>2 DEF Combined
    <3>4. QED
      BY <2>4, <3>3 DEF TailBytes
  <2>6. ~OutputTruncated <=> ~o.truncated /\ ~e.truncated /\ ~(Len(Combined) > n) /\ Output = text
    BY DEF OutputTruncated
  <2>7. ~o.truncated /\ ~e.truncated => o.bytes = o.total /\ e.bytes = e.total
    BY <2>1, <2>2, <2>3 DEF TailBytes
  <2>8. ~o.truncated /\ ~e.truncated => Combined = total
    BY <2>7 DEF Combined
  <2>9. /\ all \in Seq({"ascii", "replacement"}) /\ Len(all) = Len(total)
        /\ text = TailBytes(all, n)
    BY <2>1, <2>3, <2>4, RenderedTail
  <2>10. Kept \in Seq(Byte) /\ Len(Kept) = Least(Len(total), n)
    BY <2>1, <2>3, <2>4, TailFacts
  <2>11. PICK m \in 0..Len(Kept) :
            /\ Output = TailBytes(text, m)
            /\ Len(Output) = m
            /\ WidthOf(Output) <= limit
    BY <2>1, <2>10, LossyIsTail DEF Output
  <2> HIDE DEF total, o, e, all, text
  <2>12. m \in Nat /\ m <= n /\ m <= Len(total)
    BY <2>a, <2>10 DEF Least
  <2>13. Output = TailBytes(all, m)
    BY <2>1, <2>9, <2>11, <2>12, TailOfTail
  <2>14. Output = all => ~OutputTruncated
    <3> SUFFICES ASSUME Output = all PROVE ~OutputTruncated
      OBVIOUS
    <3>1. Len(total) <= n
      BY <2>9, <2>11, <2>12
    <3>2. Combined = total /\ Kept = total
      BY <2>5, <3>1
    <3>3. text = all
      BY <3>2 DEF text, all
    <3>4. ~(Len(o.total) > n) /\ ~(Len(e.total) > n) /\ ~(Len(total) > n)
      BY <2>a, <3>1
    <3>5. ~(Len(Combined) > n)
      BY <3>2, <3>4
    <3>6. QED
      BY <2>2, <2>6, <3>3, <3>4, <3>5
  <2>15. ~OutputTruncated => Output = all
    <3> SUFFICES ASSUME ~OutputTruncated PROVE Output = all
      OBVIOUS
    <3>1. Combined = total /\ ~(Len(Combined) > n) /\ Output = text
      BY <2>6, <2>8
    <3>2. Len(total) <= n
      BY <2>a, <3>1
    <3>3. Kept = total
      BY <2>5, <3>2
    <3>4. QED
      BY <3>1, <3>3 DEF text, all
  <2>16. QED
    BY <2>11, <2>13, <2>14, <2>15 DEF OutputIsAnEnd, OutputIsAnEnd, all, total, o, e
<1>2. QED
  BY <1>1, TailInvariant, PTL
=============================================================================
