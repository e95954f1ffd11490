-------------------------- MODULE DataQueueLemmas ---------------------------
(***************************************************************************)
(* What the operations of a data queue do to its map, for every set V of   *)
(* data, every grid and every size: where an entry is inserted, which      *)
(* entries an eviction leaves, and which entry a scan from the newest one  *)
(* finds.  The proofs about DataQueue and SampledQueue rest on these.      *)
(***************************************************************************)
EXTENDS DataQueueOps, WellFoundedInduction, SequenceTheorems, TLAPS

\* Every non-empty set of natural numbers has a least element.
LEMMA LeastNat ==
  ASSUME NEW T \in SUBSET Nat, T # {}
  PROVE  \E m \in T : \A k \in T : m <= k
<1> DEFINE R == {ss \in Nat \X Nat : ss[1] < ss[2]}
<1>1. IsWellFoundedOn(R, Nat)
  BY NatLessThanWellFounded, Zenon DEF OpToRel
<1> HIDE DEF R
<1>2. PICK x \in T : \A y \in T : ~ (<<y, x>> \in R)
  BY <1>1, WFMin, Zenon
<1>3. \A y \in T : ~ (y < x)
  BY <1>2 DEF R
<1> QED BY <1>3

Tags == Nat \cup {MaxTime}

-----------------------------------------------------------------------------

\* get_trunc_time returns a time (or infinity) for every time a caller passes.
LEMMA TruncType ==
  ASSUME NEW t \in Tags
  PROVE  /\ GetTruncTime(t) \in Nat \cup {Infinite}
         /\ t \in Nat => GetTruncTime(t) \in Nat
<1>1. CASE t = MaxTime
  BY <1>1 DEF MaxTime, Infinite, GetTruncTime
<1>2. CASE t \in Nat
  <2>1. t \div Grid \in Nat
    BY <1>2, GridAssumption
  <2>2. Grid * (t \div Grid) \in Nat
    BY <2>1, GridAssumption
  <2> QED BY <1>2, <2>2 DEF GetTruncTime, MaxTime
<1> QED BY <1>1, <1>2 DEF Tags

\* A call with a time and a period makes an entry.
LEMMA EntryType ==
  ASSUME NEW V, NEW t \in Nat, NEW p \in Tags, NEW d \in V
  PROVE  Entry(t, p, d) \in EntriesOf(V)
<1>1. GetTruncTime(t) \in Nat
  BY TruncType DEF Tags
<1>2. GetTruncTime(p) \in Nat \cup {Infinite}
  BY TruncType
<1> QED BY <1>1, <1>2 DEF Entry, EntriesOf

\* A non-empty set of positions has a last one: the backward scans of
\* overwrite and get stop at it.
LEMMA LastOfIsIn ==
  ASSUME NEW n \in Nat, NEW S \in SUBSET (1 .. n), S # {}
  PROVE  LastOf(S) \in S /\ \A j \in S : j <= LastOf(S)
<1> DEFINE T == {n - i : i \in S}
<1>1. T \in SUBSET Nat
  OBVIOUS
<1>2. T # {}
  OBVIOUS
<1>3. PICK m \in T : \A k \in T : m <= k
  BY <1>1, <1>2, LeastNat, Zenon
<1>4. PICK i \in S : m = n - i
  OBVIOUS
<1>5. \A j \in S : j <= i
  <2> TAKE j \in S
  <2>1. n - j \in T
    OBVIOUS
  <2>2. m <= n - j
    BY <2>1, <1>3
  <2> QED BY <2>2, <1>4
<1>6. \E k \in S : \A j \in S : j <= k
  BY <1>5
<1> QED BY <1>6 DEF LastOf

\* The place of a new key in an ordered map: after k entries that are earlier
\* than it, before entries that it is earlier than.
LEMMA PlaceOf ==
  ASSUME NEW V, NEW q \in Seq(EntriesOf(V)), Ordered(q), NEW e \in EntriesOf(V)
  PROVE  \E k \in 0 .. Len(q) : \A i \in DOMAIN q : Earlier(q[i], e) <=> i <= k
<1> DEFINE S == {i \in DOMAIN q : Earlier(q[i], e)}
<1>0. DOMAIN q = 1 .. Len(q) /\ Len(q) \in Nat
  BY LenProperties
<1>1. CASE S = {}
  <2>1. \A i \in DOMAIN q : Earlier(q[i], e) <=> i <= 0
    BY <1>0, <1>1
  <2> QED BY <2>1, <1>0
<1>2. CASE S # {}
  <2> DEFINE k == LastOf(S)
  <2>1. S \in SUBSET (1 .. Len(q))
    BY <1>0
  <2>2. k \in S /\ \A j \in S : j <= k
    BY <1>0, <1>2, <2>1, LastOfIsIn, Zenon
  <2> HIDE DEF k
  <2>3. ASSUME NEW i \in DOMAIN q, i <= k PROVE Earlier(q[i], e)
    <3>1. CASE i = k
      BY <2>2, <3>1
    <3>2. CASE i < k
      <4>1. Earlier(q[i], q[k]) /\ Earlier(q[k], e)
        BY <2>2, <2>3, <3>2 DEF Ordered
      <4>2. q[i] \in EntriesOf(V) /\ q[k] \in EntriesOf(V)
        BY <1>0, <2>2, ElementOfSeq
      <4> QED BY <4>1, <4>2, GridAssumption DEF Earlier, EntriesOf, Precision
    <3> QED BY <1>0, <2>2, <2>3, <3>1, <3>2
  <2>4. \A i \in DOMAIN q : Earlier(q[i], e) <=> i <= k
    BY <2>2, <2>3
  <2> QED BY <2>2, <2>4, <1>0
<1> QED BY <1>1, <1>2

\* Inserting after the first k elements of a sequence.
LEMMA InsertAtProperties ==
  ASSUME NEW S, NEW s \in Seq(S), NEW k \in 0 .. Len(s), NEW e \in S
  PROVE  /\ InsertAt(s, k + 1, e) \in Seq(S)
         /\ Len(InsertAt(s, k + 1, e)) = Len(s) + 1
         /\ \A i \in 1 .. Len(s) + 1 :
              InsertAt(s, k + 1, e)[i] =
                IF i <= k THEN s[i] ELSE IF i = k + 1 THEN e ELSE s[i - 1]
<1> DEFINE front == SubSeq(s, 1, k)
           back  == SubSeq(s, k + 1, Len(s))
           mid   == front \o <<e>>
<1>0. Len(s) \in Nat /\ k \in Nat /\ \A i \in 1 .. Len(s) : s[i] \in S
  BY LenProperties, ElementOfSeq
<1>1. /\ front \in Seq(S)
      /\ Len(front) = k
      /\ \A i \in 1 .. k : front[i] = s[i]
  <2>1. \A i \in 1 .. k : s[i] \in S
    BY <1>0
  <2>2. /\ front \in Seq(S)
        /\ Len(front) = IF 1 <= k THEN k - 1 + 1 ELSE 0
        /\ \A i \in 1 .. k - 1 + 1 : front[i] = s[1 + i - 1]
    BY <1>0, <2>1, SubSeqProperties
  <2> HIDE DEF front
  <2> QED BY <1>0, <2>2
<1>2. /\ back \in Seq(S)
      /\ Len(back) = Len(s) - k
      /\ \A i \in 1 .. Len(s) - k : back[i] = s[k + i]
  <2>1. \A i \in k + 1 .. Len(s) : s[i] \in S
    BY <1>0
  <2>2. k + 1 \in Int /\ Len(s) \in Int
    BY <1>0
  <2>3. /\ back \in Seq(S)
        /\ Len(back) = IF k + 1 <= Len(s) THEN Len(s) - (k + 1) + 1 ELSE 0
        /\ \A i \in 1 .. Len(s) - (k + 1) + 1 : back[i] = s[(k + 1) + i - 1]
    <3> HIDE <1>0
    <3> QED BY <2>1, <2>2, SubSeqProperties
  <2> HIDE DEF back
  <2> QED BY <1>0, <2>3
<1> HIDE DEF front, back
<1>3. /\ mid \in Seq(S)
      /\ Len(mid) = k + 1
      /\ \A i \in 1 .. k : mid[i] = s[i]
      /\ mid[k + 1] = e
  <2>1. <<e>> \in Seq(S) /\ Len(<<e>>) = 1 /\ <<e>>[1] = e
    OBVIOUS
  <2> QED BY <1>0, <1>1, <2>1, ConcatProperties
<1> HIDE DEF mid
<1>4. /\ mid \o back \in Seq(S)
      /\ Len(mid \o back) = Len(s) + 1
      /\ \A i \in 1 .. k + 1 : (mid \o back)[i] = mid[i]
      /\ \A i \in k + 2 .. Len(s) + 1 : (mid \o back)[i] = back[i - (k + 1)]
  BY <1>0, <1>2, <1>3, ConcatProperties
<1>5. \A i \in k + 2 .. Len(s) + 1 : back[i - (k + 1)] = s[i - 1]
  BY <1>0, <1>2
<1> DEFINE r == mid \o back
<1> HIDE DEF r
<1>6. \A i \in 1 .. Len(s) + 1 :
        r[i] = IF i <= k THEN s[i] ELSE IF i = k + 1 THEN e ELSE s[i - 1]
  BY <1>0, <1>3, <1>4, <1>5 DEF r
<1>7. InsertAt(s, k + 1, e) = r
  <2>1. (k + 1) - 1 = k
    BY <1>0
  <2> QED BY <2>1 DEF InsertAt, r, mid, front, back
<1>8. r \in Seq(S) /\ Len(r) = Len(s) + 1
  BY <1>4 DEF r
<1> QED BY <1>6, <1>7, <1>8

\* What std::map::insert does to an ordered map: it stays ordered, loses
\* nothing, and gains at most the new entry.
LEMMA InsertOrdered ==
  ASSUME NEW V, NEW q \in Seq(EntriesOf(V)), Ordered(q), NEW e \in EntriesOf(V)
  PROVE  /\ Insert(q, e) \in Seq(EntriesOf(V))
         /\ Ordered(Insert(q, e))
         /\ Len(Insert(q, e)) <= Len(q) + 1
         /\ \A i \in DOMAIN q : \E j \in 1 .. Len(Insert(q, e)) : Insert(q, e)[j] = q[i]
<1>1. CASE \E i \in DOMAIN q : SameKey(q[i], e)
  BY <1>1, LenProperties DEF Insert
<1>2. CASE ~ \E i \in DOMAIN q : SameKey(q[i], e)
  <2> DEFINE Place(k) == \A i \in DOMAIN q : Earlier(q[i], e) <=> i <= k
             k == CHOOSE m \in 0 .. Len(q) : Place(m)
             r == InsertAt(q, k + 1, e)
  <2>0. DOMAIN q = 1 .. Len(q) /\ Len(q) \in Nat
    BY LenProperties
  <2>1. k \in 0 .. Len(q) /\ Place(k)
    <3>1. \E m \in 0 .. Len(q) : Place(m)
      BY PlaceOf
    <3> QED BY <3>1, Zenon
  <2>2. Insert(q, e) = r
    BY <1>2 DEF Insert
  <2> HIDE DEF k
  <2>5. /\ r \in Seq(EntriesOf(V))
        /\ Len(r) = Len(q) + 1
        /\ \A i \in 1 .. Len(q) + 1 : r[i] = IF i <= k THEN q[i]
                                            ELSE IF i = k + 1 THEN e ELSE q[i - 1]
    <3> HIDE DEF Place
    <3>1. k \in 0 .. Len(q)
      BY <2>1
    <3> DEFINE S == EntriesOf(V)
    <3>2. q \in Seq(S) /\ e \in S
      OBVIOUS
    <3> HIDE DEF S
    <3>3. /\ r \in Seq(S)
          /\ Len(r) = Len(q) + 1
          /\ \A i \in 1 .. Len(q) + 1 : r[i] = IF i <= k THEN q[i]
                                              ELSE IF i = k + 1 THEN e ELSE q[i - 1]
      BY <3>1, <3>2, InsertAtProperties
    <3> HIDE DEF r
    <3> QED BY <3>3 DEF S
  <2> HIDE DEF r
  <2>7. \A i \in DOMAIN q : q[i] \in EntriesOf(V)
    BY <2>0, ElementOfSeq
  <2>8. Ordered(r)
    <3> SUFFICES ASSUME NEW i \in 1 .. Len(q) + 1, NEW j \in 1 .. Len(q) + 1, i < j
                 PROVE  Earlier(r[i], r[j])
      BY <2>0, <2>5, LenProperties DEF Ordered
    <3>1. CASE j <= k
      <4>1. r[i] = q[i] /\ r[j] = q[j] /\ i \in DOMAIN q /\ j \in DOMAIN q
        BY <2>0, <2>1, <2>5, <3>1
      <4> QED BY <4>1 DEF Ordered
    <3>2. CASE j = k + 1
      <4>1. r[i] = q[i] /\ r[j] = e /\ i \in DOMAIN q /\ i <= k
        BY <2>0, <2>1, <2>5, <3>2
      <4> QED BY <2>1, <4>1
    <3>3. CASE i = k + 1
      <4>1. r[i] = e /\ r[j] = q[j - 1] /\ j - 1 \in DOMAIN q /\ ~ (j - 1 <= k)
        BY <2>0, <2>1, <2>5, <3>3
      <4>2. ~ Earlier(q[j - 1], e) /\ ~ SameKey(q[j - 1], e)
        BY <1>2, <2>1, <4>1
      <4> QED BY <4>1, <4>2 DEF SameKey
    <3>4. CASE j > k + 1 /\ i # k + 1
      <4>1. r[j] = q[j - 1] /\ j - 1 \in DOMAIN q
        BY <2>0, <2>1, <2>5, <3>4
      <4> DEFINE m == IF i <= k THEN i ELSE i - 1
      <4>2. m \in DOMAIN q /\ m < j - 1
        BY <2>0, <2>1, <3>4
      <4>3. r[i] = q[m]
        BY <2>0, <2>1, <2>5, <3>4
      <4> QED BY <4>1, <4>2, <4>3 DEF Ordered
    <3> QED BY <2>1, <3>1, <3>2, <3>3, <3>4
  <2>9. \A i \in DOMAIN q : \E j \in 1 .. Len(r) : r[j] = q[i]
    <3> TAKE i \in DOMAIN q
    <3> DEFINE j == IF i <= k THEN i ELSE i + 1
    <3>1. j \in 1 .. Len(q) + 1 /\ r[j] = q[i]
      BY <2>0, <2>1, <2>5
    <3> HIDE DEF j
    <3> QED BY <2>5, <3>1
  <2> QED BY <2>2, <2>5, <2>8, <2>9, <2>0
<1> QED BY <1>1, <1>2

\* Fitting a queue to its size keeps its newest entries.
LEMMA FitNewest ==
  ASSUME NEW V, NEW q \in Seq(EntriesOf(V)), NEW size \in Nat
  PROVE  LET n == IF Len(q) > size THEN Len(q) - size ELSE 0 IN
         /\ Fit(q, size) \in Seq(EntriesOf(V))
         /\ Len(Fit(q, size)) = Len(q) - n
         /\ \A i \in 1 .. Len(q) - n : Fit(q, size)[i] = q[i + n]
<1>0. Len(q) \in Nat /\ \A i \in 1 .. Len(q) : q[i] \in EntriesOf(V)
  BY LenProperties, ElementOfSeq
<1>1. CASE Len(q) > size
  <2> DEFINE m == Len(q) - size + 1
             r == SubSeq(q, m, Len(q))
  <2>1. m \in Int /\ Len(q) \in Int /\ \A i \in m .. Len(q) : q[i] \in EntriesOf(V)
    BY <1>0, <1>1
  <2> HIDE DEF m
  <2>2. /\ r \in Seq(EntriesOf(V))
        /\ Len(r) = IF m <= Len(q) THEN Len(q) - m + 1 ELSE 0
        /\ \A i \in 1 .. Len(q) - m + 1 : r[i] = q[m + i - 1]
    BY <2>1, SubSeqProperties
  <2>3. Fit(q, size) = r
    BY <1>1 DEF Fit, m
  <2> HIDE DEF r
  <2> QED BY <1>0, <1>1, <2>2, <2>3 DEF m
<1>2. CASE ~ (Len(q) > size)
  BY <1>0, <1>2 DEF Fit
<1> QED BY <1>1, <1>2

\* The position a scan from the newest entry stops at is the last that matches.
LEMMA LastOfIs ==
  ASSUME NEW n \in Nat, NEW S \in SUBSET (1 .. n), NEW k \in S, \A j \in S : j <= k
  PROVE  LastOf(S) = k
<1>1. S # {}
  OBVIOUS
<1>2. LastOf(S) \in S /\ \A j \in S : j <= LastOf(S)
  BY <1>1, LastOfIsIn
<1>3. LastOf(S) <= k /\ k <= LastOf(S)
  BY <1>2
<1>4. LastOf(S) \in 1 .. n /\ k \in 1 .. n
  BY <1>2
<1> QED BY <1>3, <1>4

\* Truncation moves a time to the grid point at or before it.
LEMMA TruncBounds ==
  ASSUME NEW t \in Nat
  PROVE  /\ GetTruncTime(t) \in Nat
         /\ GetTruncTime(t) <= t
         /\ t < GetTruncTime(t) + Grid
         /\ \E k \in Nat : GetTruncTime(t) = Grid * k
<1> DEFINE k == t \div Grid
<1>1. Grid \in Nat /\ Grid > 0
  BY GridAssumption
<1>2. k \in Nat
  BY <1>1
<1>3. t = Grid * k + (t % Grid) /\ t % Grid \in 0 .. Grid - 1
  BY <1>1
<1>4. GetTruncTime(t) = Grid * k
  BY DEF GetTruncTime, MaxTime
<1> HIDE DEF k
<1>5. Grid * k \in Nat
  BY <1>1, <1>2
<1> QED BY <1>1, <1>2, <1>3, <1>4, <1>5

\* A time that is some precisions long is still that long when truncated.
LEMMA TruncKeeps ==
  ASSUME NEW t \in Nat, NEW n \in Nat, t >= n * Precision
  PROVE  GetTruncTime(t) >= n * Precision
<1>1. Grid \in Nat /\ Grid > 0
  BY GridAssumption
<1>2. PICK k \in Nat : GetTruncTime(t) = Grid * k
  BY TruncBounds
<1>3. t < GetTruncTime(t) + Grid
  BY TruncBounds
<1>4. n * Precision = Grid * (2 * n)
  BY <1>1 DEF Precision
<1>5. Grid * (2 * n) < Grid * (k + 1)
  <2>1. Grid * (k + 1) = Grid * k + Grid
    BY <1>1
  <2>2. Grid * k \in Nat /\ Grid * (2 * n) \in Nat
    BY <1>1
  <2> QED BY <1>1, <1>2, <1>3, <1>4, <2>1, <2>2
<1>6. 2 * n < k + 1
  <2> SUFFICES ASSUME k + 1 <= 2 * n PROVE FALSE
    OBVIOUS
  <2>1. Grid * (k + 1) <= Grid * (2 * n)
    BY <1>1
  <2> QED BY <1>1, <1>5, <2>1
<1>7. Grid * (2 * n) <= Grid * k
  BY <1>1, <1>6
<1> QED BY <1>2, <1>4, <1>7

\* A key that is later than the newest of a map is inserted at its end.
LEMMA InsertNewest ==
  ASSUME NEW V, NEW q \in Seq(EntriesOf(V)), Ordered(q), NEW e \in EntriesOf(V),
         q # <<>> => Earlier(Newest(q), e)
  PROVE  /\ Insert(q, e) \in Seq(EntriesOf(V))
         /\ Len(Insert(q, e)) = Len(q) + 1
         /\ \A i \in 1 .. Len(q) + 1 :
              Insert(q, e)[i] = IF i = Len(q) + 1 THEN e ELSE q[i]
<1> DEFINE Place(k) == \A i \in DOMAIN q : Earlier(q[i], e) <=> i <= k
           k == CHOOSE m \in 0 .. Len(q) : Place(m)
           r == InsertAt(q, k + 1, e)
<1>0. DOMAIN q = 1 .. Len(q) /\ Len(q) \in Nat /\ \A i \in DOMAIN q : q[i] \in EntriesOf(V)
  BY LenProperties, ElementOfSeq
<1>1. \A i \in DOMAIN q : Earlier(q[i], e)
  <2> TAKE i \in DOMAIN q
  <2>1. q # <<>> /\ Len(q) \in DOMAIN q
    BY <1>0
  <2>2. CASE i = Len(q)
    BY <2>1, <2>2 DEF Newest
  <2>3. CASE i < Len(q)
    <3>1. Earlier(q[i], q[Len(q)]) /\ Earlier(q[Len(q)], e)
      BY <2>1, <2>3 DEF Ordered, Newest
    <3> QED BY <1>0, <2>1, <3>1, GridAssumption DEF Earlier, EntriesOf, Precision
  <2> QED BY <1>0, <2>2, <2>3
<1>2. Insert(q, e) = r
  <2>1. \A i \in DOMAIN q : ~ SameKey(q[i], e)
    BY <1>1 DEF SameKey
  <2> QED BY <2>1 DEF Insert
<1>3. k \in 0 .. Len(q) /\ Place(k)
  <2>1. \E m \in 0 .. Len(q) : Place(m)
    BY PlaceOf
  <2> QED BY <2>1, Zenon
<1> HIDE DEF k
<1>4. k = Len(q)
  <2>1. CASE Len(q) = 0
    BY <1>3, <2>1
  <2>2. CASE Len(q) # 0
    <3>1. Len(q) \in DOMAIN q
      BY <1>0, <2>2
    <3>2. Len(q) <= k
      BY <1>1, <1>3, <3>1
    <3>3. k \in 0 .. Len(q) /\ Len(q) \in Nat
      BY <1>0, <1>3
    <3> QED BY <3>2, <3>3
  <2> QED BY <2>1, <2>2
<1>5. /\ r \in Seq(EntriesOf(V))
      /\ Len(r) = Len(q) + 1
      /\ \A i \in 1 .. Len(q) + 1 : r[i] = IF i <= k THEN q[i]
                                          ELSE IF i = k + 1 THEN e ELSE q[i - 1]
  BY <1>3, InsertAtProperties
<1> HIDE DEF r
<1> QED BY <1>0, <1>2, <1>4, <1>5

\* An accepted write with a later key is the newest entry, and what is dropped
\* before it are the oldest entries beyond the size.
LEMMA AcceptNewest ==
  ASSUME NEW V, NEW q \in Seq(EntriesOf(V)), Ordered(q), NEW e \in EntriesOf(V),
         NEW size \in Nat, q # <<>> => Earlier(Newest(q), e)
  PROVE  LET r == Accept(q, e, size)
             n == IF Len(q) + 1 > size THEN Len(q) + 1 - size ELSE 0
         IN  /\ r.error = "NONE"
             /\ r.queue \in Seq(EntriesOf(V))
             /\ Len(r.queue) = Len(q) + 1 - n
             /\ \A i \in 1 .. Len(q) + 1 - n :
                  r.queue[i] = IF i + n = Len(q) + 1 THEN e ELSE q[i + n]
<1> DEFINE s == Insert(q, e)
           f == Fit(s, size)
           n == IF Len(q) + 1 > size THEN Len(q) + 1 - size ELSE 0
<1>0. Len(q) \in Nat
  BY LenProperties
<1>1. /\ s \in Seq(EntriesOf(V))
      /\ Len(s) = Len(q) + 1
      /\ \A i \in 1 .. Len(q) + 1 : s[i] = IF i = Len(q) + 1 THEN e ELSE q[i]
  BY InsertNewest
<1> HIDE DEF s
<1>2. /\ f \in Seq(EntriesOf(V))
      /\ Len(f) = Len(s) - n
      /\ \A i \in 1 .. Len(s) - n : f[i] = s[i + n]
  <2> DEFINE m == IF Len(s) > size THEN Len(s) - size ELSE 0
  <2>1. /\ f \in Seq(EntriesOf(V))
        /\ Len(f) = Len(s) - m
        /\ \A i \in 1 .. Len(s) - m : f[i] = s[i + m]
    BY <1>1, FitNewest
  <2>2. m = n
    BY <1>1
  <2> HIDE DEF m, n, f
  <2> QED BY <2>1, <2>2
<1>3. Accept(q, e, size).error = "NONE" /\ Accept(q, e, size).queue = f
  BY DEF Accept, f, s
<1> HIDE DEF f
<1>4. n \in 0 .. Len(q) + 1
  BY <1>0
<1>5. ASSUME NEW i \in 1 .. Len(q) + 1 - n
      PROVE  f[i] = IF i + n = Len(q) + 1 THEN e ELSE q[i + n]
  <2>1. i + n \in 1 .. Len(q) + 1
    BY <1>0, <1>4
  <2>2. f[i] = s[i + n]
    <3>1. i \in 1 .. Len(s) - n
      BY <1>1
    <3> HIDE DEF n
    <3> QED BY <1>2, <3>1
  <2>3. s[i + n] = IF i + n = Len(q) + 1 THEN e ELSE q[i + n]
    BY <1>1, <2>1
  <2> QED BY <2>2, <2>3
<1> HIDE DEF n
<1>6. Len(f) = Len(q) + 1 - n
  <2>1. Len(f) = Len(s) - n /\ Len(s) = Len(q) + 1
    BY <1>1, <1>2
  <2> QED BY <1>0, <1>4, <2>1
<1>7. \A i \in 1 .. Len(q) + 1 - n : f[i] = IF i + n = Len(q) + 1 THEN e ELSE q[i + n]
  BY <1>5
<1> QED BY <1>2, <1>3, <1>6, <1>7 DEF n

\* An accepted write loses entries only because the queue is full, and then the
\* oldest ones.
LEMMA AcceptKeeps ==
  ASSUME NEW V, NEW q \in Seq(EntriesOf(V)), Ordered(q), NEW e \in EntriesOf(V),
         NEW size \in Nat, NEW i \in DOMAIN q
  PROVE  LET r == Accept(q, e, size).queue IN
         \/ \E j \in DOMAIN r : r[j] = q[i]
         \/ Len(r) = size /\ \A j \in DOMAIN r : Earlier(q[i], r[j])
<1> DEFINE s == Insert(q, e)
           f == Fit(s, size)
           n == IF Len(s) > size THEN Len(s) - size ELSE 0
<1>1. s \in Seq(EntriesOf(V)) /\ Ordered(s) /\ \E j \in 1 .. Len(s) : s[j] = q[i]
  BY InsertOrdered
<1>2. Accept(q, e, size).queue = f
  BY DEF Accept
<1> HIDE DEF s
<1>3. /\ f \in Seq(EntriesOf(V))
      /\ Len(f) = Len(s) - n
      /\ \A j \in 1 .. Len(s) - n : f[j] = s[j + n]
  BY <1>1, FitNewest
<1> HIDE DEF f
<1>4. Len(s) \in Nat /\ DOMAIN s = 1 .. Len(s) /\ DOMAIN f = 1 .. Len(f)
  BY <1>1, <1>3, LenProperties
<1>5. PICK k \in 1 .. Len(s) : s[k] = q[i]
  BY <1>1
<1>6. CASE k > n
  <2>1. k - n \in 1 .. Len(s) - n /\ (k - n) + n = k
    BY <1>4, <1>6
  <2>2. f[k - n] = q[i]
    BY <1>3, <1>5, <2>1
  <2> QED BY <1>2, <1>3, <1>4, <2>1, <2>2
<1>7. CASE k <= n
  <2>1. Len(f) = size
    <3>0. Len(s) \in Nat /\ size \in Nat /\ k \in Nat /\ k >= 1
      BY <1>4
    <3>1. Len(s) > size
      BY <3>0, <1>7
    <3>2. n = Len(s) - size
      BY <3>1
    <3>3. Len(f) = Len(s) - n
      BY <1>3
    <3> HIDE DEF n
    <3> QED BY <3>0, <3>2, <3>3
  <2>2. ASSUME NEW j \in DOMAIN f PROVE Earlier(q[i], f[j])
    <3>1. j \in 1 .. Len(s) - n
      BY <1>3, <1>4
    <3>2. j + n \in DOMAIN s /\ k < j + n
      BY <1>4, <1>7, <3>1
    <3>3. f[j] = s[j + n]
      BY <1>3, <3>1
    <3> QED BY <1>1, <1>4, <1>5, <3>2, <3>3 DEF Ordered
  <2> QED BY <1>2, <2>1, <2>2
<1> QED BY <1>4, <1>6, <1>7

-----------------------------------------------------------------------------
\* What a write does, whichever function makes it

\* A period that the precision resolves, or none
Resolved(p) == p \in {Unspecified, MaxTime} \/ p >= 2 * Precision

\* The entry x that is accepted for e: the newest if its period is resolved,
\* and then it follows the newest so far without a gap
Follows(type, q, e, p, x) ==
    /\ x.time = e.time /\ x.data = e.data
    /\ q # <<>> /\ Resolved(p) => Earlier(Newest(q), x)
    /\ q # <<>> /\ type = "DISCRETE" => Continuous(Newest(q), x)
    /\ type = "DISCRETE" /\ p # Unspecified => x = e
    /\ type = "DISCRETE" /\ p = Unspecified => Finite(x) /\ x.period >= Precision

Accepts(V, type, size, q, e, p, r) ==
    \E x \in EntriesOf(V) : Follows(type, q, e, p, x) /\ r = Accept(q, x, size)

\* The entry found has its datum replaced
Replaces(type, q, e, p, r) ==
    \E k \in Replaceable(type, q, e, p) :
        /\ \A j \in Replaceable(type, q, e, p) : j <= k
        /\ r = [queue |-> [q EXCEPT ![k].data = e.data], error |-> "NONE"]

\* The queue starts again from e, which is an error unless it was empty
Restarts(size, q, e, r) ==
    /\ r.queue = <<e>> \/ r.queue = Fit(<<e>>, size)
    /\ q # <<>> => r.error # "NONE"

Writes(V, type, size, q, e, p, r) ==
    Accepts(V, type, size, q, e, p, r) \/ Replaces(type, q, e, p, r) \/ Restarts(size, q, e, r)

\* The newest entry of a queue is an entry.
LEMMA NewestType ==
  ASSUME NEW V, NEW q \in Seq(EntriesOf(V)), q # <<>>
  PROVE  Newest(q) \in EntriesOf(V)
<1>1. Len(q) \in 1 .. Len(q)
  BY LenProperties, EmptySeq
<1> QED BY <1>1, ElementOfSeq DEF Newest

\* A derived period is the distance to an older entry, so it is a period.
LEMMA DerivedType ==
  ASSUME NEW V, NEW q \in Seq(EntriesOf(V)), q # <<>>, NEW e \in EntriesOf(V),
         After(e, Newest(q).time)
  PROVE  Derived(q, e) \in EntriesOf(V)
<1>1. Newest(q).time \in Nat /\ e.time \in Nat
  BY NewestType DEF EntriesOf
<1>2. e.time - Newest(q).time \in Nat
  BY <1>1, GridAssumption DEF After, Precision
<1>3. GetTruncTime(e.time - Newest(q).time) \in Nat
  BY <1>2, TruncType DEF Tags
<1> QED BY <1>3 DEF Derived, EntriesOf

LEMMA UnspecifiedWrites ==
  ASSUME NEW V, NEW size \in Nat, NEW q \in Seq(EntriesOf(V)), NEW e \in EntriesOf(V),
         NEW err, err # "NONE"
  PROVE  Writes(V, "DISCRETE", size, q, e, Unspecified, WriteUnspecified(q, e, size, err))
<1> DEFINE r == WriteUnspecified(q, e, size, err)
<1>1. CASE q = <<>>
  <2>1. r = First(e)
    BY <1>1 DEF WriteUnspecified
  <2> QED BY <1>1, <2>1 DEF First, Restarts, Writes
<1>2. CASE q # <<>> /\ After(e, Newest(q).time)
  <2> DEFINE x == Derived(q, e)
             d == e.time - Newest(q).time
  <2>1. Newest(q) \in EntriesOf(V) /\ x \in EntriesOf(V)
    BY <1>2, NewestType, DerivedType
  <2>2. r = Accept(q, x, size)
    BY <1>2 DEF WriteUnspecified
  <2>3. d \in Nat /\ d >= 1 * Precision
    BY <1>2, <2>1, GridAssumption DEF After, EntriesOf, Precision
  <2>4. /\ GetTruncTime(d) \in Nat
        /\ GetTruncTime(d) <= d
        /\ d < GetTruncTime(d) + Grid
    BY <2>3, TruncBounds
  <2>5. GetTruncTime(d) >= 1 * Precision
    BY <2>3, TruncKeeps
  <2>6. x.time = e.time /\ x.data = e.data /\ x.period = GetTruncTime(d)
    BY DEF Derived, EntriesOf
  <2>7. Newest(q).time \in Nat /\ e.time \in Nat /\ Grid \in Nat
    BY <2>1, GridAssumption DEF EntriesOf
  <2> HIDE DEF x
  <2>8. Earlier(Newest(q), x)
    BY <2>3, <2>6, <2>7 DEF Earlier, Precision
  <2>9. Finite(x) /\ x.period >= Precision
    BY <2>4, <2>5, <2>6, <2>7 DEF Finite, Infinite, Precision
  <2> DEFINE g == GetTruncTime(d)
  <2>10. Newest(q).time - (x.time - x.period) \in -Precision .. Precision
    <3>1. Newest(q).time - (x.time - x.period) = g - (e.time - Newest(q).time)
      BY <2>4, <2>6, <2>7
    <3>2. g <= e.time - Newest(q).time /\ e.time - Newest(q).time < g + Grid /\ g \in Nat
      BY <2>4
    <3> HIDE DEF g
    <3> QED BY <2>7, <3>1, <3>2 DEF Precision
  <2>11. Follows("DISCRETE", q, e, Unspecified, x)
    BY <2>6, <2>8, <2>9, <2>10 DEF Follows, Continuous
  <2> QED BY <2>1, <2>2, <2>11 DEF Accepts, Writes
<1>3. CASE q # <<>> /\ ~ After(e, Newest(q).time)
  <2>1. r = Flush(e, err)
    BY <1>3 DEF WriteUnspecified
  <2> QED BY <1>3, <2>1 DEF Flush, Restarts, Writes
<1> QED BY <1>1, <1>2, <1>3

LEMMA SpecifiedWrites ==
  ASSUME NEW V, NEW size \in Nat, NEW q \in Seq(EntriesOf(V)), NEW t \in Nat,
         NEW p \in Tags, p # Unspecified, NEW d \in V, NEW err, q # <<>> => err # "NONE"
  PROVE  Writes(V, "DISCRETE", size, q, Entry(t, p, d), p,
                WriteSpecified(q, Entry(t, p, d), size, err))
<1> DEFINE e == Entry(t, p, d)
           r == WriteSpecified(q, e, size, err)
<1>0. e \in EntriesOf(V) /\ e.period = GetTruncTime(p)
  BY EntryType DEF Entry
<1> HIDE DEF e
<1>1. CASE q = <<>> \/ Continuous(Newest(q), e)
  <2>1. r = Accept(q, e, size)
    BY <1>1 DEF WriteSpecified
  <2>2. ASSUME q # <<>>, Resolved(p) PROVE Earlier(Newest(q), e)
    <3>1. Newest(q) \in EntriesOf(V)
      BY <2>2, NewestType
    <3>2. e.period # Infinite /\ Newest(q).time - (e.time - e.period) \in -Precision .. Precision
      BY <1>1, <2>2 DEF Continuous, Finite
    <3>3. p \in Nat /\ p >= 2 * Precision
      BY <1>0, <2>2, <3>2 DEF Resolved, Tags, GetTruncTime
    <3>4. e.period >= 2 * Precision
      BY <1>0, <3>3, TruncKeeps
    <3>5. Newest(q).time \in Nat /\ e.time \in Nat /\ e.period \in Nat /\ Precision \in Nat
      BY <1>0, <3>1, <3>2, GridAssumption DEF EntriesOf, Precision
    <3> QED BY <3>2, <3>4, <3>5 DEF Earlier
  <2>3. Follows("DISCRETE", q, e, p, e)
    BY <1>1, <2>2 DEF Follows
  <2> QED BY <1>0, <2>1, <2>3 DEF Accepts, Writes, e
<1>2. CASE q # <<>> /\ ~ Continuous(Newest(q), e)
  <2>1. r = Flush(e, err)
    BY <1>2 DEF WriteSpecified
  <2> QED BY <1>2, <2>1 DEF Flush, Restarts, Writes, e
<1> QED BY <1>1, <1>2

\* An open queue accepts an entry that is later than the newest.
LEMMA OpenAccepts ==
  ASSUME NEW V, NEW size \in Nat, NEW q \in Seq(EntriesOf(V)), NEW e \in EntriesOf(V), NEW p,
         q # <<>> => Earlier(Newest(q), e)
  PROVE  Writes(V, "OPEN", size, q, e, p, Accept(q, e, size))
<1>1. Follows("OPEN", q, e, p, e)
  BY DEF Follows
<1> QED BY <1>1 DEF Accepts, Writes

\* The error code of a push that does not follow the newest entry is one.
LEMMA TimeViolationCode ==
  ASSUME NEW x, NEW e
  PROVE  TimeViolation(x, e) \in QueueErrors \ {"NONE"}
<1>1. CASE CoversStart(x, e) \/ Covers(x, e.time)
  BY <1>1 DEF TimeViolation, QueueErrors
<1>2. CASE ~ (CoversStart(x, e) \/ Covers(x, e.time)) /\ Earlier(x, e)
  BY <1>2 DEF TimeViolation, QueueErrors
<1>3. CASE ~ (CoversStart(x, e) \/ Covers(x, e.time)) /\ ~ Earlier(x, e)
  BY <1>3 DEF TimeViolation, QueueErrors
<1> QED BY <1>1, <1>2, <1>3

\* data_queue_t::push_back accepts the entry or starts again from it.
LEMMA PushBackWrites ==
  ASSUME NEW V, NEW size \in Nat, NEW type \in QueueTypes, NEW q \in Seq(EntriesOf(V)),
         NEW t \in Nat, NEW p \in Tags, NEW d \in V
  PROVE  Writes(V, type, size, q, Entry(t, p, d), p, PushBack(type, size, q, t, p, d))
<1> DEFINE e == Entry(t, p, d)
<1>0. e \in EntriesOf(V)
  BY EntryType
<1> HIDE DEF e
<1>1. CASE type = "OPEN"
  <2>1. PushBack(type, size, q, t, p, d) = PushOpen(q, e, size)
    BY <1>1 DEF PushBack, e
  <2>2. CASE q # <<>> /\ AtOrBefore(e, Newest(q).time)
    <3>1. PushOpen(q, e, size) = [queue |-> Fit(<<e>>, size), error |-> "OUTORDER"]
      BY <2>2 DEF PushOpen
    <3>2. Restarts(size, q, e, PushOpen(q, e, size))
      BY <3>1 DEF Restarts
    <3> QED BY <2>1, <3>2 DEF Writes, e
  <2>3. CASE ~ (q # <<>> /\ AtOrBefore(e, Newest(q).time))
    <3>1. PushOpen(q, e, size) = Accept(q, e, size)
      BY <2>3 DEF PushOpen
    <3>2. ASSUME q # <<>> PROVE Earlier(Newest(q), e)
      <4>1. Newest(q) \in EntriesOf(V)
        BY <3>2, NewestType
      <4> QED BY <1>0, <2>3, <3>2, <4>1, GridAssumption DEF AtOrBefore, Earlier, EntriesOf, Precision
    <3>3. Writes(V, "OPEN", size, q, e, p, Accept(q, e, size))
      BY <1>0, <3>2, OpenAccepts
    <3> QED BY <1>1, <2>1, <3>1, <3>3 DEF e
  <2> QED BY <2>2, <2>3
<1>2. CASE type = "DISCRETE" /\ p = Unspecified
  <2>1. PushBack(type, size, q, t, p, d) = WriteUnspecified(q, e, size, "OVERLAP")
    BY <1>2 DEF PushBack, e
  <2>2. Writes(V, "DISCRETE", size, q, e, Unspecified, WriteUnspecified(q, e, size, "OVERLAP"))
    BY <1>0, UnspecifiedWrites
  <2> QED BY <1>2, <2>1, <2>2 DEF e
<1>3. CASE type = "DISCRETE" /\ p # Unspecified
  <2> DEFINE err == IF q = <<>> THEN "NONE" ELSE TimeViolation(Newest(q), e)
  <2>1. PushBack(type, size, q, t, p, d) = WriteSpecified(q, e, size, err)
    BY <1>3 DEF PushBack, e
  <2>2. q # <<>> => err # "NONE"
    BY TimeViolationCode
  <2> HIDE DEF err
  <2>3. Writes(V, "DISCRETE", size, q, e, p, WriteSpecified(q, e, size, err))
    BY <1>3, <2>2, SpecifiedWrites DEF e
  <2> QED BY <1>3, <2>1, <2>3 DEF e
<1> QED BY <1>1, <1>2, <1>3 DEF QueueTypes

\* data_queue_t::overwrite replaces a datum, or does what a push does.
LEMMA OverwriteWrites ==
  ASSUME NEW V, NEW size \in Nat, NEW type \in QueueTypes, NEW q \in Seq(EntriesOf(V)),
         NEW t \in Nat, NEW p \in Tags, NEW d \in V
  PROVE  Writes(V, type, size, q, Entry(t, p, d), p, Overwrite(type, size, q, t, p, d))
<1> DEFINE e == Entry(t, p, d)
           m == Replaceable(type, q, e, p)
           r == Overwrite(type, size, q, t, p, d)
<1>0. e \in EntriesOf(V) /\ e.data = d
  BY EntryType DEF Entry
<1>1. CASE m # {}
  <2>1. m \in SUBSET (1 .. Len(q)) /\ Len(q) \in Nat
    BY LenProperties DEF Replaceable
  <2>2. r = [queue |-> [q EXCEPT ![LastOf(m)].data = d], error |-> "NONE"]
    BY <1>1 DEF Overwrite
  <2> HIDE DEF m, r, e
  <2>3. LastOf(m) \in m /\ \A j \in m : j <= LastOf(m)
    BY <1>1, <2>1, LastOfIsIn
  <2>4. Replaces(type, q, e, p, r)
    BY <1>0, <2>2, <2>3 DEF Replaces, m
  <2> QED BY <2>4 DEF Writes, e, r
<1>2. CASE m = {}
  <2>1. r = OverwriteMiss(type, size, q, e, p)
    BY <1>2 DEF Overwrite
  <2> HIDE DEF m, r, e
  <2>2. CASE type = "OPEN"
    <3>1. CASE q = <<>> \/ After(e, Newest(q).time)
      <4>1. r = Accept(q, e, size)
        BY <2>1, <2>2, <3>1 DEF OverwriteMiss
      <4>2. q # <<>> => Earlier(Newest(q), e)
        BY <3>1 DEF After, Earlier
      <4>3. Writes(V, "OPEN", size, q, e, p, Accept(q, e, size))
        BY <1>0, <4>2, OpenAccepts
      <4> QED BY <2>2, <4>1, <4>3 DEF e, r
    <3>2. CASE ~ (q = <<>> \/ After(e, Newest(q).time))
      <4>1. r = Flush(e, "OUTORDER")
        BY <2>1, <2>2, <3>2 DEF OverwriteMiss
      <4>2. Restarts(size, q, e, r)
        BY <4>1 DEF Flush, Restarts
      <4> QED BY <4>2 DEF Writes, e, r
    <3> QED BY <3>1, <3>2
  <2>3. CASE type = "DISCRETE" /\ p = Unspecified
    <3>1. r = WriteUnspecified(q, e, size, "OUTORDER")
      BY <2>1, <2>3 DEF OverwriteMiss
    <3>2. Writes(V, "DISCRETE", size, q, e, Unspecified, WriteUnspecified(q, e, size, "OUTORDER"))
      BY <1>0, UnspecifiedWrites
    <3> QED BY <2>3, <3>1, <3>2 DEF e, r
  <2>4. CASE type = "DISCRETE" /\ p # Unspecified
    <3>1. r = WriteSpecified(q, e, size, "OUTORDER")
      BY <2>1, <2>4 DEF OverwriteMiss
    <3>2. Writes(V, "DISCRETE", size, q, e, p, WriteSpecified(q, e, size, "OUTORDER"))
      BY <2>4, SpecifiedWrites DEF e
    <3> QED BY <2>4, <3>1, <3>2 DEF e, r
  <2> QED BY <2>2, <2>3, <2>4 DEF QueueTypes
<1> QED BY <1>1, <1>2

-----------------------------------------------------------------------------
\* What a read finds

\* Tags carry the time and period of the call, whatever the datum.
LEMMA EntryTag ==
  ASSUME NEW t, NEW p, NEW d
  PROVE  /\ Entry(t, p, d).time = GetTruncTime(t)
         /\ Entry(t, p, d).period = GetTruncTime(p)
         /\ Entry(t, p, d).data = d
BY DEF Entry

\* The newest entry is what a read finds that it matches.
LEMMA GetNewest ==
  ASSUME NEW V, NEW type \in QueueTypes, NEW q \in Seq(EntriesOf(V)), q # <<>>,
         NEW t, NEW p, NEW junk,
         Len(q) \in Readable(type, q, Entry(t, p, junk), p)
  PROVE  Get(type, q, t, p, junk) = [data |-> Newest(q).data, error |-> "NONE"]
<1> DEFINE m == Readable(type, q, Entry(t, p, junk), p)
<1>1. m \in SUBSET (1 .. Len(q)) /\ Len(q) \in Nat
  BY LenProperties DEF Readable
<1>2. LastOf(m) = Len(q)
  <2>1. Len(q) \in m
    OBVIOUS
  <2> HIDE DEF m
  <2>2. \A j \in m : j <= Len(q)
    BY <1>1
  <2> QED BY <1>1, <2>1, <2>2, LastOfIs
<1>3. m # {}
  OBVIOUS
<1> QED BY <1>2, <1>3 DEF Get, Newest

\* What was accepted can be read with its own tag.
LEMMA ReadAccepted ==
  ASSUME NEW V, NEW size \in Nat, size > 0, NEW type \in QueueTypes,
         NEW q \in Seq(EntriesOf(V)), Ordered(q), NEW t \in Nat, NEW p \in Nat, NEW d \in V,
         p = Unspecified \/ p >= 2 * Precision,
         NEW r, Accepts(V, type, size, q, Entry(t, p, d), p, r), NEW junk \in V
  PROVE  Get(type, r.queue, t, p, junk) = [data |-> d, error |-> "NONE"]
<1> DEFINE e == Entry(t, p, d)
           n == IF Len(q) + 1 > size THEN Len(q) + 1 - size ELSE 0
<1>1. PICK x \in EntriesOf(V) : Follows(type, q, e, p, x) /\ r = Accept(q, x, size)
  BY DEF Accepts
<1>2. /\ r.queue \in Seq(EntriesOf(V))
      /\ Len(r.queue) = Len(q) + 1 - n
      /\ \A i \in 1 .. Len(q) + 1 - n :
           r.queue[i] = IF i + n = Len(q) + 1 THEN x ELSE q[i + n]
  <2>1. q # <<>> => Earlier(Newest(q), x)
    BY <1>1 DEF Follows, Resolved
  <2> QED BY <1>1, <2>1, AcceptNewest
<1>3. Len(q) \in Nat /\ n \in 0 .. Len(q)
  BY LenProperties
<1> HIDE DEF n
<1> DEFINE k == Len(r.queue)
<1>4. k \in 1 .. Len(q) + 1 - n /\ k + n = Len(q) + 1
  BY <1>2, <1>3
<1>5. r.queue[k] = x
  BY <1>2, <1>4
<1>6. r.queue # <<>> /\ DOMAIN r.queue = 1 .. k /\ k \in DOMAIN r.queue
  BY <1>2, <1>3, <1>4, LenProperties
<1> DEFINE y == Entry(t, p, junk)
<1>7. y.time = x.time /\ y.period = e.period /\ e.period = GetTruncTime(p) /\ x.data = d
  BY <1>1, EntryTag DEF Follows
<1>8. x.time \in Nat /\ Grid \in Nat /\ Grid > 0
  BY GridAssumption DEF EntriesOf
<1>9. k \in Readable(type, r.queue, y, p)
  <2>1. CASE type = "OPEN"
    <3>1. AtOrAfter(y, r.queue[k].time)
      BY <1>5, <1>7, <1>8 DEF AtOrAfter, Precision
    <3> QED BY <1>6, <2>1, <3>1 DEF Readable
  <2>2. CASE type = "DISCRETE" /\ p = Unspecified
    <3>1. Finite(x) /\ x.period >= Precision
      BY <1>1, <2>2 DEF Follows
    <3>2. x.period \in Nat
      BY <3>1 DEF EntriesOf, Finite
    <3>3. Covers(r.queue[k], y.time)
      BY <1>5, <1>7, <1>8, <3>1, <3>2 DEF Covers, Precision
    <3> QED BY <1>6, <2>2, <3>3 DEF Readable
  <2>3. CASE type = "DISCRETE" /\ p # Unspecified
    <3>1. x = e
      BY <1>1, <2>3 DEF Follows
    <3>2. e.period \in Nat
      BY <1>7, TruncBounds
    <3>3. SameRange(r.queue[k], y)
      <4>1. x.period = e.period /\ x.period # Infinite
        BY <3>1, <3>2 DEF Infinite
      <4> HIDE DEF e, y
      <4>2. x.time - y.time = 0 /\ x.period - y.period = 0
        BY <1>7, <1>8, <3>2, <4>1
      <4>3. 0 \in -Precision .. Precision
        BY <1>8 DEF Precision
      <4> QED BY <1>5, <1>7, <4>1, <4>2, <4>3 DEF SameRange, Finite
    <3> QED BY <1>6, <2>3, <3>3 DEF Readable
  <2> QED BY <2>1, <2>2, <2>3 DEF QueueTypes
<1>10. Get(type, r.queue, t, p, junk) = [data |-> Newest(r.queue).data, error |-> "NONE"]
  BY <1>2, <1>6, <1>9, GetNewest
<1> QED BY <1>5, <1>7, <1>10 DEF Newest

\* The tags of a map are those before an entry's datum was replaced.
LEMMA ReplaceTags ==
  ASSUME NEW V, NEW q \in Seq(EntriesOf(V)), NEW k \in DOMAIN q, NEW d \in V
  PROVE  LET r == [q EXCEPT ![k].data = d] IN
         /\ r \in Seq(EntriesOf(V))
         /\ Len(r) = Len(q)
         /\ DOMAIN r = DOMAIN q
         /\ r[k].data = d
         /\ \A i \in DOMAIN q : /\ r[i].time = q[i].time /\ r[i].period = q[i].period
                                /\ i # k => r[i] = q[i]
<1> DEFINE x == [q[k] EXCEPT !.data = d]
           r == [q EXCEPT ![k] = x]
<1>1. DOMAIN q = 1 .. Len(q) /\ \A j \in DOMAIN q : q[j] \in EntriesOf(V)
  BY LenProperties, ElementOfSeq
<1>2. x \in EntriesOf(V) /\ x.time = q[k].time /\ x.period = q[k].period /\ x.data = d
  BY <1>1 DEF EntriesOf
<1>3. [q EXCEPT ![k].data = d] = r
  OBVIOUS
<1> HIDE DEF x
<1>4. r \in Seq(EntriesOf(V)) /\ Len(r) = Len(q) /\ DOMAIN r = DOMAIN q
  BY <1>1, <1>2, ExceptSeq
<1>5. r[k] = x /\ \A i \in DOMAIN q : i # k => r[i] = q[i]
  BY <1>1
<1> QED BY <1>2, <1>3, <1>4, <1>5

\* What replaced a datum can be read with the tag that found it.
LEMMA ReadReplaced ==
  ASSUME NEW V, NEW type \in QueueTypes, NEW q \in Seq(EntriesOf(V)), Ordered(q),
         NEW t \in Nat, NEW p \in Tags, NEW d \in V,
         NEW r, Replaces(type, q, Entry(t, p, d), p, r), NEW junk \in V
  PROVE  Get(type, r.queue, t, p, junk) = [data |-> d, error |-> "NONE"]
<1> DEFINE e == Entry(t, p, d)
           y == Entry(t, p, junk)
           m == Replaceable(type, q, e, p)
           l == Readable(type, r.queue, y, p)
<1>1. PICK k \in m : /\ \A j \in m : j <= k
                     /\ r = [queue |-> [q EXCEPT ![k].data = e.data], error |-> "NONE"]
  BY DEF Replaces
<1>2. e.data = d /\ e.time = y.time /\ e.period = y.period /\ e.time \in Nat
  <2>1. GetTruncTime(t) \in Nat
    BY TruncBounds
  <2> QED BY <2>1 DEF Entry
<1>3. k \in DOMAIN q /\ m \subseteq DOMAIN q
  BY DEF Replaceable
<1>4. r.queue = [q EXCEPT ![k].data = d]
  BY <1>1, <1>2
<1>5. /\ r.queue \in Seq(EntriesOf(V)) /\ Len(r.queue) = Len(q) /\ DOMAIN r.queue = DOMAIN q
      /\ r.queue[k].data = d
      /\ \A i \in DOMAIN q : r.queue[i].time = q[i].time /\ r.queue[i].period = q[i].period
  BY <1>3, <1>4, ReplaceTags
<1>6. DOMAIN q = 1 .. Len(q) /\ Len(q) \in Nat /\ \A i \in DOMAIN q : q[i].time \in Nat
  <2>1. DOMAIN q = 1 .. Len(q) /\ Len(q) \in Nat /\ \A i \in DOMAIN q : q[i] \in EntriesOf(V)
    BY LenProperties, ElementOfSeq
  <2> QED BY <2>1 DEF EntriesOf
<1>7. k \in l /\ \A j \in l : j <= k
  <2> HIDE DEF e, y
  <2>1. CASE type = "OPEN"
    <3>1. At(e, q[k].time)
      BY <2>1 DEF Replaceable
    <3>2. AtOrAfter(y, r.queue[k].time)
      BY <1>2, <1>3, <1>5, <1>6, <3>1, GridAssumption DEF At, AtOrAfter, Precision
    <3>3. ASSUME NEW j \in l, j > k PROVE FALSE
      <4>1. j \in DOMAIN q /\ AtOrAfter(y, q[j].time)
        BY <1>2, <1>5, <2>1 DEF Readable
      <4>2. Earlier(q[k], q[j])
        BY <1>3, <3>3, <4>1 DEF Ordered
      <4>3. At(e, q[j].time)
        BY <1>2, <1>3, <1>6, <3>1, <4>1, <4>2, GridAssumption DEF At, AtOrAfter, Earlier, Precision
      <4>4. j \in m
        BY <2>1, <4>1, <4>3 DEF Replaceable
      <4> QED BY <1>1, <1>3, <1>6, <3>3, <4>1, <4>4
    <3>4. l \subseteq DOMAIN q
      BY <1>5 DEF Readable
    <3> QED BY <1>3, <1>5, <1>6, <2>1, <3>2, <3>3, <3>4 DEF Readable
  <2>2. CASE type = "DISCRETE"
    <3>1. \A j \in DOMAIN q : /\ Covers(q[j], e.time) = Covers(r.queue[j], y.time)
                              /\ SameRange(q[j], e) = SameRange(r.queue[j], y)
      BY <1>2, <1>5 DEF Covers, SameRange, Finite
    <3>2. l = m
      BY <1>5, <2>2, <3>1 DEF Readable, Replaceable
    <3> QED BY <1>1, <3>2
  <2> QED BY <2>1, <2>2 DEF QueueTypes
<1>8. l \in SUBSET (1 .. Len(q)) /\ l # {}
  BY <1>5, <1>6, <1>7 DEF Readable
<1>9. LastOf(l) = k
  <2> HIDE DEF l
  <2> QED BY <1>6, <1>7, <1>8, LastOfIs
<1> QED BY <1>5, <1>8, <1>9 DEF Get

-----------------------------------------------------------------------------
\* What every write keeps

\* Two queues with the same tags in the same places
SameTags(q, s) ==
    /\ Len(s) = Len(q) /\ DOMAIN s = DOMAIN q
    /\ \A i \in DOMAIN q : s[i].time = q[i].time /\ s[i].period = q[i].period

Stores(s, d) == \E i \in DOMAIN s : s[i].data = d

\* Replacing a datum changes no tag, and the datum is stored.
LEMMA ReplaceLeaves ==
  ASSUME NEW V, NEW type, NEW q \in Seq(EntriesOf(V)), NEW e \in EntriesOf(V), NEW p, NEW r,
         Replaces(type, q, e, p, r)
  PROVE  r.queue \in Seq(EntriesOf(V)) /\ SameTags(q, r.queue) /\ Stores(r.queue, e.data)
<1>1. PICK k \in Replaceable(type, q, e, p) :
             r = [queue |-> [q EXCEPT ![k].data = e.data], error |-> "NONE"]
  BY DEF Replaces
<1>2. k \in DOMAIN q
  BY DEF Replaceable
<1>3. r.queue = [q EXCEPT ![k].data = e.data] /\ e.data \in V
  BY <1>1 DEF EntriesOf
<1> QED BY <1>2, <1>3, ReplaceTags DEF SameTags, Stores

\* Each interval starts where the one before ends.
Linked(q) == \A i \in DOMAIN q : i > 1 => Continuous(q[i - 1], q[i])

LEMMA AcceptLinked ==
  ASSUME NEW V, NEW size \in Nat, NEW q \in Seq(EntriesOf(V)), Ordered(q), Linked(q),
         NEW x \in EntriesOf(V),
         q # <<>> => Earlier(Newest(q), x) /\ Continuous(Newest(q), x)
  PROVE  Linked(Accept(q, x, size).queue)
<1> DEFINE n == IF Len(q) + 1 > size THEN Len(q) + 1 - size ELSE 0
           f == Accept(q, x, size).queue
<1>1. /\ f \in Seq(EntriesOf(V))
      /\ Len(f) = Len(q) + 1 - n
      /\ \A i \in 1 .. Len(q) + 1 - n : f[i] = IF i + n = Len(q) + 1 THEN x ELSE q[i + n]
  BY AcceptNewest
<1>2. Len(q) \in Nat /\ n \in Nat /\ DOMAIN q = 1 .. Len(q)
  BY LenProperties
<1> HIDE DEF f, n
<1>3. DOMAIN f = 1 .. Len(q) + 1 - n
  BY <1>1, LenProperties
<1> SUFFICES ASSUME NEW i \in 1 .. Len(q) + 1 - n, i > 1
             PROVE  Continuous(f[i - 1], f[i])
  BY <1>3 DEF Linked, f
<1>4. i - 1 \in 1 .. Len(q) + 1 - n
  BY <1>2
<1>5. f[i - 1] = q[(i - 1) + n]
  BY <1>1, <1>2, <1>4
<1>6. CASE i + n = Len(q) + 1
  <2>1. f[i] = x /\ (i - 1) + n = Len(q) /\ Len(q) > 0
    BY <1>1, <1>2, <1>6
  <2>2. q # <<>>
    BY <2>1
  <2> QED BY <1>5, <2>1, <2>2 DEF Newest
<1>7. CASE i + n # Len(q) + 1
  <2>1. f[i] = q[i + n]
    BY <1>1, <1>7
  <2>2. i + n \in DOMAIN q /\ i + n > 1 /\ (i - 1) + n = (i + n) - 1
    BY <1>2, <1>7
  <2> QED BY <1>5, <2>1, <2>2 DEF Linked
<1> QED BY <1>6, <1>7

\* A write that restarts leaves its entry, or nothing when there is no room.
LEMMA RestartLeaves ==
  ASSUME NEW V, NEW size \in Nat, NEW q, NEW e \in EntriesOf(V), NEW r, Restarts(size, q, e, r)
  PROVE  /\ r.queue \in Seq(EntriesOf(V))
         /\ Len(r.queue) <= 1
         /\ size > 0 => r.queue = <<e>>
<1> DEFINE s == <<e>>
           n == IF Len(s) > size THEN Len(s) - size ELSE 0
<1>1. s \in Seq(EntriesOf(V)) /\ Len(s) = 1
  OBVIOUS
<1>2. size > 0 => Fit(s, size) = s
  BY <1>1 DEF Fit
<1> HIDE DEF s
<1>3. Fit(s, size) \in Seq(EntriesOf(V)) /\ Len(Fit(s, size)) = Len(s) - n
  BY <1>1, FitNewest
<1>4. Len(Fit(s, size)) <= 1
  BY <1>1, <1>3
<1>5. r.queue = s \/ r.queue = Fit(s, size)
  BY DEF Restarts, s
<1>6. size > 0 => r.queue = s
  BY <1>2, <1>5
<1>7. Len(s) <= 1
  BY <1>1
<1>8. CASE r.queue = s
  BY <1>1, <1>6, <1>7, <1>8 DEF s
<1>9. CASE r.queue = Fit(s, size)
  BY <1>3, <1>4, <1>6, <1>9 DEF s
<1> QED BY <1>5, <1>8, <1>9

\* A write of a discrete queue keeps its intervals linked.
LEMMA WritesLinked ==
  ASSUME NEW V, NEW size \in Nat, NEW q \in Seq(EntriesOf(V)), Ordered(q), Linked(q),
         NEW e \in EntriesOf(V), NEW p, Resolved(p),
         NEW r, Writes(V, "DISCRETE", size, q, e, p, r)
  PROVE  Linked(r.queue)
<1>1. CASE Accepts(V, "DISCRETE", size, q, e, p, r)
  <2>1. PICK x \in EntriesOf(V) : /\ Follows("DISCRETE", q, e, p, x)
                                  /\ r = Accept(q, x, size)
    BY <1>1 DEF Accepts
  <2>2. q # <<>> => Earlier(Newest(q), x) /\ Continuous(Newest(q), x)
    BY <2>1 DEF Follows
  <2> QED BY <2>1, <2>2, AcceptLinked
<1>2. CASE Replaces("DISCRETE", q, e, p, r)
  <2>2. /\ DOMAIN r.queue = DOMAIN q
        /\ \A i \in DOMAIN q : r.queue[i].time = q[i].time /\ r.queue[i].period = q[i].period
    <3>1. SameTags(q, r.queue)
      BY <1>2, ReplaceLeaves
    <3> QED BY <3>1 DEF SameTags
  <2>3. DOMAIN q = 1 .. Len(q) /\ Len(q) \in Nat
    BY LenProperties
  <2>4. ASSUME NEW i \in DOMAIN q, i > 1
        PROVE  Continuous(r.queue[i - 1], r.queue[i])
    <3>1. i - 1 \in DOMAIN q
      BY <2>3, <2>4
    <3>2. Continuous(q[i - 1], q[i])
      BY <2>4 DEF Linked
    <3> QED BY <2>2, <3>1, <3>2 DEF Continuous, Finite
  <2> QED BY <2>2, <2>4 DEF Linked
<1>3. CASE Restarts(size, q, e, r)
  <2>1. r.queue \in Seq(EntriesOf(V)) /\ Len(r.queue) <= 1
    BY <1>3, RestartLeaves
  <2>2. DOMAIN r.queue = 1 .. Len(r.queue) /\ Len(r.queue) \in Nat
    BY <2>1, LenProperties
  <2> QED BY <2>1, <2>2 DEF Linked
<1> QED BY <1>1, <1>2, <1>3 DEF Writes

\* With room for one entry a write never leaves a queue empty.
LEMMA WritesNonEmpty ==
  ASSUME NEW V, NEW size \in Nat, size > 0, NEW type, NEW q \in Seq(EntriesOf(V)), Ordered(q),
         NEW e \in EntriesOf(V), NEW p, NEW r, Writes(V, type, size, q, e, p, r)
  PROVE  r.queue # <<>>
<1>1. CASE Accepts(V, type, size, q, e, p, r)
  <2>1. PICK x \in EntriesOf(V) : r = Accept(q, x, size)
    BY <1>1 DEF Accepts
  <2>2. CASE q = <<>>
    <3> DEFINE n == IF Len(q) + 1 > size THEN Len(q) + 1 - size ELSE 0
    <3>1. Len(r.queue) = Len(q) + 1 - n
      BY <2>1, <2>2, AcceptNewest
    <3>2. Len(q) = 0
      BY <2>2
    <3>3. Len(r.queue) = 1
      BY <3>1, <3>2
    <3>4. <<>> = r.queue => Len(r.queue) = 0
      OBVIOUS
    <3> QED BY <3>3, <3>4
  <2>3. CASE q # <<>>
    <3>1. 1 \in DOMAIN q
      BY <2>3, LenProperties, EmptySeq
    <3>2. (\E j \in DOMAIN r.queue : r.queue[j] = q[1]) \/ Len(r.queue) = size
      BY <2>1, <3>1, AcceptKeeps
    <3> QED BY <3>2
  <2> QED BY <2>2, <2>3
<1>2. CASE Replaces(type, q, e, p, r)
  <2>1. Stores(r.queue, e.data)
    BY <1>2, ReplaceLeaves
  <2> QED BY <2>1 DEF Stores
<1>3. CASE Restarts(size, q, e, r)
  <2>1. r.queue = <<e>>
    BY <1>3, RestartLeaves
  <2>2. <<e>> # <<>>
    OBVIOUS
  <2> QED BY <2>1, <2>2
<1> QED BY <1>1, <1>2, <1>3 DEF Writes

\* With room for one entry, and a period the precision resolves, a write stores
\* its datum.
LEMMA WritesStored ==
  ASSUME NEW V, NEW size \in Nat, size > 0, NEW type, NEW q \in Seq(EntriesOf(V)), Ordered(q),
         NEW e \in EntriesOf(V), NEW p, Resolved(p), NEW r, Writes(V, type, size, q, e, p, r)
  PROVE  Stores(r.queue, e.data)
<1>1. CASE Accepts(V, type, size, q, e, p, r)
  <2> DEFINE n == IF Len(q) + 1 > size THEN Len(q) + 1 - size ELSE 0
             k == Len(r.queue)
  <2>1. PICK x \in EntriesOf(V) : Follows(type, q, e, p, x) /\ r = Accept(q, x, size)
    BY <1>1 DEF Accepts
  <2>2. q # <<>> => Earlier(Newest(q), x)
    BY <2>1 DEF Follows
  <2>3. /\ r.queue \in Seq(EntriesOf(V))
        /\ Len(r.queue) = Len(q) + 1 - n
        /\ \A i \in 1 .. Len(q) + 1 - n :
             r.queue[i] = IF i + n = Len(q) + 1 THEN x ELSE q[i + n]
    BY <2>1, <2>2, AcceptNewest
  <2>4. Len(q) \in Nat /\ n \in 0 .. Len(q)
    BY LenProperties
  <2> HIDE DEF n
  <2>5. k \in 1 .. Len(q) + 1 - n /\ k + n = Len(q) + 1
    BY <2>3, <2>4
  <2>6. r.queue[k] = x
    BY <2>3, <2>5
  <2>7. DOMAIN r.queue = 1 .. k /\ k \in DOMAIN r.queue
    BY <2>3, <2>4, <2>5, LenProperties
  <2> QED BY <2>1, <2>6, <2>7 DEF Follows, Stores
<1>2. CASE Replaces(type, q, e, p, r)
  BY <1>2, ReplaceLeaves
<1>3. CASE Restarts(size, q, e, r)
  <2>1. r.queue = <<e>>
    BY <1>3, RestartLeaves
  <2>2. 1 \in DOMAIN <<e>> /\ <<e>>[1] = e
    OBVIOUS
  <2> QED BY <2>1, <2>2 DEF Stores
<1> QED BY <1>1, <1>2, <1>3 DEF Writes

=============================================================================
