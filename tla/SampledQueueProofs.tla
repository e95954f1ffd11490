------------------------- MODULE SampledQueueProofs -------------------------
(***************************************************************************)
(* SampledQueue implements SampledSignal, for every grid, sampling period, *)
(* size of the queue, number of samples and error of the callers' clocks   *)
(* that SamplingAssumption allows.                                         *)
(*                                                                         *)
(* The inductive invariant ties the entry of a sample to its point on the  *)
(* time line: its tag is on the grid and within a grid unit and the error  *)
(* of the clock.  That it is on the grid matters: the intervals of two     *)
(* samples can be further than a precision apart by their errors alone,    *)
(* and only the grid rounds the distance down again.                       *)
(***************************************************************************)
EXTENDS SampledQueue, DataQueueLemmas

Point(n) == n * Step

OnGrid(x) == \E k \in Int : x = Grid * k

\* The truncation and the clock move a tag at most this far from what it means
Near(x, y) == x - y > -Grid - Jitter /\ x - y <= Jitter

\* The entry of sample n
Tagged(x, n) ==
    /\ OnGrid(x.time) /\ Near(x.time, Point(n))
    /\ IF n = 0 THEN x.period = Infinite
                ELSE x.period \in Nat /\ OnGrid(x.period) /\ Near(x.period, Step)

\* A tag that names sample n
Asks(e, p, n) ==
    \/ /\ n > 0 /\ p # Unspecified
       /\ e.period \in Nat /\ Near(e.time, Point(n)) /\ Near(e.period, Step)
    \/ n = 0 /\ p = Unspecified /\ e.time = 0
    \/ /\ n > 0 /\ p = Unspecified
       /\ OnGrid(e.time)
       /\ e.time > Point(n) - Step + 3 * Grid /\ e.time <= Point(n) + Jitter

\* The queue holds the last samples up to sample last
Holds(q, last) ==
    /\ q \in Seq(EntriesOf(Values)) /\ q # <<>> /\ Len(q) <= last + 1
    /\ \A i \in DOMAIN q : Tagged(q[i], last - Len(q) + i)

-----------------------------------------------------------------------------
\* Arithmetic of the time line

LEMMA Sizes ==
  /\ Grid \in Nat /\ Grid > 0 /\ Jitter \in Nat /\ Step \in Nat
  /\ 3 * Jitter < Grid /\ Step >= 6 * Grid
  /\ Size \in Nat /\ Size > 0 /\ MaxSamples \in Nat /\ Default \in Values
  /\ Precision = 2 * Grid
BY GridAssumption, SamplingAssumption DEF Precision

\* Sampling points are a step apart.
LEMMA Points ==
  /\ \A n \in Nat : Point(n) \in Nat /\ Point(n + 1) = Point(n) + Step
  /\ \A m, n \in Nat : m < n => Point(m) + Step <= Point(n)
  /\ Point(0) = 0
<1>0. Step \in Nat
  BY Sizes
<1>1. ASSUME NEW n \in Nat PROVE Point(n) \in Nat /\ Point(n + 1) = Point(n) + Step
  BY <1>0 DEF Point
<1>2. ASSUME NEW m \in Nat, NEW n \in Nat, m < n PROVE Point(m) + Step <= Point(n)
  <2> DEFINE k == n - (m + 1)
  <2>1. k \in Nat /\ n = m + 1 + k
    BY <1>2
  <2> HIDE DEF k
  <2>2. n * Step = m * Step + Step + k * Step
    BY <1>0, <2>1
  <2>3. k * Step \in Nat /\ m * Step \in Nat
    BY <1>0, <2>1
  <2> QED BY <1>0, <2>2, <2>3 DEF Point
<1>3. Point(0) = 0
  BY <1>0 DEF Point
<1> QED BY <1>1, <1>2, <1>3

\* A distance on the grid that exceeds k grid units exceeds it by one at least.
LEMMA GridStep ==
  ASSUME NEW x \in Int, OnGrid(x), NEW k \in Int, x > Grid * k
  PROVE  x >= Grid * k + Grid
<1>0. Grid \in Int /\ Grid > 0
  BY Sizes
<1>1. PICK j \in Int : x = Grid * j
  BY DEF OnGrid
<1>2. j > k
  <2> SUFFICES ASSUME j <= k PROVE FALSE
    BY <1>1
  <2> DEFINE d == k - j
  <2>1. d \in Nat /\ k = j + d
    OBVIOUS
  <2> HIDE DEF d
  <2>2. Grid * k = Grid * j + Grid * d /\ Grid * d \in Nat /\ Grid * j \in Int
    BY <1>0, <2>1
  <2> QED BY <1>1, <2>2
<1> DEFINE d == j - (k + 1)
<1>3. d \in Nat /\ j = k + 1 + d
  BY <1>2
<1> HIDE DEF d
<1>4. Grid * j = Grid * k + Grid + Grid * d /\ Grid * d \in Nat /\ Grid * k \in Int
  BY <1>0, <1>3
<1> QED BY <1>0, <1>1, <1>4

\* Differences of grid points are on the grid.
LEMMA GridDifference ==
  ASSUME NEW x \in Int, OnGrid(x), NEW y \in Int, OnGrid(y)
  PROVE  OnGrid(x - y)
<1>0. Grid \in Int
  BY Sizes
<1>1. PICK j \in Int, k \in Int : x = Grid * j /\ y = Grid * k
  BY DEF OnGrid
<1>2. x - y = Grid * (j - k) /\ j - k \in Int
  BY <1>0, <1>1
<1> QED BY <1>2 DEF OnGrid

\* The distance from the end of one interval to the start of another is more
\* than two grid units back, or at least two forward, as soon as it is more than
\* three back or one forward.
LEMMA GridGap ==
  ASSUME NEW x \in Int, OnGrid(x), NEW y \in Int, OnGrid(y), NEW p \in Int, OnGrid(p)
  PROVE  /\ x - (y - p) > -3 * Grid => x - (y - p) >= -2 * Grid
         /\ x - (y - p) > Grid => x - (y - p) >= 2 * Grid
<1> DEFINE d == x - (y - p)
<1>0. Grid \in Int /\ d \in Int
  BY Sizes
<1>1. OnGrid(d)
  BY GridDifference
<1> HIDE DEF d
<1>2. d > Grid * (-3) => d >= Grid * (-3) + Grid
  BY <1>0, <1>1, GridStep
<1>3. d > Grid * 1 => d >= Grid * 1 + Grid
  BY <1>0, <1>1, GridStep
<1>4. (d > -3 * Grid => d >= -2 * Grid) /\ (d > Grid => d >= 2 * Grid)
  BY <1>0, <1>2, <1>3
<1> QED BY <1>4 DEF d

\* Truncating what a clock computed for a point stays near it.
LEMMA TruncNear ==
  ASSUME NEW t \in Nat, NEW y \in Int, t - y \in -Jitter .. Jitter
  PROVE  GetTruncTime(t) \in Nat /\ OnGrid(GetTruncTime(t)) /\ Near(GetTruncTime(t), y)
<1>1. /\ GetTruncTime(t) \in Nat /\ GetTruncTime(t) <= t /\ t < GetTruncTime(t) + Grid
      /\ \E k \in Nat : GetTruncTime(t) = Grid * k
  BY TruncBounds
<1>2. OnGrid(GetTruncTime(t))
  BY <1>1 DEF OnGrid
<1>3. Near(GetTruncTime(t), y)
  <2> DEFINE g == GetTruncTime(t)
  <2>1. g \in Nat /\ g <= t /\ t < g + Grid
    BY <1>1
  <2> HIDE DEF g
  <2>2. Near(g, y)
    BY <2>1, Sizes DEF Near
  <2> QED BY <2>2 DEF g
<1> QED BY <1>1, <1>2, <1>3

\* The tag a caller passes for a sample names it, and the entry it makes is the
\* entry of that sample.
LEMMA CallerTag ==
  ASSUME NEW n \in Nat, NEW t \in TimesOf(n), NEW p \in PeriodsOf(n), NEW d \in Values
  PROVE  /\ t \in Nat /\ p \in Nat /\ (n > 0 => p # Unspecified)
         /\ Entry(t, p, d) \in EntriesOf(Values)
         /\ Asks(Entry(t, p, d), p, n)
         /\ n > 0 => Tagged(Entry(t, p, d), n)
<1> DEFINE e == Entry(t, p, d)
<1>0. Point(n) \in Nat
  BY Points
<1>1. t \in Nat /\ t - Point(n) \in -Jitter .. Jitter
  BY <1>0, Sizes DEF TimesOf, Wobble, Point
<1>2. p \in Nat /\ (n > 0 => p # Unspecified /\ p - Step \in -Jitter .. Jitter)
  BY Sizes DEF PeriodsOf, Wobble, Unspecified
<1>3. e.time \in Nat /\ OnGrid(e.time) /\ Near(e.time, Point(n))
  BY <1>0, <1>1, TruncNear, EntryTag
<1>4. n > 0 => e.period \in Nat /\ OnGrid(e.period) /\ Near(e.period, Step)
  BY <1>2, Sizes, TruncNear, EntryTag
<1>5. e \in EntriesOf(Values)
  BY <1>1, <1>2, EntryType DEF Tags
<1>6. n = 0 => p = Unspecified /\ e.time = 0
  <2> SUFFICES ASSUME n = 0 PROVE p = Unspecified /\ e.time = 0
    OBVIOUS
  <2> DEFINE x == e.time
  <2>1. x \in Nat /\ OnGrid(x) /\ Near(x, 0)
    BY <1>3, Points
  <2> HIDE DEF x
  <2>2. x > Grid * 0 => x >= Grid * 0 + Grid
    BY <2>1, GridStep
  <2>3. x = 0
    BY <2>1, <2>2, Sizes DEF Near
  <2> QED BY <2>3 DEF PeriodsOf, x
<1> HIDE DEF e
<1>7. Asks(e, p, n)
  BY <1>2, <1>3, <1>4, <1>6 DEF Asks
<1>8. n > 0 => Tagged(e, n)
  BY <1>3, <1>4 DEF Tagged
<1> QED BY <1>1, <1>2, <1>5, <1>7, <1>8 DEF e

-----------------------------------------------------------------------------
\* Which entry a tag matches

Matches(x, e, p) == IF p = Unspecified THEN Covers(x, e.time) ELSE SameRange(x, e)

\* A tag that names sample n matches the entry of sample n and no other.
LEMMA MatchOne ==
  ASSUME NEW m \in Nat, NEW n \in Nat, NEW x, x.time \in Int, Tagged(x, m),
         NEW e, e.time \in Int, NEW p, Asks(e, p, n)
  PROVE  Matches(x, e, p) <=> m = n
<1> DEFINE xt == x.time   xp == x.period   et == e.time   ep == e.period
           pm == Point(m)   pn == Point(n)
<1>0. /\ pm \in Nat /\ pn \in Nat
      /\ (m < n => pm + Step <= pn) /\ (n < m => pn + Step <= pm)
      /\ (m = n => pm = pn) /\ (n = 0 => pn = 0) /\ (m = 0 => pm = 0)
  BY Points
<1>1. /\ xt \in Int /\ OnGrid(xt) /\ xt - pm > -Grid - Jitter /\ xt - pm <= Jitter
      /\ m = 0 => xp = Infinite
      /\ m # 0 => /\ xp \in Nat /\ OnGrid(xp)
                  /\ xp - Step > -Grid - Jitter /\ xp - Step <= Jitter
  BY DEF Tagged, Near
<1>2. CASE n > 0 /\ p # Unspecified /\ ep \in Nat /\ Near(et, pn) /\ Near(ep, Step)
  <2>1. Matches(x, e, p) <=> /\ xp # Infinite /\ ep # Infinite
                             /\ xt - et \in -Precision .. Precision
                             /\ xp - ep \in -Precision .. Precision
    BY <1>2 DEF Matches, SameRange, Finite
  <2>2. et \in Int /\ et - pn > -Grid - Jitter /\ et - pn <= Jitter
        /\ ep \in Nat /\ ep - Step > -Grid - Jitter /\ ep - Step <= Jitter
    BY <1>2 DEF Near
  <2> HIDE DEF xt, xp, et, ep, pm, pn
  <2>3. CASE m = n
    <3>1. xt - et \in -Precision .. Precision
      BY <1>0, <1>1, <2>2, <2>3, Sizes
    <3>2. xp \in Nat /\ xp - ep \in -Precision .. Precision
      BY <1>1, <1>2, <2>2, <2>3, Sizes
    <3> QED BY <2>1, <2>2, <2>3, <3>1, <3>2 DEF Infinite
  <2>4. CASE m < n
    <3>1. et - xt > 2 * Grid
      BY <1>0, <1>1, <2>2, <2>4, Sizes
    <3> QED BY <1>1, <2>1, <2>2, <2>4, <3>1, Sizes
  <2>5. CASE n < m
    <3>1. xt - et > 2 * Grid
      BY <1>0, <1>1, <2>2, <2>5, Sizes
    <3> QED BY <1>1, <2>1, <2>2, <2>5, <3>1, Sizes
  <2> QED BY <2>3, <2>4, <2>5
<1>3. CASE p = Unspecified
  <2>1. Matches(x, e, p) <=> /\ xp # Infinite => et - (xt - xp) >= Precision
                             /\ et - xt <= Precision
    BY <1>3 DEF Matches, Covers, Finite
  <2>2. CASE n = 0 /\ et = 0
    <3> HIDE DEF xt, xp, et, ep, pm, pn
    <3>1. CASE m = 0
      BY <1>0, <1>1, <2>1, <2>2, <3>1, Sizes
    <3>2. CASE m > 0
      <4>1. xt >= Step - Grid - Jitter + 1 + (pm - Step) /\ pm >= Step
        BY <1>0, <1>1, <2>2, <3>2, Sizes
      <4>2. xp \in Nat /\ xp <= Step + Jitter
        BY <1>1, <3>2, Sizes
      <4>3. et - (xt - xp) < Precision
        BY <1>0, <1>1, <2>2, <4>1, <4>2, Sizes
      <4>4. xp # Infinite
        BY <4>2 DEF Infinite
      <4>5. Precision \in Int /\ et - (xt - xp) \in Int
        BY <1>1, <2>2, <4>2, Sizes
      <4> QED BY <2>1, <2>2, <3>2, <4>3, <4>4, <4>5
    <3> QED BY <3>1, <3>2
  <2>3. CASE n > 0 /\ OnGrid(et) /\ et > pn - Step + 3 * Grid /\ et <= pn + Jitter
    <3>0. et \in Int
      OBVIOUS
    <3> HIDE DEF xt, xp, et, ep, pm, pn
    <3>1. CASE m = n
      <4>1. xp \in Nat /\ OnGrid(xp) /\ xp - Step > -Grid - Jitter
        BY <1>1, <2>3, <3>1
      <4>2. et - (xt - xp) > Grid
        BY <1>0, <1>1, <2>3, <3>0, <3>1, <4>1, Sizes
      <4>3. et - (xt - xp) >= 2 * Grid
        BY <1>1, <2>3, <3>0, <4>1, <4>2, GridGap
      <4>4. et - xt <= Precision
        BY <1>0, <1>1, <2>3, <3>0, <3>1, Sizes
      <4> QED BY <2>1, <3>1, <4>3, <4>4, Sizes
    <3>2. CASE m < n
      <4>1. et - xt > Precision
        BY <1>0, <1>1, <2>3, <3>0, <3>2, Sizes
      <4> QED BY <1>1, <2>1, <3>0, <3>2, <4>1, Sizes
    <3>3. CASE n < m
      <4>1. xp \in Nat /\ xp <= Step + Jitter
        BY <1>1, <3>3, Sizes
      <4>2. et - (xt - xp) < Precision
        BY <1>0, <1>1, <2>3, <3>0, <3>3, <4>1, Sizes
      <4>3. xp # Infinite
        BY <4>1 DEF Infinite
      <4> QED BY <1>1, <2>1, <3>0, <3>3, <4>1, <4>2, <4>3, Sizes
    <3> QED BY <3>1, <3>2, <3>3
  <2> QED BY <1>3, <2>2, <2>3 DEF Asks
<1> QED BY <1>2, <1>3 DEF Asks

\* A read or an overwrite of a sample in the queue finds its entry.
LEMMA FindsSample ==
  ASSUME NEW last \in Nat, NEW q, Holds(q, last), NEW k \in DOMAIN q,
         NEW e, e.time \in Int, NEW p, Asks(e, p, last - Len(q) + k)
  PROVE  Readable("DISCRETE", q, e, p) = {k} /\ Replaceable("DISCRETE", q, e, p) = {k}
<1>1. /\ DOMAIN q = 1 .. Len(q) /\ Len(q) \in Nat /\ Len(q) <= last + 1
      /\ \A i \in DOMAIN q : q[i] \in EntriesOf(Values) /\ Tagged(q[i], last - Len(q) + i)
  BY LenProperties, ElementOfSeq DEF Holds
<1>2. ASSUME NEW i \in DOMAIN q PROVE Matches(q[i], e, p) <=> i = k
  <2> DEFINE m == last - Len(q) + i
             n == last - Len(q) + k
  <2>1. m \in Nat /\ n \in Nat /\ (m = n <=> i = k)
    BY <1>1
  <2>2. Tagged(q[i], m) /\ Asks(e, p, n) /\ q[i].time \in Int
    BY <1>1 DEF EntriesOf
  <2> HIDE DEF m, n
  <2>3. Matches(q[i], e, p) <=> m = n
    BY <2>1, <2>2, MatchOne
  <2> QED BY <2>1, <2>3
<1>3. /\ Readable("DISCRETE", q, e, p) = {i \in DOMAIN q : Matches(q[i], e, p)}
      /\ Replaceable("DISCRETE", q, e, p) = {i \in DOMAIN q : Matches(q[i], e, p)}
  BY DEF Readable, Replaceable, Matches
<1> QED BY <1>2, <1>3

LEMMA LastOfOne ==
  ASSUME NEW k \in Nat \ {0}
  PROVE  LastOf({k}) = k
<1>1. {k} \in SUBSET (1 .. k) /\ k \in {k} /\ \A j \in {k} : j <= k
  OBVIOUS
<1> QED BY <1>1, LastOfIs

\* A read of a sample in the queue returns its datum, without an error.
LEMMA PullsSample ==
  ASSUME NEW last \in Nat, NEW q, Holds(q, last), NEW k \in DOMAIN q,
         NEW t \in Nat, NEW p \in Nat, NEW noData \in Values,
         Asks(Entry(t, p, noData), p, last - Len(q) + k)
  PROVE  Pulled(q, t, p, noData) = q[k].data
<1> DEFINE e == Entry(t, p, noData)
<1>1. e.time \in Int
  <2>1. GetTruncTime(t) \in Nat
    BY TruncBounds
  <2> QED BY <2>1 DEF Entry
<1>2. Readable("DISCRETE", q, e, p) = {k}
  BY <1>1, FindsSample
<1>3. k \in Nat \ {0}
  BY LenProperties DEF Holds
<1>4. LastOf({k}) = k
  BY <1>3, LastOfOne
<1>5. Get("DISCRETE", q, t, p, noData) = [data |-> q[k].data, error |-> "NONE"]
  BY <1>2, <1>4 DEF Get
<1> QED BY <1>5 DEF Pulled, Checked

-----------------------------------------------------------------------------
\* Taking a sample

DataOf(q) == [i \in DOMAIN q |-> q[i].data]

\* The queue is as long as the window.
Filled(q, last) == Len(q) = IF last < Size THEN last + 1 ELSE Size

\* Entries of different samples are different keys, in order.
LEMMA HoldsOrdered ==
  ASSUME NEW last \in Nat, NEW q, Holds(q, last)
  PROVE  Ordered(q)
<1>1. /\ DOMAIN q = 1 .. Len(q) /\ Len(q) \in Nat /\ Len(q) <= last + 1
      /\ \A i \in DOMAIN q : q[i] \in EntriesOf(Values) /\ Tagged(q[i], last - Len(q) + i)
  BY LenProperties, ElementOfSeq DEF Holds
<1> SUFFICES ASSUME NEW i \in DOMAIN q, NEW j \in DOMAIN q, i < j
             PROVE  Earlier(q[i], q[j])
  BY DEF Ordered
<1> DEFINE m == last - Len(q) + i
           n == last - Len(q) + j
<1>2. m \in Nat /\ n \in Nat /\ m < n
  BY <1>1
<1>3. Tagged(q[i], m) /\ Tagged(q[j], n) /\ q[i].time \in Int /\ q[j].time \in Int
  BY <1>1 DEF EntriesOf
<1> HIDE DEF m, n
<1>4. Point(m) \in Nat /\ Point(n) \in Nat /\ Point(m) + Step <= Point(n)
  BY <1>2, Points
<1>5. Near(q[i].time, Point(m)) /\ Near(q[j].time, Point(n))
  BY <1>3 DEF Tagged
<1> QED BY <1>3, <1>4, <1>5, Sizes DEF Near, Earlier

\* The next sample starts where the newest one ends.
LEMMA NextFollows ==
  ASSUME NEW last \in Nat, NEW x \in EntriesOf(Values), Tagged(x, last),
         NEW e \in EntriesOf(Values), Tagged(e, last + 1)
  PROVE  Continuous(x, e) /\ Earlier(x, e)
<1> DEFINE xt == x.time   et == e.time   ep == e.period   pt == Point(last)
<1>1. pt \in Nat /\ Point(last + 1) = pt + Step
  BY Points
<1>2. /\ xt \in Int /\ OnGrid(xt) /\ xt - pt > -Grid - Jitter /\ xt - pt <= Jitter
      /\ et \in Int /\ OnGrid(et)
      /\ et - (pt + Step) > -Grid - Jitter /\ et - (pt + Step) <= Jitter
      /\ ep \in Nat /\ OnGrid(ep) /\ ep - Step > -Grid - Jitter /\ ep - Step <= Jitter
  BY <1>1 DEF Tagged, Near, EntriesOf
<1> HIDE DEF xt, et, ep, pt
<1>3. et - xt >= Precision
  BY <1>1, <1>2, Sizes
<1>4. xt - (et - ep) >= -2 * Grid
  <2>1. xt - (et - ep) > -3 * Grid
    BY <1>1, <1>2, Sizes
  <2> QED BY <1>2, <2>1, GridGap
<1>5. xt - (et - ep) <= 2 * Grid
  BY <1>1, <1>2, Sizes
<1>6. xt - (et - ep) \in -Precision .. Precision
  BY <1>1, <1>2, <1>4, <1>5, Sizes
<1> QED BY <1>2, <1>3, <1>6 DEF Continuous, Earlier, Finite, Infinite, xt, et, ep

\* The first sample is accepted with the period of the creation, and so is every
\* next one: nothing is flushed.
LEMMA TakesSample ==
  ASSUME NEW last \in Nat, NEW q, Holds(q, last),
         NEW t \in TimesOf(last + 1), NEW p \in PeriodsOf(last + 1), NEW d \in Values
  PROVE  LET e == Entry(t, p, d) IN
         /\ e \in EntriesOf(Values) /\ Tagged(e, last + 1) /\ e.data = d
         /\ Earlier(Newest(q), e)
         /\ PushBack("DISCRETE", Size, q, t, p, d) = Accept(q, e, Size)
<1> DEFINE e == Entry(t, p, d)
<1>1. last + 1 \in Nat /\ last + 1 > 0
  OBVIOUS
<1>2. /\ p # Unspecified
      /\ e \in EntriesOf(Values) /\ Tagged(e, last + 1)
  BY <1>1, CallerTag
<1>3. e.data = d
  BY EntryTag
<1> HIDE DEF e
<1>4. /\ q \in Seq(EntriesOf(Values)) /\ q # <<>> /\ Len(q) \in DOMAIN q
      /\ last - Len(q) + Len(q) = last
  <2>1. q \in Seq(EntriesOf(Values)) /\ q # <<>>
    BY DEF Holds
  <2>2. DOMAIN q = 1 .. Len(q) /\ Len(q) \in Nat /\ Len(q) > 0
    BY <2>1, LenProperties, EmptySeq
  <2> QED BY <2>1, <2>2
<1>5. Newest(q) \in EntriesOf(Values)
  BY <1>4, NewestType
<1>6. Tagged(Newest(q), last)
  BY <1>4 DEF Holds, Newest
<1>7. Continuous(Newest(q), e) /\ Earlier(Newest(q), e)
  BY <1>2, <1>5, <1>6, NextFollows
<1>8. PushBack("DISCRETE", Size, q, t, p, d) = Accept(q, e, Size)
  BY <1>2, <1>7 DEF PushBack, WriteSpecified, e
<1> QED BY <1>2, <1>3, <1>7, <1>8 DEF e

\* The window moves by one sample, and the oldest one leaves when it is full.
LEMMA MovesWindow ==
  ASSUME NEW last \in Nat, NEW q, Holds(q, last), Filled(q, last),
         NEW e \in EntriesOf(Values), Tagged(e, last + 1), Earlier(Newest(q), e)
  PROVE  LET r == Accept(q, e, Size)
             n == IF Len(q) = Size THEN 1 ELSE 0
         IN  /\ r.error = "NONE"
             /\ Holds(r.queue, last + 1) /\ Filled(r.queue, last + 1)
             /\ Len(r.queue) = Len(q) + 1 - n
             /\ \A i \in DOMAIN r.queue :
                  r.queue[i] = IF i = Len(r.queue) THEN e ELSE q[i + n]
<1> DEFINE s == Accept(q, e, Size).queue
           n == IF Len(q) = Size THEN 1 ELSE 0
           m == IF Len(q) + 1 > Size THEN Len(q) + 1 - Size ELSE 0
<1>a. q \in Seq(EntriesOf(Values)) /\ Ordered(q) /\ Size \in Nat
  BY HoldsOrdered, Sizes DEF Holds
<1>b. \A i \in DOMAIN q : Tagged(q[i], last - Len(q) + i)
  BY DEF Holds
<1>0. /\ DOMAIN q = 1 .. Len(q) /\ Len(q) \in Nat /\ Len(q) <= last + 1
  BY <1>a, LenProperties DEF Holds
<1>f. Len(q) = IF last < Size THEN last + 1 ELSE Size
  BY DEF Filled
<1>1. /\ Accept(q, e, Size).error = "NONE"
      /\ s \in Seq(EntriesOf(Values))
      /\ Len(s) = Len(q) + 1 - m
      /\ \A i \in 1 .. Len(q) + 1 - m : s[i] = IF i + m = Len(q) + 1 THEN e ELSE q[i + m]
  BY <1>a, AcceptNewest
<1>2. m = n
  BY <1>0, <1>f, Sizes
<1> HIDE DEF s, m
<1>3. n \in Nat /\ n <= 1 /\ Len(q) + 1 - n > 0 /\ (n = 1 <=> last + 1 >= Size)
  BY <1>0, <1>f, Sizes
<1> HIDE DEF n
<1>4. Len(s) = Len(q) + 1 - n /\ DOMAIN s = 1 .. Len(s)
  BY <1>1, <1>2, LenProperties
<1>c. Len(s) \in Nat /\ n \in Nat /\ Len(s) > 0
  BY <1>0, <1>3, <1>4
<1>5. ASSUME NEW i \in DOMAIN s
      PROVE  s[i] = IF i = Len(s) THEN e ELSE q[i + n]
  <2>1. i \in 1 .. Len(q) + 1 - m /\ (i + m = Len(q) + 1 <=> i = Len(s))
    BY <1>0, <1>2, <1>3, <1>4
  <2>2. s[i] = IF i + m = Len(q) + 1 THEN e ELSE q[i + m]
    BY <1>1, <2>1
  <2> QED BY <1>2, <2>1, <2>2
<1>6. ASSUME NEW i \in DOMAIN s
      PROVE  Tagged(s[i], (last + 1) - Len(s) + i)
  <2>1. CASE i = Len(s)
    <3>1. (last + 1) - Len(s) + i = last + 1
      BY <1>c, <2>1
    <3> QED BY <1>5, <2>1, <3>1
  <2>2. CASE i # Len(s)
    <3>0. i \in Nat /\ i < Len(s) /\ i >= 1
      BY <1>c, <1>4, <2>2
    <3>1. i + n \in DOMAIN q /\ (last + 1) - Len(s) + i = last - Len(q) + (i + n)
      <4>1. i + n \in 1 .. Len(q)
        BY <1>0, <1>c, <1>4, <3>0
      <4>2. (last + 1) - Len(s) + i = last - Len(q) + (i + n)
        BY <1>0, <1>c, <1>4, <3>0
      <4> QED BY <1>0, <4>1, <4>2
    <3> QED BY <1>b, <1>5, <2>2, <3>1
  <2> QED BY <2>1, <2>2
<1>7. s # <<>> /\ Len(s) <= (last + 1) + 1
  <2>1. Len(s) > 0 /\ Len(s) <= (last + 1) + 1
    BY <1>0, <1>c, <1>4
  <2>2. <<>> = s => Len(s) = 0
    OBVIOUS
  <2> QED BY <2>1, <2>2
<1>8. Filled(s, last + 1)
  BY <1>0, <1>3, <1>4, <1>f, Sizes DEF Filled, n
<1> QED BY <1>1, <1>4, <1>5, <1>6, <1>7, <1>8 DEF Holds, s, n

\* The data of a queue form a sequence.
LEMMA DataSeq ==
  ASSUME NEW q \in Seq(EntriesOf(Values))
  PROVE  /\ DataOf(q) \in Seq(Values) /\ Len(DataOf(q)) = Len(q)
         /\ DOMAIN DataOf(q) = DOMAIN q
         /\ \A i \in DOMAIN q : DataOf(q)[i] = q[i].data /\ q[i].data \in Values
<1>1. DOMAIN q = 1 .. Len(q) /\ Len(q) \in Nat /\ \A i \in DOMAIN q : q[i] \in EntriesOf(Values)
  BY LenProperties, ElementOfSeq
<1>2. \A i \in DOMAIN q : q[i].data \in Values
  BY <1>1 DEF EntriesOf
<1>3. DataOf(q) \in [1 .. Len(q) -> Values]
  BY <1>1, <1>2 DEF DataOf
<1>4. DataOf(q) \in Seq(Values) /\ Len(DataOf(q)) = Len(q)
  BY <1>1, <1>3
<1> QED BY <1>1, <1>2, <1>4 DEF DataOf

\* The window of data moves as the abstract one does.
LEMMA MovesData ==
  ASSUME NEW last \in Nat, NEW q, Holds(q, last), Filled(q, last),
         NEW e \in EntriesOf(Values), Tagged(e, last + 1), Earlier(Newest(q), e)
  PROVE  DataOf(Accept(q, e, Size).queue) = Signal!Latest(Append(DataOf(q), e.data))
<1> DEFINE s == Accept(q, e, Size).queue
           n == IF Len(q) = Size THEN 1 ELSE 0
           w == DataOf(q)
           v == Append(w, e.data)
           u == Signal!Latest(v)
<1>1. /\ s \in Seq(EntriesOf(Values)) /\ Len(s) = Len(q) + 1 - n
      /\ \A i \in DOMAIN s : s[i] = IF i = Len(s) THEN e ELSE q[i + n]
  <2>1. /\ Holds(s, last + 1) /\ Len(s) = Len(q) + 1 - n
        /\ \A i \in DOMAIN s : s[i] = IF i = Len(s) THEN e ELSE q[i + n]
    BY MovesWindow
  <2> HIDE DEF s, n
  <2> QED BY <2>1 DEF Holds
<1>0. Size \in Nat /\ Size > 0
  BY Sizes
<1>2. q \in Seq(EntriesOf(Values)) /\ Len(q) \in Nat /\ DOMAIN q = 1 .. Len(q) /\ Len(q) <= Size
  BY LenProperties, Sizes DEF Holds, Filled
<1>3. e.data \in Values
  BY DEF EntriesOf
<1>4. /\ w \in Seq(Values) /\ Len(w) = Len(q)
      /\ \A i \in DOMAIN q : w[i] = q[i].data
  BY <1>2, DataSeq
<1> HIDE DEF s, w
<1>5. /\ v \in Seq(Values) /\ Len(v) = Len(q) + 1
      /\ \A i \in 1 .. Len(q) : v[i] = q[i].data
      /\ v[Len(q) + 1] = e.data
  BY <1>2, <1>3, <1>4
<1> HIDE DEF v
<1>6. /\ u \in Seq(Values) /\ Len(u) = Len(q) + 1 - n
      /\ \A i \in 1 .. Len(u) : u[i] = v[i + n]
  <2>1. CASE Len(q) = Size
    <3>1. u = Tail(v)
      BY <1>2, <1>5, <2>1, Sizes DEF Signal!Latest
    <3>2. v # <<>>
      <4>1. v = <<>> => Len(v) = 0
        OBVIOUS
      <4> QED BY <1>2, <1>5, <4>1
    <3>3. /\ Tail(v) \in Seq(Values) /\ Len(Tail(v)) = Len(v) - 1
          /\ \A i \in 1 .. Len(Tail(v)) : Tail(v)[i] = v[i + 1]
      BY <1>5, <3>2, HeadTailProperties
    <3> HIDE DEF u
    <3> QED BY <1>2, <1>5, <2>1, <3>1, <3>3
  <2>2. CASE Len(q) # Size
    <3>0. ~ (Len(v) > Size)
      <4>1. Len(q) \in Nat /\ Len(q) <= Size
        BY <1>2
      <4>2. Len(v) = Len(q) + 1
        BY <1>5
      <4> QED BY <1>0, <2>2, <4>1, <4>2
    <3>1. u = v
      BY <3>0 DEF Signal!Latest
    <3>2. \A i \in 1 .. Len(v) : v[i] = v[i + 0]
      BY <1>2, <1>5
    <3> HIDE DEF u
    <3> QED BY <1>2, <1>5, <2>2, <3>1, <3>2
  <2> QED BY <2>1, <2>2
<1>7. n \in Nat /\ n <= 1
  OBVIOUS
<1> HIDE DEF u, n
<1>8. /\ DataOf(s) \in Seq(Values) /\ Len(DataOf(s)) = Len(s) /\ DOMAIN s = 1 .. Len(s)
      /\ \A i \in DOMAIN s : DataOf(s)[i] = s[i].data
  BY <1>1, DataSeq, LenProperties
<1>9. ASSUME NEW i \in 1 .. Len(s) PROVE DataOf(s)[i] = u[i]
  <2>1. u[i] = v[i + n]
    BY <1>1, <1>6
  <2>2. CASE i = Len(s)
    <3>1. i + n = Len(q) + 1
      BY <1>1, <1>2, <1>7, <2>2
    <3> QED BY <1>1, <1>5, <1>8, <2>1, <2>2, <3>1
  <2>3. CASE i # Len(s)
    <3>1. i + n \in 1 .. Len(q)
      BY <1>1, <1>2, <1>7, <2>3
    <3> QED BY <1>1, <1>2, <1>5, <1>8, <2>1, <2>3, <3>1
  <2> QED BY <2>2, <2>3
<1>10. Len(DataOf(s)) = Len(u)
  BY <1>1, <1>6, <1>8
<1>11. \A i \in 1 .. Len(DataOf(s)) : DataOf(s)[i] = u[i]
  BY <1>8, <1>9
<1>12. DataOf(s) = u
  BY <1>6, <1>8, <1>10, <1>11, SeqEqual
<1> QED BY <1>12 DEF s, u, v, w

-----------------------------------------------------------------------------
\* The invariant and the steps

IInv ==
    /\ taken \in 0 .. MaxSamples
    /\ answer \in Values
    /\ Holds(queue, taken) /\ Filled(queue, taken)

\* The place of a sample of the window
Place(n) == n - taken + Len(queue)

W == DataOf(queue)

LEMMA WindowPlace ==
  ASSUME IInv, NEW n \in Window
  PROVE  /\ n \in Nat /\ taken \in Nat
         /\ Place(n) \in DOMAIN queue /\ taken - Len(queue) + Place(n) = n
<1>1. n \in Nat /\ n <= taken /\ taken - n < Size /\ taken \in Nat /\ Size \in Nat
  BY Sizes DEF Window, IInv
<1>2. DOMAIN queue = 1 .. Len(queue) /\ Len(queue) \in Nat
  BY LenProperties DEF IInv, Holds
<1>3. Len(queue) = IF taken < Size THEN taken + 1 ELSE Size
  BY DEF IInv, Filled
<1> QED BY <1>1, <1>2, <1>3 DEF Place

\* The newest sample is in the window.
LEMMA NewestPlace ==
  ASSUME NEW last \in Nat, NEW q, Holds(q, last)
  PROVE  /\ q \in Seq(EntriesOf(Values)) /\ Len(q) \in DOMAIN q
         /\ last - Len(q) + Len(q) = last
<1>1. q \in Seq(EntriesOf(Values)) /\ q # <<>>
  BY DEF Holds
<1>2. DOMAIN q = 1 .. Len(q) /\ Len(q) \in Nat /\ Len(q) > 0
  BY <1>1, LenProperties, EmptySeq
<1> QED BY <1>1, <1>2

\* The queue is created with sample 0.
LEMMA InitImplements == Init => IInv /\ Signal!Init
<1> SUFFICES ASSUME Init PROVE IInv /\ Signal!Init
  OBVIOUS
<1> DEFINE e == Entry(0, MaxTime, Default)
           s == Accept(<<>>, e, Size).queue
<1>1. e \in EntriesOf(Values)
  BY Sizes, EntryType DEF Tags
<1>2. queue = s
  BY DEF Init, PushBack, WriteSpecified, MaxTime, Unspecified
<1>3. Tagged(e, 0) /\ e.data = Default
  <2>1. GetTruncTime(0) \in Nat /\ OnGrid(GetTruncTime(0)) /\ Near(GetTruncTime(0), 0)
    BY Sizes, TruncNear
  <2>2. GetTruncTime(MaxTime) = Infinite
    BY DEF GetTruncTime
  <2> QED BY <2>1, <2>2, Points, EntryTag DEF Tagged
<1> DEFINE m == IF Len(<<>>) + 1 > Size THEN Len(<<>>) + 1 - Size ELSE 0
<1>4. /\ s \in Seq(EntriesOf(Values))
      /\ Len(s) = Len(<<>>) + 1 - m
      /\ \A i \in 1 .. Len(<<>>) + 1 - m :
           s[i] = IF i + m = Len(<<>>) + 1 THEN e ELSE <<>>[i + m]
  <2>1. <<>> \in Seq(EntriesOf(Values)) /\ Ordered(<<>>)
    BY DEF Ordered
  <2>2. Size \in Nat
    BY Sizes
  <2> HIDE DEF e
  <2> QED BY <1>1, <2>1, <2>2, AcceptNewest
<1>5. Len(<<>>) = 0 /\ m = 0
  BY Sizes
<1> HIDE DEF e, s, m
<1>6. s \in Seq(EntriesOf(Values)) /\ Len(s) = 1 /\ s[1] = e /\ DOMAIN s = 1 .. 1
  BY <1>4, <1>5, LenProperties
<1>7. Holds(s, 0)
  <2>1. s # <<>>
    <3>1. s = <<>> => Len(s) = 0
      OBVIOUS
    <3> QED BY <1>6, <3>1
  <2> QED BY <1>3, <1>6, <2>1 DEF Holds
<1>8. Filled(s, 0)
  BY <1>6, Sizes DEF Filled
<1>9. IInv
  BY <1>2, <1>7, <1>8, Sizes DEF Init, IInv
<1>10. DataOf(s) = <<Default>>
  <2>1. DataOf(s) \in Seq(Values) /\ Len(DataOf(s)) = 1 /\ DataOf(s)[1] = Default
    BY <1>3, <1>6, DataSeq
  <2> QED BY <2>1
<1> QED BY <1>2, <1>9, <1>10 DEF Init, Signal!Init, DataOf

\* Taking a sample adds it to the window.
LEMMA PushesSample ==
  ASSUME IInv, taken < MaxSamples,
         NEW t \in TimesOf(taken + 1), NEW p \in PeriodsOf(taken + 1), NEW d \in Values
  PROVE  LET pushed == PushBack("DISCRETE", Size, queue, t, p, d) IN
         /\ pushed.error = "NONE"
         /\ Holds(pushed.queue, taken + 1) /\ Filled(pushed.queue, taken + 1)
         /\ DataOf(pushed.queue) = Signal!Latest(Append(W, d))
         /\ pushed.queue[Len(pushed.queue)].data = d
<1> DEFINE pushed == PushBack("DISCRETE", Size, queue, t, p, d)
           e == Entry(t, p, d)
<1>0. taken \in Nat /\ Holds(queue, taken) /\ Filled(queue, taken)
  BY DEF IInv
<1>1. /\ e \in EntriesOf(Values) /\ Tagged(e, taken + 1) /\ e.data = d
      /\ Earlier(Newest(queue), e)
      /\ pushed = Accept(queue, e, Size)
  BY <1>0, TakesSample
<1> HIDE DEF e, pushed
<1>2. /\ pushed.error = "NONE"
      /\ Holds(pushed.queue, taken + 1) /\ Filled(pushed.queue, taken + 1)
      /\ \A i \in DOMAIN pushed.queue : i = Len(pushed.queue) => pushed.queue[i] = e
  <2> DEFINE a == Accept(queue, e, Size)
             n == IF Len(queue) = Size THEN 1 ELSE 0
  <2>1. /\ a.error = "NONE"
        /\ Holds(a.queue, taken + 1) /\ Filled(a.queue, taken + 1)
        /\ \A i \in DOMAIN a.queue :
             a.queue[i] = IF i = Len(a.queue) THEN e ELSE queue[i + n]
    BY <1>0, <1>1, MovesWindow
  <2>2. pushed = a
    BY <1>1
  <2> HIDE DEF a, n
  <2> QED BY <2>1, <2>2
<1>3. DataOf(pushed.queue) = Signal!Latest(Append(W, d))
  BY <1>0, <1>1, MovesData DEF W
<1>4. Len(pushed.queue) \in DOMAIN pushed.queue
  BY <1>0, <1>2, NewestPlace
<1> QED BY <1>1, <1>2, <1>3, <1>4 DEF pushed

\* calculate_power's read finds the sample it pushed.
LEMMA PowerImplements ==
  ASSUME IInv, taken < MaxSamples,
         NEW t \in TimesOf(taken + 1), NEW p \in PeriodsOf(taken + 1),
         NEW d \in Values, NEW noData \in Values, CalculatePower(t, p, d, noData)
  PROVE  IInv' /\ Signal!Take(d)
<1> DEFINE s == PushBack("DISCRETE", Size, queue, t, p, d).queue
<1>0. taken \in Nat /\ taken + 1 \in Nat /\ taken + 1 \in 0 .. MaxSamples
  BY Sizes DEF IInv
<1>1. /\ Holds(s, taken + 1) /\ Filled(s, taken + 1)
      /\ DataOf(s) = Signal!Latest(Append(W, d)) /\ s[Len(s)].data = d
  BY PushesSample
<1>2. queue' = s /\ taken' = taken + 1 /\ answer' = Pulled(s, t, p, noData)
  BY DEF CalculatePower
<1> HIDE DEF s
<1>3. Len(s) \in DOMAIN s /\ (taken + 1) - Len(s) + Len(s) = taken + 1
  BY <1>0, <1>1, NewestPlace
<1>4. t \in Nat /\ p \in Nat /\ Asks(Entry(t, p, noData), p, taken + 1)
  BY <1>0, CallerTag
<1>5. answer' = d
  BY <1>0, <1>1, <1>2, <1>3, <1>4, PullsSample
<1>6. IInv'
  BY <1>0, <1>1, <1>2, <1>5 DEF IInv
<1> QED BY <1>1, <1>2, <1>5, <1>6 DEF Signal!Take, W, DataOf

\* calculate_failure_rate reads the newest sample and then takes the next one.
LEMMA FailureImplements ==
  ASSUME IInv, taken < MaxSamples,
         NEW t \in TimesOf(taken + 1), NEW p \in PeriodsOf(taken + 1),
         NEW before \in TimesOf(taken), NEW q \in PeriodsOf(taken),
         NEW d \in Values, NEW noData \in Values,
         CalculateFailureRate(before, q, t, p, d, noData)
  PROVE  IInv' /\ Signal!Accumulate(d)
<1> DEFINE pushed == PushBack("DISCRETE", Size, queue, t, p, d)
           rate == Pulled(queue, before, q, noData)
<1>0. /\ taken \in Nat /\ taken + 1 \in Nat /\ taken + 1 \in 0 .. MaxSamples
      /\ Holds(queue, taken)
  BY Sizes DEF IInv
<1>1. /\ pushed.error = "NONE"
      /\ Holds(pushed.queue, taken + 1) /\ Filled(pushed.queue, taken + 1)
      /\ DataOf(pushed.queue) = Signal!Latest(Append(W, d))
  BY PushesSample
<1>2. /\ queue \in Seq(EntriesOf(Values)) /\ Len(queue) \in DOMAIN queue
      /\ taken - Len(queue) + Len(queue) = taken
  BY <1>0, NewestPlace
<1>3. rate = queue[Len(queue)].data
  <2>1. before \in Nat /\ q \in Nat /\ Asks(Entry(before, q, noData), q, taken)
    BY <1>0, CallerTag
  <2> QED BY <1>0, <1>2, <2>1, PullsSample
<1>4. rate = W[Len(W)] /\ rate \in Values /\ rate # Exit
  <2>1. W[Len(W)] = queue[Len(queue)].data /\ queue[Len(queue)].data \in Values
    BY <1>2, DataSeq DEF W
  <2> HIDE DEF rate
  <2> QED BY <1>3, <2>1, SamplingAssumption
<1>5. queue' = pushed.queue /\ taken' = taken + 1 /\ answer' = rate
  <2>1. rate # Exit /\ pushed.error = "NONE"
    BY <1>1, <1>4
  <2> QED BY <2>1 DEF CalculateFailureRate
<1> HIDE DEF pushed, rate
<1>6. IInv'
  BY <1>0, <1>1, <1>4, <1>5 DEF IInv
<1> QED BY <1>1, <1>4, <1>5, <1>6 DEF Signal!Accumulate, W, DataOf

\* A read of a sample of the window returns it.
LEMMA PullImplements ==
  ASSUME IInv, NEW n \in Window, NEW t \in Nat, NEW p \in Nat, NEW noData \in Values,
         Asks(Entry(t, p, noData), p, n), PullSample(t, p, noData)
  PROVE  IInv' /\ \E k \in DOMAIN W : Signal!Read(k)
<1>0. taken \in Nat /\ Holds(queue, taken) /\ queue \in Seq(EntriesOf(Values))
  BY DEF IInv, Holds
<1> DEFINE k == Place(n)
<1>1. k \in DOMAIN queue /\ taken - Len(queue) + k = n
  BY WindowPlace
<1> HIDE DEF k
<1>2. Pulled(queue, t, p, noData) = queue[k].data
  BY <1>0, <1>1, PullsSample
<1>3. answer' = queue[k].data /\ queue' = queue /\ taken' = taken
  BY <1>2 DEF PullSample
<1>4. k \in DOMAIN W /\ W[k] = queue[k].data /\ queue[k].data \in Values
  BY <1>0, <1>1, DataSeq DEF W
<1>5. IInv'
  BY <1>3, <1>4 DEF IInv
<1>6. Signal!Read(k)
  BY <1>3, <1>4 DEF Signal!Read, W, DataOf
<1> QED BY <1>4, <1>5, <1>6

\* A time well inside the interval of a sample names the sample.
LEMMA InsideAsks ==
  ASSUME NEW n \in Nat, n > 0, NEW d \in Values,
         NEW t \in (n - 1) * Step + 2 * Precision .. n * Step + Jitter
  PROVE  t \in Nat /\ Asks(Entry(t, Unspecified, d), Unspecified, n)
<1> DEFINE g == GetTruncTime(t)
<1>0. n - 1 \in Nat /\ n = (n - 1) + 1
  OBVIOUS
<1>1. Point(n - 1) \in Nat /\ Point(n) = Point(n - 1) + Step
  <2>1. Point(n - 1) \in Nat /\ Point((n - 1) + 1) = Point(n - 1) + Step
    BY <1>0, Points
  <2> QED BY <1>0, <2>1
<1>2. t \in Point(n - 1) + 2 * Precision .. Point(n) + Jitter
  BY DEF Point
<1>3. t \in Nat /\ t >= Point(n - 1) + 4 * Grid /\ t <= Point(n) + Jitter
  BY <1>1, <1>2, Sizes
<1>4. /\ g \in Nat /\ g <= t /\ t < g + Grid
      /\ \E k \in Nat : g = Grid * k
  BY <1>3, TruncBounds
<1>5. OnGrid(g)
  BY <1>4 DEF OnGrid
<1> HIDE DEF g
<1>6. g > Point(n) - Step + 3 * Grid /\ g <= Point(n) + Jitter
  BY <1>1, <1>3, <1>4, Sizes
<1>7. Entry(t, Unspecified, d).time = g
  BY EntryTag DEF g
<1> QED BY <1>3, <1>5, <1>6, <1>7 DEF Asks

\* An overwrite of a sample of the window replaces its datum.
LEMMA OverwriteImplements ==
  ASSUME IInv, NEW n \in Window, NEW t \in TimesOf(n), NEW p \in PeriodsOf(n),
         NEW d \in Values, OverwriteSample(t, p, d)
  PROVE  IInv' /\ \E k \in DOMAIN W : Signal!Revise(k, d)
<1> DEFINE e == Entry(t, p, d)
           k == Place(n)
           s == [queue EXCEPT ![k].data = d]
<1>0. /\ taken \in Nat /\ Holds(queue, taken) /\ Filled(queue, taken)
      /\ queue \in Seq(EntriesOf(Values))
  BY DEF IInv, Holds
<1>1. k \in DOMAIN queue /\ taken - Len(queue) + k = n /\ n \in Nat
  BY WindowPlace
<1> HIDE DEF k
<1>2. e.time \in Int /\ Asks(e, p, n) /\ e.data = d
  <2>1. e \in EntriesOf(Values) /\ Asks(e, p, n) /\ e.data = d
    BY <1>1, CallerTag, EntryTag
  <2> HIDE DEF e
  <2> QED BY <2>1 DEF EntriesOf
<1>3. Replaceable("DISCRETE", queue, e, p) = {k}
  BY <1>0, <1>1, <1>2, FindsSample
<1>4. LastOf({k}) = k
  <2>1. k \in Nat \ {0}
    BY <1>0, <1>1, LenProperties
  <2> QED BY <2>1, LastOfOne
<1>5. Overwrite("DISCRETE", Size, queue, t, p, d) = [queue |-> s, error |-> "NONE"]
  BY <1>3, <1>4 DEF Overwrite
<1>6. queue' = s /\ answer' = answer /\ taken' = taken
  <2> DEFINE r == Overwrite("DISCRETE", Size, queue, t, p, d)
  <2>1. queue' = r.queue /\ answer' = (IF r.error = "NONE" THEN answer ELSE Exit) /\ taken' = taken
    BY DEF OverwriteSample
  <2> HIDE DEF s
  <2>2. r.queue = s /\ r.error = "NONE"
    BY <1>5
  <2> HIDE DEF r
  <2> QED BY <2>1, <2>2
<1>7. /\ s \in Seq(EntriesOf(Values)) /\ Len(s) = Len(queue) /\ DOMAIN s = DOMAIN queue
      /\ s[k].data = d
      /\ \A i \in DOMAIN queue : /\ s[i].time = queue[i].time /\ s[i].period = queue[i].period
                                 /\ i # k => s[i] = queue[i]
  BY <1>0, <1>1, ReplaceTags
<1> HIDE DEF s, e
<1>8. Holds(s, taken) /\ Filled(s, taken)
  <2>1. s # <<>>
    <3>1. k \in DOMAIN s
      BY <1>1, <1>7
    <3> QED BY <3>1
  <2>2. \A i \in DOMAIN s : Tagged(s[i], taken - Len(s) + i)
    <3>1. \A i \in DOMAIN queue : Tagged(queue[i], taken - Len(queue) + i)
      BY <1>0 DEF Holds
    <3> QED BY <1>7, <3>1 DEF Tagged
  <2>3. Len(s) <= taken + 1
    BY <1>0, <1>7 DEF Holds
  <2> QED BY <1>0, <1>7, <2>1, <2>2, <2>3 DEF Holds, Filled
<1>9. IInv'
  BY <1>6, <1>8 DEF IInv
<1>10. DataOf(s) = [W EXCEPT ![k] = d]
  BY <1>7 DEF W, DataOf
<1>11. k \in DOMAIN W
  BY <1>1 DEF W, DataOf
<1> QED BY <1>6, <1>9, <1>10, <1>11 DEF Signal!Revise, W, DataOf

\* Every step keeps the invariant and is a step of the abstract signal.
LEMMA StepImplements ==
  IInv /\ [Next]_vars => IInv' /\ [Signal!Next]_<<W, answer>>
<1> SUFFICES ASSUME IInv, [Next]_vars PROVE IInv' /\ [Signal!Next]_<<W, answer>>
  OBVIOUS
<1>1. ASSUME taken < MaxSamples,
             NEW t \in TimesOf(taken + 1), NEW p \in PeriodsOf(taken + 1),
             NEW d \in Values, NEW noData \in Values, CalculatePower(t, p, d, noData)
      PROVE  IInv' /\ Signal!Next
  BY <1>1, PowerImplements DEF Signal!Next
<1>2. ASSUME taken < MaxSamples,
             NEW t \in TimesOf(taken + 1), NEW p \in PeriodsOf(taken + 1),
             NEW before \in TimesOf(taken), NEW q \in PeriodsOf(taken),
             NEW d \in Values, NEW noData \in Values,
             CalculateFailureRate(before, q, t, p, d, noData)
      PROVE  IInv' /\ Signal!Next
  BY <1>2, FailureImplements DEF Signal!Next
<1>3. ASSUME NEW n \in Window, NEW t \in TimesOf(n), NEW p \in PeriodsOf(n),
             NEW noData \in Values, PullSample(t, p, noData)
      PROVE  IInv' /\ Signal!Next
  <2>1. n \in Nat
    BY WindowPlace
  <2>2. t \in Nat /\ p \in Nat /\ Asks(Entry(t, p, noData), p, n)
    BY <2>1, CallerTag
  <2>3. IInv' /\ \E k \in DOMAIN W : Signal!Read(k)
    BY <1>3, <2>2, PullImplements
  <2> QED BY <2>3 DEF Signal!Next, W, DataOf
<1>4. ASSUME NEW n \in Window, NEW noData \in Values, PullInside(n, noData)
      PROVE  IInv' /\ Signal!Next
  <2>1. n \in Nat
    BY WindowPlace
  <2>2. PICK t \in (n - 1) * Step + 2 * Precision .. n * Step + Jitter :
               PullSample(t, Unspecified, noData)
    BY <1>4 DEF PullInside
  <2>3. n > 0
    BY <1>4 DEF PullInside
  <2>4. t \in Nat /\ Asks(Entry(t, Unspecified, noData), Unspecified, n)
    BY <2>1, <2>3, InsideAsks
  <2>5. Unspecified \in Nat
    BY DEF Unspecified
  <2>6. IInv' /\ \E k \in DOMAIN W : Signal!Read(k)
    BY <2>2, <2>4, <2>5, PullImplements
  <2> QED BY <2>6 DEF Signal!Next, W, DataOf
<1>5. ASSUME NEW n \in Window, NEW t \in TimesOf(n), NEW p \in PeriodsOf(n),
             NEW d \in Values, OverwriteSample(t, p, d)
      PROVE  IInv' /\ Signal!Next
  <2>1. IInv' /\ \E k \in DOMAIN W : Signal!Revise(k, d)
    BY <1>5, OverwriteImplements
  <2> QED BY <2>1 DEF Signal!Next, W, DataOf
<1>6. CASE UNCHANGED vars
  BY <1>6 DEF vars, IInv, W, DataOf
<1> QED BY <1>1, <1>2, <1>3, <1>4, <1>5, <1>6 DEF Next, Sampling

LEMMA Invariant == Spec => []IInv
<1>1. Init => IInv
  BY InitImplements
<1>2. IInv /\ [Next]_vars => IInv'
  BY StepImplements
<1> QED BY <1>1, <1>2, PTL DEF Spec

\* No fixed-period simulator sees an error, loses a sample or reads one sample
\* for another (kitfox.cc:961, 1092, 1133), whatever its clock rounds: the queue
\* implements the window of the last Size samples.
THEOREM QueueImplementsSignal == Spec => ImplementsSignal
<1>1. Init => Signal!Init
  BY InitImplements
<1>2. IInv /\ [Next]_vars => [Signal!Next]_<<W, answer>>
  BY StepImplements
<1> QED BY <1>1, <1>2, Invariant, PTL DEF Spec, ImplementsSignal, Signal!Spec, W, DataOf

\* Every tag a data queue stores is a truncated time, and a read of the window
\* never ends the program (kitfox.cc:966).
THEOREM SampledTypes == Spec => []TypeOK
<1>1. IInv => TypeOK
  BY DEF IInv, TypeOK, Holds
<1> QED BY <1>1, Invariant, PTL

\* The queue holds exactly the last Size samples, each tagged within a grid unit
\* of its sampling point (queue.h:165, 184).
THEOREM WindowHeld == Spec => []HoldsWindow
<1>1. IInv => HoldsWindow
  <2> SUFFICES ASSUME IInv PROVE HoldsWindow
    OBVIOUS
  <2>0. taken \in Nat /\ Holds(queue, taken) /\ Filled(queue, taken)
    BY DEF IInv
  <2>1. Len(queue) = IF taken < Size THEN taken + 1 ELSE Size
    BY <2>0 DEF Filled
  <2>2. ASSUME NEW i \in DOMAIN queue
        PROVE  queue[i].time - (taken - Len(queue) + i) * Step \in -Grid - Jitter .. Jitter
    <3> DEFINE n == taken - Len(queue) + i
               x == queue[i].time
    <3>1. /\ DOMAIN queue = 1 .. Len(queue) /\ Len(queue) \in Nat /\ Len(queue) <= taken + 1
          /\ queue[i] \in EntriesOf(Values)
      BY <2>0, LenProperties, ElementOfSeq DEF Holds
    <3>2. n \in Nat /\ x \in Int
      BY <2>0, <3>1 DEF EntriesOf
    <3>3. Near(x, Point(n))
      BY <2>0 DEF Holds, Tagged
    <3> HIDE DEF n, x
    <3>4. Point(n) \in Nat
      BY <3>2, Points
    <3>5. x - Point(n) \in -Grid - Jitter .. Jitter
      BY <3>2, <3>3, <3>4, Sizes DEF Near
    <3> QED BY <3>5 DEF Point, n, x
  <2> QED BY <2>1, <2>2 DEF HoldsWindow
<1> QED BY <1>1, Invariant, PTL

=============================================================================
