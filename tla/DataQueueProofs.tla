-------------------------- MODULE DataQueueProofs ---------------------------
(***************************************************************************)
(* Proofs about DataQueue, for every grid, queue type, size, and set of    *)
(* times, periods and data.  The inductive invariant is TypeOK /\ Sorted   *)
(* /\ Bounded: without Sorted the place at which the map inserts an entry  *)
(* is not determined, so types alone are not inductive.  On it rest what   *)
(* the calls promise: a write is read back, the intervals of a discrete    *)
(* queue follow each other, and nothing but the oldest is lost.            *)
(***************************************************************************)
EXTENDS DataQueue, DataQueueLemmas

Good(q) == q \in Seq(EntriesOf(Values)) /\ Ordered(q) /\ Len(q) <= Capacity

GoodResult(r) == Good(r.queue) /\ r.error \in QueueErrors

-----------------------------------------------------------------------------
\* The three ways a write ends leave a map in order and within its capacity.
LEMMA AcceptGood ==
  ASSUME NEW q \in Seq(EntriesOf(Values)), Ordered(q), NEW e \in EntriesOf(Values)
  PROVE  GoodResult(Accept(q, e, Size))
<1> DEFINE r == Insert(q, e)
           f == Fit(r, Size)
<1>1. r \in Seq(EntriesOf(Values)) /\ Ordered(r)
  BY InsertOrdered
<1> HIDE DEF r
<1>2. Size \in Nat
  BY QueueAssumption
<1> DEFINE n == IF Len(r) > Size THEN Len(r) - Size ELSE 0
<1>3. /\ f \in Seq(EntriesOf(Values))
      /\ Len(f) = Len(r) - n
      /\ \A i \in 1 .. Len(r) - n : f[i] = r[i + n]
  BY <1>1, <1>2, FitNewest
<1> HIDE DEF f
<1>4. Len(r) \in Nat /\ DOMAIN r = 1 .. Len(r) /\ DOMAIN f = 1 .. Len(f)
  BY <1>1, <1>3, LenProperties
<1>5. Len(f) <= Capacity
  <2>1. Len(f) <= Size
    BY <1>2, <1>3, <1>4
  <2>2. Len(f) \in Nat
    BY <1>3, LenProperties
  <2> HIDE <1>3
  <2> QED BY <1>2, <2>1, <2>2 DEF Capacity
<1>6. Ordered(f)
  <2> SUFFICES ASSUME NEW i \in 1 .. Len(f), NEW j \in 1 .. Len(f), i < j
               PROVE  Earlier(f[i], f[j])
    BY <1>4 DEF Ordered
  <2>1. f[i] = r[i + n] /\ f[j] = r[j + n]
    BY <1>2, <1>3, <1>4
  <2>2. i + n \in DOMAIN r /\ j + n \in DOMAIN r /\ i + n < j + n
    BY <1>2, <1>3, <1>4
  <2> QED BY <1>1, <2>1, <2>2 DEF Ordered
<1> QED BY <1>3, <1>5, <1>6 DEF Accept, GoodResult, Good, QueueErrors, f, r

LEMMA SingleGood ==
  ASSUME NEW e \in EntriesOf(Values)
  PROVE  <<e>> \in Seq(EntriesOf(Values)) /\ Ordered(<<e>>) /\ Len(<<e>>) <= Capacity
<1>1. <<e>> \in Seq(EntriesOf(Values)) /\ Len(<<e>>) = 1 /\ DOMAIN <<e>> = 1 .. 1
  OBVIOUS
<1>2. Ordered(<<e>>)
  BY <1>1 DEF Ordered
<1>3. 1 <= Capacity
  BY QueueAssumption DEF Capacity
<1> QED BY <1>1, <1>2, <1>3

LEMMA FlushGood ==
  ASSUME NEW e \in EntriesOf(Values), NEW err \in QueueErrors
  PROVE  GoodResult(First(e)) /\ GoodResult(Flush(e, err))
BY SingleGood DEF First, Flush, GoodResult, Good, QueueErrors

LEMMA WriteUnspecifiedGood ==
  ASSUME NEW q, Good(q), NEW e \in EntriesOf(Values), NEW err \in QueueErrors
  PROVE  GoodResult(WriteUnspecified(q, e, Size, err))
<1>0. q \in Seq(EntriesOf(Values)) /\ Ordered(q)
  BY DEF Good
<1>1. CASE q = <<>>
  BY <1>1, FlushGood DEF WriteUnspecified
<1>2. CASE q # <<>> /\ After(e, Newest(q).time)
  <2>1. Derived(q, e) \in EntriesOf(Values)
    BY <1>0, <1>2, DerivedType
  <2>2. GoodResult(Accept(q, Derived(q, e), Size))
    BY <1>0, <2>1, AcceptGood
  <2> QED BY <1>2, <2>2 DEF WriteUnspecified
<1>3. CASE q # <<>> /\ ~ After(e, Newest(q).time)
  BY <1>3, FlushGood DEF WriteUnspecified
<1> QED BY <1>1, <1>2, <1>3

LEMMA WriteSpecifiedGood ==
  ASSUME NEW q, Good(q), NEW e \in EntriesOf(Values), NEW err \in QueueErrors
  PROVE  GoodResult(WriteSpecified(q, e, Size, err))
<1>1. q \in Seq(EntriesOf(Values)) /\ Ordered(q)
  BY DEF Good
<1>2. GoodResult(Accept(q, e, Size)) /\ GoodResult(Flush(e, err))
  BY <1>1, AcceptGood, FlushGood
<1> QED BY <1>2 DEF WriteSpecified

\* Whatever a caller pushes, the queue stays an ordered map within capacity.
LEMMA PushBackGood ==
  ASSUME NEW type \in QueueTypes, NEW q, Good(q), NEW t \in Nat, NEW p \in Tags, NEW d \in Values
  PROVE  GoodResult(PushBack(type, Size, q, t, p, d))
<1> DEFINE e == Entry(t, p, d)
<1>0. e \in EntriesOf(Values)
  BY EntryType
<1>1. Size \in Nat
  BY QueueAssumption
<1>2. q \in Seq(EntriesOf(Values)) /\ Ordered(q)
  BY DEF Good
<1> HIDE DEF e
<1>3. CASE type = "OPEN"
  <2>1. GoodResult(Accept(q, e, Size))
    BY <1>0, <1>2, AcceptGood
  <2>2. GoodResult([queue |-> Fit(<<e>>, Size), error |-> "OUTORDER"])
    <3>1. <<e>> \in Seq(EntriesOf(Values)) /\ Len(<<e>>) = 1 /\ Ordered(<<e>>)
      BY <1>0, SingleGood
    <3> DEFINE s == <<e>>
               f == Fit(s, Size)
    <3>2. s \in Seq(EntriesOf(Values)) /\ Len(s) = 1 /\ Ordered(s)
      BY <3>1
    <3> HIDE DEF s
    <3> DEFINE m == IF Len(s) > Size THEN Len(s) - Size ELSE 0
    <3>3. f \in Seq(EntriesOf(Values)) /\ Len(f) = Len(s) - m
      BY <1>1, <3>2, FitNewest
    <3> HIDE DEF f
    <3>4. Len(f) <= 1 /\ Len(f) <= Size /\ Len(f) \in Nat
      BY <1>1, <3>2, <3>3
    <3>5. Ordered(f)
      BY <3>3, <3>4, LenProperties DEF Ordered
    <3>6. Len(f) <= Capacity
      BY <1>1, <3>4 DEF Capacity
    <3> QED BY <3>3, <3>5, <3>6 DEF GoodResult, Good, QueueErrors, f, s
  <2>3. GoodResult(PushOpen(q, e, Size))
    BY <2>1, <2>2 DEF PushOpen
  <2> QED BY <1>3, <2>3 DEF PushBack, e
<1>4. CASE type = "DISCRETE" /\ p = Unspecified
  <2>1. GoodResult(WriteUnspecified(q, e, Size, "OVERLAP"))
    BY <1>0, WriteUnspecifiedGood DEF QueueErrors
  <2> QED BY <1>4, <2>1 DEF PushBack, e
<1>5. CASE type = "DISCRETE" /\ p # Unspecified
  <2> DEFINE err == IF q = <<>> THEN "NONE" ELSE TimeViolation(Newest(q), e)
  <2>1. err \in QueueErrors
    BY TimeViolationCode DEF QueueErrors
  <2>2. GoodResult(WriteSpecified(q, e, Size, err))
    BY <1>0, <2>1, WriteSpecifiedGood
  <2> QED BY <1>5, <2>2 DEF PushBack, e
<1> QED BY <1>1, <1>3, <1>4, <1>5 DEF QueueTypes

\* Replacing the datum of an entry leaves every time tag as it was.
LEMMA ReplaceGood ==
  ASSUME NEW q, Good(q), NEW i \in DOMAIN q, NEW d \in Values
  PROVE  Good([q EXCEPT ![i].data = d])
<1> DEFINE x == [q[i] EXCEPT !.data = d]
           r == [q EXCEPT ![i] = x]
<1>0. q \in Seq(EntriesOf(Values)) /\ Ordered(q) /\ Len(q) <= Capacity
  BY DEF Good
<1>1. DOMAIN q = 1 .. Len(q) /\ Len(q) \in Nat /\ \A j \in DOMAIN q : q[j] \in EntriesOf(Values)
  BY <1>0, LenProperties, ElementOfSeq
<1>2. x \in EntriesOf(Values) /\ x.time = q[i].time
  BY <1>1 DEF EntriesOf
<1> HIDE DEF x
<1>3. r \in Seq(EntriesOf(Values)) /\ Len(r) = Len(q) /\ DOMAIN r = DOMAIN q
  BY <1>0, <1>1, <1>2, ExceptSeq
<1>4. \A j \in DOMAIN q : r[j].time = q[j].time
  BY <1>1, <1>2
<1>5. Ordered(r)
  BY <1>0, <1>3, <1>4 DEF Ordered, Earlier
<1>6. [q EXCEPT ![i].data = d] = r
  BY DEF r, x
<1> QED BY <1>0, <1>3, <1>5, <1>6 DEF Good

LEMMA OverwriteGood ==
  ASSUME NEW type \in QueueTypes, NEW q, Good(q), NEW t \in Nat, NEW p \in Tags, NEW d \in Values
  PROVE  GoodResult(Overwrite(type, Size, q, t, p, d))
<1> DEFINE e == Entry(t, p, d)
           m == Replaceable(type, q, e, p)
<1>0. e \in EntriesOf(Values)
  BY EntryType
<1>1. Size \in Nat
  BY QueueAssumption
<1>2. q \in Seq(EntriesOf(Values)) /\ Ordered(q)
  BY DEF Good
<1> HIDE DEF e
<1>3. CASE m # {}
  <2>1. m \in SUBSET (1 .. Len(q)) /\ Len(q) \in Nat /\ DOMAIN q = 1 .. Len(q)
    BY <1>2, LenProperties DEF Replaceable
  <2> DEFINE k == LastOf(m)
  <2> HIDE DEF m
  <2>2. k \in m
    BY <1>3, <2>1, LastOfIsIn
  <2> HIDE DEF k
  <2>3. Good([q EXCEPT ![k].data = d])
    BY <2>1, <2>2, ReplaceGood
  <2> QED BY <1>3, <2>3 DEF Overwrite, GoodResult, QueueErrors, e, m, k
<1>4. CASE m = {}
  <2>1. GoodResult(OverwriteMiss(type, Size, q, e, p))
    <3>1. CASE type = "OPEN"
      <4>1. GoodResult(Accept(q, e, Size)) /\ GoodResult(Flush(e, "OUTORDER"))
        BY <1>0, <1>2, AcceptGood, FlushGood DEF QueueErrors
      <4> QED BY <3>1, <4>1 DEF OverwriteMiss
    <3>2. CASE type = "DISCRETE" /\ p = Unspecified
      <4>1. GoodResult(WriteUnspecified(q, e, Size, "OUTORDER"))
        BY <1>0, WriteUnspecifiedGood DEF QueueErrors
      <4> QED BY <3>2, <4>1 DEF OverwriteMiss
    <3>3. CASE type = "DISCRETE" /\ p # Unspecified
      <4>1. GoodResult(WriteSpecified(q, e, Size, "OUTORDER"))
        BY <1>0, WriteSpecifiedGood DEF QueueErrors
      <4> QED BY <3>3, <4>1 DEF OverwriteMiss
    <3> QED BY <1>1, <3>1, <3>2, <3>3 DEF QueueTypes
  <2> QED BY <1>4, <2>1 DEF Overwrite, e, m
<1> QED BY <1>3, <1>4

\* get returns a datum of the queue, or the unassigned local on a miss.
LEMMA GetType ==
  ASSUME NEW type \in QueueTypes, NEW q \in Seq(EntriesOf(Values)), NEW t \in Nat, NEW p \in Tags, NEW d \in Values
  PROVE  /\ Get(type, q, t, p, d).data \in Values
         /\ Get(type, q, t, p, d).error \in QueueErrors
<1> DEFINE e == Entry(t, p, d)
           m == Readable(type, q, e, p)
           k == LastOf(m)
<1>1. CASE m # {}
  <2>1. m \in SUBSET (1 .. Len(q)) /\ Len(q) \in Nat
    BY LenProperties DEF Readable
  <2> HIDE DEF m
  <2>2. k \in m
    BY <1>1, <2>1, LastOfIsIn
  <2> HIDE DEF k
  <2>3. q[k] \in EntriesOf(Values)
    BY <2>1, <2>2, ElementOfSeq
  <2>4. q[k].data \in Values
    BY <2>3 DEF EntriesOf
  <2> QED BY <1>1, <2>4 DEF Get, QueueErrors, k, m
<1>2. CASE m = {}
  BY <1>2 DEF Get, QueueErrors
<1> QED BY <1>1, <1>2

-----------------------------------------------------------------------------

IInv == TypeOK /\ Sorted /\ Bounded

LEMMA IInvGood == IInv => Good(queue)
BY DEF IInv, TypeOK, Sorted, Bounded, Good

LEMMA InitInvariant == Init => IInv
<1> SUFFICES ASSUME Init PROVE IInv
  OBVIOUS
<1> DEFINE r == PushBack(QueueType, Size, <<>>, 0, MaxTime, Default)
<1>1. Default \in Values /\ Size \in Nat
  BY QueueAssumption
<1>2. Good(<<>>)
  <2>1. <<>> \in Seq(EntriesOf(Values)) /\ Len(<<>>) = 0 /\ DOMAIN <<>> = {}
    OBVIOUS
  <2>2. 0 <= Capacity
    BY <1>1 DEF Capacity
  <2> QED BY <2>1, <2>2 DEF Good, Ordered
<1>3. GoodResult(r)
  <2>1. QueueType \in QueueTypes
    BY QueueAssumption DEF Init, QueueType
  <2> QED BY <1>1, <1>2, <2>1, PushBackGood DEF Tags
<1> HIDE DEF r
<1>4. Good(queue)
  BY <1>3 DEF Init, GoodResult, r
<1>5. call \in Calls /\ call.error = error /\ error \in QueueErrors
  BY <1>1 DEF Init, Calls, Ops, QueueErrors, MaxTime
<1> QED BY <1>4, <1>5 DEF Init, IInv, TypeOK, Sorted, Bounded, Good

LEMMA WrittenInvariant ==
  ASSUME IInv, NEW op \in {"push_back", "overwrite"}, NEW t \in Nat, NEW p \in Tags,
         NEW d \in Values, NEW r, GoodResult(r), Written(op, t, p, d, r)
  PROVE  IInv'
<1>1. Good(queue') /\ error' \in QueueErrors
  BY DEF Written, GoodResult
<1>2. library' \in Values \cup {Nothing} /\ registered' \in BOOLEAN /\ kind' \in Kinds
  BY DEF Written, Callback, IInv, TypeOK
<1>3. call' \in Calls /\ call'.error = error'
  BY <1>1 DEF Written, Calls, Ops, Tags
<1> QED BY <1>1, <1>2, <1>3 DEF IInv, TypeOK, Sorted, Bounded, Good

LEMMA StepInvariant == IInv /\ [Next]_vars => IInv'
<1> SUFFICES ASSUME IInv, [Next]_vars PROVE IInv'
  OBVIOUS
<1>0. /\ Good(queue) /\ QueueType \in QueueTypes
      /\ Times \subseteq Nat /\ Periods \subseteq Tags
  BY IInvGood, QueueAssumption DEF IInv, TypeOK, Tags, QueueType, Times, Periods
<1>1. ASSUME NEW t \in Times, NEW p \in Periods, NEW d \in Values, Push(t, p, d)
      PROVE  IInv'
  <2>1. GoodResult(PushBack(QueueType, Size, queue, t, p, d))
    BY <1>0, PushBackGood
  <2> QED BY <1>0, <1>1, <2>1, WrittenInvariant DEF Push
<1>2. ASSUME NEW t \in Times, NEW p \in Periods, NEW d \in Values,
             OverwriteData(t, p, d)
      PROVE  IInv'
  <2>1. GoodResult(Overwrite(QueueType, Size, queue, t, p, d))
    BY <1>0, OverwriteGood
  <2> QED BY <1>0, <1>2, <2>1, WrittenInvariant DEF OverwriteData
<1>3. ASSUME NEW t \in Times, NEW p \in Periods, NEW d \in Values, Pull(t, p, d)
      PROVE  IInv'
  <2> DEFINE r == Get(QueueType, queue, t, p, d)
  <2>1. r.data \in Values /\ r.error \in QueueErrors
    BY <1>0, GetType DEF Good
  <2> HIDE DEF r
  <2>2. /\ error' = r.error
        /\ call' = [op |-> "get", time |-> t, period |-> p, data |-> r.data,
                    error |-> r.error]
        /\ UNCHANGED <<kind, queue, registered, library>>
    BY <1>3 DEF Pull, r
  <2>3. call' \in Calls /\ call'.error = error'
    BY <1>0, <2>1, <2>2 DEF Calls, Ops, Tags
  <2> QED BY <2>1, <2>2, <2>3 DEF IInv, TypeOK, Sorted, Bounded
<1>4. CASE RegisterCallback
  <2>1. call' \in Calls /\ call'.error = error
    BY <1>4 DEF RegisterCallback, IInv, TypeOK, Calls, Ops
  <2> QED BY <1>4, <2>1 DEF RegisterCallback, IInv, TypeOK, Sorted, Bounded
<1>5. CASE Reset
  <2>1. call' \in Calls /\ call'.error = error' /\ error' \in QueueErrors
    BY <1>5 DEF Reset, IInv, TypeOK, Calls, Ops, QueueErrors
  <2>2. queue' = <<>> /\ <<>> \in Seq(EntriesOf(Values)) /\ Len(<<>>) = 0 /\ DOMAIN <<>> = {}
    BY <1>5 DEF Reset
  <2>3. 0 <= Capacity
    BY QueueAssumption DEF Capacity
  <2>4. Sorted' /\ Bounded'
    BY <2>2, <2>3 DEF Sorted, Bounded, Ordered
  <2> QED BY <1>5, <2>1, <2>2, <2>4 DEF Reset, IInv, TypeOK
<1>6. CASE UNCHANGED vars
  BY <1>6 DEF vars, IInv, TypeOK, Sorted, Bounded
<1> QED BY <1>1, <1>2, <1>3, <1>4, <1>5, <1>6 DEF Next

LEMMA Invariant == Spec => []IInv
BY InitInvariant, StepInvariant, PTL DEF Spec

\* Every tag a data queue stores is a truncated time with a period that is not
\* negative, and the error code a caller sees is the one its call set.
THEOREM TypeCorrect == Spec => []TypeOK
<1>1. IInv => TypeOK
  BY DEF IInv
<1> QED BY Invariant, <1>1, PTL

\* The map of a data queue is always in key order with no key twice, whatever
\* sequence of pushes and overwrites produced it (queue.h:143, queue.h:226).
THEOREM QueueInOrder == Spec => []Sorted
<1>1. IInv => Sorted
  BY DEF IInv
<1> QED BY Invariant, <1>1, PTL

\* No call leaves more entries than the queue_size of the configuration, or
\* one when that is zero (queue.h:165, queue.h:184, queue.h:255).
THEOREM QueueWithinCapacity == Spec => []Bounded
<1>1. IInv => Bounded
  BY DEF IInv
<1> QED BY Invariant, <1>1, PTL

-----------------------------------------------------------------------------
\* What the calls of a queue promise their callers.  A step writes, looks or
\* resets; the invariant below adds to IInv that a queue with room is never
\* empty, so that a write which reports no error did not start it again, and
\* that a library is told nothing before it is registered.

WriteStep ==
    /\ Alive
    /\ \E op \in {"push_back", "overwrite"}, t \in Times, p \in Periods, d \in Values : \E r :
          /\ Written(op, t, p, d, r)
          /\ Writes(Values, QueueType, Size, queue, Entry(t, p, d), p, r)

LookStep ==
    /\ UNCHANGED <<kind, queue, library>>
    /\ registered => registered'
    /\ \/ call'.op \in {"get", "register_callback"} /\ Alive
       \/ UNCHANGED <<call, registered>>

NonEmpty == Size > 0 /\ Alive => queue # <<>>

Told == ~registered => library = Nothing

StoredWhenTold == Told /\ LibraryHasStoredDatum

\* Every step writes, looks at the queue or resets it.
LEMMA StepKinds ==
  ASSUME IInv, [Next]_vars
  PROVE  WriteStep \/ LookStep \/ Reset
<1>0. /\ queue \in Seq(EntriesOf(Values)) /\ QueueType \in QueueTypes /\ Size \in Nat
      /\ Times \subseteq Nat /\ Periods \subseteq Tags
  BY QueueAssumption DEF IInv, TypeOK, Tags, QueueType, Times, Periods
<1>1. ASSUME NEW t \in Times, NEW p \in Periods, NEW d \in Values, Push(t, p, d)
      PROVE  WriteStep
  <2> DEFINE r == PushBack(QueueType, Size, queue, t, p, d)
  <2>1. Writes(Values, QueueType, Size, queue, Entry(t, p, d), p, r)
    BY <1>0, PushBackWrites
  <2>2. Alive /\ Written("push_back", t, p, d, r)
    BY <1>1 DEF Push
  <2> HIDE DEF r
  <2> QED BY <2>1, <2>2 DEF WriteStep
<1>2. ASSUME NEW t \in Times, NEW p \in Periods, NEW d \in Values, OverwriteData(t, p, d)
      PROVE  WriteStep
  <2> DEFINE r == Overwrite(QueueType, Size, queue, t, p, d)
  <2>1. Writes(Values, QueueType, Size, queue, Entry(t, p, d), p, r)
    BY <1>0, OverwriteWrites
  <2>2. Alive /\ Written("overwrite", t, p, d, r)
    BY <1>2 DEF OverwriteData
  <2> HIDE DEF r
  <2> QED BY <2>1, <2>2 DEF WriteStep
<1>3. ASSUME NEW t \in Times, NEW p \in Periods, NEW d \in Values, Pull(t, p, d)
      PROVE  LookStep
  <2>1. call'.op = "get"
    BY <1>3 DEF Pull
  <2> QED BY <1>3, <2>1 DEF Pull, LookStep
<1>4. CASE RegisterCallback
  <2>1. call'.op = "register_callback"
    BY <1>4 DEF RegisterCallback, IInv, TypeOK, Calls
  <2> QED BY <1>4, <2>1 DEF RegisterCallback, LookStep
<1>5. CASE UNCHANGED vars
  BY <1>5 DEF vars, LookStep
<1> QED BY <1>1, <1>2, <1>3, <1>4, <1>5 DEF Next

\* What a write step writes, with the types the lemmas on writes need.
LEMMA WriteFacts ==
  ASSUME IInv, NEW op \in {"push_back", "overwrite"}, NEW t \in Times, NEW p \in Periods,
         NEW d \in Values, NEW r, Written(op, t, p, d, r)
  PROVE  /\ queue \in Seq(EntriesOf(Values)) /\ Ordered(queue)
         /\ QueueType \in QueueTypes /\ Size \in Nat
         /\ t \in Nat /\ p \in Tags
         /\ Entry(t, p, d) \in EntriesOf(Values) /\ Entry(t, p, d).data = d
         /\ queue' = r.queue /\ QueueType' = QueueType
         /\ call' = [op |-> op, time |-> t, period |-> p, data |-> d, error |-> r.error]
<1>1. /\ queue \in Seq(EntriesOf(Values)) /\ QueueType \in QueueTypes /\ Size \in Nat
      /\ Ordered(queue)
      /\ Times \subseteq Nat /\ Periods \subseteq Tags
  BY QueueAssumption DEF IInv, TypeOK, Sorted, Tags, QueueType, Times, Periods
<1>2. Entry(t, p, d) \in EntriesOf(Values) /\ Entry(t, p, d).data = d
  BY <1>1, EntryType, EntryTag
<1>3. /\ queue' = r.queue /\ QueueType' = QueueType
      /\ call' = [op |-> op, time |-> t, period |-> p, data |-> d, error |-> r.error]
  BY DEF Written, QueueType
<1> QED BY <1>1, <1>2, <1>3

\* A queue with room for an entry always holds one until it is reset.
LEMMA NonEmptyInit == Init => NonEmpty
<1> SUFFICES ASSUME Init, Size > 0 PROVE queue # <<>>
  BY DEF NonEmpty
<1> DEFINE e == Entry(0, MaxTime, Default)
           r == PushBack(QueueType, Size, <<>>, 0, MaxTime, Default)
<1>1. Default \in Values /\ Size \in Nat /\ QueueType \in QueueTypes
  BY QueueAssumption DEF Init, QueueType
<1>2. e \in EntriesOf(Values)
  BY <1>1, EntryType DEF Tags
<1>3. <<>> \in Seq(EntriesOf(Values)) /\ Ordered(<<>>)
  BY DEF Ordered
<1>4. Writes(Values, QueueType, Size, <<>>, e, MaxTime, r)
  BY <1>1, <1>3, PushBackWrites DEF Tags
<1> HIDE DEF e, r
<1>5. r.queue # <<>>
  BY <1>1, <1>2, <1>3, <1>4, WritesNonEmpty
<1> QED BY <1>5 DEF Init, r

LEMMA NonEmptyStep == IInv /\ NonEmpty /\ [Next]_vars => NonEmpty'
<1> SUFFICES ASSUME IInv, NonEmpty, [Next]_vars, Size > 0, Alive' PROVE queue' # <<>>
  BY DEF NonEmpty
<1>1. CASE WriteStep
  <2>1. PICK op \in {"push_back", "overwrite"}, t \in Times, p \in Periods, d \in Values : \E r :
             /\ Written(op, t, p, d, r)
             /\ Writes(Values, QueueType, Size, queue, Entry(t, p, d), p, r)
    BY <1>1 DEF WriteStep
  <2>2. PICK r : /\ Written(op, t, p, d, r)
                 /\ Writes(Values, QueueType, Size, queue, Entry(t, p, d), p, r)
    BY <2>1
  <2>3. /\ queue \in Seq(EntriesOf(Values)) /\ Ordered(queue) /\ Size \in Nat
        /\ Entry(t, p, d) \in EntriesOf(Values) /\ queue' = r.queue
    BY <2>2, WriteFacts
  <2> QED BY <2>2, <2>3, WritesNonEmpty
<1>2. CASE LookStep
  BY <1>2 DEF LookStep, NonEmpty, Alive
<1>3. CASE Reset
  BY <1>3 DEF Reset, Alive, IInv, TypeOK, Calls
<1> QED BY <1>1, <1>2, <1>3, StepKinds

\* Together with IInv it is inductive.
LEMMA NonEmptyInvariant == Spec => [](IInv /\ NonEmpty)
<1>1. Init => IInv /\ NonEmpty
  BY InitInvariant, NonEmptyInit
<1>2. IInv /\ NonEmpty /\ [Next]_vars => (IInv /\ NonEmpty)'
  BY StepInvariant, NonEmptyStep
<1> QED BY <1>1, <1>2, PTL DEF Spec

\* A write that reports no error can be read back with its own time tag, which
\* calculate_power relies on (kitfox.cc:961): whatever was accepted is the
\* newest entry its tag matches, and whatever was replaced is found again.
THEOREM WritesReadBack == Spec => []ReadYourWrite
<1>1. Init => ReadYourWrite
  BY DEF Init, ReadYourWrite
<1>2. IInv /\ NonEmpty /\ ReadYourWrite /\ [Next]_vars => ReadYourWrite'
  <2> SUFFICES ASSUME IInv, NonEmpty, ReadYourWrite, [Next]_vars PROVE ReadYourWrite'
    OBVIOUS
  <2>1. CASE WriteStep
    <3>1. PICK op \in {"push_back", "overwrite"}, t \in Times, p \in Periods, d \in Values : \E r :
               /\ Written(op, t, p, d, r)
               /\ Writes(Values, QueueType, Size, queue, Entry(t, p, d), p, r)
      BY <2>1 DEF WriteStep
    <3>2. PICK r : /\ Written(op, t, p, d, r)
                   /\ Writes(Values, QueueType, Size, queue, Entry(t, p, d), p, r)
      BY <3>1
    <3>3. /\ queue \in Seq(EntriesOf(Values)) /\ Ordered(queue)
          /\ QueueType \in QueueTypes /\ Size \in Nat
          /\ t \in Nat /\ p \in Tags
          /\ queue' = r.queue /\ QueueType' = QueueType
          /\ call' = [op |-> op, time |-> t, period |-> p, data |-> d, error |-> r.error]
      BY <3>2, WriteFacts
    <3>4. ASSUME Size > 0, r.error = "NONE", p # Unspecified => p >= 2 * Precision,
                 NEW junk \in Values
          PROVE  Get(QueueType, r.queue, t, p, junk) = [data |-> d, error |-> "NONE"]
      <4>0. p \in Nat
        BY <3>3, <3>4, GridAssumption DEF Tags, MaxTime, Unspecified, Precision
      <4>1. CASE Accepts(Values, QueueType, Size, queue, Entry(t, p, d), p, r)
        BY <3>3, <3>4, <4>0, <4>1, ReadAccepted
      <4>2. CASE Replaces(QueueType, queue, Entry(t, p, d), p, r)
        BY <3>3, <4>2, ReadReplaced
      <4>3. ~ Restarts(Size, queue, Entry(t, p, d), r)
        <5>1. queue # <<>>
          BY <2>1, <3>4 DEF WriteStep, NonEmpty
        <5> QED BY <3>4, <5>1 DEF Restarts
      <4> QED BY <3>2, <4>1, <4>2, <4>3 DEF Writes
    <3>5. /\ call'.time = t /\ call'.period = p /\ call'.data = d /\ call'.error = r.error
      BY <3>3
    <3> QED BY <3>3, <3>4, <3>5 DEF ReadYourWrite
  <2>2. CASE LookStep
    <3>1. CASE call'.op \in {"get", "register_callback"}
      BY <3>1 DEF ReadYourWrite
    <3>2. CASE UNCHANGED call
      BY <2>2, <3>2 DEF LookStep, ReadYourWrite, QueueType
    <3> QED BY <2>2, <3>1, <3>2 DEF LookStep
  <2>3. CASE Reset
    <3>1. call'.op = "reset"
      BY <2>3 DEF Reset, IInv, TypeOK, Calls
    <3> QED BY <3>1 DEF ReadYourWrite
  <2> QED BY <2>1, <2>2, <2>3, StepKinds
<1> QED BY <1>1, <1>2, NonEmptyInvariant, PTL DEF Spec

\* The intervals of a discrete queue follow one another with no overlap and no
\* gap (queue.h:180), whatever was pushed, overwritten, evicted or flushed, as
\* long as the specified periods of the callers are resolved by the precision.
THEOREM IntervalsLinked == Spec => []NoOverlapOrGap
<1>1. Init => NoOverlapOrGap
  <2> SUFFICES ASSUME Init, QueueType = "DISCRETE" PROVE Linked(queue)
    BY DEF NoOverlapOrGap, Linked
  <2> DEFINE e == Entry(0, MaxTime, Default)
             r == PushBack(QueueType, Size, <<>>, 0, MaxTime, Default)
  <2>1. Default \in Values /\ Size \in Nat /\ QueueType \in QueueTypes
    BY QueueAssumption DEF Init, QueueType
  <2>2. e \in EntriesOf(Values)
    BY <2>1, EntryType DEF Tags
  <2>3. <<>> \in Seq(EntriesOf(Values)) /\ Ordered(<<>>) /\ Linked(<<>>)
    BY DEF Ordered, Linked
  <2>4. Writes(Values, "DISCRETE", Size, <<>>, e, MaxTime, r)
    BY <2>1, <2>3, PushBackWrites DEF Tags
  <2> HIDE DEF e, r
  <2>5. Linked(r.queue)
    BY <2>1, <2>2, <2>3, <2>4, WritesLinked DEF Resolved
  <2> QED BY <2>5 DEF Init, r
<1>2. IInv /\ NoOverlapOrGap /\ [Next]_vars => NoOverlapOrGap'
  <2> SUFFICES ASSUME IInv, NoOverlapOrGap, [Next]_vars,
                      QueueType' = "DISCRETE", ResolvedPeriods'
               PROVE  Linked(queue')
    BY DEF NoOverlapOrGap, Linked
  <2>1. CASE WriteStep
    <3>1. PICK op \in {"push_back", "overwrite"}, t \in Times, p \in Periods, d \in Values : \E r :
               /\ Written(op, t, p, d, r)
               /\ Writes(Values, QueueType, Size, queue, Entry(t, p, d), p, r)
      BY <2>1 DEF WriteStep
    <3>2. PICK r : /\ Written(op, t, p, d, r)
                   /\ Writes(Values, QueueType, Size, queue, Entry(t, p, d), p, r)
      BY <3>1
    <3>3. /\ queue \in Seq(EntriesOf(Values)) /\ Ordered(queue) /\ Size \in Nat
          /\ Entry(t, p, d) \in EntriesOf(Values)
          /\ queue' = r.queue /\ QueueType' = QueueType
      BY <3>2, WriteFacts
    <3>4. ResolvedPeriods /\ Resolved(p)
      <4>1. ResolvedPeriods
        BY <3>2 DEF Written, ResolvedPeriods, Periods
      <4> QED BY <4>1 DEF ResolvedPeriods, Resolved
    <3>5. Linked(queue)
      BY <3>3, <3>4 DEF NoOverlapOrGap, Linked
    <3>6. Writes(Values, "DISCRETE", Size, queue, Entry(t, p, d), p, r)
      BY <3>2, <3>3
    <3>7. Linked(r.queue)
      BY <3>3, <3>4, <3>5, <3>6, WritesLinked
    <3> QED BY <3>3, <3>7
  <2>2. CASE LookStep
    BY <2>2 DEF LookStep, NoOverlapOrGap, Linked, ResolvedPeriods, QueueType, Periods
  <2>3. CASE Reset
    BY <2>3 DEF Reset, Linked
  <2> QED BY <2>1, <2>2, <2>3, StepKinds
<1> QED BY <1>1, <1>2, Invariant, PTL DEF Spec

\* The library is never told of a datum the queue then drops: what it was last
\* told is still stored (queue.h:190, queue.h:262: the callback follows the
\* write, whatever the write did).
THEOREM LibraryInStep == Spec => []LibraryHasStoredDatum
<1>1. Init => StoredWhenTold
  BY DEF Init, StoredWhenTold, Told, LibraryHasStoredDatum
<1>2. IInv /\ StoredWhenTold /\ [Next]_vars => StoredWhenTold'
  <2> SUFFICES ASSUME IInv, StoredWhenTold, [Next]_vars PROVE StoredWhenTold'
    OBVIOUS
  <2>1. CASE WriteStep
    <3>1. PICK op \in {"push_back", "overwrite"}, t \in Times, p \in Periods, d \in Values : \E r :
               /\ Written(op, t, p, d, r)
               /\ Writes(Values, QueueType, Size, queue, Entry(t, p, d), p, r)
      BY <2>1 DEF WriteStep
    <3>2. PICK r : /\ Written(op, t, p, d, r)
                   /\ Writes(Values, QueueType, Size, queue, Entry(t, p, d), p, r)
      BY <3>1
    <3>3. /\ queue \in Seq(EntriesOf(Values)) /\ Ordered(queue) /\ Size \in Nat
          /\ Entry(t, p, d) \in EntriesOf(Values) /\ Entry(t, p, d).data = d
          /\ queue' = r.queue
      BY <3>2, WriteFacts
    <3>4. /\ registered' = registered
          /\ library' = IF registered THEN d ELSE library
      BY <3>2 DEF Written, Callback
    <3>5. ASSUME Size > 0, ResolvedPeriods' PROVE Stores(queue', d)
      <4>1. ResolvedPeriods
        BY <3>2, <3>5 DEF Written, ResolvedPeriods, Periods
      <4>2. Resolved(p)
        BY <4>1 DEF ResolvedPeriods, Resolved
      <4> QED BY <3>2, <3>3, <3>5, <4>2, WritesStored
    <3> QED BY <3>4, <3>5 DEF StoredWhenTold, Told, LibraryHasStoredDatum, Stores
  <2>2. CASE LookStep
    BY <2>2 DEF LookStep, StoredWhenTold, Told, LibraryHasStoredDatum, ResolvedPeriods,
                Periods, Alive
  <2>3. CASE Reset
    <3>1. call'.op = "reset"
      BY <2>3 DEF Reset, IInv, TypeOK, Calls
    <3> QED BY <2>3, <3>1 DEF Reset, StoredWhenTold, Told, LibraryHasStoredDatum, Alive
  <2> QED BY <2>1, <2>2, <2>3, StepKinds
<1>3. StoredWhenTold => LibraryHasStoredDatum
  BY DEF StoredWhenTold
<1> QED BY <1>1, <1>2, <1>3, Invariant, PTL DEF Spec

\* A call that reports no error never loses history: an interval leaves the
\* queue only when the queue is full, and everything older than what stays
\* (queue.h:165, 184, 255).
THEOREM NoHistoryLost == Spec => NoSilentLoss
<1>1. IInv /\ [Next]_vars => [LosesOldestOnly]_vars
  <2> SUFFICES ASSUME IInv, [Next]_vars, call'.error = "NONE", call'.op # "reset",
                      NEW i \in DOMAIN queue
               PROVE  \/ \E j \in DOMAIN queue' : /\ queue'[j].time = queue[i].time
                                                  /\ queue'[j].period = queue[i].period
                      \/ /\ Len(queue') = Size
                         /\ \A j \in DOMAIN queue' : Earlier(queue[i], queue'[j])
    BY DEF LosesOldestOnly
  <2>1. CASE WriteStep
    <3>1. PICK op \in {"push_back", "overwrite"}, t \in Times, p \in Periods, d \in Values : \E r :
               /\ Written(op, t, p, d, r)
               /\ Writes(Values, QueueType, Size, queue, Entry(t, p, d), p, r)
      BY <2>1 DEF WriteStep
    <3>2. PICK r : /\ Written(op, t, p, d, r)
                   /\ Writes(Values, QueueType, Size, queue, Entry(t, p, d), p, r)
      BY <3>1
    <3>3. /\ queue \in Seq(EntriesOf(Values)) /\ Ordered(queue) /\ Size \in Nat
          /\ Entry(t, p, d) \in EntriesOf(Values)
          /\ queue' = r.queue /\ r.error = "NONE"
      BY <3>2, WriteFacts
    <3>4. CASE Accepts(Values, QueueType, Size, queue, Entry(t, p, d), p, r)
      <4>1. PICK x \in EntriesOf(Values) : r = Accept(queue, x, Size)
        BY <3>4 DEF Accepts
      <4>2. \/ \E j \in DOMAIN r.queue : r.queue[j] = queue[i]
            \/ Len(r.queue) = Size /\ \A j \in DOMAIN r.queue : Earlier(queue[i], r.queue[j])
        BY <3>3, <4>1, AcceptKeeps
      <4> QED BY <3>3, <4>2
    <3>5. CASE Replaces(QueueType, queue, Entry(t, p, d), p, r)
      <4>1. SameTags(queue, r.queue)
        BY <3>3, <3>5, ReplaceLeaves
      <4> QED BY <3>3, <4>1 DEF SameTags
    <3>6. ~ Restarts(Size, queue, Entry(t, p, d), r)
      <4>1. queue # <<>>
        OBVIOUS
      <4> QED BY <3>3, <4>1 DEF Restarts
    <3> QED BY <3>2, <3>4, <3>5, <3>6 DEF Writes
  <2>2. CASE LookStep
    BY <2>2 DEF LookStep
  <2>3. CASE Reset
    BY <2>3 DEF Reset, IInv, TypeOK, Calls
  <2> QED BY <2>1, <2>2, <2>3, StepKinds
<1> QED BY <1>1, Invariant, PTL DEF Spec, NoSilentLoss

=============================================================================
