---------------------------- MODULE DataQueueOps ----------------------------
(***************************************************************************)
(* data_queue_t of queue.h as functions of a queue.  The std::map from     *)
(* tags to data is the sequence of its entries in key order: begin() is    *)
(* the first, rbegin() the last.                                           *)
(***************************************************************************)
EXTENDS DataTime, SequencesExt

\* KITFOX_QUEUE_TYPE
QueueTypes == {"DISCRETE", "OPEN"}

\* the members of KITFOX_QUEUE_ERROR_TYPE that a data queue sets
QueueErrors == {"NONE", "DISCONTINUOUS", "OUTORDER", "OVERLAP", "INVALID"}

\* The entries of a map: truncated tags and the data stored under them
EntriesOf(data) == [time : Nat, period : Nat \cup {Infinite}, data : data]

Newest(q) == q[Len(q)]

\* What std::map needs of its keys to find them again: they are in order and
\* no two of them are the same key
Ordered(q) == \A i, j \in DOMAIN q : i < j => Earlier(q[i], q[j])

\* std::map::insert: nothing happens when the key is already there
Insert(q, e) ==
    IF \E i \in DOMAIN q : SameKey(q[i], e)
      THEN q
      ELSE LET k == CHOOSE k \in 0 .. Len(q) :
                        \A i \in DOMAIN q : Earlier(q[i], e) <=> i <= k
           IN  InsertAt(q, k + 1, e)

\* Mutants: the newest entries are erased; one entry too few is erased
FitDroppingNewest(q, size) == IF Len(q) > size THEN SubSeq(q, 1, size) ELSE q

FitTooLoose(q, size) ==
    IF Len(q) > size + 1 THEN SubSeq(q, Len(q) - size, Len(q)) ELSE q

\* Mutant: a flush forgets to set the error code
FlushSilently(e, err) == [queue |-> <<e>>, error |-> "NONE"]

\* while(queue.size() > size) queue.erase(queue.begin())
Fit(q, size) ==
    IF Len(q) > size THEN SubSeq(q, Len(q) - size + 1, Len(q)) ELSE q

\* the three ways a write ends
Accept(q, e, size) == [queue |-> Fit(Insert(q, e), size), error |-> "NONE"]
First(e)           == [queue |-> <<e>>, error |-> "NONE"]
Flush(e, err)      == [queue |-> <<e>>, error |-> err]

\* the error code of a push whose interval does not follow the newest entry
TimeViolation(last, e) ==
    CASE CoversStart(last, e) \/ Covers(last, e.time) -> "OVERLAP"
      [] ~CoversStart(last, e) /\ ~Covers(last, e.time) /\ Earlier(last, e)
             -> "DISCONTINUOUS"
      [] OTHER -> "OUTORDER"

\* Mutant: the operands of the subtraction are swapped
DerivedSwapped(q, e) == [e EXCEPT !.period = GetTruncTime(Newest(q).time - e.time)]

\* a write without a period: the period is the distance to the newest entry
Derived(q, e) == [e EXCEPT !.period = GetTruncTime(e.time - Newest(q).time)]

\* Mutant: the entry keeps the period of the call, which is none
WriteUnderived(q, e, size, err) ==
    IF q = <<>> \/ After(e, Newest(q).time) THEN Accept(q, e, size) ELSE Flush(e, err)

\* a write whose call gives no period
WriteUnspecified(q, e, size, err) ==
    CASE q = <<>> -> First(e)
      [] q # <<>> /\ After(e, Newest(q).time) -> Accept(q, Derived(q, e), size)
      [] OTHER -> Flush(e, err)

\* Mutant: a later interval is accepted even if it leaves a gap
WriteLater(q, e, size, err) ==
    IF q = <<>> \/ Earlier(Newest(q), e) THEN Accept(q, e, size) ELSE Flush(e, err)

\* a write whose call gives a period
WriteSpecified(q, e, size, err) ==
    IF q = <<>> \/ Continuous(Newest(q), e)
      THEN Accept(q, e, size)
      ELSE Flush(e, err)

PushOpen(q, e, size) ==
    IF q # <<>> /\ AtOrBefore(e, Newest(q).time)
      THEN [queue |-> Fit(<<e>>, size), error |-> "OUTORDER"]
      ELSE Accept(q, e, size)

\* data_queue_t::push_back
PushBack(type, size, q, t, p, d) ==
    LET e == Entry(t, p, d) IN
    CASE type = "OPEN" -> PushOpen(q, e, size)
      [] type = "DISCRETE" /\ p = Unspecified ->
             WriteUnspecified(q, e, size, "OVERLAP")
      [] type = "DISCRETE" /\ p # Unspecified ->
             WriteSpecified(q, e, size,
                            IF q = <<>> THEN "NONE" ELSE TimeViolation(Newest(q), e))

\* the entries overwrite and get look for, scanning from the newest
Replaceable(type, q, e, p) ==
    {i \in DOMAIN q : CASE type = "OPEN" -> At(e, q[i].time)
                        [] type = "DISCRETE" /\ p = Unspecified -> Covers(q[i], e.time)
                        [] type = "DISCRETE" /\ p # Unspecified -> SameRange(q[i], e)}

Readable(type, q, e, p) ==
    {i \in DOMAIN q : CASE type = "OPEN" -> AtOrAfter(e, q[i].time)
                        [] type = "DISCRETE" /\ p = Unspecified -> Covers(q[i], e.time)
                        [] type = "DISCRETE" /\ p # Unspecified -> SameRange(q[i], e)}

LastOf(S) == CHOOSE i \in S : \A j \in S : j <= i

OverwriteMiss(type, size, q, e, p) ==
    CASE type = "OPEN" ->
             IF q = <<>> \/ After(e, Newest(q).time)
               THEN Accept(q, e, size) ELSE Flush(e, "OUTORDER")
      [] type = "DISCRETE" /\ p = Unspecified -> WriteUnspecified(q, e, size, "OUTORDER")
      [] type = "DISCRETE" /\ p # Unspecified -> WriteSpecified(q, e, size, "OUTORDER")

\* Mutant: the time tag is replaced with the datum
OverwriteTag(type, size, q, t, p, d) ==
    LET e == Entry(t, p, d)
        m == Replaceable(type, q, e, p)
    IN  IF m # {}
          THEN [queue |-> [q EXCEPT ![LastOf(m)] = e], error |-> "NONE"]
          ELSE OverwriteMiss(type, size, q, e, p)

\* data_queue_t::overwrite
Overwrite(type, size, q, t, p, d) ==
    LET e == Entry(t, p, d)
        m == Replaceable(type, q, e, p)
    IN  IF m # {}
          THEN [queue |-> [q EXCEPT ![LastOf(m)].data = d], error |-> "NONE"]
          ELSE OverwriteMiss(type, size, q, e, p)

\* data_queue_t::get.  On a miss the code returns a local it never assigned:
\* noData stands for whatever it holds.
Get(type, q, t, p, noData) ==
    LET e == Entry(t, p, noData)
        m == Readable(type, q, e, p)
    IN  IF m # {}
          THEN [data |-> q[LastOf(m)].data, error |-> "NONE"]
          ELSE [data |-> noData, error |-> "INVALID"]

=============================================================================
