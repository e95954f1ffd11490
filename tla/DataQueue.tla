----------------------------- MODULE DataQueue ------------------------------
(***************************************************************************)
(* One data queue of a pseudo component from its creation to the           *)
(* destruction of the component: the data_queue_t of one data type inside  *)
(* the component's queue_t, the error code both keep, and the model        *)
(* library the queue_t calls back after every write.                       *)
(*                                                                         *)
(* The callers are the calculate_*, synchronize_data, push, pull and       *)
(* overwrite functions of kitfox_t; here they are any sequence of calls,   *)
(* in any order, with the times and periods of the kind of queue it is.    *)
(***************************************************************************)
EXTENDS DataQueueOps

CONSTANTS
    Kinds,      \* the kinds of queues: KITFOX_QUEUE_DISCRETE or KITFOX_QUEUE_OPEN,
                \* with the times and periods of the calls in raw units
    Size,       \* the queue_size of the configuration
    Values,     \* the data
    Default,    \* the datum a queue is created with
    Nothing     \* what a library holds before its first callback

ASSUME QueueAssumption ==
    /\ \A k \in Kinds : /\ k.type \in QueueTypes
                        /\ k.times \subseteq Nat
                        /\ k.periods \subseteq Nat \cup {MaxTime}
    /\ Size \in Nat
    /\ Default \in Values
    /\ Nothing \notin Values

VARIABLES
    kind,        \* the kind of queue this is; it never changes
    queue,       \* data_queue_t::queue, in key order
    error,       \* base_queue_t::error
    registered,  \* queue_t::library and queue_t::cb are set
    library,     \* the datum the library was last given
    call         \* the last call and what it returned

vars == <<kind, queue, error, registered, library, call>>

QueueType == kind.type
Times     == kind.times
Periods   == kind.periods

Ops == {"create", "push_back", "overwrite", "get", "register_callback", "reset"}

Calls == [op : Ops, time : Nat, period : Nat \cup {MaxTime}, data : Values,
          error : QueueErrors]

-----------------------------------------------------------------------------

\* queue_t::create: the queue starts with the default datum, valid forever
Init ==
    /\ kind \in Kinds
    /\ queue = PushBack(QueueType, Size, <<>>, 0, MaxTime, Default).queue
    /\ error = "NONE"
    /\ registered = FALSE
    /\ library = Nothing
    /\ call = [op |-> "create", time |-> 0, period |-> MaxTime,
               data |-> Default, error |-> "NONE"]

Alive == call.op # "reset"

\* queue_t::callback: the library gets every datum written, in whatever
\* interval it was written and whatever error the write set
Callback(d) == library' = IF registered THEN d ELSE library

\* The end of queue_t::push_back and queue_t::overwrite, and the get_error
\* their callers make next
Written(op, t, p, d, result) ==
    /\ queue' = result.queue
    /\ error' = result.error
    /\ Callback(d)
    /\ call' = [op |-> op, time |-> t, period |-> p, data |-> d,
                error |-> result.error]
    /\ UNCHANGED <<kind, registered>>

\* queue_t::push_back
Push(t, p, d) ==
    /\ Alive
    /\ Written("push_back", t, p, d, PushBack(QueueType, Size, queue, t, p, d))

\* queue_t::overwrite
OverwriteData(t, p, d) ==
    /\ Alive
    /\ Written("overwrite", t, p, d, Overwrite(QueueType, Size, queue, t, p, d))

\* queue_t::get
Pull(t, p, noData) ==
    LET result == Get(QueueType, queue, t, p, noData) IN
    /\ Alive
    /\ error' = result.error
    /\ call' = [op |-> "get", time |-> t, period |-> p, data |-> result.data,
                error |-> result.error]
    /\ UNCHANGED <<kind, queue, registered, library>>

\* queue_t::register_callback, at the end of init_pseudo_component
RegisterCallback ==
    /\ Alive
    /\ ~registered
    /\ registered' = TRUE
    /\ call' = [call EXCEPT !.op = "register_callback"]
    /\ UNCHANGED <<kind, queue, error, library>>

\* queue_t::reset and data_queue_t::reset, only called by the destructor of
\* the component
Reset ==
    /\ Alive
    /\ queue' = <<>>
    /\ error' = "NONE"
    /\ call' = [call EXCEPT !.op = "reset", !.error = "NONE"]
    /\ UNCHANGED <<kind, registered, library>>

Next ==
    \/ \E t \in Times, p \in Periods, d \in Values : Push(t, p, d)
    \/ \E t \in Times, p \in Periods, d \in Values : OverwriteData(t, p, d)
    \/ \E t \in Times, p \in Periods, d \in Values : Pull(t, p, d)
    \/ RegisterCallback
    \/ Reset

Spec == Init /\ [][Next]_vars

-----------------------------------------------------------------------------

\* Types: the entries' tags are truncated times and non-negative periods, the
\* error is one a data queue sets, and the error the last call returned is
\* the one the queue still holds.
TypeOK ==
    /\ kind \in Kinds
    /\ queue \in Seq(EntriesOf(Values))
    /\ error \in QueueErrors
    /\ registered \in BOOLEAN
    /\ library \in Values \cup {Nothing}
    /\ call \in Calls
    /\ call.error = error

\* The map is ordered: any two entries are at least MAX_TIME_PRECISION apart,
\* in key order, although operator< is no strict weak order on arbitrary tags
\* (queue.cc:44).
Sorted == Ordered(queue)

\* The most entries a queue can hold: with size 0 a first insert or a flush
\* still leaves its entry, neither trims (queue.h:155, 174, 202).
Capacity == IF Size = 0 THEN 1 ELSE Size

\* No call leaves more entries than the configured size, or one when that
\* is 0 (queue.h:165, 184, 255).
Bounded == Len(queue) <= Capacity

\* Every specified period of a caller spans two precisions.
ResolvedPeriods == \A p \in Periods \ {Unspecified, MaxTime} : p >= 2 * Precision

\* "Check if data time is continuous; no overlap or gap" (queue.h:180): each
\* interval of a discrete queue starts where the one before ends, within the
\* precision, whatever was pushed, overwritten, evicted or flushed.
NoOverlapOrGap ==
    QueueType = "DISCRETE" /\ ResolvedPeriods =>
        \A i \in DOMAIN queue : i > 1 => Continuous(queue[i - 1], queue[i])

\* A write that reports no error can be read back with its own time tag.
\* calculate_power (kitfox.cc:961-966) relies on it: it ignores the error of
\* its push and exits when the pull that follows misses.
ReadYourWrite ==
    /\ Size > 0
    /\ call.op \in {"push_back", "overwrite"}
    /\ call.error = "NONE"
    /\ call.period # Unspecified => call.period >= 2 * Precision
    => \A junk \in Values :
         Get(QueueType, queue, call.time, call.period, junk) =
            [data |-> call.data, error |-> "NONE"]

\* What the library was last told is a datum the queue still holds: no
\* callback announces data that was dropped on insertion.
LibraryHasStoredDatum ==
    Size > 0 /\ ResolvedPeriods /\ library # Nothing /\ Alive =>
        \E i \in DOMAIN queue : queue[i].data = library

\* A call that reports no error never loses history: an entry disappears only
\* because the queue is full, and then the oldest ones go first.
LosesOldestOnly ==
    call'.error = "NONE" /\ call'.op # "reset" =>
        \A i \in DOMAIN queue :
            \/ \E j \in DOMAIN queue' : /\ queue'[j].time = queue[i].time
                                        /\ queue'[j].period = queue[i].period
            \/ /\ Len(queue') = Size
               /\ \A j \in DOMAIN queue' : Earlier(queue[i], queue'[j])

NoSilentLoss == [][LosesOldestOnly]_vars

=============================================================================
