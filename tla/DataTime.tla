------------------------------ MODULE DataTime ------------------------------
(***************************************************************************)
(* The time tags of the data queues: data_time_t of queue.h and queue.cc.  *)
(*                                                                         *)
(* A tag is a pair (time, period) and stands for the interval              *)
(* (time - period, time].  Times are integers in raw units; Grid raw units *)
(* are MAX_TIME_PRECISION/2, the grid get_trunc_time truncates to, so that *)
(* MAX_TIME_PRECISION is 2 * Grid.  A raw time need not lie on the grid:   *)
(* what the floating-point clock of a simulator computes for a sampling    *)
(* point is only close to it.                                              *)
(***************************************************************************)
EXTENDS Integers

CONSTANT Grid   \* raw units in MAX_TIME_PRECISION/2

ASSUME GridAssumption == Grid \in Nat \ {0}

\* MAX_TIME_PRECISION
Precision == 2 * Grid

\* UNSPECIFIED_TIME, the period of a call that gives none
Unspecified == 0

\* MAX_TIME is DBL_MAX/2.  Dividing it by MAX_TIME_PRECISION/2 overflows, so
\* the truncated period is the floating-point infinity.  Periods are never
\* negative, so -1 is free to name both.
MaxTime  == -1
Infinite == -1

\* data_time_t::get_trunc_time
GetTruncTime(t) == IF t = MaxTime THEN Infinite ELSE Grid * (t \div Grid)

\* Mutant: the tag holds the start of the interval instead of its end
EntryAtStart(t, p, d) ==
    [time |-> GetTruncTime(t - p), period |-> GetTruncTime(p), data |-> d]

\* the constructor data_time_t(t, p), with the datum the map stores beside it
Entry(t, p, d) ==
    [time |-> GetTruncTime(t), period |-> GetTruncTime(p), data |-> d]

Finite(e) == e.period # Infinite

\* data_time_t::operator<, the order of the map's keys; operator> is its
\* converse.  Neither x < y nor y < x makes x and y the same key.
Earlier(x, y) == y.time - x.time >= Precision
SameKey(x, y) == ~Earlier(x, y) /\ ~Earlier(y, x)

\* Mutant: without the tolerance of the precision
ContinuousExact(x, y) == Finite(y) /\ x.time = y.time - y.period

\* data_time_t::operator<=: y starts where x ends.  With an infinite period
\* the difference is infinite and the comparison fails.
Continuous(x, y) ==
    /\ Finite(y)
    /\ x.time - (y.time - y.period) \in -Precision .. Precision

\* Mutant: without the tolerance of the precision
SameRangeExact(x, y) == Finite(x) /\ x.time = y.time /\ x.period = y.period

\* data_time_t::operator==: the same interval.  The difference of two infinite
\* periods is not a number, and of an infinite and a finite one infinite:
\* both comparisons fail.
SameRange(x, y) ==
    /\ Finite(x) /\ Finite(y)
    /\ x.time - y.time \in -Precision .. Precision
    /\ x.period - y.period \in -Precision .. Precision

\* data_time_t::operator[]: t lies in the interval of x
Covers(x, t) ==
    /\ Finite(x) => t - (x.time - x.period) >= Precision
    /\ t - x.time <= Precision

\* operator[] at the start of y; minus infinity lies in no interval
CoversStart(x, y) == Finite(y) /\ Covers(x, y.time - y.period)

\* operator>, operator<=, operator>= and operator== of a tag and a time
After(x, t)     == x.time - t >= Precision
AtOrBefore(x, t) == x.time - t <= Precision
AtOrAfter(x, t)  == t - x.time <= Precision
At(x, t)        == x.time - t \in -Precision .. Precision

=============================================================================
