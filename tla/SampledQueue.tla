---------------------------- MODULE SampledQueue ----------------------------
(***************************************************************************)
(* A closed queue of a component, used the way the calculate_* functions   *)
(* of kitfox_t use it: a simulator samples at n * Step for n = 1, 2, ...   *)
(* with period Step.  Each caller computes its times and periods in        *)
(* floating point, so every tag that a call passes is up to Jitter raw     *)
(* units away from the point it means, in its time and in its period, and  *)
(* two calls that mean the same point need not agree.                      *)
(***************************************************************************)
EXTENDS DataQueueOps

CONSTANTS
    Step,        \* the sampling period, in raw units
    Jitter,      \* bound on the floating-point error of a time or a period
    Size,        \* the configured size of the queue
    MaxSamples,  \* bound on the number of samples taken
    Values, Default,
    Exit         \* kitfox_t::error: the program ends

ASSUME SamplingAssumption ==
    /\ Step \in Nat /\ Jitter \in Nat /\ Size \in Nat \ {0} /\ MaxSamples \in Nat
    /\ 3 * Jitter < Grid
    /\ Step >= 3 * Precision
    /\ Default \in Values /\ Exit \notin Values

VARIABLES
    queue,    \* the entries of the queue
    taken,    \* the number of samples taken
    answer    \* the datum the last read returned, or Exit

vars == <<queue, taken, answer>>

Wobble == -Jitter .. Jitter

\* The tags a caller may pass for sample n.  Sample 0 is the entry the queue
\* was created with: its tag has no period (kitfox.cc:1092), and a time below
\* zero truncates to zero.
TimesOf(n)   == {n * Step + w : w \in Wobble} \cap Nat
PeriodsOf(n) == IF n = 0 THEN {Unspecified} ELSE {Step + w : w \in Wobble}

\* pull_data followed by the caller's check of the error code
Checked(result) == IF result.error = "NONE" THEN result.data ELSE Exit

Pulled(q, t, p, noData) == Checked(Get("DISCRETE", q, t, p, noData))

Init ==
    /\ queue = PushBack("DISCRETE", Size, <<>>, 0, MaxTime, Default).queue
    /\ taken = 0
    /\ answer = Default

Running == answer # Exit

\* kitfox_t::calculate_power: push, ignore its error, pull with the same tag
CalculatePower(t, p, d, noData) ==
    LET pushed == PushBack("DISCRETE", Size, queue, t, p, d) IN
    /\ queue' = pushed.queue
    /\ taken' = taken + 1
    /\ answer' = Pulled(pushed.queue, t, p, noData)

\* kitfox_t::calculate_failure_rate: the rate of the previous sampling point,
\* whose tag is computed by subtraction, then the push asserted to succeed
CalculateFailureRate(before, beforePeriod, t, p, d, noData) ==
    LET rate   == Pulled(queue, before, beforePeriod, noData)
        pushed == PushBack("DISCRETE", Size, queue, t, p, d)
    IN  /\ queue' = IF rate = Exit THEN queue ELSE pushed.queue
        /\ taken' = IF rate = Exit THEN taken ELSE taken + 1
        /\ answer' = IF pushed.error = "NONE" THEN rate ELSE Exit

\* pull_data for a sample of the window
PullSample(t, p, noData) ==
    /\ answer' = Pulled(queue, t, p, noData)
    /\ UNCHANGED <<queue, taken>>

\* overwrite_data for a sample of the window, as synchronize_data makes it
OverwriteSample(t, p, d) ==
    LET result == Overwrite("DISCRETE", Size, queue, t, p, d) IN
    /\ queue' = result.queue
    /\ answer' = IF result.error = "NONE" THEN answer ELSE Exit
    /\ UNCHANGED taken

\* The samples the window should hold: the last Size of 0 .. taken
Window == {n \in 0 .. taken : taken - n < Size}

Sampling(noData) ==
    /\ taken < MaxSamples
    /\ \E t \in TimesOf(taken + 1), p \in PeriodsOf(taken + 1), d \in Values :
         \/ CalculatePower(t, p, d, noData)
         \/ \E before \in TimesOf(taken), q \in PeriodsOf(taken) :
              CalculateFailureRate(before, q, t, p, d, noData)

\* A read without a period may name any time of the sample's interval that is
\* more than two precisions from its start
PullInside(n, noData) ==
    /\ n > 0
    /\ \E t \in (n - 1) * Step + 2 * Precision .. n * Step + Jitter :
         PullSample(t, Unspecified, noData)

Next ==
    /\ Running
    /\ \E noData \in Values :
         \/ Sampling(noData)
         \/ \E n \in Window :
              \/ \E t \in TimesOf(n), p \in PeriodsOf(n) : PullSample(t, p, noData)
              \/ PullInside(n, noData)
              \/ \E t \in TimesOf(n), p \in PeriodsOf(n), d \in Values :
                   OverwriteSample(t, p, d)

Spec == Init /\ [][Next]_vars

-----------------------------------------------------------------------------

TypeOK ==
    /\ queue \in Seq(EntriesOf(Values))
    /\ taken \in 0 .. MaxSamples
    /\ answer \in Values \cup {Exit}

\* The queue holds exactly the window: entry by entry the samples asked for,
\* each tag within a grid unit of its sampling point.
HoldsWindow ==
    /\ Len(queue) = IF taken < Size THEN taken + 1 ELSE Size
    /\ \A i \in DOMAIN queue :
         LET n == taken - Len(queue) + i IN
         queue[i].time - n * Step \in -Grid - Jitter .. Jitter

\* The data window of the abstract signal and the datum it answered
Signal == INSTANCE SampledSignal WITH
    window <- [i \in DOMAIN queue |-> queue[i].data]

\* No fixed-period run of the simulator ends in an error, loses a sample, or
\* reads one sample for another.
ImplementsSignal == Signal!Spec

=============================================================================
