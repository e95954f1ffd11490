--------------------------- MODULE SampledSignal ----------------------------
(***************************************************************************)
(* What a closed data queue promises a simulator that samples with a fixed *)
(* period: a window of the last Size samples, each readable by its         *)
(* sampling point or by any time in its interval.  No error can happen.    *)
(***************************************************************************)
EXTENDS Naturals, Sequences

CONSTANTS Size, Values, Default

VARIABLES
    window,   \* the samples that can be read, oldest first
    answer    \* what the last read returned

TypeOK == window \in Seq(Values) /\ answer \in Values

Init == window = <<Default>> /\ answer = Default

Latest(s) == IF Len(s) > Size THEN Tail(s) ELSE s

\* A new sample is taken and read back
Take(d) ==
    /\ window' = Latest(Append(window, d))
    /\ answer' = d

\* A new sample is taken after the newest one was read
Accumulate(d) ==
    /\ window' = Latest(Append(window, d))
    /\ answer' = window[Len(window)]

Read(k) ==
    /\ answer' = window[k]
    /\ UNCHANGED window

Revise(k, d) ==
    /\ window' = [window EXCEPT ![k] = d]
    /\ UNCHANGED answer

Next ==
    \/ \E d \in Values : Take(d) \/ Accumulate(d)
    \/ \E k \in DOMAIN window : Read(k)
    \/ \E k \in DOMAIN window, d \in Values : Revise(k, d)

Spec == Init /\ [][Next]_<<window, answer>>

=============================================================================
