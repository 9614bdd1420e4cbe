-------------------------- MODULE TrainingSchedule --------------------------
(***************************************************************************)
(* The fixed schedule of a private training run, and what its result is.   *)
(* The micro-batches of an epoch are taken in order, Accumulation at a     *)
(* time; each such window is one optimizer step.                           *)
(***************************************************************************)
EXTENDS Integers

CONSTANTS
    MaxEpochs,      \* config["max_epochs"]
    Batches,        \* micro-batches of one epoch
    Accumulation,   \* micro-batches of one optimizer step
    Patience,       \* config["patience"]
    Scores          \* the values a dev evaluation can return

ASSUME ScheduleAssumption ==
    /\ MaxEpochs \in Nat \ {0}
    /\ Batches \in Nat \ {0}
    /\ Accumulation \in Nat \ {0}
    /\ Patience \in Nat \ {0}
    /\ Scores \subseteq Nat

Epochs == 1..MaxEpochs

\* The batch at which each window of an epoch starts.
WindowStarts == {b \in 0..(Batches - 1) : b % Accumulation = 0}
Slots == Epochs \X WindowStarts

\* Where the schedule goes after the window at position p.
After(p) ==
    IF p[2] + Accumulation < Batches
    THEN <<p[1], p[2] + Accumulation>>
    ELSE <<p[1] + 1, 0>>

Precedes(p, q) == p[1] < q[1] \/ (p[1] = q[1] /\ p[2] < q[2])

\* Weights are known by the windows that made them: for every window, the
\* positions of the random stream at which it was trained.  Trained(e, c) is
\* what comes of training every window before (e, c) once, in order, each
\* with the random numbers that follow those of the window before it.
Trained(e, c) == [p \in Slots |-> IF Precedes(p, <<e, c>>) THEN <<p>> ELSE <<>>]

\* Epoch b is the earliest one of highest score among the first n.
EarliestBest(metric, b, n) ==
    /\ b \in 1..n
    /\ \A j \in 1..n : metric[j] <= metric[b]
    /\ \A j \in 1..(b - 1) : metric[j] < metric[b]

\* Whether a run is over after n complete epochs.
Finished(metric, n) ==
    \/ n = MaxEpochs
    \/ \E b \in 1..n : EarliestBest(metric, b, n) /\ n - b >= Patience

\* What a run that ends after n epochs returns.
Outcome(b, n) ==
    [best |-> b, weights |-> Trained(b + 1, 0), epochs |-> n]
=============================================================================
