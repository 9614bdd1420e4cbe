----------------------- MODULE UninterruptedTraining -----------------------
(***************************************************************************)
(* What a private training run promises: windows are trained one after the *)
(* other, an epoch is complete after its last window, and the run returns  *)
(* the weights of the earliest epoch of highest score.  There is no        *)
(* process here, no file and no crash, and the best epoch is defined from  *)
(* the scores instead of being computed along the way.                     *)
(***************************************************************************)
EXTENDS TrainingSchedule

CONSTANT Pending    \* nothing was returned yet

VARIABLES
    metric,     \* the dev score of each epoch's weights; fixed by the data
    epoch,      \* the epoch in training
    cursor,     \* the next batch of that epoch
    outcome     \* what the run returned, or Pending

vars == <<metric, epoch, cursor, outcome>>

Init ==
    /\ metric \in [Epochs -> Scores]
    /\ epoch = 1
    /\ cursor = 0
    /\ outcome = Pending

TrainWindow ==
    /\ ~Finished(metric, epoch - 1)
    /\ <<epoch', cursor'>> = After(<<epoch, cursor>>)
    /\ UNCHANGED <<metric, outcome>>

Return ==
    /\ outcome = Pending
    /\ cursor = 0
    /\ Finished(metric, epoch - 1)
    /\ \E b \in Epochs :
         /\ EarliestBest(metric, b, epoch - 1)
         /\ outcome' = Outcome(b, epoch - 1)
    /\ UNCHANGED <<metric, epoch, cursor>>

Next == TrainWindow \/ Return

Spec == Init /\ [][Next]_vars
=============================================================================
