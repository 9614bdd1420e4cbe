---------------------------- MODULE TrainingLoop ----------------------------
(***************************************************************************)
(* run_optimization and its resume state on disk.  A process trains the    *)
(* windows of the schedule, scores every epoch on the dev rows and         *)
(* persists a boundary state after each window and each epoch.  It may die *)
(* at any point, the steps of a save included, and so may the machine; a   *)
(* later process restores the boundary that is then on disk.               *)
(***************************************************************************)
EXTENDS TrainingSchedule, Sequences

CONSTANTS
    StopLimits,     \* the values of stop_after_steps a process may get
    NoLimit,        \* stop_after_steps is None
    Absent,         \* there is no resume-state.pt
    Pending,        \* no process has returned a result
    MaxCrashes      \* bound on the deaths of processes and losses of power

\* The closed set of resume states.  stream is the position of the random
\* stream, together with the optimizer and the learning-rate schedule.
States ==
    [epoch : Nat \ {0}, cursor : 0..Batches, steps : Nat,
     weights : [Slots -> Seq(Nat \X Nat)], stream : Nat \X Nat,
     bestEpoch : Nat, bestScore : Scores \cup {-1},
     bestWeights : [Slots -> Seq(Nat \X Nat)], stale : Nat]

ASSUME LoopAssumption ==
    /\ NoLimit \notin Nat
    /\ StopLimits \subseteq Nat \cup {NoLimit}
    /\ Absent \notin States
    /\ MaxCrashes \in Nat

VARIABLES
    metric,     \* the dev score of each epoch's weights; fixed by the data
    doing,      \* what the process does next, "off" when there is none
    mem,        \* the training state of the process
    limit,      \* its stop_after_steps
    saving,     \* how far the replacement of resume-state.pt has come
    disk,       \* the boundary state a reader finds there, or Absent
    durable,    \* the one that a loss of power leaves there at least
    outcome,    \* what a completed process returned, or Pending
    crashes     \* deaths and losses of power so far

loopVars == <<metric, doing, mem, limit, saving, disk, durable, outcome, crashes>>

NoWeights == [p \in Slots |-> <<>>]

\* The state of a process that has only built and seeded its model.
Fresh ==
    [epoch |-> 1, cursor |-> 0, steps |-> 0,
     weights |-> NoWeights, stream |-> <<1, 0>>,
     bestEpoch |-> 0, bestScore |-> -1, bestWeights |-> NoWeights, stale |-> 0]

\* (mutant) early stopping is forgotten across a restart
StoppedAtEnd(state) == state.epoch > MaxEpochs

Stopped(state) == state.epoch > MaxEpochs \/ state.stale >= Patience

LimitReached == limit # NoLimit /\ mem.steps >= limit

LoopInit ==
    /\ metric \in [Epochs -> Scores]
    /\ doing = "off"
    /\ mem = Fresh
    /\ limit = NoLimit
    /\ saving = "none"
    /\ disk = Absent
    /\ durable = Absent
    /\ outcome = Pending
    /\ crashes = 0

-----------------------------------------------------------------------------

\* A process starts, restoring the last boundary if there is one.
Restored == IF disk = Absent THEN Fresh ELSE disk

Start ==
    /\ doing = "off"
    /\ limit' \in StopLimits
    /\ mem' = Restored
    /\ doing' = "saveInitial"
    /\ UNCHANGED <<metric, saving, disk, durable, outcome, crashes>>

Saves == {"saveInitial", "saveWindow", "saveEpoch"}

\* write_resume_state, first step: the state is in a temporary file beside
\* the old one, written and synced.  A process killed up to here leaves that
\* file behind, which nobody reads.
Stage ==
    /\ doing \in Saves
    /\ saving = "none"
    /\ saving' = "staged"
    /\ UNCHANGED <<metric, doing, mem, limit, disk, durable, outcome, crashes>>

\* Second step: the temporary file takes the name resume-state.pt.
Replace ==
    /\ saving = "staged"
    /\ saving' = "replaced"
    /\ disk' = mem
    /\ UNCHANGED <<metric, doing, mem, limit, durable, outcome, crashes>>

\* Last step: the directory is synced, and the run goes on.
SyncDirectory ==
    /\ saving = "replaced"
    /\ saving' = "none"
    /\ durable' = disk
    /\ UNCHANGED <<metric, mem, limit, disk, outcome, crashes>>

\* (mutant) a restored terminal boundary is treated as an interruption
SaveInitialUnreturned ==
    /\ doing = "saveInitial"
    /\ SyncDirectory
    /\ doing' = IF limit = 0 \/ Stopped(mem) THEN "off" ELSE "train"

\* The boundary a process begins with has been persisted.
SaveInitial ==
    /\ doing = "saveInitial"
    /\ SyncDirectory
    /\ doing' = IF limit = 0 THEN "off" ELSE IF Stopped(mem) THEN "return" ELSE "train"

\* One accumulation window: forward, backward, one optimizer step.
TrainWindow ==
    LET here == <<mem.epoch, mem.cursor>>
        next == mem.cursor + Accumulation
    IN
    /\ doing = "train"
    /\ mem.cursor \in WindowStarts
    /\ mem' = [mem EXCEPT !.weights[here] = Append(@, mem.stream),
                          !.stream = After(@),
                          !.steps = @ + 1,
                          !.cursor = IF next < Batches THEN next ELSE Batches]
    /\ doing' = IF next < Batches THEN "saveWindow" ELSE "evaluate"
    /\ UNCHANGED <<metric, limit, saving, disk, durable, outcome, crashes>>

\* (mutant) the run goes on without the sync of the directory
SaveWindowUnsynced ==
    /\ doing = "saveWindow"
    /\ saving = "replaced"
    /\ saving' = "none"
    /\ doing' = IF LimitReached THEN "off" ELSE "train"
    /\ UNCHANGED <<metric, mem, limit, disk, durable, outcome, crashes>>

SaveWindow ==
    /\ doing = "saveWindow"
    /\ SyncDirectory
    /\ doing' = IF LimitReached THEN "off" ELSE "train"

\* The epoch is scored; a strictly higher score makes its weights the best.
Evaluate ==
    LET score == metric[mem.epoch]
        next == [mem EXCEPT !.epoch = @ + 1, !.cursor = 0]
    IN
    /\ doing = "evaluate"
    /\ mem' = IF score > mem.bestScore
              THEN [next EXCEPT !.bestScore = score,
                                !.bestEpoch = mem.epoch,
                                !.bestWeights = mem.weights,
                                !.stale = 0]
              ELSE [next EXCEPT !.stale = @ + 1]
    /\ doing' = "saveEpoch"
    /\ UNCHANGED <<metric, limit, saving, disk, durable, outcome, crashes>>

SaveEpoch ==
    /\ doing = "saveEpoch"
    /\ SyncDirectory
    /\ doing' = IF LimitReached THEN "off" ELSE IF Stopped(mem) THEN "return" ELSE "train"

\* completed_result: the best weights are loaded back and returned.
Return ==
    /\ doing = "return"
    /\ mem' = [mem EXCEPT !.weights = mem.bestWeights]
    /\ outcome' = [best |-> mem.bestEpoch, weights |-> mem.bestWeights,
                   epochs |-> mem.epoch - 1]
    /\ doing' = "off"
    /\ UNCHANGED <<metric, limit, saving, disk, durable, crashes>>

\* The process dies; what it had not persisted is lost.
Crash ==
    /\ doing # "off"
    /\ crashes < MaxCrashes
    /\ crashes' = crashes + 1
    /\ doing' = "off"
    /\ mem' = Fresh
    /\ saving' = "none"
    /\ UNCHANGED <<metric, limit, disk, durable, outcome>>

\* The machine loses power, whether or not a process runs: a replacement
\* whose directory was not synced has reached the disk or has not.
PowerLoss ==
    /\ crashes < MaxCrashes
    /\ crashes' = crashes + 1
    /\ doing' = "off"
    /\ mem' = Fresh
    /\ saving' = "none"
    /\ disk' \in {disk, durable}
    /\ durable' = disk'
    /\ UNCHANGED <<metric, limit, outcome>>

LoopStep ==
    \/ Stage \/ Replace
    \/ SaveInitial \/ TrainWindow \/ SaveWindow
    \/ Evaluate \/ SaveEpoch \/ Return

LoopNext == Start \/ LoopStep \/ Crash \/ PowerLoss

LoopSpec == LoopInit /\ [][LoopNext]_loopVars

\* The process runs on, and the operator resumes a run that has not returned.
LoopFairness == WF_loopVars(LoopStep) /\ WF_loopVars(outcome = Pending /\ Start)

LoopFairSpec == LoopSpec /\ LoopFairness

-----------------------------------------------------------------------------

LoopTypeOK ==
    /\ metric \in [Epochs -> Scores]
    /\ doing \in {"off", "saveInitial", "train", "saveWindow", "evaluate",
              "saveEpoch", "return"}
    /\ mem \in States
    /\ limit \in StopLimits \cup {NoLimit}
    /\ saving \in {"none", "staged", "replaced"}
    /\ disk \in States \cup {Absent}
    /\ durable \in States \cup {Absent}
    /\ outcome \in {Pending} \cup {Outcome(b, n) : b, n \in Epochs}
    /\ crashes \in 0..MaxCrashes

Position(state) == <<state.epoch, state.cursor>>

\* The best-so-far fields of a state are those of the earliest best epoch.
BestIsCanonical(state) ==
    IF state.epoch = 1
    THEN state.bestEpoch = 0 /\ state.bestScore = -1 /\ state.stale = 0
    ELSE /\ EarliestBest(metric, state.bestEpoch, state.epoch - 1)
         /\ state.bestScore = metric[state.bestEpoch]
         /\ state.bestWeights = Trained(state.bestEpoch + 1, 0)
         /\ state.stale = state.epoch - 1 - state.bestEpoch

Canonical(state) ==
    /\ state.weights = Trained(state.epoch, state.cursor)
    /\ state.stream = Position(state)
    /\ BestIsCanonical(state)

\* However often the run was killed, restored and stopped at a limit, the
\* boundary on disk is the state an uninterrupted run has at that point: each
\* earlier window trained once, in order, with its own random numbers, and
\* the best epoch the earliest one of highest score.
DurableIsCanonical ==
    \A state \in {disk, durable} \ {Absent} : Canonical(state)

\* The process is never more than one window ahead of what is on disk, nor of
\* what a loss of power would leave there, so a death or a loss of power, also
\* in the middle of a save, costs at most the window or evaluation in flight;
\* and it trains nothing before its first boundary is durable.
LossBounded ==
    doing # "off" =>
        \A state \in {disk, durable} :
            \/ state = Absent /\ doing = "saveInitial" /\ mem = Fresh
            \/ state # Absent /\ Position(mem) \in {Position(state), After(Position(state))}
            \/ /\ state # Absent /\ doing = "evaluate"
               /\ After(Position(state)) = <<mem.epoch + 1, 0>>

\* The durable run, crashes and all, is an uninterrupted one: the position on
\* stable storage only ever moves to the next window, a run returns only where
\* the schedule ends, with the weights of the earliest best epoch, and one
\* that is resumed after it returned trains no further and returns the same.
Promise == INSTANCE UninterruptedTraining WITH
    epoch <- IF durable = Absent THEN 1 ELSE durable.epoch,
    cursor <- IF durable = Absent THEN 0 ELSE durable.cursor
ImplementsUninterrupted == Promise!Spec

\* A state that may be persisted: canonical, at the start of a window, and
\* with no window of its epoch trained once the run is over.
Persistable(state) ==
    /\ state \in States
    /\ state.epoch \in 1..(MaxEpochs + 1)
    /\ state.cursor \in WindowStarts
    /\ Canonical(state)
    /\ Stopped(state) => state.cursor = 0

\* What a reader finds is durable, or one save ahead of it.
OneSaveAhead ==
    \/ disk = durable
    \/ durable = Absent /\ disk = Fresh
    \/ /\ durable # Absent /\ disk # Absent
       /\ ~Stopped(durable)
       /\ Position(disk) = After(Position(durable))

\* What holds of the process at each of its steps, relative to the disk.
\* LossBounded and DurableIsCanonical are not inductive without it.
LoopInMemory ==
    /\ saving # "none" => doing \in Saves
    /\ saving = "replaced" => disk = mem
    /\ doing = "saveInitial" => mem = Restored
    /\ doing \in {"train", "return"} =>
          /\ durable # Absent /\ disk = durable /\ mem = durable
          /\ Stopped(mem) <=> doing = "return"
    /\ doing \in {"saveWindow", "saveEpoch"} =>
          /\ durable # Absent /\ ~Stopped(durable)
          /\ saving = "replaced" \/ disk = durable
          /\ Persistable(mem)
          /\ Position(mem) = After(Position(durable))
          /\ doing = "saveWindow" => ~Stopped(mem)
    /\ doing = "evaluate" =>
          /\ durable # Absent /\ disk = durable /\ ~Stopped(durable)
          /\ After(Position(durable)) = <<mem.epoch + 1, 0>>
          /\ mem.epoch \in Epochs
          /\ mem.weights = Trained(mem.epoch + 1, 0)
          /\ mem.stream = <<mem.epoch + 1, 0>>
          /\ BestIsCanonical(mem)

\* A result is that of the terminal boundary, which is durable.
Returned ==
    outcome # Pending =>
        /\ durable # Absent
        /\ Stopped(durable)
        /\ outcome = Outcome(durable.bestEpoch, durable.epoch - 1)

LoopInv ==
    /\ LoopTypeOK
    /\ \A state \in {disk, durable} : state # Absent => Persistable(state)
    /\ OneSaveAhead
    /\ LoopInMemory
    /\ Returned

\* With finitely many deaths and losses of power, and an operator who resumes
\* and does not from some point on stop every process at limit 0, the run
\* returns.
Completes == []<>(limit # 0) => <>(outcome # Pending)
=============================================================================
