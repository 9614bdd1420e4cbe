----------------------- MODULE PrivateTrainingProofs -----------------------
(***************************************************************************)
(* Theorems about private training, the loop and the workflow around it.   *)
(*                                                                         *)
(* TrainingLoop, for every schedule: the persisted boundary is always the  *)
(* state of an uninterrupted run, and the durable run is one.              *)
(*                                                                         *)
(* PrivateRun, for every number of processes, work paths, inputs,          *)
(* boundaries, deaths and changes of the inputs: its state has its type    *)
(* and the safety invariants hold.  Everything from newWork on is done by  *)
(* the one holder of the lock, so that the claim it stages, the boundary   *)
(* it persists and the result it records are still what it has in memory   *)
(* at its next step.                                                       *)
(***************************************************************************)
EXTENDS TrainingLoop, PrivateRun, TLAPS

-----------------------------------------------------------------------------
(* Arithmetic of the schedule.                                             *)

LEMMA MultiplesApart ==
    ASSUME NEW A \in Nat \ {0}, NEW k \in Nat, NEW l \in Nat, k < l
    PROVE  A * l >= A * k + A
<1>1. PICK d \in Nat : l = k + 1 + d
  <2>1. l - k - 1 \in Nat
    OBVIOUS
  <2> QED BY <2>1
<1>2. A * l = A * k + A + A * d
  BY <1>1
<1>3. A * d \in Nat
  OBVIOUS
<1> QED BY <1>2, <1>3

\* Two starts of windows are at least one window apart.
LEMMA StartsApart ==
    ASSUME NEW c \in WindowStarts, NEW d \in WindowStarts, c < d
    PROVE  d >= c + Accumulation
<1> USE ScheduleAssumption
<1>1. c \in Nat /\ d \in Nat /\ c % Accumulation = 0 /\ d % Accumulation = 0
  BY DEF WindowStarts
<1>2. c = Accumulation * (c \div Accumulation) /\ c \div Accumulation \in Nat
  BY <1>1
<1>3. d = Accumulation * (d \div Accumulation) /\ d \div Accumulation \in Nat
  BY <1>1
<1>4. c \div Accumulation < d \div Accumulation
  <2>1. SUFFICES ASSUME d \div Accumulation <= c \div Accumulation
                 PROVE  FALSE
    BY <1>2, <1>3
  <2>2. CASE d \div Accumulation = c \div Accumulation
    BY <1>2, <1>3, <2>2
  <2>3. CASE d \div Accumulation < c \div Accumulation
    BY <1>2, <1>3, <2>3, MultiplesApart
  <2> QED BY <2>1, <2>2, <2>3, <1>2, <1>3
<1> QED BY <1>2, <1>3, <1>4, MultiplesApart

LEMMA MultipleStep ==
    ASSUME NEW A \in Nat \ {0}, NEW c \in Nat, c % A = 0
    PROVE  (c + A) % A = 0
<1> DEFINE k == c \div A
           q == (c + A) \div A
           r == (c + A) % A
<1>1. c = A * k /\ k \in Nat
  OBVIOUS
<1>2. c + A = A * q + r /\ q \in Nat /\ r \in 0..(A - 1)
  BY SMTT(30)
<1>3. A * (k + 1) = A * q + r
  BY <1>1, <1>2
<1> HIDE DEF k, q, r
<1>4. CASE q < k + 1
  BY <1>1, <1>2, <1>3, <1>4, MultiplesApart
<1>5. CASE q > k + 1
  BY <1>1, <1>2, <1>3, <1>5, MultiplesApart
<1>6. CASE q = k + 1
  BY <1>1, <1>2, <1>3, <1>6
<1>7. r = 0
  BY <1>1, <1>2, <1>4, <1>5, <1>6
<1> QED BY <1>7 DEF r

\* The batch after a window is the start of the next window, or past the end.
LEMMA NextStart ==
    ASSUME NEW c \in WindowStarts, c + Accumulation < Batches
    PROVE  c + Accumulation \in WindowStarts
<1> USE ScheduleAssumption
<1>1. c \in Nat /\ c % Accumulation = 0
  BY DEF WindowStarts
<1>2. (c + Accumulation) % Accumulation = 0
  BY <1>1, MultipleStep
<1> QED BY <1>1, <1>2 DEF WindowStarts

LEMMA FirstStart == 0 \in WindowStarts
  BY ScheduleAssumption DEF WindowStarts

-----------------------------------------------------------------------------
(* The weights of the schedule.                                            *)

\* Nothing precedes the first window.
LEMMA NothingTrained == NoWeights = Trained(1, 0)
  BY ScheduleAssumption DEF NoWeights, Trained, Slots, Epochs, WindowStarts, Precedes

LEMMA TrainedType ==
    ASSUME NEW e, NEW c
    PROVE  Trained(e, c) \in [Slots -> Seq(Nat \X Nat)]
<1>1. ASSUME NEW p \in Slots
      PROVE  <<p>> \in Seq(Nat \X Nat) /\ <<>> \in Seq(Nat \X Nat)
  <2>1. p \in Nat \X Nat
    BY DEF Slots, Epochs, WindowStarts
  <2> QED BY <2>1
<1> QED BY <1>1 DEF Trained

Extend(weights, p) == [weights EXCEPT ![p] = Append(@, p)]

\* Training the window at (e, c) turns the weights of (e, c) into those of the
\* position after it.
LEMMA TrainedStep ==
    ASSUME NEW e \in Epochs, NEW c \in WindowStarts,
           NEW f, NEW d, f = After(<<e, c>>)[1], d = After(<<e, c>>)[2]
    PROVE  Extend(Trained(e, c), <<e, c>>) = Trained(f, d)
<1> DEFINE w == Trained(e, c)
           v == Extend(w, <<e, c>>)
<1> USE ScheduleAssumption
<1>1. w \in [Slots -> Seq(Nat \X Nat)] /\ <<e, c>> \in Slots
  BY TrainedType DEF Slots
<1>2. \A p \in Slots : Precedes(p, <<f, d>>) <=> Precedes(p, <<e, c>>) \/ p = <<e, c>>
  <2> SUFFICES ASSUME NEW p1 \in Epochs, NEW p2 \in WindowStarts
               PROVE  Precedes(<<p1, p2>>, <<f, d>>)
                        <=> Precedes(<<p1, p2>>, <<e, c>>) \/ <<p1, p2>> = <<e, c>>
    BY DEF Slots
  <2>1. p2 \in 0..(Batches - 1) /\ c \in 0..(Batches - 1) /\ p1 \in Nat /\ e \in Nat
    BY DEF WindowStarts, Epochs
  <2>2. c < p2 => p2 >= c + Accumulation
    BY StartsApart
  <2>3. CASE c + Accumulation < Batches
    <3>1. f = e /\ d = c + Accumulation
      BY <2>3 DEF After
    <3> QED BY <2>1, <2>2, <3>1 DEF Precedes
  <2>4. CASE ~(c + Accumulation < Batches)
    <3>1. f = e + 1 /\ d = 0
      BY <2>4 DEF After
    <3> QED BY <2>1, <2>2, <2>4, <3>1 DEF Precedes
  <2> QED BY <2>3, <2>4
<1>3. v = [p \in Slots |-> IF p = <<e, c>> THEN Append(w[p], p) ELSE w[p]]
  BY <1>1 DEF Extend
<1>4. ~Precedes(<<e, c>>, <<e, c>>)
  BY DEF Precedes, Epochs, WindowStarts
<1>5. ASSUME NEW p \in Slots
      PROVE  v[p] = Trained(f, d)[p]
  <2>1. CASE p = <<e, c>>
    <3>1. w[p] = <<>> /\ Trained(f, d)[p] = <<p>>
      BY <1>1, <1>2, <1>4, <2>1 DEF Trained
    <3>2. v[p] = Append(<<>>, p)
      BY <1>1, <1>3, <2>1, <3>1
    <3> QED BY <3>1, <3>2
  <2>2. CASE p # <<e, c>>
    BY <1>1, <1>2, <1>3, <2>2 DEF Trained
  <2> QED BY <2>1, <2>2
<1> QED BY <1>3, <1>5 DEF Trained

LEMMA TrainedWithin ==
    ASSUME NEW e \in Epochs, NEW c \in WindowStarts, c + Accumulation < Batches
    PROVE  Extend(Trained(e, c), <<e, c>>) = Trained(e, c + Accumulation)
<1>1. After(<<e, c>>) = <<e, c + Accumulation>>
  BY DEF After
<1> QED BY <1>1, TrainedStep

LEMMA TrainedLast ==
    ASSUME NEW e \in Epochs, NEW c \in WindowStarts, ~(c + Accumulation < Batches)
    PROVE  Extend(Trained(e, c), <<e, c>>) = Trained(e + 1, 0)
<1>1. After(<<e, c>>) = <<e + 1, 0>>
  BY DEF After
<1> QED BY <1>1, TrainedStep

-----------------------------------------------------------------------------
(* The earliest best epoch.                                                *)

LEMMA EarliestBestUnique ==
    ASSUME NEW m \in [Epochs -> Scores], NEW n \in Epochs,
           NEW a, EarliestBest(m, a, n),
           NEW b, EarliestBest(m, b, n)
    PROVE  a = b
<1> USE ScheduleAssumption
<1>1. a \in 1..n /\ b \in 1..n /\ n \in Nat /\ n <= MaxEpochs
  BY DEF EarliestBest, Epochs
<1>0. m[a] \in Nat /\ m[b] \in Nat
  <2>1. a \in Epochs /\ b \in Epochs
    BY <1>1 DEF Epochs
  <2>2. m[a] \in Scores /\ m[b] \in Scores
    BY <2>1
  <2> QED BY <2>2
<1>2. CASE a < b
  <2>1. m[a] < m[b] /\ m[b] <= m[a]
    BY <1>1, <1>2 DEF EarliestBest
  <2> QED BY <1>0, <2>1
<1>3. CASE b < a
  <2>1. m[b] < m[a] /\ m[a] <= m[b]
    BY <1>1, <1>3 DEF EarliestBest
  <2> QED BY <1>0, <2>1
<1> QED BY <1>1, <1>2, <1>3

\* A running maximum with a strict comparison keeps the earliest best epoch.
LEMMA EarliestBestStep ==
    ASSUME NEW m \in [Epochs -> Scores], NEW n \in Epochs, NEW b \in Nat,
           n = 1 \/ EarliestBest(m, b, n - 1)
    PROVE  /\ n = 1 \/ m[n] > m[b] => EarliestBest(m, n, n)
           /\ n # 1 /\ ~(m[n] > m[b]) => EarliestBest(m, b, n)
<1> USE ScheduleAssumption
<1>1. n \in Nat /\ \A j \in 1..n : m[j] \in Nat
  <2>1. n \in Nat /\ \A j \in 1..n : j \in Epochs
    BY DEF Epochs
  <2>2. \A j \in Epochs : m[j] \in Scores
    OBVIOUS
  <2> QED BY <2>1, <2>2
<1>2. CASE n = 1
  BY <1>1, <1>2 DEF EarliestBest
<1>3. CASE n # 1
  <2>1. EarliestBest(m, b, n - 1) /\ b \in 1..(n - 1)
    BY <1>3 DEF EarliestBest
  <2>2. ASSUME m[n] > m[b] PROVE EarliestBest(m, n, n)
    <3>1. \A j \in 1..(n - 1) : m[j] < m[n]
      BY <1>1, <2>1, <2>2 DEF EarliestBest
    <3> QED BY <1>1, <3>1 DEF EarliestBest
  <2>3. ASSUME ~(m[n] > m[b]) PROVE EarliestBest(m, b, n)
    BY <1>1, <2>1, <2>3 DEF EarliestBest
  <2> QED BY <1>3, <2>2, <2>3
<1> QED BY <1>2, <1>3

-----------------------------------------------------------------------------
(* The invariant.                                                          *)

LEMMA FreshState == Fresh \in States /\ Persistable(Fresh) /\ ~Stopped(Fresh)
<1> USE ScheduleAssumption
<1>1. NoWeights \in [Slots -> Seq(Nat \X Nat)]
  BY DEF NoWeights
<1>2. Fresh \in States
  BY <1>1 DEF Fresh, States
<1>3. Canonical(Fresh)
  BY NothingTrained DEF Canonical, Fresh, Position, BestIsCanonical
<1>4. ~Stopped(Fresh)
  BY DEF Fresh, Stopped
<1> QED BY <1>2, <1>3, <1>4, FirstStart DEF Persistable, Fresh

LEMMA LoopInitInv == LoopInit => LoopInv
  BY FreshState, LoopAssumption
     DEF LoopInit, LoopInv, LoopTypeOK, OneSaveAhead, LoopInMemory, Returned, Saves

\* What the files hold is persistable whatever the process does.
LEMMA FilesKept ==
    ASSUME LoopInv, UNCHANGED <<metric, disk, durable>>
    PROVE  /\ (\A state \in {disk, durable} : state # Absent => Persistable(state))'
           /\ OneSaveAhead'
  BY DEF LoopInv, OneSaveAhead, Persistable, Canonical, BestIsCanonical, Stopped, Position

LEMMA LoopStartInv == LoopInv /\ Start => LoopInv'
<1> SUFFICES ASSUME LoopInv, Start PROVE LoopInv'
  OBVIOUS
<1>1. mem' \in States
  BY FreshState DEF LoopInv, LoopTypeOK, Start, Restored
<1>2. LoopTypeOK'
  BY <1>1 DEF LoopInv, LoopTypeOK, Start
<1>3. LoopInMemory'
  BY DEF LoopInv, LoopInMemory, Start, Restored, Saves
<1>4. Returned'
  BY DEF LoopInv, Returned, Start, Stopped, Outcome
<1> QED BY <1>2, <1>3, <1>4, FilesKept DEF LoopInv, Start

\* A process that saves has a persistable state, at most one window ahead of
\* the durable one.
LEMMA SavedState ==
    ASSUME LoopInv, doing \in Saves
    PROVE  /\ mem \in States /\ mem # Absent /\ Persistable(mem)
           /\ doing # "saveInitial" => durable # Absent /\ ~Stopped(durable)
           /\ \/ mem = durable
              \/ durable = Absent /\ mem = Fresh
              \/ /\ durable # Absent /\ ~Stopped(durable)
                 /\ Position(mem) = After(Position(durable))
<1>1. mem \in States /\ mem # Absent
  BY LoopAssumption DEF LoopInv, LoopTypeOK
<1>2. CASE doing = "saveInitial"
  <2>1. mem = Restored
    BY <1>2 DEF LoopInv, LoopInMemory
  <2>2. CASE disk = Absent
    <3>1. durable = Absent
      BY <2>2, FreshState, LoopAssumption DEF LoopInv, OneSaveAhead
    <3> QED BY <1>1, <1>2, <2>1, <2>2, <3>1, FreshState DEF Restored
  <2>3. CASE disk # Absent
    BY <1>1, <1>2, <2>1, <2>3 DEF LoopInv, OneSaveAhead, Restored
  <2> QED BY <2>2, <2>3
<1>3. CASE doing \in {"saveWindow", "saveEpoch"}
  BY <1>1, <1>3 DEF LoopInv, LoopInMemory
<1> QED BY <1>2, <1>3 DEF Saves

LEMMA StageInv == LoopInv /\ Stage => LoopInv'
<1> SUFFICES ASSUME LoopInv, Stage PROVE LoopInv'
  OBVIOUS
<1>1. LoopTypeOK'
  BY DEF LoopInv, LoopTypeOK, Stage
<1>2. LoopInMemory'
  BY DEF LoopInv, LoopInMemory, Stage, Restored, Saves, Persistable, Canonical,
         BestIsCanonical, Stopped, Position
<1>3. Returned'
  BY DEF LoopInv, Returned, Stage, Stopped, Outcome
<1> QED BY <1>1, <1>2, <1>3, FilesKept DEF LoopInv, Stage

\* The new boundary is visible before it is durable.
LEMMA ReplaceInv == LoopInv /\ Replace => LoopInv'
<1> SUFFICES ASSUME LoopInv, Replace PROVE LoopInv'
  OBVIOUS
<1>1. doing \in Saves
  BY DEF LoopInv, LoopInMemory, Replace
<1>2. /\ mem \in States /\ mem # Absent /\ Persistable(mem)
      /\ \/ mem = durable
         \/ durable = Absent /\ mem = Fresh
         \/ /\ durable # Absent /\ ~Stopped(durable)
            /\ Position(mem) = After(Position(durable))
  BY <1>1, SavedState
<1>3. LoopTypeOK'
  BY <1>2 DEF LoopInv, LoopTypeOK, Replace
<1>4. (\A state \in {disk, durable} : state # Absent => Persistable(state))'
  BY <1>2 DEF LoopInv, Replace, Persistable, Canonical, BestIsCanonical, Stopped, Position
<1>5. OneSaveAhead'
  BY <1>2 DEF Replace, OneSaveAhead, Stopped, Position
<1>6. LoopInMemory'
  BY <1>1, <1>2 DEF LoopInv, LoopInMemory, Replace, Restored, Saves, Persistable, Canonical,
         BestIsCanonical, Stopped, Position
<1>7. Returned'
  BY DEF LoopInv, Returned, Replace, Stopped, Outcome
<1> QED BY <1>3, <1>4, <1>5, <1>6, <1>7 DEF LoopInv

\* The sync that ends a save makes the state of the process durable; a run
\* that returned is at its terminal boundary and stays there.
LEMMA SyncDirectoryInv ==
    ASSUME LoopInv, SyncDirectory, doing' \in {"off", "train", "return"},
           doing' \in {"train", "return"} => (Stopped(mem) <=> doing' = "return")
    PROVE  LoopInv'
<1>1. doing \in Saves /\ disk = mem
  BY DEF LoopInv, LoopInMemory, SyncDirectory
<1>2. /\ mem \in States /\ mem # Absent /\ Persistable(mem)
      /\ \/ mem = durable
         \/ durable = Absent /\ mem = Fresh
         \/ durable # Absent /\ ~Stopped(durable)
  BY <1>1, SavedState
<1>3. disk' = mem /\ durable' = mem /\ mem' = mem /\ metric' = metric
  BY <1>1 DEF SyncDirectory
<1>4. LoopTypeOK'
  BY <1>2, <1>3 DEF LoopInv, LoopTypeOK, SyncDirectory
<1>5. (\A state \in {disk, durable} : state # Absent => Persistable(state))'
  BY <1>2, <1>3 DEF Persistable, Canonical, BestIsCanonical, Stopped, Position
<1>6. OneSaveAhead'
  BY <1>3 DEF OneSaveAhead
<1>7. LoopInMemory'
  BY <1>2, <1>3 DEF LoopInMemory, SyncDirectory, Stopped
<1>8. Returned'
  BY <1>2, <1>3 DEF LoopInv, Returned, SyncDirectory, Stopped, Outcome
<1> QED BY <1>4, <1>5, <1>6, <1>7, <1>8 DEF LoopInv

LEMMA SaveInitialInv == LoopInv /\ SaveInitial => LoopInv'
  BY SyncDirectoryInv DEF SaveInitial

LEMMA TrainWindowInv == LoopInv /\ TrainWindow => LoopInv'
<1> SUFFICES ASSUME LoopInv, TrainWindow PROVE LoopInv'
  OBVIOUS
<1> USE ScheduleAssumption
<1> DEFINE e == mem.epoch
           c == mem.cursor
<1>1. /\ mem \in States /\ durable # Absent /\ disk = durable /\ mem = durable
      /\ ~Stopped(mem) /\ Persistable(mem) /\ saving = "none"
  BY DEF LoopInv, LoopTypeOK, LoopInMemory, TrainWindow, Saves
<1>2. /\ e \in Epochs /\ c \in WindowStarts /\ c \in 0..(Batches - 1)
      /\ mem.weights = Trained(e, c) /\ mem.stream = <<e, c>>
      /\ BestIsCanonical(mem)
  BY <1>1 DEF Persistable, Canonical, Position, Stopped, WindowStarts, Epochs, States
<1>3. /\ mem'.weights = [mem.weights EXCEPT ![<<e, c>>] = Append(@, <<e, c>>)]
      /\ mem'.stream = After(<<e, c>>)
      /\ mem'.steps = mem.steps + 1
      /\ mem'.cursor = IF c + Accumulation < Batches THEN c + Accumulation ELSE Batches
      /\ mem'.epoch = e /\ mem'.stale = mem.stale
      /\ mem'.bestEpoch = mem.bestEpoch /\ mem'.bestScore = mem.bestScore
      /\ mem'.bestWeights = mem.bestWeights
  BY <1>1, <1>2 DEF TrainWindow, States
<1>8. mem' = [epoch |-> mem'.epoch, cursor |-> mem'.cursor, steps |-> mem'.steps,
               weights |-> mem'.weights, stream |-> mem'.stream,
               bestEpoch |-> mem'.bestEpoch, bestScore |-> mem'.bestScore,
               bestWeights |-> mem'.bestWeights, stale |-> mem'.stale]
  BY <1>1 DEF TrainWindow, States
<1>4. BestIsCanonical(mem)'
  BY <1>2, <1>3 DEF BestIsCanonical, TrainWindow
<1>5. /\ disk' = durable /\ durable' = durable /\ durable # Absent /\ ~Stopped(durable)
      /\ (\A state \in {disk, durable} : state # Absent => Persistable(state))'
      /\ OneSaveAhead' /\ saving' = "none" /\ metric' = metric
  BY <1>1, FilesKept DEF TrainWindow
<1>6. CASE c + Accumulation < Batches
  <2>1. After(<<e, c>>) = <<e, c + Accumulation>>
    BY <1>6 DEF After
  <2>2. mem'.weights = Trained(e, c + Accumulation)
    <3> HIDE DEF e, c
    <3>1. Extend(Trained(e, c), <<e, c>>) = Trained(e, c + Accumulation)
      BY <1>2, <1>6, TrainedWithin
    <3> QED BY <1>2, <1>3, <3>1 DEF Extend
  <2>3. c + Accumulation \in WindowStarts
    BY <1>2, <1>6, NextStart
  <2>4. mem' \in States
    <3>1. mem'.weights \in [Slots -> Seq(Nat \X Nat)]
      BY <2>2, TrainedType
    <3>2. mem'.epoch \in Nat \ {0} /\ mem'.cursor \in 0..Batches /\ mem'.steps \in Nat
      BY <1>1, <1>2, <1>3, <1>6 DEF States, Epochs
    <3>3. mem'.stream \in Nat \X Nat
      BY <1>2, <1>3, <2>1 DEF Epochs
    <3>4. /\ mem'.bestEpoch \in Nat /\ mem'.bestScore \in Scores \cup {-1}
          /\ mem'.bestWeights \in [Slots -> Seq(Nat \X Nat)] /\ mem'.stale \in Nat
      BY <1>1, <1>3 DEF States
    <3> QED BY <1>8, <3>1, <3>2, <3>3, <3>4 DEF States
  <2>5. Persistable(mem)'
    <3>1. mem'.epoch \in 1..(MaxEpochs + 1)
      BY <1>2, <1>3 DEF Epochs
    <3>2. mem'.stream = <<mem'.epoch, mem'.cursor>>
      BY <1>3, <1>6, <2>1
    <3>3. ~Stopped(mem')
      BY <1>1, <1>3 DEF Stopped
    <3> QED BY <1>3, <1>4, <1>6, <2>2, <2>3, <2>4, <3>1, <3>2, <3>3
            DEF Persistable, Canonical, Position, Stopped
  <2>6. Position(mem') = After(Position(durable))
    BY <1>1, <1>3, <1>6, <2>1 DEF Position
  <2>7. ~Stopped(mem')
    BY <1>1, <1>3 DEF Stopped
  <2>8. doing' = "saveWindow"
    BY <1>6 DEF TrainWindow
  <2>9. LoopInMemory'
    BY <1>5, <2>5, <2>6, <2>7, <2>8 DEF LoopInMemory, Stopped, Position
  <2> QED BY <1>5, <2>4, <2>8, <2>9 DEF LoopInv, LoopTypeOK, Returned, TrainWindow
<1>7. CASE ~(c + Accumulation < Batches)
  <2>1. After(<<e, c>>) = <<e + 1, 0>>
    BY <1>7 DEF After
  <2>2. mem'.weights = Trained(e + 1, 0)
    <3> HIDE DEF e, c
    <3>1. Extend(Trained(e, c), <<e, c>>) = Trained(e + 1, 0)
      BY <1>2, <1>7, TrainedLast
    <3> QED BY <1>2, <1>3, <3>1 DEF Extend
  <2>3. mem' \in States
    <3>1. mem'.weights \in [Slots -> Seq(Nat \X Nat)]
      BY <2>2, TrainedType
    <3>2. mem'.epoch \in Nat \ {0} /\ mem'.cursor \in 0..Batches /\ mem'.steps \in Nat
      BY <1>1, <1>2, <1>3, <1>7 DEF States, Epochs
    <3>3. mem'.stream \in Nat \X Nat
      BY <1>2, <1>3, <2>1 DEF Epochs
    <3>4. /\ mem'.bestEpoch \in Nat /\ mem'.bestScore \in Scores \cup {-1}
          /\ mem'.bestWeights \in [Slots -> Seq(Nat \X Nat)] /\ mem'.stale \in Nat
      BY <1>1, <1>3 DEF States
    <3> QED BY <1>8, <3>1, <3>2, <3>3, <3>4 DEF States
  <2>4. doing' = "evaluate"
    BY <1>7 DEF TrainWindow
  <2>5. After(Position(durable)) = <<mem'.epoch + 1, 0>>
    BY <1>1, <1>3, <2>1 DEF Position
  <2>6. LoopInMemory'
    BY <1>2, <1>3, <1>4, <1>5, <2>1, <2>2, <2>4, <2>5 DEF LoopInMemory, Stopped, Position
  <2> QED BY <1>5, <2>3, <2>4, <2>6 DEF LoopInv, LoopTypeOK, Returned, TrainWindow
<1> QED BY <1>6, <1>7

LEMMA SaveWindowInv == LoopInv /\ SaveWindow => LoopInv'
  BY SyncDirectoryInv DEF SaveWindow, LoopInv, LoopInMemory

LEMMA EvaluateInv == LoopInv /\ Evaluate => LoopInv'
<1> SUFFICES ASSUME LoopInv, Evaluate PROVE LoopInv'
  OBVIOUS
<1> USE ScheduleAssumption
<1> DEFINE e == mem.epoch
<1>1. /\ metric \in [Epochs -> Scores] /\ mem \in States
      /\ durable # Absent /\ disk = durable /\ ~Stopped(durable) /\ e \in Epochs
      /\ After(Position(durable)) = <<e + 1, 0>> /\ saving = "none"
      /\ mem.weights = Trained(e + 1, 0) /\ mem.stream = <<e + 1, 0>>
      /\ BestIsCanonical(mem)
  BY DEF LoopInv, LoopTypeOK, LoopInMemory, Evaluate, Saves
<1>2. /\ metric[e] \in Scores /\ metric[e] \in Nat /\ e \in Nat /\ e >= 1
      /\ mem.bestEpoch \in Nat
  <2>1. metric[e] \in Scores
    BY <1>1
  <2>2. metric[e] \in Nat
    BY <2>1
  <2>3. e \in Nat /\ e >= 1
    BY <1>1 DEF Epochs
  <2>4. mem.bestEpoch \in Nat
    BY <1>1 DEF States
  <2> QED BY <2>1, <2>2, <2>3, <2>4
<1>3. e = 1 \/ EarliestBest(metric, mem.bestEpoch, e - 1)
  BY <1>1 DEF BestIsCanonical
<1>4. /\ mem'.epoch = e + 1 /\ mem'.cursor = 0
      /\ mem'.weights = mem.weights /\ mem'.stream = mem.stream
      /\ mem'.steps = mem.steps
  BY <1>1 DEF Evaluate, States
<1>0. mem' = [epoch |-> mem'.epoch, cursor |-> mem'.cursor, steps |-> mem'.steps,
               weights |-> mem'.weights, stream |-> mem'.stream,
               bestEpoch |-> mem'.bestEpoch, bestScore |-> mem'.bestScore,
               bestWeights |-> mem'.bestWeights, stale |-> mem'.stale]
  BY <1>1 DEF Evaluate, States
<1>5. mem' \in States /\ BestIsCanonical(mem')
  <2>1. CASE metric[e] > mem.bestScore
    <3>1. /\ mem'.bestScore = metric[e] /\ mem'.bestEpoch = e
          /\ mem'.bestWeights = mem.weights /\ mem'.stale = 0
      BY <1>1, <2>1 DEF Evaluate, States
    <3>2. EarliestBest(metric, e, e)
      <4>1. e = 1 \/ metric[e] > metric[mem.bestEpoch]
        BY <1>1, <2>1 DEF BestIsCanonical
      <4> QED BY <1>1, <1>2, <1>3, <4>1, EarliestBestStep
    <3>3. mem' \in States
      BY <1>0, <1>1, <1>2, <1>4, <3>1 DEF States, Epochs
    <3> QED BY <1>1, <1>2, <1>4, <3>1, <3>2, <3>3 DEF BestIsCanonical
  <2>2. CASE ~(metric[e] > mem.bestScore)
    <3>1. /\ mem'.bestScore = mem.bestScore /\ mem'.bestEpoch = mem.bestEpoch
          /\ mem'.bestWeights = mem.bestWeights /\ mem'.stale = mem.stale + 1
      BY <1>1, <2>2 DEF Evaluate, States
    <3>2. e # 1
      BY <1>1, <1>2, <2>2 DEF BestIsCanonical
    <3>3. EarliestBest(metric, mem.bestEpoch, e)
      BY <1>1, <1>2, <1>3, <2>2, <3>2, EarliestBestStep DEF BestIsCanonical
    <3>4. mem' \in States
      BY <1>0, <1>1, <1>2, <1>4, <3>1 DEF States, Epochs
    <3> QED BY <1>1, <1>2, <1>4, <3>1, <3>2, <3>3, <3>4 DEF BestIsCanonical
  <2> QED BY <2>1, <2>2
<1>6. /\ metric' = metric /\ disk' = disk /\ durable' = durable
      /\ saving' = "none" /\ doing' = "saveEpoch"
  BY <1>1 DEF Evaluate
<1>7. Persistable(mem)'
  BY <1>1, <1>2, <1>4, <1>5, <1>6, FirstStart
     DEF Persistable, Canonical, BestIsCanonical, Position, Epochs, Stopped
<1>8. Position(mem') = After(Position(durable))
  BY <1>1, <1>4 DEF Position
<1>9. LoopInMemory'
  BY <1>1, <1>6, <1>7, <1>8 DEF LoopInMemory, Stopped, Position
<1> QED BY <1>5, <1>6, <1>9, FilesKept DEF LoopInv, LoopTypeOK, Returned, Evaluate, Stopped

LEMMA SaveEpochInv == LoopInv /\ SaveEpoch => LoopInv'
  BY SyncDirectoryInv DEF SaveEpoch

\* A terminal boundary is one of an uninterrupted run that is over.
LEMMA StoppedIsFinished ==
    ASSUME metric \in [Epochs -> Scores], NEW state, Persistable(state)
    PROVE  /\ Stopped(state) <=> Finished(metric, state.epoch - 1)
           /\ Stopped(state) =>
                /\ state.epoch - 1 \in Epochs /\ state.bestEpoch \in Epochs
                /\ EarliestBest(metric, state.bestEpoch, state.epoch - 1)
                /\ state.bestWeights = Trained(state.bestEpoch + 1, 0)
                /\ state.cursor = 0
<1> USE ScheduleAssumption
<1> DEFINE n == state.epoch - 1
<1>1. /\ state.epoch \in 1..(MaxEpochs + 1) /\ state.stale \in Nat
      /\ BestIsCanonical(state) /\ state.bestEpoch \in Nat
  BY DEF Persistable, Canonical, States
<1>2. CASE state.epoch = 1
  <2>1. state.stale = 0
    BY <1>1, <1>2 DEF BestIsCanonical
  <2>2. ~Stopped(state)
    BY <1>2, <2>1 DEF Stopped
  <2>3. ~Finished(metric, n)
    BY <1>2 DEF Finished
  <2> QED BY <2>2, <2>3
<1>3. CASE state.epoch # 1
  <2>1. /\ n \in Epochs /\ EarliestBest(metric, state.bestEpoch, n)
        /\ state.stale = n - state.bestEpoch
        /\ state.bestWeights = Trained(state.bestEpoch + 1, 0)
    BY <1>1, <1>3 DEF BestIsCanonical, Epochs
  <2>2. state.bestEpoch \in 1..n /\ state.bestEpoch \in Epochs /\ n \in Nat
    BY <2>1 DEF EarliestBest, Epochs
  <2>3. \A b : EarliestBest(metric, b, n) => b = state.bestEpoch
    BY <2>1, EarliestBestUnique
  <2>4. Stopped(state) <=> n = MaxEpochs \/ n - state.bestEpoch >= Patience
    BY <1>1, <2>1, <2>2 DEF Stopped
  <2>5. Finished(metric, n) <=> n = MaxEpochs \/ n - state.bestEpoch >= Patience
    BY <2>1, <2>2, <2>3 DEF Finished
  <2> QED BY <2>1, <2>2, <2>4, <2>5 DEF Persistable
<1> QED BY <1>2, <1>3

LEMMA ReturnInv == LoopInv /\ Return => LoopInv'
<1> SUFFICES ASSUME LoopInv, Return PROVE LoopInv'
  OBVIOUS
<1>1. /\ metric \in [Epochs -> Scores] /\ mem \in States /\ durable # Absent
      /\ mem = durable /\ Stopped(durable) /\ Persistable(durable) /\ saving = "none"
  BY DEF LoopInv, LoopTypeOK, LoopInMemory, Return, Saves
<1>2. /\ durable.epoch - 1 \in Epochs /\ durable.bestEpoch \in Epochs
      /\ durable.bestWeights = Trained(durable.bestEpoch + 1, 0)
  BY <1>1, StoppedIsFinished
<1>3. outcome' = Outcome(durable.bestEpoch, durable.epoch - 1)
  BY <1>1, <1>2 DEF Return, Outcome
<1>4. mem' \in States
  BY <1>1 DEF Return, States
<1>5. LoopTypeOK'
  BY <1>2, <1>3, <1>4 DEF LoopInv, LoopTypeOK, Return
<1>6. LoopInMemory'
  BY <1>1 DEF Return, LoopInMemory
<1>7. Returned'
  BY <1>1, <1>3 DEF Returned, Return, Stopped, Outcome
<1> QED BY <1>5, <1>6, <1>7, FilesKept DEF LoopInv, Return

LEMMA CrashInv == LoopInv /\ Crash => LoopInv'
<1> SUFFICES ASSUME LoopInv, Crash PROVE LoopInv'
  OBVIOUS
<1>1. LoopTypeOK'
  BY FreshState, LoopAssumption DEF LoopInv, LoopTypeOK, Crash
<1>2. LoopInMemory'
  BY DEF Crash, LoopInMemory
<1>3. Returned'
  BY DEF LoopInv, Returned, Crash, Stopped, Outcome
<1> QED BY <1>1, <1>2, <1>3, FilesKept DEF LoopInv, Crash

\* After a loss of power the file is one of the two it may be, both of which
\* are persistable; a run that returned had synced its terminal boundary.
LEMMA PowerLossInv == LoopInv /\ PowerLoss => LoopInv'
<1> SUFFICES ASSUME LoopInv, PowerLoss PROVE LoopInv'
  OBVIOUS
<1>1. disk' \in {disk, durable} /\ durable' = disk' /\ metric' = metric
  BY DEF PowerLoss
<1>2. LoopTypeOK'
  BY <1>1, FreshState, LoopAssumption DEF LoopInv, LoopTypeOK, PowerLoss
<1>3. (\A state \in {disk, durable} : state # Absent => Persistable(state))'
  BY <1>1 DEF LoopInv, Persistable, Canonical, BestIsCanonical, Stopped, Position
<1>4. OneSaveAhead'
  BY <1>1 DEF OneSaveAhead
<1>5. LoopInMemory'
  BY DEF PowerLoss, LoopInMemory
<1>6. Returned'
  BY <1>1 DEF LoopInv, Returned, OneSaveAhead, PowerLoss, Stopped, Outcome
<1> QED BY <1>2, <1>3, <1>4, <1>5, <1>6 DEF LoopInv

LEMMA LoopStutterInv == LoopInv /\ UNCHANGED loopVars => LoopInv'
  BY DEF loopVars, LoopInv, LoopTypeOK, OneSaveAhead, LoopInMemory, Returned, Restored,
         Persistable, Canonical, BestIsCanonical, Stopped, Position

LEMMA LoopNextInv == LoopInv /\ [LoopNext]_loopVars => LoopInv'
  BY LoopStartInv, StageInv, ReplaceInv, SaveInitialInv, TrainWindowInv, SaveWindowInv,
     EvaluateInv, SaveEpochInv, ReturnInv, CrashInv, PowerLossInv, LoopStutterInv
     DEF LoopNext, LoopStep

\* The inductive invariant of the loop: LoopTypeOK, the boundary on disk and
\* the durable one, the process relative to them, and the returned result.
THEOREM LoopInvariance == LoopSpec => []LoopInv
  BY LoopInitInv, LoopNextInv, PTL DEF LoopSpec

\* The state has its type, for every schedule, score function and number of
\* deaths.
THEOREM LoopTypeCorrect == LoopSpec => []LoopTypeOK
<1>1. LoopInv => LoopTypeOK
  BY DEF LoopInv
<1> QED BY LoopInvariance, <1>1, PTL

\* run_optimization restored from resume-state.pt is at the state of an
\* uninterrupted run: no window is lost, repeated or trained with other
\* random numbers, and the best epoch is the earliest one of highest score.
THEOREM ResumedIsCanonical == LoopSpec => []DurableIsCanonical
<1>1. LoopInv => DurableIsCanonical
  BY DEF LoopInv, Persistable, DurableIsCanonical
<1> QED BY LoopInvariance, <1>1, PTL

\* A death or a loss of power costs at most one window or one evaluation, also
\* when it strikes in the middle of a save.
THEOREM DeathCostsOneWindow == LoopSpec => []LossBounded
<1>1. LoopInv => LossBounded
  <2> SUFFICES ASSUME LoopInv, doing # "off", NEW state \in {disk, durable}
               PROVE  \/ state = Absent /\ doing = "saveInitial" /\ mem = Fresh
                      \/ state # Absent /\ Position(mem) \in {Position(state), After(Position(state))}
                      \/ /\ state # Absent /\ doing = "evaluate"
                         /\ After(Position(state)) = <<mem.epoch + 1, 0>>
    BY DEF LossBounded
  <2>1. CASE doing = "saveInitial"
    <3>1. mem = Restored
      BY <2>1 DEF LoopInv, LoopInMemory
    <3>2. CASE disk = Absent
      BY <2>1, <3>1, <3>2, FreshState, LoopAssumption DEF LoopInv, OneSaveAhead, Restored
    <3>3. CASE disk # Absent
      BY <2>1, <3>1, <3>3 DEF LoopInv, OneSaveAhead, Restored
    <3> QED BY <3>2, <3>3
  <2>2. CASE doing \in {"train", "return", "evaluate"}
    BY <2>2 DEF LoopInv, LoopInMemory, Position
  <2>3. CASE doing \in {"saveWindow", "saveEpoch"}
    BY <2>3, LoopAssumption DEF LoopInv, LoopInMemory, LoopTypeOK, Position
  <2> QED BY <2>1, <2>2, <2>3 DEF LoopInv, LoopTypeOK
<1> QED BY LoopInvariance, <1>1, PTL
-----------------------------------------------------------------------------
(* The durable run implements the uninterrupted one.                       *)

LEMMA LoopInitRefines == LoopInit => Promise!Init
  BY DEF LoopInit, Promise!Init, Epochs, Promise!Epochs

\* What the schedule modules of the two levels define is the same.
LEMMA SameSchedule ==
    ASSUME NEW m, NEW n, NEW b, NEW p
    PROVE  /\ Promise!After(p) = After(p)
           /\ Promise!EarliestBest(m, b, n) <=> EarliestBest(m, b, n)
           /\ Promise!Finished(m, n) <=> Finished(m, n)
           /\ Promise!Outcome(b, n) = Outcome(b, n)
           /\ Promise!Epochs = Epochs
  BY DEF Promise!After, After, Promise!EarliestBest, EarliestBest, Promise!Finished,
         Finished, Promise!Outcome, Outcome, Promise!Trained, Trained, Promise!Slots,
         Slots, Promise!Epochs, Epochs, Promise!WindowStarts, WindowStarts,
         Promise!Precedes, Precedes

\* A durable boundary that is one window on is that window of the promise.
LEMMA LoopSaveRefines ==
    ASSUME LoopInv, durable # Absent, ~Stopped(durable), durable' # Absent,
           Position(durable') = After(Position(durable)), UNCHANGED <<metric, outcome>>
    PROVE  Promise!TrainWindow
<1>1. metric \in [Epochs -> Scores] /\ Persistable(durable)
  BY DEF LoopInv, LoopTypeOK
<1>2. ~Finished(metric, durable.epoch - 1)
  BY <1>1, StoppedIsFinished
<1>3. ~Promise!Finished(metric, durable.epoch - 1)
  BY <1>2, SameSchedule
<1>4. Promise!After(<<durable.epoch, durable.cursor>>) = <<durable'.epoch, durable'.cursor>>
  BY SameSchedule DEF Position
<1> QED BY <1>3, <1>4 DEF Promise!TrainWindow

\* What a reader finds becomes durable, by the sync of the directory or by a
\* loss of power that the replacement survived.
LEMMA DurableRefines ==
    ASSUME LoopInv, durable' = disk, UNCHANGED <<metric, outcome>>
    PROVE  [Promise!Next]_Promise!vars
<1>1. CASE disk = durable
  BY <1>1 DEF Promise!vars
<1>2. CASE durable = Absent /\ disk = Fresh
  BY <1>2, FreshState, LoopAssumption DEF Fresh, Promise!vars
<1>3. CASE /\ durable # Absent /\ disk # Absent
           /\ ~Stopped(durable)
           /\ Position(disk) = After(Position(durable))
  BY <1>3, LoopSaveRefines DEF Promise!Next, Position
<1> QED BY <1>1, <1>2, <1>3 DEF LoopInv, OneSaveAhead

LEMMA ReturnRefines == LoopInv /\ Return => Promise!Return \/ UNCHANGED Promise!vars
<1> SUFFICES ASSUME LoopInv, Return PROVE Promise!Return \/ UNCHANGED Promise!vars
  OBVIOUS
<1>1. /\ metric \in [Epochs -> Scores] /\ durable # Absent
      /\ mem = durable /\ Stopped(durable) /\ Persistable(durable)
  BY DEF LoopInv, LoopTypeOK, LoopInMemory, Return
<1>2. /\ Finished(metric, durable.epoch - 1) /\ durable.cursor = 0
      /\ durable.bestEpoch \in Epochs
      /\ EarliestBest(metric, durable.bestEpoch, durable.epoch - 1)
      /\ durable.bestWeights = Trained(durable.bestEpoch + 1, 0)
  BY <1>1, StoppedIsFinished
<1>3. outcome' = Outcome(durable.bestEpoch, durable.epoch - 1)
  BY <1>1, <1>2 DEF Return, Outcome
<1>4. UNCHANGED <<metric, durable>>
  BY DEF Return
<1>5. CASE outcome = Pending
  BY <1>1, <1>2, <1>3, <1>4, <1>5, SameSchedule DEF Promise!Return
<1>6. CASE outcome # Pending
  BY <1>3, <1>4, <1>6 DEF LoopInv, Returned, Promise!vars
<1> QED BY <1>5, <1>6

LEMMA LoopNextRefines == LoopInv /\ [LoopNext]_loopVars => [Promise!Next]_Promise!vars
<1> SUFFICES ASSUME LoopInv, [LoopNext]_loopVars PROVE [Promise!Next]_Promise!vars
  OBVIOUS
<1>1. CASE Start \/ Stage \/ Replace \/ TrainWindow \/ Evaluate \/ Crash \/ UNCHANGED loopVars
  BY <1>1 DEF Start, Stage, Replace, TrainWindow, Evaluate, Crash, loopVars, Promise!vars
<1>2. CASE SaveInitial \/ SaveWindow \/ SaveEpoch
  BY <1>2, DurableRefines DEF SaveInitial, SaveWindow, SaveEpoch, SyncDirectory
<1>3. CASE Return
  BY <1>3, ReturnRefines DEF Promise!Next
<1>4. CASE PowerLoss
  <2>1. CASE durable' = disk
    BY <1>4, <2>1, DurableRefines DEF PowerLoss
  <2>2. CASE durable' = durable
    BY <1>4, <2>2 DEF PowerLoss, Promise!vars
  <2> QED BY <1>4, <2>1, <2>2 DEF PowerLoss
<1> QED BY <1>1, <1>2, <1>3, <1>4 DEF LoopNext, LoopStep

\* A run that is killed, restored and stopped at limits any number of times,
\* and loses power any number of times,
\* is, seen from its resume state and its result, an uninterrupted run.
THEOREM RefinesUninterrupted == LoopSpec => ImplementsUninterrupted
  BY LoopInvariance, LoopInitRefines, LoopNextRefines, PTL DEF LoopSpec, ImplementsUninterrupted, Promise!Spec

-----------------------------------------------------------------------------
(* Jobs.                                                                   *)

LEMMA NoJobType == NoJob \in Jobs
  BY RunAssumption DEF NoJob, Jobs

LEMMA NewJobType ==
    ASSUME NEW command \in {"admit", "train", "resume", "reload"}, NEW w \in Works \cup {None},
           NEW f \in Finals \cup {None}, NEW d \in Pids
    PROVE  [NoJob EXCEPT !.command = command, !.work = w, !.final = f, !.pid = d] \in Jobs
  BY NoJobType DEF Jobs

\* One field of the job of a process changes.
LEMMA JobStepType ==
    ASSUME NEW p \in Procs, job \in [Procs -> Jobs], NEW n \in 0..Steps
    PROVE  [job EXCEPT ![p].step = n] \in [Procs -> Jobs]
  BY DEF Jobs

LEMMA JobProofType ==
    ASSUME NEW p \in Procs, job \in [Procs -> Jobs], NEW x \in Results \cup AllExports
    PROVE  [job EXCEPT ![p].proof = x] \in [Procs -> Jobs]
  BY DEF Jobs

LEMMA JobAdmissionType ==
    ASSUME NEW p \in Procs, job \in [Procs -> Jobs], NEW x \in Inputs
    PROVE  [job EXCEPT ![p].admission = x] \in [Procs -> Jobs]
  BY DEF Jobs

LEMMA JobBindingType ==
    ASSUME NEW p \in Procs, job \in [Procs -> Jobs], NEW x \in Bindings
    PROVE  [job EXCEPT ![p].binding = x] \in [Procs -> Jobs]
  BY DEF Jobs

LEMMA WeightsType ==
    ASSUME NEW b \in Bindings, NEW n \in 0..Steps
    PROVE  /\ Weights(b, n) \in AllWeights
           /\ Weights(b, n).binding = b
           /\ Weights(b, n).steps = n
  BY DEF Weights, AllWeights

LEMMA InitInv == Init => IInv
<1> SUFFICES ASSUME Init PROVE IInv
  OBVIOUS
<1>1. TypeOK
  BY NoJobType, RunAssumption DEF Init, TypeOK
<1>2. ClaimPaired /\ OnlyClaimedWork /\ ExportComplete /\ Completed
  BY DEF Init, ClaimPaired, OnlyClaimedWork, ExportComplete, Completed
<1>3. ASSUME NEW p \in Procs PROVE JobFilled(p) /\ Claiming(p) /\ InMemory(p)
  BY DEF Init, NoJob, JobFilled, Claiming, InMemory, Bound, Locked, Optimizing, Reloading
<1> QED BY <1>1, <1>2, <1>3 DEF IInv

-----------------------------------------------------------------------------
(* What a step leaves alone.                                               *)

IdentityFiles == <<claim, resume, results, exports>>
OfProcess(p) == JobFilled(p) /\ Claiming(p) /\ InMemory(p)

\* A step that changes no file of the identity keeps what is said of them.
LEMMA FilesFrame ==
    ASSUME IInv, UNCHANGED IdentityFiles, UNCHANGED finals
    PROVE  (ClaimPaired /\ OnlyClaimedWork /\ ExportComplete /\ Completed)'
  BY DEF IInv, IdentityFiles, ClaimPaired, OnlyClaimedWork, ExportComplete, Completed

\* Two processes are never both past the lock.
LEMMA OneHolder ==
    ASSUME IInv, NEW p \in Procs, NEW q \in Procs, p # q, pc[p] \in Locked
    PROVE  pc[q] \notin Locked
  BY DEF IInv, Claiming

\* A process is not disturbed by a step of another that changes no file of
\* the identity and leaves it its lock.
LEMMA BystanderFrame ==
    ASSUME IInv, NEW q \in Procs, pc'[q] = pc[q], job'[q] = job[q],
           lock = q => lock' = q, UNCHANGED IdentityFiles, UNCHANGED staging
    PROVE  OfProcess(q)'
<1>1. OfProcess(q)
  BY DEF IInv, OfProcess
<1>2. JobFilled(q)'
  BY <1>1 DEF OfProcess, JobFilled
<1>3. Claiming(q)'
  BY <1>1 DEF OfProcess, Claiming, IdentityFiles
<1>4. InMemory(q)'
  BY <1>1 DEF OfProcess, InMemory, IdentityFiles, Saved
<1> QED BY <1>2, <1>3, <1>4 DEF OfProcess

\* Nor by what the holder of the lock does, if published exports stay.
LEMMA BystanderOfHolder ==
    ASSUME IInv, NEW p \in Procs, NEW q \in Procs, p # q, pc[p] \in Locked,
           pc'[q] = pc[q], job'[q] = job[q],
           \A w \in Works : exports[w] # None => exports'[w] = exports[w]
    PROVE  OfProcess(q)'
<1>1. OfProcess(q) /\ pc[q] \notin Locked
  BY OneHolder DEF IInv, OfProcess
<1>2. JobFilled(q)'
  BY <1>1 DEF OfProcess, JobFilled
<1>3. Claiming(q)'
  BY <1>1 DEF OfProcess, Claiming, Locked, Bound, Optimizing
<1>4. InMemory(q)'
  BY <1>1 DEF OfProcess, InMemory, Locked, Optimizing, JobFilled, Reloading
<1> QED BY <1>2, <1>3, <1>4 DEF OfProcess

\* A process that is off has nothing to be said of it.
LEMMA Off ==
    ASSUME NEW p \in Procs, pc'[p] = "off", job'[p].step = 0
    PROVE  OfProcess(p)'
  BY DEF OfProcess, JobFilled, Claiming, InMemory, Bound, Locked, Optimizing, Reloading

\* A process that leaves disturbs no other.
LEMMA LeaveFrame ==
    ASSUME IInv, NEW p \in Procs, Leave(p)
    PROVE  /\ pc'[p] = "off" /\ job'[p].step = 0
           /\ job' \in [Procs -> Jobs]
           /\ lock' \in Procs \cup {None}
           /\ \A q \in Procs : q # p =>
                pc'[q] = pc[q] /\ job'[q] = job[q] /\ (lock = q => lock' = q)
  BY NoJobType DEF IInv, TypeOK, Leave, Goto, NoJob

-----------------------------------------------------------------------------
(* Commands that start, end or are refused.                                *)

LEMMA BeginInv ==
    ASSUME IInv, NEW p \in Procs, NEW command \in {"admit", "train", "resume", "reload"},
           NEW first \in {"admit", "verify"}, NEW w \in Works \cup {None},
           NEW f \in Finals \cup {None}, Begin(p, command, first, w, f),
           first = "verify" => w \in Works,
           command = "reload" => f \in Finals
    PROVE  IInv'
<1> PICK d \in Pids \ LivePids :
        job' = [job EXCEPT ![p] = [NoJob EXCEPT !.command = command, !.work = w,
                                                !.final = f, !.pid = d]]
  BY DEF Begin
<1>1. TypeOK'
  <2>1. [NoJob EXCEPT !.command = command, !.work = w, !.final = f, !.pid = d] \in Jobs
    BY NewJobType
  <2>2. job' \in [Procs -> Jobs]
    BY <2>1 DEF IInv, TypeOK
  <2> QED BY <2>2 DEF IInv, TypeOK, Begin, files, bounds
<1>2. (ClaimPaired /\ OnlyClaimedWork /\ ExportComplete /\ Completed)'
  BY FilesFrame DEF Begin, files, IdentityFiles
<1>3. ASSUME NEW q \in Procs PROVE OfProcess(q)'
  <2>1. CASE q # p
    BY <2>1, BystanderFrame DEF Begin, files, IdentityFiles, IInv, TypeOK
  <2>2. CASE q = p
    <3>1. pc'[p] = first /\ job'[p].work = w /\ job'[p].final = f /\ job'[p].pid = d
          /\ job'[p].command = command /\ job'[p].step = 0
      BY DEF Begin, NoJob, IInv, TypeOK
    <3> QED BY <2>2, <3>1 DEF OfProcess, JobFilled, Claiming, InMemory, Bound, Locked,
                             Optimizing, Reloading
  <2> QED BY <2>1, <2>2
<1> QED BY <1>1, <1>2, <1>3 DEF IInv, OfProcess

\* A process leaves, and the files stay as they are.
LEMMA LeaveInv ==
    ASSUME IInv, NEW p \in Procs, Leave(p), UNCHANGED files,
           deaths' \in 0..MaxDeaths, drifts' = drifts
    PROVE  IInv'
<1>1. TypeOK'
  BY LeaveFrame DEF IInv, TypeOK, files, Leave, Goto
<1>2. (ClaimPaired /\ OnlyClaimedWork /\ ExportComplete /\ Completed)'
  BY FilesFrame DEF files, IdentityFiles
<1>3. ASSUME NEW q \in Procs PROVE OfProcess(q)'
  <2>1. CASE q = p
    BY <2>1, LeaveFrame, Off
  <2>2. CASE q # p
    BY <2>2, LeaveFrame, BystanderFrame DEF files, IdentityFiles
  <2> QED BY <2>1, <2>2
<1> QED BY <1>1, <1>2, <1>3 DEF IInv, OfProcess

LEMMA DieInv == ASSUME IInv, NEW p \in Procs, Die(p) PROVE IInv'
<1>1. deaths' \in 0..MaxDeaths
  BY RunAssumption DEF IInv, TypeOK, Die
<1> QED BY <1>1, LeaveInv DEF Die, IInv

LEMMA RefuseInv == ASSUME IInv, NEW p \in Procs, Refuse(p) PROVE IInv'
  BY LeaveInv DEF Refuse, bounds, IInv, TypeOK

LEMMA ExportedInv == ASSUME IInv, NEW p \in Procs, Exported(p) PROVE IInv'
  BY LeaveInv DEF Exported, bounds, IInv, TypeOK

-----------------------------------------------------------------------------
(* Steps that change no file of the identity.                              *)

\* A process that moves on without touching the identity's files.
LEMMA MoveInv ==
    ASSUME IInv, NEW p \in Procs,
           \A q \in Procs : q # p => pc'[q] = pc[q] /\ job'[q] = job[q] /\ (lock = q => lock' = q),
           UNCHANGED IdentityFiles, UNCHANGED finals, UNCHANGED staging,
           TypeOK', OfProcess(p)'
    PROVE  IInv'
<1>1. (ClaimPaired /\ OnlyClaimedWork /\ ExportComplete /\ Completed)'
  BY FilesFrame
<1>2. ASSUME NEW q \in Procs PROVE OfProcess(q)'
  BY BystanderFrame
<1> QED BY <1>1, <1>2 DEF IInv, OfProcess

LEMMA AdmitComputeInv == ASSUME IInv, NEW p \in Procs, AdmitCompute(p) PROVE IInv'
<1>1. job' \in [Procs -> Jobs]
  BY JobAdmissionType DEF IInv, TypeOK, AdmitCompute
<1>2. TypeOK'
  BY <1>1 DEF IInv, TypeOK, AdmitCompute, Goto, files, bounds
<1>3. pc'[p] = "admitPreflight" /\ job'[p].admission \in Inputs /\ job'[p].step = 0
  BY DEF IInv, TypeOK, AdmitCompute, Goto, Jobs, Claiming, Optimizing
<1>4. OfProcess(p)'
  BY <1>3 DEF OfProcess, JobFilled, Claiming, InMemory, Bound, Locked, Optimizing, Reloading
<1> QED BY <1>2, <1>4, MoveInv DEF AdmitCompute, Goto, IdentityFiles, files, IInv, TypeOK

LEMMA AdmitPreflightInv == ASSUME IInv, NEW p \in Procs, AdmitPreflight(p) PROVE IInv'
<1>1. job[p].admission \in Inputs
  BY DEF IInv, JobFilled, AdmitPreflight
<1>2. TypeOK'
  BY <1>1 DEF IInv, TypeOK, AdmitPreflight, Goto, bounds
<1>3. pc'[p] = "admitCreate" /\ job'[p].admission \in Inputs /\ job'[p].step = 0
  BY <1>1 DEF IInv, TypeOK, AdmitPreflight, Goto, Claiming, Optimizing
<1>4. OfProcess(p)'
  BY <1>3 DEF OfProcess, JobFilled, Claiming, InMemory, Bound, Locked, Optimizing, Reloading
<1> QED BY <1>2, <1>4, MoveInv DEF AdmitPreflight, Goto, IdentityFiles, IInv, TypeOK

LEMMA AdmitCreateInv == ASSUME IInv, NEW p \in Procs, AdmitCreate(p) PROVE IInv'
<1>1. job[p].admission \in Inputs
  BY DEF IInv, JobFilled, AdmitCreate
<1>2. TypeOK'
  BY <1>1, LeaveFrame DEF IInv, TypeOK, AdmitCreate, Leave, Goto, bounds
<1>3. OfProcess(p)'
  BY LeaveFrame, Off DEF AdmitCreate
<1> QED BY <1>2, <1>3, LeaveFrame, MoveInv DEF AdmitCreate, IdentityFiles

LEMMA VerifyInv == ASSUME IInv, NEW p \in Procs, Verify(p) PROVE IInv'
<1>1. admission \in Inputs /\ job[p].work \in Works /\ job[p].pid \in Pids
      /\ (job[p].command = "reload" => job[p].final \in Finals)
  BY DEF IInv, TypeOK, JobFilled, Verify, AdmissionValid
<1>2. job' \in [Procs -> Jobs]
  BY <1>1, JobAdmissionType DEF IInv, TypeOK, Verify
<1>3. TypeOK'
  BY <1>2 DEF IInv, TypeOK, Verify, Goto, files, bounds
<1>4. /\ pc'[p] = IF job[p].command = "reload" THEN "readExport" ELSE "bind"
      /\ job'[p].admission \in Inputs /\ job'[p].work = job[p].work
      /\ job'[p].pid = job[p].pid /\ job'[p].final = job[p].final
      /\ job'[p].step = 0
  BY <1>1 DEF IInv, TypeOK, Verify, Goto, Jobs, Claiming, Optimizing
<1>5. OfProcess(p)'
  BY <1>1, <1>4 DEF OfProcess, JobFilled, Claiming, InMemory, Bound, Locked, Optimizing, Reloading
<1> QED BY <1>3, <1>5, MoveInv DEF Verify, Goto, IdentityFiles, files, IInv, TypeOK

\* Up to the lock a job is at step zero.
LEMMA BindInv == ASSUME IInv, NEW p \in Procs, Bind(p) PROVE IInv'
<1>1. job[p].admission \in Inputs /\ job[p].work \in Works /\ job[p].pid \in Pids
      /\ inputs \in Inputs
  BY DEF IInv, TypeOK, JobFilled, Bind
<1>2. Binding(job[p].admission, inputs) \in Bindings
  BY <1>1 DEF Binding, Bindings
<1>3. job' \in [Procs -> Jobs]
  BY <1>2, JobBindingType DEF IInv, TypeOK, Bind
<1>4. TypeOK'
  BY <1>3 DEF IInv, TypeOK, Bind, Goto, files, bounds
<1>5. /\ pc'[p] = "lock" /\ job'[p].binding \in Bindings
      /\ job'[p].admission = job[p].admission /\ job'[p].work = job[p].work
      /\ job'[p].pid = job[p].pid /\ job'[p].step = job[p].step
  BY <1>2 DEF IInv, TypeOK, Bind, Goto, Jobs
<1>6. job[p].step = 0
  BY DEF IInv, Claiming, Bind, Optimizing
<1>7. OfProcess(p)'
  BY <1>1, <1>5, <1>6
     DEF OfProcess, JobFilled, Claiming, InMemory, Bound, Locked, Optimizing, Reloading
<1> QED BY <1>4, <1>7, MoveInv DEF Bind, Goto, IdentityFiles, files, IInv, TypeOK

LEMMA LockInv == ASSUME IInv, NEW p \in Procs, Lock(p) PROVE IInv'
<1>1. OfProcess(p) /\ pc[p] = "lock" /\ lock = None
  BY DEF IInv, OfProcess, Lock
<1>2. TypeOK'
  BY DEF IInv, TypeOK, Lock, Goto, files, bounds
<1>3. pc'[p] \in {"newWork", "openClaim"} /\ job' = job /\ lock' = p
  BY DEF IInv, TypeOK, Lock, Goto
<1>4. OfProcess(p)'
  BY <1>1, <1>3 DEF OfProcess, JobFilled, Claiming, InMemory, Bound, Locked, Optimizing, Reloading
<1>5. \A q \in Procs : q # p => pc'[q] = pc[q] /\ job'[q] = job[q] /\ (lock = q => lock' = q)
  BY <1>1, <1>3, NoneAssumption DEF Lock, Goto, IInv, TypeOK
<1> QED BY <1>2, <1>4, <1>5, MoveInv DEF Lock, IdentityFiles, files

LEMMA NewWorkInv == ASSUME IInv, NEW p \in Procs, NewWork(p) PROVE IInv'
<1>1. OfProcess(p) /\ pc[p] = "newWork"
  BY DEF IInv, OfProcess, NewWork
<1>2. TypeOK'
  BY DEF IInv, TypeOK, NewWork, Goto, files, bounds
<1>3. pc'[p] = "stageClaim" /\ job' = job /\ lock' = lock
  BY DEF IInv, TypeOK, NewWork, Goto
<1>4. OfProcess(p)'
  BY <1>1, <1>3 DEF OfProcess, JobFilled, Claiming, InMemory, Bound, Locked, Optimizing, Reloading
<1> QED BY <1>2, <1>4, MoveInv DEF NewWork, Goto, IdentityFiles, files, IInv, TypeOK

-----------------------------------------------------------------------------
(* Steps of the holder of the lock.                                        *)

LEMMA HolderInv ==
    ASSUME IInv, NEW p \in Procs, pc[p] \in Locked,
           \A q \in Procs : q # p => pc'[q] = pc[q] /\ job'[q] = job[q],
           \A w \in Works : exports[w] # None => exports'[w] = exports[w],
           TypeOK', (ClaimPaired /\ OnlyClaimedWork /\ ExportComplete /\ Completed)',
           OfProcess(p)'
    PROVE  IInv'
<1>1. ASSUME NEW q \in Procs PROVE OfProcess(q)'
  BY BystanderOfHolder
<1> QED BY <1>1 DEF IInv, OfProcess

LEMMA StageClaimInv == ASSUME IInv, NEW p \in Procs, StageClaim(p) PROVE IInv'
<1>1. OfProcess(p) /\ pc[p] = "stageClaim" /\ pc[p] \in Locked /\ job[p].pid \in Pids
  BY DEF IInv, OfProcess, StageClaim, Locked, JobFilled, Bound
<1>2. [claim |-> None, state |-> None] \in Claimings
  BY DEF Claimings
<1>3. TypeOK'
  BY <1>1, <1>2 DEF IInv, TypeOK, StageClaim, Goto, bounds
<1>4. pc'[p] = "writeClaim" /\ job' = job /\ lock' = lock /\ staging'[job[p].pid] # None
  BY <1>1, <1>2, NoneAssumption DEF IInv, TypeOK, StageClaim, Goto
<1>5. OfProcess(p)'
  BY <1>1, <1>4 DEF OfProcess, JobFilled, Claiming, InMemory, Bound, Locked, Optimizing, Reloading
<1>6. (ClaimPaired /\ OnlyClaimedWork /\ ExportComplete /\ Completed)'
  BY FilesFrame DEF StageClaim, IdentityFiles
<1> QED BY <1>1, <1>3, <1>5, <1>6, HolderInv DEF StageClaim, Goto, IInv, TypeOK

LEMMA WriteClaimInv == ASSUME IInv, NEW p \in Procs, WriteClaim(p) PROVE IInv'
<1> DEFINE d == job[p].pid
           c == [work |-> job[p].work, admission |-> job[p].admission,
                 inputs |-> inputs, binding |-> job[p].binding]
<1>1. /\ OfProcess(p) /\ pc[p] = "writeClaim" /\ pc[p] \in Locked
      /\ d \in Pids /\ job[p].work \in Works /\ job[p].admission \in Inputs
      /\ job[p].binding \in Bindings /\ inputs \in Inputs
      /\ staging[d] # None /\ staging \in [Pids -> Claimings \cup {None}]
  BY DEF IInv, TypeOK, OfProcess, WriteClaim, Locked, JobFilled, Bound, Claiming
<1>2. c \in Claims /\ c # None /\ c.work = job[p].work /\ c.binding = job[p].binding
  BY <1>1, NoneAssumption DEF Claims
<1>3. staging' = [staging EXCEPT ![d] = [staging[d] EXCEPT !.claim = c]]
  BY DEF WriteClaim
<1> HIDE DEF c, d
<1>4. [staging[d] EXCEPT !.claim = c] \in Claimings
  BY <1>1, <1>2 DEF Claimings
<1>5. staging' \in [Pids -> Claimings \cup {None}] /\ staging'[d].claim = c /\ staging'[d] # None
  BY <1>1, <1>3, <1>4, NoneAssumption DEF Claimings
<1>6. TypeOK'
  BY <1>5 DEF IInv, TypeOK, WriteClaim, Goto, bounds
<1>7. pc'[p] = "writeInitial" /\ job' = job /\ lock' = lock
  BY DEF IInv, TypeOK, WriteClaim, Goto
<1>8. OfProcess(p)'
  BY <1>1, <1>2, <1>5, <1>7
     DEF OfProcess, JobFilled, Claiming, InMemory, Bound, Locked, Optimizing, Reloading, d
<1>9. (ClaimPaired /\ OnlyClaimedWork /\ ExportComplete /\ Completed)'
  BY FilesFrame DEF WriteClaim, IdentityFiles
<1> QED BY <1>1, <1>6, <1>8, <1>9, HolderInv DEF WriteClaim, Goto, IInv, TypeOK

LEMMA WriteInitialInv == ASSUME IInv, NEW p \in Procs, WriteInitial(p) PROVE IInv'
<1> DEFINE d == job[p].pid
           x == Weights(job[p].binding, 0)
<1>1. /\ OfProcess(p) /\ pc[p] = "writeInitial" /\ pc[p] \in Locked
      /\ d \in Pids /\ job[p].binding \in Bindings
      /\ staging[d] # None /\ staging \in [Pids -> Claimings \cup {None}]
  BY DEF IInv, TypeOK, OfProcess, WriteInitial, Locked, JobFilled, Bound, Claiming
<1>2. x \in AllWeights
  BY <1>1, WeightsType, RunAssumption
<1>3. staging' = [staging EXCEPT ![d] = [staging[d] EXCEPT !.state = x]]
  BY DEF WriteInitial
<1> HIDE DEF x, d
<1>4. [staging[d] EXCEPT !.state = x] \in Claimings
  BY <1>1, <1>2 DEF Claimings
<1>5. /\ staging' \in [Pids -> Claimings \cup {None}] /\ staging'[d].claim = staging[d].claim
      /\ staging'[d].state = x /\ staging'[d] # None
  BY <1>1, <1>3, <1>4, NoneAssumption DEF Claimings
<1>6. TypeOK'
  BY <1>5 DEF IInv, TypeOK, WriteInitial, Goto, bounds
<1>7. pc'[p] = "publishClaim" /\ job' = job /\ lock' = lock
  BY DEF IInv, TypeOK, WriteInitial, Goto
<1>8. OfProcess(p)'
  BY <1>1, <1>5, <1>7
     DEF OfProcess, JobFilled, Claiming, InMemory, Bound, Locked, Optimizing, Reloading, d, x
<1>9. (ClaimPaired /\ OnlyClaimedWork /\ ExportComplete /\ Completed)'
  BY FilesFrame DEF WriteInitial, IdentityFiles
<1> QED BY <1>1, <1>6, <1>8, <1>9, HolderInv DEF WriteInitial, Goto, IInv, TypeOK

\* The claim is published with what its process staged; nothing exists yet
\* under the identity.
LEMMA PublishClaimInv == ASSUME IInv, NEW p \in Procs, PublishClaim(p) PROVE IInv'
<1> DEFINE d == job[p].pid
<1>1. /\ OfProcess(p) /\ pc[p] = "publishClaim" /\ pc[p] \in Locked
      /\ d \in Pids /\ job[p].work \in Works
      /\ staging[d] # None /\ staging \in [Pids -> Claimings \cup {None}]
      /\ staging[d].claim # None /\ staging[d].claim.work = job[p].work
      /\ staging[d].claim.binding = job[p].binding
      /\ staging[d].state = Weights(job[p].binding, 0)
  BY DEF IInv, TypeOK, OfProcess, PublishClaim, Locked, JobFilled, Bound, Claiming
<1>2. claim = None /\ claim' = staging[d] /\ staging' = [staging EXCEPT ![d] = None]
  BY DEF PublishClaim
<1> HIDE DEF d
<1>3. TypeOK'
  BY <1>1, <1>2 DEF IInv, TypeOK, PublishClaim, Goto, bounds
<1>4. \A w \in Works : resume[w] = None /\ results[w] = None /\ exports[w] = None
  BY <1>2 DEF IInv, OnlyClaimedWork
<1>5. \A f \in Finals : finals[f] = None
  BY <1>2 DEF IInv, Completed
<1>6. pc'[p] = "makeWork" /\ job' = job /\ lock' = lock
  BY DEF IInv, TypeOK, PublishClaim, Goto
<1>7. UNCHANGED <<resume, results, exports, finals>>
  BY DEF PublishClaim
<1>8. OfProcess(p)'
  BY <1>1, <1>2, <1>4, <1>6, <1>7
     DEF OfProcess, JobFilled, Claiming, InMemory, Bound, Locked, Optimizing, Reloading
<1>9. (ClaimPaired /\ OnlyClaimedWork /\ ExportComplete /\ Completed)'
  BY <1>1, <1>2, <1>4, <1>5, <1>7
     DEF ClaimPaired, OnlyClaimedWork, ExportComplete, Completed
<1> QED BY <1>1, <1>3, <1>7, <1>8, <1>9, HolderInv DEF PublishClaim, Goto, IInv, TypeOK

\* What is known of the claimed run and of its last boundary.
LEMMA ClaimedRun ==
    ASSUME IInv, NEW w \in Works, claim # None, claim.claim.work = w
    PROVE  /\ claim.claim.binding \in Bindings
           /\ claim.state = Weights(claim.claim.binding, 0)
           /\ Saved(w) \in AllWeights
           /\ Saved(w).binding = claim.claim.binding
           /\ Saved(w).steps \in 0..Steps
           /\ resume[w] = None => Saved(w).steps = 0
           /\ \A v \in Works : v # w =>
                resume[v] = None /\ results[v] = None /\ exports[v] = None
<1> DEFINE b == claim.claim.binding
<1>1. claim.claim \in Claims /\ claim.state = Weights(b, 0)
  BY DEF IInv, TypeOK, ClaimPaired, Claimings
<1>2. b \in Bindings
  BY <1>1 DEF Claims
<1>3. resume \in [Works -> AllWeights \cup {None}] /\ (resume[w] # None => resume[w].binding = b)
  BY DEF IInv, TypeOK, OnlyClaimedWork
<1>4. Weights(b, 0) \in AllWeights /\ Weights(b, 0).binding = b /\ Weights(b, 0).steps = 0
  BY <1>2, WeightsType, RunAssumption
<1> HIDE DEF b
<1>5. CASE resume[w] = None
  <2>1. Saved(w) = Weights(b, 0)
    BY <1>1, <1>5 DEF Saved
  <2> QED BY <1>1, <1>2, <1>4, <1>5, <2>1, RunAssumption DEF IInv, OnlyClaimedWork, b
<1>6. CASE resume[w] # None
  <2>1. Saved(w) = resume[w] /\ resume[w] \in AllWeights
    BY <1>3, <1>6 DEF Saved
  <2>2. resume[w].steps \in 0..Steps
    BY <2>1 DEF AllWeights
  <2> QED BY <1>1, <1>2, <1>3, <1>6, <2>1, <2>2 DEF IInv, OnlyClaimedWork, b
<1> QED BY <1>5, <1>6

\* The same for the process that optimizes it.
LEMMA Optimizer ==
    ASSUME IInv, NEW p \in Procs, pc[p] \in Optimizing
    PROVE  /\ pc[p] \in Locked /\ OfProcess(p)
           /\ job[p].work \in Works /\ job[p].binding \in Bindings
           /\ job[p].step \in 0..Steps /\ job[p].admission \in Inputs
           /\ claim # None /\ claim.claim.work = job[p].work
           /\ claim.claim.binding = job[p].binding
  BY DEF IInv, TypeOK, OfProcess, JobFilled, Claiming, Locked, Bound, Jobs

LEMMA MakeWorkInv == ASSUME IInv, NEW p \in Procs, MakeWork(p) PROVE IInv'
<1>1. /\ OfProcess(p) /\ pc[p] = "makeWork" /\ pc[p] \in Locked /\ job[p].work \in Works
      /\ resume[job[p].work] = None /\ claim # None /\ claim.claim.work = job[p].work
      /\ job[p].step = 0
  BY DEF IInv, OfProcess, MakeWork, Locked, JobFilled, Bound, Claiming, Optimizing
<1>2. TypeOK'
  BY <1>1 DEF IInv, TypeOK, MakeWork, Goto, bounds
<1>3. pc'[p] = "save" /\ job' = job /\ lock' = lock
  BY DEF IInv, TypeOK, MakeWork, Goto
<1>4. Saved(job[p].work).steps = 0
  BY <1>1, ClaimedRun
<1>5. UNCHANGED IdentityFiles /\ UNCHANGED staging
  BY DEF MakeWork, IdentityFiles
<1>6. JobFilled(p)' /\ Claiming(p)'
  BY <1>1, <1>3, <1>5 DEF OfProcess, JobFilled, Claiming, Bound, Locked, Optimizing, Reloading,
                          IdentityFiles
<1>7. InMemory(p)'
  BY <1>1, <1>3, <1>4, <1>5 DEF InMemory, Saved, IdentityFiles
<1>8. (ClaimPaired /\ OnlyClaimedWork /\ ExportComplete /\ Completed)'
  BY <1>5, FilesFrame DEF MakeWork
<1> QED BY <1>1, <1>2, <1>6, <1>7, <1>8, HolderInv
        DEF MakeWork, Goto, IInv, TypeOK, OfProcess

LEMMA OpenClaimInv == ASSUME IInv, NEW p \in Procs, OpenClaim(p) PROVE IInv'
<1> DEFINE w == job[p].work
<1>1. /\ OfProcess(p) /\ pc[p] = "openClaim" /\ pc[p] \in Locked /\ w \in Works
      /\ job[p].binding \in Bindings
  BY DEF IInv, OfProcess, OpenClaim, Locked, JobFilled, Bound
<1>2. claim # None /\ claim.claim.work = w /\ claim.claim.binding = job[p].binding
  BY DEF OpenClaim, MayResume
<1>3. Saved(w).steps \in 0..Steps
  BY <1>1, <1>2, ClaimedRun
<1>4. job' \in [Procs -> Jobs] /\ job' = [job EXCEPT ![p].step = Saved(w).steps]
  BY <1>3, JobStepType DEF IInv, TypeOK, OpenClaim
<1>5. TypeOK'
  BY <1>1, <1>4 DEF IInv, TypeOK, OpenClaim, Goto, bounds
<1>6. /\ pc'[p] = "save" /\ lock' = lock
      /\ job'[p] = [job[p] EXCEPT !.step = Saved(w).steps]
  BY <1>4 DEF IInv, TypeOK, OpenClaim, Goto
<1>7. /\ job'[p].step = Saved(w).steps /\ job'[p].work = w /\ job'[p].pid = job[p].pid
      /\ job'[p].binding = job[p].binding /\ job'[p].admission = job[p].admission
  BY <1>6 DEF IInv, TypeOK, Jobs
<1>8. UNCHANGED IdentityFiles /\ UNCHANGED staging
  BY DEF OpenClaim, IdentityFiles
<1> HIDE DEF w
<1>9. JobFilled(p)' /\ Claiming(p)'
  BY <1>1, <1>2, <1>6, <1>7, <1>8
     DEF OfProcess, JobFilled, Claiming, Bound, Locked, Optimizing, Reloading, IdentityFiles, w
<1>10. InMemory(p)'
  BY <1>6, <1>7, <1>8 DEF InMemory, Saved, IdentityFiles
<1>11. (ClaimPaired /\ OnlyClaimedWork /\ ExportComplete /\ Completed)'
  BY <1>8, FilesFrame DEF OpenClaim
<1> QED BY <1>1, <1>5, <1>9, <1>10, <1>11, HolderInv
        DEF OpenClaim, Goto, IInv, TypeOK, OfProcess, IdentityFiles

LEMMA TrainInv == ASSUME IInv, NEW p \in Procs, Train(p) PROVE IInv'
<1> DEFINE w == job[p].work
<1>1. OfProcess(p) /\ pc[p] = "train" /\ pc[p] \in Locked /\ w \in Works
  BY Optimizer DEF Train, Optimizing
<1>2. job[p].step < Steps /\ resume[w] # None /\ job[p].step = resume[w].steps
      /\ job[p].step \in 0..Steps
  BY <1>1, Optimizer DEF OfProcess, InMemory, Optimizing
<1>3. job[p].step + 1 \in 0..Steps
  BY <1>2, RunAssumption
<1>4. job' = [job EXCEPT ![p].step = job[p].step + 1]
  BY DEF Train
<1>5. job' \in [Procs -> Jobs]
  BY <1>3, <1>4, JobStepType DEF IInv, TypeOK
<1>6. TypeOK'
  BY <1>5 DEF IInv, TypeOK, Train, Goto, files, bounds
<1>7. pc'[p] = "save" /\ lock' = lock /\ job'[p] = [job[p] EXCEPT !.step = job[p].step + 1]
  BY <1>4 DEF IInv, TypeOK, Train, Goto
<1>8. /\ job'[p].step = resume[w].steps + 1 /\ job'[p].work = w /\ job'[p].pid = job[p].pid
      /\ job'[p].binding = job[p].binding /\ job'[p].admission = job[p].admission
  BY <1>2, <1>7 DEF IInv, TypeOK, Jobs
<1>9. UNCHANGED IdentityFiles /\ UNCHANGED staging
  BY DEF Train, IdentityFiles, files
<1> HIDE DEF w
<1>10. JobFilled(p)' /\ Claiming(p)'
  BY <1>1, <1>7, <1>8, <1>9
     DEF OfProcess, JobFilled, Claiming, Bound, Locked, Optimizing, Reloading, IdentityFiles, w
<1>11. InMemory(p)'
  BY <1>2, <1>7, <1>8, <1>9 DEF InMemory, Saved, IdentityFiles
<1>12. (ClaimPaired /\ OnlyClaimedWork /\ ExportComplete /\ Completed)'
  BY <1>9, FilesFrame DEF Train, files
<1> QED BY <1>1, <1>6, <1>9, <1>10, <1>11, <1>12, HolderInv
        DEF Train, Goto, IInv, TypeOK, OfProcess, IdentityFiles

\* A boundary is persisted over the last one, or over itself: what was complete
\* before is complete, and the same, after.
LEMMA SaveInv == ASSUME IInv, NEW p \in Procs, Save(p) PROVE IInv'
<1> DEFINE w == job[p].work
           b == job[p].binding
           n == job[p].step
<1>1. /\ OfProcess(p) /\ pc[p] = "save" /\ pc[p] \in Locked /\ w \in Works
      /\ b \in Bindings /\ n \in 0..Steps /\ claim # None /\ claim.claim.work = w
      /\ claim.claim.binding = b
  BY Optimizer DEF Save, Optimizing
<1>2. n \in {Saved(w).steps, Saved(w).steps + 1} /\ Saved(w).steps \in 0..Steps
  BY <1>1, ClaimedRun DEF OfProcess, InMemory
<1>3. Weights(b, n) \in AllWeights /\ Weights(b, n).binding = b /\ Weights(b, n).steps = n
  BY <1>1, WeightsType
<1>4. Weights(b, n) # None
  BY <1>3, NoneAssumption
<1>5. /\ resume' = [resume EXCEPT ![w] = Weights(b, n)] /\ job' = job /\ lock' = lock
      /\ pc'[p] = IF n = Steps THEN "complete" ELSE "train"
      /\ resume \in [Works -> AllWeights \cup {None}]
      /\ UNCHANGED <<claim, results, exports, finals, staging>>
  BY DEF IInv, TypeOK, Save, Goto
<1>6. resume'[w] = Weights(b, n) /\ \A v \in Works : v # w => resume'[v] = resume[v]
  BY <1>1, <1>5
<1>7. TypeOK'
  BY <1>3, <1>5 DEF IInv, TypeOK, Save, Goto, bounds
\* Once there is a result the boundary is the terminal one, and stays it.
<1>8. results[w] # None => resume[w] = Weights(b, n) /\ n = Steps
  <2>1. SUFFICES ASSUME results[w] # None PROVE resume[w] = Weights(b, n) /\ n = Steps
    OBVIOUS
  <2>2. resume[w] = Weights(b, Steps)
    BY <1>1, <2>1 DEF IInv, Completed
  <2>3. Weights(b, Steps) \in AllWeights /\ Weights(b, Steps).steps = Steps
    BY <1>1, WeightsType, RunAssumption
  <2>4. Saved(w).steps = Steps
    BY <2>2, <2>3, NoneAssumption DEF Saved
  <2>5. n = Steps
    BY <1>1, <1>2, <2>4, RunAssumption
  <2> QED BY <2>2, <2>5
<1> HIDE DEF w, b, n
<1>9. OnlyClaimedWork' /\ ClaimPaired'
  BY <1>1, <1>3, <1>4, <1>5, <1>6 DEF IInv, OnlyClaimedWork, ClaimPaired
<1>10. Completed'
  <2>1. ASSUME NEW v \in Works, results[v] # None
        PROVE  resume'[v] = resume[v]
    BY <1>1, <1>6, <1>8, <2>1
  <2> QED BY <1>5, <2>1 DEF IInv, Completed
<1>11. ExportComplete'
  <2>1. ASSUME NEW v \in Works, exports[v] # None
        PROVE  resume'[v] = resume[v]
    BY <1>1, <1>6, <1>8, <2>1 DEF IInv, Completed
  <2> QED BY <1>5, <2>1 DEF IInv, ExportComplete
<1>12. JobFilled(p)' /\ Claiming(p)'
  BY <1>1, <1>5
     DEF OfProcess, JobFilled, Claiming, Bound, Locked, Optimizing, Reloading, w, b
<1>13. InMemory(p)'
  <2>1. CASE n = Steps
    BY <1>5, <1>6, <2>1 DEF InMemory, w, b, n
  <2>2. CASE n # Steps
    <3>1. n < Steps
      BY <1>1, <2>2, RunAssumption
    <3> QED BY <1>3, <1>4, <1>5, <1>6, <2>2, <3>1 DEF InMemory, w, b, n
  <2> QED BY <2>1, <2>2
<1> QED BY <1>1, <1>5, <1>7, <1>9, <1>10, <1>11, <1>12, <1>13, HolderInv
        DEF Save, Goto, IInv, TypeOK, OfProcess

LEMMA CompleteInv == ASSUME IInv, NEW p \in Procs, Complete(p) PROVE IInv'
<1> DEFINE w == job[p].work
           b == job[p].binding
<1>1. /\ OfProcess(p) /\ pc[p] = "complete" /\ pc[p] \in Locked /\ w \in Works
      /\ b \in Bindings
  BY Optimizer DEF Complete, Optimizing
<1>2. job[p].step = Steps /\ resume[w] = Weights(b, Steps) /\ exports[w] = None
  BY <1>1 DEF OfProcess, InMemory, Complete
<1>3. PICK t \in Durations :
        job' = [job EXCEPT ![p].proof = [weights |-> Weights(b, Steps), duration |-> t]]
  BY <1>2 DEF Complete
<1> DEFINE x == [weights |-> Weights(b, Steps), duration |-> t]
<1>4. x \in Results /\ x.weights = Weights(b, Steps)
  BY <1>1, WeightsType, RunAssumption DEF Results
<1>5. job' = [job EXCEPT ![p].proof = x]
  BY <1>3
<1> HIDE DEF x
<1>6. job' \in [Procs -> Jobs]
  BY <1>4, <1>5, JobProofType DEF IInv, TypeOK
<1>7. TypeOK'
  BY <1>6 DEF IInv, TypeOK, Complete, Goto, files, bounds
<1>8. /\ pc'[p] = "result" /\ lock' = lock /\ job'[p] = [job[p] EXCEPT !.proof = x]
  BY <1>5 DEF IInv, TypeOK, Complete, Goto
<1>9. /\ job'[p].proof = x /\ job'[p].work = w /\ job'[p].pid = job[p].pid
      /\ job'[p].binding = b /\ job'[p].admission = job[p].admission
      /\ job'[p].step = job[p].step
  BY <1>8 DEF IInv, TypeOK, Jobs
<1>10. UNCHANGED IdentityFiles /\ UNCHANGED staging
  BY DEF Complete, IdentityFiles, files
<1> HIDE DEF w, b
<1>11. JobFilled(p)' /\ Claiming(p)'
  BY <1>1, <1>8, <1>9, <1>10
     DEF OfProcess, JobFilled, Claiming, Bound, Locked, Optimizing, Reloading, IdentityFiles, w, b
<1>12. InMemory(p)'
  BY <1>2, <1>4, <1>8, <1>9, <1>10 DEF InMemory, IdentityFiles
<1>13. (ClaimPaired /\ OnlyClaimedWork /\ ExportComplete /\ Completed)'
  BY <1>10, FilesFrame DEF Complete, files
<1> QED BY <1>1, <1>5, <1>7, <1>10, <1>11, <1>12, <1>13, HolderInv
        DEF Complete, Goto, IInv, TypeOK, OfProcess, IdentityFiles

LEMMA RecordResultInv == ASSUME IInv, NEW p \in Procs, RecordResult(p) PROVE IInv'
<1> DEFINE w == job[p].work
           x == job[p].proof
<1>1. /\ OfProcess(p) /\ pc[p] = "result" /\ pc[p] \in Locked /\ w \in Works
      /\ claim # None /\ claim.claim.work = w /\ claim.claim.binding = job[p].binding
  BY Optimizer DEF RecordResult, Optimizing
<1>2. /\ x \in Results /\ x.weights = resume[w] /\ exports[w] = None
      /\ resume[w] = Weights(job[p].binding, Steps)
  BY <1>1 DEF OfProcess, InMemory
<1>3. /\ results' = [results EXCEPT ![w] = x] /\ job' = job /\ lock' = lock
      /\ pc'[p] = "publishExport" /\ results \in [Works -> Results \cup {None}]
      /\ UNCHANGED <<claim, resume, exports, finals, staging>>
  BY DEF IInv, TypeOK, RecordResult, Goto
<1>4. results'[w] = x /\ \A v \in Works : v # w => results'[v] = results[v]
  BY <1>1, <1>3
<1>5. TypeOK'
  BY <1>2, <1>3 DEF IInv, TypeOK, RecordResult, Goto, bounds
<1>6. resume[w] # None /\ resume[w].binding = claim.claim.binding
  BY <1>1, <1>2, Optimizer, WeightsType, RunAssumption, NoneAssumption DEF Optimizing
<1> HIDE DEF w, x
<1>7. OnlyClaimedWork' /\ ClaimPaired'
  BY <1>1, <1>3, <1>4, <1>6 DEF IInv, OnlyClaimedWork, ClaimPaired
<1>8. Completed'
  BY <1>1, <1>2, <1>3, <1>4, <1>6, NoneAssumption DEF IInv, Completed
<1>9. ExportComplete'
  BY <1>2, <1>3, <1>4 DEF IInv, ExportComplete
<1>10. OfProcess(p)'
  BY <1>1, <1>2, <1>3, <1>4
     DEF OfProcess, JobFilled, Claiming, InMemory, Bound, Locked, Optimizing, Reloading, w, x
<1> QED BY <1>1, <1>3, <1>5, <1>7, <1>8, <1>9, <1>10, HolderInv
        DEF RecordResult, Goto, IInv, TypeOK

LEMMA PublishExportInv == ASSUME IInv, NEW p \in Procs, PublishExport(p) PROVE IInv'
<1> DEFINE w == job[p].work
           e == [admission |-> job[p].admission, weights |-> job[p].proof.weights,
                 result |-> results[w]]
<1>1. /\ OfProcess(p) /\ pc[p] = "publishExport" /\ pc[p] \in Locked /\ w \in Works
      /\ claim # None /\ claim.claim.work = w /\ claim.claim.binding = job[p].binding
      /\ job[p].binding \in Bindings /\ job[p].admission \in Inputs
  BY Optimizer DEF PublishExport, Optimizing
<1>2. /\ job[p].proof \in Results /\ job[p].proof.weights = resume[w]
      /\ results[w] = job[p].proof /\ resume[w] = Weights(claim.claim.binding, Steps)
  BY <1>1 DEF OfProcess, InMemory
<1>3. resume[w] \in AllWeights /\ resume[w] # None /\ resume[w].binding = claim.claim.binding
  BY <1>1, <1>2, WeightsType, RunAssumption, NoneAssumption
<1>4. /\ e \in AllExports /\ e # None /\ e.weights = resume[w] /\ e.result = results[w]
      /\ results[w] # None
  BY <1>1, <1>2, <1>3, NoneAssumption DEF AllExports
<1>5. /\ exports[w] = None /\ exports' = [exports EXCEPT ![w] = e]
      /\ exports \in [Works -> AllExports \cup {None}]
      /\ UNCHANGED <<claim, resume, results, finals, staging>>
  BY DEF IInv, TypeOK, PublishExport
<1> HIDE DEF w, e
<1>6. exports'[w] = e /\ \A v \in Works : v # w => exports'[v] = exports[v]
  BY <1>1, <1>5
<1>7. exports' \in [Works -> AllExports \cup {None}]
  BY <1>4, <1>5
<1>8. TypeOK'
  BY <1>7, LeaveFrame DEF IInv, TypeOK, PublishExport, Leave, Goto, bounds
<1>9. OnlyClaimedWork' /\ ClaimPaired'
  BY <1>1, <1>3, <1>5, <1>6 DEF IInv, OnlyClaimedWork, ClaimPaired
<1>10. ExportComplete'
  BY <1>2, <1>4, <1>5, <1>6 DEF IInv, ExportComplete
<1>11. Completed'
  <2>1. \A f \in Finals : finals[f] = None
    BY <1>1, <1>5, NoneAssumption DEF IInv, Completed, TypeOK, ExportComplete
  <2> QED BY <1>4, <1>5, <1>6, <2>1 DEF IInv, Completed
<1>12. OfProcess(p)'
  BY LeaveFrame, Off DEF PublishExport
<1> QED BY <1>1, <1>5, <1>6, <1>8, <1>9, <1>10, <1>11, <1>12, LeaveFrame, HolderInv
        DEF PublishExport

-----------------------------------------------------------------------------
(* Steps of a reload, and of the surroundings.                             *)

LEMMA ReadExportInv == ASSUME IInv, NEW p \in Procs, ReadExport(p) PROVE IInv'
<1> DEFINE w == job[p].work
           e == exports[w]
<1>1. /\ OfProcess(p) /\ pc[p] = "readExport" /\ w \in Works /\ job[p].final \in Finals
      /\ job[p].step = 0
  BY DEF IInv, OfProcess, ReadExport, JobFilled, Claiming, Reloading, Optimizing
<1>2. e # None /\ e \in AllExports
  BY <1>1 DEF IInv, TypeOK, ReadExport, AdmittedExport, ReadableExport
<1>3. job' = [job EXCEPT ![p].proof = e]
  BY DEF ReadExport
<1>4. job' \in [Procs -> Jobs]
  BY <1>2, <1>3, JobProofType DEF IInv, TypeOK
<1>5. TypeOK'
  BY <1>4 DEF IInv, TypeOK, ReadExport, Goto, files, bounds
<1>6. pc'[p] = "copyExport" /\ job'[p] = [job[p] EXCEPT !.proof = e] /\ exports' = exports
  BY <1>3 DEF IInv, TypeOK, ReadExport, Goto, files
<1>7. /\ job'[p].proof = e /\ job'[p].work = w /\ job'[p].final = job[p].final
      /\ job'[p].step = 0
  BY <1>1, <1>6 DEF IInv, TypeOK, Jobs
<1> HIDE DEF w
<1>8. OfProcess(p)'
  BY <1>1, <1>2, <1>6, <1>7
     DEF OfProcess, JobFilled, Claiming, InMemory, Bound, Locked, Optimizing, Reloading
<1> QED BY <1>3, <1>5, <1>8, MoveInv DEF ReadExport, Goto, IdentityFiles, files, IInv, TypeOK

LEMMA CopyExportInv == ASSUME IInv, NEW p \in Procs, CopyExport(p) PROVE IInv'
<1>1. /\ OfProcess(p) /\ pc[p] = "copyExport"
  BY DEF IInv, OfProcess, CopyExport
<1>2. TypeOK'
  BY DEF IInv, TypeOK, CopyExport, Goto, files, bounds
<1>3. pc'[p] = "publishFinal" /\ job' = job /\ exports' = exports
  BY DEF IInv, TypeOK, CopyExport, Goto, files
<1>4. OfProcess(p)'
  BY <1>1, <1>3
     DEF OfProcess, JobFilled, Claiming, InMemory, Bound, Locked, Optimizing, Reloading
<1> QED BY <1>2, <1>4, MoveInv DEF CopyExport, Goto, IdentityFiles, files, IInv, TypeOK

\* What a reload publishes, after reading it twice, is the export.
LEMMA PublishesExport ==
    ASSUME IInv, NEW p \in Procs, PublishFinal(p)
    PROVE  /\ claim # None /\ job[p].final \in Finals
           /\ job[p].proof = exports[claim.claim.work] /\ job[p].proof # None
           /\ job[p].proof \in AllExports /\ claim.claim.work \in Works
<1>1. /\ job[p].work \in Works /\ job[p].final \in Finals
      /\ exports[job[p].work] # None /\ job[p].proof = exports[job[p].work]
  BY DEF IInv, JobFilled, InMemory, PublishFinal, Reloading
<1>2. claim # None /\ claim.claim.work = job[p].work
  BY <1>1 DEF IInv, OnlyClaimedWork
<1> QED BY <1>1, <1>2 DEF IInv, TypeOK

LEMMA PublishFinalInv == ASSUME IInv, NEW p \in Procs, PublishFinal(p) PROVE IInv'
<1>1. finals' = [finals EXCEPT ![job[p].final] = job[p].proof]
  BY DEF PublishFinal
<1>2. UNCHANGED IdentityFiles /\ UNCHANGED staging
  BY DEF PublishFinal, IdentityFiles
<1>3. finals' \in [Finals -> AllExports \cup {None}]
  BY <1>1, PublishesExport DEF IInv, TypeOK
<1>4. TypeOK'
  BY <1>3, LeaveFrame DEF IInv, TypeOK, PublishFinal, Leave, Goto, bounds
<1>5. (ClaimPaired /\ OnlyClaimedWork /\ ExportComplete)'
  BY <1>2 DEF IInv, IdentityFiles, ClaimPaired, OnlyClaimedWork, ExportComplete
<1>6. Completed'
  BY <1>1, <1>2, PublishesExport DEF IInv, TypeOK, Completed, IdentityFiles
<1>7. ASSUME NEW q \in Procs PROVE OfProcess(q)'
  <2>1. CASE q = p
    BY <2>1, LeaveFrame, Off DEF PublishFinal
  <2>2. CASE q # p
    BY <1>2, <2>2, LeaveFrame, BystanderFrame DEF PublishFinal
  <2> QED BY <2>1, <2>2
<1> QED BY <1>4, <1>5, <1>6, <1>7 DEF IInv, OfProcess

\* No process moves, and no file of the identity changes.
LEMMA SurroundingsInv ==
    ASSUME IInv, UNCHANGED <<pc, job, lock, staging, claim, resume, results, exports, finals>>,
           TypeOK'
    PROVE  IInv'
<1>1. (ClaimPaired /\ OnlyClaimedWork /\ ExportComplete /\ Completed)'
  BY FilesFrame DEF IdentityFiles
<1>2. ASSUME NEW q \in Procs PROVE OfProcess(q)'
  BY BystanderFrame DEF IdentityFiles
<1> QED BY <1>1, <1>2 DEF IInv, OfProcess

LEMMA SmokeInv == ASSUME IInv, NEW w \in Works, Smoke(w) PROVE IInv'
<1>1. TypeOK'
  BY DEF IInv, TypeOK, Smoke, bounds
<1> QED BY <1>1, SurroundingsInv DEF Smoke

LEMMA DriftInv == ASSUME IInv, Drift PROVE IInv'
<1>1. TypeOK'
  BY RunAssumption DEF IInv, TypeOK, Drift
<1> QED BY <1>1, SurroundingsInv DEF Drift

LEMMA StutterInv == ASSUME IInv, UNCHANGED vars PROVE IInv'
<1>1. TypeOK'
  BY DEF IInv, TypeOK, vars
<1> QED BY <1>1, SurroundingsInv DEF vars

-----------------------------------------------------------------------------

LEMMA StartInv ==
    ASSUME IInv, NEW p \in Procs,
           \/ StartAdmit(p)
           \/ \E w \in Works : StartTrain(p, w) \/ StartResume(p, w)
           \/ \E w \in Works, f \in Finals : StartReload(p, w, f)
    PROVE  IInv'
<1>1. CASE StartAdmit(p)
  BY <1>1, BeginInv DEF StartAdmit
<1>2. ASSUME NEW w \in Works, StartTrain(p, w) PROVE IInv'
  BY <1>2, BeginInv DEF StartTrain
<1>3. ASSUME NEW w \in Works, StartResume(p, w) PROVE IInv'
  BY <1>3, BeginInv DEF StartResume
<1>4. ASSUME NEW w \in Works, NEW f \in Finals, StartReload(p, w, f) PROVE IInv'
  BY <1>4, BeginInv DEF StartReload
<1> QED BY <1>1, <1>2, <1>3, <1>4

LEMMA StepInv == ASSUME IInv, NEW p \in Procs, Step(p) PROVE IInv'
<1>1. CASE Admit(p)
  BY <1>1, AdmitComputeInv, AdmitPreflightInv, AdmitCreateInv DEF Admit
<1>2. CASE Verify(p) \/ Bind(p) \/ Lock(p)
  BY <1>2, VerifyInv, BindInv, LockInv
<1>3. CASE Claim(p)
  BY <1>3, NewWorkInv, StageClaimInv, WriteClaimInv, WriteInitialInv, PublishClaimInv,
     MakeWorkInv DEF Claim
<1>4. CASE Optimize(p)
  BY <1>4, OpenClaimInv, SaveInv, TrainInv DEF Optimize
<1>5. CASE Export(p)
  BY <1>5, CompleteInv, ExportedInv, RecordResultInv, PublishExportInv DEF Export
<1>6. CASE Reload(p)
  BY <1>6, ReadExportInv, CopyExportInv, PublishFinalInv DEF Reload
<1>7. CASE Refuse(p)
  BY <1>7, RefuseInv
<1> QED BY <1>1, <1>2, <1>3, <1>4, <1>5, <1>6, <1>7 DEF Step

LEMMA NextInv == IInv /\ [Next]_vars => IInv'
<1> SUFFICES ASSUME IInv, [Next]_vars PROVE IInv'
  OBVIOUS
<1>1. ASSUME NEW p \in Procs, Step(p) PROVE IInv'
  BY <1>1, StepInv
<1>2. ASSUME NEW p \in Procs, Die(p) PROVE IInv'
  BY <1>2, DieInv
<1>3. ASSUME NEW p \in Procs,
             \/ StartAdmit(p)
             \/ \E w \in Works : StartTrain(p, w) \/ StartResume(p, w)
             \/ \E w \in Works, f \in Finals : StartReload(p, w, f)
      PROVE  IInv'
  BY <1>3, StartInv
<1>4. ASSUME NEW w \in Works, Smoke(w) PROVE IInv'
  BY <1>4, SmokeInv
<1>5. CASE Drift
  BY <1>5, DriftInv
<1>6. CASE UNCHANGED vars
  BY <1>6, StutterInv
<1> QED BY <1>1, <1>2, <1>3, <1>4, <1>5, <1>6 DEF Next

\* The inductive invariant of the private workflow: typed files, the claim and
\* what hangs from it, and for every process what it holds in memory by its
\* step.
THEOREM Invariance == Spec => []IInv
  BY InitInv, NextInv, PTL DEF Spec

\* Files and processes have their types, for any number of processes, deaths
\* and changes of the run inputs.
THEOREM TypeCorrect == Spec => []TypeOK
<1>1. IInv => TypeOK
  BY DEF IInv
<1> QED BY Invariance, <1>1, PTL

\* publish_step_zero_claim: the published claim is always the complete pair.
THEOREM ClaimIsPaired == Spec => []ClaimPaired
<1>1. IInv => ClaimPaired
  BY DEF IInv
<1> QED BY Invariance, <1>1, PTL

\* Operational state, results and exports exist only for the claimed work path
\* and binding.
THEOREM OnlyTheClaimedWork == Spec => []OnlyClaimedWork
<1>1. IInv => OnlyClaimedWork
  BY DEF IInv
<1> QED BY Invariance, <1>1, PTL

\* private_identity_lock: a process that optimizes is the only one, and its
\* memory is the persisted boundary or the next.
THEOREM MemoryIsFresh == Spec => []MemoryFresh
<1>1. ASSUME IInv PROVE MemoryFresh
  <2>1. ASSUME NEW p \in Procs, pc[p] \in Optimizing
        PROVE  /\ lock = p /\ claim # None /\ claim.claim.work = job[p].work
               /\ job[p].step \in {Saved(job[p].work).steps}
                     \cup (IF pc[p] = "save" THEN {Saved(job[p].work).steps + 1} ELSE {})
    <3>1. /\ OfProcess(p) /\ pc[p] \in Locked /\ claim # None /\ job[p].binding \in Bindings
          /\ claim.claim.work = job[p].work
      BY <1>1, <2>1, Optimizer
    <3>2. pc[p] # "save" => job[p].step = Saved(job[p].work).steps
      <4>1. Weights(job[p].binding, Steps) # None /\ Weights(job[p].binding, Steps).steps = Steps
        BY <3>1, WeightsType, NoneAssumption, RunAssumption
      <4> QED BY <2>1, <3>1, <4>1 DEF OfProcess, InMemory, Optimizing, Saved
    <3>3. pc[p] = "save" => job[p].step \in {Saved(job[p].work).steps, Saved(job[p].work).steps + 1}
      BY <3>1 DEF OfProcess, InMemory
    <3>4. lock = p
      BY <3>1 DEF OfProcess, Claiming
    <3> QED BY <3>1, <3>2, <3>3, <3>4
  <2> QED BY <2>1 DEF MemoryFresh
<1>2. IInv => MemoryFresh
  BY <1>1
<1> QED BY Invariance, <1>2, PTL

\* export_private_checkpoint: an export is that of the complete claimed run and
\* of the training result beside it.
THEOREM ExportIsComplete == Spec => []ExportComplete
<1>1. IInv => ExportComplete
  BY DEF IInv
<1> QED BY Invariance, <1>1, PTL

-----------------------------------------------------------------------------
(* The workflow implements OneIdentity.                                    *)

\* Only four steps are visible there.
LEMMA QuietFrame ==
    ASSUME UNCHANGED <<claim, resume, exports, finals>>
    PROVE  UNCHANGED Identity!vars
  BY DEF Identity!vars, ClaimedAs, Progress, ExportedWeights, Published, Saved

LEMMA QuietSteps ==
    ASSUME NEW p \in Procs, Step(p),
           ~PublishClaim(p), ~Save(p), ~PublishExport(p), ~PublishFinal(p)
    PROVE  UNCHANGED <<claim, resume, exports, finals>>
<1>1. CASE Admit(p)
  BY <1>1 DEF Admit, AdmitCompute, AdmitPreflight, AdmitCreate, files
<1>2. CASE Verify(p) \/ Bind(p) \/ Lock(p)
  BY <1>2 DEF Verify, Bind, Lock, files
<1>3. CASE Claim(p)
  BY <1>3 DEF Claim, NewWork, StageClaim, WriteClaim, WriteInitial, MakeWork, files
<1>4. CASE Optimize(p)
  BY <1>4 DEF Optimize, OpenClaim, Train, files
<1>5. CASE Export(p)
  BY <1>5 DEF Export, Complete, Exported, RecordResult, files
<1>6. CASE Reload(p)
  BY <1>6 DEF Reload, ReadExport, CopyExport, files
<1>7. CASE Refuse(p)
  BY <1>7 DEF Refuse, files
<1> QED BY <1>1, <1>2, <1>3, <1>4, <1>5, <1>6, <1>7 DEF Step

LEMMA ClaimedNamed ==
    ASSUME claim # None, claim.claim.work \in Works, claim.claim.binding \in Bindings
    PROVE  ClaimedAs # None
<1>1. ClaimedAs \in [work : Works, binding : Bindings]
  BY DEF ClaimedAs
<1> QED BY <1>1, NoneAssumption

LEMMA ClaimRefines ==
    ASSUME IInv, NEW p \in Procs, PublishClaim(p)
    PROVE  Identity!Claim
<1> DEFINE d == job[p].pid
           w == job[p].work
           b == job[p].binding
<1>1. /\ staging[d].claim # None /\ staging[d].claim.work = w /\ staging[d].claim.binding = b
      /\ staging[d].state = Weights(b, 0) /\ staging[d] # None
      /\ w \in Works /\ b \in Bindings
  BY DEF IInv, JobFilled, Claiming, PublishClaim, Bound, Locked
<1>2. claim = None /\ claim' = staging[d] /\ UNCHANGED <<resume, exports, finals>>
  BY DEF PublishClaim
<1>3. resume[w] = None /\ exports[w] = None
  BY <1>1, <1>2 DEF IInv, OnlyClaimedWork
<1> HIDE DEF d, w, b
<1>4. ClaimedAs = None /\ ClaimedAs' = [work |-> w, binding |-> b]
  BY <1>1, <1>2 DEF ClaimedAs
<1>5. ClaimedAs' \in [work : Works, binding : Bindings]
  BY <1>1, <1>4
<1>6. Progress = 0 /\ Progress' = 0
  <2>1. Weights(b, 0).steps = 0
    BY DEF Weights
  <2> QED BY <1>1, <1>2, <1>3, <2>1 DEF Progress, Saved
<1>7. ExportedWeights = None /\ ExportedWeights' = None
  BY <1>1, <1>2, <1>3 DEF ExportedWeights
<1>8. Published' = Published
  BY <1>2 DEF Published
<1> QED BY <1>4, <1>5, <1>6, <1>7, <1>8 DEF Identity!Claim

LEMMA SaveRefines ==
    ASSUME IInv, NEW p \in Procs, Save(p)
    PROVE  Identity!Advance \/ UNCHANGED Identity!vars
<1> DEFINE w == job[p].work
           n == job[p].step
           x == Weights(job[p].binding, n)
<1>1. /\ OfProcess(p) /\ pc[p] = "save" /\ w \in Works /\ job[p].binding \in Bindings
      /\ n \in 0..Steps /\ claim # None /\ claim.claim.work = w
  BY Optimizer DEF Save, Optimizing
<1>2. n \in {Saved(w).steps, Saved(w).steps + 1} /\ Saved(w).steps \in 0..Steps
  BY <1>1, ClaimedRun DEF OfProcess, InMemory
<1>3. x.steps = n /\ x # None
  BY <1>1, WeightsType, NoneAssumption
<1>4. resume'[w] = x /\ UNCHANGED <<claim, exports, finals>>
  BY <1>1 DEF Save, IInv, TypeOK
<1> HIDE DEF w, n, x
<1>5. Progress = Saved(w).steps /\ Progress' = n
  BY <1>1, <1>3, <1>4 DEF Progress, Saved
<1>6. UNCHANGED <<ClaimedAs, ExportedWeights, Published>>
  BY <1>4 DEF ClaimedAs, ExportedWeights, Published
<1>7. ClaimedAs # None
  BY <1>1, ClaimedRun, ClaimedNamed
<1>8. CASE n = Saved(w).steps
  BY <1>5, <1>6, <1>8 DEF Identity!vars
<1>9. CASE n = Saved(w).steps + 1
  <2>1. Progress < Steps /\ Progress' = Progress + 1
    BY <1>1, <1>2, <1>5, <1>9, RunAssumption
  <2> QED BY <1>6, <1>7, <2>1 DEF Identity!Advance
<1> QED BY <1>2, <1>8, <1>9 DEF n, w

LEMMA ExportRefines ==
    ASSUME IInv, NEW p \in Procs, PublishExport(p)
    PROVE  Identity!Export
<1> DEFINE w == job[p].work
           b == job[p].binding
           e == [admission |-> job[p].admission, weights |-> job[p].proof.weights,
                 result |-> results[w]]
<1>1. /\ OfProcess(p) /\ pc[p] = "publishExport" /\ w \in Works /\ b \in Bindings
      /\ claim # None /\ claim.claim.work = w /\ claim.claim.binding = b
      /\ job[p].admission \in Inputs
  BY Optimizer DEF PublishExport, Optimizing
<1>2. /\ job[p].proof \in Results /\ results[w] = job[p].proof
      /\ e.weights = Weights(b, Steps) /\ resume[w] = Weights(b, Steps)
  BY <1>1 DEF OfProcess, InMemory
<1>3. Weights(b, Steps) \in AllWeights /\ Weights(b, Steps).steps = Steps
      /\ Weights(b, Steps) # None
  BY <1>1, WeightsType, RunAssumption, NoneAssumption
<1>4. e \in AllExports /\ e # None
  BY <1>1, <1>2, <1>3, NoneAssumption DEF AllExports
<1>5. /\ exports[w] = None /\ exports' = [exports EXCEPT ![w] = e]
      /\ UNCHANGED <<claim, resume, finals>>
  BY DEF PublishExport
<1> HIDE DEF w, b, e
<1>6. exports'[w] = e
  BY <1>1, <1>5 DEF IInv, TypeOK
<1>7. Progress = Steps /\ ExportedWeights = None /\ ExportedWeights' = Weights(b, Steps)
  BY <1>1, <1>2, <1>3, <1>4, <1>5, <1>6 DEF Progress, Saved, ExportedWeights
<1>8. UNCHANGED <<ClaimedAs, Progress, Published>>
  BY <1>5 DEF ClaimedAs, Progress, Published, Saved
<1>9. ClaimedAs.binding = b
  BY <1>1 DEF ClaimedAs
<1> QED BY <1>7, <1>8, <1>9 DEF Identity!Export, Weights

LEMMA PublishRefines ==
    ASSUME IInv, NEW p \in Procs, PublishFinal(p)
    PROVE  Identity!Publish
<1> DEFINE f == job[p].final
           e == exports[claim.claim.work]
<1>1. /\ claim # None /\ f \in Finals /\ job[p].proof = e /\ e # None /\ e \in AllExports
  BY PublishesExport
<1>2. /\ finals[f] = None /\ finals' = [finals EXCEPT ![f] = e]
      /\ finals \in [Finals -> AllExports \cup {None}]
      /\ UNCHANGED <<claim, resume, exports>>
  BY <1>1 DEF PublishFinal, IInv, TypeOK
<1> HIDE DEF f, e
<1>3. ExportedWeights = e.weights
  BY <1>1 DEF ExportedWeights, e
<1>4. ExportedWeights # None
  BY <1>1, <1>3, NoneAssumption DEF AllExports
<1>5. Published[f] = None
  BY <1>1, <1>2 DEF Published
<1>6. Published' = [Published EXCEPT ![f] = ExportedWeights]
  <2>1. ASSUME NEW g \in Finals
        PROVE  Published'[g] = IF g = f THEN ExportedWeights ELSE Published[g]
    BY <1>1, <1>2, <1>3 DEF Published
  <2> QED BY <1>1, <2>1 DEF Published
<1>7. UNCHANGED <<ClaimedAs, Progress, ExportedWeights>>
  BY <1>2 DEF ClaimedAs, Progress, ExportedWeights, Saved
<1> QED BY <1>1, <1>4, <1>5, <1>6, <1>7 DEF Identity!Publish

LEMMA InitRefines == Init => Identity!Init
  BY DEF Init, Identity!Init, ClaimedAs, Progress, ExportedWeights, Published

LEMMA NextRefines == IInv /\ [Next]_vars => [Identity!Next]_(Identity!vars)
<1> SUFFICES ASSUME IInv, [Next]_vars PROVE Identity!Next \/ UNCHANGED Identity!vars
  OBVIOUS
<1>1. ASSUME NEW p \in Procs, Step(p) PROVE Identity!Next \/ UNCHANGED Identity!vars
  BY <1>1, QuietSteps, QuietFrame, ClaimRefines, SaveRefines, ExportRefines, PublishRefines
     DEF Identity!Next
<1>2. ASSUME NEW p \in Procs, Die(p) PROVE UNCHANGED Identity!vars
  BY <1>2, QuietFrame DEF Die, files
<1>3. ASSUME NEW p \in Procs,
             \/ StartAdmit(p)
             \/ \E w \in Works : StartTrain(p, w) \/ StartResume(p, w)
             \/ \E w \in Works, f \in Finals : StartReload(p, w, f)
      PROVE  UNCHANGED Identity!vars
  BY <1>3, QuietFrame DEF StartAdmit, StartTrain, StartResume, StartReload, Begin, files
<1>4. ASSUME NEW w \in Works, Smoke(w) PROVE UNCHANGED Identity!vars
  BY <1>4, QuietFrame DEF Smoke
<1>5. CASE Drift
  BY <1>5, QuietFrame DEF Drift
<1>6. CASE UNCHANGED vars
  BY <1>6, QuietFrame DEF vars
<1> QED BY <1>1, <1>2, <1>3, <1>4, <1>5, <1>6 DEF Next

\* The workflow keeps the promise of the one identity: one claim, progress that
\* never goes back, one export of the complete run, final checkpoints that hold
\* exactly the exported weights, nothing published ever changed.
THEOREM RefinesIdentity == Spec => ImplementsIdentity
  BY InitRefines, Invariance, NextRefines, PTL DEF Spec, ImplementsIdentity, Identity!Spec
=============================================================================
