---------------------------- MODULE StoreProofs ----------------------------
(***************************************************************************)
(* Proofs about the calibrations' directory for any number of writers,     *)
(* names, edits and power losses.  First about AtomicPublication: what is  *)
(* published is complete, and the directory is a write-once register.      *)
(* Then about CalibrationStore: what a reader keeps of a file is what was  *)
(* there, what it returns is of one version, it refuses a published        *)
(* calibration only while its writer has not finished, and the artifact    *)
(* remains a write-once register whatever the operator does.               *)
(***************************************************************************)
EXTENDS CalibrationStore, SequenceTheorems, FiniteSetTheorems, TLAPS

TypeOK == FilesTypeOK /\ WritersTypeOK

Complete(w) == Len(data[w]) = Size /\ synced[w] = Size

\* A writer's file holds its own parts only.
Parts ==
    \A w \in Writers :
      /\ \A k \in 1..Len(data[w]) : data[w][k] = w
      /\ Len(data[w]) <= Size
      /\ synced[w] <= Len(data[w])

Published == {"unlink", "retry", "settle", "report"}

\* Whoever is past the fsync, or has the name, has a complete file.
SyncedFirst ==
    \A w \in Writers :
      at[w] \in Published \cup {"link"} \/ dir[Target] = w => Complete(w)

\* The name belongs to a writer that is past the link, and to it alone.
OneOwner ==
    /\ dir[Target] \in Writers \cup {Nothing}
    /\ \A w \in Writers :
         /\ dir[Target] = w => at[w] \notin {"idle", "write", "link"}
         /\ at[w] \in Published => dir[Target] = w

\* A binding on disk is still the binding.
Kept == disk[Target] # Nothing => dir[Target] = disk[Target]

\* Only a writer whose binding is on disk can report success.
Earned ==
    \A w \in Writers :
      (at[w] = "report" /\ ~failed[w]) \/ outcome[w] = "created" =>
        disk[Target] = w

Inv == TypeOK /\ Parts /\ SyncedFirst /\ OneOwner /\ Kept /\ Earned

-----------------------------------------------------------------------------

LEMMA InitInv == PublicationInit => Inv
<1> SUFFICES ASSUME PublicationInit PROVE Inv
  OBVIOUS
<1> USE WritersAssumption, FilesAssumption
<1>1. TypeOK
  BY DEF PublicationInit, InitFiles, InitWriters, TypeOK, FilesTypeOK,
         WritersTypeOK, Steps
<1>2. /\ dir[Target] = Nothing
      /\ disk[Target] = Nothing
      /\ \A w \in Writers : data[w] = <<>> /\ synced[w] = 0 /\ w # Nothing
      /\ \A w \in Writers : at[w] = "idle" /\ outcome[w] = "pending"
  BY DEF PublicationInit, InitFiles, InitWriters
<1>3. Parts /\ SyncedFirst /\ OneOwner /\ Kept /\ Earned
  BY <1>2 DEF Parts, SyncedFirst, OneOwner, Kept, Earned, Published
<1> QED BY <1>1, <1>3 DEF Inv

\* What a change of a name means for the files, whoever makes it.
LEMMA BindFacts ==
    ASSUME TypeOK, NEW n \in Names, NEW i \in Inodes \cup {Nothing}, Bind(n, i)
    PROVE  /\ FilesTypeOK'
           /\ dir' = [dir EXCEPT ![n] = i]
           /\ disk' = disk /\ data' = data /\ synced' = synced
  BY DEF TypeOK, FilesTypeOK, Bind, Touch

LEMMA FilesStay ==
    ASSUME TypeOK, UNCHANGED fileVars
    PROVE  /\ FilesTypeOK'
           /\ dir' = dir /\ disk' = disk /\ data' = data /\ synced' = synced
  BY DEF TypeOK, FilesTypeOK, fileVars

\* A step of one writer that moves on, without touching the artifact's name or
\* the content of any file, keeps the invariant under these conditions.
LEMMA MoveOn ==
    ASSUME Inv, NEW w \in Writers, FilesTypeOK',
           dir'[Target] = dir[Target], disk'[Target] = disk[Target],
           data' = data, synced' = synced,
           NEW to \in Steps, at' = [at EXCEPT ![w] = to],
           WritersTypeOK',
           to \in Published \cup {"link"} =>
             at[w] \in Published \cup {"link"},
           to \in Published => at[w] \in Published,
           dir[Target] = w => to \notin {"idle", "write", "link"},
           \A v \in Writers \ {w} :
             outcome'[v] = outcome[v] /\ failed'[v] = failed[v],
           (to = "report" /\ ~failed'[w]) \/ outcome'[w] = "created" =>
             disk[Target] = w
    PROVE  Inv'
<1> USE WritersAssumption, FilesAssumption
<1>1. at \in [Writers -> Steps]
  BY DEF Inv, TypeOK, WritersTypeOK
<1>2. /\ at'[w] = to
      /\ \A v \in Writers \ {w} : at'[v] = at[v]
  BY <1>1
<1>3. TypeOK'
  BY DEF TypeOK
<1>4. Parts'
  BY DEF Inv, Parts
<1>5. SyncedFirst'
  BY <1>2 DEF Inv, SyncedFirst, Complete
<1>6. OneOwner'
  BY <1>2 DEF Inv, OneOwner
<1>7. Kept' /\ Earned'
  BY <1>2 DEF Inv, Kept, Earned
<1> QED BY <1>3, <1>4, <1>5, <1>6, <1>7 DEF Inv

-----------------------------------------------------------------------------
(* One lemma per action.                                                   *)

\* The ways in which a step ends, by Goto, End or Defer.
LEMMA GotoFacts ==
    ASSUME TypeOK, NEW w \in Writers, NEW to \in Steps, Goto(w, to)
    PROVE  /\ WritersTypeOK'
           /\ at' = [at EXCEPT ![w] = to]
           /\ outcome' = outcome /\ failed' = failed
  BY DEF TypeOK, WritersTypeOK, Goto

LEMMA EndFacts ==
    ASSUME TypeOK, NEW w \in Writers, NEW result, End(w, result),
           result \in {"created", "raised", "killed"}
    PROVE  /\ WritersTypeOK'
           /\ at' = [at EXCEPT ![w] = "done"]
           /\ outcome'[w] = result /\ failed' = failed
           /\ \A v \in Writers \ {w} : outcome'[v] = outcome[v]
  BY DEF TypeOK, WritersTypeOK, End, Steps

LEMMA DeferFacts ==
    ASSUME TypeOK, NEW w \in Writers, NEW to \in Steps, Defer(w, to)
    PROVE  /\ WritersTypeOK'
           /\ at' = [at EXCEPT ![w] = to]
           /\ outcome' = outcome /\ failed'[w]
           /\ \A v \in Writers \ {w} : failed'[v] = failed[v]
  BY DEF TypeOK, WritersTypeOK, Defer

\* A writer that reported success has the name on disk, wherever it is now.
LEMMA EarnedByOwner ==
    ASSUME Inv, NEW w \in Writers, outcome[w] = "created"
    PROVE  disk[Target] = w
  BY DEF Inv, Earned

LEMMA CreateInv == ASSUME Inv, NEW w \in Writers, Create(w) PROVE Inv'
<1> USE WritersAssumption, FilesAssumption
<1>1. TypeOK /\ at[w] = "idle" /\ dir[Target] # w
  BY DEF Inv, OneOwner, Create
<1>2. CASE Bind(w, w) /\ Goto(w, "write")
  <2>1. dir'[Target] = dir[Target]
    BY <1>1, <1>2, BindFacts DEF TypeOK, FilesTypeOK
  <2> QED BY <1>1, <1>2, <2>1, BindFacts, GotoFacts, EarnedByOwner, MoveOn
          DEF Steps, Published
<1>3. CASE End(w, "raised") /\ UNCHANGED fileVars
  BY <1>1, <1>3, FilesStay, EndFacts, MoveOn DEF Steps, Published
<1> QED BY <1>2, <1>3 DEF Create

LEMMA WriteInv == ASSUME Inv, NEW w \in Writers, Write(w) PROVE Inv'
<1> USE WritersAssumption, FilesAssumption
<1>1. TypeOK /\ at[w] = "write" /\ dir[Target] # w /\ disk[Target] # w
  BY DEF Inv, OneOwner, Kept, Write
<1>2. data \in [Inodes -> Seq(Versions)] /\ w \in Inodes /\ w \in Versions
  BY <1>1 DEF TypeOK, FilesTypeOK
<1>3. CASE Len(data[w]) < Size /\ AppendTo(w, w) /\ Goto(w, "write")
  <2>1. /\ data' = [data EXCEPT ![w] = Append(data[w], w)]
        /\ dir' = dir /\ disk' = disk /\ synced' = synced
        /\ outcome' = outcome /\ failed' = failed
        /\ at' = [at EXCEPT ![w] = "write"]
    BY <1>3 DEF AppendTo, Goto
  <2>2. /\ Append(data[w], w) \in Seq(Versions)
        /\ Len(Append(data[w], w)) = Len(data[w]) + 1
        /\ \A k \in 1..Len(data[w]) : Append(data[w], w)[k] = data[w][k]
        /\ Append(data[w], w)[Len(data[w]) + 1] = w
    BY <1>2, AppendProperties
  <2>3. Len(data[w]) \in Nat
    BY <1>2
  <2>4. TypeOK'
    BY <1>1, <1>2, <2>1, <2>2, <1>3, GotoFacts
    DEF TypeOK, FilesTypeOK, AppendTo, Touch, Steps
  <2>5. Parts'
    <3>1. \A v \in Writers \ {w} : data'[v] = data[v]
      BY <1>2, <2>1
    <3>2. data'[w] = Append(data[w], w)
      BY <1>2, <2>1
    <3>3. \A k \in 1..Len(data'[w]) : data'[w][k] = w
      BY <2>2, <2>3, <3>2 DEF Inv, Parts
    <3>4. Len(data'[w]) <= Size /\ synced'[w] <= Len(data'[w])
      BY <1>1, <1>3, <2>1, <2>2, <2>3, <3>2 DEF Inv, Parts, TypeOK, FilesTypeOK
    <3> QED BY <2>1, <3>1, <3>3, <3>4 DEF Inv, Parts
  <2>6. at' = at
    BY <1>1, <2>1 DEF TypeOK, WritersTypeOK
  <2>7. SyncedFirst'
    BY <1>1, <1>2, <2>1, <2>6
    DEF Inv, SyncedFirst, Complete, Published
  <2>8. OneOwner' /\ Kept' /\ Earned'
    BY <2>1, <2>6 DEF Inv, OneOwner, Kept, Earned
  <2> QED BY <2>4, <2>5, <2>7, <2>8 DEF Inv
<1>4. CASE Len(data[w]) = Size /\ SyncFile(w) /\ Goto(w, "link")
  <2>1. /\ synced' = [synced EXCEPT ![w] = Size]
        /\ dir' = dir /\ disk' = disk /\ data' = data /\ stamp' = stamp
        /\ tick' = tick
    BY <1>4 DEF SyncFile
  <2>2. /\ outcome' = outcome /\ failed' = failed
        /\ at' = [at EXCEPT ![w] = "link"]
        /\ WritersTypeOK'
    BY <1>1, <1>4, GotoFacts DEF Steps
  <2>3. TypeOK' /\ synced \in [Inodes -> Nat] /\ at \in [Writers -> Steps]
    BY <1>1, <2>1, <2>2 DEF TypeOK, FilesTypeOK, WritersTypeOK
  <2>4. Parts'
    BY <1>2, <1>4, <2>1, <2>3 DEF Inv, Parts
  <2>5. SyncedFirst'
    BY <1>2, <1>4, <2>1, <2>2, <2>3 DEF Inv, SyncedFirst, Complete
  <2>6. OneOwner' /\ Kept' /\ Earned'
    BY <1>1, <2>1, <2>2, <2>3 DEF Inv, OneOwner, Kept, Earned, Published
  <2> QED BY <2>3, <2>4, <2>5, <2>6 DEF Inv
<1>5. CASE Goto(w, "withdraw") /\ UNCHANGED fileVars
  BY <1>1, <1>5, FilesStay, GotoFacts, EarnedByOwner, MoveOn DEF Steps, Published
<1> QED BY <1>3, <1>4, <1>5 DEF Write

LEMMA PublishInv == ASSUME Inv, NEW w \in Writers, Publish(w) PROVE Inv'
<1> USE WritersAssumption, FilesAssumption
<1>1. TypeOK /\ at[w] = "link" /\ dir[Target] # w /\ disk[Target] # w
  BY DEF Inv, OneOwner, Kept, Publish
<1>2. CASE dir[Target] = Nothing /\ Bind(Target, w) /\ Goto(w, "unlink")
  <2>1. /\ dir' = [dir EXCEPT ![Target] = w]
        /\ disk' = disk /\ data' = data /\ synced' = synced
        /\ outcome' = outcome /\ failed' = failed
        /\ at' = [at EXCEPT ![w] = "unlink"]
        /\ TypeOK'
    BY <1>1, <1>2, BindFacts, GotoFacts DEF Steps, TypeOK
  <2>2. /\ dir'[Target] = w
        /\ at'[w] = "unlink"
        /\ \A v \in Writers \ {w} : at'[v] = at[v]
        /\ disk[Target] = Nothing
    BY <1>1, <1>2, <2>1 DEF Inv, Kept, TypeOK, FilesTypeOK, WritersTypeOK
  <2>3. Parts' /\ SyncedFirst'
    BY <1>1, <2>1, <2>2 DEF Inv, Parts, SyncedFirst, Complete
  <2>4. OneOwner'
    BY <1>2, <2>2 DEF Inv, OneOwner, Published
  <2>5. Kept' /\ Earned'
    BY <2>1, <2>2 DEF Inv, Kept, Earned
  <2> QED BY <2>1, <2>3, <2>4, <2>5 DEF Inv
<1>3. CASE Goto(w, "withdraw") /\ UNCHANGED fileVars
  BY <1>1, <1>3, FilesStay, GotoFacts, EarnedByOwner, MoveOn DEF Steps, Published
<1> QED BY <1>2, <1>3 DEF Publish

\* Removing a temporary name leaves the artifact's name alone.
LEMMA UnlinkFacts ==
    ASSUME TypeOK, NEW w \in Writers, Bind(w, Nothing) \/ UNCHANGED fileVars
    PROVE  /\ FilesTypeOK' /\ dir'[Target] = dir[Target]
           /\ disk' = disk /\ data' = data /\ synced' = synced
<1>1. CASE Bind(w, Nothing)
  <2>1. FilesTypeOK' /\ dir' = [dir EXCEPT ![w] = Nothing]
        /\ disk' = disk /\ data' = data /\ synced' = synced
    BY <1>1, BindFacts, WritersAssumption
  <2> QED BY <2>1, WritersAssumption DEF TypeOK, FilesTypeOK
<1>2. CASE UNCHANGED fileVars
  BY <1>2, FilesStay
<1> QED BY <1>1, <1>2

LEMMA UnlinkInv == ASSUME Inv, NEW w \in Writers, Unlink(w) PROVE Inv'
<1>1. TypeOK /\ at[w] = "unlink" /\ dir[Target] = w
  BY DEF Inv, OneOwner, Unlink, Published
<1>2. CASE Bind(w, Nothing) /\ Goto(w, "settle")
  BY <1>1, <1>2, UnlinkFacts, GotoFacts, EarnedByOwner, MoveOn
  DEF Steps, Published
<1>3. CASE lane[w] = "path" /\ Goto(w, "withdraw") /\ UNCHANGED fileVars
  BY <1>1, <1>3, UnlinkFacts, GotoFacts, EarnedByOwner, MoveOn
  DEF Steps, Published
<1>4. CASE lane[w] = "at" /\ Defer(w, "retry") /\ UNCHANGED fileVars
  BY <1>1, <1>4, UnlinkFacts, DeferFacts, EarnedByOwner, MoveOn
  DEF Steps, Published
<1> QED BY <1>2, <1>3, <1>4 DEF Unlink

LEMMA RetryInv == ASSUME Inv, NEW w \in Writers, Retry(w) PROVE Inv'
<1>1. /\ TypeOK /\ at[w] = "retry" /\ dir[Target] = w
      /\ Goto(w, "settle")
      /\ Bind(w, Nothing) \/ UNCHANGED fileVars
  BY DEF Inv, OneOwner, Retry, Published
<1> QED BY <1>1, UnlinkFacts, GotoFacts, EarnedByOwner, MoveOn
        DEF Steps, Published

LEMMA SettleInv == ASSUME Inv, NEW w \in Writers, SettleDirectory(w) PROVE Inv'
<1>1. TypeOK /\ at[w] = "settle" /\ dir[Target] = w
  BY DEF Inv, OneOwner, SettleDirectory, Published
<1>2. CASE SyncDirectory /\ Goto(w, "report")
  <2>1. /\ disk' = dir /\ dir' = dir /\ data' = data /\ synced' = synced
        /\ outcome' = outcome /\ failed' = failed
        /\ at' = [at EXCEPT ![w] = "report"]
        /\ TypeOK'
    BY <1>1, <1>2, GotoFacts DEF SyncDirectory, Steps, TypeOK, FilesTypeOK
  <2>2. /\ at'[w] = "report"
        /\ \A v \in Writers \ {w} : at'[v] = at[v]
        /\ disk[Target] # Nothing => disk[Target] = w
    BY <1>1, <2>1 DEF Inv, Kept, TypeOK, WritersTypeOK
  <2>3. Parts' /\ SyncedFirst' /\ OneOwner' /\ Kept'
    BY <1>1, <2>1, <2>2
    DEF Inv, Parts, SyncedFirst, Complete, OneOwner, Kept, Published
  <2>4. Earned'
    BY <1>1, <2>1, <2>2, WritersAssumption, FilesAssumption
    DEF Inv, Kept, Earned, OneOwner, Published
  <2> QED BY <2>1, <2>3, <2>4 DEF Inv
<1>3. CASE Defer(w, "report") /\ UNCHANGED fileVars
  BY <1>1, <1>3, FilesStay, DeferFacts, EarnedByOwner, MoveOn
  DEF Steps, Published
<1> QED BY <1>2, <1>3 DEF SettleDirectory

LEMMA ReportInv == ASSUME Inv, NEW w \in Writers, Report(w) PROVE Inv'
<1> DEFINE result == IF failed[w] THEN "raised" ELSE "created"
<1>1. /\ TypeOK /\ at[w] = "report" /\ dir[Target] = w
      /\ End(w, result) /\ UNCHANGED fileVars
  BY DEF Inv, OneOwner, Report, Published
<1>2. result = "created" => disk[Target] = w
  BY <1>1 DEF Inv, Earned
<1>3. result \in {"created", "raised", "killed"}
  OBVIOUS
<1> HIDE DEF result
<1> QED BY <1>1, <1>2, <1>3, FilesStay, EndFacts, MoveOn DEF Steps, Published

LEMMA WithdrawInv == ASSUME Inv, NEW w \in Writers, Withdraw(w) PROVE Inv'
<1>1. /\ TypeOK /\ at[w] = "withdraw"
      /\ End(w, "raised")
      /\ Bind(w, Nothing) \/ UNCHANGED fileVars
  BY DEF Inv, Withdraw
<1> QED BY <1>1, UnlinkFacts, EndFacts, MoveOn DEF Steps, Published

LEMMA KillInv == ASSUME Inv, NEW w \in Writers, Kill(w) PROVE Inv'
<1>1. TypeOK /\ End(w, "killed") /\ UNCHANGED fileVars
  BY DEF Inv, Kill
<1> QED BY <1>1, FilesStay, EndFacts, MoveOn DEF Steps, Published

LEMMA PowerInv == ASSUME Inv, PowerLoss PROVE Inv'
<1> USE WritersAssumption, FilesAssumption
<1>1. /\ TypeOK
      /\ dir \in [Names -> Inodes \cup {Nothing}]
      /\ disk \in [Names -> Inodes \cup {Nothing}]
      /\ data \in [Inodes -> Seq(Versions)]
      /\ synced \in [Inodes -> Nat]
      /\ at \in [Writers -> Steps]
  BY DEF Inv, TypeOK, FilesTypeOK, WritersTypeOK
<1>2. /\ dir' \in [Names -> Inodes \cup {Nothing}]
      /\ dir'[Target] \in {dir[Target], disk[Target]}
      /\ disk' = dir'
  BY <1>1 DEF PowerLoss, LosePower
<1>3. PICK torn \in SUBSET {i \in Inodes : synced[i] < Len(data[i])} :
        \E kept \in [torn -> 0..Size] :
          /\ \A i \in torn : synced[i] <= kept[i] /\ kept[i] < Len(data[i])
          /\ data' = [i \in Inodes |->
                        IF i \in torn THEN SubSeq(data[i], 1, kept[i])
                        ELSE data[i]]
  BY DEF PowerLoss, LosePower
<1>4. PICK kept \in [torn -> 0..Size] :
        /\ \A i \in torn : synced[i] <= kept[i] /\ kept[i] < Len(data[i])
        /\ data' = [i \in Inodes |->
                      IF i \in torn THEN SubSeq(data[i], 1, kept[i])
                      ELSE data[i]]
  BY <1>3
<1>5. synced' = [i \in Inodes |-> Len(data'[i])]
  BY DEF PowerLoss, LosePower
\* Each file keeps a prefix that covers what was synced.
<1>6. ASSUME NEW i \in Inodes
      PROVE  /\ data'[i] \in Seq(Versions)
             /\ Len(data'[i]) <= Len(data[i])
             /\ synced[i] >= Len(data[i]) => data'[i] = data[i]
             /\ \A k \in 1..Len(data'[i]) : data'[i][k] = data[i][k]
  <2>1. CASE i \in torn
    <3>1. /\ data'[i] = SubSeq(data[i], 1, kept[i])
          /\ kept[i] \in Nat
          /\ synced[i] \in Nat
          /\ synced[i] < Len(data[i])
          /\ kept[i] < Len(data[i])
      BY <1>1, <1>4, <2>1
    <3>2. /\ Len(data[i]) \in Nat
          /\ \A k \in 1..kept[i] : data[i][k] \in Versions
      BY <1>1, <3>1
    <3>3. /\ data'[i] \in Seq(Versions)
          /\ Len(data'[i]) = kept[i]
          /\ \A k \in 1..kept[i] : data'[i][k] = data[i][k]
      BY <3>1, <3>2, SubSeqProperties
    <3> QED BY <3>1, <3>2, <3>3
  <2>2. CASE i \notin torn
    <3>1. data'[i] = data[i] /\ data[i] \in Seq(Versions)
      BY <1>1, <1>4, <2>2
    <3>2. Len(data[i]) \in Nat
      BY <3>1
    <3> QED BY <3>1, <3>2
  <2> QED BY <2>1, <2>2
<1>7. /\ \A w \in Writers : at'[w] \in {"idle", "done"}
      /\ \A w \in Writers : at'[w] = "idle" => at[w] = "idle"
      /\ at' \in [Writers -> Steps]
  BY <1>1 DEF PowerLoss, Running, Steps
<1>8. /\ \A w \in Writers : outcome'[w] = "created" => outcome[w] = "created"
      /\ WritersTypeOK'
  BY <1>1, <1>7 DEF PowerLoss, TypeOK, WritersTypeOK
<1>9. TypeOK'
  <2>1. \A i \in Inodes : data'[i] \in Seq(Versions) /\ Len(data'[i]) \in Nat
    BY <1>6
  <2>2. data' \in [Inodes -> Seq(Versions)]
    BY <1>4, <2>1
  <2>3. synced' \in [Inodes -> Nat]
    BY <1>5, <2>1
  <2>4. stamp' = stamp /\ tick' = tick
    BY DEF PowerLoss, LosePower
  <2> QED BY <1>1, <1>2, <1>8, <2>2, <2>3, <2>4 DEF TypeOK, FilesTypeOK
<1>10. Parts'
  <2> SUFFICES ASSUME NEW w \in Writers
               PROVE  /\ \A k \in 1..Len(data'[w]) : data'[w][k] = w
                      /\ Len(data'[w]) <= Size
                      /\ synced'[w] <= Len(data'[w])
    BY DEF Parts
  <2>1. /\ Len(data'[w]) \in Nat /\ Len(data[w]) \in Nat
        /\ Len(data'[w]) <= Len(data[w])
        /\ \A k \in 1..Len(data'[w]) : data'[w][k] = data[w][k]
    BY <1>1, <1>6
  <2>2. /\ \A k \in 1..Len(data[w]) : data[w][k] = w
        /\ Len(data[w]) <= Size
    BY DEF Inv, Parts
  <2>3. synced'[w] = Len(data'[w])
    BY <1>5
  <2> QED BY <2>1, <2>2, <2>3
<1>11. ASSUME NEW w \in Writers, Complete(w)
       PROVE  Complete(w)'
  BY <1>5, <1>6, <1>11 DEF Complete
<1>12. SyncedFirst'
  BY <1>2, <1>7, <1>11 DEF Inv, SyncedFirst, Kept, Published
<1>13. OneOwner'
  BY <1>2, <1>7 DEF Inv, OneOwner, Kept, Published
<1>14. Kept' /\ Earned'
  BY <1>2, <1>7, <1>8 DEF Inv, Kept, Earned
<1> QED BY <1>9, <1>10, <1>12, <1>13, <1>14 DEF Inv

LEMMA TickInv == ASSUME Inv, Tick, UNCHANGED writerVars PROVE Inv'
  BY DEF Inv, Tick, writerVars, TypeOK, FilesTypeOK, WritersTypeOK, Parts,
         SyncedFirst, Complete, OneOwner, Kept, Earned

LEMMA StutterInv == ASSUME Inv, UNCHANGED pubVars PROVE Inv'
  BY DEF Inv, pubVars, fileVars, writerVars, TypeOK, FilesTypeOK,
         WritersTypeOK, Parts, SyncedFirst, Complete, OneOwner, Kept, Earned

LEMMA NextInv == Inv /\ [PublicationNext]_pubVars => Inv'
<1> SUFFICES ASSUME Inv, [PublicationNext]_pubVars PROVE Inv'
  OBVIOUS
<1>1. CASE \E w \in Writers : WriterStep(w)
  BY <1>1, CreateInv, WriteInv, PublishInv, UnlinkInv, RetryInv, SettleInv,
     ReportInv, WithdrawInv DEF WriterStep
<1>2. CASE \E w \in Writers : Kill(w)
  BY <1>2, KillInv
<1>3. CASE PowerLoss
  BY <1>3, PowerInv
<1>4. CASE Tick /\ UNCHANGED writerVars
  BY <1>4, TickInv
<1>5. CASE UNCHANGED pubVars
  BY <1>5, StutterInv
<1> QED BY <1>1, <1>2, <1>3, <1>4, <1>5 DEF PublicationNext

\* The inductive invariant holds of every publication.
THEOREM InvariantHolds == PublicationSpec => []Inv
  BY InitInv, NextInv, PTL DEF PublicationSpec

LEMMA InvPublished == Inv => PublishedWhole
<1> SUFFICES ASSUME Inv, NEW w \in Writers, w \in {dir[Target], disk[Target]}
             PROVE  data[w] = [k \in 1..Size |-> w] /\ synced[w] = Size
  BY DEF PublishedWhole, WholeFile
<1>1. dir[Target] = w
  BY FilesAssumption, WritersAssumption DEF Inv, Kept
<1>2. Len(data[w]) = Size /\ synced[w] = Size
  BY <1>1 DEF Inv, SyncedFirst, Complete
<1>3. data[w] \in Seq(Versions) /\ \A k \in 1..Size : data[w][k] = w
  BY <1>2, WritersAssumption DEF Inv, TypeOK, FilesTypeOK, Parts
<1>4. data[w] = [k \in 1..Size |-> data[w][k]]
  BY <1>2, <1>3
<1> QED BY <1>2, <1>3, <1>4

\* Whatever is under the artifact's name, on disk or not, is complete and of
\* one writer, for any number of writers and any size (the fsync of the file
\* before os.link).
THEOREM PublishedIsWhole == PublicationSpec => []PublishedWhole
  BY InvariantHolds, InvPublished, PTL

-----------------------------------------------------------------------------
(* The refinement: first with whatever file is under the name, then with   *)
(* the file only if it is whole, which by the invariant is the same.       *)

Plain == INSTANCE WriteOnce WITH
    Values <- Writers,
    value <- dir[Target],
    durable <- disk[Target] # Nothing,
    acknowledged <- {w \in Writers : outcome[w] = "created"}

LEMMA InitRefines == PublicationInit => Plain!Init
  BY WritersAssumption
  DEF PublicationInit, InitFiles, InitWriters, Plain!Init

LEMMA SameRegister ==
    ASSUME dir'[Target] = dir[Target], disk'[Target] = disk[Target],
           outcome' = outcome
    PROVE  UNCHANGED Plain!vars
  BY DEF Plain!vars

\* The outcome of a writer is open until it is through.
Undecided == \A w \in Writers : at[w] # "done" => outcome[w] = "pending"

LEMMA UndecidedNext ==
    Inv /\ Undecided /\ [PublicationNext]_pubVars => Undecided'
<1> SUFFICES ASSUME Inv, Undecided, [PublicationNext]_pubVars PROVE Undecided'
  OBVIOUS
<1> USE DEF Undecided, Inv, TypeOK, WritersTypeOK
<1>1. ASSUME NEW w \in Writers, WriterStep(w)
      PROVE  \/ \E to \in Steps : Goto(w, to) \/ Defer(w, to)
             \/ \E result : End(w, result)
  BY <1>1
  DEF WriterStep, Create, Write, Publish, Unlink, Retry, SettleDirectory,
      Report, Withdraw, Steps
<1>2. CASE \E w \in Writers : WriterStep(w)
  <2>1. PICK w \in Writers : WriterStep(w)
    BY <1>2
  <2>2. at[w] # "done"
    BY <2>1
    DEF WriterStep, Create, Write, Publish, Unlink, Retry, SettleDirectory,
        Report, Withdraw
  <2>3. CASE \E to \in Steps : Goto(w, to) \/ Defer(w, to)
    BY <2>2, <2>3 DEF Goto, Defer
  <2>4. CASE \E result : End(w, result)
    BY <2>4 DEF End
  <2> QED BY <1>1, <2>1, <2>3, <2>4
<1>3. CASE \E w \in Writers : Kill(w)
  BY <1>3 DEF Kill, End
<1>4. CASE PowerLoss
  BY <1>4 DEF PowerLoss, Running
<1>5. CASE Tick /\ UNCHANGED writerVars
  BY <1>5 DEF writerVars
<1>6. CASE UNCHANGED pubVars
  BY <1>6 DEF pubVars, writerVars
<1> QED BY <1>2, <1>3, <1>4, <1>5, <1>6 DEF PublicationNext

LEMMA UndecidedHolds == PublicationSpec => []Undecided
<1>1. PublicationInit => Undecided
  BY DEF PublicationInit, InitWriters, Undecided
<1> QED BY <1>1, InvariantHolds, UndecidedNext, PTL DEF PublicationSpec

\* A writer that ends with an error acknowledges nothing.
LEMMA BadEndRefines ==
    ASSUME TypeOK, Undecided, NEW w \in Writers, NEW result,
           result \in {"raised", "killed"}, End(w, result), at[w] # "done",
           dir'[Target] = dir[Target], disk'[Target] = disk[Target]
    PROVE  UNCHANGED Plain!vars
<1>1. \A v \in Writers : outcome'[v] = "created" <=> outcome[v] = "created"
  BY DEF End, TypeOK, WritersTypeOK, Undecided
<1> QED BY <1>1 DEF Plain!vars

LEMMA WriterRefines ==
    ASSUME Inv, Undecided, NEW w \in Writers, WriterStep(w)
    PROVE  [Plain!Next]_Plain!vars
<1> USE WritersAssumption, FilesAssumption
<1>1. TypeOK /\ dir \in [Names -> Inodes \cup {Nothing}]
  BY DEF Inv, TypeOK, FilesTypeOK
<1>2. CASE Create(w)
  <2>1. CASE Bind(w, w) /\ Goto(w, "write")
    BY <1>1, <2>1, BindFacts, GotoFacts, SameRegister DEF Steps
  <2>2. CASE End(w, "raised") /\ UNCHANGED fileVars
    BY <1>1, <1>2, <2>2, FilesStay, BadEndRefines DEF Create
  <2> QED BY <1>2, <2>1, <2>2 DEF Create
<1>3. CASE Write(w)
  <2>1. /\ dir' = dir /\ disk' = disk
        /\ outcome' = outcome
    BY <1>3 DEF Write, AppendTo, SyncFile, fileVars, Goto
  <2> QED BY <2>1, SameRegister
<1>4. CASE Publish(w)
  <2>1. CASE dir[Target] = Nothing /\ Bind(Target, w) /\ Goto(w, "unlink")
    <3>1. /\ dir'[Target] = w /\ disk' = disk /\ outcome' = outcome
      BY <1>1, <2>1, BindFacts, GotoFacts DEF Steps
    <3> QED BY <2>1, <3>1 DEF Plain!Next, Plain!Put
  <2>2. CASE Goto(w, "withdraw") /\ UNCHANGED fileVars
    BY <1>1, <2>2, FilesStay, GotoFacts, SameRegister DEF Steps
  <2> QED BY <1>4, <2>1, <2>2 DEF Publish
<1>5. CASE Unlink(w) \/ Retry(w)
  <2>1. /\ Bind(w, Nothing) \/ UNCHANGED fileVars
        /\ outcome' = outcome
    BY <1>5 DEF Unlink, Retry, Goto, Defer
  <2> QED BY <1>1, <2>1, UnlinkFacts, SameRegister
<1>6. CASE SettleDirectory(w)
  <2>1. dir[Target] = w /\ w # Nothing
    BY <1>6 DEF Inv, OneOwner, SettleDirectory, Published
  <2>2. CASE SyncDirectory /\ Goto(w, "report")
    <3>1. disk' = dir /\ dir' = dir /\ outcome' = outcome
      BY <2>2 DEF SyncDirectory, Goto
    <3> QED BY <2>1, <3>1 DEF Plain!Next, Plain!Settle
  <2>3. CASE Defer(w, "report") /\ UNCHANGED fileVars
    BY <1>1, <2>3, FilesStay, DeferFacts, SameRegister DEF Steps
  <2> QED BY <1>6, <2>2, <2>3 DEF SettleDirectory
<1>7. CASE Report(w)
  <2>1. dir'[Target] = dir[Target] /\ disk'[Target] = disk[Target]
    BY <1>1, <1>7, FilesStay DEF Report
  <2>2. CASE failed[w]
    BY <1>1, <1>7, <2>1, <2>2, BadEndRefines DEF Report
  <2>3. CASE ~failed[w]
    <3>1. disk[Target] = w /\ dir[Target] = w /\ w # Nothing
      BY <1>7, <2>3 DEF Inv, Earned, OneOwner, Published, Report
    <3>2. outcome' = [outcome EXCEPT ![w] = "created"]
      BY <1>7, <2>3 DEF Report, End
    <3>3. {v \in Writers : outcome'[v] = "created"} =
            {v \in Writers : outcome[v] = "created"} \cup {dir[Target]}
      BY <1>1, <3>1, <3>2 DEF TypeOK, WritersTypeOK
    <3> QED BY <2>1, <3>1, <3>3 DEF Plain!Next, Plain!Acknowledge
  <2> QED BY <2>2, <2>3
<1>8. CASE Withdraw(w)
  BY <1>1, <1>8, UnlinkFacts, BadEndRefines DEF Withdraw
<1> QED BY <1>2, <1>3, <1>4, <1>5, <1>6, <1>7, <1>8 DEF WriterStep

LEMMA PowerRefines ==
    ASSUME Inv, Undecided, PowerLoss PROVE [Plain!Next]_Plain!vars
<1> USE WritersAssumption, FilesAssumption
<1>1. /\ dir'[Target] \in {dir[Target], disk[Target]}
      /\ disk'[Target] = dir'[Target]
  BY DEF PowerLoss, LosePower, Inv, TypeOK, FilesTypeOK
\* Only a running writer's outcome changes, and it was open.
<1>2. {w \in Writers : outcome'[w] = "created"} =
        {w \in Writers : outcome[w] = "created"}
  BY DEF PowerLoss, Running, Undecided
<1>3. CASE disk[Target] # Nothing
  BY <1>1, <1>2, <1>3 DEF Inv, Kept, Plain!vars
<1>4. CASE disk[Target] = Nothing /\ dir'[Target] = Nothing
  BY <1>1, <1>2, <1>4 DEF Plain!Next, Plain!Lose
<1>5. CASE disk[Target] = Nothing /\ dir'[Target] # Nothing
  BY <1>1, <1>2, <1>5 DEF Plain!Next, Plain!Settle
<1> QED BY <1>3, <1>4, <1>5

LEMMA NextRefines ==
    Inv /\ Undecided /\ [PublicationNext]_pubVars =>
      [Plain!Next]_Plain!vars
<1> SUFFICES ASSUME Inv, Undecided, [PublicationNext]_pubVars
             PROVE  [Plain!Next]_Plain!vars
  OBVIOUS
<1>1. CASE \E w \in Writers : WriterStep(w)
  BY <1>1, WriterRefines
<1>2. CASE \E w \in Writers : Kill(w)
  <2>1. PICK w \in Writers : Kill(w)
    BY <1>2
  <2>2. TypeOK /\ at[w] # "done" /\ End(w, "killed") /\ UNCHANGED fileVars
    BY <2>1 DEF Inv, Kill, Running
  <2> QED BY <2>2, FilesStay, BadEndRefines
<1>3. CASE PowerLoss
  BY <1>3, PowerRefines
<1>4. CASE Tick /\ UNCHANGED writerVars
  BY <1>4, SameRegister DEF Tick, writerVars
<1>5. CASE UNCHANGED pubVars
  BY <1>5, SameRegister DEF pubVars, fileVars, writerVars
<1> QED BY <1>1, <1>2, <1>3, <1>4, <1>5 DEF PublicationNext

LEMMA ArtifactIsTheFile == Inv => Artifact = dir[Target]
  BY InvPublished DEF PublishedWhole, Artifact

LEMMA WholeRefines ==
    Inv /\ Inv' /\ [Plain!Next]_Plain!vars => [Register!Next]_Register!vars
<1> SUFFICES ASSUME Inv, Inv', [Plain!Next]_Plain!vars
             PROVE  [Register!Next]_Register!vars
  OBVIOUS
<1>1. Artifact = dir[Target]
  BY ArtifactIsTheFile
<1>2. Artifact' = dir'[Target]
  <2>1. PublishedWhole'
    BY InvPublished, PTL
  <2> QED BY <2>1 DEF PublishedWhole, Artifact
<1>3. CASE Plain!Put
  BY <1>1, <1>2, <1>3 DEF Plain!Put, Register!Next, Register!Put
<1>4. CASE Plain!Settle
  BY <1>1, <1>2, <1>4 DEF Plain!Settle, Register!Next, Register!Settle
<1>5. CASE Plain!Lose
  BY <1>1, <1>2, <1>5 DEF Plain!Lose, Register!Next, Register!Lose
<1>6. CASE Plain!Acknowledge
  BY <1>1, <1>2, <1>6 DEF Plain!Acknowledge, Register!Next, Register!Acknowledge
<1>7. CASE UNCHANGED Plain!vars
  BY <1>1, <1>2, <1>7 DEF Plain!vars, Register!vars
<1> QED BY <1>3, <1>4, <1>5, <1>6, <1>7 DEF Plain!Next

\* The directory implements the write-once register: nothing replaces the
\* artifact, which is whole, a power loss takes it back only before the
\* directory was synced, and a writer that returns without an error has created
\* what stays (write_calibration_atomic and write_calibration_atomic_at).
THEOREM PublicationRefines == PublicationSpec => PublishesOnce
<1>1. PublicationInit => Register!Init
  <2> SUFFICES ASSUME PublicationInit PROVE Register!Init
    OBVIOUS
  <2>1. Plain!Init /\ Artifact = dir[Target]
    BY InitRefines, InitInv, ArtifactIsTheFile
  <2> QED BY <2>1 DEF Plain!Init, Register!Init
<1>2. Inv /\ Inv' /\ Undecided /\ [PublicationNext]_pubVars =>
        [Register!Next]_Register!vars
  BY NextRefines, WholeRefines
<1> QED BY <1>1, <1>2, InvariantHolds, UndecidedHolds, PTL
        DEF PublicationSpec, PublishesOnce, Register!Spec

-----------------------------------------------------------------------------
(* The store: writers, a reader and an operator. *)

\* The names of the writers and the files of the writers go together.
Apart ==
    /\ \A n \in Names \ (Writers \cup {Target}) :
          dir[n] \notin Writers /\ disk[n] \notin Writers
    /\ \A w \in Writers : {dir[w], disk[w]} \subseteq {w, Nothing}

Stamps == \A i \in Inodes : stamp[i] <= tick

FilesInv == Inv /\ Apart /\ Stamps /\ plan \in Plans

\* Whatever changes a file gives it the stamp of now.
Stamped ==
    /\ tick' >= tick
    /\ \A i \in Inodes :
         /\ stamp'[i] \in {stamp[i], tick}
         /\ data'[i] # data[i] => stamp'[i] = tick

\* A file that is published and has lost its temporary name.
Settled(w) == dir[Target] = w /\ dir[w] # w

\* Nothing touches a settled file, and nothing but a power loss the name of a
\* published one.
Undisturbed ==
    \A w \in Writers : dir[Target] = w =>
      /\ dir'[Target] = w
      /\ dir[w] # w => /\ data'[w] = data[w] /\ stamp'[w] = stamp[w]
                       /\ dir'[w] # w

-----------------------------------------------------------------------------
(* The steps, as far as the files are concerned.                           *)

LEMMA WriterEffects ==
    ASSUME NEW w \in Writers, WriterStep(w) \/ Kill(w)
    PROVE  \/ UNCHANGED <<dir, data, stamp, tick>> /\ disk' \in {disk, dir}
           \/ at[w] = "idle" /\ Bind(w, w)
           \/ at[w] = "write" /\ AppendTo(w, w)
           \/ dir[Target] = Nothing /\ Bind(Target, w)
           \/ Bind(w, Nothing)
  BY DEF WriterStep, Create, Write, Publish, Unlink, Retry, SettleDirectory,
         Report, Withdraw, Kill, fileVars, SyncFile, SyncDirectory

LEMMA WriterFiles ==
    ASSUME FilesInv, NEW w \in Writers, WriterStep(w) \/ Kill(w)
    PROVE  Apart' /\ Stamps' /\ Stamped /\ Undisturbed
<1> USE WritersAssumption, FilesAssumption
<1>1. /\ Apart /\ Stamps /\ dir \in [Names -> Inodes \cup {Nothing}]
      /\ disk \in [Names -> Inodes \cup {Nothing}]
      /\ stamp \in [Inodes -> Nat] /\ tick \in Nat
      /\ data \in [Inodes -> Seq(Versions)]
      /\ w \in Names /\ w \in Inodes /\ w # Target /\ w # Nothing
  BY DEF FilesInv, Inv, TypeOK, FilesTypeOK
<1>2. \A v \in Writers : dir[Target] = v => at[v] \notin {"idle", "write"}
  BY DEF FilesInv, Inv, OneOwner
<1>3. CASE UNCHANGED <<dir, data, stamp, tick>> /\ disk' \in {disk, dir}
  BY <1>1, <1>3 DEF Apart, Stamps, Stamped, Undisturbed
<1>4. CASE at[w] = "idle" /\ Bind(w, w)
  BY <1>1, <1>2, <1>4 DEF Apart, Stamps, Stamped, Undisturbed, Bind, Touch
<1>5. CASE at[w] = "write" /\ AppendTo(w, w)
  BY <1>1, <1>2, <1>5 DEF Apart, Stamps, Stamped, Undisturbed, AppendTo, Touch
<1>6. CASE dir[Target] = Nothing /\ Bind(Target, w)
  BY <1>1, <1>6 DEF Apart, Stamps, Stamped, Undisturbed, Bind, Touch
<1>7. CASE Bind(w, Nothing)
  BY <1>1, <1>7 DEF Apart, Stamps, Stamped, Undisturbed, Bind, Touch
<1> QED BY <1>3, <1>4, <1>5, <1>6, <1>7, WriterEffects

\* What the operator does, at a name that is not a writer's.
LEMMA OperatorEffects ==
    ASSUME FilesInv, Operator
    PROVE  \E n \in Names \ (Writers \cup {Target}) :
             /\ dir[n] \notin Writers
             /\ Rewrite(n) \/ Replace(n) \/ Remove(n)
             /\ n \in plan.present \/ n = Stray
<1>1. plan.present \subseteq {First, Second}
  BY PlansAssumption DEF FilesInv
<1>2. PICK n \in plan.present \cup {Stray} : Rewrite(n) \/ Replace(n) \/ Remove(n)
  BY DEF Operator
<1> QED BY <1>1, <1>2, StoreAssumption DEF FilesInv, Apart

LEMMA OperatorFiles ==
    ASSUME FilesInv, Operator
    PROVE  /\ Inv' /\ Apart' /\ Stamps' /\ Stamped /\ Undisturbed
           /\ dir'[Target] = dir[Target] /\ disk' = disk
<1> USE WritersAssumption, FilesAssumption, StoreAssumption
<1>1. /\ Apart /\ Stamps /\ dir \in [Names -> Inodes \cup {Nothing}]
      /\ disk \in [Names -> Inodes \cup {Nothing}]
      /\ stamp \in [Inodes -> Nat] /\ tick \in Nat
      /\ data \in [Inodes -> Seq(Versions)] /\ synced \in [Inodes -> Nat]
      /\ WritersTypeOK
  BY DEF FilesInv, Inv, TypeOK, FilesTypeOK
<1>2. PICK n \in Names \ (Writers \cup {Target}) :
        dir[n] \notin Writers /\ (Rewrite(n) \/ Replace(n) \/ Remove(n))
  BY OperatorEffects
<1>3. /\ FilesTypeOK' /\ Apart' /\ Stamps' /\ Stamped
      /\ dir'[Target] = dir[Target] /\ disk' = disk /\ synced' = synced
      /\ \A w \in Writers :
           data'[w] = data[w] /\ stamp'[w] = stamp[w] /\ dir'[w] = dir[w]
  <2>1. CASE Rewrite(n)
    <3>1. PICK content \in Seq(Versions) : data' = [data EXCEPT ![dir[n]] = content]
      BY <2>1 DEF Rewrite
    <3> QED BY <1>1, <1>2, <2>1, <3>1
            DEF Rewrite, Touch, FilesTypeOK, Apart, Stamps, Stamped
  <2>2. CASE Replace(n)
    <3>1. PICK i \in Spare :
            /\ data' = [data EXCEPT ![i] = [k \in 1..Size |-> New]]
            /\ dir' = [dir EXCEPT ![n] = i] /\ Touch({dir[n], i})
            /\ UNCHANGED <<disk, synced, tick>>
      BY <2>2 DEF Replace
    <3>2. [k \in 1..Size |-> New] \in Seq(Versions)
      OBVIOUS
    <3>3. data' \in [Inodes -> Seq(Versions)] /\ i \in Inodes \ Writers
      BY <1>1, <3>1, <3>2
    <3> HIDE DEF Touch
    <3> QED BY <1>1, <1>2, <3>1, <3>3
            DEF Touch, FilesTypeOK, Apart, Stamps, Stamped
  <2>3. CASE Remove(n)
    BY <1>1, <1>2, <2>3 DEF Remove, Bind, Touch, FilesTypeOK, Apart, Stamps, Stamped
  <2> QED BY <1>2, <2>1, <2>2, <2>3
<1>4. at' = at /\ lane' = lane /\ failed' = failed /\ outcome' = outcome
  BY DEF Operator, writerVars
<1>5. TypeOK'
  BY <1>1, <1>3, <1>4 DEF TypeOK, WritersTypeOK
<1>6. Inv'
  <2>1. Parts' /\ SyncedFirst'
    BY <1>3, <1>4 DEF FilesInv, Inv, Parts, SyncedFirst, Complete
  <2>2. OneOwner' /\ Kept' /\ Earned'
    BY <1>3, <1>4 DEF FilesInv, Inv, OneOwner, Kept, Earned
  <2> QED BY <1>5, <2>1, <2>2 DEF Inv
<1>7. Undisturbed
  BY <1>3 DEF Undisturbed
<1> QED BY <1>3, <1>6, <1>7

LEMMA OutageFiles ==
    ASSUME FilesInv, Outage
    PROVE  Inv' /\ Apart' /\ Stamps'
<1>1. Inv'
  BY PowerInv DEF FilesInv, Outage
<1>2. /\ stamp' = stamp /\ tick' = tick /\ disk' = dir'
      /\ \A n \in Names : dir'[n] \in {dir[n], disk[n]}
  BY DEF Outage, PowerLoss, LosePower
<1>3. Apart' /\ Stamps'
  BY <1>2, WritersAssumption DEF FilesInv, Apart, Stamps
<1> QED BY <1>1, <1>3

\* Every step but a power loss keeps the published names and stamps what it
\* changes.
LEMMA NextFiles ==
    ASSUME FilesInv, [Next]_storeVars
    PROVE  FilesInv' /\ (Outage \/ (Stamped /\ Undisturbed))
<1> USE FilesAssumption, WritersAssumption
<1>1. plan' = plan
  BY DEF Next, storeVars, Publication, readVars, Reading, ReaderStep, Operator,
         Outage, LoseReader, Clock, Begin, List, Open, Examine, Read, Compare,
         Relist, Conclude, Advance, Refuse
<1>2. stamp \in [Inodes -> Nat] /\ tick \in Nat /\ Stamps
  BY DEF FilesInv, Inv, TypeOK, FilesTypeOK
<1>3. CASE Publication
  <2>1. PICK w \in Writers : WriterStep(w) \/ Kill(w)
    BY <1>3, PlansAssumption DEF Publication, FilesInv
  <2> QED BY <1>1, <2>1, WriterFiles, NextInv DEF FilesInv, PublicationNext
<1>4. CASE Operator
  BY <1>1, <1>4, OperatorFiles DEF FilesInv
<1>5. CASE Outage
  BY <1>1, <1>5, OutageFiles DEF FilesInv
<1>6. CASE Clock
  <2>1. Inv'
    BY <1>6, TickInv DEF Clock, FilesInv
  <2> QED BY <1>1, <1>2, <1>6, <2>1
          DEF Clock, Tick, FilesInv, Apart, Stamps, Stamped, Undisturbed
<1>7. CASE UNCHANGED <<fileVars, writerVars>>
  <2>1. Inv'
    BY <1>7, StutterInv DEF FilesInv, pubVars
  <2> QED BY <1>1, <1>2, <1>7, <2>1
          DEF fileVars, FilesInv, Apart, Stamps, Stamped, Undisturbed
<1> QED BY <1>3, <1>4, <1>5, <1>6, <1>7 DEF Next, Reading, storeVars

-----------------------------------------------------------------------------
(* The reader.                                                             *)

Looking == step \in {"read", "compare"}

ReaderSteps ==
    {"idle", "list", "open", "fstat", "read", "compare", "relist", "conclude",
     "end"}

\* Where the reader is in the list of its files.
Progress ==
    /\ step \in ReaderSteps
    /\ file \in Inodes \cup {Nothing}
    /\ values \in Seq(Seq(Versions)) /\ Len(values) <= Len(plan.names)
    /\ step \in {"idle", "list"} => values = <<>>
    /\ step \in {"open", "fstat", "read", "compare"} =>
          Len(values) < Len(plan.names)
    /\ step \in {"fstat", "read", "compare"} => file \in Inodes
    /\ step \in {"relist", "conclude"} => Len(values) = Len(plan.names)
    /\ step # "end" => verdict = "pending"
    /\ verdict = "returned" => Len(values) = Len(plan.names) /\ Binds

\* As long as the stamp is the one it had, and that was an older one, the file
\* is as it was, and the reader has read the beginning of it.
Seen ==
    Looking =>
      /\ before.tick \in Nat /\ before.tick <= tick
      /\ before.id.stamp \in Nat
      /\ before.held \in Seq(Versions) /\ before.id.size = Len(before.held)
      /\ bytes \in Seq(Versions)
      /\ stamp[file] = before.id.stamp /\ before.id.stamp < before.tick =>
           /\ data[file] = before.held
           /\ Len(bytes) <= Len(before.held)
           /\ \A k \in 1..Len(bytes) : bytes[k] = before.held[k]

Ledgered ==
    plan.kind = "snapshot" =>
      \A k \in 1..Len(values) : Whole(values[k], Reviewed)

\* The reader of a published calibration.
OfOneWriter ==
    plan.names = <<Target>> =>
      /\ step \notin {"list", "relist"}
      /\ step \in {"idle", "open"} => file = Nothing
      /\ step \in {"fstat", "read", "compare"} =>
            file \in Writers /\ dir[Target] = file
      /\ Looking =>
           /\ Settled(file) /\ Identity(file) = before.id
           /\ Len(bytes) <= Size /\ (step = "compare" => Len(bytes) = Size)
           /\ \A k \in 1..Len(bytes) : bytes[k] = file
      /\ \A k \in 1..Len(values) : \E v \in Writers : Whole(values[k], v)
      /\ verdict = "refused" /\ OpensDirectory /\ file # Nothing =>
            before.id.links > 1

ReaderInv == Progress /\ Seen /\ Ledgered /\ OfOneWriter

StoreInv == FilesInv /\ ReaderInv

\* A settled file has its name only, and is whole.
LEMMA SettledFile ==
    ASSUME FilesInv, NEW w \in Writers, dir[Target] = w
    PROVE  /\ dir[w] # w => Links(w) = 1
           /\ Links(w) = 1 => dir[w] # w
           /\ Links(w) # 1 => Links(w) > 1
           /\ data[w] \in Seq(Versions) /\ Len(data[w]) = Size
           /\ \A k \in 1..Size : data[w][k] = w
<1> USE WritersAssumption, FilesAssumption
<1> DEFINE B == {n \in Names : dir[n] = w}
<1>1. IsFiniteSet(B) /\ Target \in B
  BY StoreAssumption, FS_Subset
<1>2. Cardinality(B) \in Nat /\ Cardinality(B) # 0
  BY <1>1, FS_EmptySet, FS_CardinalityType
<1>3. (dir[w] # w) <=> (B = {Target})
  BY <1>1 DEF FilesInv, Apart
<1>4. Cardinality(B) = 1 <=> \E x : B = {x}
  BY <1>1, FS_Singleton
<1>5. Cardinality(B) = 1 <=> B = {Target}
  BY <1>1, <1>4
<1>6. data[w] \in Seq(Versions) /\ Len(data[w]) = Size
      /\ \A k \in 1..Size : data[w][k] = w
  BY DEF FilesInv, Inv, TypeOK, FilesTypeOK, Parts, SyncedFirst, Complete
<1> QED BY <1>2, <1>3, <1>5, <1>6 DEF Links

LEMMA SettledNext ==
    ASSUME FilesInv', NEW w \in Writers, dir'[Target] = w, dir'[w] # w
    PROVE  Links(w)' = 1
<1> DEFINE B == {n \in Names : dir'[n] = w}
<1>1. B = {Target}
  BY WritersAssumption DEF FilesInv, Apart
<1>2. Cardinality({Target}) = 1
  BY FS_Singleton
<1> QED BY <1>1, <1>2 DEF Links

\* What is true of the reader stays so while others make a step.
LEMMA ReaderWaits ==
    ASSUME StoreInv, FilesInv', Stamped, Undisturbed, UNCHANGED readVars
    PROVE  ReaderInv'
<1> USE WritersAssumption, FilesAssumption
<1>1. /\ plan' = plan /\ step' = step /\ file' = file /\ before' = before
      /\ bytes' = bytes /\ values' = values /\ verdict' = verdict
  BY DEF readVars
<1>2. Progress' /\ Ledgered'
  BY <1>1 DEF StoreInv, ReaderInv, Progress, Ledgered, Binds, Whole
<1>3. Seen'
  <2> SUFFICES ASSUME Looking PROVE Seen'
    BY <1>1 DEF Seen, Looking
  <2>1. Seen /\ file \in Inodes /\ tick \in Nat /\ tick' \in Nat
        /\ stamp[file] \in Nat
    BY DEF StoreInv, ReaderInv, Looking, Progress, FilesInv, Inv, TypeOK, FilesTypeOK
  <2> QED BY <1>1, <2>1 DEF Seen, Stamped
<1>4. OfOneWriter'
  <2> SUFFICES ASSUME plan.names = <<Target>> PROVE OfOneWriter'
    BY <1>1 DEF OfOneWriter
  <2>1. OfOneWriter
    BY DEF StoreInv, ReaderInv
  <2>2. ASSUME Looking
        PROVE  Settled(file)' /\ Identity(file)' = before.id
    <3>1. /\ file \in Writers /\ Settled(file) /\ Identity(file) = before.id
          /\ dir[Target] = file /\ dir[file] # file
      BY <2>1, <2>2 DEF OfOneWriter, Looking, Settled
    <3>2. /\ dir'[Target] = file /\ dir'[file] # file
          /\ data'[file] = data[file] /\ stamp'[file] = stamp[file]
      BY <3>1 DEF Undisturbed
    <3>3. Links(file) = 1 /\ Links(file)' = 1
      BY <1>1, <3>1, <3>2, SettledFile, SettledNext DEF StoreInv
    <3> QED BY <1>1, <3>1, <3>2, <3>3 DEF Settled, Identity
  <2> QED BY <1>1, <2>1, <2>2 DEF OfOneWriter, Looking, Undisturbed, Whole,
                                   OpensDirectory
<1> QED BY <1>2, <1>3, <1>4 DEF ReaderInv

LEMMA StoreFacts ==
    ASSUME StoreInv
    PROVE  /\ plan.names \in Seq(Names) /\ Len(plan.names) \in Nat \ {0}
           /\ plan.names = <<Target>> =>
                plan.kind = "calibration" /\ plan.mode = "0600"
           /\ plan.kind \in {"pair", "capsule"} => Len(plan.names) = 2
           /\ dir \in [Names -> Inodes \cup {Nothing}]
           /\ data \in [Inodes -> Seq(Versions)]
           /\ stamp \in [Inodes -> Nat] /\ tick \in Nat
           /\ dir[Target] \in Writers \cup {Nothing}
           /\ plan.names = <<Target>> => Len(plan.names) = 1 /\ plan.names[1] = Target
<1>1. plan \in Plans
  BY DEF StoreInv, FilesInv
<1>2. plan.names \in Seq(Names) /\ Len(plan.names) \in Nat \ {0}
  BY <1>1, PlansAssumption
<1>3. /\ dir \in [Names -> Inodes \cup {Nothing}]
      /\ data \in [Inodes -> Seq(Versions)]
      /\ stamp \in [Inodes -> Nat] /\ tick \in Nat
      /\ dir[Target] \in Writers \cup {Nothing}
  BY DEF StoreInv, FilesInv, Inv, TypeOK, FilesTypeOK, OneOwner
<1>4. /\ plan.names = <<Target>> =>
           plan.kind = "calibration" /\ plan.mode = "0600"
      /\ plan.kind \in {"pair", "capsule"} => Len(plan.names) = 2
  BY <1>1, PlansAssumption
<1>5. plan.names = <<Target>> => Len(plan.names) = 1 /\ plan.names[1] = Target
  OBVIOUS
<1> QED BY <1>2, <1>3, <1>4, <1>5

\* The reader goes on or refuses, before it has opened a file or when it has
\* read all.
LEMMA AdvanceInv ==
    ASSUME StoreInv, UNCHANGED fileVars, Begin \/ List \/ Relist \/ Conclude
    PROVE  ReaderInv'
<1> USE StoreFacts
<1>1. /\ plan' = plan /\ file' = file /\ before' = before /\ bytes' = bytes
      /\ values' = values
  BY DEF Begin, List, Relist, Conclude, Advance, Refuse
<1>2. /\ dir' = dir /\ data' = data /\ stamp' = stamp /\ tick' = tick
  BY DEF fileVars
<1>3. /\ step' \notin {"fstat", "read", "compare"} /\ step' \in ReaderSteps
      /\ step # "end" /\ step \notin {"fstat", "read", "compare"}
  BY DEF Begin, List, Relist, Conclude, Advance, Refuse, ReaderSteps
<1>4. Progress'
  <2>1. Progress /\ (Binds' <=> Binds)
    BY <1>1 DEF StoreInv, ReaderInv, Binds, Whole
  <2>2. CASE Begin
    BY <1>1, <1>3, <2>1, <2>2 DEF Progress, Begin, Advance, Refuse, Listed
  <2>3. CASE List
    BY <1>1, <1>3, <2>1, <2>3 DEF Progress, List, Advance, Refuse
  <2>4. CASE Relist
    BY <1>1, <1>3, <2>1, <2>4 DEF Progress, Relist, Advance, Refuse
  <2>5. CASE Conclude
    BY <1>1, <1>3, <2>1, <2>5 DEF Progress, Conclude, Refuse
  <2> QED BY <2>2, <2>3, <2>4, <2>5
<1>5. Seen' /\ Ledgered'
  BY <1>1, <1>3 DEF StoreInv, ReaderInv, Seen, Looking, Ledgered, Whole
<1>6. OfOneWriter'
  <2> SUFFICES ASSUME plan.names = <<Target>> PROVE OfOneWriter'
    BY <1>1 DEF OfOneWriter
  <2>1. OfOneWriter /\ plan.kind = "calibration" /\ Binds
    BY DEF StoreInv, ReaderInv, Binds
  <2>2. CASE Begin
    BY <1>1, <1>2, <1>3, <2>1, <2>2
    DEF OfOneWriter, Begin, Advance, Refuse, Listed, Looking, Whole, OpensDirectory
  <2>3. CASE Conclude
    BY <1>1, <1>2, <1>3, <2>1, <2>3
    DEF OfOneWriter, Conclude, Refuse, Looking, Whole, OpensDirectory
  <2>4. step \notin {"list", "relist"}
    BY <2>1 DEF OfOneWriter
  <2> QED BY <2>2, <2>3, <2>4 DEF List, Relist
<1> QED BY <1>4, <1>5, <1>6 DEF ReaderInv

LEMMA OpenInv == ASSUME StoreInv, UNCHANGED fileVars, Open PROVE ReaderInv'
<1> USE StoreFacts
<1>1. /\ plan' = plan /\ before' = before /\ bytes' = bytes
      /\ values' = values /\ step' \notin {"read", "compare", "list", "relist"}
      /\ step = "open"
  BY DEF Open, Refuse
<1>2. /\ dir' = dir /\ data' = data /\ stamp' = stamp /\ tick' = tick
  BY DEF fileVars
<1>3. Progress /\ values \in Seq(Seq(Versions)) /\ Len(values) \in Nat
  BY DEF StoreInv, ReaderInv, Progress
<1>4. Name \in Names
  <2>1. Len(values) + 1 \in 1..Len(plan.names)
    BY <1>1, <1>3 DEF Progress
  <2> QED BY <2>1 DEF Name
<1>5. Progress'
  BY <1>1, <1>3, <1>4
  DEF Progress, ReaderSteps, Open, Refuse, Binds, Whole
<1>6. Seen' /\ Ledgered'
  BY <1>1 DEF StoreInv, ReaderInv, Seen, Looking, Ledgered, Whole
<1>7. OfOneWriter'
  <2> SUFFICES ASSUME plan.names = <<Target>> PROVE OfOneWriter'
    BY <1>1 DEF OfOneWriter
  <2>1. OfOneWriter /\ Name = Target
    BY <1>1, <1>3 DEF StoreInv, ReaderInv, Progress, Name
  <2>2. CASE Refuse
    BY <1>1, <2>1, <2>2
    DEF OfOneWriter, Refuse, Looking, Whole, OpensDirectory
  <2>3. CASE dir[Name] # Nothing /\ step' = "fstat" /\ file' = dir[Name]
             /\ verdict' = verdict
    <3>1. file' \in Writers /\ dir'[Target] = file' /\ verdict = "pending"
      BY <1>1, <1>2, <1>3, <2>1, <2>3 DEF Progress
    <3> QED BY <1>1, <2>1, <2>3, <3>1
            DEF OfOneWriter, Looking, Whole, OpensDirectory
  <2> QED BY <2>2, <2>3 DEF Open
<1> QED BY <1>5, <1>6, <1>7 DEF ReaderInv

LEMMA ExamineInv == ASSUME StoreInv, UNCHANGED fileVars, Examine PROVE ReaderInv'
<1> USE StoreFacts
<1>1. /\ plan' = plan /\ file' = file /\ values' = values /\ bytes' = <<>>
      /\ before' = [id |-> Identity(file), tick |-> tick, held |-> data[file]]
      /\ step = "fstat" /\ step' \in {"read", "end"}
      /\ step' = "read" => Links(file) = 1 /\ verdict' = verdict
      /\ step' = "end" => verdict' = "refused"
      /\ step' = "end" => ~(AllowsMode /\ Links(file) = 1 /\ Len(data[file]) <= Size)
  <2> HIDE DEF AllowsMode
  <2>1. CASE AllowsMode /\ Links(file) = 1 /\ Len(data[file]) <= Size
    BY <2>1 DEF Examine
  <2>2. CASE ~(AllowsMode /\ Links(file) = 1 /\ Len(data[file]) <= Size)
    BY <2>2 DEF Examine
  <2> QED BY <2>1, <2>2
<1>2. /\ dir' = dir /\ data' = data /\ stamp' = stamp /\ tick' = tick
  BY DEF fileVars
<1>3. Progress /\ file \in Inodes
  BY <1>1 DEF StoreInv, ReaderInv, Progress
<1>4. Progress'
  BY <1>1, <1>3 DEF Progress, ReaderSteps
<1>5. Ledgered'
  BY <1>1 DEF StoreInv, ReaderInv, Ledgered, Whole
<1>6. Seen'
  BY <1>1, <1>2, <1>3 DEF Seen, Looking, Identity
<1>7. OfOneWriter'
  <2> SUFFICES ASSUME plan.names = <<Target>> PROVE OfOneWriter'
    BY <1>1 DEF OfOneWriter
  <2>1. OfOneWriter /\ file \in Writers /\ dir[Target] = file /\ FilesInv
    BY <1>1 DEF StoreInv, ReaderInv, OfOneWriter
  <2>2. /\ Links(file) = 1 => dir[file] # file
        /\ Links(file) # 1 => Links(file) > 1
        /\ Len(data[file]) = Size
    BY <2>1, SettledFile
  <2>3. AllowsMode /\ Size <= Size
    BY FilesAssumption DEF AllowsMode
  <2>4. Identity(file)' = Identity(file) /\ Identity(file).links = Links(file)
    BY <1>1, <1>2 DEF Identity, Links
  <2>5. /\ step' = "end" => Identity(file).links > 1
        /\ step' = "read" => Settled(file)'
    BY <1>1, <1>2, <2>1, <2>2, <2>3, <2>4 DEF Settled
  <2>6. before'.id = Identity(file) /\ Len(<<>>) <= Size
    BY <1>1, FilesAssumption
  <2>7. verdict' = "refused" => step' = "end"
    BY <1>1, <1>3 DEF Progress
  <2> QED BY <1>1, <1>2, <2>1, <2>4, <2>5, <2>6, <2>7
          DEF OfOneWriter, Looking, Whole, OpensDirectory
<1> QED BY <1>4, <1>5, <1>6, <1>7 DEF ReaderInv

LEMMA ReadInv == ASSUME StoreInv, UNCHANGED fileVars, Read PROVE ReaderInv'
<1> USE StoreFacts, FilesAssumption
<1>1. /\ plan' = plan /\ file' = file /\ values' = values /\ before' = before
      /\ step = "read"
  BY DEF Read, Advance, Refuse
<1>2. /\ dir' = dir /\ data' = data /\ stamp' = stamp /\ tick' = tick
  BY DEF fileVars
<1>3. /\ Progress /\ Seen /\ file \in Inodes /\ bytes \in Seq(Versions)
      /\ Len(bytes) \in Nat /\ data[file] \in Seq(Versions)
      /\ Len(data[file]) \in Nat /\ verdict = "pending"
  BY <1>1 DEF StoreInv, ReaderInv, Progress, Seen, Looking
<1>4. Ledgered'
  BY <1>1 DEF StoreInv, ReaderInv, Ledgered, Whole
<1>5. CASE Len(bytes) + 1 > Len(data[file]) /\ Advance("compare")
  <2>1. bytes' = bytes /\ verdict' = verdict /\ step' = "compare"
    BY <1>5 DEF Advance
  <2>2. Progress' /\ Seen'
    BY <1>1, <1>2, <1>3, <2>1 DEF Progress, Seen, Looking, ReaderSteps
  <2>3. OfOneWriter'
    <3> SUFFICES ASSUME plan.names = <<Target>> PROVE OfOneWriter'
      BY <1>1 DEF OfOneWriter
    <3>1. /\ OfOneWriter /\ FilesInv /\ file \in Writers /\ dir[Target] = file
          /\ Len(bytes) <= Size
      BY <1>1 DEF StoreInv, ReaderInv, OfOneWriter, Looking
    <3>2. Len(bytes) = Size
      BY <1>3, <1>5, <3>1, SettledFile
    <3>3. Settled(file)' /\ Identity(file)' = before.id
      BY <1>1, <1>2, <3>1 DEF OfOneWriter, Looking, Settled, Identity, Links
    <3> QED BY <1>1, <1>2, <1>3, <2>1, <3>1, <3>2, <3>3
            DEF OfOneWriter, Looking, Whole
  <2> QED BY <1>4, <2>2, <2>3 DEF ReaderInv
<1>6. CASE Len(bytes) + 1 <= Len(data[file]) /\ Len(bytes) + 1 > Size /\ Refuse
  <2>1. bytes' = bytes /\ verdict' = "refused" /\ step' = "end"
    BY <1>6 DEF Refuse
  <2>2. Progress' /\ Seen'
    BY <1>1, <1>3, <2>1 DEF Progress, Seen, Looking, ReaderSteps
  <2>3. OfOneWriter'
    <3> SUFFICES ASSUME plan.names = <<Target>> PROVE FALSE
      BY <1>1 DEF OfOneWriter
    <3>1. FilesInv /\ file \in Writers /\ dir[Target] = file
      BY <1>1 DEF StoreInv, ReaderInv, OfOneWriter
    <3> QED BY <1>3, <1>6, <3>1, SettledFile
  <2> QED BY <1>4, <2>2, <2>3 DEF ReaderInv
<1>7. CASE /\ Len(bytes) + 1 <= Len(data[file]) /\ Len(bytes) + 1 <= Size
           /\ bytes' = Append(bytes, data[file][Len(bytes) + 1])
           /\ step' = "read" /\ verdict' = verdict
  <2>1. data[file][Len(bytes) + 1] \in Versions
    BY <1>3, <1>7
  <2>2. /\ bytes' \in Seq(Versions) /\ Len(bytes') = Len(bytes) + 1
        /\ \A k \in 1..Len(bytes) : bytes'[k] = bytes[k]
        /\ bytes'[Len(bytes) + 1] = data[file][Len(bytes) + 1]
    BY <1>3, <1>7, <2>1, AppendProperties
  <2>3. Progress'
    BY <1>1, <1>3, <1>7 DEF Progress, ReaderSteps
  <2>4. Seen'
    <3>1. /\ before.tick \in Nat /\ before.tick <= tick
          /\ before.id.stamp \in Nat /\ before.held \in Seq(Versions)
          /\ before.id.size = Len(before.held)
      BY <1>1, <1>3 DEF Seen, Looking
    <3>2. ASSUME stamp[file] = before.id.stamp, before.id.stamp < before.tick
          PROVE  /\ data[file] = before.held
                 /\ Len(bytes') <= Len(before.held)
                 /\ \A k \in 1..Len(bytes') : bytes'[k] = before.held[k]
      <4>1. data[file] = before.held
            /\ \A k \in 1..Len(bytes) : bytes[k] = before.held[k]
        BY <1>1, <1>3, <3>2 DEF Seen, Looking
      <4> QED BY <1>3, <1>7, <2>2, <4>1
    <3> QED BY <1>1, <1>2, <2>2, <3>1, <3>2 DEF Seen
  <2>5. OfOneWriter'
    <3> SUFFICES ASSUME plan.names = <<Target>> PROVE OfOneWriter'
      BY <1>1 DEF OfOneWriter
    <3>1. /\ OfOneWriter /\ FilesInv /\ file \in Writers /\ dir[Target] = file
          /\ \A k \in 1..Len(bytes) : bytes[k] = file
      BY <1>1 DEF StoreInv, ReaderInv, OfOneWriter, Looking
    <3>2. data[file][Len(bytes) + 1] = file
      BY <1>3, <1>7, <3>1, SettledFile
    <3>3. Settled(file)' /\ Identity(file)' = before.id
      BY <1>1, <1>2, <3>1 DEF OfOneWriter, Looking, Settled, Identity, Links
    <3>4. Len(bytes') <= Size /\ \A k \in 1..Len(bytes') : bytes'[k] = file
      BY <1>3, <1>7, <2>2, <3>1, <3>2
    <3> QED BY <1>1, <1>2, <1>3, <1>7, <3>1, <3>3, <3>4
            DEF OfOneWriter, Looking, Whole
  <2> QED BY <1>4, <2>3, <2>4, <2>5 DEF ReaderInv
<1> QED
  <2> HIDE DEF Advance, Refuse
  <2> QED BY <1>1, <1>3, <1>5, <1>6, <1>7 DEF Read

LEMMA CompareInv == ASSUME StoreInv, UNCHANGED fileVars, Compare PROVE ReaderInv'
<1> USE StoreFacts, FilesAssumption
<1>1. /\ plan' = plan /\ file' = file /\ before' = before /\ bytes' = bytes
      /\ step = "compare" /\ step' \in ReaderSteps
      /\ step' \notin {"idle", "list", "fstat", "read", "compare"}
  BY DEF Compare, Refuse, ReaderSteps
<1>2. /\ dir' = dir /\ data' = data /\ stamp' = stamp /\ tick' = tick
  BY DEF fileVars
<1>3. /\ Progress /\ Seen /\ Ledgered /\ OfOneWriter
      /\ values \in Seq(Seq(Versions)) /\ Len(values) \in Nat
      /\ Len(values) < Len(plan.names)
      /\ bytes \in Seq(Versions) /\ verdict = "pending"
  BY <1>1 DEF StoreInv, ReaderInv, Progress, Seen, Looking
<1>4. Seen'
  BY <1>1 DEF Seen, Looking
<1>5. CASE ~Compares /\ Refuse
  <2>1. values' = values /\ verdict' = "refused" /\ step' = "end"
    BY <1>5 DEF Refuse
  <2>2. Progress' /\ Ledgered'
    BY <1>1, <1>3, <2>1 DEF Progress, Ledgered, Whole, ReaderSteps
  <2>3. OfOneWriter'
    <3> SUFFICES ASSUME plan.names = <<Target>> PROVE FALSE
      BY <1>1 DEF OfOneWriter
    <3>1. /\ FilesInv /\ file \in Writers /\ dir[Target] = file
          /\ Identity(file) = before.id /\ Len(bytes) = Size
      BY <1>1, <1>3 DEF StoreInv, OfOneWriter, Looking
    <3>2. Len(data[file]) = Size /\ before.id.size = Len(data[file])
      BY <3>1, SettledFile DEF Identity
    <3>3. Name = Target /\ InLedger
      BY <1>3 DEF Name, InLedger
    <3> QED BY <1>5, <3>1, <3>2, <3>3 DEF Compares
  <2> QED BY <1>4, <2>2, <2>3 DEF ReaderInv
<1>6. CASE /\ Compares /\ values' = Append(values, bytes) /\ verdict' = verdict
           /\ step' = IF Len(values') < Len(plan.names) THEN "open"
                       ELSE IF Listed THEN "relist" ELSE "conclude"
  <2>1. /\ values' \in Seq(Seq(Versions)) /\ Len(values') = Len(values) + 1
        /\ \A k \in 1..Len(values) : values'[k] = values[k]
        /\ values'[Len(values) + 1] = bytes
    BY <1>3, <1>6, AppendProperties
  <2>2. Progress'
    BY <1>1, <1>3, <1>6, <2>1 DEF Progress, ReaderSteps
  <2>3. Ledgered'
    <3> SUFFICES ASSUME plan.kind = "snapshot", NEW k \in 1..Len(values')
                 PROVE  Whole(values'[k], Reviewed)
      BY <1>1 DEF Ledgered, Whole
    <3>1. Whole(bytes, Reviewed)
      BY <1>6 DEF Compares, InLedger
    <3>2. CASE k = Len(values) + 1
      BY <2>1, <3>1, <3>2
    <3>3. CASE k # Len(values) + 1
      <4>1. k \in 1..Len(values) /\ values'[k] = values[k]
        BY <1>3, <2>1, <3>3
      <4> QED BY <1>3, <4>1 DEF Ledgered
    <3> QED BY <3>2, <3>3
  <2>4. OfOneWriter'
    <3> SUFFICES ASSUME plan.names = <<Target>> PROVE OfOneWriter'
      BY <1>1 DEF OfOneWriter
    <3>1. /\ file \in Writers /\ Len(bytes) = Size
          /\ \A k \in 1..Size : bytes[k] = file
      BY <1>1, <1>3 DEF OfOneWriter, Looking
    <3>2. Whole(bytes, file)
      BY <1>3, <3>1 DEF Whole
    <3>3. \A k \in 1..Len(values') : \E v \in Writers : Whole(values'[k], v)
      BY <1>3, <2>1, <3>1, <3>2 DEF OfOneWriter
    <3>4. step' = "conclude"
      BY <1>3, <1>6, <2>1 DEF Listed
    <3> QED BY <1>1, <1>3, <1>6, <3>3, <3>4 DEF OfOneWriter, Looking, Whole
  <2> QED BY <1>4, <2>2, <2>3, <2>4 DEF ReaderInv
<1> QED BY <1>5, <1>6 DEF Compare

-----------------------------------------------------------------------------
(* The invariant of the store, and what follows from it.                   *)

LEMMA StoreInit == Init => StoreInv
<1> SUFFICES ASSUME Init PROVE StoreInv
  OBVIOUS
<1> USE WritersAssumption, FilesAssumption, StoreAssumption, PlansAssumption
<1>1. /\ plan \in Plans /\ plan.present \subseteq {First, Second}
      /\ Len(plan.names) > 0
  BY DEF Init
<1>2. \A n \in Names : dir[n] \in {First, Second, Nothing} /\ disk[n] = dir[n]
  BY DEF Init
<1>3. dir[Target] = Nothing /\ \A w \in Writers : dir[w] = Nothing
  BY DEF Init
<1>4. \A w \in Writers : data[w] = <<>> /\ synced[w] = 0
  BY <1>1 DEF Init
<1>5. FilesTypeOK
  <2>1. \A i \in Inodes : data[i] \in Seq(Versions) /\ synced[i] = Len(data[i])
    <3>1. [k \in 1..Size |-> Old] \in Seq(Versions)
      OBVIOUS
    <3> QED BY <3>1 DEF Init
  <2>2. data \in [Inodes -> Seq(Versions)] /\ synced \in [Inodes -> Nat]
    BY <2>1 DEF Init
  <2> QED BY <1>1, <2>2 DEF Init, FilesTypeOK
<1>6. Inv
  <2>1. WritersTypeOK
    BY DEF Init, InitWriters, WritersTypeOK, Steps
  <2>2. \A w \in Writers : at[w] = "idle" /\ outcome[w] = "pending"
    BY DEF Init, InitWriters
  <2> QED BY <1>2, <1>3, <1>4, <1>5, <2>1, <2>2
          DEF Inv, TypeOK, Parts, SyncedFirst, OneOwner, Kept, Earned, Published
<1>7. Apart /\ Stamps
  BY <1>2, <1>3 DEF Init, Apart, Stamps
<1>8. ReaderInv
  BY <1>1 DEF Init, InitReader, ReaderInv, Progress, ReaderSteps, Seen, Looking,
              Ledgered, OfOneWriter
<1> QED BY <1>1, <1>6, <1>7, <1>8 DEF StoreInv, FilesInv

LEMMA StoreNext == StoreInv /\ [Next]_storeVars => StoreInv'
<1> SUFFICES ASSUME StoreInv, [Next]_storeVars PROVE StoreInv'
  OBVIOUS
<1>1. FilesInv' /\ (Outage \/ (Stamped /\ Undisturbed))
  BY NextFiles DEF StoreInv
<1>2. CASE Outage
  <2>1. /\ plan' = plan /\ file' = file /\ before' = before /\ bytes' = bytes
        /\ values' = values /\ step' = "end"
        /\ verdict' = verdict \/ verdict' = "lost"
    BY <1>2 DEF Outage, LoseReader
  <2>2. Progress' /\ Seen' /\ Ledgered'
    BY <2>1
    DEF StoreInv, ReaderInv, Progress, Seen, Looking, Ledgered, Binds, Whole,
        ReaderSteps
  <2>3. OfOneWriter'
    BY <2>1
    DEF StoreInv, ReaderInv, OfOneWriter, Looking, Whole, OpensDirectory
  <2> QED BY <1>1, <2>2, <2>3 DEF StoreInv, ReaderInv
<1>3. CASE Stamped /\ Undisturbed /\ UNCHANGED readVars
  BY <1>1, <1>3, ReaderWaits DEF StoreInv
<1>4. CASE Reading
  BY <1>1, <1>4, AdvanceInv, OpenInv, ExamineInv, ReadInv, CompareInv
  DEF StoreInv, Reading, ReaderStep
<1> QED BY <1>1, <1>2, <1>3, <1>4
        DEF Next, Publication, Operator, Clock, storeVars

\* The invariant holds of every store.
THEOREM StoreInvariant == Spec => []StoreInv
  BY StoreInit, StoreNext, PTL DEF Spec

\* What a reader keeps of a file is what was there, however many files and
\* changes there are (_read_calibration_regular_at, _read_regular_at: the two
\* identities taken around the reads).
THEOREM ReadsHold == Spec => ReadsWhatIsThere
<1> DEFINE A == (Len(values') > Len(values) /\ before.id.stamp < before.tick) =>
                  /\ bytes = before.held
                  /\ dir[Name] # Nothing /\ bytes = data[dir[Name]]
<1>1. StoreInv /\ [Next]_storeVars => [A]_storeVars
  <2> SUFFICES ASSUME StoreInv, Next, Len(values') > Len(values),
                      before.id.stamp < before.tick
               PROVE  /\ bytes = before.held
                      /\ dir[Name] # Nothing /\ bytes = data[dir[Name]]
    OBVIOUS
  <2>1. Progress /\ Seen /\ values \in Seq(Seq(Versions))
    BY DEF StoreInv, ReaderInv, Progress
  <2>2. Compare /\ Compares
    BY <2>1 DEF Next, Publication, readVars, Reading, ReaderStep, Operator,
         Outage, LoseReader, Clock, Begin, List, Open, Examine, Read, Compare,
         Relist, Conclude, Advance, Refuse
  <2>3. /\ stamp[file] = before.id.stamp /\ dir[Name] = file
        /\ Len(bytes) = before.id.size /\ step = "compare" /\ file \in Inodes
    BY <2>1, <2>2 DEF Compare, Compares, Identity, Progress
  <2>4. /\ data[file] = before.held /\ bytes \in Seq(Versions)
        /\ before.held \in Seq(Versions) /\ Len(bytes) = Len(before.held)
        /\ \A k \in 1..Len(bytes) : bytes[k] = before.held[k]
    BY <2>1, <2>3 DEF Seen, Looking
  <2>5. bytes = before.held
    BY <2>4
  <2> QED BY <2>3, <2>4, <2>5, FilesAssumption
<1> QED BY <1>1, StoreInvariant, PTL DEF Spec, ReadsWhatIsThere

\* What a reader returns is of one version: one writer's calibration, one
\* manifest with its checkpoint, the reviewed snapshot.
THEOREM ReturnedHolds == Spec => []ReturnedIsOneVersion
<1>1. StoreInv => ReturnedIsOneVersion
  <2> SUFFICES ASSUME StoreInv, verdict = "returned",
                      plan.names = <<Target>> \/ plan.kind # "calibration"
               PROVE  /\ \E v \in Versions : \A k \in DOMAIN values : Whole(values[k], v)
                      /\ plan.kind = "snapshot" => values[1][1] = Reviewed
    BY DEF ReturnedIsOneVersion
  <2>1. /\ values \in Seq(Seq(Versions)) /\ Len(values) = Len(plan.names) /\ Binds
        /\ Len(plan.names) \in Nat \ {0}
    BY StoreFacts DEF StoreInv, ReaderInv, Progress
  <2>2. CASE plan.names = <<Target>>
    <3>1. PICK v \in Writers : Whole(values[1], v)
      BY <2>1, <2>2, StoreFacts DEF StoreInv, ReaderInv, OfOneWriter
    <3>2. DOMAIN values = {1}
      BY <2>1, <2>2
    <3> QED BY <2>2, <3>1, <3>2, StoreFacts, WritersAssumption
  <2>3. CASE plan.kind = "snapshot"
    <3>1. \A k \in DOMAIN values : Whole(values[k], Reviewed)
      BY <2>1, <2>3 DEF StoreInv, ReaderInv, Ledgered
    <3>2. values[1][1] = Reviewed
      BY <2>1, <3>1, FilesAssumption DEF Whole
    <3> QED BY <3>1, <3>2, StoreAssumption
  <2>4. CASE plan.kind \in {"pair", "capsule"}
    <3>1. DOMAIN values = 1..2
      BY <2>1, <2>4, StoreFacts
    <3>2. PICK v \in Versions : Whole(values[1], v) /\ Whole(values[2], v)
      BY <2>1, <2>4 DEF Binds
    <3> QED BY <2>4, <3>1, <3>2
  <2> QED BY <2>2, <2>3, <2>4, PlansAssumption DEF StoreInv, FilesInv
<1> QED BY <1>1, StoreInvariant, PTL

\* A published calibration is refused only while its writer has not removed
\* its temporary name.
THEOREM RefusalHolds == Spec => []RefusedOnlyUnfinished
<1>1. StoreInv => RefusedOnlyUnfinished
  BY DEF StoreInv, ReaderInv, OfOneWriter, RefusedOnlyUnfinished
<1> QED BY <1>1, StoreInvariant, PTL

-----------------------------------------------------------------------------
(* The store implements the register: the operator and the reader leave it *)
(* alone.                                                                  *)

LEMMA StoreSteps ==
    ASSUME StoreInv, [Next]_storeVars
    PROVE  \/ [PublicationNext]_pubVars
           \/ /\ dir'[Target] = dir[Target] /\ disk' = disk
              /\ UNCHANGED writerVars
<1>1. CASE Publication
  <2>1. \E w \in Writers : WriterStep(w) \/ Kill(w)
    BY <1>1, PlansAssumption DEF Publication, StoreInv, FilesInv
  <2> QED BY <2>1 DEF PublicationNext
<1>2. CASE Operator
  BY <1>2, OperatorFiles DEF StoreInv, Operator
<1>3. CASE Outage
  BY <1>3 DEF Outage, PublicationNext
<1>4. CASE Clock
  BY <1>4 DEF Clock, PublicationNext
<1>5. CASE UNCHANGED <<fileVars, writerVars>>
  BY <1>5 DEF fileVars
<1> QED BY <1>1, <1>2, <1>3, <1>4, <1>5 DEF Next, Reading, storeVars

LEMMA StoreUndecided == Spec => []Undecided
<1>1. Init => Undecided
  BY DEF Init, InitWriters, Undecided
<1>2. StoreInv /\ Undecided /\ [Next]_storeVars => Undecided'
  <2> SUFFICES ASSUME StoreInv, Undecided, [Next]_storeVars PROVE Undecided'
    OBVIOUS
  <2>1. CASE [PublicationNext]_pubVars
    BY <2>1, UndecidedNext DEF StoreInv, FilesInv
  <2>2. CASE UNCHANGED writerVars
    BY <2>2 DEF Undecided, writerVars
  <2> QED BY <2>1, <2>2, StoreSteps
<1> QED BY <1>1, <1>2, StoreInvariant, PTL DEF Spec

\* The artifact is written once, and whole, also in a directory whose other
\* files are edited and read meanwhile.
THEOREM StorePublishes == Spec => PublishesOnce
<1>1. Init => Register!Init
  <2> SUFFICES ASSUME Init PROVE Register!Init
    OBVIOUS
  <2>1. Inv /\ dir[Target] = Nothing /\ disk[Target] = Nothing
    BY StoreInit, WritersAssumption, StoreAssumption DEF Init, StoreInv, FilesInv
  <2>2. \A w \in Writers : outcome[w] = "pending"
    BY DEF Init, InitWriters
  <2>3. Artifact = Nothing
    BY <2>1, ArtifactIsTheFile
  <2> QED BY <2>1, <2>2, <2>3 DEF Register!Init
<1>2. StoreInv /\ StoreInv' /\ Undecided /\ [Next]_storeVars =>
        [Register!Next]_Register!vars
  <2> SUFFICES ASSUME StoreInv, StoreInv', Undecided, [Next]_storeVars
               PROVE  [Register!Next]_Register!vars
    OBVIOUS
  <2>1. Inv /\ Inv'
    BY DEF StoreInv, FilesInv
  <2>2. [Plain!Next]_Plain!vars
    <3>1. CASE [PublicationNext]_pubVars
      BY <2>1, <3>1, NextRefines
    <3>2. CASE dir'[Target] = dir[Target] /\ disk' = disk /\ UNCHANGED writerVars
      BY <3>2, SameRegister DEF writerVars
    <3> QED BY <3>1, <3>2, StoreSteps
  <2> QED BY <2>1, <2>2, WholeRefines
<1> QED BY <1>1, <1>2, StoreInvariant, StoreUndecided, PTL
        DEF Spec, PublishesOnce, Register!Spec
=============================================================================
