------------------------- MODULE AtomicPublication -------------------------
(***************************************************************************)
(* calibration/io.py: writers of one calibration artifact.  Each writes a  *)
(* temporary file of its own, syncs it, links it to the artifact's name,   *)
(* which fails when the name is taken, removes the temporary name and      *)
(* syncs the directory.  Every system call may fail, a writer may be       *)
(* killed, and the power may fail.                                         *)
(***************************************************************************)
EXTENDS StoredFiles

CONSTANTS
    Writers,    \* each has a temporary file, an inode and a version of its own
    Target      \* the artifact's name

ASSUME WritersAssumption ==
    /\ Writers \cup {Target} \subseteq Names
    /\ Writers \subseteq Inodes \cap Versions
    /\ Target \notin Writers

Lanes ==
    {"path",    \* write_calibration_atomic
     "at"}      \* write_calibration_atomic_at

Steps ==
    {"idle", "write", "link", "unlink", "retry", "settle", "report", "withdraw",
     "done"}

VARIABLES
    at,         \* the next step of each writer
    lane,       \* the function it runs
    failed,     \* whether it has an error to raise when it is through
    outcome     \* "pending", "created", "raised" or "killed"

writerVars == <<at, lane, failed, outcome>>

WritersTypeOK ==
    /\ at \in [Writers -> Steps]
    /\ lane \in [Writers -> Lanes]
    /\ failed \in [Writers -> BOOLEAN]
    /\ outcome \in [Writers -> {"pending", "created", "raised", "killed"}]

InitWriters ==
    /\ at = [w \in Writers |-> "idle"]
    /\ lane \in [Writers -> Lanes]
    /\ failed = [w \in Writers |-> FALSE]
    /\ outcome = [w \in Writers |-> "pending"]

-----------------------------------------------------------------------------

Goto(w, step) ==
    /\ at' = [at EXCEPT ![w] = step]
    /\ UNCHANGED <<lane, failed, outcome>>

End(w, result) ==
    /\ at' = [at EXCEPT ![w] = "done"]
    /\ outcome' = [outcome EXCEPT ![w] = result]
    /\ UNCHANGED <<lane, failed>>

\* Go on with an error to raise later.
Defer(w, step) ==
    /\ at' = [at EXCEPT ![w] = step]
    /\ failed' = [failed EXCEPT ![w] = TRUE]
    /\ UNCHANGED <<lane, outcome>>

\* mkstemp, or open with O_EXCL: a new name and an empty file.
Create(w) ==
    /\ at[w] = "idle"
    /\ \/ Bind(w, w) /\ Goto(w, "write")
       \/ End(w, "raised") /\ UNCHANGED fileVars

\* Mutant: the file is not synced.
WriteUnsynced(w) ==
    /\ at[w] = "write"
    /\ \/ /\ Len(data[w]) < Size
          /\ AppendTo(w, w)
          /\ Goto(w, "write")
       \/ /\ Len(data[w]) = Size
          /\ Goto(w, "link")
          /\ UNCHANGED fileVars
       \/ Goto(w, "withdraw") /\ UNCHANGED fileVars

\* A write of the loop, and after the last one the fsync of the file.
Write(w) ==
    /\ at[w] = "write"
    /\ \/ /\ Len(data[w]) < Size
          /\ AppendTo(w, w)
          /\ Goto(w, "write")
       \/ /\ Len(data[w]) = Size
          /\ SyncFile(w)
          /\ Goto(w, "link")
       \/ Goto(w, "withdraw") /\ UNCHANGED fileVars

\* os.link: create the artifact's name, if it is not taken.
Publish(w) ==
    /\ at[w] = "link"
    /\ \/ /\ dir[Target] = Nothing
          /\ Bind(Target, w)
          /\ Goto(w, "unlink")
       \/ Goto(w, "withdraw") /\ UNCHANGED fileVars

\* Remove the temporary name.  If that fails, the first function leaves by its
\* handler and the second goes on to its cleanup.
Unlink(w) ==
    /\ at[w] = "unlink"
    /\ \/ Bind(w, Nothing) /\ Goto(w, "settle")
       \/ /\ lane[w] = "path"
          /\ Goto(w, "withdraw")
          /\ UNCHANGED fileVars
       \/ /\ lane[w] = "at"
          /\ Defer(w, "retry")
          /\ UNCHANGED fileVars

\* The cleanup's second attempt.
Retry(w) ==
    /\ at[w] = "retry"
    /\ Goto(w, "settle")
    /\ Bind(w, Nothing) \/ UNCHANGED fileVars

\* Mutant: the artifact's mode is set after its temporary name is gone.
SettleAndProtect(w) ==
    /\ at[w] = "settle"
    /\ disk' = dir
    /\ Touch({w})
    /\ Goto(w, "report")
    /\ UNCHANGED <<dir, data, synced, tick>>

\* fsync of the directory; an error of it is raised.
SettleDirectory(w) ==
    /\ at[w] = "settle"
    /\ \/ SyncDirectory /\ Goto(w, "report")
       \/ Defer(w, "report") /\ UNCHANGED fileVars

Report(w) ==
    /\ at[w] = "report"
    /\ End(w, IF failed[w] THEN "raised" ELSE "created")
    /\ UNCHANGED fileVars

\* The handler: remove the temporary name, if that works, and raise.
Withdraw(w) ==
    /\ at[w] = "withdraw"
    /\ End(w, "raised")
    /\ Bind(w, Nothing) \/ UNCHANGED fileVars

WriterStep(w) ==
    \/ Create(w) \/ Write(w) \/ Publish(w) \/ Unlink(w) \/ Retry(w)
    \/ SettleDirectory(w) \/ Report(w) \/ Withdraw(w)

Running(w) == at[w] \notin {"idle", "done"}

\* A writer is killed: its files stay as they are.
Kill(w) ==
    /\ Running(w)
    /\ End(w, "killed")
    /\ UNCHANGED fileVars

\* The power fails: every running writer is gone.
PowerLoss ==
    /\ LosePower
    /\ at' = [w \in Writers |-> IF Running(w) THEN "done" ELSE at[w]]
    /\ outcome' =
         [w \in Writers |-> IF Running(w) THEN "killed" ELSE outcome[w]]
    /\ UNCHANGED <<lane, failed>>

-----------------------------------------------------------------------------

\* The publication alone, in a directory without the artifact.
InitFiles ==
    /\ dir = [n \in Names |-> Nothing]
    /\ disk = dir
    /\ data = [i \in Inodes |-> <<>>]
    /\ synced = [i \in Inodes |-> 0]
    /\ stamp = [i \in Inodes |-> 0]
    /\ tick = 0

pubVars == <<fileVars, writerVars>>

PublicationInit == InitFiles /\ InitWriters

PublicationNext ==
    \/ \E w \in Writers : WriterStep(w) \/ Kill(w)
    \/ PowerLoss
    \/ Tick /\ UNCHANGED writerVars

PublicationSpec == PublicationInit /\ [][PublicationNext]_pubVars

\* All parts of a writer's file are there, of one version, and synced.
WholeFile(w) == data[w] = [k \in 1..Size |-> w] /\ synced[w] = Size

\* What is published, on disk or not, is complete and of one writer: its file
\* was synced before it got the name (the fsync before os.link).
PublishedWhole ==
    \A w \in Writers :
      w \in {dir[Target], disk[Target]} => WholeFile(w)

\* The register of WriteOnce that the directory implements: the artifact, if
\* its file is complete, its durable binding, and the writers that returned
\* without an error.
Artifact == IF dir[Target] \in Writers => WholeFile(dir[Target])
            THEN dir[Target] ELSE "torn"

Register == INSTANCE WriteOnce WITH
    Values <- Writers,
    value <- Artifact,
    durable <- disk[Target] # Nothing,
    acknowledged <- {w \in Writers : outcome[w] = "created"}

\* The artifact is written once, and whole: never replaced, gone only after a
\* power loss before its directory was synced, and reported as created only if
\* it stays (write_calibration_atomic, write_calibration_atomic_at).
PublishesOnce == Register!Spec
=============================================================================
