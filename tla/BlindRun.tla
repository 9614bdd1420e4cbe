------------------------------ MODULE BlindRun ------------------------------
(***************************************************************************)
(* benchmarks/human_research.py: the one blind evaluation of a release.    *)
(* The registry holds a directory named by the custody key, of the packet  *)
(* and the blind capsule only: <key>.active while the run goes on, <key>   *)
(* when it is sealed.  begin-blind commits to a candidate before the blind *)
(* records are opened, resume-blind goes on with what a run has left, and  *)
(* finalize-calibration takes the candidate of a sealed one.  Commands may *)
(* be killed, system calls fail and the machine lose its power.            *)
(***************************************************************************)
EXTENDS Integers, FiniteSets

CONSTANTS
    Processes,  \* begin-blind and resume-blind commands, one after the other
    Fits,       \* candidates, a training capsule and its fit each
    Nobody, Absent,
    MaxFaults,  \* bound on kills, failing calls and writes that are cut
    MaxLosses   \* bound on power losses

ASSUME BlindAssumption ==
    /\ Nobody \notin Processes
    /\ Absent \notin Fits \cup [fit : Fits, run : Nat, whole : BOOLEAN]
    /\ MaxFaults \in Nat
    /\ MaxLosses \in Nat

VARIABLES
    place,      \* the name of the run's directory
    files,      \* its files
    named,      \* the name that a power loss leaves
    kept,       \* the files that a power loss leaves
    lock,       \* the holder of the registry's lock
    at,         \* the step of each process
    work,       \* the file it is making or syncing for
    fit,        \* its candidate
    initial,    \* the files it found
    made,       \* how many states of a running evaluation were made
    faults, losses,
    exposed,    \* history: candidates the blind records were opened for
    finalized   \* history: candidates that were made calibrations

diskVars == <<place, files, named, kept>>
processVars == <<work, fit, initial>>
boundVars == <<faults, losses>>
historyVars == <<exposed, finalized>>
vars == <<diskVars, lock, at, processVars, made, boundVars, historyVars>>

Names == {"precommitted", "running", "report", "candidate", "sealed",
          "descriptor"}

Places == {"none", "active", "sealed"}

NoFiles == [name \in Names |-> Absent]

Init ==
    /\ place = "none" /\ named = "none"
    /\ files = NoFiles /\ kept = {}
    /\ lock = Nobody
    /\ at = [p \in Processes |-> "idle"]
    /\ work = [p \in Processes |-> "precommitted"]
    /\ fit = [p \in Processes |-> Absent]
    /\ initial = [p \in Processes |-> {}]
    /\ made = 0
    /\ faults = 0 /\ losses = 0
    /\ exposed = {} /\ finalized = {}

-----------------------------------------------------------------------------
(* Files *)

\* A state, report or candidate binds the candidate and, but for the first,
\* the running state, which has a time of its own.
Entry(f, run) == [fit |-> f, run |-> run, whole |-> TRUE]

Present == {name \in Names : files[name] # Absent}

Run == files["running"].run

\* What the file of this name is, of the candidate committed to.
Expected(name) ==
    Entry(files["precommitted"].fit, IF name = "precommitted" THEN 0 ELSE Run)

\* The six files, whole and of one run.
Complete ==
    \A name \in Names : files[name] # Absent /\ files[name] = Expected(name)

\* Mutant: a run that has its report is not continued.
PartialBeforeReport ==
    {{"precommitted"}, {"precommitted", "running"}}

\* The file sets of a run that is continued.
Partial ==
    {{"precommitted"},
     {"precommitted", "running"},
     {"precommitted", "running", "report"},
     {"precommitted", "running", "report", "candidate"}}

-----------------------------------------------------------------------------
(* Processes *)

GoesTo(p, step) == at' = [at EXCEPT ![p] = step]

Ends(p) ==
    /\ GoesTo(p, "idle")
    /\ lock' = IF lock = p THEN Nobody ELSE lock
    /\ work' = [work EXCEPT ![p] = "precommitted"]
    /\ fit' = [fit EXCEPT ![p] = Absent]
    /\ initial' = [initial EXCEPT ![p] = {}]

Makes(p, name) ==
    /\ GoesTo(p, "make")
    /\ work' = [work EXCEPT ![p] = name]

\* A command is killed, or a system call of it fails.
Stop(p) ==
    /\ at[p] # "idle"
    /\ faults < MaxFaults
    /\ faults' = faults + 1
    /\ Ends(p)
    /\ UNCHANGED <<diskVars, made, losses, historyVars>>

-----------------------------------------------------------------------------
(* begin-blind *)

\* The inputs are verified and the fit replayed, without the lock.
Begin(p, f) ==
    /\ at[p] = "idle"
    /\ GoesTo(p, "claim")
    /\ fit' = [fit EXCEPT ![p] = f]
    /\ UNCHANGED <<diskVars, lock, work, initial, made, boundVars, historyVars>>

\* The lock is taken if it is free, and neither name may be there.
Claim(p) ==
    /\ at[p] = "claim"
    /\ IF lock = Nobody /\ place = "none"
       THEN lock' = p /\ GoesTo(p, "publish") /\ UNCHANGED processVars
       ELSE Ends(p)
    /\ UNCHANGED <<diskVars, made, boundVars, historyVars>>

\* The first state is written and synced in a directory without a custody
\* name, which is then renamed.
Publish(p) ==
    /\ at[p] = "publish"
    /\ place = "none"
    /\ place' = "active"
    /\ files' = [NoFiles EXCEPT !["precommitted"] = Entry(fit[p], 0)]
    /\ kept' = {"precommitted"}
    /\ initial' = [initial EXCEPT ![p] = {"precommitted"}]
    /\ GoesTo(p, "registry")
    /\ UNCHANGED <<named, lock, work, fit, made, boundVars, historyVars>>

-----------------------------------------------------------------------------
(* resume-blind *)

\* Mutant: the candidate given is not compared with the committed one.
MatchesAny(p) ==
    /\ files["precommitted"].whole
    /\ files["running"] # Absent => files["running"] = Expected("running")

\* The states on disk are of the candidate given.
Matches(p) ==
    /\ files["precommitted"] = Entry(fit[p], 0)
    /\ files["running"] # Absent => files["running"] = Expected("running")

\* Under the lock: a sealed name, files that are not one of the sets, or states
\* of another candidate are refused; a complete run is only verified.
Resume(p, f) ==
    /\ at[p] = "idle"
    /\ lock = Nobody
    /\ place = "active"
    /\ Present \in Partial \cup {Names}
    /\ lock' = p
    /\ fit' = [fit EXCEPT ![p] = f]
    /\ initial' = [initial EXCEPT ![p] = Present]
    /\ GoesTo(p, IF Present = Names THEN "verify" ELSE "continue")
    /\ UNCHANGED <<diskVars, work, made, boundVars, historyVars>>

Continue(p) ==
    /\ at[p] = "continue"
    /\ IF Matches(p)
       THEN Makes(p, "running") /\ UNCHANGED <<lock, fit, initial>>
       ELSE Ends(p)
    /\ UNCHANGED <<diskVars, made, boundVars, historyVars>>

\* The validation of a complete run, without the blind records.
Verify(p) ==
    /\ at[p] = "verify"
    /\ IF Matches(p) /\ Complete
       THEN /\ GoesTo(p, "directory")
            /\ work' = [work EXCEPT ![p] = "descriptor"]
            /\ UNCHANGED <<lock, fit, initial>>
       ELSE Ends(p)
    /\ UNCHANGED <<diskVars, made, boundVars, historyVars>>

-----------------------------------------------------------------------------
(* The run *)

Following == [running |-> "report", report |-> "candidate",
              candidate |-> "sealed", sealed |-> "descriptor"]

\* A file that was found is recomputed and compared, any other is created; the
\* last two are synced together.
Make(p) ==
    /\ at[p] = "make"
    /\ LET name == work[p] IN
         IF name \in initial[p]
         THEN /\ IF files[name] # Expected(name) THEN Ends(p)
                 ELSE /\ IF name = "running"
                         THEN GoesTo(p, "open") /\ UNCHANGED work
                         ELSE Makes(p, Following[name])
                      /\ UNCHANGED <<lock, fit, initial>>
              /\ UNCHANGED <<files, made>>
         ELSE /\ files[name] = Absent
              /\ LET run == IF name = "running" THEN made + 1 ELSE Run IN
                   files' = [files EXCEPT ![name] = Entry(fit[p], run)]
              /\ made' = IF name = "running" THEN made + 1 ELSE made
              /\ IF name = "sealed" THEN Makes(p, "descriptor")
                 ELSE GoesTo(p, "directory") /\ UNCHANGED work
              /\ UNCHANGED <<lock, fit, initial>>
    /\ UNCHANGED <<place, named, kept, boundVars, historyVars>>

\* The write fails, or the command is killed in it: the file stays as it is.
Cut(p) ==
    /\ at[p] = "make"
    /\ work[p] \notin initial[p]
    /\ faults < MaxFaults
    /\ faults' = faults + 1
    /\ files' = [files EXCEPT
         ![work[p]] = [Entry(fit[p], 0) EXCEPT !.whole = FALSE]]
    /\ Ends(p)
    /\ UNCHANGED <<place, named, kept, made, losses, historyVars>>

SyncDirectory(p) ==
    /\ at[p] = "directory"
    /\ kept' = Present
    /\ GoesTo(p, "registry")
    /\ UNCHANGED <<place, files, named, lock, processVars, made, boundVars,
                   historyVars>>

\* What follows when the registry was synced.
GoesOn(p) ==
    CASE work[p] = "precommitted" ->
           Makes(p, "running") /\ UNCHANGED <<lock, fit, initial>>
      [] work[p] = "running" ->
           GoesTo(p, "open") /\ UNCHANGED <<lock, processVars>>
      [] work[p] \in {"report", "candidate"} ->
           Makes(p, Following[work[p]]) /\ UNCHANGED <<lock, fit, initial>>
      [] work[p] = "descriptor" ->
           GoesTo(p, "rename") /\ UNCHANGED <<lock, processVars>>
      [] work[p] = "sealed" -> Ends(p)

\* Mutant: the registry is not synced.
SyncNoRegistry(p) ==
    /\ at[p] = "registry"
    /\ GoesOn(p)
    /\ UNCHANGED <<diskVars, made, boundVars, historyVars>>

SyncRegistry(p) ==
    /\ at[p] = "registry"
    /\ named' = place
    /\ GoesOn(p)
    /\ UNCHANGED <<place, files, kept, made, boundVars, historyVars>>

\* The blind records are read and scored.
Open(p) ==
    /\ at[p] = "open"
    /\ exposed' = exposed \cup {fit[p]}
    /\ Makes(p, "report")
    /\ UNCHANGED <<diskVars, lock, fit, initial, made, boundVars, finalized>>

\* The directory gets its sealed name; the registry is synced once more.
Rename(p) ==
    /\ at[p] = "rename"
    /\ place = "active"
    /\ place' = "sealed"
    /\ GoesTo(p, "registry")
    /\ work' = [work EXCEPT ![p] = "sealed"]
    /\ UNCHANGED <<files, named, kept, lock, fit, initial, made, boundVars,
                   historyVars>>

-----------------------------------------------------------------------------
(* The rest of the world *)

\* finalize-calibration, with a receipt for this candidate.
Finalize ==
    /\ place = "sealed"
    /\ Complete
    /\ finalized' = finalized \cup {files["candidate"]}
    /\ UNCHANGED <<diskVars, lock, at, processVars, made, boundVars, exposed>>

\* Names and entries that were not synced may or may not be there afterwards.
PowerLoss ==
    /\ losses < MaxLosses
    /\ losses' = losses + 1
    /\ place' \in {place, named}
    /\ named' = place'
    /\ \E left \in SUBSET Present :
         /\ kept \subseteq left
         /\ kept' = IF place' = "none" THEN {} ELSE left
         /\ files' = [name \in Names |->
                        IF name \in kept' THEN files[name] ELSE Absent]
    /\ lock' = Nobody
    /\ at' = [p \in Processes |-> "idle"]
    /\ work' = [p \in Processes |-> "precommitted"]
    /\ fit' = [p \in Processes |-> Absent]
    /\ initial' = [p \in Processes |-> {}]
    /\ UNCHANGED <<made, faults, historyVars>>

Advance(p) ==
    \/ Claim(p) \/ Publish(p) \/ Continue(p) \/ Verify(p)
    \/ Make(p) \/ SyncDirectory(p) \/ SyncRegistry(p) \/ Open(p) \/ Rename(p)

Next ==
    \/ \E p \in Processes, f \in Fits : Begin(p, f) \/ Resume(p, f)
    \/ \E p \in Processes : Advance(p) \/ Stop(p) \/ Cut(p)
    \/ Finalize
    \/ PowerLoss

Spec == Init /\ [][Next]_vars

\* The operator resumes the run with the inputs it was begun with.
ResumeOriginal ==
    \E p \in Processes, f \in Fits :
        files["precommitted"] = Entry(f, 0) /\ Resume(p, f)

\* Commands make progress, and the operator comes to resume in spite of others
\* that hold the lock every now and then.
FairSpec ==
    /\ Spec
    /\ \A p \in Processes : WF_vars(Advance(p))
    /\ SF_vars(ResumeOriginal)

-----------------------------------------------------------------------------
(* Properties *)

\* Type invariant.
TypeOK ==
    /\ place \in Places /\ named \in Places
    /\ files \in [Names ->
         [fit : Fits, run : Nat, whole : BOOLEAN] \cup {Absent}]
    /\ kept \subseteq Present
    /\ lock \in Processes \cup {Nobody}
    /\ fit \in [Processes -> Fits \cup {Absent}]
    /\ initial \in [Processes -> SUBSET Names]
    /\ exposed \subseteq Fits

\* The registry is a register of one exposure: kills and failing calls between
\* any two steps, and commands at the same time, with other candidates, never
\* show the view to another candidate than the one committed nor leave two
\* results; only a loss of power takes anything back
\* (_publish_blind_precommit, _continue_blind_run, resume_blind).
Exposure ==
    INSTANCE OneExposure WITH
        committed <-
            IF place = "none" THEN Absent ELSE files["precommitted"].fit,
        result <- IF place = "sealed" THEN files["candidate"] ELSE Absent,
        Results <- [fit : Fits, run : Nat, whole : {TRUE}]

ImplementsExposure == Exposure!Spec

\* A calibration that was finalized stays the one of the registered run, which
\* stays complete: a later loss of power, resume or begin leaves it where it is
\* (_finalize_calibration_at, _fsync, _rename_no_replace).
FinalizedStands ==
    \A c \in finalized : place # "none" /\ Complete /\ files["candidate"] = c

\* A file that was cut, the sealed state without its descriptor, or files that
\* were kept without the one before them.
Stuck ==
    \/ \E name \in Present : ~files[name].whole
    \/ "sealed" \in Present /\ "descriptor" \notin Present
    \/ \E name \in DOMAIN Following :
         Following[name] \in Present /\ name \notin Present

\* A run that was committed to is sealed in the end, through kills and losses
\* of power, unless its name is lost or no command goes on with what is left
\* (_active_blind_values).
EventuallyConcluded == place = "active" ~> place # "active" \/ Stuck

-----------------------------------------------------------------------------
(* What the documents say and the code does not keep (README, section 3.3). *)

\* The same blind view never evaluates two candidates ("so the same blind
\* release can never be used to compare a second candidate").
OneFit == Cardinality(exposed) <= 1

\* A run at rest of whole files that misses any of them can be continued
\* (_validate_complete_sealed_run: "follows the incomplete replay path").
MissingIsReplayed ==
    /\ place = "active"
    /\ lock = Nobody
    /\ \A name \in Present : files[name].whole
    => Present \in Partial \cup {Names}
=============================================================================
