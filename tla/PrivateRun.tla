----------------------------- MODULE PrivateRun -----------------------------
(***************************************************************************)
(* The private training workflow around the loop: commands run as          *)
(* processes on one private root and may die between any two file-system   *)
(* steps.  admit creates the admission; train claims the one identity and  *)
(* optimizes under a lock, persisting boundaries; resume continues the     *)
(* claimed run; both export the learned weights; reload proves the export  *)
(* and publishes the final checkpoint.  smoke only occupies a path.        *)
(*                                                                         *)
(* The training loop itself is TrainingLoop: here a run is Steps boundary  *)
(* states, and learned weights are known by the binding they were trained  *)
(* under and their number of steps.                                        *)
(***************************************************************************)
EXTENDS Integers, FiniteSets

CONSTANTS
    Procs,          \* processes
    Pids,           \* operating-system process ids, reused after a death
    Works,          \* paths of work directories
    Finals,         \* paths of final checkpoints
    Inputs,         \* contents the run inputs file may have
    Steps,          \* optimizer boundaries of a complete run
    Durations,      \* wall-clock measurements
    SmokePaths,     \* work paths a smoke run may occupy
    MaxDeaths,      \* bound on deaths
    MaxDrifts,      \* bound on changes of the run inputs
    None

ASSUME RunAssumption ==
    /\ Steps \in Nat \ {0}
    /\ SmokePaths \subseteq Works
    /\ MaxDeaths \in Nat
    /\ MaxDrifts \in Nat

VARIABLES
    pc,         \* process -> its next step
    job,        \* process -> its command and what it holds in memory
    lock,       \* the process holding private-c1-r8-v1.lock, or None
    inputs,     \* the run inputs file
    preflight,  \* the inputs of the renderer preflight file, or None
    admission,  \* the inputs of the admission file, or None
    staging,    \* pid -> its claim staging directory, or None
    claim,      \* the published step-zero claim, or None
    paths,      \* work path -> "absent", "directory" or "file"
    resume,     \* work path -> its resume-state.pt, or None
    results,    \* work path -> its training-result.json, or None
    exports,    \* work path -> its export directory, or None
    finals,     \* final path -> the published checkpoint, or None
    deaths, drifts

vars == <<pc, job, lock, inputs, preflight, admission, staging, claim, paths,
          resume, results, exports, finals, deaths, drifts>>
files == <<inputs, preflight, admission, staging, claim, paths, resume,
           results, exports, finals>>
bounds == <<deaths, drifts>>

NoJob == [command |-> "none", work |-> None, final |-> None, pid |-> None,
          admission |-> None, binding |-> None, step |-> 0, proof |-> None]

Init ==
    /\ pc = [p \in Procs |-> "off"]
    /\ job = [p \in Procs |-> NoJob]
    /\ lock = None
    /\ inputs \in Inputs
    /\ preflight = None
    /\ admission = None
    /\ staging = [d \in Pids |-> None]
    /\ claim = None
    /\ paths = [w \in Works |-> "absent"]
    /\ resume = [w \in Works |-> None]
    /\ results = [w \in Works |-> None]
    /\ exports = [w \in Works |-> None]
    /\ finals = [f \in Finals |-> None]
    /\ deaths = 0
    /\ drifts = 0

\* A run's binding: the admission it verified and the run inputs it then read.
Binding(a, i) == [admission |-> a, inputs |-> i]

\* What training under a binding for n steps leaves behind.
Weights(b, n) == [binding |-> b, steps |-> n]

LivePids == {job[p].pid : p \in {q \in Procs : pc[q] # "off"}}

-----------------------------------------------------------------------------
(* Starting and ending.                                                    *)

Begin(p, command, first, w, f) ==
    /\ pc[p] = "off"
    /\ \E d \in Pids \ LivePids :
         job' = [job EXCEPT ![p] = [NoJob EXCEPT !.command = command, !.work = w,
                                                 !.final = f, !.pid = d]]
    /\ pc' = [pc EXCEPT ![p] = first]
    /\ UNCHANGED <<lock, files, bounds>>

StartAdmit(p) == Begin(p, "admit", "admit", None, None)
StartTrain(p, w) == Begin(p, "train", "verify", w, None)
StartResume(p, w) == Begin(p, "resume", "verify", w, None)
StartReload(p, w, f) == Begin(p, "reload", "verify", w, f)

Goto(p, step) == pc' = [pc EXCEPT ![p] = step]

\* A command returns or raises; the lock is released on the way out.
Leave(p) ==
    /\ Goto(p, "off")
    /\ job' = [job EXCEPT ![p] = NoJob]
    /\ lock' = IF lock = p THEN None ELSE lock

\* A process is killed.  The kernel drops its lock, files stay as they are.
Die(p) ==
    /\ pc[p] # "off"
    /\ deaths < MaxDeaths
    /\ deaths' = deaths + 1
    /\ Leave(p)
    /\ UNCHANGED <<files, drifts>>

-----------------------------------------------------------------------------
(* The admission: the renderer preflight first, then the admission itself. *)

AdmitCompute(p) ==
    /\ pc[p] = "admit"
    /\ admission = None
    /\ job' = [job EXCEPT ![p].admission = inputs]
    /\ Goto(p, "admitPreflight")
    /\ UNCHANGED <<lock, files, bounds>>

AdmitPreflight(p) ==
    /\ pc[p] = "admitPreflight"
    /\ preflight \in {None, job[p].admission}
    /\ preflight' = job[p].admission
    /\ Goto(p, "admitCreate")
    /\ UNCHANGED <<job, lock, inputs, admission, staging, claim, paths, resume,
                   results, exports, finals, bounds>>

AdmitCreate(p) ==
    /\ pc[p] = "admitCreate"
    /\ admission = None
    /\ admission' = job[p].admission
    /\ Leave(p)
    /\ UNCHANGED <<inputs, preflight, staging, claim, paths, resume, results,
                   exports, finals, bounds>>

\* Every other command recomputes the admission from the inputs of the moment.
AdmissionValid == admission = inputs /\ preflight = inputs

Verify(p) ==
    /\ pc[p] = "verify"
    /\ AdmissionValid
    /\ job' = [job EXCEPT ![p].admission = admission]
    /\ Goto(p, IF job[p].command = "reload" THEN "readExport" ELSE "bind")
    /\ UNCHANGED <<lock, files, bounds>>

\* The binding hashes the run inputs file as it is read again.
Bind(p) ==
    /\ pc[p] = "bind"
    /\ job' = [job EXCEPT ![p].binding = Binding(job[p].admission, inputs)]
    /\ Goto(p, "lock")
    /\ UNCHANGED <<lock, files, bounds>>

\* (mutant) the lock is not exclusive
LockShared(p) ==
    /\ pc[p] = "lock"
    /\ lock' = p
    /\ Goto(p, IF job[p].command = "train" THEN "newWork" ELSE "openClaim")
    /\ UNCHANGED <<job, files, bounds>>

Lock(p) ==
    /\ pc[p] = "lock"
    /\ lock = None
    /\ lock' = p
    /\ Goto(p, IF job[p].command = "train" THEN "newWork" ELSE "openClaim")
    /\ UNCHANGED <<job, files, bounds>>

-----------------------------------------------------------------------------
(* train: the step-zero claim is staged, published by an exclusive rename, *)
(* and only then is the work directory made.                               *)

NewWork(p) ==
    /\ pc[p] = "newWork"
    /\ paths[job[p].work] = "absent"
    /\ Goto(p, "stageClaim")
    /\ UNCHANGED <<job, lock, files, bounds>>

MayStage(p) ==
    /\ claim = None
    /\ paths[job[p].work] = "absent"
    /\ staging[job[p].pid] = None

StageClaim(p) ==
    /\ pc[p] = "stageClaim"
    /\ MayStage(p)
    /\ staging' = [staging EXCEPT ![job[p].pid] = [claim |-> None, state |-> None]]
    /\ Goto(p, "writeClaim")
    /\ UNCHANGED <<job, lock, inputs, preflight, admission, claim, paths, resume,
                   results, exports, finals, bounds>>

WriteClaim(p) ==
    /\ pc[p] = "writeClaim"
    /\ staging' = [staging EXCEPT ![job[p].pid].claim =
                      [work |-> job[p].work, admission |-> job[p].admission,
                       inputs |-> inputs, binding |-> job[p].binding]]
    /\ Goto(p, "writeInitial")
    /\ UNCHANGED <<job, lock, inputs, preflight, admission, claim, paths, resume,
                   results, exports, finals, bounds>>

WriteInitial(p) ==
    /\ pc[p] = "writeInitial"
    /\ staging' = [staging EXCEPT ![job[p].pid].state = Weights(job[p].binding, 0)]
    /\ Goto(p, "publishClaim")
    /\ UNCHANGED <<job, lock, inputs, preflight, admission, claim, paths, resume,
                   results, exports, finals, bounds>>

PublishClaim(p) ==
    /\ pc[p] = "publishClaim"
    /\ claim = None
    /\ claim' = staging[job[p].pid]
    /\ staging' = [staging EXCEPT ![job[p].pid] = None]
    /\ Goto(p, "makeWork")
    /\ UNCHANGED <<job, lock, inputs, preflight, admission, paths, resume,
                   results, exports, finals, bounds>>

MakeWork(p) ==
    /\ pc[p] = "makeWork"
    /\ paths[job[p].work] = "absent"
    /\ paths' = [paths EXCEPT ![job[p].work] = "directory"]
    /\ Goto(p, "save")
    /\ UNCHANGED <<job, lock, inputs, preflight, admission, staging, claim, resume,
                   results, exports, finals, bounds>>

-----------------------------------------------------------------------------
(* resume: the claim and this process's binding must agree in everything.  *)

\* (mutant) a resumed run always starts from the step-zero state
SavedInitial(w) == claim.state

Saved(w) == IF resume[w] # None THEN resume[w] ELSE claim.state

\* (mutant) there must be a resume-state.pt to resume from
MayResumeSaved(p) ==
    /\ claim # None
    /\ claim.claim = [work |-> job[p].work, admission |-> job[p].admission,
                      inputs |-> inputs, binding |-> job[p].binding]
    /\ resume[job[p].work] # None
    /\ resume[job[p].work].binding = job[p].binding

MayResume(p) ==
    /\ claim # None
    /\ claim.claim = [work |-> job[p].work, admission |-> job[p].admission,
                      inputs |-> inputs, binding |-> job[p].binding]
    /\ paths[job[p].work] # "file"
    /\ Saved(job[p].work).binding = job[p].binding

OpenClaim(p) ==
    /\ pc[p] = "openClaim"
    /\ MayResume(p)
    /\ job' = [job EXCEPT ![p].step = Saved(job[p].work).steps]
    /\ paths' = [paths EXCEPT ![job[p].work] = "directory"]
    /\ Goto(p, "save")
    /\ UNCHANGED <<lock, inputs, preflight, admission, staging, claim, resume,
                   results, exports, finals, bounds>>

-----------------------------------------------------------------------------
(* Optimization: every boundary replaces resume-state.pt.                  *)

Save(p) ==
    /\ pc[p] = "save"
    /\ resume' = [resume EXCEPT ![job[p].work] = Weights(job[p].binding, job[p].step)]
    /\ Goto(p, IF job[p].step = Steps THEN "complete" ELSE "train")
    /\ UNCHANGED <<job, lock, inputs, preflight, admission, staging, claim, paths,
                   results, exports, finals, bounds>>

Train(p) ==
    /\ pc[p] = "train"
    /\ job' = [job EXCEPT ![p].step = @ + 1]
    /\ Goto(p, "save")
    /\ UNCHANGED <<lock, files, bounds>>

-----------------------------------------------------------------------------
(* Export: the training result is created once and preserved, the export   *)
(* directory is published by an exclusive rename.                          *)

\* The metrics of a completed run hold the wall-clock time it has measured.
Complete(p) ==
    /\ pc[p] = "complete"
    /\ exports[job[p].work] = None
    /\ \E d \in Durations :
         job' = [job EXCEPT ![p].proof =
                    [weights |-> Weights(job[p].binding, job[p].step), duration |-> d]]
    /\ Goto(p, "result")
    /\ UNCHANGED <<lock, files, bounds>>

\* A completed run that is already exported returns its descriptor.
Exported(p) ==
    /\ pc[p] = "complete"
    /\ exports[job[p].work] # None
    /\ Leave(p)
    /\ UNCHANGED <<files, bounds>>

RecordResult(p) ==
    /\ pc[p] = "result"
    /\ results[job[p].work] \in {None, job[p].proof}
    /\ results' = [results EXCEPT ![job[p].work] = job[p].proof]
    /\ Goto(p, "publishExport")
    /\ UNCHANGED <<job, lock, inputs, preflight, admission, staging, claim, paths,
                   resume, exports, finals, bounds>>

\* "preserved training result differs from completed run"
ResultDiffers(p) ==
    /\ pc[p] = "result"
    /\ results[job[p].work] \notin {None, job[p].proof}

PublishExport(p) ==
    /\ pc[p] = "publishExport"
    /\ exports[job[p].work] = None
    /\ exports' = [exports EXCEPT ![job[p].work] =
                      [admission |-> job[p].admission,
                       weights |-> job[p].proof.weights,
                       result |-> results[job[p].work]]]
    /\ Leave(p)
    /\ UNCHANGED <<inputs, preflight, admission, staging, claim, paths, resume,
                   results, finals, bounds>>

-----------------------------------------------------------------------------
(* reload: without the lock.  The export is read and proved, then read     *)
(* again and copied with its receipts into a new final directory.          *)

ReadableExport(w) ==
    exports[w] # None /\ exports[w].result = results[w]

AdmittedExport(p) ==
    /\ ReadableExport(job[p].work)
    /\ exports[job[p].work].admission = job[p].admission

ReadExport(p) ==
    /\ pc[p] = "readExport"
    /\ AdmittedExport(p)
    /\ job' = [job EXCEPT ![p].proof = exports[job[p].work]]
    /\ Goto(p, "copyExport")
    /\ UNCHANGED <<lock, files, bounds>>

CopyExport(p) ==
    /\ pc[p] = "copyExport"
    /\ ReadableExport(job[p].work)
    /\ job[p].proof = exports[job[p].work]
    /\ finals[job[p].final] = None
    /\ Goto(p, "publishFinal")
    /\ UNCHANGED <<job, lock, files, bounds>>

PublishFinal(p) ==
    /\ pc[p] = "publishFinal"
    /\ finals[job[p].final] = None
    /\ finals' = [finals EXCEPT ![job[p].final] = job[p].proof]
    /\ Leave(p)
    /\ UNCHANGED <<inputs, preflight, admission, staging, claim, paths, resume,
                   results, exports, bounds>>

-----------------------------------------------------------------------------
(* Refusals: a failed check raises, which ends the command.                *)

Refused(p) ==
    \/ pc[p] = "admit" /\ admission # None
    \/ pc[p] = "admitPreflight" /\ preflight \notin {None, job[p].admission}
    \/ pc[p] = "admitCreate" /\ admission # None
    \/ pc[p] = "verify" /\ ~AdmissionValid
    \/ pc[p] = "lock" /\ lock # None
    \/ pc[p] = "newWork" /\ paths[job[p].work] # "absent"
    \/ pc[p] = "stageClaim" /\ ~MayStage(p)
    \/ pc[p] = "makeWork" /\ paths[job[p].work] # "absent"
    \/ pc[p] = "openClaim" /\ ~MayResume(p)
    \/ ResultDiffers(p)
    \/ pc[p] = "readExport" /\ ~AdmittedExport(p)
    \/ pc[p] \in {"copyExport", "publishFinal"} /\ finals[job[p].final] # None

Refuse(p) ==
    /\ Refused(p)
    /\ Leave(p)
    /\ UNCHANGED <<files, bounds>>

-----------------------------------------------------------------------------
(* The surroundings.                                                       *)

\* A smoke run writes its receipt, a file, without taking the lock.
Smoke(w) ==
    /\ w \in SmokePaths
    /\ AdmissionValid
    /\ paths[w] = "absent"
    /\ paths' = [paths EXCEPT ![w] = "file"]
    /\ UNCHANGED <<pc, job, lock, inputs, preflight, admission, staging, claim,
                   resume, results, exports, finals, bounds>>

\* Somebody edits the run inputs.
Drift ==
    /\ drifts < MaxDrifts
    /\ drifts' = drifts + 1
    /\ inputs' \in Inputs \ {inputs}
    /\ UNCHANGED <<pc, job, lock, preflight, admission, staging, claim, paths,
                   resume, results, exports, finals, deaths>>

Admit(p) == AdmitCompute(p) \/ AdmitPreflight(p) \/ AdmitCreate(p)
Claim(p) == NewWork(p) \/ StageClaim(p) \/ WriteClaim(p) \/ WriteInitial(p)
                \/ PublishClaim(p) \/ MakeWork(p)
Optimize(p) == OpenClaim(p) \/ Save(p) \/ Train(p)
Export(p) == Complete(p) \/ Exported(p) \/ RecordResult(p) \/ PublishExport(p)
Reload(p) == ReadExport(p) \/ CopyExport(p) \/ PublishFinal(p)

Step(p) ==
    \/ Admit(p) \/ Verify(p) \/ Bind(p) \/ Lock(p) \/ Claim(p)
    \/ Optimize(p) \/ Export(p) \/ Reload(p) \/ Refuse(p)

Next ==
    \/ \E p \in Procs :
         \/ StartAdmit(p)
         \/ \E w \in Works : StartTrain(p, w) \/ StartResume(p, w)
         \/ \E w \in Works, f \in Finals : StartReload(p, w, f)
         \/ Step(p)
         \/ Die(p)
    \/ \E w \in Works : Smoke(w)
    \/ Drift

Spec == Init /\ [][Next]_vars

\* A started command runs on, and an operator who wants the claimed run keeps
\* resuming it whatever other commands are run in between.
ResumeClaimed(p) ==
    claim # None /\ exports[claim.claim.work] = None /\ StartResume(p, claim.claim.work)

Fairness ==
    /\ \A p \in Procs : WF_vars(Step(p))
    /\ SF_vars(\E p \in Procs : ResumeClaimed(p))

FairSpec == Spec /\ Fairness

-----------------------------------------------------------------------------

Bindings == [admission : Inputs, inputs : Inputs]
AllWeights == [binding : Bindings, steps : 0..Steps]
Claims == [work : Works, admission : Inputs, inputs : Inputs, binding : Bindings]
Claimings == [claim : Claims \cup {None}, state : AllWeights \cup {None}]
Results == [weights : AllWeights, duration : Durations]
AllExports == [admission : Inputs, weights : AllWeights, result : Results]
Jobs == [command : {"none", "admit", "train", "resume", "reload"},
         work : Works \cup {None}, final : Finals \cup {None},
         pid : Pids \cup {None}, admission : Inputs \cup {None},
         binding : Bindings \cup {None}, step : 0..Steps,
         proof : Results \cup AllExports \cup {None}]

ASSUME NoneAssumption ==
    None \notin Procs \cup Works \cup Claims \cup Claimings \cup AllWeights
                    \cup Results \cup AllExports
                    \cup [work : Works, binding : Bindings]

TypeOK ==
    /\ pc \in [Procs -> {"off", "admit", "admitPreflight", "admitCreate", "verify",
                        "bind", "lock", "newWork", "stageClaim", "writeClaim",
                        "writeInitial", "publishClaim", "makeWork", "openClaim",
                        "save", "train", "complete", "result", "publishExport",
                        "readExport", "copyExport", "publishFinal"}]
    /\ job \in [Procs -> Jobs]
    /\ lock \in Procs \cup {None}
    /\ inputs \in Inputs
    /\ preflight \in Inputs \cup {None}
    /\ admission \in Inputs \cup {None}
    /\ staging \in [Pids -> Claimings \cup {None}]
    /\ claim \in Claimings \cup {None}
    /\ paths \in [Works -> {"absent", "directory", "file"}]
    /\ resume \in [Works -> AllWeights \cup {None}]
    /\ results \in [Works -> Results \cup {None}]
    /\ exports \in [Works -> AllExports \cup {None}]
    /\ finals \in [Finals -> AllExports \cup {None}]
    /\ deaths \in 0..MaxDeaths
    /\ drifts \in 0..MaxDrifts

\* The published claim is always the complete pair of claim and step-zero
\* state of one process, whatever staging directories deaths left behind.
ClaimPaired ==
    claim # None =>
        /\ claim.claim # None
        /\ claim.state = Weights(claim.claim.binding, 0)

\* Operational state, results and exports exist only in the claimed work
\* directory and under the claimed binding: a second output path, changed
\* inputs or a new admission never get at the identity.
OnlyClaimedWork ==
    \A w \in Works :
        resume[w] # None \/ results[w] # None \/ exports[w] # None =>
            /\ claim # None
            /\ claim.claim.work = w
            /\ resume[w] # None
            /\ resume[w].binding = claim.claim.binding

Optimizing == {"save", "train", "complete", "result", "publishExport"}

\* A process that optimizes holds the lock, and what it has in memory is the
\* persisted boundary or the one right after it.
MemoryFresh ==
    \A p \in Procs : pc[p] \in Optimizing =>
        LET saved == Saved(job[p].work) IN
        /\ lock = p
        /\ claim # None /\ claim.claim.work = job[p].work
        /\ job[p].step \in {saved.steps} \cup (IF pc[p] = "save" THEN {saved.steps + 1} ELSE {})

\* An export holds the weights of the complete claimed run, and the training
\* result it is bound to is the one beside it.
ExportComplete ==
    \A w \in Works : exports[w] # None =>
        /\ resume[w] = Weights(claim.claim.binding, Steps)
        /\ exports[w].weights = resume[w]
        /\ exports[w].result = results[w]
        /\ exports[w].result.weights = resume[w]

\* What the files say of the one identity.
ClaimedAs ==
    IF claim = None THEN None
    ELSE [work |-> claim.claim.work, binding |-> claim.claim.binding]
Progress == IF claim = None THEN 0 ELSE Saved(claim.claim.work).steps
ExportedWeights ==
    IF claim = None THEN None
    ELSE IF exports[claim.claim.work] = None THEN None
    ELSE exports[claim.claim.work].weights
Published == [f \in Finals |-> IF finals[f] = None THEN None ELSE finals[f].weights]

\* The files implement the promise of the one identity: in particular claim,
\* export and final checkpoints never change once published, and durable
\* progress never goes back.
Identity == INSTANCE OneIdentity WITH
    claimed <- ClaimedAs, progress <- Progress,
    exported <- ExportedWeights, published <- Published
ImplementsIdentity == Identity!Spec

\* The steps of a process that holds the lock, and those that know its binding.
Locked == {"newWork", "stageClaim", "writeClaim", "writeInitial", "publishClaim",
           "makeWork", "openClaim"} \cup Optimizing
Bound == {"lock"} \cup Locked
Reloading == {"readExport", "copyExport", "publishFinal"}

\* What a command has gathered in memory by its step.
JobFilled(p) ==
    /\ pc[p] \in {"verify", "bind"} \cup Bound \cup Reloading => job[p].work \in Works
    /\ pc[p] \in {"verify", "bind"} \cup Bound => job[p].pid \in Pids
    /\ pc[p] = "verify" /\ job[p].command = "reload" => job[p].final \in Finals
    /\ pc[p] \in {"admitPreflight", "admitCreate", "bind"} \cup Bound
          => job[p].admission \in Inputs
    /\ pc[p] \in Bound => job[p].binding \in Bindings
    /\ pc[p] \in Reloading => job[p].final \in Finals

\* What the holder of the lock knows of the claim it stages and publishes.
Claiming(p) ==
    LET staged == staging[job[p].pid] IN
    /\ pc[p] \in Locked => lock = p
    /\ pc[p] \notin Optimizing => job[p].step = 0
    /\ pc[p] \in {"writeClaim", "writeInitial", "publishClaim"} => staged # None
    /\ pc[p] \in {"writeInitial", "publishClaim"} =>
          /\ staged.claim # None
          /\ staged.claim.work = job[p].work
          /\ staged.claim.binding = job[p].binding
    /\ pc[p] = "publishClaim" => staged.state = Weights(job[p].binding, 0)
    /\ pc[p] = "makeWork" => resume[job[p].work] = None
    /\ pc[p] \in {"makeWork"} \cup Optimizing =>
          /\ claim # None
          /\ claim.claim.work = job[p].work
          /\ claim.claim.binding = job[p].binding

\* What a process that optimizes or exports has in memory, relative to the files.
InMemory(p) ==
    LET w == job[p].work IN
    /\ pc[p] = "save" => job[p].step \in {Saved(w).steps, Saved(w).steps + 1}
    /\ pc[p] = "train" => resume[w] # None /\ job[p].step = resume[w].steps
                                         /\ job[p].step < Steps
    /\ pc[p] \in {"complete", "result", "publishExport"} =>
          job[p].step = Steps /\ resume[w] = Weights(job[p].binding, Steps)
    /\ pc[p] \in {"result", "publishExport"} =>
          job[p].proof \in Results /\ job[p].proof.weights = resume[w]
    /\ pc[p] = "result" => exports[w] = None
    /\ pc[p] = "publishExport" => results[w] = job[p].proof
    /\ pc[p] \in {"copyExport", "publishFinal"} =>
          exports[w] # None /\ job[p].proof = exports[w]

\* A result is that of the complete run; so is an export; a final checkpoint is
\* the export.
Completed ==
    /\ \A w \in Works : results[w] # None =>
          /\ resume[w] = Weights(claim.claim.binding, Steps)
          /\ results[w].weights = resume[w]
    /\ \A w \in Works : exports[w] # None => results[w] # None
    /\ \A f \in Finals : finals[f] # None =>
          claim # None /\ finals[f] = exports[claim.claim.work]

IInv ==
    /\ TypeOK
    /\ ClaimPaired
    /\ OnlyClaimedWork
    /\ ExportComplete
    /\ Completed
    /\ \A p \in Procs : JobFilled(p) /\ Claiming(p) /\ InMemory(p)

\* A training result was preserved and the process that would have exported it
\* is gone.
Orphaned ==
    /\ claim # None
    /\ results[claim.claim.work] # None
    /\ exports[claim.claim.work] = None
    /\ \A p \in Procs : pc[p] # "publishExport"

\* A claimed run is exported in the end, unless a death separated its result
\* from its export.
EventuallyExported ==
    []~Orphaned => (claim # None ~> claim # None /\ exports[claim.claim.work] # None)

=============================================================================
