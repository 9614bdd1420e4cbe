# A verification of Saracura

Saracura is a local decision runtime: a closed set of contracts, scoring
backends that rank candidates, and a large body of benchmark and research code
that makes the data, trains and admits the models, measures them, and accounts
for every paid request on the way. This directory holds TLA+ models of its
parts, the TLC runs that check them and theorems that TLAPS proves about them.

Paths below are relative to the repository, which is beside this directory as
`src/`: the package is `src/src/saracura`, the operational code
`src/benchmarks`, the experiments `src/research`. `PROJECT.json` names, for
every definition that models code, the file and the lines it stands for.

## 1. Inventory

### 1.1 What the code does, and what is hard about it

The package is small: a request is validated, scored, calibrated and answered,
and nothing survives it except a loaded model, the thread count of the process
and calibration artifacts on disk. Those three are where it is hard: backends
are called from several threads, artifacts are published and read while others
change the directory, and a receipt may expire between two looks at it.

The operational and research code follows one discipline: *write-once files in a
private directory are the state; a process may die at any line; the next one
reads the files and must neither lose what was done, nor do it twice, nor
believe what is half-written*. There is no database, so the questions are those
of crash recovery, order of writes, exclusive creation and locks, retries of
requests that cost money or time out, and reports that must be decided on
complete evidence.

### 1.2 Components

Modelled:

| component | state it keeps | operations | what is hard | what makes it correct |
|---|---|---|---|---|
| private training loop (`benchmarks/v02_training_loop.py`) | `resume-state.pt`: weights, optimizer, random stream, epoch and cursor, best epoch, staleness | start, restore, window, evaluate, persist, return | death in the middle of a save, loss of power before its directory is synced; early stop at an epoch boundary, partial last window, ties | the resumed run is the uninterrupted one; a death or a loss of power costs one window |
| private workflow, training, checkpoint (`v02_private_workflow.py`, `v02_private_training.py`, `v02_private_checkpoint.py`) | admission, preflight, lock, staged and published claim, work directories, training result, export, final checkpoint | admit, train, resume, export, reload, smoke | several processes, pids that are reused, staged directory published by rename, two-step export, second read without lock | one identity is claimed once, optimized by one process, exported complete and published as exported |
| provider client and cost ledger (`saracura_universal_corpus.py`) | numbered ledger snapshots, request journal | reserve, transport, settle or mark uncertain, journal, resume | lost answers, refused costs, death between reservation and settlement, two commands on one directory | a sent request stays charged, is never repeated when its fate is unknown, budgets hold |
| phase 4E corpus command (`phase4e_pipeline.py`) | resolution and diagnostics files per batch, the packet | author and reviewer calls, retries, fallbacks, projection, sealing | retries against lost answers; lineage of outcomes; two files per batch | every row accounts for its final attempts; the packet is decided |
| v02 role executor and offline ledger (`v02_corpus.py`) | events per identity, environment and role bindings, reservations, private cases | execute_role, commit, the reducers | death around the one request, order of the annotators, gates that open one after the other | one request per role, readable ledger, pilots first, sound and final verdicts |
| resident backends (`backends/saracura_universal.py`, `backends/laya.py`) | attributes of each instance, one resident flag per class, torch's thread count, a lock per instance | prepare, score, close, from several threads | flag tested, taken and freed by different methods; failure at any stage of loading; close between prepare and score | one model per class; slots given back; every call returns; the thread count is restored |
| letter bridge (`research/llm_bridge.py`, `llm_bridge_v3.py`) | one inference lock, one thread per connection, launch evidence | start, admit, encode, generate, reply | deadline in the middle of the model; clients that left; a lock against a reply sent outside of it | a 200 reply is complete and in time; nobody is refused as busy without another at work |
| evaluator and validator (`research/ptbr_bench.py`, `validate_submission.py`) | cache of splits shared with other runs, items, report | fetch, ask with attempts, publish, validate | a cache others fill; retries and final refusals | a report marked ready is one the validator accepts; the run ends |
| native servers (`research/native_server_v3.py`) | evidence file, health binding, port | preflight, publish evidence, serve, kill | evidence of one launch answered for by another | a record is bound to the launch that answered |
| full-text diagnostic and task runs (`research/full_text_diagnostic.py`, `benchmark_v3.py`) | append-only journal without lock | bind, ask, append, restart, summarize | two runs on one journal, a kill inside a line, a server relaunched between rows | a summary is of one clean line per key and one identity |
| task and combined reports (`benchmark_v3.py`) | reports linked once, one shared validation temporary | import, combine, validate | a journal read three times; a temporary shared by all validations | a combined report answers every row of the tasks it names |
| contracts and serialization (`contracts/models.py`, `serialization.py`) | none: closed immutable values | parse, serialize | NFC collisions, canonical numbers | what is answered was a legal request |
| calibration profiles (`calibration/*`, `research_trust.py`) | envelopes and signed receipts | load, resolve, verify at a time | receipts that expire, keys that are revoked, digests derived from parts | a calibrated answer was made under a live receipt |
| decision engine, workflows (`runtime/*`) | the call in progress; the caller's mapping | decide | resolution and use of a calibration are two steps; failures in order | every answer is earned by the backend's scores and its calibration |
| scoring backends (`backends/*`) | the snapshot verified when it is opened | accept, score | what is refused where, and what a malformed reply becomes | scored by the artifacts verified |
| command line (`cli.py`) | a command in its lane | decide, describe-backend, create-identity-calibration, shadow-decide, shadow-evaluate | files opened at different moments and replaced between them; closing after failure | each lane opens and closes its backend, and prints only what it decided |
| shadow mode (`shadow/*`) | runner: policy, backend, records | enter, decide, close, evaluate | two runners and one resident model; failures of the candidate | records are whole, in order, and abstain rather than invent |
| calibration publication and verified reads (`calibration/io.py`, `verified_bytes.py`) | names, links, bytes, what is synced | write, link, unlink, sync; open, read, look again | errors and power loss between system calls; replacement of the path meanwhile; clock resolution | a write-once register; a reader returns one version |
| remote universal runs (`universal_remote_resume/runner.py`) | a claim per lineage; per run a directory with a journal by ordinal, a result, a report and a manifest | run, finalize-partial, validate-artifact | death between reservation and settlement or inside a seal; two runs of one lineage; a seal beside a run | what may have been sent is charged (once per lineage, but for section 3.3); what stopped can be sealed; a seal lasts |
| human research lane (`benchmarks/human_research.py`): the blind evaluation | an exposure registry: per released blind view a directory `<key>.active`, renamed to `<key>`, with six files | begin-blind, resume-blind, finalize-calibration | kills, cut writes and losses of power between files, fsyncs and renames; another candidate at a resume | one candidate is committed, shown the view and concluded; what is sealed is complete and stays |

Not modelled; the reasons are in section 6:

| component | state, operations and interactions | what is hard | properties that would make it correct |
|---|---|---|---|
| schema cache (`cache.py`) | dictionary from a digest to a payload | - | equal keys hit, different ones never do |
| universal ranker (`universal/*`) | none: arithmetic and rendering | numeric | outside of TLC's reach |
| v02 training capsule trainer, evaluation (`v02_training.py`, `v02_evaluation.py`) | claim and checkpoints; a create-only report | as the private trainer | as the private trainer |
| rest of the human research lane (`human_research.py`, `human_training.py`, `human_calibration.py`) | capsules of packets, embeddings, heads and fits | as the first state of a blind run: stage and rename | a capsule is whole or not there |
| first-party packets, data policy | none: validators of documents | - | - |
| phase 4E pilot, recovery lane (`saracura_universal_pilot.py`, `phase4e_pipeline.py`) | as the corpus command, with carried entries | a second client of the same ledger | as the corpus command |
| phase 4E training, comparison, policy, runtime QA | checkpoints; an own ledger for the comparison | as above | as above |
| phase 5 candidate, managed CUDA (`phase5_*`) | a release in several create-only steps; a sampling thread | readiness against failure of the thread | start returns only after readiness or raises |
| encoder acquisition, local conformance (`encoder_*.py`, `universal_local`) | staged download, rename | partial downloads | a published directory is complete |
| teacher generation (`research/gen_openrouter.py`, `gen_usecases.py`) | rows in a `.jsonl` file, a budget, a pool of workers | workers run ahead of the main thread; a resume that counts rows | a resume skips only what was tried; the overshoot of the ceiling is one call per job it ended |
| native PT-BR and typed benchmarks, harness, validators, other scripts | create-only reports; experiments | two-file publication of a result | a result is never there without its report |

`PROJECT.json` lists each of them with its sources, and under `hazards` what is
hard to test in this code, line by line, with the properties that would catch it.

### 1.3 Who calls whom

```
 operator ── admit / train / resume / reload ──> PrivateRun ──> TrainingLoop
                                                    |  reads the training capsule
                                                    v
 driver ──── execute_role ──> RoleExecution ── events ──> sealer ──> capsule
                                 | one local request per role

 operator ── corpus command ──> CorpusRun ── reserve / send / settle ──> ProviderLedger
                                 | resolutions, packet                    | snapshots

 operator ── evaluate ──> EvaluatorRun ── HTTP ──> LetterBridge
                             | report ──> validator
 operator ── launch ──> NativeServer <── bind, ask ── EvidenceJournal (runs)
                             | evidence                | journal
                             +──────> TaskReports <────+   import, combine, validate

 operator ── run / finalize-partial ──> RemoteRun ── requests ──> provider

 operator ── begin / resume ──> BlindRun ── opens ──> blind capsule
                 finalize ──────────┘ sealed run, receipt ──> calibration

 shell ── command ──> DecideCommands ──┐
 library ── decide ────────────────────┼──> DecisionEngine ──> Contracts
 library or shell ── shadow ──> ShadowMode
                                  |  one resident model
 threads ── prepare / score / close ──> ModelResidency (Saracura, Laya)

 create-identity-calibration, fit ──> AtomicPublication ──┐ one directory
 every loader ──> VerifiedReads <── operator's changes ───┴─> CalibrationStore
```

The chains share the directory discipline and, apart from what the picture
shows, no files; no module composes two of them. What one chain takes from
another is a small promise: `DecideCommands` opens an artifact as one verified
value, which is what `CalibrationStore` shows of a read, and `ShadowMode` has
one resident model per process, which is what `ModelResidency` shows of the slot.

## 2. Modules

| module | models | state | actions |
|---|---|---|---|
| `TrainingSchedule` | windows and epochs, early stopping as a function of the scores | - | - (operators: `After`, `Trained`, `EarliestBest`, `Finished`, `Outcome`) |
| `UninterruptedTraining` | the promise of the loop: a run that is never interrupted | position, outcome | `TrainWindow`, `Return` |
| `TrainingLoop` | `run_optimization` with its resume state | process memory, how far a save has come, the state on disk and the durable one, outcome | `Start`, `Stage`, `Replace`, `SyncDirectory` (as `SaveInitial`, `SaveWindow`, `SaveEpoch`), `TrainWindow`, `Evaluate`, `Return`, `Crash`, `PowerLoss` |
| `OneIdentity` | the promise of the workflow: one claim, progress that never goes back, one export, immutable finals | claimed, progress, exported, published | `Claim`, `Advance`, `Export`, `Publish` |
| `PrivateRun` | admit, train, resume, reload and smoke as processes on one private root | one variable per file or directory, the lock, a program counter and a job per process | one per file-system step |
| `ProviderLedger` | the provider client with its ledger snapshots | ledger in memory and on disk, the request under way, what reached the provider | `Reserve`, `Transport`, `Close`, `Journal`, `Resume` (operators on processes, not yet actions) |
| `CorpusRun` | the corpus command over `ProviderLedger` | program counter and batch per process, resolution and diagnostics files, packet | start, request, answer, retry, fallback, store, project, finish, seal; `Overtaken` |
| `RoleExecution` | `execute_role`, the offline ledger and its reducers, for both lanes | events, bindings, reservations, cases, requests sent, the execution with the lock | begin (settle or prepare), bind, reserve, check, chat, store, commit |
| `BackendCalls` | what the resident backends of a process share | per thread the call it is in; load locks, torch's thread count, defects of the inputs | `Call`, entering and leaving a lock |
| `SaracuraResident`, `LayaResident` | the two backends, stage by stage | attributes of each instance, resident flag, history of refusals and of unlisted errors | one per stage of prepare, score and close |
| `ModelResidency` | both in one process | - | `StartCall`, `Advance` |
| `LetterBridge` | the letter bridge, both protocols | configuration that serves, inference lock, one thread per connection | `Launch`, `Post`, the steps of `Thread`, `Expire`, `HangUp`, `Interrupt` |
| `EvaluatorRun` | the evaluator and the validator against the bridge or another server | phase, cache, rows, attempts, report | the steps of `Evaluator`; another client, another cache user and another writer |
| `NativeServer` | launches of native servers | stage, evidence files, health digest, port | `StartServer`, `Publish`, `Freeze`, `TakePort`, `KillServer` |
| `EvidenceJournal` | runs of the diagnostic and of tasks | journal lines, torn last line, bound evidence, outputs | `Begin`, `Bind`, `CheckJournal`, `AskNext`, `AppendLine`, `Summarize`, `PublishReport`, `Die`, `Restart` |
| `TaskReports` | import, combination and validation of reports | importer, combined report, validations and their temporary | `ImportSummary`, `ImportRecords`, `ImportPublish`, `Combine`, the steps of `Validate`, `KillValidation` |
| `Contracts` | the closed contract of a request, the workflows; calibration artifacts, receipts and their life; what each backend accepts and makes of a reply | - | - (operators) |
| `DecisionEngine` | `decide` for several callers | call, registry, backend, clock | one per gate: resolve, encode, score, refuse, tick |
| `DecideCommands` | every lane of the command line | command, files on disk, answers printed | the openings of each lane in its order, `ReplaceFile` |
| `ShadowMode` | runners, shadow-decide, shadow-evaluate | runner, resident slot, output, summary | `LoadPolicy`, `ReadItem`, `VerifyBinding`, `OpenBackend`, `PrepareBackend`, `DecideItem`, `Project`, `CloseRunner`, `Write`, `Evaluate` |
| `StoredFiles` | a directory of a POSIX file system | names, links, bytes, what is synced, time stamps | - (operators) |
| `AtomicPublication` | both writers of a calibration | step, lane, error and outcome of each writer | one per system call, and its failure |
| `WriteOnce` | the promise of a publication: a write-once register | value, durable, acknowledged | `Put`, `Settle`, `Lose`, `Acknowledge` |
| `VerifiedReads` | a reader of a calibration, capsule or snapshot | step, open file, first look, bytes, values | `Begin`, `List`, `Open`, `Examine`, `Read`, `Compare`, `Relist`, `Conclude` |
| `CalibrationStore` | writers, reader and operator on one directory | edits, outages | the above, `Operator`, `Clock`, `Outage` |
| `RemoteRun` | runs and seals of the remote continuation | claim; directories, files and temporaries; step, rows and bytes in memory of each command | one per step: `Begin`, `Look`, `Link`, `Unlink`, the claim (`LookForClaim`, `LookAgain`, `Take`), `Reserve`, `Send`, `Settle`, `Fail`, the seal (`Seal` to `Validate`), the clean-up, `Kill` |
| `OneExposure` | the promise of the registry for one blind view: one candidate, one result | committed, exposed, result, losses | `Commit`, `Expose`, `Conclude`, `Lose` |
| `BlindRun` | begin-blind, resume-blind and finalize-calibration on the registry | the directory's name and files, what a loss of power leaves of both; lock; step, candidate and files found of each command | `Begin`, `Claim`, `Publish`; `Resume`, `Continue`, `Verify`; `Make`, `SyncDirectory`, `SyncRegistry`, `Open`, `Rename`; `Finalize`; `Stop`, `Cut`, `PowerLoss` |
| `MC*` | values of the constants for TLC | - | - |
| `*Proofs` | theorems (section 4) | - | - |

Composition is by extension: a module of a chain takes the operators of the one
before into its actions, and adds its own state.

```
ProviderLedger -> CorpusRun
BackendCalls   -> SaracuraResident, LayaResident -> ModelResidency
LetterBridge   -> EvaluatorRun
NativeServer   -> EvidenceJournal -> TaskReports
Contracts -> DecisionEngine -> DecideCommands -> ShadowMode
StoredFiles    -> AtomicPublication, VerifiedReads -> CalibrationStore
```

`TrainingLoop` implements `UninterruptedTraining`, `PrivateRun` implements
`OneIdentity`, `BlindRun` implements `OneExposure`, where a loss of power may take
a commitment or a result back, and
`AtomicPublication` (alone and inside `CalibrationStore`) implements `WriteOnce`,
each by an `INSTANCE ... WITH` over what is on disk.
`PrivateRun` does not contain `TrainingLoop`: it takes from it that a run is a
number of boundaries each of which follows from the one before, which is what
`DurableIsCanonical` says and `PrivateTrainingProofs` proves.

Each module also holds definitions marked as mutants: the form a plausible bug
would give to the definition that follows. They are used by nothing; a run in
which one replaces its original must find the property it is listed with in
`PROJECT.json` violated.

### 2.1 How states and actions correspond to the code

*TrainingLoop.* `disk` is what a reader of `resume-state.pt` finds, `durable` what
a loss of power leaves of it at least, `mem` the training state of the process. A
save is three steps, as in `write_resume_state`: the temporary file is written
and synced (`Stage`), it takes the name (`Replace`), and the directory is synced
(`SyncDirectory`), with which the run goes on. A death may fall between any two
of them; a `PowerLoss` takes a replacement back whose directory was not synced,
or does not. Weights are known by the windows that made them, per window the list of
times it was trained: training a window twice, or in a different order than the
random stream gives, is visible. `stream` stands for the random generators, the
optimizer and the schedule, which are saved and restored together. The scores of
the epochs are an arbitrary function fixed in `Init`. `limit` is
`stop_after_steps`, chosen anew by each process.

*PrivateRun.* Each command is a process that goes through its program counter;
one step is one file-system effect, with the checks the code makes right before
it. The lock is the operating system's: a death drops it. A staging directory is
named by the pid, and pids are reused. The content of a tensor file is the
binding it was trained under and its number of steps. `Drift` changes the run
inputs between two reads of them. A refusal (`raise`) ends the command and
leaves the files. `Smoke` is there because a smoke run may occupy a work path
without the lock.

*ProviderLedger and CorpusRun.* A request is known by its call (stage, batch,
row) and attempt. `Replies` is what may come of it: usable, settled but
unusable, lost with its cost unknown, or with a cost the ledger refuses. Every
write of the ledger is one more snapshot, and `disk` is the one that sorts last:
`Wide` is the snapshot number that outgrows the padding of the file names. Both
policies are there: a capped plan raises at the first failure, the report-only
one retries and falls back. A work directory is started under one plan. The look
at the directory and the creation of the next snapshot are two calls: of two
commands one may find its number taken (`Overtaken`), with an error that ends a
command without hard cap and is one more failed request to a capped one. Where a
command writes twice for an overspent cost (`:3959-3970`) it has set its last
record before the second write; there the model leaves the record out.

*RoleExecution.* `exec` is the execution that holds the lock of the artifact
root, and its steps are the writes and the two requests of
`_execute_role_locked` in their order. An executed role that finds the lock
taken, its event already there, or a guard violated returns or raises and
changes nothing: such executions are not actions. An envelope is a value and
which of its gates failed; failure codes are one value, `Failed`. The reducers
(`Stage`, `Verdict`, `Admissible`) are translated one by one, with the floors,
pairs, shares and adjudication limits of the plan as constants; the gold answer
and the target are 1, and the sealed lane has no micro pilot.

*Resident backends.* A thread inside a call is at a step (`at`) of a method on
an instance; `holder` is the thread inside the instance's load lock, which the
next one enters when it is free. The fields of `sar` and `laya` are the attributes the code tests;
`sarSlot` and `layaSlot` are the module-level flags, `cpu` what
`torch.get_num_threads` returns. `defect` fixes for each instance at which stage
of loading its inputs fail; `"unlisted"` is an exception that `laya.py:517` does
not name. `score_universal_choice` prepares, leaves the lock and takes it again,
so that a close may come between. A release is four steps, because the flag is freed and the thread
count restored without a lock around both.

*LetterBridge and EvaluatorRun.* A connection's thread goes through the steps of
`handle`. `late` is set by `Expire` at any moment, and looked at only where the
code reads the clock. Prompts are token counts. The evaluator's process has a
phase; what its client may be told (status, size, form, answer) is the reply
record. A foreign server is one of a set of replies, chosen anew at each
request. The validator is an operator, `Accepts`, over the saved report.

*NativeServer, EvidenceJournal, TaskReports.* A digest is what it is a digest
of. `port` is the process that answers, which may be replaced between any two
rows; `answering` remembers whether the process a run was bound to is still the
same. A journal is a sequence of lines, a torn line is glued to the next one.
The importer reads the journal three times, as the code does, and the file may
grow in between. `temporary` is the one file all validations of a report use.

*Decisions.* A request, an artifact, a reply and a policy are records of what
the gates look at: sizes, forms, ids and labels. `call[c].at` is the gate the
call is at, in the order of `decide`, and any refusal ends it. `registry[c]` is
the mapping of the caller. Probabilities are
numbers of parts out of `Whole`; of a softmax only the order is kept. A backend of
the library's caller may report any number of tokens and any distribution. A
command in a lane opens what the lane opens,
in its order; `ReplaceFile` puts another artifact in the place of the one to be
read. `backend[c]` counts openings and closings, and holds what was verified and
what was loaded. A runner of the library reads its capsule when it prepares; one
of the command has the bytes it verified (`Preparable`).

*Calibration store.* `dir` binds names to inodes, `disk` is the binding a power
loss keeps, `synced` how much of a file it keeps. A writer's step is one system
call, each may fail, and the clean-up that follows a failure is there. A reader
looks (`before`), reads in parts, looks again at descriptor and name, and for a
directory lists the names again. `stamp` has the clock's resolution: two changes
in one tick cannot be told apart.

*RemoteRun.* `claimed` is the claim file: its content is the same for every run
of the lineage with the same inputs, which is the case of interest. `files` are
the four names of an output directory, where a journal is its rows, and a
result, a report and a manifest are what they are computed from. `_atomic` is
three steps, because others look at and remove its temporary. `whole` is false
for a row that was cut; `spoiled` marks an output whose append failed after it
had written something. `at` and the step make a process; a seal may be given at
any time, also while the run goes on (`premature`).

*BlindRun.* There is one released blind view, hence one custody key: `place` is
which of the two names the run's directory has. A file is the candidate it binds
and, from `02-running.json` on, the running state it follows (`run`): that state
has a time of its own, everything after it is recomputed from it, and scores are
deterministic. `whole` is false for a file whose write was cut. `Make` is
`_write_at`, which syncs the file itself; `named` and `kept` are what a loss of
power is sure to leave, and become the present with the syncs of the registry
and of the directory. A loss may or may not keep what was not synced. The staging
directory of the first state has no custody name and is part of `Publish`. The
receipt of a finalisation is external. What the inputs of a command verify to
before the lock is a candidate, `fit`.

## 3. Runs

| run | bounds | properties | what it shows |
|---|---|---|---|
| `training_loop` | 4 epochs of 3 batches (two windows, the second partial), scores 0..2, patience 2, stop limits 0, 1, 4 and none, 2 deaths or losses of power | `LossBounded`, `ImplementsUninterrupted`, `Completes` | whatever the scores, stops and deaths, also in the middle of a save, the durable run is the uninterrupted one, a death or a loss of power costs at most one window, and an operator who goes on gets the result |
| `private_run` | 2 processes, 2 pids, 2 work paths, 2 contents of the inputs, 2 boundaries, 2 deaths, 1 change of the inputs, one smoke path | `MemoryFresh`, `ImplementsIdentity` | one identity, one optimizing process, complete exports, immutable results |
| `private_run_live` | 1 process, 2 deaths, no drift, no smoke | `EventuallyExported` | a claimed run is exported in the end, unless a death separated its result from its export |
| `corpus` | report-only: 2 batches of 2 rows, one batch of 2 rows with 3 attempts, 2 batches with 2 attempts and 2 deaths; hard caps with costs 0 and 2 against a reservation of 1; two commands on one directory, without hard cap and with refused costs, or with hard caps | `Charged`, `NeverRepeated`, `OutcomesOfFinalAttempts`, `FailsClosedOnlyAfterDeath`, `BudgetKept`, `Decided` | charges are never forgotten, nothing of unknown fate is asked again, rows name their final attempts, budgets hold up to the one entry that overspent, and without a death an uncapped packet is decided |
| `roles` | training lane of 4 identities (micro pilot of 2, pilot of 3, pairs, a share), sealed lane of 3 (adjudication limits); 2 grants, 1 death | `OneRequest`, `LedgerReadable`, `VerdictSound`, `ComesToVerdict` | one request per role, readable histories, verdicts that no further outcome could overturn |
| `residency` | 2 threads, 3 calls, 2 Saracura and 2 Laya instances, all sound or one with one of the defects | `SlotsAccounted`, `ScoredWhileResident`, `CallsReturn` | one model per class, no slot lost but to an error the code does not list, nothing scored by a model that was closed or has no slot, no call hangs |
| `bridge` | 2 tasks of one row, 2 attempts, 2 connections, one launch and kill, one request of another client; or a foreign server | `RepliesMatchWork`, `NeverBusyAlone`, `ReadyIsAccepted`, `RunEnds` | the lock, the deadline, the report and its validation |
| `task_reports` | 2 launches, 2 runs, 2 rows, 1 death (also inside a line) and restart, one import, one combination, 2 validations of which one may be killed | `SummaryHonest`, `RecordsBound`, `CombinedAnswered` | what evidence, journal and reports may be trusted for |
| `decision` | one command of each lane, one caller of the library, or two shadow runners; sound and spoiled requests, artifacts, batches and replies; clock 0..2, one replaced file, two tries | `AnswersEarned`, `CalibratedWhileLive`, `ScoredByVerified`, `ShadowWhole` | what is answered, calibrated and recorded was earned, by what was verified; batches are whole, and whoever fails closes its backend and gives the slot back |
| `publication` | 2 writers with either function, files of 2 parts, 1 power loss; a reader of every kind, 2 changes of the directory, clock tick 0..1 | `PublishesOnce`, `ReadsWhatIsThere`, `ReturnedIsOneVersion`, `RefusedOnlyUnfinished` | a publication is a write-once register, and a reader returns one version of what is there |
| `remote` | 2 runs, 2 directories, 1 sealing operator, 2 requests, 2 kills or failed appends; of the two runs one takes the claim and the other meets it before anything is sent, and then there are no faults | `SealedLasts`, `ResultHonest`, `EventuallySealed` | wherever a run or a seal died, the artifact is sealed in the end, stays valid, and accounts for what was sent |
| `blind` | 2 commands at a time, 2 candidates, 3 kills, failing calls or cut writes, 2 losses of power | `FinalizedStands`, `ImplementsExposure`, `EventuallyConcluded` | the view is shown to one candidate of whom there is one result, unless power is lost; what was finalized stays, complete, even then; and a run comes to its seal but for the case of section 3.3 and cut files |

Each module has a type invariant besides, which no configuration names; for the
modules with proofs it is a theorem, and the others hold on these instances.
Some further invariants are proved, and so need no run: `DurableIsCanonical`
(`TrainingLoop`), `SpentOnlyAfterRefusal` (`ModelResidency`), `ClaimPaired`,
`OnlyClaimedWork`, `ExportComplete` (`PrivateRun`), `PilotsComeFirst`, `AdjudicatesDisagreement`, `AnswersEvidenced`,
`NoGoIsFinal` (`RoleExecution`) and `PublishedWhole` (`AtomicPublication`).
`TrainingLoop` and `BlindRun` need no definitions for TLC: their configurations,
`MCTrainingLoop.cfg` and `MCBlindRun.cfg`, are of the modules themselves.

### 3.1 Why the bounds are enough

*Training.* The interesting positions are the first and second window of an
epoch, the partial window, the last epoch and the epoch at which patience runs
out; four epochs with patience two have them all, and three scores have ties,
improvements and losses in every order. Two deaths allow one during the recovery
from another, or a loss of power after a death. *PrivateRun.* Mutual exclusion, a
claim met by another process and
a reused pid need two processes and two pids; two boundaries distinguish the
first, a middle and the last state of a run. *Corpus.* Two batches distinguish
what a batch leaves behind from what it works on, two rows one whose outcome is
known from one that is not, two attempts a first from a last. `MaxSent` and
`MaxSnapshots` are above what these instances reach within a command.
*Roles.* Each selection is properly contained in the next, so that there is an
identity whose turn comes at each gate, and the floors can be met by some
histories and missed by others. *Residency.* A slot is contended by two
instances of a class; a third call lets a thread prepare, be closed by the
other, and try again; the classes share nothing but the thread count. The proofs
have no bound. *Bridge.* Two connections are an evaluator's retry, or another
client, while the first thread is still at work; a request of two questions has
a first and a last letter; two rows and two attempts distinguish a retry from
the next row. *Reports.* Two runs overlap on one journal, two launches replace
each other at the port, two rows are a partial and a whole report, two
validations share the temporary. *Decisions.* Each scenario spoils one gate at a
time, so that no gate is hidden by another; the clock passes the two times at
which a receipt expires and a key is revoked; one replacement separates what
was verified from what is loaded. *Publication.* Two parts distinguish a
half-written file from a whole one; two changes put a version back that was
there before; both functions of the writers meet each other. *Remote.* Two runs
are a winner and a loser of the claim, two directories their own; two requests
are a first and a last; two faults are a kill during the recovery from another.
Runs are interchangeable, and so are directories, so that the one that takes the
claim may be fixed. Faults are left to one run: with two they would only combine,
and the instance would be too large. `Instance` also leaves out two runs that
both get past the claim, which is the second disagreement of section 3.3.
*Blind runs.* Two commands are a
holder of the lock and one that finds it taken, or a run and its resume; two
candidates are the one committed and another; three faults are a begin and two
resumes that die, two losses of power a name undone and an entry that was not
kept. Commands are not bounded in number.

`CHECK_DEADLOCK FALSE` is set where the system really stops: a decided corpus, a
lane that has its verdict, processes and commands that have ended and are
bounded in number. The training models never deadlock (an operator may always
start one more command).

### 3.2 Fairness

*TrainingLoop* (`LoopFairSpec`): weak fairness on the steps of the process, which
the operating system gives; and on `Start` while there is no result, which is
the operator of `train`/`resume`. `Completes` says nothing if from some point on
every process is stopped at limit 0.

*PrivateRun* (`FairSpec`): weak fairness on each process' steps, strong fairness
on a resume of the claimed work, because other commands may hold the lock every
now and then and take it from the operator. The run has no drift of the inputs:
after it a resume is refused, as it should be. `[]~Orphaned` excludes exactly
the interrupted export of section 3.4.

*CorpusRun* (`FairSpec`): weak fairness on starting and on the steps. `Decided`
holds up to a death: after one the command may refuse for good (its resolutions
and its ledger may disagree), which is by design fail-closed.

*RoleExecution* (`FairSpec`): weak fairness on beginning and on the steps; the
driver goes on with whatever role may be executed. `ComesToVerdict` is claimed
for drivers that annotate in order (section 3.4 has what happens otherwise).

*ModelResidency* (`FairSpec`): weak fairness on the steps of each thread that is
inside a call. It is enough for a thread that waits for a load lock because
threads make a bounded number of calls, so that the lock is free from some point
on; Python's locks promise no more.
*EvaluatorRun*: weak fairness on the evaluator, on the bridge's threads (a call
of the model returns) and on the other client reading its reply; none on
launching or killing the server. *RemoteRun* (`FairSpec`): weak fairness on the
steps of each command, since a request ends by its time limit, and strong
fairness on the operator's seal of an output that stopped unsealed. One operator
at a time: two seals of one directory may remove each other's temporaries for
ever. *BlindRun* (`FairSpec`): weak fairness on the steps of each command, and
strong fairness on a resume with the inputs of the begin, which the operator
repeats while commands with other inputs take the lock every now and then. The
others (`ReportsSpec` of `TaskReports`, `DecisionSpec` of `ShadowMode`, which is
also that of the commands and calls, and `CalibrationStore`) have safety
properties only.

### 3.3 What the documents say and the code does not keep

Each of the four is stated as an invariant at the end of its module and listed
in no run. To see one broken, give it to TLC as the invariant of an instance:
`ClosedRestoresThreads` of `ModelResidency` with two sound Saracura instances and
two calls per thread; `SentOnce` of `RemoteRun` under `Spec` with two runs and
two outputs; `OneFit` and `MissingIsReplayed` of `BlindRun` with `MCBlindRun.cfg`.

**Closing a backend does not restore the thread count** when another backend is
prepared between its two steps (`saracura_universal.py:794`). The class promises
that `cpu_threads` is changed "while this backend is prepared" and restored on
close; but the resident slot is freed first, so that the next backend records
the closing one's count as the prior one, loses its own when the closing one
restores, and leaves the recorded one behind: `ClosedRestoresThreads`.

**Two runs of one lineage may both take its claim** and send every request twice
(`universal_remote_resume/runner.py:214`; `universal_remote/runner.py:194` is
the same). `create_claim` refuses a claim that exists, but `_atomic`, which it
calls to create it, looks again and accepts a file of the same bytes, and the
claims of one lineage have the same bytes. Between the two looks the other run
may create it. The specification
(`docs/action/specs/phase4c3c-typesafe-response-contract-recovery.md:543`) says
that a byte-identical claim is consumed and that concurrent creators collide
before any network use; the test of concurrent creators
(`tests/test_universal_remote.py:178`) passes or fails by their timing:
`SentOnce`.

**The blind view may be opened before its claim is durable**
(`human_research.py:2455`). When a command writes `02-running.json` it syncs the
run's directory and the registry before it opens the blind records; a resume
that finds the file does neither. If the begin was killed between the rename to
`<key>.active` and the sync of the registry, and a resume after it wrote the
running state and before its syncs, a second resume scores the view under a name
that a loss of power can take back; a begin with another candidate then scores it
again. The comment at `:2493` ("Only after a durable precommit may the exact
released blind view be opened") and
`docs/action/specs/phase4b-human-ptbr-calibration.md:652` exclude it:
`OneFit`. Two syncs before the view is opened, whoever wrote the
running state, would be enough.

**A run killed just before its descriptor cannot be continued**
(`human_research.py:2294`). The docstring of `_validate_complete_sealed_run`
(`:2322`) sends a run that misses any one file to the incomplete replay, but
`_active_blind_values` knows `03-sealed.json` only in the complete set. Five whole
files without `capsule-descriptor.json` are refused by every resume, and the name
refuses every begin: the blind view is spent without a result:
`MissingIsReplayed`.

### 3.4 Disagreements met while modelling

Each of these is in the model as the code has it, and a property above is
stated so that it holds beside it.

- *An interrupted export cannot be resumed.* The preserved training result holds
  measured durations; a resume measures again and `v02_private_checkpoint.py:473`
  refuses the difference. The test that says otherwise passes the same metrics
  twice.
- *Lineage of another row.* After a cost that the ledger refuses nothing is
  journaled, and `last_journal`, which promises the record of the "immediately
  prior request" (`saracura_universal_corpus.py:3844`), still returns one before
  it (`phase4e_pipeline.py:1487`). The reservation stays open, so that no later
  command starts. `OutcomesOfFinalAttempts` and `FailsClosedOnlyAfterDeath` are
  about the costs that are accepted (`CostsAccepted`); `Charged`, `NeverRepeated`
  and `BudgetKept` about all.
- *A Saracura backend that finds the slot taken cannot be prepared again*, not even
  when the slot is free: verifying its snapshot has consumed the path
  (`saracura_universal.py:875`). `SpentOnlyAfterRefusal` says that nothing else
  does that to sound inputs; it is proved, as `SpentHasReason`.
- *A process that takes the port after the health query* is not noticed by a run
  that is bound already (`full_text_diagnostic.py:768`). `RecordsBound` excepts
  it, by `answering`: it is the only way to a line of another process.
- *The newest snapshot is not the last in order* once numbers have five digits
  (`saracura_universal_corpus.py:3612`).
- *A failed annotator A cannot be settled after annotator B was committed*
  (`v02_corpus.py:2388`): the commit is legal and the replay is not.
- *A READY ledger cannot be sealed*: executor and sealer name the role bindings
  differently (`v02_corpus.py:3475` and `:5088`).
- *The stop of a capped projection is not looked at on a restart*
  (`phase4e_pipeline.py:2618`): the next command pays for one more batch.
- *A preflight of other texts.* In the two older modes a native server compares
  its prepared file with nothing in its own data (`native_server_v3.py:169-188`,
  `:269-312`); only the full legal mode compares the rows' digests. A record may
  name evidence whose preflight was of other texts under the same prepared file,
  so `RecordsBound` says of a request that it is taken whole only where it is
  among those that were preflighted (`TakenWhole`).
- *A validation creates an output*: the comment at `benchmark_v3.py:773` says
  that `combine` is not used, and `:799` uses it with a temporary name; after a
  kill in between every later validation refuses because of that file.
- *A writer killed between link and unlink* leaves an artifact with two links,
  which no reader accepts and whose name is taken (`calibration/io.py`,
  `verified_bytes.py:363`). An error of the directory's fsync is raised
  before an earlier one (`calibration/io.py:442`), where the comment at `:424`
  gives it precedence only if there is none.
- *Labels of a normalized distribution* are taken as they come
  (`runtime/engine.py:355`), where `docs/decisions/0003` has the engine validate
  both mappings; only the adapters of the package compare them with the question.
- *`runtime/engine.py:404`* says that calibrations are resolved before the state
  is serialized; `:292` serializes it first.
- *Julia's weights* are digested when the backend is made and opened again by
  another library when it is prepared (`backends/julia.py:58`, `:140`); the
  `model` of a System One reply is required and compared with nothing.
- *A settlement that fails to be written* is followed by a failure row of the
  same number (`universal_remote_resume/runner.py:958`): if anything of it had
  reached the file, the journal can be read by no seal.
- *A directory whose run died before its claim* is sealed like any other once
  another run has claimed the lineage (`finalize`, `validate_claim`).
- *`cli.py:479`* says that the gates of a request come before any backend is
  constructed; the System One lane constructs its backend first (`:776`).

## 4. Theorems

All proofs are checked by TLAPS from the constants' assumptions alone:
`ScheduleAssumption`, `LoopAssumption`, `RunAssumption`, `NoneAssumption`,
`LedgerAssumption`, `CorpusAssumption`, `RoleAssumption`, `CallsAssumption`,
`SaracuraAssumption`, `LayaAssumption`, `ClassesAssumption`, `EngineAssumption`,
`CommandsAssumption`, `ShadowAssumption`, `FilesAssumption`,
`WritersAssumption`, `StoreAssumption`, `PlansAssumption`, `BridgeAssumption`,
`EvaluatorAssumption`, `ContentAssumption`, `NativeAssumption`,
`JournalAssumption`, `ReportsAssumption`, `BlindAssumption`,
`RemoteAssumption`. They say that counts, budgets and prices are naturals, that
the markers for "absent" are not values, that the two classes of backends
partition the instances, that names and inodes are finitely many and those of
writers, readers and operator distinct, that a plan of a reader is one of those
the code has, that an evaluation has tasks whose published options are answers
and not the marker of none, and that what is read as a list is one. Of a plan of
roles: its selections are nested, its answers are answers, its floors are of
rows of their selection, and where rows have shares one floor asks the whole
lane for the base of the shares; the literals of `v02_corpus.py:2487-2705` do.
Commands begin at the first step of their lane, with the arguments of the shell
and of the library. TLC evaluates all of them in every run that reaches the
module.

Every invariant and action property of section 3 is a theorem, and so is every
refinement. Each is proved from an inductive invariant which TLC checked on the
instance of the run before it was proved.

### 4.1 PrivateTrainingProofs

*The loop.* `LoopInv` adds to the type and to `DurableIsCanonical` that what a
reader finds is durable or one save ahead of it (`OneSaveAhead`), and what the
process holds at each of its steps relative to the two (`LoopInMemory`): after a
start it is what
is on disk, before a save it is the position right after, before an evaluation it
has all windows of the epoch. Without that `DurableIsCanonical` is not inductive:
a save could put anything on disk. From it: `ResumedIsCanonical`,
`DeathCostsOneWindow` and `RefinesUninterrupted`, by which every step is a
window, a return or a stutter of the uninterrupted run.

*The workflow.* The argument is that everything from the check for a new work
directory on is done by the one holder of the lock. So the claim it staged, the
boundary it persisted and the result it recorded are still what it has in memory
at its next step; steps of others are handled by frame lemmas (`BystanderFrame`,
`BystanderOfHolder`). `IInv` says so per process and step (`JobFilled`,
`Claiming`, `InMemory`) and ties results, exports and finals to the claim
(`Completed`). From it `ClaimIsPaired`, `OnlyTheClaimedWork`, `MemoryIsFresh`,
`ExportIsComplete` and `RefinesIdentity`. Reloads take no lock; their part of
the invariant rests on exports that never change once published.

### 4.2 CorpusRunProofs

The steps of a command are first described by what they do to its ledger, its
batch and the files (`StartMove` to `SaveMove`, and `OvertakenMoves` for a lost
number), so that the invariants are
proved about these few descriptions. Then there are four of them.

`ChargeInv`: every entry of every ledger is paid for, and while snapshots sort
by their number (`written <= Wide`) a request that may have reached the provider
has its entry in the last of them. It is about any number of commands: a snapshot
has to extend the last one. Hence `ChargedHolds`.

`RunInv`, for one command at a time: what it holds is what it wrote (`Synced`),
entries have different ids, the entry under way is the last one (`UnderWay`), the
requests sent are of batches in their order (`Confined`), and a call about to be
made is new or was only answered malformed (`Fresh`). Hence
`NeverRepeatedHolds`.

`TidyInv`, with the costs the ledger accepts: the journal has a record of every
entry but the one under way, of resolved batches or of the one under way
(`Journaled`, `Places`); the client's last record is the last on file (`LastIs`);
the rows under way name the final requests of their calls (`Named`), and an
uncertain entry is bound by the rows rejected for it, on file or in memory
(`Lost`). Hence `OutcomesOfFinalAttemptsHolds` and
`FailsClosedOnlyAfterDeathHolds`.

`BudgetInv`, for any number of commands and without a bound on the snapshots:
every ledger is in budget, and the entry of an open request is its last one and
has no other of its id. The sums of debits are the library's recursion over the
parts of a set, which `SumExists`, `SumUnique` and `SumAnyOrder` determine by
looking at the smallest part for which it would not hold; so adding an entry adds
its debit (`SumAdds`), and closing the last one changes no sum before it. Hence
`BudgetKeptHolds`.

### 4.3 RoleExecutionProofs

While an execution holds the lock nobody else commits, so what it found legal
and admissible when it began still is when it asks and when it commits (`Open`).
A reservation comes before its request and is never taken back (`Fresh`): hence
`NoSecondRequest`. A reservation holds what its role and environment are bound
to (`ReservedBound`), and an answer on its way to the ledger has its request,
its reservation and, for an author, its case (`InHand`): hence
`AnswersHaveEvidence`. An identity that is resolved takes no event more
(`ResolvedIsClosed`), and the status of a selection depends on its own histories
only (`StageLocal`): hence a pilot that passed stays so whatever happens outside
of it, and `PilotsFirst`. `OnlyDisagreements` needs in addition that a
replayable history has one answer per role, which later events of other roles
leave as it is (`LabelStays`). `NoGoStays` is an action property from `Open`.
`VerdictsRight` is about the reducers and needs no more than types: what may
still become of an open identity bounds every count from both sides, so that a
verdict of impossibility excludes each outcome, and a lane without open
identities meets its floors, limits, pairs and shares or does not. For the
shares that needs the assumption on the plan's base: a share is a percentage of
rows the floors ask for.

### 4.4 RuntimeProofs

*Resident backends.* `SlotsAccounted` relates a flag to the instances, but between two of its steps a
thread has taken the flag and recorded nothing yet, or given it up and not
forgotten its model. `IInv` therefore speaks of an instance by what the one
thread inside its load lock is doing to it (`Where`, `Doing`): the lock makes
that thread unique (`Control`), so the attributes of an instance are a function
of its step plus what the step before left. `SaracuraOK` and `LayaOK` say so
stage by stage, `SaracuraSlot` and `LayaSlot` compare the flags with the
instances that own one. A step of one instance leaves the others as they are
(`SaracuraMove`, `SaracuraPass` and their Laya counterparts), and two instances
of one class meet only at the flag, which is tested and set in one step.
`SpentHasReason` uses in addition that `refused` only grows; `ScoresAreResident`
is about the one thread inside the load lock. The theorems are
for any number of threads, instances and calls, and any defects.

*Decisions.* `DecisionInv` says per caller what its call, its backend, its
command or its runner hold at their step (`CallOk`, `LoadedOk`, `CommandOk`,
`RunnerOk`): behind each gate the request is one that passes it; each calibration
that was resolved is the caller's for that question, of its context, and was live
at a moment of the call (`Genuine`); each answer so far was earned
from the scores; and a batch has the records of its first items, in order. `HeldOk` says of
a runner, by its step, whether its backend is open and may hold the slot. Every
caller steps alone but for the clock, the files and the resident slot, so that
one lemma per step and one that the others are left alone are enough. Hence
`AnswersAreEarned`, `CalibratedWasLive`, `VerifiedBytesScore` and `BatchesWhole`,
for any callers, requests, artifacts and batches.

### 4.5 StoreProofs

*Publication.* `Inv` orders the writer's system calls: a temporary name is bound
to the writer's own file only, a file is whole and synced from its fsync on, and
the artifact's name is bound to a file only from then on. Whoever reports a
creation owns the name, on disk too. From it `PublishedIsWhole`, and
`PublicationRefines`: a link is `Put`, the sync of the directory `Settle`, a
power loss `Lose` or a stutter, a report `Acknowledge`.

*Store.* With readers and an operator on the same directory the writers'
invariant has to survive changes it does not make: it does because writers'
files are not the operator's (`StoreAssumption`), for which `StoreInvariant`
carries the separation. For the reader it carries what was seen at the first
look (`before`) and, for every part read since, that it is what the file held
then or that the stamp has moved. A step of anybody is `Stamped` (a change
stamps its file with the present tick) or an outage, which ends the reader.
Hence `ReadsHold`: an identity that is equal at both looks and older than the
tick means that nothing changed between them. `ReturnedHolds` follows for
directories from the digests by which the manifest binds the other files, and
for a published calibration from `PublishedWhole`; `RefusalHolds` from the order
of link and unlink. `StorePublishes` is the refinement again, in the composition.

### 4.6 ResearchProofs

*Evaluator.* `Connection` says of the thread of each connection, by its step, who holds the
inference lock, what it has read and that it has no reply yet; `Quiet` that a
step of the server starts no connection and tells nobody that it is busy. Then
`Alone`: without another client, and without an evaluator that gave up on an
earlier connection, the only connection that is not free is the evaluator's own,
so that whoever finds the lock taken is not the evaluator (`AloneNeverBusy`).
`ItemsInv` relates each item to its row and `Agrees` the answer to the work that
was asked for (`RepliesAgree`); a report marked ready on the Hub's splits is
therefore one the validator accepts (`ReadyReports`).

*Reports.* Journals only grow, but for a line that was cut, to which the next
one is glued (`Grows`); what was read of one earlier is therefore still at its
beginning (`Begins`), and that is what a summary, the importer between its two
readings and an imported report hold (`OutputOk`, `ImportOk`). A decision of a
report is on record in some journal for the checkpoint of the report
(`OnRecord`, `Backed`). `TasksInv` adds what a run holds of its evidence at each
step (`ControlOk`, `InHand`): a run that looked has not lost the process it is
bound to as long as `answering` says so, and the process that serves has passed
its preflight (`ServersOk`). Hence `SummariesAreHonest`, `RecordsAreBound` and
`CombinedIsAnswered`, for any number of launches, runs, journals and validations.

### 4.7 BlindRunProofs

While a command has the lock every other one is at rest, so its step says which
files it has found, made or compared and under which name the directory is
(`Control`, `StepPlace`, `StepFiles`). That covers kills and failing calls; a
loss of power needs in addition what the disk keeps (`Lasting`): the commitment
is kept as long as the name is, and the directory is given the sealed name only
when all its files are. `Reported` ties a report to an exposure of its
candidate, and `Standing` says what a finalized calibration rests on: the sealed
name, all files, and that both are kept. Without the last two `FinalizedStands`
is not inductive, for a loss of power could take back either. For the
refinement the creation of the directory is `Commit`, the opening of the view
`Expose`, the rename `Conclude`, and a loss of power `Lose` or a stutter; every
other step is a stutter. Hence `FinalizedIsForGood` and `RegistryRefines`, for
any number of commands, candidates, kills and losses of power.

### 4.8 RemoteRunProofs

Two invariants, the second on top of the first. `Seals`: an output has at most
one run that may still write its journal or remove it (`Alone`), since a run
makes its directory and nobody else can while it is there; nobody is such a run
for an output whose rows have been read, unless the reader met one (`Reading`);
and then no file of a validated output changes, for what is there is never
replaced (`Lasting`). Contents do not matter for it. `Evidence` is about them:
what was sent has a reservation in the journal, a row that settles a request is
of one that was sent once and answered (`Backed`), nothing is sent before the
claim (`Early`), and the run has in memory the journal on disk, with requests 1
to n, until an append fails (`InHand`); so that it never reserves a request a
second time. From `Seals` follows `SealsLast`, from both `ResultIsHonest`. The
instance that TLC checks orders the runs and restricts their faults
(`MCRemoteRun`); the theorems are about `Spec` without those restrictions.

### 4.9 Only model-checked

Liveness (`Completes`, `EventuallyExported`, `Decided`, `ComesToVerdict`,
`CallsReturn`, `RunEnds`, `EventuallySealed`, `EventuallyConcluded`) is outside of
this prover's reach, as is everything that needs ENABLED: these eight are checked
on the instances of section 3 only.

## 5. Abstractions, and what they hide

- Diagnostic counters, reports, prompt and schema text, digests, rights and
  runtime validation of documents: values that are compared for equality or
  checked once, and represented by their identity.
- The projection of a capped corpus stops on a statistical bound; the model
  stops, or not, at each multiple of `ProjectEvery`, which covers both outcomes.
- A corpus whose packet was decided is not started again.
- With two corpus commands on one directory both may send the same request
  before either writes its ledger; `NeverRepeated` is therefore stated of one
  process.
- Snapshots from number `Wide` on do not sort last (section 3.4). The theorems on
  what the last snapshot holds are about the first `Wide` snapshots, 10000 in the
  code, which are those TLC reaches too; `BudgetKeptHolds` has no such condition.
- A half-written export directory, safetensors layouts and the numeric proof of
  a reload are one file each.
- An execution of a role that fails before its first write leaves nothing and is
  no action, so the model does not show that it is reported.
- Tensors, tokens and weights either fit or do not. A stage of loading is one
  step even where it reads several files; what happens to those files in between
  is in `VerifiedReads`.
- Prompts, texts and requests of the bridge and of the native servers are token
  counts; a generation ends in one of a few letters or in other text. The
  servers' own state and the models are external.
- Floating point is a number of parts out of a whole, and a tolerance a number
  of parts: rounding is not shown.
- Timing, token usage, messages and the wording of errors are left out of the
  decisions; error codes are one refusal, except where two gates are told apart
  by what has been opened before.
- Snapshots, resolutions and diagnostics of the corpus are written or not; a full
  disk or a lack of rights, which the code meets with whatever the system raises,
  is not among the failures, but for the lost race of two commands.
- A seal of the remote run lists a directory, validates the claim and reads the
  journal in one step: a journal that changed in between is that of a run which
  goes on, and the seal premature.
- An open of the blind view that finds it below its minimum or bound to other
  packets (`human_research.py:2497-2509`) refuses for good, whoever repeats it.
  That is a condition of the data, and the model's view is a good one; `Stop` is
  any other failure there.
- A directory has one level, and parents keep the modes the plan gives them.

## 6. Not modelled

- *The resource monitor* of the managed CUDA evidence has state worth modelling
  and could be, as a chain of its own; no property here says anything about it.
- *The human research lane before its blind run* (packets, releases, embeddings,
  heads, fits) publishes one capsule per command, by the stage and rename that
  `BlindRun` has for its first state, from inputs that are verified whole.
- *The predecessor of the remote continuation* (`universal_remote`) has the same
  protocol; a loss of power is not modelled for either, and the halt on budget
  cannot happen once the preflight has found the whole run affordable.
- *Phase 4E pilot and recovery lane* would be a second client of
  `ProviderLedger` and a second work directory of `CorpusRun`; the comparison
  has a small ledger of its own. Candidate releases and acquisitions are
  publications by rename of several files, of the kind of `AtomicPublication`.
- *Teacher generation* is two scripts of the research directory, a pool over one
  file; a model of it would share nothing with the others.
- *The v02 capsule trainer* is the predecessor of the private one.
- *Universal ranker, evaluation, training arithmetic, comparison, statistics*:
  functions of one input whose values TLC does not tell apart.
- *Schema cache, packets, data policy, repository validators, benchmark harness,
  native benchmarks, remaining scripts*: sequential, with at most create-only
  reports.

Parts marked partly modelled in `PROJECT.json` name there what is left out: the
layout of exports, prompts and packet rows, the sealer, the error envelope,
rendering and tokenization, and the fit of a temperature.

## 7. What could come next

In order of what it would add: the recovery lane over `CorpusRun`; the resource
monitor of the managed CUDA evidence.
