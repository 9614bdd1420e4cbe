-------------------------- MODULE EvidenceJournal --------------------------
(***************************************************************************)
(* Runs against a server: full_text_diagnostic.py run ("pairs") and        *)
(* benchmark_v3.py run-task ("task").  A run opens its journal for         *)
(* appending without a lock, so that several may append to one; a run may  *)
(* be killed in the middle of a line and started again.                    *)
(***************************************************************************)
EXTENDS NativeServer

CONSTANTS
    Runs,           \* processes that append to a journal
    Journals,       \* the journals' names
    Scenarios,      \* what the operator starts, and the files there are
    Labels,         \* keys of a question's options
    NoLabel,        \* no prediction
    ServerReplies,  \* what may come back from a server, for each row
    Bridges,        \* health of servers that are not launched here
    TaskRows,       \* rows of a task (599, 893)
    AffectedRows,   \* legal rows longer than the prefix (429)
    MaxDeaths       \* bound on kills of runs

ASSUME JournalAssumption ==
    /\ NoLabel \notin Labels
    /\ {TaskRows, AffectedRows, MaxDeaths} \subseteq Nat
    /\ Launches \cap Bridges = {}

VARIABLES
    arguments,  \* of each run
    progress,   \* of each run: "absent", "idle", "bind", "check", "ask",
                \* "append", "publish", "done", "refused", "dead"
    bound,      \* the evidence it has loaded, or NoOne
    prior,      \* keys the journal had when it was validated
    record,     \* the line it is about to append
    rows,       \* the decisions a task run keeps in memory
    journal,    \* the lines of each journal
    torn,       \* its last line has no newline
    outputs,    \* the file each run publishes
    answering,  \* history: the process a run was bound to is still there
    deaths

journalVars == <<arguments, progress, bound, prior, record, rows, journal, torn,
             outputs, answering, deaths>>

Nothing == [format |-> "none"]

InitRuns(s) ==
    /\ InitNative(s.configs, s.evidence, s.port)
    /\ arguments = s.runs
    /\ progress = [r \in Runs |-> IF s.runs[r].command = "none"
                               THEN "absent" ELSE "idle"]
    /\ bound = [r \in Runs |-> NoOne]
    /\ prior = [r \in Runs |-> {}]
    /\ record = [r \in Runs |-> Nothing]
    /\ rows = [r \in Runs |-> <<>>]
    /\ journal = [j \in Journals |-> <<>>]
    /\ torn = [j \in Journals |-> FALSE]
    /\ outputs = [r \in Runs |-> Nothing]
    /\ answering = [r \in Runs |-> FALSE]
    /\ deaths = 0

-----------------------------------------------------------------------------
(* Prepared files and keys *)

Modes == {"v1legacydiag", "v3legalfull", "v3camara"}

\* Each row has its criteria, and the counts are the published ones.
LegacyRows(data) == Len(data) = TaskRows /\ \A i \in DOMAIN data : data[i].options
TopicRows(data) == Len(data) = TaskRows /\ \A i \in DOMAIN data : data[i].options

Affected(data) == Cardinality({i \in DOMAIN data : data[i].tokens > Prefix})

\* prepare: the rows and the order of each one's options, with digests.
Prepared(mode, data) ==
    [mode |-> mode, genuine |-> TRUE, source |-> data, rows |-> data]

FrozenRows(p) == \A i \in DOMAIN p.rows : p.rows[i].options

PreparedLegal(p) ==
    /\ p.genuine
    /\ p.mode \in Modes
    /\ Len(p.rows) = TaskRows
    /\ FrozenRows(p)

\* The rows and their orders, replayed from the source.
RowsMatch(p, data) ==
    /\ p.source = data
    /\ IF p.mode = "v3camara" THEN TopicRows(data)
       ELSE LegacyRows(data) /\ Affected(data) = AffectedRows
    /\ p.rows = data

\* The questions of a task run: every row, its options in the frozen order.
CamaraQuestions(data) == FullRequests(data)
LegalQuestions(data) == FullRequests(data)

\* A diagnostic asks what was prepared, a task run every row up to --limit.
Asked(a) ==
    LET all == IF a.task = "camara_tema" THEN CamaraQuestions(a.data)
               ELSE LegalQuestions(a.data)
    IN  IF a.command = "pairs" THEN Requests(a)
        ELSE IF a.limit = 0 THEN all ELSE SubSeq(all, 1, a.limit)

Keys(a) == [i \in DOMAIN Asked(a) |-> <<Asked(a)[i].index, Asked(a)[i].arm>>]

\* What every line of a run repeats.
Identity(a, e) == [model |-> a.model, checkpoint |-> a.checkpoint,
                   prepared |-> a.prepared, evidence |-> e]

-----------------------------------------------------------------------------
(* The binding to a live server *)

EvidenceLegal(e, a) == e # NoOne /\ e.checkpoint = a.checkpoint /\ e.checked

\* A bridge sends no digest: the health that was pinned is compared.
LiveLlm(body, e) ==
    /\ e.health # NoOne
    /\ body = e.health
    /\ body.checkpoint = e.checkpoint
    /\ body.context = e.context

\* Mutant: any server that carries a digest is the one.
LiveAny(e) == port \in Launches \/ (port \in Bridges /\ LiveLlm(port, e))

Live(e) ==
    \/ port \in Launches /\ digest[port] = e
    \/ port \in Bridges /\ LiveLlm(port, e)

-----------------------------------------------------------------------------
(* The strict decoder: what a reply predicts, or NoLabel *)

Prediction(reply) ==
    IF \/ reply.form # "ok"
       \/ reply.flagged
       \/ reply.choice \notin Labels \cup {NoLabel}
       \/ reply.choice # NoLabel /\ reply.best # {}
                                 /\ reply.choice \notin reply.best
    THEN NoLabel
    ELSE IF reply.choice # NoLabel \/ reply.best = {} THEN reply.choice
    ELSE CHOOSE x \in reply.best : TRUE

-----------------------------------------------------------------------------
(* The journal *)

LineLegal(line, a, e) ==
    /\ line.format = "pairs"
    /\ line.key \in ToSet(Keys(a))
    /\ line.identity = Identity(a, e)
    /\ line.prediction \in Labels

\* Mutant: duplicates are let through.
AllowDuplicates(lines) == TRUE

NoDuplicates(lines) ==
    \A i, k \in DOMAIN lines : lines[i].key = lines[k].key => i = k

\* validate_journal: one bad line refuses the whole journal, for ever.
JournalLegal(j, a, e) ==
    /\ ~torn[j]
    /\ \A i \in DOMAIN journal[j] : LineLegal(journal[j][i], a, e)
    /\ NoDuplicates(journal[j])

Recorded(j) == {journal[j][i].key : i \in DOMAIN journal[j]}

Whole(j, a, e) == JournalLegal(j, a, e) /\ Recorded(j) = ToSet(Keys(a))

\* A line written after one without a newline continues it.
Glued(lines, line) ==
    [format |-> "glued", parts |-> Last(lines).parts \cup {line}]

Extended(j, line) ==
    IF torn[j] THEN Append(Front(journal[j]), Glued(journal[j], line))
    ELSE Append(journal[j], line)

-----------------------------------------------------------------------------
(* A run *)

Go(r, to) == progress' = [progress EXCEPT ![r] = to]

\* A process that is over keeps nothing.
ForgetRun(r) ==
    /\ bound' = [bound EXCEPT ![r] = NoOne]
    /\ prior' = [prior EXCEPT ![r] = {}]
    /\ rows' = [rows EXCEPT ![r] = <<>>]
    /\ answering' = [answering EXCEPT ![r] = FALSE]

\* The frozen data of a task run, of the published size.
DataLegal(a) ==
    IF a.task = "camara_tema" THEN TopicRows(a.data) ELSE LegacyRows(a.data)

Admitted(r) ==
    LET a == arguments[r] IN
    /\ a.command = "task" => DataLegal(a)
    /\ a.command = "pairs" => /\ PreparedLegal(a.prepared)
                              /\ a.prepared.mode # "v3legalfull"
                              /\ RowsMatch(a.prepared, a.data)
    /\ a.path # NoOne => EvidenceLegal(published[a.path], a)

\* A task run without evidence is self-reported and bound to nothing.
Begin(r) ==
    /\ progress[r] = "idle"
    /\ IF ~Admitted(r) THEN Go(r, "refused") /\ UNCHANGED bound
       ELSE IF arguments[r].path = NoOne THEN Go(r, "check") /\ UNCHANGED bound
       ELSE /\ bound' = [bound EXCEPT ![r] = published[arguments[r].path]]
            /\ Go(r, "bind")
    /\ UNCHANGED <<nativeVars, arguments, prior, record, rows, journal, torn,
                   outputs, answering, deaths>>

Bind(r) ==
    /\ progress[r] = "bind"
    /\ IF Live(bound[r])
       THEN Go(r, "check") /\ answering' = [answering EXCEPT ![r] = TRUE]
       ELSE Go(r, "refused") /\ UNCHANGED answering
    /\ UNCHANGED <<nativeVars, arguments, bound, prior, record, rows, journal,
                   torn, outputs, deaths>>

\* The journal of a task run must not exist, that of a diagnostic is resumed.
Resumable(r) == LET j == arguments[r].journal IN
    IF arguments[r].command = "pairs" THEN JournalLegal(j, arguments[r], bound[r])
    ELSE journal[j] = <<>>

\* Once, before the first request.
CheckJournal(r) ==
    /\ progress[r] = "check"
    /\ IF Resumable(r)
       THEN /\ prior' = [prior EXCEPT ![r] = Recorded(arguments[r].journal)]
            /\ Go(r, "ask")
       ELSE Go(r, "refused") /\ UNCHANGED prior
    /\ UNCHANGED <<nativeVars, arguments, bound, record, rows, journal, torn,
                   outputs, answering, deaths>>

\* The keys it has still to ask, in order.
Remaining(r) ==
    LET past == prior[r] \cup {rows[r][i].key : i \in DOMAIN rows[r]} IN
    SelectSeq(Keys(arguments[r]), LAMBDA k : k \notin past)

\* Whether the process at the port is the one the run's evidence is of, and
\* takes a request as sent if it was preflighted for it.
ItsEvidence(r) ==
    IF port \in Launches THEN digest[port] = bound[r]
    ELSE port = bound[r].health

TakenWhole(r, key) ==
    \/ port \notin Launches
    \/ \A q \in ToSet(Asked(arguments[r])) \cap ToSet(Requests(config[port])) :
          <<q.index, q.arm>> = key => Width(q) <= Takes(config[port])

Line(r, key, reply) ==
    [format |-> arguments[r].command, key |-> key,
     prediction |-> Prediction(reply),
     identity |-> Identity(arguments[r], bound[r]),
     faithful |-> answering[r] => ItsEvidence(r) /\ TakenWhole(r, key)]

\* One request, never repeated; no server is an error like any other.
AskNext(r) ==
    /\ progress[r] = "ask"
    /\ Remaining(r) # <<>>
    /\ \E reply \in ServerReplies[Remaining(r)[1][1]] :
          /\ port = NoOne => reply.form = "unreachable"
          /\ record' = [record EXCEPT ![r] = Line(r, Remaining(r)[1], reply)]
    /\ Go(r, "append")
    /\ UNCHANGED <<nativeVars, arguments, bound, prior, rows, journal, torn,
                   outputs, answering, deaths>>

\* append_jsonl: a failed attempt is recorded too, and ends the run.
AppendLine(r) ==
    /\ progress[r] = "append"
    /\ journal' = [journal EXCEPT ![arguments[r].journal] =
                      Extended(arguments[r].journal, record[r])]
    /\ torn' = [torn EXCEPT ![arguments[r].journal] = FALSE]
    /\ record' = [record EXCEPT ![r] = Nothing]
    /\ IF record[r].prediction = NoLabel
       THEN Go(r, "refused") /\ ForgetRun(r)
       ELSE /\ Go(r, "ask")
            /\ rows' = [rows EXCEPT ![r] = Append(@, record[r])]
            /\ UNCHANGED <<bound, prior, answering>>
    /\ UNCHANGED <<nativeVars, arguments, outputs, deaths>>

\* Killed anywhere; in the middle of a line, its beginning stays.
Die(r) ==
    /\ progress[r] \in {"bind", "check", "ask", "append", "publish"}
    /\ deaths < MaxDeaths
    /\ deaths' = deaths + 1
    /\ Go(r, "dead")
    /\ LET j == arguments[r].journal IN
       \/ UNCHANGED <<journal, torn>>
       \/ /\ progress[r] = "append"
          /\ journal' = [journal EXCEPT ![j] =
                IF torn[j] THEN @ ELSE Append(@, [format |-> "glued", parts |-> {}])]
          /\ torn' = [torn EXCEPT ![j] = TRUE]
    /\ record' = [record EXCEPT ![r] = Nothing]
    /\ ForgetRun(r)
    /\ UNCHANGED <<nativeVars, arguments, outputs>>

\* The operator starts the same command again.
Restart(r) ==
    /\ progress[r] = "dead"
    /\ Go(r, "idle")
    /\ UNCHANGED <<nativeVars, arguments, bound, prior, record, rows, journal,
                   torn, outputs, answering, deaths>>

-----------------------------------------------------------------------------
(* What a run publishes *)

\* Predictions by key: what the metrics are computed from.
Answers(lines) ==
    [k \in {lines[i].key : i \in DOMAIN lines} |->
        lines[CHOOSE i \in DOMAIN lines : lines[i].key = k].prediction]

\* summarize validates the whole journal once more.
Summarize(r) ==
    /\ progress[r] = "ask"
    /\ arguments[r].command = "pairs"
    /\ Remaining(r) = <<>>
    /\ IF Whole(arguments[r].journal, arguments[r], bound[r])
       THEN /\ outputs' = [outputs EXCEPT ![r] =
                 [format |-> "summary",
                  answers |-> Answers(journal[arguments[r].journal]),
                  identity |-> Identity(arguments[r], bound[r])]]
            /\ Go(r, "done")
       ELSE Go(r, "refused") /\ UNCHANGED outputs
    /\ ForgetRun(r)
    /\ UNCHANGED <<nativeVars, arguments, record, journal, torn, deaths>>

\* Answers that are right; the published scores are computed from them.
Score(decisions, data) ==
    Cardinality({i \in DOMAIN decisions :
                    decisions[i].prediction = data[i].gold})

\* What _task_report says of a task run, from the decisions in memory.
Report(a, decisions, binding) ==
    [format |-> "report", task |-> a.task, checkpoint |-> a.checkpoint,
     source |-> a.data, rows |-> decisions,
     complete |-> Len(decisions) = Len(a.data), server |-> binding,
     score |-> Score(decisions, a.data)]

PublishReport(r) ==
    /\ progress[r] = "ask"
    /\ arguments[r].command = "task"
    /\ Remaining(r) = <<>>
    /\ outputs' = [outputs EXCEPT ![r] =
           Report(arguments[r], rows[r], IF bound[r] = NoOne THEN "self-reported"
                                    ELSE "strict-live")]
    /\ Go(r, "done")
    /\ ForgetRun(r)
    /\ UNCHANGED <<nativeVars, arguments, record, journal, torn, deaths>>

RunStep(r) ==
    \/ Begin(r) \/ Bind(r) \/ CheckJournal(r) \/ AskNext(r) \/ AppendLine(r)
    \/ Summarize(r) \/ PublishReport(r)

-----------------------------------------------------------------------------
(* Servers under the runs *)

Others == <<arguments, progress, bound, prior, record, rows, journal, torn, outputs,
            deaths>>

\* A run is bound to the process it has asked, whatever comes to the port.
StillAnswering ==
    answering' = [r \in Runs |-> answering[r] /\ port' = port]

ServerStep ==
    /\ \E l \in Launches : LaunchStep(l) \/ KillServer(l)
    /\ StillAnswering
    /\ UNCHANGED Others

\* A server that is not launched by native_server_v3 takes or leaves the port.
Swap ==
    /\ port \notin Launches
    /\ port' \in (Bridges \cup {NoOne}) \ {port}
    /\ \E r \in Runs : progress[r] \in {"idle", "bind", "ask"}
    /\ StillAnswering
    /\ UNCHANGED <<stage, config, digest, published, Others>>
=============================================================================
