---------------------------- MODULE TaskReports ----------------------------
(***************************************************************************)
(* research/benchmark_v3.py over the files that runs leave: a strict       *)
(* journal imported as a report, the reports combined with an original one *)
(* into the seven tasks, and reports validated by rebuilding them.  Every  *)
(* output is linked into place once; the temporary of a validation is not  *)
(* its own but shared by all validations of one report.                    *)
(***************************************************************************)
EXTENDS EvidenceJournal

CONSTANTS
    Validators,     \* processes that validate the combined report
    MaxKills        \* bound on validations killed

\* A list, whatever it is of.
Listed(s) == s \in Seq(ToSet(s))

ASSUME ReportsAssumption ==
    /\ MaxKills \in Nat
    /\ \A s \in Scenarios :
          /\ s.port \in Bridges \cup {NoOne}
          /\ \A l \in Launches : \A q \in ToSet(Requests(s.configs[l])) :
                q.tokens \in Nat
          /\ \A r \in Runs : /\ s.runs[r].command \in {"none", "pairs", "task"}
                             /\ s.runs[r].journal \in Journals
          /\ s.import.journal \in Journals
          /\ Listed(s.combine.camaraData) /\ Listed(s.combine.legalData)

VARIABLES
    importer,   \* "idle", "once", "twice", "done", "refused"
    given,      \* its arguments
    imported,   \* the predictions it has read from the journal, then its report
    inputs,     \* arguments of combine, and of each validation
    combined,   \* the combined report
    checking,   \* of each validation: "idle", "build", "built", "read",
                \* "passed", "failed", "clear", "killed"
    verdict,    \* what it will report once it has cleared up
    temporary,  \* the file .<report>.validate.tmp
    kills

reportVars == <<importer, given, imported, inputs, combined, checking,
                verdict, temporary, kills>>
taskVars == <<nativeVars, journalVars, reportVars>>

InitReports(s) ==
    /\ importer = "idle"
    /\ given = s.import
    /\ imported = Nothing
    /\ inputs = s.combine
    /\ combined = Nothing
    /\ checking = [v \in Validators |-> "idle"]
    /\ verdict = [v \in Validators |-> "failed"]
    /\ temporary = Nothing
    /\ kills = 0

ReportsInit == \E s \in Scenarios : InitRuns(s) /\ InitReports(s)

-----------------------------------------------------------------------------
(* from-strict-journal: the journal is read three times *)

ImportLegal ==
    /\ PreparedLegal(given.prepared)
    /\ given.prepared.mode = "v3camara"
    /\ RowsMatch(given.prepared, given.data)
    /\ EvidenceLegal(published[given.path], given)

ImportsWhole == Whole(given.journal, given, published[given.path])

\* summarize.
ImportSummary ==
    /\ importer = "idle"
    /\ given.command = "pairs"
    /\ \E r \in Runs : arguments[r].journal = given.journal /\ outputs[r] # Nothing
    /\ importer' = IF ImportLegal /\ ImportsWhole THEN "once" ELSE "refused"
    /\ UNCHANGED <<nativeVars, journalVars, given, imported, inputs, combined,
                   checking, verdict, temporary, kills>>

\* validate_journal again, for the records.
ImportRecords ==
    /\ importer = "once"
    /\ IF ImportsWhole
       THEN importer' = "twice" /\ imported' = Answers(journal[given.journal])
       ELSE importer' = "refused" /\ UNCHANGED imported
    /\ UNCHANGED <<nativeVars, journalVars, given, inputs, combined, checking,
                   verdict, temporary, kills>>

\* The decisions in the order of the rows, whatever the journal's order.
Decisions(answers) ==
    [i \in DOMAIN given.data |->
        [key |-> <<i, "full">>, prediction |-> answers[<<i, "full">>]]]

\* The bytes whose digest the report carries are those of a third read.
ImportPublish ==
    LET whole == Report(given, Decisions(imported), "strict-journal-import") IN
    /\ importer = "twice"
    /\ importer' = "done"
    /\ imported' = [x \in DOMAIN whole \cup {"journal"} |->
                       CASE x = "format" -> "imported"
                         [] x = "journal" -> journal[given.journal]
                         [] OTHER -> whole[x]]
    /\ UNCHANGED <<nativeVars, journalVars, given, inputs, combined, checking,
                   verdict, temporary, kills>>

-----------------------------------------------------------------------------
(* combine *)

ReportAt(from) == IF from \in Runs THEN outputs[from]
                  ELSE IF from = "import" /\ importer = "done" THEN imported
                  ELSE Nothing

\* A row of a report against the frozen row it is of.
DecisionLegal(report, data, i) ==
    /\ report.rows[i].key = <<i, "full">>
    /\ report.rows[i].prediction \in Labels

\* Mutant: the rows there are, are enough.
RowsLegal(report, task, data) ==
    /\ report.format \in {"report", "imported"}
    /\ report.task = task
    /\ report.source = data
    /\ \A i \in DOMAIN report.rows : DecisionLegal(report, data, i)

\* _validate_report with complete=True.
ReportLegal(report, task, data) ==
    /\ report.format \in {"report", "imported"}
    /\ report.task = task
    /\ report.source = data
    /\ report.complete
    /\ Len(report.rows) = Len(data)
    /\ \A i \in DOMAIN data : DecisionLegal(report, data, i)
    /\ report.score = Score(report.rows, data)

\* The original report of seven tasks, of five of which the rows are reused.
LegacyLegal(report) == report.tasks = 7 /\ report.failed = 0

SameCheckpoint(a, b) == a.id = b.id /\ a.revision = b.revision

ProtocolLegal(p) == p.legal \in {"prefix3500", "full"}

NeedsLegal == inputs.protocol.legal = "full"

Combinable(camara, legal) ==
    /\ ProtocolLegal(inputs.protocol)
    /\ LegacyLegal(inputs.legacy)
    /\ ReportLegal(camara, "camara_tema", inputs.camaraData)
    /\ SameCheckpoint(inputs.legacy.checkpoint, camara.checkpoint)
    /\ NeedsLegal =>
          /\ ReportLegal(legal, "juristcu_area", inputs.legalData)
          /\ SameCheckpoint(legal.checkpoint, camara.checkpoint)

Rebuilt(camara, legal) ==
    [format |-> "combined", checkpoint |-> camara.checkpoint,
     camara |-> camara.rows,
     legal |-> IF NeedsLegal THEN legal.rows ELSE inputs.legacy.rows]

CamaraReport == ReportAt(inputs.camara)
LegalReport == ReportAt(inputs.legal)

\* Everything is read, then the result is linked into place once.
Combine ==
    /\ combined = Nothing
    /\ inputs.camara # "none"
    /\ Combinable(CamaraReport, LegalReport)
    /\ combined' = Rebuilt(CamaraReport, LegalReport)
    /\ UNCHANGED <<nativeVars, journalVars, importer, given, imported, inputs,
                   checking, verdict, temporary, kills>>

-----------------------------------------------------------------------------
(* validate, of the combined report *)

At(v, to) == checking' = [checking EXCEPT ![v] = to]

\* The sources once more, and whether the temporary is there.
BeginValidation(v) ==
    /\ checking[v] = "idle"
    /\ combined # Nothing
    /\ At(v, IF Combinable(CamaraReport, LegalReport) /\ temporary = Nothing
             THEN "build" ELSE "failed")
    /\ UNCHANGED <<nativeVars, journalVars, importer, given, imported, inputs,
                   combined, verdict, temporary, kills>>

\* combine, with the temporary for its output: refused if it exists by now.
Build(v) ==
    /\ checking[v] = "build"
    /\ IF temporary = Nothing
       THEN temporary' = Rebuilt(CamaraReport, LegalReport) /\ At(v, "built")
       ELSE At(v, "clear") /\ UNCHANGED temporary
    /\ UNCHANGED <<nativeVars, journalVars, importer, given, imported, inputs,
                   combined, verdict, kills>>

ReadBack(v) ==
    /\ checking[v] = "built"
    /\ verdict' = [verdict EXCEPT ![v] =
          IF temporary # Nothing /\ temporary = combined
          THEN "passed" ELSE "failed"]
    /\ At(v, "clear")
    /\ UNCHANGED <<nativeVars, journalVars, importer, given, imported, inputs,
                   combined, temporary, kills>>

\* The finally clause, whoever made the file.
Clear(v) ==
    /\ checking[v] = "clear"
    /\ temporary' = Nothing
    /\ At(v, verdict[v])
    /\ UNCHANGED <<nativeVars, journalVars, importer, given, imported, inputs,
                   combined, verdict, kills>>

KillValidation(v) ==
    /\ checking[v] \in {"build", "built", "clear"}
    /\ kills < MaxKills
    /\ kills' = kills + 1
    /\ At(v, "killed")
    /\ UNCHANGED <<nativeVars, journalVars, importer, given, imported, inputs,
                   combined, verdict, temporary>>

Validate(v) ==
    BeginValidation(v) \/ Build(v) \/ ReadBack(v) \/ Clear(v)

-----------------------------------------------------------------------------

Journalled ==
    /\ \/ ServerStep \/ Swap
       \/ \E r \in Runs : RunStep(r) \/ Die(r) \/ Restart(r)
    /\ UNCHANGED reportVars

Reported ==
    \/ ImportSummary \/ ImportRecords \/ ImportPublish \/ Combine
    \/ \E v \in Validators : Validate(v) \/ KillValidation(v)

ReportsNext == Journalled \/ Reported

ReportsSpec == ReportsInit /\ [][ReportsNext]_taskVars

-----------------------------------------------------------------------------
(* Properties *)

\* The records whose bytes are in a journal, alone on a line or not.
Written(lines) ==
    UNION {IF lines[i].format = "glued" THEN lines[i].parts ELSE {lines[i]} :
           i \in DOMAIN lines}

\* A journal's first lines are one clean line for each key, of one identity.
Begins(lines, a, answers) ==
    LET n == Cardinality(ToSet(Keys(a))) IN
    /\ Len(lines) >= n
    /\ {lines[i].key : i \in 1..n} = ToSet(Keys(a))
    /\ \A i \in 1..n : /\ LineLegal(lines[i], a, lines[1].identity.evidence)
                       /\ answers[lines[i].key] = lines[i].prediction

\* A summary or an imported report is computed from attempts none of which
\* failed, each key asked with the same prepared file, checkpoint and
\* evidence, though runs overlap, die inside a line and are started again
\* (validate_journal, summarize, from_strict_journal).
SummaryHonest ==
    /\ \A r \in Runs : outputs[r].format = "summary" =>
          Begins(journal[arguments[r].journal], arguments[r], outputs[r].answers)
    /\ importer = "done" =>
          Begins(imported.journal, given,
                 [k \in ToSet(Keys(given)) |->
                    imported.rows[k[1]].prediction])

\* A line that names evidence was answered by the process that evidence is
\* of, and by one that takes the whole request if that is among those it was
\* preflighted for, unless the process at the port was replaced after the run
\* had asked for its health (preflight, _server_binding).
RecordsBound ==
    \A j \in Journals : \A line \in Written(journal[j]) :
        line.identity.evidence # NoOne => line.faithful

\* A combined report has, for each row of the tasks it replaces, an attempt
\* that succeeded, for its own checkpoint, whose record is in a journal: a
\* partial report, a failed or a killed run never reaches it (run_task,
\* _validate_report, combine).
AllAnswered(replaced, data) ==
    /\ Len(replaced) = Len(data)
    /\ \A i \in DOMAIN replaced :
          \E j \in Journals : \E line \in Written(journal[j]) :
              /\ line.key = <<i, "full">>
              /\ line.prediction = replaced[i].prediction
              /\ SameCheckpoint(line.identity.checkpoint, combined.checkpoint)

CombinedAnswered ==
    combined # Nothing =>
        /\ AllAnswered(combined.camara, inputs.camaraData)
        /\ NeedsLegal => AllAnswered(combined.legal, inputs.legalData)

=============================================================================
