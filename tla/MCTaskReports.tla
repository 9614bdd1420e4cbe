--------------------------- MODULE MCTaskReports ---------------------------
(* A small instance of TaskReports: tasks of two rows, two launches of a    *)
(* native server, two runs, one import, one combination, two validations.  *)
EXTENDS TaskReports

Row(n) == [tokens |-> n, options |-> TRUE, gold |-> "x"]

Camara == <<Row(2), Row(3)>>
Laws == <<Row(1), Row(5)>>
Short == <<Row(1), Row(3)>>

Model == [id |-> 1, revision |-> 1, base |-> 1]
Tuned == [Model EXCEPT !.revision = 2]

Server(kind, prepared) ==
    [kind |-> kind, prepared |-> prepared, data |-> prepared.source, path |-> 1,
     checkpoint |-> Model, port |-> 1, cuda |-> TRUE, base |-> TRUE,
     limit |-> 6, options |-> TRUE]

Diagnose(prepared) ==
    [command |-> "pairs", task |-> "camara_tema", prepared |-> prepared,
     data |-> prepared.source, model |-> 1, checkpoint |-> Model, path |-> 1,
     limit |-> 0, journal |-> 1]

Absent == [Diagnose(Prepared("none", Camara)) EXCEPT !.command = "none"]

RunTask(task, data) ==
    [Diagnose(Prepared("none", data))
        EXCEPT !.command = "task", !.task = task, !.path = NoOne]

CamaraFile == Prepared("v3camara", Camara)
LegacyFile == Prepared("v1legacydiag", Short)
LegalFile == Prepared("v3legalfull", Laws)
WideFile == Prepared("v3camara", <<Row(2), Row(4)>>)

Off == [Server("kev", CamaraFile) EXCEPT !.cuda = FALSE]

Bridge == [checkpoint |-> Model, context |-> 8]
Pinned == [checkpoint |-> Model, runtime |-> "bridge", context |-> 8,
           prompt |-> "letters", server |-> 1, health |-> Bridge,
           checked |-> TRUE]
MCBridges == {Bridge, [Bridge EXCEPT !.context = 4]}

NoFiles == <<NoOne, NoOne>>

CONSTANTS l1, l2, r1, r2

Original == [tasks |-> 7, failed |-> 0, rows |-> <<>>, checkpoint |-> Model]

NoCombine == [protocol |-> [legal |-> "full"], legacy |-> Original,
              camara |-> "none", legal |-> "none", camaraData |-> Camara,
              legalData |-> Laws]

Scenario(a, b, x, y) ==
    [configs |-> l1 :> a @@ l2 :> b, runs |-> r1 :> x @@ r2 :> y,
     evidence |-> NoFiles, port |-> NoOne, import |-> Absent,
     combine |-> NoCombine]

Diagnosis == Diagnose(CamaraFile)
Kev == Server("kev", CamaraFile)

\* Two servers, each with its evidence, and a run bound to the first.
TwoServers ==
    {Scenario(Kev, [Server("decider", CamaraFile) EXCEPT !.path = p],
              Diagnosis, Absent) : p \in {1, 2}}

\* Two runs over one journal, of a bridge whose health was pinned.
TwoRuns ==
    {[Scenario(Off, Off, Diagnosis, [Diagnosis EXCEPT !.command = c])
        EXCEPT !.port = Bridge, !.evidence[1] = Pinned,
               !.import = Diagnosis,
               !.combine.camara = "import",
               !.combine.protocol.legal = "prefix3500"] :
     c \in {"pairs", "task"}}

\* The preflights of each mode.
Preflights ==
    {Scenario(Server("laya", LegacyFile), Off, Diagnose(LegacyFile), Absent),
     Scenario(Server("laya", LegalFile), Server("decider", WideFile),
              Diagnose(LegalFile), [Diagnosis EXCEPT !.checkpoint = Tuned])}
    \cup {Scenario(Server(k, LegalFile), [Server(k, LegalFile) EXCEPT !.limit = n],
                   Absent, Absent) : k \in {"decider", "lev", "laya"}, n \in {0, 5}}

\* Reports of whole and partial tasks, combined.
Reports ==
    {[Scenario(Off, Off, RunTask("camara_tema", Camara),
               [RunTask("juristcu_area", Laws)
                    EXCEPT !.journal = 2, !.limit = n, !.checkpoint = c])
        EXCEPT !.port = Bridge, !.combine.camara = r1, !.combine.legal = r2] :
     n \in {0, 1}, c \in {Model, Tuned}}

MCScenarios == TwoServers \cup TwoRuns \cup Preflights \cup Reports

Plain == [form |-> "ok", flagged |-> FALSE, choice |-> "x", best |-> {"x"}]

MCReplies ==
    <<{Plain, [Plain EXCEPT !.form = "unreachable"]},
      {[Plain EXCEPT !.choice = NoLabel, !.best = {"y"}],
       [Plain EXCEPT !.choice = "y"], [Plain EXCEPT !.flagged = TRUE],
       [Plain EXCEPT !.form = "unreachable"]}>>
=============================================================================
