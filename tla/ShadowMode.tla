----------------------------- MODULE ShadowMode -----------------------------
(***************************************************************************)
(* shadow/: runners that own one Saracura backend each and make decisions  *)
(* nobody acts on, and the commands shadow-decide and shadow-evaluate.     *)
(* The runners of a library share the process and so its one resident      *)
(* model; a command is a runner with a batch of items.                     *)
(*   policy   [form, revision, model, locale, domain, workflow, keys,      *)
(*            question, nfc]                                               *)
(*   item     [form, ref, keys, state, nfc]                                *)
(*   feedback [ref, policy, disposition, label]                            *)
(***************************************************************************)
EXTENDS DecideCommands

CONSTANTS
    Runners,            \* the callers that are shadow runners
    Policies,
    Feedback(_),        \* the feedback files operators may write on records
    MaxTries,           \* bound on the decisions of a runner of a library
    Scenarios           \* what the commands and the runners may start from

\* A request as it is read: its questions are a sequence, and so are their criteria.
Sequence(s) == s \in Seq(Items(s))
Listed(r) ==
    /\ Sequence(r.questions)
    /\ \A i \in DOMAIN r.questions : Sequence(r.questions[i].criteria)

\* A command starts with its arguments, a library's engine with a request that
\* it could construct, and a runner with its policy and its items.
ASSUME ShadowAssumption ==
    /\ Runners \subseteq Callers
    /\ Commands \cap Runners = {}
    /\ Nothing \notin Runners
    /\ MaxTries \in Nat
    /\ \A s \in Scenarios :
         /\ \A c \in Commands : LET k == s.commands[c] IN
              /\ k.lane \in Kinds
              /\ k.step \in {FirstStep(k.lane), "describe", "identity", "embed", "done"}
              /\ k.step \in {FirstStep(k.lane), "embed"} => Listed(k.request)
              /\ k.step = "embed" => RequestClosed(k.request)
         /\ \A c \in Runners : LET g == s.runners[c] IN
              /\ g.source \in {"command", "library"}
              /\ Sequence(g.policy.question.criteria)
              /\ Sequence(g.input)

VARIABLES
    runner,     \* of each runner [source, step, policy, input, items, ...]
    slot,       \* the runner whose backend is the resident one, or Nothing
    output,     \* of each runner, the records it wrote
    summary     \* of each runner, the evaluation of what it wrote

shadowVars == <<runner, slot, output, summary>>

InitShadow(given) ==
    /\ runner = [c \in Runners |->
          [source |-> given[c].source, active |-> given[c].active, policy |-> given[c].policy,
           input |-> given[c].input,
           args |-> given[c].args,
           step |-> IF given[c].source = "library" THEN "enter" ELSE "policy",
           items |-> <<>>, asked |-> Nothing, records |-> <<>>, tries |-> 0,
           failedAt |-> 0]]
    /\ slot = Nothing
    /\ output = [c \in Runners |-> Nothing]
    /\ summary = [c \in Runners |-> Nothing]

Source(c) == runner[c].source
Is(c, step) == runner[c].step = step
Policy(c) == runner[c].policy
Into(c, step) == runner' = [runner EXCEPT ![c].step = step]

\* A batch that fails names the line of the item it failed at.
FailAt(c, index, step) ==
    runner' = [runner EXCEPT ![c].step = step, ![c].failedAt = index]

-----------------------------------------------------------------------------
(* Policies, items and requests *)

\* ShadowPolicy.
PolicyClosed(p) ==
    /\ p.form = "closed"
    /\ p.domain \in Domains
    /\ p.workflow = "saracura"
    /\ ~IsAlias(p.revision) /\ ~IsAlias(p.model)
    /\ p.nfc
    /\ p.keys # {}
    /\ Len(p.question.criteria) \in 2 .. Limits.saracuraCriteria
    /\ Distinct(p.question.criteria)

\* _shadow_state_capacity_issue.
StateIssue(item) ==
    IF item.keys = {} THEN "invalid"
    ELSE IF Cardinality(item.keys) > Limits.fields THEN "capacity"
    ELSE IF ~item.nfc \/ ~Canonical(item.state) THEN "invalid"
    ELSE IF item.state.size > Limits.saracuraState THEN "capacity"
    ELSE "ok"

\* ShadowItem.
ItemClosed(item) == item.form = "closed" /\ StateIssue(item) = "ok"

\* validate_shadow_item_state.
StateMatches(p, item) ==
    PolicyClosed(p) /\ ItemClosed(item) /\ item.keys = p.keys

ShadowRequest(p, item) ==
    [form |-> "closed", api |-> "v1alpha1", mode |-> "research",
     model |-> p.model, locale |-> p.locale, domain |-> p.domain,
     workflow |-> p.workflow, state |-> item.state, nfc |-> item.nfc,
     questions |-> <<p.question>>]

\* build_shadow_request.
Builds(p, item) ==
    /\ StateMatches(p, item)
    /\ RequestClosed(ShadowRequest(p, item))
    /\ SaracuraStructure(ShadowRequest(p, item))

PolicyDigest(p) == <<"policy", p>>

-----------------------------------------------------------------------------
(* Records *)

Place(p, l) == CHOOSE i \in DOMAIN p.question.criteria : p.question.criteria[i] = l

Heavier(p, w, l, m) ==
    w[l] > w[m] \/ (w[l] = w[m] /\ Place(p, l) < Place(p, m))

\* By weight, and in the order of the policy where weights are equal.
Sorted(p, w, s) == \A i, j \in DOMAIN s : i < j => Heavier(p, w, s[i], s[j])
Ranking(p, w) ==
    CHOOSE s \in [1 .. Cardinality(DOMAIN w) -> DOMAIN w] : Sorted(p, w, s)

\* ShadowDecisionRecord.
RecordClosed(r) ==
    /\ Distinct(r.ranking)
    /\ r.label = r.ranking[1]
    /\ \A i, j \in DOMAIN r.ranking :
          i < j => r.weights[r.ranking[i]] >= r.weights[r.ranking[j]]

RecordOf(c, item, a) ==
    [ref |-> item.ref, policy |-> PolicyDigest(Policy(c)), model |-> ModelOf(c),
     label |-> a.value, ranking |-> Ranking(Policy(c), a.weights),
     weights |-> a.weights]

\* project_shadow_decision.
Projects(c, answers) ==
    LET p == Policy(c)
        a == answers[1]
        labels == Items(p.question.criteria)
    IN  /\ ModelOf(c).revision = p.model
        /\ Len(answers) = 1
        /\ a.question = p.question.id
        /\ a.status = "uncalibrated" /\ a.abstained /\ a.calibration = Nothing
        /\ DOMAIN a.raw = labels /\ DOMAIN a.weights = labels
        /\ a.value \in labels
        /\ a.value = Ranking(p, a.weights)[1]

-----------------------------------------------------------------------------
(* A batch is validated whole before any backend is made. *)

\* _load_shadow_policy.
LoadPolicy(c) ==
    /\ Is(c, "policy")
    /\ IF PolicyClosed(Policy(c)) THEN Into(c, "items") ELSE Into(c, "failed")
    /\ UNCHANGED <<engineVars, commandVars, slot, output, summary>>

References(items) == {items[i].ref : i \in DOMAIN items}

\* A line of the input that may be part of the batch.
Admitted(c, n) ==
    /\ n <= Limits.batch
    /\ ItemClosed(runner[c].input[n])
    /\ runner[c].input[n].ref \notin References(runner[c].items)
    /\ Builds(Policy(c), runner[c].input[n])

\* One line of _read_shadow_items.
ReadItem(c) ==
    /\ Is(c, "items")
    /\ LET n == Len(runner[c].items) + 1 IN
          IF n > Len(runner[c].input)
          THEN IF n = 1 THEN FailAt(c, 1, "failed") ELSE Into(c, "capsule")
          ELSE IF Admitted(c, n)
          THEN runner' = [runner EXCEPT ![c].items =
                             Append(@, runner[c].input[n])]
          ELSE FailAt(c, n, "failed")
    /\ UNCHANGED <<engineVars, commandVars, slot, output, summary>>

VerifyBinding(c) ==
    /\ Is(c, "capsule")
    /\ IF disk["capsule"] = "pinned"
          /\ Policy(c).model = Models["saracura"].revision
       THEN Into(c, "enter") ELSE Into(c, "failed")
    /\ UNCHANGED <<engineVars, commandVars, slot, output, summary>>

-----------------------------------------------------------------------------
(* ShadowRunner *)

\* Where a runner ends that is closed.
Ended(c) ==
    IF Source(c) = "library" THEN "closed"
    ELSE IF runner[c].failedAt > 0 THEN "failed" ELSE "output"

\* __enter__ calls the factory.
OpenBackend(c) ==
    /\ Is(c, "enter")
    /\ IF runner[c].args /\ PolicyClosed(Policy(c))
       THEN /\ backend' = [backend EXCEPT ![c] =
                 [kind |-> "saracura", verified |-> "pinned", loaded |-> Nothing,
                  open |-> TRUE, opened |-> @.opened + 1, closed |-> @.closed]]
            /\ Into(c, "preparing")
       ELSE /\ UNCHANGED backend
            /\ FailAt(c, 1, IF Source(c) = "library" THEN "closed" ELSE "failed")
    /\ UNCHANGED <<call, registry, clock, commandVars, slot, output, summary>>

\* What prepare finds: a command hands over the bytes of its capsule, of a
\* library's backend the capsule is read now, and there is one resident model
\* in a process.
Preparable(c) ==
    /\ Source(c) = "library" => disk["capsule"] = "pinned"
    /\ disk["encoder"] = "pinned"
    /\ slot = Nothing

\* __enter__ prepares it.
PrepareBackend(c) ==
    /\ Is(c, "preparing")
    /\ LET prepared == Preparable(c) IN
          /\ slot' = IF prepared THEN c ELSE slot
          /\ backend' = [backend EXCEPT ![c].loaded =
                IF prepared THEN backend[c].verified ELSE Nothing]
          /\ IF prepared /\ ModelOf(c).revision = Policy(c).model
             THEN Into(c, "open") ELSE FailAt(c, 1, "closing")
    /\ UNCHANGED <<call, registry, clock, commandVars, output, summary>>

\* The item of a call: the next of a batch, or any a library's caller has.
NextItems(c) ==
    IF Source(c) = "library"
    THEN IF runner[c].tries < MaxTries THEN Items(runner[c].input) ELSE {}
    ELSE {runner[c].items[Len(runner[c].records) + 1]}

\* decide: an item that does not build is refused without any other effect.
DecideItem(c) ==
    /\ Is(c, "open")
    /\ \E item \in NextItems(c) :
          /\ Builds(Policy(c), item)
          /\ Enter(c, ShadowRequest(Policy(c), item), Nothing)
          /\ runner' = [runner EXCEPT ![c].step = "asking",
                          ![c].tries = @ + 1, ![c].asked = item]
    /\ UNCHANGED <<registry, backend, clock, commandVars, slot, output, summary>>

Asking(c) ==
    /\ Is(c, "asking")
    /\ \/ Check(c)
       \/ Score(c, backend[c].loaded)
       \/ Unavailable(c, backend[c].loaded)
    /\ UNCHANGED <<commandVars, shadowVars>>

\* Mutant: the command returns from the middle of its batch.
FailsOpen(c) ==
    IF Source(c) = "library" THEN Into(c, "open")
    ELSE FailAt(c, Len(runner[c].records) + 1, "failed")

\* A command stops at the first item it cannot decide.
Fails(c) ==
    IF Source(c) = "library" THEN Into(c, "open")
    ELSE FailAt(c, Len(runner[c].records) + 1, "closing")

Project(c) ==
    /\ Is(c, "asking")
    /\ call[c].at \in {"answered", "refused"}
    /\ LET item == runner[c].asked
           done == Len(runner[c].records) + 1 = Len(runner[c].items)
       IN  IF /\ call[c].at = "answered"
              /\ Projects(c, call[c].answers)
              /\ RecordClosed(RecordOf(c, item, call[c].answers[1]))
           THEN runner' = [runner EXCEPT
                  ![c].records = Append(@, RecordOf(c, item, call[c].answers[1])),
                  ![c].step = IF Source(c) = "command" /\ done THEN "closing"
                              ELSE "open"]
           ELSE Fails(c)
    /\ call' = [call EXCEPT ![c] = NoCall]
    /\ UNCHANGED <<registry, backend, clock, commandVars, slot, output, summary>>

\* close, of a runner that failed to enter as well.
CloseRunner(c) ==
    /\ Is(c, "closing") \/ (Source(c) = "library" /\ Is(c, "open"))
    /\ backend' = [backend EXCEPT ![c].open = FALSE, ![c].closed = @ + 1,
                                  ![c].loaded = Nothing]
    /\ slot' = IF slot = c THEN Nothing ELSE slot
    /\ Into(c, Ended(c))
    /\ UNCHANGED <<call, registry, clock, commandVars, output, summary>>

\* shadow-decide writes all its records or none.
Write(c) ==
    /\ Is(c, "output")
    /\ output' = [output EXCEPT ![c] = runner[c].records]
    /\ Into(c, "written")
    /\ UNCHANGED <<engineVars, commandVars, slot, summary>>

-----------------------------------------------------------------------------
(* shadow-evaluate reads the records of a batch and what operators said.   *)

\* Decisions that belong to the policy, of one model, each in its own order.
DecisionsLegal(p, ds) ==
    LET labels == Items(p.question.criteria) IN
    /\ \A i, j \in DOMAIN ds : ds[i].ref = ds[j].ref => i = j
    /\ \A i \in DOMAIN ds :
          /\ RecordClosed(ds[i])
          /\ ds[i].policy = PolicyDigest(p)
          /\ ds[i].model.revision = p.model
          /\ ds[i].model = ds[1].model
          /\ Items(ds[i].ranking) = labels
          /\ Len(ds[i].ranking) = Cardinality(labels)
          /\ Sorted(p, ds[i].weights, ds[i].ranking)

\* ShadowFeedbackRecord, and what the evaluation demands of the records.
FeedbackLegal(p, ds, fs) ==
    /\ \A i, j \in DOMAIN fs : fs[i].ref = fs[j].ref => i = j
    /\ \A i \in DOMAIN fs :
          /\ fs[i].policy = PolicyDigest(p)
          /\ fs[i].ref \in References(ds)
          /\ IF fs[i].disposition = "skipped" THEN fs[i].label = Nothing
             ELSE fs[i].label \in Items(p.question.criteria)

Predicted(ds, ref) == (CHOOSE d \in Items(ds) : d.ref = ref).label

NoCounts(p) ==
    [labeled |-> 0, skipped |-> 0, agreement |-> 0,
     matrix |-> [pair \in Items(p.question.criteria) \X Items(p.question.criteria)
                    |-> 0]]

\* What one feedback record adds to the counts.
Counted(ds, f, counts) ==
    IF f.disposition = "skipped" THEN [counts EXCEPT !.skipped = @ + 1]
    ELSE [counts EXCEPT
            !.labeled = @ + 1,
            !.matrix[<<Predicted(ds, f.ref), f.label>>] = @ + 1,
            !.agreement = IF Predicted(ds, f.ref) = f.label THEN @ + 1 ELSE @]

Summarized(p, ds, fs) ==
    LET counts == FoldFunction(LAMBDA f, n : Counted(ds, f, n), NoCounts(p), fs)
    IN  [policy |-> PolicyDigest(p), predictions |-> Len(ds),
         feedback |-> Len(fs), unreviewed |-> Len(ds) - Len(fs),
         counts |-> counts]

Diagonal(p) == {<<l, l>> : l \in Items(p.question.criteria)}

\* ShadowEvaluationSummary: its counts and its matrix have to reconcile.
SummaryClosed(p, s) ==
    /\ s.feedback = s.counts.labeled + s.counts.skipped
    /\ s.feedback <= s.predictions
    /\ s.counts.agreement <= s.counts.labeled
    /\ s.unreviewed = s.predictions - s.feedback
    /\ FoldFunction(LAMBDA m, n : m + n, 0, s.counts.matrix) = s.counts.labeled
    /\ FoldFunctionOnSet(LAMBDA m, n : m + n, 0, s.counts.matrix, Diagonal(p)) = s.counts.agreement

\* What an evaluation must find in its three files.
Evaluates(p, ds, fs) ==
    /\ PolicyClosed(p)
    /\ DecisionsLegal(p, ds)
    /\ FeedbackLegal(p, ds, fs)
    /\ SummaryClosed(p, Summarized(p, ds, fs))

Parts(records) == {SubSeq(records, 1, n) : n \in 0 .. Len(records)}

\* An evaluation of what a batch wrote, whole or in part, under some policy.
Evaluate(c) ==
    /\ Is(c, "written")
    /\ \E p \in Policies, ds \in Parts(output[c]) :
       \E fs \in Feedback(ds) :
          summary' = [summary EXCEPT ![c] =
             IF Evaluates(p, ds, fs)
             THEN [s |-> Summarized(p, ds, fs), decisions |-> ds, feedback |-> fs]
             ELSE Nothing]
    /\ Into(c, "evaluated")
    /\ UNCHANGED <<engineVars, commandVars, slot, output>>

RunnerStep(c) ==
    \/ LoadPolicy(c) \/ ReadItem(c) \/ VerifyBinding(c) \/ OpenBackend(c)
    \/ PrepareBackend(c) \/ DecideItem(c) \/ Asking(c) \/ Project(c)
    \/ CloseRunner(c) \/ Write(c) \/ Evaluate(c)

RunnerEnded(c) == runner[c].step \in {"closed", "failed", "evaluated"}

DecisionInit ==
    \E s \in Scenarios :
        /\ InitEngine([c \in Callers |-> <<>>])
        /\ InitCommands(s.commands, [path \in Artifacts |-> "pinned"])
        /\ InitShadow(s.runners)

CommandNext ==
    \E c \in Commands : CommandStep(c) /\ UNCHANGED shadowVars

RunnerNext == \E c \in Runners : runner[c].active /\ RunnerStep(c)

\* Files change while somebody is at work, and time passes for commands: no
\* step of a runner looks at the clock.
Busy ==
    \/ \E c \in Commands : ~CommandEnded(c)
    \/ \E c \in Runners : runner[c].active /\ ~RunnerEnded(c)

World ==
    \/ Busy /\ ReplaceFile /\ UNCHANGED shadowVars
    \/ /\ \E c \in Commands : ~CommandEnded(c)
       /\ Tick
       /\ UNCHANGED <<commandVars, shadowVars>>

DecisionNext == CommandNext \/ RunnerNext \/ World

decisionVars == <<engineVars, commandVars, shadowVars>>

DecisionSpec == DecisionInit /\ [][DecisionNext]_decisionVars

-----------------------------------------------------------------------------

\* The steps of a runner that has no backend any more.
Closed == {"closed", "failed", "output", "written", "evaluated"}

\* shadow-decide: its output is a record for each line of its input, in order,
\* or nothing at all; no backend is opened before the last line was validated;
\* and what it wrote is always fit for evaluation under its policy.  Wherever a
\* command or a runner of a library fails, also in the middle of its items, it
\* has closed the backend it opened, once, and left the resident model's slot
\* to others; and the slot is a runner's only while its backend is in use.
ShadowWhole ==
    /\ \A c \in Runners :
         /\ runner[c].step \in Closed => backend[c].closed = backend[c].opened
         /\ slot = c => runner[c].step \in {"open", "asking", "closing"}
    /\ \A c \in Runners : Source(c) = "command" =>
        /\ backend[c].opened > 0 => runner[c].items = runner[c].input
        /\ output[c] # Nothing =>
              /\ [i \in DOMAIN output[c] |-> output[c][i].ref]
                    = [i \in DOMAIN runner[c].input |-> runner[c].input[i].ref]
              /\ DecisionsLegal(Policy(c), output[c])
        /\ Is(c, "failed") => output[c] = Nothing

=============================================================================
