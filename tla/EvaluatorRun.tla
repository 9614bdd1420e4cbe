---------------------------- MODULE EvaluatorRun ----------------------------
(***************************************************************************)
(* research/ptbr_bench.py run against the bridge or another server, and    *)
(* research/validate_submission.py on the report: the splits are fetched   *)
(* into a cache shared with other runs, each row is asked at most three    *)
(* times, and the report is linked into place once.                        *)
(***************************************************************************)
EXTENDS LetterBridge, FiniteSetsExt

CONSTANTS
    Tasks,          \* sequence of the tasks, in alphabetical order (seven)
    Published,      \* the content of each split on the Hub
    Variants,       \* what another run may put into the cache, by task
    Missing,        \* no file
    Arguments,      \* the command lines of the evaluator, and its cache
    Attempts,       \* times a row is asked (3)
    Prompt,         \* tokens of a row's prompt
    ForeignReplies, \* what another server may answer
    OtherBodies,    \* what another client of the bridge may send
    MaxOthers       \* bound on its requests

ASSUME EvaluatorAssumption ==
    /\ DOMAIN Published = DOMAIN Tasks
    /\ DOMAIN Variants = DOMAIN Tasks
    /\ Attempts \in Nat \ {0}
    /\ MaxOthers \in Nat

IsSequence(s) == Len(s) \in Nat /\ DOMAIN s = 1..Len(s)

\* A body has a list of questions, whatever is in it; "none" stands for a
\* prediction that is null, which no published option is.
ASSUME ContentAssumption ==
    /\ IsSequence(Tasks) /\ Len(Tasks) > 0
    /\ \A b \in OtherBodies : IsSequence(b.questions)
    /\ \A t \in DOMAIN Tasks :
         /\ IsSequence(Published[t])
         /\ \A i \in DOMAIN Published[t] : "none" \notin ToSet(Published[t][i].keys)

VARIABLES
    args,       \* its command line and the cache it finds; fixed
    phase,      \* "fetch", "ask", "wait", "report", "saved", "refused"
    cache,      \* the cached file of each split
    split,      \* the splits it has loaded
    fetched,    \* a split downloaded and not yet linked into the cache
    where,      \* <<task, row>> it is at
    attempt,    \* of that row
    mine,       \* its connection, or Nobody
    items,      \* prediction and error code of each row so far, by task
    output,     \* the file at --output: "none", "other", "report"
    others,     \* requests the other client has sent
    gaveUp      \* history: it has stopped waiting for a reply

runVars == <<args, phase, cache, split, fetched, where, attempt,
             mine, items, output, others, gaveUp>>
vars == <<bridgeVars, runVars>>

Init ==
    /\ InitBridge
    /\ args \in Arguments
    /\ phase = "fetch"
    /\ cache = args.cache
    /\ split = <<>>
    /\ fetched = Missing
    /\ where = <<1, 1>>
    /\ attempt = 1
    /\ mine = Nobody
    /\ items = [t \in DOMAIN Tasks |-> <<>>]
    /\ output \in {"none", "other"}
    /\ others = 0
    /\ gaveUp = FALSE

-----------------------------------------------------------------------------
(* The splits *)

LegalRow(row) ==
    /\ row.json
    /\ row.texts
    /\ \/ row.type = "noul" /\ row.gold \in {"yes", "no"}
       \/ row.type = "choice" /\ row.gold \in ToSet(row.keys)

\* parse_rows raises on any line that is not a published row.
Parses(rows) == rows # <<>> /\ \A i \in DOMAIN rows : LegalRow(rows[i])

Loading == Len(split) + 1

Stop ==
    /\ phase' = "refused"
    /\ UNCHANGED <<split, fetched>>

Loaded(rows) ==
    /\ split' = Append(split, rows)
    /\ phase' = IF Loading = Len(Tasks) THEN "ask" ELSE "fetch"
    /\ fetched' = Missing

\* An output that exists is never overwritten: looked at before any work.
OutputTaken ==
    /\ phase = "fetch"
    /\ split = <<>>
    /\ fetched = Missing
    /\ output # "none"
    /\ Stop
    /\ UNCHANGED <<bridgeVars, args, cache, where, attempt, mine, items,
                   output, others, gaveUp>>

\* fetch: a cached split is read as it is, and never compared with the Hub.
FromCache ==
    /\ phase = "fetch"
    /\ fetched = Missing
    /\ split = <<>> => output = "none"
    /\ cache[Loading] # Missing
    /\ IF Parses(cache[Loading]) THEN Loaded(cache[Loading]) ELSE Stop
    /\ UNCHANGED <<bridgeVars, args, cache, where, attempt, mine, items,
                   output, others, gaveUp>>

Download ==
    /\ phase = "fetch"
    /\ fetched = Missing
    /\ split = <<>> => output = "none"
    /\ cache[Loading] = Missing
    /\ \/ fetched' = Published[Loading] /\ UNCHANGED <<phase, split>>
       \/ Stop
    /\ UNCHANGED <<bridgeVars, args, cache, where, attempt, mine, items,
                   output, others, gaveUp>>

\* os.link: another run may have been first, with the same bytes or not.
Link ==
    /\ phase = "fetch"
    /\ fetched # Missing
    /\ IF cache[Loading] \in {Missing, fetched} THEN Loaded(fetched) ELSE Stop
    /\ cache' = [cache EXCEPT ![Loading] = IF @ = Missing THEN fetched ELSE @]
    /\ UNCHANGED <<bridgeVars, args, where, attempt, mine, items, output,
                   others, gaveUp>>

\* Another run, or its user, creates the file meanwhile.
OtherCaches ==
    /\ phase = "fetch"
    /\ fetched # Missing
    /\ cache[Loading] = Missing
    /\ \E v \in Variants[Loading] : cache' = [cache EXCEPT ![Loading] = v]
    /\ UNCHANGED <<bridgeVars, args, phase, split, fetched, where, attempt,
                   mine, items, output, others, gaveUp>>

-----------------------------------------------------------------------------
(* The rows *)

\* --limit keeps the first rows of each task.
Limited(t) == IF args.limit = 0 THEN split[t]
              ELSE SubSeq(split[t], 1, Min({args.limit, Len(split[t])}))

Row == split[where[1]][where[2]]

\* A row as a request with one question, its options in a shuffled order.
Question(row, keys) ==
    [name |-> 1, type |-> row.type, texts |-> TRUE, keys |-> keys,
     fields |-> {"type", "instructions"} \cup
                  (IF row.type = "choice" THEN {"criteria"} ELSE {}),
     tokens |-> Prompt]

Body(row, keys) ==
    [size |-> "ok", json |-> TRUE, fields |-> {"model", "state", "questions"},
     model |-> args.model, questions |-> <<Question(row, keys)>>]

Orders(row) ==
    IF row.type = "noul" THEN {<<>>} ELSE SetToSeqs(ToSet(row.keys))

Ask ==
    /\ phase = "ask"
    /\ ~args.foreign
    /\ \E c \in Calls, keys \in Orders(Row) :
         /\ Post(c, Body(Row, keys))
         /\ mine' = c
    /\ phase' = "wait"
    /\ UNCHANGED <<args, cache, split, fetched, where, attempt, items, output,
                   others, gaveUp>>

Record(pred, error) ==
    LET t == where[1]
        more == where[2] < Len(Limited(t))
    IN /\ items' = [items EXCEPT ![t] = Append(@, [pred |-> pred,
                                                   code |-> error])]
       /\ where' = IF more THEN <<t, where[2] + 1>> ELSE <<t + 1, 1>>
       /\ phase' = IF ~more /\ t = Len(Tasks) THEN "report" ELSE "ask"
       /\ attempt' = 1

\* Mutant: only a 5xx counts as an attempt.
AgainForever(error) ==
    IF attempt < Attempts
    THEN /\ attempt' = IF error = "transport" THEN attempt ELSE attempt + 1
         /\ phase' = "ask"
         /\ UNCHANGED <<items, where>>
    ELSE Record("none", error)

\* A transport error or a 5xx: the row is asked again, three times in all.
Again(error) ==
    IF attempt < Attempts
    THEN /\ attempt' = attempt + 1
         /\ phase' = "ask"
         /\ UNCHANGED <<items, where>>
    ELSE Record("none", error)

\* Mutant: a probability is taken for an answer whatever option it names.
PickAny(answer, row) ==
    IF answer.kind = "none" THEN <<"none", "no_answer">>
    ELSE <<answer.value, "none">>

\* pick: the prediction in an answer object.
Pick(answer, row) ==
    IF answer.kind = "none" THEN <<"none", "no_answer">>
    ELSE IF row.type = "noul"
    THEN IF answer.kind = "noul" /\ answer.value \in {"yes", "no"}
         THEN <<answer.value, "none">> ELSE <<"none", "invalid_noul">>
    ELSE IF answer.kind \notin {"choice", "probabilities"}
    THEN <<"none", "no_prediction">>
    ELSE IF answer.value \in ToSet(row.keys) THEN <<answer.value, "none">>
    ELSE <<"none", "invalid_choice">>

Answered(answer) ==
    LET p == Pick(answer, Row) IN Record(p[1], p[2])

\* call: what a reply makes of the attempt.
Read(status, form, answer) ==
    IF status >= 500 THEN Again("http_server_error")
    ELSE IF status >= 400 THEN Record("none", "http_client_error")
    ELSE IF form \in {"large", "not_json"} THEN Record("none", "bad_response")
    ELSE IF form = "no_answers" THEN Record("none", "bad_answer")
    ELSE Answered(answer)

\* answer_for: a letter as the answer of the question it was read for.
AnswerFor(letter, q) ==
    IF letter = NoAnswer THEN [kind |-> "none"]
    ELSE IF q.type = "noul"
    THEN [kind |-> "noul", value |-> IF letter = 1 THEN "yes" ELSE "no"]
    ELSE [kind |-> "choice", value |-> q.keys[letter + 1]]

Receive ==
    /\ phase = "wait"
    /\ step[mine] = "read"
    /\ LET r == reply[mine] IN
         Read(r.status, "ok",
              IF r.status = 200
              THEN AnswerFor(r.answers[1], asked[mine].questions[1])
              ELSE [kind |-> "none"])
    /\ Close(mine)
    /\ mine' = Nobody
    /\ UNCHANGED <<args, cache, split, fetched, output, others, gaveUp>>

\* The connection ends without a reply.
Disconnected ==
    /\ phase = "wait"
    /\ step[mine] = "lost"
    /\ Again("transport")
    /\ Close(mine)
    /\ mine' = Nobody
    /\ UNCHANGED <<args, cache, split, fetched, output, others, gaveUp>>

\* --timeout passes: the server may go on with the request.
TimeOut ==
    /\ phase = "wait"
    /\ step[mine] \notin {"read", "lost"}
    /\ HangUp(mine)
    /\ gaveUp' = TRUE
    /\ Again("transport")
    /\ mine' = Nobody
    /\ UNCHANGED <<args, cache, split, fetched, output, others>>

\* Nothing listens.
Unreachable ==
    /\ phase = "ask"
    /\ ~args.foreign
    /\ up = Nobody
    /\ Again("transport")
    /\ UNCHANGED <<bridgeVars, args, cache, split, fetched, mine, output,
                   others, gaveUp>>

\* Another server answers, or does not.
AskForeign ==
    /\ phase = "ask"
    /\ args.foreign
    /\ \/ \E r \in ForeignReplies : Read(r.status, r.form, r.answer)
       \/ Again("transport")
    /\ UNCHANGED <<bridgeVars, args, cache, split, fetched, mine, output,
                   others, gaveUp>>

-----------------------------------------------------------------------------
(* The report *)

Failures(rows) == Len(SelectSeq(rows, LAMBDA i : i.code # "none"))

\* balanced: right and total by gold value, in the order of the rows.
Balanced(rows, source) ==
    LET Gold == {source[i].gold : i \in DOMAIN rows}
        Of(g) == {i \in DOMAIN rows : source[i].gold = g}
    IN [g \in Gold |-> <<Cardinality({i \in Of(g) : rows[i].pred = g}),
                         Cardinality(Of(g))>>]

Summary(rows, source) ==
    [score |-> Balanced(rows, source), n |-> Len(rows),
     failed |-> Failures(rows), source_n |-> Len(source)]

\* readiness: nothing keeps the report from being submitted.
FullRun == args.limit = 0
Complete(t) == items[t] # <<>> /\ Len(items[t]) = Len(split[t])
Declared == args.checkpoint

Ready ==
    /\ FullRun
    /\ \A t \in DOMAIN Tasks : Complete(t) /\ Failures(items[t]) = 0
    /\ Declared

\* publish_exclusive: the link fails if the file has appeared meanwhile.
Save ==
    /\ phase = "report"
    /\ phase' = IF output = "none" THEN "saved" ELSE "refused"
    /\ output' = IF output = "none" THEN "report" ELSE output
    /\ UNCHANGED <<bridgeVars, args, cache, split, fetched, where, attempt,
                   mine, items, others, gaveUp>>

OtherWrites ==
    /\ phase = "report"
    /\ output = "none"
    /\ output' = "other"
    /\ UNCHANGED <<bridgeVars, args, phase, cache, split, fetched, where,
                   attempt, mine, items, others, gaveUp>>

\* _check_items: the rows of a task against the source of the validator.
ItemsMatch(t) ==
    /\ Len(items[t]) = Len(Published[t])
    /\ \A i \in DOMAIN items[t] :
         LET item == items[t][i] row == Published[t][i] IN
           /\ split[t][i].gold = row.gold
           /\ item.pred = "none" \/ item.pred \in
                (IF row.type = "noul" THEN {"yes", "no"} ELSE ToSet(row.keys))
           /\ (item.pred = "none") <=> (item.code # "none")

\* validate: every split is downloaded again and every number recomputed.
Accepts ==
    /\ \A t \in DOMAIN Tasks :
         /\ split[t] = Published[t]
         /\ ItemsMatch(t)
         /\ Summary(items[t], split[t]) = Summary(items[t], Published[t])
    /\ Ready

-----------------------------------------------------------------------------
(* The bridge and its other client *)

\* The bridge and its clients matter while the evaluator asks.
Asking == ~args.foreign /\ phase \in {"ask", "wait"}

Start == Asking /\ \E k \in Configs : Launch(k) /\ UNCHANGED runVars

Kill == Asking /\ Interrupt /\ UNCHANGED runVars

OtherAsks ==
    /\ Asking
    /\ others < MaxOthers
    /\ \E c \in Calls, b \in OtherBodies : Post(c, b)
    /\ others' = others + 1
    /\ UNCHANGED <<args, phase, cache, split, fetched, where, attempt, mine,
                   items, output, gaveUp>>

OtherReads(c) == c # mine /\ Close(c) /\ UNCHANGED runVars

Serve(c) == Thread(c) /\ UNCHANGED runVars

Tick(c) == Asking /\ Expire(c) /\ UNCHANGED runVars

Evaluator ==
    \/ OutputTaken \/ FromCache \/ Download \/ Link
    \/ Ask \/ Receive \/ Disconnected \/ TimeOut \/ Unreachable \/ AskForeign
    \/ Save

Next ==
    \/ Evaluator
    \/ Start \/ Kill \/ OtherAsks \/ OtherCaches \/ OtherWrites
    \/ \E c \in Calls : Serve(c) \/ Tick(c) \/ OtherReads(c)

Spec == Init /\ [][Next]_vars

\* The evaluator's process is scheduled, and each thread of the server is:
\* a call of the model returns.
FairSpec ==
    /\ Spec
    /\ WF_vars(Evaluator)
    /\ \A c \in Calls : WF_vars(Serve(c)) /\ WF_vars(OtherReads(c))
-----------------------------------------------------------------------------
(* Properties *)

Errors == {"none", "transport", "http_client_error", "http_server_error",
           "bad_response", "bad_answer", "no_answer", "invalid_noul",
           "invalid_choice", "no_prediction"}

\* Type invariant.
TypeOK ==
    /\ BridgeTypeOK
    /\ phase \in {"fetch", "ask", "wait", "report", "saved", "refused"}
    /\ Len(split) <= Len(Tasks)
    /\ attempt \in 1..Attempts
    /\ (phase = "wait") <=> (mine # Nobody)
    /\ \A t \in DOMAIN items : \A i \in DOMAIN items[t] :
          items[t][i].code \in Errors
    /\ output \in {"none", "other", "report"}

\* The lock is given back before a reply is sent: an evaluator that never
\* gave up on a request, alone on the bridge, is never told that it is busy
\* (llm_bridge.py handle and _Handler.do_POST, ptbr_bench.py call).
NeverBusyAlone ==
    others = 0 /\ ~gaveUp => \A c \in Calls : reply[c].status # 429

\* The evaluator and the validator agree: a saved report is accepted exactly
\* if the evaluator declared it ready and its splits, that may come from a
\* cache nobody checks, are those of the Hub (ptbr_bench.py readiness, pick;
\* validate_submission.py validate).
ReadyIsAccepted ==
    phase = "saved" =>
        (Accepts <=> Ready /\ \A t \in DOMAIN Tasks :
                                split[t] = Published[t])

\* Every run of the evaluator ends, whatever the server does: it saves a
\* report or refuses (ptbr_bench.py run, call).
RunEnds == <>(phase \in {"saved", "refused"})
=============================================================================
