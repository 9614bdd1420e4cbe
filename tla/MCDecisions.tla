----------------------------- MODULE MCDecisions -----------------------------
(* One command, one caller of the library, or two shadow runners, by scenario. *)
EXTENDS ShadowMode

Question(id, criteria) == [id |-> id, type |-> "choice", size |-> 1,
                           criteria |-> criteria]

Route == Question("route", <<"b", "a">>)
Second == Question("second", <<"a", "c">>)
Three == Question("three", <<"a", "b", "c">>)

MCSchemas ==
    [name \in {"fixture", "minilm"} |->
        IF name = "fixture"
        THEN [locale |-> "pt", domain |-> "support",
              questions |-> {Route, Second}, ordered |-> FALSE]
        ELSE [locale |-> "pt", domain |-> "support",
              questions |-> {Route}, ordered |-> TRUE]]

MCLimits ==
    [criteria |-> 3, questions |-> 2, state |-> 2, dynamicQuestions |-> 2,
     dynamicCriteria |-> 3, ensemble |-> 4, saracuraState |-> 1,
     saracuraCriteria |-> 2, saracuraText |-> 1, receiptLife |-> 2,
     smallBucket |-> 2, rounding |-> 1, fields |-> 1, batch |-> 2]

MCModels ==
    [kind \in Kinds |->
        [revision |-> kind, checkpoint |-> kind, architecture |-> kind]]

MCKeys ==
    [key \in {"good", "revoked"} |->
        [from |-> 0, revoked |-> IF key = "good" THEN Never ELSE 2,
         scopes |-> {"research_calibration"}]]

-----------------------------------------------------------------------------
(* Requests: one that every gate of its lane lets through, and its spoils *)

State == [size |-> 1, distinct |-> TRUE, numbers |-> TRUE, single |-> TRUE]

Good(lane) ==
    [form |-> "closed", api |-> "v1alpha1", mode |-> "research", model |-> lane,
     locale |-> "pt", domain |-> "support", workflow |-> lane, state |-> State,
     nfc |-> TRUE, questions |-> <<Route>>]

Spoiled(r) ==
    {[r EXCEPT !.form = "duplicate"], [r EXCEPT !.api = "v2"],
     [r EXCEPT !.model = "latest"], [r EXCEPT !.model = "stranger"],
     [r EXCEPT !.locale = "fr"], [r EXCEPT !.workflow = "unknown"],
     [r EXCEPT !.state.size = 2], [r EXCEPT !.state.size = 3],
     [r EXCEPT !.state.distinct = FALSE], [r EXCEPT !.state.single = FALSE],
     [r EXCEPT !.nfc = FALSE],
     [r EXCEPT !.questions = <<Question("route", <<"a", "b">>)>>],
     [r EXCEPT !.questions = <<Route, Route>>],
     [r EXCEPT !.questions = <<Route, Second>>],
     [r EXCEPT !.questions = <<Three, Second>>]}

Requested(lane) == {Good(lane)} \cup Spoiled(Good(lane))

-----------------------------------------------------------------------------
(* Artifacts *)

Fit == [sound |-> TRUE]

Context(lane, q, profile) ==
    ContextOf(Good(lane), q, MCModels[lane], profile)

Identity(context) ==
    [schema |-> 1, method |-> "identity", shape |-> "closed", private |-> TRUE,
     status |-> "fixture_only", context |-> context, fit |-> Fit,
     id |-> <<"identity", context>>]

Receipt(context, key, expires) ==
    [shape |-> "closed", issued |-> 0, expires |-> expires, key |-> key,
     scope |-> "research_calibration", signed |-> TRUE,
     evidence |-> [packet |-> context.profile, checkpoint |-> context.checkpoint,
                   candidate |-> <<"candidate", context, Fit>>]]

Signed(context, key, expires) ==
    LET receipt == Receipt(context, key, expires) IN
    [schema |-> 2, method |-> "temperature", shape |-> "closed", private |-> TRUE,
     status |-> "verified_for_research", context |-> context, fit |-> Fit,
     candidate |-> <<"candidate", context, Fit>>, receipt |-> receipt,
     receiptDigest |-> <<"receipt", receipt>>,
     id |-> <<"research", context, Fit, <<"receipt", receipt>> >>]

\* Expired soon, of a key revoked later, altered after it was signed, and of
\* another context.
SignedSet(context) ==
    {Signed(context, "good", 2), Signed(context, "good", 1),
     Signed(context, "revoked", 2),
     [Signed(context, "good", 2) EXCEPT !.fit.sound = FALSE],
     [Signed(context, "good", 2) EXCEPT !.receipt.signed = FALSE],
     [Signed(context, "good", 2) EXCEPT !.context.locale = "en"],
     [Signed(context, "good", 2) EXCEPT !.private = FALSE],
     Signed([context EXCEPT !.bucket = "large"], "good", 2)}

Envelopes(lane) ==
    IF lane = "minilm"
    THEN {Identity(Context(lane, Route, "identity"))}
         \cup SignedSet(Context(lane, Route, "dataset"))
    ELSE {Identity(Context(lane, Route, "fixture")),
          [Identity(Context(lane, Route, "fixture")) EXCEPT !.shape = "loose"],
          [Identity(Context(lane, Route, "fixture")) EXCEPT !.id = <<"none">>]}

MappingOf(first, second) ==
    [id \in {"route", "second"} |-> IF id = "route" THEN first ELSE second]

Mappings(lane) ==
    IF lane = "custom" THEN {<<>>, [id \in {"route"} |-> Nothing]}
    ELSE {MappingOf(Identity(Context(lane, Route, "fixture")), a) :
             a \in SignedSet(Context(lane, Second, "fixture"))}

-----------------------------------------------------------------------------
(* Replies of the models *)

Weights(q, first, rest) ==
    [l \in Items(q.criteria) |-> IF l = q.criteria[1] THEN first ELSE rest]

Reply(q, weights, choice) ==
    [form |-> "closed", question |-> q.id, answers |-> 1, weights |-> weights,
     raw |-> weights, choice |-> choice, tokens |-> 0]

MCReplies(q) ==
    LET last == q.criteria[Len(q.criteria)]
        reply == Reply(q, Weights(q, 2, 2), last)
        alien == [l \in {"z", "a"} |-> 2]
    IN  {reply, Reply(q, Weights(q, 1, 3), last), Reply(q, Weights(q, 3, 1), last),
         Reply(q, Weights(q, 3, 2), q.criteria[1]),
         Reply(q, Weights(q, -1, 5), last),
         [reply EXCEPT !.form = "lost"], [reply EXCEPT !.answers = 2],
         [reply EXCEPT !.question = "other"], [reply EXCEPT !.tokens = -1],
         [reply EXCEPT !.weights = alien, !.choice = "z"]}

-----------------------------------------------------------------------------
(* Shadow batches *)

ThePolicy ==
    [form |-> "closed", revision |-> "v1", model |-> "saracura", locale |-> "pt",
     domain |-> "support", workflow |-> "saracura", keys |-> {"text"},
     question |-> Route, nfc |-> TRUE]

MCPolicies == {ThePolicy, [ThePolicy EXCEPT !.locale = "en"]}

Item(ref) == [form |-> "closed", ref |-> ref, keys |-> {"text"}, state |-> State,
              nfc |-> TRUE]

Batches ==
    {<<>>, <<Item("i1")>>, <<Item("i1"), Item("i2")>>, <<Item("i1"), Item("i1")>>,
     <<Item("i1"), Item("i2"), Item("i3")>>,
     <<Item("i1"), [Item("i2") EXCEPT !.keys = {"other"}]>>,
     <<Item("i1"), [Item("i2") EXCEPT !.state.size = 2]>>,
     <<[Item("i1") EXCEPT !.nfc = FALSE], Item("i2")>>,
     <<[Item("i1") EXCEPT !.form = "open"], Item("i2")>>}

PoliciesGiven ==
    {ThePolicy, [ThePolicy EXCEPT !.model = "latest"],
     [ThePolicy EXCEPT !.model = "stranger"], [ThePolicy EXCEPT !.form = "open"]}

Said(f) == [ref |-> f[1], policy |-> PolicyDigest(ThePolicy),
            disposition |-> IF f[2] = Nothing THEN "skipped" ELSE "labeled",
            label |-> f[2]]

MCFeedback(ds) ==
    LET said == {Said(f) : f \in (References(ds) \cup {"stranger"})
                                    \X {"a", "b", "z", Nothing}}
    IN  {<<>>} \cup {<<f>> : f \in said} \cup {<<f, g>> : f, g \in said}

-----------------------------------------------------------------------------
(* Scenarios *)

MCCommands == {"k"}
MCRunners == {"r1", "r2"}
MCCallers == MCCommands \cup MCRunners

Idle == [lane |-> "fixture", step |-> "done", args |-> "fixture",
         request |-> Nothing, envelope |-> Nothing]
Ready == [source |-> "command", policy |-> ThePolicy, input |-> <<>>,
          args |-> TRUE, active |-> FALSE]

Command(lane, step, r, envelope) ==
    [lane |-> lane, step |-> step, args |-> lane, request |-> r,
     envelope |-> envelope]

CommandScenarios ==
    UNION {{Command(lane, FirstStep(lane), r, Nothing) : r \in Requested(lane)} :
              lane \in Universal \ {"custom"}}
    \cup UNION {{Command(lane, "request", r, a) :
                    r \in Requested(lane), a \in Envelopes(lane) \cup {Nothing}} :
              lane \in Compiled}
    \cup {Command(lane, "describe", Nothing, Nothing) :
              lane \in {"laya", "saracura", "minilm"}}
    \cup {[Command("laya", "describe", Nothing, Nothing) EXCEPT !.args = "none"]}
    \cup {Command("minilm", "identity", r, a) :
             r \in Requested("minilm"),
             a \in {Nothing, Identity(Context("minilm", Route, "identity"))}}
    \cup {Command("fixture", "embed", [Good("fixture") EXCEPT
             !.questions = <<Route, Second>>], m) : m \in Mappings("fixture")}
    \cup {Command("custom", "embed", r, m) :
             r \in {Good("laya"), [Good("laya") EXCEPT !.model = "custom"],
                    [Good("laya") EXCEPT !.model = "custom",
                                         !.questions = <<Route, Second>>]},
             m \in Mappings("custom")}

RunnerScenarios ==
    {[c \in MCRunners |->
        IF c = "r1" THEN [source |-> "command", policy |-> p, input |-> batch,
                          args |-> TRUE, active |-> TRUE]
        ELSE Ready] : p \in PoliciesGiven, batch \in Batches}
    \cup {[c \in MCRunners |->
        [source |-> "library", policy |-> IF c = "r1" THEN ThePolicy ELSE p,
         input |-> <<Item("i1"), Item("i2")>>, args |-> TRUE, active |-> TRUE]] :
            p \in PoliciesGiven}

Nobody == [c \in MCRunners |-> Ready]

MCScenarios ==
    {[commands |-> [c \in MCCommands |-> k], runners |-> Nobody] : k \in CommandScenarios}
    \cup {[commands |-> [c \in MCCommands |-> Idle], runners |-> s] : s \in RunnerScenarios}
=============================================================================
