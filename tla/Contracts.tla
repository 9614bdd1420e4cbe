----------------------------- MODULE Contracts -----------------------------
(***************************************************************************)
(* The closed values that decisions are made of: requests, calibrations,   *)
(* and the replies of the models behind the scoring backends.              *)
(* What a decision request must be before anything is computed for it:     *)
(* the closed v1alpha1 contract (contracts/models.py), the serialization   *)
(* of its state (serialization.py) and the workflow it names               *)
(* (runtime/workflows.py).  A request is a record:                         *)
(*   form     what its file holds: "closed" when it is the JSON object of  *)
(*            the schema without duplicate keys                            *)
(*   state    its size, whether its keys stay distinct under NFC           *)
(*   nfc      whether all its text is NFC already                          *)
(*   questions   a sequence of [id, type, size, criteria]                  *)
(***************************************************************************)
EXTENDS Integers, Sequences, FiniteSets, Functions

CONSTANTS
    Schemas,    \* the workflows of the registry, a function of their name:
                \* [locale, domain, questions, ordered]
    Locales,    \* pt-BR and en
    Domains,    \* the closed universal taxonomy
    Limits,     \* the limits of sizes and counts, by name
    Keys,       \* the bundled trust registry: id -> [from, revoked, scopes]
    Whole,      \* the parts of a probability of one
    Nothing,    \* Python's None
    Models      \* of each kind of backend [revision, checkpoint, architecture]

Ids(questions) == {questions[i].id : i \in DOMAIN questions}

Distinct(s) == \A i, j \in DOMAIN s : s[i] = s[j] => i = j

Items(s) == {s[i] : i \in DOMAIN s}

\* ChoiceQuestion.
QuestionClosed(q) ==
    /\ Len(q.criteria) \in 2 .. Limits.criteria
    /\ Distinct(q.criteria)

\* DecisionRequest.
RequestClosed(r) ==
    /\ Len(r.questions) \in 1 .. Limits.questions
    /\ \A i \in DOMAIN r.questions : QuestionClosed(r.questions[i])
    /\ Cardinality(Ids(r.questions)) = Len(r.questions)

\* parse_request_json.
Parses(r) ==
    /\ r.form = "closed"
    /\ r.api = "v1alpha1"
    /\ r.mode = "research"
    /\ \A i \in DOMAIN r.questions : r.questions[i].type = "choice"
    /\ RequestClosed(r)

\* _normalize: keys that collide after NFC cannot be serialized, nor can a
\* number outside the domain of RFC 8785.
Canonical(state) == state.distinct /\ state.numbers

\* serialize_state and the byte limit, of the engine and of the command line.
StateFits(r) == Canonical(r.state) /\ r.state.size <= Limits.state

\* serialize_question: criteria in the order of their names.
UnorderedQuestion(q) == <<q.id, q.type, Items(q.criteria)>>

\* ordered_question_bytes: criteria in the order they were given.
OrderedQuestion(q) == <<q.id, q.type, q.criteria>>

SameQuestion(q, known, ordered) ==
    IF ordered THEN OrderedQuestion(q) = OrderedQuestion(known)
               ELSE UnorderedQuestion(q) = UnorderedQuestion(known)

\* A workflow of the registry.
KnownWorkflow(r, schema) ==
    /\ r.locale = schema.locale
    /\ r.domain = schema.domain
    /\ \A i \in DOMAIN r.questions :
          \E known \in schema.questions :
             SameQuestion(r.questions[i], known, schema.ordered)

AtMost(a, b) == IF a < b THEN a ELSE b

CriteriaTotal(r) ==
    FoldFunction(LAMBDA q, n : n + Len(q.criteria), 0, r.questions)

\* _validate_universal_choice.
DynamicWorkflow(r, caps) ==
    /\ caps.tier = "universal"
    /\ r.workflow \in caps.workflows
    /\ r.locale \in Locales
    /\ Len(r.questions) <= AtMost(Limits.dynamicQuestions, caps.questions)
    /\ r.workflow = "julia-ensemble" => CriteriaTotal(r) <= Limits.ensemble
    /\ \A i \in DOMAIN r.questions :
          Len(r.questions[i].criteria)
              <= AtMost(Limits.dynamicCriteria, caps.criteria)

DynamicWorkflows == {"laya", "saracura", "systemone", "julia", "julia-ensemble"}

\* WorkflowRegistry.validate.
WorkflowValid(r, caps) ==
    IF r.workflow \in DOMAIN Schemas
    THEN KnownWorkflow(r, Schemas[r.workflow])
    ELSE r.workflow \in DynamicWorkflows /\ DynamicWorkflow(r, caps)

\* validate_saracura_request_structure.
SaracuraStructure(r) ==
    /\ r.workflow = "saracura"
    /\ r.locale \in Locales
    /\ r.domain \in Domains
    /\ Len(r.questions) <= Limits.dynamicQuestions
    /\ Canonical(r.state)
    /\ r.state.size <= Limits.saracuraState
    /\ \A i \in DOMAIN r.questions :
          /\ Len(r.questions[i].criteria) <= Limits.saracuraCriteria
          /\ r.questions[i].size <= Limits.saracuraText
    /\ r.nfc

\* A name that is not a revision: latest, main or master.
IsAlias(model) == model = "latest"

-----------------------------------------------------------------------------
(***************************************************************************)
(* Calibration artifacts (calibration/models.py and io.py) and the signed  *)
(* receipts of the second schema (research_trust.py).  A digest is the     *)
(* tuple of what it is computed from.  An artifact is a record:            *)
(*   schema, method, shape   the wire form; "closed" when it is canonical  *)
(*   context   the axes a calibration is valid for                         *)
(*   fit       temperature, counts and metrics, and whether they reconcile *)
(*   id, candidate, receipt, receiptDigest                                 *)
(***************************************************************************)

Never == 1000       \* a key that is not revoked; later than every clock

CandidateDigest(a) == <<"candidate", a.context, a.fit>>

ReceiptDigest(receipt) == <<"receipt", receipt>>

ResearchId(a) == <<"research", a.context, a.fit, a.receiptDigest>>

IdentityId(a) == <<"identity", a.context>>

\* PerLabelMetrics, BlindMetrics and the independent-state counts.
FitReconciles(a) == a.fit.sound

\* verify_release_receipt at time now: its life, its evidence and its key.
ReceiptLive(receipt, now) ==
    /\ receipt.shape = "closed"
    /\ receipt.issued < receipt.expires
    /\ receipt.expires <= receipt.issued + Limits.receiptLife
    /\ receipt.issued <= now /\ now < receipt.expires

\* A key of the bundled registry, which parses as a whole or not at all.
Registered(key) == key \in DOMAIN Keys

KeyAccepts(receipt, now) ==
    /\ Registered(receipt.key)
    /\ LET key == Keys[receipt.key] IN
          /\ receipt.scope \in key.scopes
          /\ key.from <= receipt.issued
          /\ key.from <= now
          /\ key.revoked # Never =>
                /\ receipt.issued < key.revoked
                /\ now < key.revoked
                /\ receipt.expires <= key.revoked
    /\ receipt.signed

ReceiptVerifies(receipt, now) ==
    ReceiptLive(receipt, now) /\ KeyAccepts(receipt, now)

\* _verify_research_artifact: the candidate is rebuilt from the artifact, and
\* the receipt binds what the artifact shares with it.
ResearchVerifies(a, now) ==
    /\ a.id = ResearchId(a)
    /\ a.receiptDigest = ReceiptDigest(a.receipt)
    /\ FitReconciles(a)
    /\ a.candidate = CandidateDigest(a)
    /\ ReceiptVerifies(a.receipt, now)
    /\ a.receipt.scope = "research_calibration"
    /\ a.receipt.evidence =
          [packet |-> a.context.profile, checkpoint |-> a.context.checkpoint,
           candidate |-> a.candidate]

\* The closed union of artifacts, entered again whatever class an object has.
Revalidates(a) ==
    /\ FitReconciles(a)
    /\ CASE a.schema = 2 -> a.id = ResearchId(a)
         [] a.schema = 1 /\ a.method = "temperature" -> a.status = "fixture_only"
         [] a.schema = 1 /\ a.method = "identity" ->
               a.status = "fixture_only" /\ a.id = IdentityId(a)
         [] OTHER -> FALSE

\* _parse_artifact: the second schema must be canonical on the wire as well.
EnvelopeParses(a) ==
    /\ a.shape = "closed" \/ (a.schema = 1 /\ a.shape = "loose")
    /\ Revalidates(a)

\* load_calibration_envelope.
EnvelopeLoads(a, now) ==
    /\ EnvelopeParses(a)
    /\ a.schema = 2 => a.private /\ ResearchVerifies(a, now)

\* The status an answer may claim from the artifact.
StatusOf(a) == IF a.schema = 2 THEN "verified_for_research" ELSE "fixture_only"

\* cardinality_bucket.
Bucket(n) == IF n <= Limits.smallBucket THEN "small" ELSE "large"

\* calibration_context: None when a backend that is not the fixture has no
\* dataset profile.
ContextOf(r, question, model, profile) ==
    [model |-> model.revision, checkpoint |-> model.checkpoint,
     architecture |-> model.architecture, workflow |-> r.workflow,
     question |-> question.id, profile |-> profile, locale |-> r.locale,
     domain |-> r.domain, bucket |-> Bucket(Len(question.criteria))]

\* validate_calibration_compatibility: every axis is the expected one.
Compatible(a, expected) == a.context = expected

-----------------------------------------------------------------------------
(***************************************************************************)
(* What each scoring backend takes and what it makes of the reply of the   *)
(* model behind it: backends/fixture.py, minilm.py, laya.py,               *)
(* saracura_universal.py, systemone.py and julia.py, and the check of the  *)
(* decision engine on whatever a backend returns.  Probabilities are       *)
(* numbers of parts out of Whole; a part outside 0 .. Whole stands for a   *)
(* value that is not a probability, or not finite.  A reply is a record    *)
(*   form      "closed" when it parses; "lost" for a transport failure,    *)
(*             another status or too many bytes                            *)
(*   question, answers, weights, choice, tokens                            *)
(*   of        what the weights of a reply already normalized add up to,   *)
(*             only for the backend of a caller                            *)
(***************************************************************************)

Compiled == {"fixture", "minilm"}
JuliaKinds == {"julia", "julia-ensemble"}
Universal == {"laya", "saracura", "systemone", "custom"} \cup JuliaKinds
Kinds == Compiled \cup Universal

\* BackendCapabilities; "custom" is a backend of a library's caller.
Capabilities(kind) ==
    [tier |-> IF kind \in Compiled THEN "compiled" ELSE "universal",
     questions |-> CASE kind = "fixture" -> Limits.questions
                     [] kind = "minilm" -> 1
                     [] OTHER -> Limits.dynamicQuestions,
     criteria |-> CASE kind = "fixture" -> Limits.criteria
                    [] kind = "minilm" -> Limits.dynamicCriteria
                    [] kind = "saracura" -> Limits.saracuraCriteria
                    [] kind = "julia-ensemble" -> Limits.ensemble + 1
                    [] OTHER -> Limits.dynamicCriteria,
     workflows |-> IF kind = "custom" THEN DynamicWorkflows
                   ELSE {kind} \cap DynamicWorkflows]

-----------------------------------------------------------------------------
(* validate_request *)

SystemOneRequest(r) ==
    r.workflow = "systemone" /\ r.locale \in Locales /\ Len(r.questions) <= 1

JuliaRequest(kind, r) ==
    /\ r.workflow = kind
    /\ kind = "julia-ensemble" => CriteriaTotal(r) <= Limits.ensemble
    /\ r.locale \in Locales

\* validate_saracura_model_identity.
SaracuraIdentity(r) == r.model = Models["saracura"].revision

BackendAccepts(kind, r) ==
    CASE kind = "laya" -> r.nfc
      [] kind = "saracura" -> SaracuraStructure(r) /\ SaracuraIdentity(r)
      [] kind = "systemone" -> SystemOneRequest(r)
      [] kind \in JuliaKinds -> JuliaRequest(kind, r)
      [] OTHER -> TRUE

-----------------------------------------------------------------------------
(* scores *)

Total(weights) == FoldFunction(LAMBDA w, n : w + n, 0, weights)

Finite(weights) == \A l \in DOMAIN weights : weights[l] \in 0 .. Whole

Best(weights) ==
    {l \in DOMAIN weights : \A m \in DOMAIN weights : weights[m] <= weights[l]}

\* The first of the criteria that has the greatest weight.
FirstBest(q, weights) ==
    LET best == {i \in DOMAIN q.criteria : q.criteria[i] \in Best(weights)}
    IN  q.criteria[CHOOSE i \in best : \A j \in best : i <= j]

\* What a ScoredChoice says of normalized probabilities: the parts of of that
\* the backend made itself, or nothing.
Over(parts, of) == [made |-> TRUE, parts |-> parts, of |-> of]
Raw == [made |-> FALSE, parts |-> Nothing, of |-> Nothing]

\* A ScoredChoice.
\* The bundled backends count their tokens themselves: no number below zero.
Scored(q, raw, normalized, choice) ==
    [question |-> q.id, raw |-> raw, normalized |-> normalized,
     choice |-> choice, tokens |-> 0]

\* _parse_wire_response.
WireParses(w) == w.form = "closed" /\ Finite(w.weights) /\ w.tokens >= 0

Off(a, b) == IF a < b THEN b - a ELSE a - b

\* score_universal_choice of SystemOneBackend: one answer, about exactly the
\* criteria, a sum within the rounding bound and a choice that is a maximum.
SystemOneAnswers(w, q) ==
    /\ WireParses(w)
    /\ w.answers = 1
    /\ DOMAIN w.weights = Items(q.criteria)
    /\ Off(Total(w.weights), Whole) <= Limits.rounding
    /\ w.choice \in Best(w.weights)

\* _choice_answer of julia.py: the sum is exact.
JuliaAnswers(w, q) ==
    /\ w.form = "closed"
    /\ w.answers = 1
    /\ w.question = q.id
    /\ DOMAIN w.weights = Items(q.criteria)
    /\ Finite(w.weights)
    /\ Total(w.weights) = Whole
    /\ w.choice \in Best(w.weights)

\* _cyclic_mean: one reply for each rotation of the criteria, added up.
CyclicTotal(replies, q) ==
    [l \in Items(q.criteria) |->
        FoldFunction(LAMBDA w, n : w.weights[l] + n, 0, replies)]

CyclicAnswers(replies, q) ==
    /\ \A i \in DOMAIN replies : JuliaAnswers(replies[i], q)
    /\ Total(CyclicTotal(replies, q)) > 0

\* score_choice of MiniLMRoutingBackend: its one question in its one order.
MiniLMAnswers(w, q) ==
    /\ \E known \in Schemas["minilm"].questions :
          OrderedQuestion(q) = OrderedQuestion(known)
    /\ w.form = "closed"
    /\ Finite(w.weights)
    /\ DOMAIN w.weights = Items(q.criteria)

\* encode_state: MiniLM decodes the frame again and takes a single text.
Encodes(kind, r) == kind = "minilm" => r.state.single

\* How many replies a question needs.
Asks(kind, q) == IF kind = "julia-ensemble" THEN Len(q.criteria) ELSE 1

When(condition, scores) == IF condition THEN scores ELSE {}

\* What a backend returns for a question; nothing when it raises instead.
ScoresOf(kind, q, replies) ==
    LET w == replies[1]
        sums == CyclicTotal(replies, q)
    IN
    CASE kind = "systemone" ->
            When(SystemOneAnswers(w, q),
                 {Scored(q, w.weights, Over(w.weights, Total(w.weights)),
                         w.choice)})
      [] kind = "julia" ->
            When(JuliaAnswers(w, q),
                 {Scored(q, w.weights, Over(w.weights, Whole), w.choice)})
      [] kind = "julia-ensemble" ->
            When(CyclicAnswers(replies, q),
                 {Scored(q, sums, Over(sums, Total(sums)), FirstBest(q, sums))})
      [] kind = "minilm" ->
            When(MiniLMAnswers(w, q), {Scored(q, w.weights, Raw, Nothing)})
      [] kind = "custom" ->
            When(w.form # "lost",
                 {[question |-> w.question, raw |-> w.raw, choice |-> w.choice,
                   tokens |-> w.tokens,
                   normalized |-> IF w.form = "closed" THEN Over(w.weights, Whole)
                                  ELSE Raw]})
      [] OTHER ->
            When(w.form = "closed" /\ Finite(w.weights),
                 {Scored(q, w.weights, Raw, Nothing)})

-----------------------------------------------------------------------------
(* What the engine demands of a score before it answers with it. *)

\* _validate_scored_choice: a part below zero stands for a number that is not
\* finite.
ScoreLegal(s, q) ==
    /\ s.question = q.id
    /\ DOMAIN s.raw = Items(q.criteria)
    /\ \A l \in DOMAIN s.raw : s.raw[l] \in Nat

\* _validate_normalized_distribution and _validate_selected_choice.
IsDistribution(parts, of) ==
    /\ \A l \in DOMAIN parts : parts[l] \in 0 .. of
    /\ Total(parts) = of

DistributionLegal(s) ==
    LET parts == s.normalized.parts IN
    /\ DOMAIN parts # {}
    /\ IsDistribution(parts, s.normalized.of)
    /\ s.choice \in Best(parts)
=============================================================================
