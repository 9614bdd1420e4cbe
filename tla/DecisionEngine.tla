--------------------------- MODULE DecisionEngine ---------------------------
(***************************************************************************)
(* runtime/engine.py: decide, for callers that each pass a backend and a   *)
(* mapping of calibration artifacts.  The mapping stays the caller's, who  *)
(* may put another object in it at any time; receipts expire as time goes. *)
(***************************************************************************)
EXTENDS Contracts

CONSTANTS
    Callers,        \* commands and shadow runners
    Replies(_),     \* the replies the model behind a backend may give
    MaxClock        \* bound of the clock

ASSUME EngineAssumption == MaxClock \in Nat /\ Whole \in Nat \ {0}

VARIABLES
    call,       \* of each caller, the decide call it is in
    registry,   \* of each caller, its mapping of artifacts
    backend,    \* of each caller, its backend
    clock

engineVars == <<call, registry, backend, clock>>

NoCall ==
    [at |-> "idle", request |-> Nothing, profile |-> Nothing, entered |-> 0,
     resolved |-> <<>>, encoded |-> 0, answers |-> <<>>]

NoBackend ==
    [kind |-> Nothing, verified |-> Nothing, loaded |-> Nothing,
     open |-> FALSE, opened |-> 0, closed |-> 0]

InitEngine(artifacts) ==
    /\ call = [c \in Callers |-> NoCall]
    /\ registry = artifacts
    /\ backend = [c \in Callers |-> NoBackend]
    /\ clock = 0

KindOf(c) == backend[c].kind
ModelOf(c) == Models[KindOf(c)]
Asked(c) == call[c].request

Go(c, step) == call' = [call EXCEPT ![c].at = step]
Refuse(c) == Go(c, "refused")

\* decide is entered; artifacts were passed to the constructor.
Enter(c, request, profile) ==
    call' = [call EXCEPT ![c] =
               [NoCall EXCEPT !.at = "gates", !.request = request,
                              !.profile = profile, !.entered = clock]]

-----------------------------------------------------------------------------

\* _validate_backend_and_request.
CapabilitiesAllow(caps, model, r) ==
    /\ r.model = model.revision
    /\ Len(r.questions) <= caps.questions
    /\ \A i \in DOMAIN r.questions : Len(r.questions[i].criteria) <= caps.criteria

\* Everything decide looks at before any work is done for the request.
Admits(c) ==
    LET r == Asked(c)
        caps == Capabilities(KindOf(c))
    IN  /\ CapabilitiesAllow(caps, ModelOf(c), r)
        /\ caps.tier = "universal" => DOMAIN registry[c] = {}
        /\ WorkflowValid(r, caps)
        /\ caps.tier = "universal" => BackendAccepts(KindOf(c), r)
        /\ StateFits(r)

Check(c) ==
    /\ call[c].at = "gates"
    /\ IF ~Admits(c) THEN Refuse(c)
       ELSE Go(c, IF KindOf(c) \in Compiled THEN "resolve" ELSE "score")
    /\ UNCHANGED <<registry, backend, clock>>

\* The question a call is at.
Current(c, done) == Asked(c).questions[Len(done) + 1]

Finished(c, done) == Len(done) + 1 = Len(Asked(c).questions)

\* _implicit_fixture_profile: only the fixture has a profile of its own.
ProfileOf(c) ==
    IF call[c].profile # Nothing THEN call[c].profile
    ELSE IF KindOf(c) = "fixture" THEN "fixture" ELSE Nothing

\* Mutant: the receipt was verified when the envelope was loaded.
ResolvesUnverified(c, q) ==
    /\ q.id \in DOMAIN registry[c]
    /\ ProfileOf(c) # Nothing
    /\ LET a == registry[c][q.id] IN
          /\ Revalidates(a)
          /\ Compatible(a, ContextOf(Asked(c), q, ModelOf(c), ProfileOf(c)))

\* An artifact is taken on what it says now, never on its class or on an
\* earlier look at it.
Resolves(c, q) ==
    /\ q.id \in DOMAIN registry[c]
    /\ ProfileOf(c) # Nothing
    /\ LET a == registry[c][q.id] IN
          /\ Revalidates(a)
          /\ a.schema = 2 => ResearchVerifies(a, clock)
          /\ Compatible(a, ContextOf(Asked(c), q, ModelOf(c), ProfileOf(c)))

\* _resolve_calibrations, one question at a time.
Resolve(c) ==
    /\ call[c].at = "resolve"
    /\ LET q == Current(c, call[c].resolved) IN
          IF ~Resolves(c, q) THEN Refuse(c)
          ELSE call' = [call EXCEPT
                 ![c].resolved = Append(@, registry[c][q.id]),
                 ![c].at = IF Finished(c, call[c].resolved) THEN "encode"
                           ELSE "resolve"]
    /\ UNCHANGED <<registry, backend, clock>>

\* encode_state of a compiled backend, once for all the questions.
Encode(c) ==
    /\ call[c].at = "encode"
    /\ IF Encodes(KindOf(c), Asked(c))
       THEN call' = [call EXCEPT ![c].at = "score", ![c].encoded = @ + 1]
       ELSE Refuse(c)
    /\ UNCHANGED <<registry, backend, clock>>

\* The answer to a question from a calibrated score: a softmax, which is not
\* computed here, keeps the order of the raw scores; of equal ones the first in
\* the order of the backend.
CompiledAnswer(q, s, a) ==
    [question |-> q.id, raw |-> s.raw, weights |-> s.raw, scale |-> Raw,
     value |-> CHOOSE l \in Best(s.raw) : TRUE,
     status |-> IF a.schema = 2 THEN "calibrated" ELSE "fixture_only",
     abstained |-> FALSE, calibration |-> [id |-> a.id, status |-> StatusOf(a)]]

\* The answer to a question from a ranking: never calibrated, and abstained.
UniversalAnswer(q, s) ==
    LET raw == [l \in Items(q.criteria) |-> s.raw[l]] IN
    [question |-> q.id, raw |-> raw,
     weights |-> IF s.normalized.made THEN s.normalized.parts ELSE raw,
     scale |-> s.normalized,
     value |-> IF s.normalized.made THEN s.choice ELSE FirstBest(q, raw),
     status |-> "uncalibrated", abstained |-> TRUE, calibration |-> Nothing]

\* The consistency that Answer itself demands.
AnswerConsistent(a) ==
    IF a.status = "uncalibrated"
    THEN a.abstained /\ a.calibration = Nothing
    ELSE /\ a.calibration # Nothing
         /\ a.calibration.status = IF a.status = "calibrated"
               THEN "verified_for_research" ELSE "fixture_only"

AnswerOf(c, q, s) ==
    IF KindOf(c) \in Compiled
    THEN CompiledAnswer(q, s, call[c].resolved[Len(call[c].answers) + 1])
    ELSE UniversalAnswer(q, s)

\* Mutant: a distribution that a backend made itself is not looked at.
TakesAny(c, q, s) ==
    ScoreLegal(s, q) /\ AnswerConsistent(AnswerOf(c, q, s)) /\ s.tokens >= 0

\* A score the engine answers with.
Takes(c, q, s) ==
    /\ ScoreLegal(s, q)
    /\ s.normalized.made => DistributionLegal(s)
    /\ AnswerConsistent(AnswerOf(c, q, s))
    /\ s.tokens >= 0

\* One question is scored; the first use of a lazy backend loads its model.
Score(c, content) ==
    /\ call[c].at = "score"
    /\ backend[c].open
    /\ LET q == Current(c, call[c].answers) IN
       \E replies \in [1 .. Asks(KindOf(c), q) -> Replies(q)] :
          LET scores == {s \in ScoresOf(KindOf(c), q, replies) : Takes(c, q, s)} IN
          IF scores = {} THEN Refuse(c)
          ELSE \E s \in scores :
             call' = [call EXCEPT
               ![c].answers = Append(@, AnswerOf(c, q, s)),
               ![c].at = IF Finished(c, call[c].answers) THEN "answered"
                         ELSE "score"]
    /\ backend' = [backend EXCEPT ![c].loaded = content]
    /\ UNCHANGED <<registry, clock>>

\* The model cannot be loaded, or its capacity is exceeded.
Unavailable(c, content) ==
    /\ call[c].at = "score"
    /\ Refuse(c)
    /\ backend' = [backend EXCEPT ![c].loaded = content]
    /\ UNCHANGED <<registry, clock>>

-----------------------------------------------------------------------------

Tick ==
    /\ clock < MaxClock
    /\ clock' = clock + 1
    /\ UNCHANGED <<call, registry, backend>>
=============================================================================
