--------------------------- MODULE DecideCommands ---------------------------
(***************************************************************************)
(* cli.py: the decide command in its lanes, describe-backend and           *)
(* create-identity-calibration.  Each lane opens its files at its own      *)
(* moments, and anybody may put other files in their place in between.     *)
(***************************************************************************)
EXTENDS DecisionEngine

CONSTANTS
    Commands,           \* the callers that are commands
    MaxReplacements     \* bound on files replaced

ASSUME CommandsAssumption == Commands \subseteq Callers /\ MaxReplacements \in Nat

VARIABLES
    command,    \* of each command [lane, step, args, request, envelope, ...]
    disk,       \* what the artifact paths hold: "pinned", "other" or "absent"
    replaced,   \* how many were replaced
    printed     \* of each command, the answers on its standard output

commandVars == <<command, disk, replaced, printed>>

Artifacts == {"capsule", "encoder", "weights", "snapshot"}

InitCommands(given, files) ==
    /\ command = [c \in Commands |->
          [lane |-> given[c].lane, step |-> given[c].step, args |-> given[c].args,
           request |-> given[c].request, envelope |-> given[c].envelope,
           made |-> Nothing]]
    /\ disk = files
    /\ replaced = 0
    /\ printed = [c \in Commands |-> Nothing]

Lane(c) == command[c].lane
At(c, step) == command[c].step = step

To(c, step) == command' = [command EXCEPT ![c].step = step]

\* An error is printed and the exit status is 2.
Fail(c) == To(c, "failed")

\* Arguments for another backend are refused, missing ones as well.
ArgumentsLegal(c) == command[c].args = Lane(c)

-----------------------------------------------------------------------------
(* Gates on the request alone *)

\* The capabilities a lane assumes before there is a backend.
PreCapabilities(lane) == Capabilities(lane)

IdentityKnown(lane, r) ==
    CASE lane \in {"laya", "systemone"} \cup JuliaKinds ->
            r.model = Models[lane].revision
      [] OTHER -> TRUE

\* _prevalidate_request.
Prevalid(lane, r) ==
    /\ Parses(r)
    /\ lane \in Compiled => Len(r.questions) = 1
    /\ WorkflowValid(r, PreCapabilities(lane))
    /\ lane # "saracura" => ~IsAlias(r.model)
    /\ StateFits(r)
    /\ lane \in Universal => r.nfc
    /\ lane = "saracura" => SaracuraStructure(r)
    /\ IdentityKnown(lane, r)

AfterRequest(lane) ==
    CASE lane \in Compiled -> "envelope"
      [] lane = "saracura" -> "capsule"
      [] lane = "systemone" -> "decide"
      [] OTHER -> "construct"

FirstStep(lane) == IF lane = "systemone" THEN "construct" ELSE "request"

ReadRequest(c) ==
    /\ At(c, "request")
    /\ IF Prevalid(Lane(c), command[c].request)
       THEN To(c, AfterRequest(Lane(c)))
       ELSE Fail(c)
    /\ UNCHANGED <<engineVars, disk, replaced, printed>>

-----------------------------------------------------------------------------
(* Artifacts and the backend *)

\* The envelope is read once; what was read is what the engine is given.
ReadEnvelope(c) ==
    /\ At(c, "envelope")
    /\ LET a == command[c].envelope IN
          IF a = Nothing \/ ~EnvelopeLoads(a, clock)
          THEN Fail(c) /\ UNCHANGED registry
          ELSE /\ To(c, "construct")
               /\ registry' = [registry EXCEPT
                     ![c] = [id \in Ids(command[c].request.questions) |-> a]]
    /\ UNCHANGED <<call, backend, clock, disk, replaced, printed>>

\* verify_training_capsule: its bytes are kept, and the identity compared.
VerifyTrainingCapsule(c) ==
    /\ At(c, "capsule")
    /\ IF ArgumentsLegal(c) /\ disk["capsule"] = "pinned"
          /\ SaracuraIdentity(command[c].request)
       THEN command' = [command EXCEPT ![c].step = "construct",
                                       ![c].made = disk["capsule"]]
       ELSE Fail(c)
    /\ UNCHANGED <<engineVars, disk, replaced, printed>>

Open(c, content) ==
    backend' = [backend EXCEPT
       ![c] = [kind |-> Lane(c), verified |-> content, loaded |-> Nothing,
               open |-> TRUE, opened |-> @.opened + 1, closed |-> @.closed]]

\* load_verified_minilm_bytes: the snapshot and the capsule, read once.
MiniLMBytes == IF disk["encoder"] = "pinned" THEN disk["capsule"] ELSE "other"

\* MiniLM loads what it read at once, and repeats its conformance vector.
Conforms(content) == content = "pinned"

\* What a constructor verifies: Julia takes the digest of its weights, Saracura
\* checks the bytes it is handed.
Constructs(c) ==
    CASE Lane(c) = "minilm" -> MiniLMBytes
      [] Lane(c) = "saracura" -> command[c].made
      [] Lane(c) \in JuliaKinds -> disk["weights"]
      [] OTHER -> "pinned"

Construct(c) ==
    /\ At(c, "construct")
    /\ IF ArgumentsLegal(c) /\ Conforms(Constructs(c))
       THEN /\ Open(c, Constructs(c))
            /\ To(c, CASE Lane(c) = "systemone" -> "request"
                       [] Lane(c) \in Compiled -> "context"
                       [] OTHER -> "decide")
       ELSE Fail(c) /\ UNCHANGED backend
    /\ UNCHANGED <<call, registry, clock, disk, replaced, printed>>

\* MiniLM takes the profile of a research artifact, or its identity profile.
ProfileFor(c) ==
    CASE Lane(c) = "minilm" /\ command[c].envelope.schema = 2 ->
            command[c].envelope.context.profile
      [] Lane(c) = "minilm" -> "identity"
      [] OTHER -> Nothing

CheckContext(c) ==
    /\ At(c, "context")
    /\ LET r == command[c].request
           profile == IF Lane(c) = "fixture" THEN "fixture" ELSE ProfileFor(c)
       IN  IF Compatible(command[c].envelope,
                         ContextOf(r, r.questions[1], ModelOf(c), profile))
           THEN To(c, "decide") ELSE Fail(c)
    /\ UNCHANGED <<engineVars, disk, replaced, printed>>

-----------------------------------------------------------------------------
(* The decision *)

Decide(c) ==
    /\ At(c, "decide")
    /\ call[c].at = "idle"
    /\ Enter(c, command[c].request, ProfileFor(c))
    /\ To(c, "deciding")
    /\ UNCHANGED <<registry, backend, clock, disk, replaced, printed>>

\* Mutant: MiniLM keeps the path of its capsule until it scores.
LoadsFromDisk(c) ==
    CASE KindOf(c) \in {"laya", "saracura"} -> disk["snapshot"]
      [] KindOf(c) \in JuliaKinds -> disk["weights"]
      [] KindOf(c) = "minilm" -> disk["capsule"]
      [] OTHER -> backend[c].verified

\* What the first question makes a lazy backend load: Laya and Saracura verify
\* their snapshot into memory and load that, Julia opens its path again.
Loads(c) ==
    IF backend[c].loaded # Nothing THEN backend[c].loaded
    ELSE CASE KindOf(c) = "laya" -> disk["snapshot"]
           [] KindOf(c) = "saracura" ->
                 IF disk["encoder"] = "pinned" THEN backend[c].verified
                 ELSE disk["encoder"]
           [] KindOf(c) \in JuliaKinds -> disk["weights"]
           [] OTHER -> backend[c].verified

LoadFails(c) ==
    \/ KindOf(c) \in {"laya", "saracura"} /\ Loads(c) # "pinned"
    \/ Loads(c) = "absent"

DecideStep(c) ==
    \/ Check(c)
    \/ Resolve(c)
    \/ Encode(c)
    \/ ~LoadFails(c) /\ Score(c, Loads(c))
    \/ call[c].at = "score" /\ Refuse(c) /\ UNCHANGED <<registry, backend, clock>>

Deciding(c) ==
    /\ At(c, "deciding")
    /\ DecideStep(c)
    /\ UNCHANGED commandVars

Closes(lane) == lane \in {"laya", "saracura"} \cup JuliaKinds

\* The response goes to standard output before the backend is closed.
Respond(c) ==
    /\ At(c, "deciding")
    /\ call[c].at = "answered"
    /\ printed' = [printed EXCEPT ![c] = call[c].answers]
    /\ To(c, IF Closes(Lane(c)) THEN "close" ELSE "done")
    /\ UNCHANGED <<engineVars, disk, replaced>>

GiveUp(c) ==
    /\ At(c, "deciding")
    /\ call[c].at = "refused"
    /\ IF Closes(Lane(c)) THEN To(c, "closeFailed") ELSE Fail(c)
    /\ UNCHANGED <<engineVars, disk, replaced, printed>>

\* backend.close() of a finally clause.
Close(c) ==
    /\ \/ At(c, "close") /\ To(c, "done")
       \/ At(c, "closeFailed") /\ Fail(c)
    /\ backend' = [backend EXCEPT ![c].open = FALSE, ![c].closed = @ + 1]
    /\ UNCHANGED <<call, registry, clock, disk, replaced, printed>>

-----------------------------------------------------------------------------
(* The other commands *)

\* A caller of the library makes an engine of its own: the artifacts it passes
\* are whatever it has.
Embed(c) ==
    /\ At(c, "embed")
    /\ Open(c, "pinned")
    /\ registry' = [registry EXCEPT ![c] = command[c].envelope]
    /\ To(c, "decide")
    /\ UNCHANGED <<call, clock, disk, replaced, printed>>

\* describe-backend makes a backend without a request; MiniLM loads at once.
Describe(c) ==
    /\ At(c, "describe")
    /\ IF ArgumentsLegal(c) /\ (Lane(c) = "minilm" => Conforms(Constructs(c)))
       THEN /\ Open(c, "pinned")
            /\ To(c, IF Closes(Lane(c)) THEN "describing" ELSE "done")
       ELSE Fail(c) /\ UNCHANGED backend
    /\ UNCHANGED <<call, registry, clock, disk, replaced, printed>>

\* It prepares the others: Saracura reads its capsule only now.
Prepare(c) ==
    /\ At(c, "describing")
    /\ LET fails == \/ LoadFails(c)
                    \/ Lane(c) = "saracura" /\ disk["capsule"] # "pinned"
       IN  /\ To(c, IF fails THEN "closeFailed" ELSE "close")
           /\ backend' = [backend EXCEPT
                 ![c].loaded = IF fails THEN Nothing ELSE Loads(c)]
    /\ UNCHANGED <<call, registry, clock, disk, replaced, printed>>

\* The artifact create-identity-calibration derives from a request.
IdentityFor(r, model) ==
    LET context == ContextOf(r, r.questions[1], model, "identity") IN
    [schema |-> 1, method |-> "identity", shape |-> "closed",
     status |-> "fixture_only", context |-> context,
     fit |-> [sound |-> TRUE], id |-> <<"identity", context>>]

\* create-identity-calibration: the artifact of a new file, for one MiniLM.
CreateIdentity(c) ==
    /\ At(c, "identity")
    /\ LET r == command[c].request
           model == Models["minilm"]
       IN  IF /\ Parses(r)
              /\ ArgumentsLegal(c) /\ Conforms(Constructs(c))
              /\ r.model = model.revision
              /\ Len(r.questions) = 1
              /\ WorkflowValid(r, Capabilities("minilm"))
              /\ command[c].envelope = Nothing
           THEN command' = [command EXCEPT ![c].step = "done",
                              ![c].envelope = IdentityFor(r, model)]
           ELSE Fail(c)
    /\ UNCHANGED <<engineVars, disk, replaced, printed>>

\* Somebody puts another file at a path.
ReplaceFile ==
    /\ replaced < MaxReplacements
    /\ replaced' = replaced + 1
    /\ \E path \in DOMAIN disk, content \in {"other", "absent"} :
          /\ disk[path] # content
          /\ disk' = [disk EXCEPT ![path] = content]
    /\ UNCHANGED <<engineVars, command, printed>>

CommandStep(c) ==
    \/ ReadRequest(c) \/ ReadEnvelope(c) \/ VerifyTrainingCapsule(c) \/ Construct(c)
    \/ CheckContext(c) \/ Decide(c) \/ Deciding(c) \/ Respond(c) \/ GiveUp(c)
    \/ Close(c) \/ Embed(c) \/ Describe(c) \/ Prepare(c) \/ CreateIdentity(c)

CommandEnded(c) == command[c].step \in {"done", "failed"}

-----------------------------------------------------------------------------

\* Every command that answers has answered each question of its request once
\* and in order, from weights of exactly the criteria of the question (but for
\* the labels a library's own backend puts in its distribution), with a
\* greatest of them as value; weights that a backend normalized itself, as
\* System One and Julia do, add up to one although the reply behind them need
\* only nearly do so; an answer without calibration abstains, any other names
\* the artifact that was given for its question.
AnswersEarned ==
    \A c \in Commands : printed[c] # Nothing =>
        LET r == command[c].request IN
        /\ Len(printed[c]) = Len(r.questions)
        /\ \A i \in DOMAIN r.questions :
              LET a == printed[c][i]
                  q == r.questions[i]
              IN  /\ a.question = q.id
                  /\ DOMAIN a.raw = Items(q.criteria)
                  /\ Lane(c) # "custom" => DOMAIN a.weights = DOMAIN a.raw
                  /\ a.value \in Best(a.weights)
                  /\ Lane(c) \in {"systemone"} \cup JuliaKinds => a.scale.made
                  /\ a.scale.made => IsDistribution(a.weights, a.scale.of)
                  /\ IF Lane(c) \in Universal
                     THEN a.abstained /\ a.calibration = Nothing
                     ELSE a.calibration.id = registry[c][q.id].id

\* An answer that is called calibrated was so at some time of its decide call:
\* the receipt of its artifact was live, its key valid and its context the one
\* of the request and of the model, however long ago the file was read.
CalibratedWhileLive ==
    \A c \in Commands : printed[c] # Nothing =>
        \A i \in DOMAIN printed[c] : printed[c][i].status = "calibrated" =>
            LET r == command[c].request
                a == registry[c][r.questions[i].id]
            IN  /\ \E time \in call[c].entered .. clock : ResearchVerifies(a, time)
                /\ a.context = ContextOf(r, r.questions[i], ModelOf(c), ProfileOf(c))

\* Every backend but Julia answers from the bytes that were verified, whatever
\* is put at its paths in the meantime.
ScoredByVerified ==
    \A c \in Callers :
        call[c].answers # <<>> /\ KindOf(c) \notin JuliaKinds =>
            backend[c].loaded = "pinned"

=============================================================================
