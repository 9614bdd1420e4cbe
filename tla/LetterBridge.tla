---------------------------- MODULE LetterBridge ----------------------------
(***************************************************************************)
(* research/llm_bridge.py and llm_bridge_v3.py: a loopback server with one *)
(* thread a request that asks a pinned language model for one letter a     *)
(* question, one request at a time, under a deadline for the request. The  *)
(* counters of the health endpoint, which nothing reads back, are left out.*)
(***************************************************************************)
EXTENDS Integers, Sequences, FiniteSets, SequencesExt

CONSTANTS
    Calls,          \* the connections a client may hold
    Nobody,         \* no connection
    Configs,        \* command lines and the snapshots they find
    Served,         \* the model alias the server answers for
    Ceiling,        \* choices a question may have, by protocol (26 and 32)
    OutputBudget,   \* new tokens of an answer, by readout (32 and 1)
    Context,        \* --context
    Outputs,        \* letters a generation may end in; NoAnswer is other text
    MaxQuestions,   \* of a request (16)
    MaxName,        \* characters of a question's name (128)
    MaxLaunches     \* bound on the launches of the server

NoAnswer == -1

ASSUME BridgeAssumption ==
    /\ Nobody \notin Calls
    /\ IsFiniteSet(Calls)
    /\ Context \in Nat
    /\ Outputs \subseteq Nat \cup {NoAnswer}
    /\ MaxQuestions \in Nat
    /\ MaxLaunches \in Nat

VARIABLES
    up,         \* the configuration that serves, or Nobody
    launches,
    evidence,   \* manifest in the --evidence-output file, or Nobody
    lock,       \* the connection inside the _inference lock
    step,       \* where the thread of each connection is
    asked,      \* the body it was sent
    at,         \* the question it has reached
    late,       \* its clock has passed the deadline
    answers,    \* letters read so far, by question
    reply,      \* status, answers and error it will send
    gone,       \* its client has hung up
    touched,    \* history: it has given a question to the model
    lateRead    \* history: the deadline had passed at its last clock check

serverVars == <<up, launches, evidence>>
callVars == <<lock, step, asked, at, late, answers, reply, gone,
              touched, lateRead>>
bridgeVars == <<serverVars, callVars>>

NoReply == [status |-> 0, answers |-> <<>>, error |-> ""]
NoBody == [size |-> "none"]

InitBridge ==
    /\ up = Nobody
    /\ launches = 0
    /\ evidence = Nobody
    /\ lock = Nobody
    /\ step = [c \in Calls |-> "free"]
    /\ asked = [c \in Calls |-> NoBody]
    /\ at = [c \in Calls |-> 1]
    /\ late = [c \in Calls |-> FALSE]
    /\ answers = [c \in Calls |-> <<>>]
    /\ reply = [c \in Calls |-> NoReply]
    /\ gone = [c \in Calls |-> FALSE]
    /\ touched = [c \in Calls |-> FALSE]
    /\ lateRead = [c \in Calls |-> FALSE]

-----------------------------------------------------------------------------
(* Startup *)

KwargNames == {"enable_thinking", "thinking", "date_string"}

\* --chat-template-kwargs: names after NFC, each with a legal value.
KwargsLegal(k) ==
    /\ k.json
    /\ ToSet(k.names) \subseteq KwargNames
    /\ IsInjective(k.names)
    /\ k.values

\* One letter, one token, and no token twice.
LettersPrepared(k) == k.letters >= 26

\* The V3 wrapper repeats it over its 32 identifiers.
IdentifiersPrepared(k) == k.protocol = "v3" => k.letters >= 32

\* A template that reads the clock must read the frozen date.
ClockFrozen(k) == k.template = "clock" => k.frozen

Loads(k) ==
    /\ k.device
    /\ k.dtype
    /\ k.template # "none"
    /\ ClockFrozen(k)
    /\ k.readout = "constrained" => LettersPrepared(k)

Starts(k) ==
    /\ KwargsLegal(k.kwargs)
    /\ Loads(k)
    /\ k.readout = "constrained" => IdentifiersPrepared(k)

\* The execution manifest: what the readout and the prompt were.
Manifest(k) == [readout |-> k.readout, template |-> k.template]

\* The wrapper names its protocol in it.
Evidence(k) == [manifest |-> Manifest(k), protocol |-> k.protocol]

\* The evidence file is linked into place and never replaces another.
Publishes(k) == k.writes => evidence = Nobody

Launch(k) ==
    /\ up = Nobody
    /\ launches < MaxLaunches
    /\ launches' = launches + 1
    /\ LET serves == Starts(k) /\ Publishes(k) IN
         /\ up' = IF serves THEN k ELSE Nobody
         /\ evidence' = IF serves /\ k.writes THEN Evidence(k) ELSE evidence
    /\ UNCHANGED <<lock, step, asked, at, late, answers, reply, gone, touched,
                   lateRead>>

-----------------------------------------------------------------------------
(* The closed request *)

IsNoul(q) == q.type = "noul" /\ q.fields = {"type", "instructions"}

IsChoice(q, protocol) ==
    /\ q.type = "choice"
    /\ q.fields = {"type", "instructions", "criteria"}
    /\ Len(q.keys) \in 2..Ceiling[protocol]

LegalQuestion(q, protocol) ==
    /\ q.name \in 1..MaxName
    /\ q.texts
    /\ IsNoul(q) \/ IsChoice(q, protocol)

LegalRequest(b, protocol) ==
    /\ b.json
    /\ b.fields = {"model", "state", "questions"}
    /\ b.model = Served
    /\ Len(b.questions) \in 1..MaxQuestions
    /\ \A i \in DOMAIN b.questions : LegalQuestion(b.questions[i], protocol)

\* do_POST: the size is looked at before the body is.
HttpRefusal(b) == IF b.size = "large" THEN 413
                  ELSE IF b.size = "short" THEN 400
                  ELSE 0

Refusal(b, protocol) ==
    IF HttpRefusal(b) # 0 THEN HttpRefusal(b)
    ELSE IF ~LegalRequest(b, protocol) THEN 400
    ELSE 0

OptionCount(q) == IF q.type = "noul" THEN 2 ELSE Len(q.keys)

-----------------------------------------------------------------------------
(* A connection *)

\* The steps between the acquire and the release of the lock.
Holding == {"encode", "infer", "forward", "release"}

Status(s) == [status |-> s, answers |-> <<>>, error |-> ""]

\* Every question of the request without an answer.
Empty(c) == [i \in DOMAIN asked[c].questions |-> NoAnswer]

Failed(c, error) == [status |-> 200, answers |-> Empty(c), error |-> error]

\* Mutant: an unexpected error returns without giving the lock back.
RepliesLeaking(c, r) ==
    /\ reply' = [reply EXCEPT ![c] = r]
    /\ step' = [step EXCEPT ![c] =
                  IF lock = c /\ r.status # 500 THEN "release" ELSE "send"]

Replies(c, r) ==
    /\ reply' = [reply EXCEPT ![c] = r]
    /\ step' = [step EXCEPT ![c] = IF lock = c THEN "release" ELSE "send"]

\* The thread of a connection ends; nothing of its work is kept.
Done(C) ==
    /\ at' = [c \in Calls |-> IF c \in C THEN 1 ELSE at[c]]
    /\ late' = [c \in Calls |-> c \notin C /\ late[c]]
    /\ answers' = [c \in Calls |-> IF c \in C THEN <<>> ELSE answers[c]]
    /\ touched' = [c \in Calls |-> c \notin C /\ touched[c]]
    /\ lateRead' = [c \in Calls |-> c \notin C /\ lateRead[c]]

\* A connection that nobody waits for any more.
Forget(c) ==
    /\ step' = [step EXCEPT ![c] = "free"]
    /\ asked' = [asked EXCEPT ![c] = NoBody]
    /\ reply' = [reply EXCEPT ![c] = NoReply]
    /\ gone' = [gone EXCEPT ![c] = FALSE]
    /\ Done({c})

\* A client opens a connection and sends a body.
Post(c, b) ==
    /\ step[c] = "free"
    /\ up # Nobody
    /\ step' = [step EXCEPT ![c] = "sent"]
    /\ asked' = [asked EXCEPT ![c] = b]
    /\ UNCHANGED <<serverVars, lock, at, late, answers, reply, gone, touched,
                   lateRead>>

\* handle: a malformed request is refused, a second one is told to go away.
Refuse(c) ==
    /\ step[c] = "sent"
    /\ Refusal(asked[c], up.protocol) # 0
    /\ Replies(c, Status(Refusal(asked[c], up.protocol)))
    /\ UNCHANGED <<serverVars, lock, asked, at, late, answers, gone, touched,
                   lateRead>>

Busy(c) ==
    /\ step[c] = "sent"
    /\ Refusal(asked[c], up.protocol) = 0
    /\ lock # Nobody
    /\ Replies(c, Status(429))
    /\ UNCHANGED <<serverVars, lock, asked, at, late, answers, gone, touched,
                   lateRead>>

Acquire(c) ==
    /\ step[c] = "sent"
    /\ Refusal(asked[c], up.protocol) = 0
    /\ lock = Nobody
    /\ lock' = c
    /\ step' = [step EXCEPT ![c] = "encode"]
    /\ UNCHANGED <<serverVars, asked, at, late, answers, reply, gone, touched,
                   lateRead>>

\* The prompt of every question must fit before any is given to the model.
Fits(c) ==
    \A i \in DOMAIN asked[c].questions :
        asked[c].questions[i].tokens + OutputBudget[up.readout] <= Context

Encode(c) ==
    /\ step[c] = "encode"
    /\ IF Fits(c)
       THEN /\ step' = [step EXCEPT ![c] = "infer"]
            /\ UNCHANGED reply
       ELSE Replies(c, Status(422))
    /\ UNCHANGED <<serverVars, lock, asked, at, late, answers, gone, touched,
                   lateRead>>

\* The deadline of the request passes.
Expire(c) ==
    /\ step[c] \in {"encode", "infer", "forward"}
    /\ ~late[c]
    /\ late' = [late EXCEPT ![c] = TRUE]
    /\ UNCHANGED <<serverVars, lock, step, asked, at, answers, reply, gone,
                   touched, lateRead>>

\* Mutant: the clock is not read after an answer.
InTimeBefore(c) == ~late[c] \/ step[c] = "forward"

\* The clock is read before a question, and again after its answer.
InTime(c) == ~late[c]

Forward(c) ==
    /\ step[c] = "infer"
    /\ IF InTime(c)
       THEN /\ touched' = [touched EXCEPT ![c] = TRUE]
            /\ step' = [step EXCEPT ![c] = "forward"]
            /\ UNCHANGED reply
       ELSE /\ Replies(c, Failed(c, "deadline"))
            /\ UNCHANGED touched
    /\ lateRead' = [lateRead EXCEPT ![c] = late[c]]
    /\ UNCHANGED <<serverVars, lock, asked, at, late, answers, gone>>

\* parse_letter and parse_identifier: one letter inside the option count.
Letter(text, q) == IF text \in 0..(OptionCount(q) - 1) THEN text ELSE NoAnswer

\* What the model may answer: free text, or the best of the legal letters.
Readable(q, readout) ==
    IF readout = "strict" THEN {Letter(text, q) : text \in Outputs}
    ELSE Outputs \cap (0..(OptionCount(q) - 1))

Spoiled(as) == \E i \in DOMAIN as : as[i] = NoAnswer

AnswerRead(c, letter) ==
    LET as == Append(answers[c], letter)
        last == at[c] = Len(asked[c].questions)
        error == IF Spoiled(as) THEN "invalid_output" ELSE ""
    IN /\ answers' = [answers EXCEPT ![c] = as]
       /\ at' = [at EXCEPT ![c] = @ + 1]
       /\ IF last
          THEN Replies(c, [status |-> 200, answers |-> as, error |-> error])
          ELSE step' = [step EXCEPT ![c] = "infer"] /\ UNCHANGED reply

Return(c) ==
    /\ step[c] = "forward"
    /\ LET q == asked[c].questions[at[c]] IN
         IF InTime(c)
         THEN \E letter \in Readable(q, up.readout) : AnswerRead(c, letter)
         ELSE /\ Replies(c, Failed(c, "deadline"))
              /\ UNCHANGED <<answers, at>>
    /\ lateRead' = [lateRead EXCEPT ![c] = late[c]]
    /\ UNCHANGED <<serverVars, lock, asked, late, gone, touched>>

\* A legal letter has no finite score; the clock was read just before.
Nonfinite(c) ==
    /\ step[c] = "forward"
    /\ up.readout = "constrained"
    /\ Replies(c, Failed(c, "invalid_output"))
    /\ UNCHANGED <<serverVars, lock, asked, at, late, answers, gone, touched,
                   lateRead>>

\* Anything else the backend raises.
Raise(c) ==
    /\ step[c] \in {"encode", "forward"}
    /\ Replies(c, Status(500))
    /\ UNCHANGED <<serverVars, lock, asked, at, late, answers, gone, touched,
                   lateRead>>

Release(c) ==
    /\ step[c] = "release"
    /\ lock' = Nobody
    /\ step' = [step EXCEPT ![c] = "send"]
    /\ UNCHANGED <<serverVars, asked, at, late, answers, reply, gone, touched,
                   lateRead>>

\* A client that went away is not told; nothing is queued again.
Send(c) ==
    /\ step[c] = "send"
    /\ IF gone[c] THEN Forget(c)
       ELSE /\ step' = [step EXCEPT ![c] = "read"]
            /\ Done({c})
            /\ UNCHANGED <<asked, reply, gone>>
    /\ UNCHANGED <<serverVars, lock>>

\* The thread of a connection that was given up ended with its server.
Vanish(c) ==
    /\ step[c] = "lost"
    /\ gone[c]
    /\ Forget(c)
    /\ UNCHANGED <<serverVars, lock>>

\* The server is interrupted: its threads are daemons and end with it.
Interrupt ==
    /\ up # Nobody
    /\ up' = Nobody
    /\ lock' = Nobody
    /\ LET live == {c \in Calls : step[c] \notin {"free", "read"}} IN
         /\ step' = [c \in Calls |-> IF c \in live THEN "lost" ELSE step[c]]
         /\ reply' = [c \in Calls |-> IF c \in live THEN NoReply ELSE reply[c]]
         /\ Done(live)
    /\ UNCHANGED <<launches, evidence, asked, gone>>

\* The client has read its reply, or found the connection closed.
Close(c) ==
    /\ step[c] \in {"read", "lost"}
    /\ ~gone[c]
    /\ Forget(c)
    /\ UNCHANGED <<serverVars, lock>>

\* The client stops waiting; the thread of the server goes on.
HangUp(c) ==
    /\ step[c] \in Holding \cup {"sent", "send"}
    /\ gone' = [gone EXCEPT ![c] = TRUE]
    /\ UNCHANGED <<serverVars, lock, step, asked, at, late, answers, reply,
                   touched, lateRead>>

Thread(c) ==
    \/ Refuse(c) \/ Busy(c) \/ Acquire(c)
    \/ Encode(c) \/ Forward(c) \/ Return(c) \/ Nonfinite(c) \/ Raise(c)
    \/ Release(c) \/ Send(c) \/ Vanish(c)

-----------------------------------------------------------------------------
(* Properties *)

\* Type invariant.
BridgeTypeOK ==
    /\ up \in Configs \cup {Nobody}
    /\ evidence \in {Evidence(k) : k \in Configs} \cup {Nobody}
    /\ launches \in 0..MaxLaunches
    /\ lock \in Calls \cup {Nobody}
    /\ step \in [Calls -> Holding \cup
                         {"free", "sent", "send", "read", "lost"}]
    /\ at \in [Calls -> Nat]
    /\ late \in [Calls -> BOOLEAN]
    /\ gone \in [Calls -> BOOLEAN]
    /\ touched \in [Calls -> BOOLEAN]
    /\ lateRead \in [Calls -> BOOLEAN]
    /\ reply \in [Calls -> [status : {0, 200, 400, 413, 422, 429, 500},
                            answers : Seq(Nat \cup {NoAnswer}),
                            error : {"", "deadline", "invalid_output"}]]

\* What a reply says agrees with the work done for it: a refusal (400, 413,
\* 422, 429) has cost no inference, whatever its other questions are; and a
\* letter is sent only if the clock, read after the last letter, had not
\* passed the deadline: it wins even over the letters read before
\* (llm_bridge.py handle and _run).
RepliesMatchWork ==
    \A c \in Calls :
        /\ reply[c].status \in {400, 413, 422, 429} => ~touched[c]
        /\ reply[c].status = 200 =>
              /\ Len(reply[c].answers) = Len(asked[c].questions)
              /\ lateRead[c] => \A i \in DOMAIN reply[c].answers :
                                    reply[c].answers[i] = NoAnswer
=============================================================================
