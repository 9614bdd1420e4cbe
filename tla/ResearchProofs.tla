--------------------------- MODULE ResearchProofs ---------------------------
(***************************************************************************)
(* The evaluator against the bridge (EvaluatorRun): the inference lock, the *)
(* replies of every connection and the report the evaluator saves, for any *)
(* number of connections, tasks, rows and attempts.                        *)
(*                                                                         *)
(* The runs against a native server and the reports made from their        *)
(* journals (TaskReports), for any launches, runs, journals, validations,  *)
(* rows and replies.                                                       *)
(***************************************************************************)
EXTENDS EvaluatorRun, TaskReports, SequenceTheorems, FiniteSetTheorems, TLAPS

Steps == Holding \cup {"free", "sent", "send", "read", "lost"}

Causes == {"", "deadline", "invalid_output"}
Reply == [status : Int, answers : Seq(Int), error : Causes]

\* Types of what the threads of the bridge keep.
ThreadsTypeOK ==
    /\ lock \in Calls \cup {Nobody}
    /\ step \in [Calls -> Steps]
    /\ asked = [c \in Calls |-> asked[c]]
    /\ at \in [Calls -> Nat]
    /\ late \in [Calls -> BOOLEAN]
    /\ answers \in [Calls -> Seq(Int)]
    /\ reply \in [Calls -> Reply]
    /\ touched \in [Calls -> BOOLEAN]
    /\ lateRead \in [Calls -> BOOLEAN]

\* A thread that has not reached the model, or has ended, has nothing of it.
Untouched(c) == ~touched[c] /\ ~lateRead[c] /\ at[c] = 1 /\ answers[c] = <<>>

Count(c) == Len(asked[c].questions)

\* What is sent agrees with the work done: RepliesMatchWork of one connection.
Matches(c) ==
    /\ reply[c].status \in {400, 413, 422, 429} => ~touched[c]
    /\ reply[c].status = 200 =>
          /\ Len(reply[c].answers) = Count(c)
          /\ lateRead[c] => \A i \in DOMAIN reply[c].answers :
                                reply[c].answers[i] = NoAnswer

\* A connection by the step of its thread: who holds the lock, how many
\* letters it has read, and that it has no reply before it is through.
Connection(c) ==
    /\ step[c] \in Holding <=> lock = c
    /\ step[c] # "free" => IsSequence(asked[c].questions)
    /\ step[c] \in {"encode", "infer", "forward"} => Count(c) >= 1
    /\ step[c] \in {"free", "sent", "encode", "read", "lost"} => Untouched(c)
    /\ step[c] \in {"infer", "forward"} =>
          Len(answers[c]) + 1 = at[c] /\ at[c] <= Count(c)
    /\ step[c] \in {"free", "sent", "encode", "infer", "forward", "lost"} =>
          reply[c] = NoReply
    /\ Matches(c)

BridgeInv == ThreadsTypeOK /\ \A c \in Calls : Connection(c)

\* The evaluator's only connection, as long as it waits for every reply.
Alone ==
    /\ others \in Nat
    /\ gaveUp \in BOOLEAN
    /\ mine \in Calls \cup {Nobody}
    /\ phase = "wait" <=> mine # Nobody
    /\ others = 0 /\ ~gaveUp =>
         \A c \in Calls : /\ step[c] # "free" => mine = c
                          /\ reply[c].status # 429

\* An item agrees with its row: a prediction is one of its options, and there
\* is a code exactly if there is none.
Agrees(item, row) ==
    "none" \notin ToSet(row.keys) =>
      /\ item.pred = "none" <=> item.code # "none"
      /\ item.pred # "none" =>
           item.pred \in (IF row.type = "noul" THEN {"yes", "no"}
                          ELSE ToSet(row.keys))

\* A sequence whatever its elements are.
IsList(s) == Len(s) \in Nat /\ s = [i \in 1..Len(s) |-> s[i]]

ItemsInv ==
    /\ phase \in {"fetch", "ask", "wait", "report", "saved", "refused"}
    /\ items = [t \in DOMAIN Tasks |-> items[t]]
    /\ \A t \in DOMAIN Tasks : IsList(items[t])
    /\ phase \in {"fetch", "ask", "wait"} =>
         /\ where \in (DOMAIN Tasks) \X Nat
         /\ Len(items[where[1]]) + 1 = where[2]
         /\ \A t \in DOMAIN Tasks : t > where[1] => Len(items[t]) = 0
    /\ phase = "fetch" => where = <<1, 1>>
    /\ \A t \in DOMAIN Tasks : \A i \in 1..Len(items[t]) :
         Agrees(items[t][i], split[t][i])

IInv == BridgeInv /\ Alone /\ ItemsInv

-----------------------------------------------------------------------------
(* Sequences *)

\* Appending to a sequence adds one element at its end.
LEMMA AppendMeans ==
    ASSUME NEW s, IsList(s), NEW e
    PROVE  /\ IsList(Append(s, e))
           /\ Len(Append(s, e)) = Len(s) + 1
           /\ \A i \in 1..Len(s) : Append(s, e)[i] = s[i]
           /\ Append(s, e)[Len(s) + 1] = e
<1> DEFINE S == {s[i] : i \in 1..Len(s)} \cup {e}
<1>1. s \in Seq(S)
  <2>1. \A i \in 1..Len(s) : s[i] \in S
    OBVIOUS
  <2> HIDE DEF S
  <2>2. [i \in 1..Len(s) |-> s[i]] \in [1..Len(s) -> S]
    BY <2>1
  <2>3. s = [i \in 1..Len(s) |-> s[i]] /\ Len(s) \in Nat
    BY DEF IsList
  <2>4. s \in [1..Len(s) -> S]
    BY <2>2, <2>3, Zenon
  <2>5. \A n \in Nat : [1..n -> S] \subseteq Seq(S)
    BY SeqDef
  <2> QED BY <2>3, <2>4, <2>5
<1> HIDE DEF S
<1>2. e \in S
  BY DEF S
<1> DEFINE longer == Append(s, e)
<1>3. /\ longer \in Seq(S)
      /\ Len(longer) = Len(s) + 1
      /\ \A i \in 1..Len(s) : longer[i] = s[i]
      /\ longer[Len(s) + 1] = e
  BY <1>1, <1>2, AppendProperties
<1> HIDE DEF longer
<1>4. longer \in [1..Len(longer) -> S] /\ Len(longer) \in Nat
  BY <1>3, LenProperties
<1>5. longer = [i \in 1..Len(longer) |-> longer[i]]
  BY <1>4
<1>6. IsList(longer)
  BY <1>4, <1>5 DEF IsList
<1> QED BY <1>3, <1>6 DEF longer

LEMMA EmptyMeans == IsList(<<>>) /\ Len(<<>>) = 0
BY DEF IsList

\* A refusal of every question has as many answers as there are questions.
LEMMA AllUnanswered ==
    ASSUME NEW q, IsSequence(q)
    PROVE  LET a == [i \in DOMAIN q |-> NoAnswer] IN
           /\ a \in Seq(Int)
           /\ Len(a) = Len(q)
           /\ \A i \in DOMAIN a : a[i] = NoAnswer
<1> DEFINE a == [i \in 1..Len(q) |-> NoAnswer]
<1>1. a \in [1..Len(q) -> Int]
  BY DEF NoAnswer
<1>2. a \in Seq(Int)
  <2>1. \A n \in Nat : [1..n -> Int] \subseteq Seq(Int)
    BY SeqDef
  <2> HIDE DEF a
  <2> QED BY <1>1, <2>1 DEF IsSequence
<1>3. Len(a) = Len(q)
  BY <1>1, <1>2, LenProperties DEF IsSequence
<1>4. [i \in DOMAIN q |-> NoAnswer] = a
  BY DEF IsSequence
<1>5. \A i \in DOMAIN a : a[i] = NoAnswer
  OBVIOUS
<1> HIDE DEF a
<1> QED BY <1>2, <1>3, <1>4, <1>5

-----------------------------------------------------------------------------
(* The threads of the bridge *)

Kept(d) ==
    /\ step'[d] = step[d]
    /\ asked'[d] = asked[d]
    /\ at'[d] = at[d]
    /\ answers'[d] = answers[d]
    /\ reply'[d] = reply[d]
    /\ touched'[d] = touched[d]
    /\ lateRead'[d] = lateRead[d]

\* Nobody starts a connection, and nobody is told that the bridge is busy.
Quiet ==
    \A d \in Calls :
        /\ step'[d] # "free" => step[d] # "free"
        /\ reply'[d].status = 429 => reply[d].status = 429

\* A step of one thread, that takes the lock, gives it back or leaves it.
LEMMA OneThread ==
    ASSUME BridgeInv, NEW c \in Calls,
           ThreadsTypeOK',
           \A d \in Calls \ {c} : Kept(d),
           \/ lock' = lock
           \/ lock = Nobody /\ lock' = c
           \/ lock = c /\ lock' = Nobody,
           Connection(c)'
    PROVE  BridgeInv'
<1>1. SUFFICES ASSUME NEW d \in Calls, d # c PROVE Connection(d)'
  BY DEF BridgeInv
<1>2. Kept(d) /\ Connection(d)
  BY <1>1 DEF BridgeInv
<1>3. lock' = d <=> lock = d
  BY <1>1, BridgeAssumption
<1>4. (Untouched(d) <=> Untouched(d)') /\ (Matches(d) <=> Matches(d)') /\ Count(d)' = Count(d)
  BY <1>2 DEF Kept, Untouched, Matches, Count
<1> QED BY <1>2, <1>3, <1>4 DEF Kept, Connection

LEMMA StatusMeans ==
    /\ \A s \in Int : Status(s) \in Reply /\ Status(s).status = s
    /\ NoReply \in Reply /\ NoReply.status = 0
<1>1. <<>> \in Seq(Int)
  OBVIOUS
<1>2. \A s \in Int : [status |-> s, answers |-> <<>>, error |-> ""] \in Reply
  BY <1>1 DEF Reply, Causes
<1>3. \A s \in Int : Status(s) \in Reply /\ Status(s).status = s
  BY <1>2 DEF Status
<1>4. NoReply \in Reply /\ NoReply.status = 0
  BY <1>1 DEF NoReply, Reply, Causes
<1> QED BY <1>3, <1>4

\* A reply without any answer.
LEMMA FailedMeans ==
    ASSUME NEW c \in Calls, IsSequence(asked[c].questions), NEW e \in Causes
    PROVE  /\ Failed(c, e) \in Reply
           /\ Failed(c, e).status = 200
           /\ Len(Failed(c, e).answers) = Count(c)
           /\ \A i \in DOMAIN Failed(c, e).answers :
                 Failed(c, e).answers[i] = NoAnswer
<1> DEFINE a == Empty(c)
<1>1. /\ a \in Seq(Int)
      /\ Len(a) = Count(c)
      /\ \A i \in DOMAIN a : a[i] = NoAnswer
  BY AllUnanswered DEF Empty, Count
<1> HIDE DEF a
<1>2. Failed(c, e) = [status |-> 200, answers |-> a, error |-> e]
  BY DEF Failed, a
<1> QED BY <1>1, <1>2 DEF Reply

LEMMA PostInv ==
    ASSUME BridgeInv, NEW c \in Calls, NEW b, IsSequence(b.questions), Post(c, b)
    PROVE  BridgeInv' /\ \A d \in Calls \ {c} : Kept(d)
<1>1. ThreadsTypeOK'
  BY DEF BridgeInv, ThreadsTypeOK, Post, Steps
<1>2. \A d \in Calls \ {c} : Kept(d)
  BY DEF BridgeInv, ThreadsTypeOK, Post, Kept
<1>3. step[c] = "free" /\ step'[c] = "sent" /\ asked'[c] = b
  BY DEF BridgeInv, ThreadsTypeOK, Post
<1>4. Connection(c) /\ reply[c].status = 0
  BY <1>3, StatusMeans DEF BridgeInv, Connection
<1>5. Untouched(c)' /\ reply'[c] = NoReply /\ lock' # c
  BY <1>3, <1>4 DEF Post, Connection, Untouched, Holding
<1>6. Connection(c)'
  BY <1>3, <1>5, StatusMeans DEF Connection, Matches, Holding
<1> QED BY <1>1, <1>2, <1>6, OneThread DEF Post

LEMMA RefuseInv ==
    ASSUME BridgeInv, NEW c \in Calls, Refuse(c)
    PROVE  BridgeInv' /\ Quiet
<1> DEFINE s == Refusal(asked[c], up.protocol)
<1>1. s \in {400, 413}
  BY DEF Refuse, Refusal, HttpRefusal
<1>2. lock # c
  BY DEF BridgeInv, Connection, Refuse, Holding
<1>3. /\ reply' = [reply EXCEPT ![c] = Status(s)]
      /\ step' = [step EXCEPT ![c] = "send"]
  BY <1>2 DEF Refuse, Replies
<1> HIDE DEF s
<1>4. Status(s) \in Reply /\ Status(s).status = s
  BY <1>1, StatusMeans
<1>5. ThreadsTypeOK'
  BY <1>3, <1>4 DEF BridgeInv, ThreadsTypeOK, Refuse, Steps
<1>6. \A d \in Calls \ {c} : Kept(d)
  BY <1>3 DEF BridgeInv, ThreadsTypeOK, Refuse, Kept
<1>7. reply'[c].status = s /\ step'[c] = "send" /\ step[c] = "sent"
  BY <1>3, <1>4 DEF BridgeInv, ThreadsTypeOK, Refuse
<1>8. Connection(c)'
  BY <1>1, <1>7 DEF BridgeInv, Connection, Refuse, Untouched, Matches, Count, Holding
<1>9. Quiet
  BY <1>1, <1>6, <1>7 DEF Quiet, Kept
<1> QED BY <1>5, <1>6, <1>8, <1>9, OneThread DEF Refuse

LEMMA BusyInv ==
    ASSUME BridgeInv, NEW c \in Calls, Busy(c)
    PROVE  BridgeInv' /\ \A d \in Calls \ {c} : Kept(d)
<1>1. lock # c
  BY DEF BridgeInv, Connection, Busy, Holding
<1>2. /\ reply' = [reply EXCEPT ![c] = Status(429)]
      /\ step' = [step EXCEPT ![c] = "send"]
  BY <1>1 DEF Busy, Replies
<1>3. Status(429) \in Reply /\ Status(429).status = 429
  BY StatusMeans
<1>4. ThreadsTypeOK'
  BY <1>2, <1>3 DEF BridgeInv, ThreadsTypeOK, Busy, Steps
<1>5. \A d \in Calls \ {c} : Kept(d)
  BY <1>2 DEF BridgeInv, ThreadsTypeOK, Busy, Kept
<1>6. reply'[c].status = 429 /\ step'[c] = "send" /\ step[c] = "sent"
  BY <1>2, <1>3 DEF BridgeInv, ThreadsTypeOK, Busy
<1>7. Connection(c)'
  BY <1>6 DEF BridgeInv, Connection, Busy, Untouched, Matches, Count, Holding
<1> QED BY <1>4, <1>5, <1>7, OneThread DEF Busy
LEMMA AcquireInv ==
    ASSUME BridgeInv, NEW c \in Calls, Acquire(c)
    PROVE  BridgeInv' /\ Quiet
<1>1. ThreadsTypeOK'
  BY DEF BridgeInv, ThreadsTypeOK, Acquire, Steps, Holding
<1>2. \A d \in Calls \ {c} : Kept(d)
  BY DEF BridgeInv, ThreadsTypeOK, Acquire, Kept
<1>3. step'[c] = "encode" /\ step[c] = "sent" /\ lock' = c
  BY DEF BridgeInv, ThreadsTypeOK, Acquire
<1>4. Count(c) \in 1..MaxQuestions
  BY DEF Acquire, Refusal, LegalRequest, Count
<1>5. Connection(c)'
  BY <1>3, <1>4, BridgeAssumption
     DEF BridgeInv, Connection, Acquire, Untouched, Matches, Count, Holding
<1>6. Quiet
  BY <1>2, <1>3 DEF Quiet, Kept, Acquire
<1> QED BY <1>1, <1>2, <1>5, <1>6, OneThread DEF Acquire

\* A thread that holds the lock replies: it goes on to give the lock back.
LEMMA RepliesMeans ==
    ASSUME BridgeInv, NEW c \in Calls, step[c] \in Holding, lock' = lock,
           NEW r \in Reply, Replies(c, r)
    PROVE  /\ lock = c
           /\ reply' = [reply EXCEPT ![c] = r]
           /\ step' = [step EXCEPT ![c] = "release"]
           /\ reply' \in [Calls -> Reply]
           /\ step' \in [Calls -> Steps]
           /\ reply'[c] = r
           /\ step'[c] = "release"
           /\ \A d \in Calls \ {c} : step'[d] = step[d] /\ reply'[d] = reply[d]
<1>1. lock = c
  BY DEF BridgeInv, Connection
<1>2. /\ reply' = [reply EXCEPT ![c] = r]
      /\ step' = [step EXCEPT ![c] = "release"]
  BY <1>1 DEF Replies
<1> QED BY <1>1, <1>2 DEF BridgeInv, ThreadsTypeOK, Steps, Holding

LEMMA EncodeInv ==
    ASSUME BridgeInv, NEW c \in Calls, Encode(c)
    PROVE  BridgeInv' /\ Quiet
<1>1. step[c] = "encode" /\ step[c] \in Holding
  BY DEF Encode, Holding
<1>2. Connection(c) /\ ThreadsTypeOK
  BY DEF BridgeInv
<1>3. CASE Fits(c)
  <2>1. /\ step' = [step EXCEPT ![c] = "infer"]
        /\ reply' = reply
    BY <1>3 DEF Encode
  <2>2. ThreadsTypeOK'
    BY <1>2, <2>1 DEF ThreadsTypeOK, Encode, Steps, Holding
  <2>3. \A d \in Calls \ {c} : Kept(d)
    BY <1>2, <2>1 DEF ThreadsTypeOK, Encode, Kept
  <2>4. step'[c] = "infer"
    BY <1>2, <2>1 DEF ThreadsTypeOK
  <2>5. Len(answers[c]) + 1 = at[c] /\ at[c] <= Count(c)
    <3>1. answers[c] = <<>> /\ at[c] = 1 /\ Count(c) >= 1
      BY <1>1, <1>2 DEF Connection, Untouched
    <3> QED BY <3>1
  <2>6. Connection(c)'
    BY <1>1, <1>2, <2>1, <2>4, <2>5
       DEF Connection, Encode, Matches, Count, Holding
  <2>7. Quiet
    BY <1>1, <2>1, <2>3, <2>4 DEF Quiet, Kept
  <2> QED BY <2>2, <2>3, <2>6, <2>7, OneThread DEF Encode
<1>4. CASE ~Fits(c)
  <2>1. Replies(c, Status(422)) /\ Status(422) \in Reply /\ Status(422).status = 422
    BY <1>4, StatusMeans DEF Encode
  <2>2. /\ reply' \in [Calls -> Reply]
        /\ step' \in [Calls -> Steps]
        /\ reply'[c].status = 422
        /\ step'[c] = "release"
        /\ \A d \in Calls \ {c} : step'[d] = step[d] /\ reply'[d] = reply[d]
    BY <1>1, <2>1, RepliesMeans DEF Encode
  <2>3. ThreadsTypeOK'
    BY <1>2, <2>2 DEF ThreadsTypeOK, Encode
  <2>4. \A d \in Calls \ {c} : Kept(d)
    BY <2>2 DEF Encode, Kept
  <2>5. Connection(c)'
    BY <1>1, <1>2, <2>2
       DEF Connection, Encode, Untouched, Matches, Count, Holding
  <2>6. Quiet
    BY <1>1, <2>2, <2>4 DEF Quiet, Kept
  <2> QED BY <2>3, <2>4, <2>5, <2>6, OneThread DEF Encode
<1> QED BY <1>3, <1>4
LEMMA ForwardInv ==
    ASSUME BridgeInv, NEW c \in Calls, Forward(c)
    PROVE  BridgeInv' /\ Quiet
<1>1. step[c] = "infer" /\ step[c] \in Holding
  BY DEF Forward, Holding
<1>2. Connection(c) /\ ThreadsTypeOK
  BY DEF BridgeInv
<1>3. lateRead' \in [Calls -> BOOLEAN] /\ lateRead'[c] = late[c]
  BY <1>2 DEF ThreadsTypeOK, Forward
<1>4. CASE InTime(c)
  <2>1. /\ step' = [step EXCEPT ![c] = "forward"]
        /\ touched' = [touched EXCEPT ![c] = TRUE]
        /\ reply' = reply
    BY <1>4 DEF Forward
  <2>2. ThreadsTypeOK'
    BY <1>2, <1>3, <2>1 DEF ThreadsTypeOK, Forward, Steps, Holding
  <2>3. \A d \in Calls \ {c} : Kept(d)
    BY <1>2, <2>1 DEF ThreadsTypeOK, Forward, Kept
  <2>4. step'[c] = "forward"
    BY <1>2, <2>1 DEF ThreadsTypeOK
  <2>5. reply'[c].status = 0
    BY <1>1, <1>2, <2>1, StatusMeans DEF Connection
  <2>6. Connection(c)'
    BY <1>1, <1>2, <2>1, <2>4, <2>5
       DEF Connection, Forward, Matches, Count, Holding
  <2>7. Quiet
    BY <1>1, <2>1, <2>3, <2>4 DEF Quiet, Kept
  <2> QED BY <2>2, <2>3, <2>6, <2>7, OneThread DEF Forward
<1>5. CASE ~InTime(c)
  <2> DEFINE r == Failed(c, "deadline")
  <2>1. /\ r \in Reply
        /\ r.status = 200
        /\ Len(r.answers) = Count(c)
        /\ \A i \in DOMAIN r.answers : r.answers[i] = NoAnswer
    BY <1>1, <1>2, FailedMeans DEF Connection, Causes
  <2>2. Replies(c, r) /\ touched' = touched
    BY <1>5 DEF Forward
  <2> HIDE DEF r
  <2>3. /\ reply' \in [Calls -> Reply]
        /\ step' \in [Calls -> Steps]
        /\ reply'[c] = r
        /\ step'[c] = "release"
        /\ \A d \in Calls \ {c} : step'[d] = step[d] /\ reply'[d] = reply[d]
    BY <1>1, <2>1, <2>2, RepliesMeans DEF Forward
  <2>4. ThreadsTypeOK'
    BY <1>2, <1>3, <2>2, <2>3 DEF ThreadsTypeOK, Forward
  <2>5. \A d \in Calls \ {c} : Kept(d)
    BY <1>2, <2>2, <2>3 DEF ThreadsTypeOK, Forward, Kept
  <2>6. Matches(c)'
    BY <2>1, <2>3 DEF Matches, Count, Forward
  <2>7. Connection(c)'
    BY <1>1, <1>2, <2>3, <2>6 DEF Connection, Forward, Count, Holding
  <2>8. Quiet
    BY <1>1, <2>1, <2>3, <2>5 DEF Quiet, Kept
  <2> QED BY <2>4, <2>5, <2>7, <2>8, OneThread DEF Forward
<1> QED BY <1>4, <1>5

\* The answers so far and one more, over the first questions.
LEMMA LetterMeans ==
    ASSUME BridgeInv, NEW q, NEW readout, NEW letter \in Readable(q, readout)
    PROVE  letter \in Int
BY BridgeAssumption DEF Readable, Letter, NoAnswer

LEMMA ReturnInv ==
    ASSUME BridgeInv, NEW c \in Calls, Return(c)
    PROVE  BridgeInv' /\ Quiet
<1>1. step[c] = "forward" /\ step[c] \in Holding
  BY DEF Return, Holding
<1>2. Connection(c) /\ ThreadsTypeOK
  BY DEF BridgeInv
<1>3. lateRead' \in [Calls -> BOOLEAN] /\ lateRead'[c] = late[c]
  BY <1>2 DEF ThreadsTypeOK, Return
<1>4. CASE InTime(c)
  <2>1. PICK letter : letter \in Int /\ AnswerRead(c, letter)
    BY <1>4, LetterMeans DEF Return
  <2> DEFINE as == Append(answers[c], letter)
             error == IF Spoiled(as) THEN "invalid_output" ELSE ""
             r == [status |-> 200, answers |-> as, error |-> error]
  <2>2. as \in Seq(Int) /\ Len(as) = Len(answers[c]) + 1
    BY <1>2, <2>1 DEF ThreadsTypeOK
  <2>3. answers' = [answers EXCEPT ![c] = as] /\ at' = [at EXCEPT ![c] = @ + 1]
    BY <2>1 DEF AnswerRead
  <2>4. r \in Reply /\ r.status = 200 /\ r.answers = as
    BY <2>2 DEF Reply, Causes
  <2>5. /\ at[c] = Count(c) => Replies(c, r)
        /\ at[c] # Count(c) => /\ step' = [step EXCEPT ![c] = "infer"]
                               /\ reply' = reply
    BY <2>1 DEF AnswerRead, Count
  <2> HIDE DEF r, as
  <2>6. /\ answers' \in [Calls -> Seq(Int)]
        /\ answers'[c] = as
        /\ at' \in [Calls -> Nat]
        /\ at'[c] = at[c] + 1
    <3>1. answers \in [Calls -> Seq(Int)] /\ as \in Seq(Int)
      BY <1>2, <2>2 DEF ThreadsTypeOK
    <3>2. answers' \in [Calls -> Seq(Int)] /\ answers'[c] = as
      BY <2>3, <3>1, Zenon
    <3>3. at' \in [Calls -> Nat] /\ at'[c] = at[c] + 1
      BY <1>2, <2>3 DEF ThreadsTypeOK
    <3> QED BY <3>2, <3>3
  <2>7. ~late[c]
    BY <1>4 DEF InTime
  <2>8. Len(answers[c]) + 1 = at[c] /\ at[c] <= Count(c)
    BY <1>1, <1>2 DEF Connection
  <2>9. Count(c) = Count(c)' /\ Count(c) \in Nat /\ at[c] \in Nat
    BY <1>1, <1>2 DEF Count, Return, Connection, IsSequence, ThreadsTypeOK
  <2>10. CASE at[c] = Count(c)
    <3>1. /\ reply' \in [Calls -> Reply]
          /\ step' \in [Calls -> Steps]
          /\ reply'[c] = r
          /\ step'[c] = "release"
          /\ \A d \in Calls \ {c} : step'[d] = step[d] /\ reply'[d] = reply[d]
      BY <1>1, <2>4, <2>5, <2>10, RepliesMeans DEF Return
    <3>2. ThreadsTypeOK'
      BY <1>2, <1>3, <2>6, <3>1 DEF ThreadsTypeOK, Return
    <3>3. \A d \in Calls \ {c} : Kept(d)
      BY <1>2, <2>3, <3>1 DEF ThreadsTypeOK, Return, Kept
    <3>4. Matches(c)'
      <4>1. Len(reply'[c].answers) = Count(c)'
        BY <2>2, <2>4, <2>8, <2>9, <2>10, <3>1
      <4> QED BY <1>3, <2>4, <2>7, <3>1, <4>1 DEF Matches
    <3>5. Connection(c)'
      BY <1>1, <1>2, <3>1, <3>4 DEF Connection, Return, Holding
    <3>6. Quiet
      BY <1>1, <2>4, <3>1, <3>3 DEF Quiet, Kept
    <3> QED BY <3>2, <3>3, <3>5, <3>6, OneThread DEF Return
  <2>11. CASE at[c] # Count(c)
    <3>1. step' = [step EXCEPT ![c] = "infer"] /\ reply' = reply
      BY <2>5, <2>11
    <3>2. ThreadsTypeOK'
      BY <1>2, <1>3, <2>6, <3>1 DEF ThreadsTypeOK, Return, Steps, Holding
    <3>3. \A d \in Calls \ {c} : Kept(d)
      BY <1>2, <2>3, <3>1 DEF ThreadsTypeOK, Return, Kept
    <3>4. step'[c] = "infer" /\ reply'[c].status = 0
      BY <1>1, <1>2, <3>1, StatusMeans DEF Connection, ThreadsTypeOK
    <3>5. Len(answers'[c]) + 1 = at'[c] /\ at'[c] <= Count(c)'
      <4>1. Len(answers'[c]) = Len(answers[c]) + 1 /\ at'[c] = at[c] + 1
        BY <2>2, <2>6
      <4>2. at[c] < Count(c)
        BY <2>8, <2>9, <2>11
      <4> QED BY <2>8, <2>9, <4>1, <4>2
    <3>6. Connection(c)'
      <4>1. Count(c)' >= 1
        BY <1>1, <1>2, <2>9 DEF Connection
      <4>2. Matches(c)'
        BY <3>4 DEF Matches
      <4> QED BY <1>1, <1>2, <3>1, <3>4, <3>5, <4>1, <4>2
              DEF Connection, Return, Holding
    <3>7. Quiet
      BY <1>1, <3>1, <3>3, <3>4 DEF Quiet, Kept
    <3> QED BY <3>2, <3>3, <3>6, <3>7, OneThread DEF Return
  <2> QED BY <2>10, <2>11
<1>5. CASE ~InTime(c)
  <2> DEFINE r == Failed(c, "deadline")
  <2>1. /\ r \in Reply
        /\ r.status = 200
        /\ Len(r.answers) = Count(c)
        /\ \A i \in DOMAIN r.answers : r.answers[i] = NoAnswer
    BY <1>1, <1>2, FailedMeans DEF Connection, Causes
  <2>2. Replies(c, r) /\ answers' = answers /\ at' = at
    BY <1>5 DEF Return
  <2> HIDE DEF r
  <2>3. /\ reply' \in [Calls -> Reply]
        /\ step' \in [Calls -> Steps]
        /\ reply'[c] = r
        /\ step'[c] = "release"
        /\ \A d \in Calls \ {c} : step'[d] = step[d] /\ reply'[d] = reply[d]
    BY <1>1, <2>1, <2>2, RepliesMeans DEF Return
  <2>4. ThreadsTypeOK'
    BY <1>2, <1>3, <2>2, <2>3 DEF ThreadsTypeOK, Return
  <2>5. \A d \in Calls \ {c} : Kept(d)
    BY <1>2, <2>2, <2>3 DEF ThreadsTypeOK, Return, Kept
  <2>6. Matches(c)'
    BY <2>1, <2>3 DEF Matches, Count, Return
  <2>7. Connection(c)'
    BY <1>1, <1>2, <2>3, <2>6 DEF Connection, Return, Count, Holding
  <2>8. Quiet
    BY <1>1, <2>1, <2>3, <2>5 DEF Quiet, Kept
  <2> QED BY <2>4, <2>5, <2>7, <2>8, OneThread DEF Return
<1> QED BY <1>4, <1>5

LEMMA NonfiniteInv ==
    ASSUME BridgeInv, NEW c \in Calls, Nonfinite(c)
    PROVE  BridgeInv' /\ Quiet
<1> DEFINE r == Failed(c, "invalid_output")
<1>1. step[c] = "forward" /\ step[c] \in Holding
  BY DEF Nonfinite, Holding
<1>2. Connection(c) /\ ThreadsTypeOK
  BY DEF BridgeInv
<1>3. /\ r \in Reply
      /\ r.status = 200
      /\ Len(r.answers) = Count(c)
      /\ \A i \in DOMAIN r.answers : r.answers[i] = NoAnswer
  BY <1>1, <1>2, FailedMeans DEF Connection, Causes
<1>4. Replies(c, r)
  BY DEF Nonfinite
<1> HIDE DEF r
<1>5. /\ reply' \in [Calls -> Reply]
      /\ step' \in [Calls -> Steps]
      /\ reply'[c] = r
      /\ step'[c] = "release"
      /\ \A d \in Calls \ {c} : step'[d] = step[d] /\ reply'[d] = reply[d]
  BY <1>1, <1>3, <1>4, RepliesMeans DEF Nonfinite
<1>6. ThreadsTypeOK'
  BY <1>2, <1>5 DEF ThreadsTypeOK, Nonfinite
<1>7. \A d \in Calls \ {c} : Kept(d)
  BY <1>5 DEF Nonfinite, Kept
<1>8. Matches(c)'
  BY <1>3, <1>5 DEF Matches, Count, Nonfinite
<1>9. Connection(c)'
  BY <1>1, <1>2, <1>5, <1>8 DEF Connection, Nonfinite, Count, Holding
<1>10. Quiet
  BY <1>1, <1>3, <1>5, <1>7 DEF Quiet, Kept
<1> QED BY <1>6, <1>7, <1>9, <1>10, OneThread DEF Nonfinite

LEMMA RaiseInv ==
    ASSUME BridgeInv, NEW c \in Calls, Raise(c)
    PROVE  BridgeInv' /\ Quiet
<1>1. step[c] \in {"encode", "forward"} /\ step[c] \in Holding
  BY DEF Raise, Holding
<1>2. Connection(c) /\ ThreadsTypeOK
  BY DEF BridgeInv
<1>3. Status(500) \in Reply /\ Status(500).status = 500
  BY StatusMeans
<1>4. /\ reply' \in [Calls -> Reply]
      /\ step' \in [Calls -> Steps]
      /\ reply'[c] = Status(500)
      /\ step'[c] = "release"
      /\ \A d \in Calls \ {c} : step'[d] = step[d] /\ reply'[d] = reply[d]
  BY <1>1, <1>3, RepliesMeans DEF Raise
<1>5. ThreadsTypeOK'
  BY <1>2, <1>4 DEF ThreadsTypeOK, Raise
<1>6. \A d \in Calls \ {c} : Kept(d)
  BY <1>4 DEF Raise, Kept
<1>7. Connection(c)'
  BY <1>1, <1>2, <1>3, <1>4 DEF Connection, Raise, Matches, Holding
<1>8. Quiet
  BY <1>1, <1>3, <1>4, <1>6 DEF Quiet, Kept
<1> QED BY <1>5, <1>6, <1>7, <1>8, OneThread DEF Raise

LEMMA ReleaseInv ==
    ASSUME BridgeInv, NEW c \in Calls, Release(c)
    PROVE  BridgeInv' /\ Quiet
<1>1. step[c] = "release" /\ lock = c /\ lock' = Nobody
  BY DEF BridgeInv, Connection, Release, Holding
<1>2. ThreadsTypeOK'
  BY DEF BridgeInv, ThreadsTypeOK, Release, Steps
<1>3. step'[c] = "send"
  BY DEF BridgeInv, ThreadsTypeOK, Release
<1>4. \A d \in Calls \ {c} : Kept(d)
  BY DEF BridgeInv, ThreadsTypeOK, Release, Kept
<1>5. Connection(c)'
  BY <1>1, <1>3, BridgeAssumption
     DEF BridgeInv, Connection, Release, Matches, Count, Holding
<1>6. Quiet
  BY <1>1, <1>3, <1>4 DEF Quiet, Kept, Release
<1> QED BY <1>1, <1>2, <1>4, <1>5, <1>6, OneThread

\* A thread that ends, and what is kept of its connection.
LEMMA DoneMeans ==
    ASSUME ThreadsTypeOK, NEW C \in SUBSET Calls, Done(C)
    PROVE  /\ at' \in [Calls -> Nat]
           /\ late' \in [Calls -> BOOLEAN]
           /\ answers' \in [Calls -> Seq(Int)]
           /\ touched' \in [Calls -> BOOLEAN]
           /\ lateRead' \in [Calls -> BOOLEAN]
           /\ \A d \in C : Untouched(d)'
           /\ \A d \in Calls \ C :
                 /\ at'[d] = at[d]
                 /\ answers'[d] = answers[d]
                 /\ touched'[d] = touched[d]
                 /\ lateRead'[d] = lateRead[d]
<1>1. at' \in [Calls -> Nat] /\ answers' \in [Calls -> Seq(Int)]
  BY DEF ThreadsTypeOK, Done
<1>2. late' \in [Calls -> BOOLEAN]
  BY DEF ThreadsTypeOK, Done
<1>3. /\ touched' \in [Calls -> BOOLEAN]
      /\ lateRead' \in [Calls -> BOOLEAN]
  BY DEF ThreadsTypeOK, Done
<1>4. ASSUME NEW d \in C PROVE Untouched(d)'
  BY DEF Done, Untouched
<1>5. ASSUME NEW d \in Calls \ C
      PROVE  at'[d] = at[d] /\ answers'[d] = answers[d]
  BY DEF Done
<1>6. ASSUME NEW d \in Calls \ C
      PROVE  touched'[d] = touched[d] /\ lateRead'[d] = lateRead[d]
  BY DEF ThreadsTypeOK, Done
<1> QED BY <1>1, <1>2, <1>3, <1>4, <1>5, <1>6

LEMMA ForgetInv ==
    ASSUME BridgeInv, NEW c \in Calls, Forget(c), step[c] \notin Holding,
           lock' = lock
    PROVE  /\ BridgeInv'
           /\ Quiet
           /\ step'[c] = "free"
           /\ reply'[c] = NoReply
<1>1. ThreadsTypeOK /\ Connection(c) /\ lock # c
  BY DEF BridgeInv, Connection
<1>2. Done({c})
  BY DEF Forget
<1>3. /\ step' \in [Calls -> Steps]
      /\ reply' \in [Calls -> Reply]
      /\ asked' = [d \in Calls |-> asked'[d]]
      /\ step'[c] = "free" /\ reply'[c] = NoReply /\ reply'[c].status = 0
      /\ \A d \in Calls \ {c} : /\ step'[d] = step[d]
                                /\ reply'[d] = reply[d]
                                /\ asked'[d] = asked[d]
  BY <1>1, StatusMeans DEF ThreadsTypeOK, Forget, Steps
<1>4. ThreadsTypeOK'
  BY <1>1, <1>2, <1>3, DoneMeans DEF ThreadsTypeOK
<1>5. \A d \in Calls \ {c} : Kept(d)
  BY <1>1, <1>2, <1>3, DoneMeans DEF Kept
<1>6. Untouched(c)'
  BY <1>1, <1>2, DoneMeans
<1>7. Connection(c)'
  BY <1>1, <1>3, <1>6 DEF Connection, Matches, Holding
<1>8. Quiet
  BY <1>3, <1>5 DEF Quiet, Kept
<1> QED BY <1>3, <1>4, <1>5, <1>7, <1>8, OneThread

LEMMA SendInv ==
    ASSUME BridgeInv, NEW c \in Calls, Send(c)
    PROVE  BridgeInv' /\ Quiet
<1>1. CASE gone[c]
  BY <1>1, ForgetInv DEF Send, Holding
<1>2. CASE ~gone[c]
  <2>1. /\ step[c] = "send"
        /\ step' = [step EXCEPT ![c] = "read"]
        /\ Done({c})
        /\ asked' = asked /\ reply' = reply /\ lock' = lock
    BY <1>2 DEF Send
  <2>2. ThreadsTypeOK /\ Connection(c) /\ lock # c
    BY <2>1 DEF BridgeInv, Connection, Holding
  <2>3. ThreadsTypeOK'
    BY <2>1, <2>2, DoneMeans DEF ThreadsTypeOK, Steps
  <2>4. step'[c] = "read" /\ \A d \in Calls \ {c} : step'[d] = step[d]
    BY <2>1, <2>2 DEF ThreadsTypeOK
  <2>5. \A d \in Calls \ {c} : Kept(d)
    BY <2>1, <2>2, <2>4, DoneMeans DEF Kept
  <2>6. Untouched(c)'
    BY <2>1, <2>2, DoneMeans
  <2>7. Connection(c)'
    BY <2>1, <2>2, <2>4, <2>6
       DEF Connection, Untouched, Matches, Count, Holding
  <2>8. Quiet
    BY <2>1, <2>4 DEF Quiet
  <2> QED BY <2>1, <2>3, <2>5, <2>7, <2>8, OneThread
<1> QED BY <1>1, <1>2

LEMMA ThreadInv ==
    ASSUME BridgeInv, NEW c \in Calls, Thread(c), ~Busy(c)
    PROVE  BridgeInv' /\ Quiet
<1>1. CASE Vanish(c)
  BY <1>1, ForgetInv DEF Vanish, Holding
<1> QED BY <1>1, RefuseInv, AcquireInv, EncodeInv, ForwardInv, ReturnInv,
           NonfiniteInv, RaiseInv, ReleaseInv, SendInv DEF Thread
LEMMA ExpireInv ==
    ASSUME BridgeInv, NEW c \in Calls, Expire(c)
    PROVE  BridgeInv' /\ Quiet
<1>1. ThreadsTypeOK'
  BY DEF BridgeInv, ThreadsTypeOK, Expire
<1>2. \A d \in Calls : Kept(d)
  BY DEF Expire, Kept
<1>3. Connection(c)'
  BY DEF BridgeInv, Connection, Expire, Untouched, Matches, Count
<1> QED BY <1>1, <1>2, <1>3, OneThread DEF Expire, Quiet, Kept

LEMMA HangUpInv ==
    ASSUME BridgeInv, NEW c \in Calls, HangUp(c)
    PROVE  BridgeInv' /\ Quiet
<1>1. ThreadsTypeOK'
  BY DEF BridgeInv, ThreadsTypeOK, HangUp
<1>2. \A d \in Calls : Kept(d)
  BY DEF HangUp, Kept
<1>3. Connection(c)'
  BY DEF BridgeInv, Connection, HangUp, Untouched, Matches, Count
<1> QED BY <1>1, <1>2, <1>3, OneThread DEF HangUp, Quiet, Kept

LEMMA CloseInv ==
    ASSUME BridgeInv, NEW c \in Calls, Close(c)
    PROVE  BridgeInv' /\ Quiet /\ step'[c] = "free" /\ reply'[c] = NoReply
BY ForgetInv DEF Close, Holding

LEMMA LaunchInv ==
    ASSUME BridgeInv, NEW k, Launch(k)
    PROVE  BridgeInv' /\ Quiet
<1>1. ThreadsTypeOK'
  BY DEF BridgeInv, ThreadsTypeOK, Launch
<1>2. \A d \in Calls : Kept(d)
  BY DEF Launch, Kept
<1>3. \A d \in Calls : Connection(d)'
  BY DEF BridgeInv, Connection, Launch, Untouched, Matches, Count
<1> QED BY <1>1, <1>2, <1>3 DEF BridgeInv, Quiet, Kept

\* The server ends, and every thread that had not sent its reply with it.
LEMMA InterruptInv ==
    ASSUME BridgeInv, Interrupt
    PROVE  BridgeInv' /\ Quiet
<1> DEFINE live == {c \in Calls : step[c] \notin {"free", "read"}}
<1>1. /\ step' = [c \in Calls |-> IF c \in live THEN "lost" ELSE step[c]]
      /\ reply' = [c \in Calls |-> IF c \in live THEN NoReply ELSE reply[c]]
      /\ Done(live)
      /\ lock' = Nobody
      /\ asked' = asked
  BY DEF Interrupt
<1>2. ThreadsTypeOK /\ live \in SUBSET Calls
  BY DEF BridgeInv
<1>3. ThreadsTypeOK'
  BY <1>1, <1>2, DoneMeans, StatusMeans DEF ThreadsTypeOK, Steps
<1>4. ASSUME NEW d \in live
      PROVE  /\ step'[d] = "lost" /\ step[d] # "free"
             /\ reply'[d] = NoReply /\ reply'[d].status = 0
             /\ Untouched(d)'
             /\ Connection(d)'
  <2>1. /\ step'[d] = "lost" /\ step[d] # "free"
        /\ reply'[d] = NoReply /\ reply'[d].status = 0
    BY <1>1, StatusMeans
  <2>2. Untouched(d)'
    BY <1>1, <1>2, DoneMeans
  <2>3. Connection(d)
    BY DEF BridgeInv
  <2>4. lock' # d
    BY <1>1, BridgeAssumption
  <2> QED BY <1>1, <2>1, <2>2, <2>3, <2>4 DEF Connection, Matches, Holding
<1>5. ASSUME NEW d \in Calls \ live
      PROVE  Kept(d) /\ Connection(d)'
  <2>1. Kept(d)
    BY <1>1, <1>2, DoneMeans DEF Kept
  <2>2. Connection(d) /\ step[d] \in {"free", "read"} /\ lock' # d
    BY <1>1, BridgeAssumption DEF BridgeInv
  <2>3. (Untouched(d) <=> Untouched(d)') /\ (Matches(d) <=> Matches(d)')
    BY <2>1 DEF Kept, Untouched, Matches, Count
  <2> QED BY <2>1, <2>2, <2>3 DEF Kept, Connection, Holding
<1> HIDE DEF live
<1>6. \A d \in Calls : Connection(d)'
  BY <1>4, <1>5
<1>7. Quiet
  BY <1>4, <1>5 DEF Quiet, Kept
<1> QED BY <1>3, <1>6, <1>7 DEF BridgeInv

-----------------------------------------------------------------------------
(* The evaluator and its rows *)

LEMMA NoneMeans ==
    ASSUME NEW answer, NEW row, "none" \notin ToSet(row.keys)
    PROVE  LET p == Pick(answer, row) IN
           Agrees([pred |-> p[1], code |-> p[2]], row)
BY DEF Pick, Agrees

\* A row is done: one item more, that agrees with the row.
LEMMA RecordInv ==
    ASSUME ItemsInv, phase \in {"ask", "wait"}, NEW pred, NEW error,
           Agrees([pred |-> pred, code |-> error], Row),
           Record(pred, error), split' = split
    PROVE  ItemsInv' /\ phase' \in {"ask", "report"}
<1> DEFINE t == where[1]
           w == where[2]
           item == [pred |-> pred, code |-> error]
           more == w < Len(Limited(t))
<1>1. /\ t \in DOMAIN Tasks /\ w \in Nat
      /\ Len(items[t]) + 1 = w
      /\ \A u \in DOMAIN Tasks : IsList(items[u])
      /\ \A u \in DOMAIN Tasks : u > t => Len(items[u]) = 0
  BY DEF ItemsInv
<1>2. DOMAIN Tasks = 1..Len(Tasks) /\ Len(Tasks) \in Nat
  BY ContentAssumption DEF IsSequence
<1>3. /\ items' = [items EXCEPT ![t] = Append(@, item)]
      /\ where' = IF more THEN <<t, w + 1>> ELSE <<t + 1, 1>>
      /\ phase' = IF ~more /\ t = Len(Tasks) THEN "report" ELSE "ask"
  BY DEF Record
<1> HIDE DEF more, item
<1>4. /\ IsList(Append(items[t], item))
      /\ Len(Append(items[t], item)) = w
      /\ \A i \in 1..(w - 1) : Append(items[t], item)[i] = items[t][i]
      /\ Append(items[t], item)[w] = item
  BY <1>1, AppendMeans
<1>5. /\ items' = [u \in DOMAIN Tasks |-> items'[u]]
      /\ items'[t] = Append(items[t], item)
      /\ \A u \in DOMAIN Tasks : u # t => items'[u] = items[u]
  BY <1>1, <1>3 DEF ItemsInv
<1>6. \A u \in DOMAIN Tasks : IsList(items'[u])
  BY <1>1, <1>4, <1>5
<1>7. phase' # "report" =>
        /\ where' \in (DOMAIN Tasks) \X Nat
        /\ Len(items'[where'[1]]) + 1 = where'[2]
        /\ \A u \in DOMAIN Tasks : u > where'[1] => Len(items'[u]) = 0
  <2>1. CASE more
    <3>1. where' = <<t, w + 1>> /\ where'[1] = t /\ where'[2] = w + 1
      BY <1>3, <2>1
    <3>2. where' \in (DOMAIN Tasks) \X Nat
      BY <1>1, <3>1
    <3>3. Len(items'[t]) = w
      BY <1>4, <1>5
    <3>4. \A u \in DOMAIN Tasks : u > t => Len(items'[u]) = 0
      BY <1>1, <1>2, <1>5
    <3> QED BY <3>1, <3>2, <3>3, <3>4
  <2>2. CASE ~more /\ t # Len(Tasks)
    <3>1. where' = <<t + 1, 1>> /\ where'[1] = t + 1 /\ where'[2] = 1
      BY <1>3, <2>2
    <3>2. t + 1 \in DOMAIN Tasks
      BY <1>1, <1>2, <2>2
    <3>3. Len(items'[t + 1]) = 0
      BY <1>1, <1>2, <1>5, <3>2
    <3>4. \A u \in DOMAIN Tasks : u > t + 1 => Len(items'[u]) = 0
      BY <1>1, <1>2, <1>5
    <3> QED BY <3>1, <3>2, <3>3, <3>4
  <2> QED BY <1>3, <2>1, <2>2
<1>8. ASSUME NEW u \in DOMAIN Tasks, NEW i \in 1..Len(items'[u])
      PROVE  Agrees(items'[u][i], split'[u][i])
  <2>1. CASE u # t
    BY <1>5, <2>1 DEF ItemsInv
  <2>2. CASE u = t /\ i < w
    <3>1. i \in 1..(w - 1) /\ i \in 1..Len(items[u])
      BY <1>1, <1>4, <1>5, <2>2
    <3>2. items'[u][i] = items[u][i]
      BY <1>4, <1>5, <2>2, <3>1
    <3> QED BY <3>1, <3>2 DEF ItemsInv
  <2>3. CASE u = t /\ i = w
    BY <1>4, <1>5, <2>3 DEF Row, item
  <2>4. i \in 1..w \/ u # t
    BY <1>4, <1>5
  <2> QED BY <1>1, <2>1, <2>2, <2>3, <2>4
<1>9. phase' \in {"ask", "report"}
  BY <1>3
<1> QED BY <1>5, <1>6, <1>7, <1>8, <1>9 DEF ItemsInv

LEMMA AgainInv ==
    ASSUME ItemsInv, phase \in {"ask", "wait"}, split' = split, NEW error,
           error # "none", Again(error)
    PROVE  ItemsInv' /\ phase' \in {"ask", "report"}
<1>1. CASE attempt < Attempts
  BY <1>1 DEF Again, ItemsInv
<1>2. CASE ~(attempt < Attempts)
  <2>1. Record("none", error)
    BY <1>2 DEF Again
  <2>2. Agrees([pred |-> "none", code |-> error], Row)
    BY DEF Agrees
  <2> QED BY <2>1, <2>2, RecordInv
<1> QED BY <1>1, <1>2

LEMMA ReadInv ==
    ASSUME ItemsInv, phase \in {"ask", "wait"}, split' = split,
           NEW status, NEW form, NEW answer, Read(status, form, answer)
    PROVE  ItemsInv' /\ phase' \in {"ask", "report"}
<1>1. \A e : e # "none" => Agrees([pred |-> "none", code |-> e], Row)
  BY DEF Agrees
<1>2. \A e \in {"http_client_error", "bad_response", "bad_answer"} :
        Record("none", e) => ItemsInv' /\ phase' \in {"ask", "report"}
  BY <1>1, RecordInv
<1>3. ASSUME Answered(answer)
      PROVE  ItemsInv' /\ phase' \in {"ask", "report"}
  <2> DEFINE p == Pick(answer, Row)
  <2>1. Record(p[1], p[2])
    BY <1>3 DEF Answered
  <2>2. Agrees([pred |-> p[1], code |-> p[2]], Row)
    <3>1. CASE "none" \in ToSet(Row.keys)
      BY <3>1 DEF Agrees
    <3>2. CASE "none" \notin ToSet(Row.keys)
      BY <3>2, NoneMeans
    <3> QED BY <3>1, <3>2
  <2> QED BY <2>1, <2>2, RecordInv
<1>4. Again("http_server_error") => ItemsInv' /\ phase' \in {"ask", "report"}
  BY AgainInv
<1> QED BY <1>2, <1>3, <1>4 DEF Read
\* While the splits are fetched no row has been asked.
LEMMA FetchInv ==
    ASSUME ItemsInv, phase = "fetch", phase' \in {"fetch", "ask", "refused"},
           items' = items, where' = where
    PROVE  ItemsInv'
<1>1. DOMAIN Tasks = 1..Len(Tasks) /\ Len(Tasks) \in Nat
  BY ContentAssumption DEF IsSequence
<1>2. where = <<1, 1>> /\ where[1] = 1 /\ where[2] = 1
  BY DEF ItemsInv
<1>3. /\ \A t \in DOMAIN Tasks : IsList(items[t])
      /\ Len(items[1]) + 1 = 1
      /\ 1 \in DOMAIN Tasks
      /\ \A t \in DOMAIN Tasks : t > 1 => Len(items[t]) = 0
  BY <1>2 DEF ItemsInv
<1>4. ASSUME NEW t \in DOMAIN Tasks PROVE Len(items[t]) = 0
  <2>1. Len(items[t]) \in Nat /\ Len(items[1]) \in Nat
    BY <1>3 DEF IsList
  <2> QED BY <1>1, <1>3, <2>1
<1>5. \A t \in DOMAIN Tasks : \A i \in 1..Len(items'[t]) :
        Agrees(items'[t][i], split'[t][i])
  BY <1>4
<1> QED BY <1>5 DEF ItemsInv

LEMMA ItemsKept ==
    ASSUME ItemsInv, UNCHANGED <<phase, items, where, split>>
    PROVE  ItemsInv'
BY DEF ItemsInv

\* The work of the bridge that nobody starts, and that tells nobody it is busy.
LEMMA QuietAlone ==
    ASSUME Alone, Quiet, UNCHANGED <<phase, mine, others, gaveUp>>
    PROVE  Alone'
<1>1. /\ others' \in Nat /\ gaveUp' \in BOOLEAN /\ mine' \in Calls \cup {Nobody}
      /\ (phase' = "wait") <=> (mine' # Nobody)
  BY DEF Alone
<1>2. others' = others /\ (gaveUp' <=> gaveUp) /\ mine' = mine
  BY SMT
<1>3. ASSUME others' = 0, ~gaveUp', NEW c \in Calls
      PROVE  (step'[c] # "free" => mine' = c) /\ reply'[c].status # 429
  <2>1. others = 0 /\ ~gaveUp
    BY <1>2, <1>3, Zenon
  <2>2. (step[c] # "free" => mine = c) /\ reply[c].status # 429
    BY <2>1, Zenon DEF Alone
  <2>3. step'[c] # "free" => mine' = c
    BY <1>2, <2>2, Zenon DEF Quiet
  <2>4. reply'[c].status # 429
    BY <2>2 DEF Quiet
  <2> QED BY <2>3, <2>4
<1> QED BY <1>1, <1>3, Zenon DEF Alone

\* The reply is read, and the evaluator has no connection any more.
LEMMA ClosedAlone ==
    ASSUME Alone, BridgeInv, phase = "wait", Close(mine), mine' = Nobody,
           phase' \in {"ask", "report"}, UNCHANGED <<others, gaveUp>>
    PROVE  Alone' /\ BridgeInv'
<1>1. mine \in Calls
  BY DEF Alone
<1>2. BridgeInv' /\ Quiet /\ step'[mine] = "free"
  BY <1>1, CloseInv
<1>3. /\ others' \in Nat /\ gaveUp' \in BOOLEAN /\ mine' \in Calls \cup {Nobody}
      /\ (phase' = "wait") <=> (mine' # Nobody)
  BY DEF Alone
<1>4. ASSUME others' = 0, ~gaveUp', NEW c \in Calls
      PROVE  (step'[c] # "free" => mine' = c) /\ reply'[c].status # 429
  <2>1. (step[c] # "free" => mine = c) /\ reply[c].status # 429
    BY <1>4, Zenon DEF Alone
  <2>2. step'[c] = "free"
    BY <1>2, <2>1, Zenon DEF Quiet
  <2>3. reply'[c].status # 429
    BY <1>2, <2>1, Zenon DEF Quiet
  <2> QED BY <2>2, <2>3
<1>5. Alone'
  BY <1>3, <1>4, Zenon DEF Alone
<1> QED BY <1>2, <1>5

LEMMA InitIInv ==
    ASSUME Init
    PROVE  IInv
<1>1. \A c \in Calls : step[c] = "free" /\ reply[c] = NoReply /\ reply[c].status = 0
  BY StatusMeans DEF Init, InitBridge
<1>2. ThreadsTypeOK
  <2>1. <<>> \in Seq(Int)
    OBVIOUS
  <2> QED BY <2>1, StatusMeans DEF Init, InitBridge, ThreadsTypeOK, Steps
<1>3. \A c \in Calls : Connection(c)
  BY <1>1, BridgeAssumption
     DEF Init, InitBridge, Connection, Untouched, Matches, Holding
<1>4. Alone
  <2>1. /\ others \in Nat /\ gaveUp \in BOOLEAN /\ mine = Nobody
        /\ (phase = "wait") <=> (mine # Nobody)
    BY DEF Init
  <2> QED BY <1>1, <2>1 DEF Alone
<1>5. ItemsInv
  <2>1. DOMAIN Tasks = 1..Len(Tasks) /\ 1 \in DOMAIN Tasks
    BY ContentAssumption DEF IsSequence
  <2>2. \A t \in DOMAIN Tasks : IsList(items[t]) /\ Len(items[t]) = 0
    BY EmptyMeans DEF Init
  <2>3. items = [t \in DOMAIN Tasks |-> items[t]]
    BY DEF Init
  <2> QED BY <2>1, <2>2, <2>3 DEF Init, ItemsInv
<1> QED BY <1>2, <1>3, <1>4, <1>5 DEF IInv, BridgeInv

LEMMA AskIInv ==
    ASSUME IInv, Ask
    PROVE  IInv'
<1>1. PICK c \in Calls, keys \in Orders(Row) :
        Post(c, Body(Row, keys)) /\ mine' = c
  BY DEF Ask
<1>2. IsSequence(Body(Row, keys).questions)
  BY DEF Body, IsSequence
<1>3. BridgeInv' /\ \A d \in Calls \ {c} : Kept(d)
  BY <1>1, <1>2, PostInv DEF IInv
<1>4. \A d \in Calls : reply'[d] = reply[d]
  BY <1>1 DEF Post
<1>5. Alone'
  BY <1>1, <1>3, <1>4, BridgeAssumption DEF IInv, Alone, Ask, Kept
<1>6. ItemsInv'
  BY DEF IInv, ItemsInv, Ask
<1> QED BY <1>3, <1>5, <1>6 DEF IInv

LEMMA EvaluatorIInv ==
    ASSUME IInv, Evaluator
    PROVE  IInv'
<1> USE DEF IInv
<1>1. \A c \in Calls : UNCHANGED bridgeVars => Kept(c)
  BY DEF bridgeVars, callVars, serverVars, Kept
<1>2. UNCHANGED bridgeVars => BridgeInv' /\ Quiet
  <2>1. SUFFICES ASSUME UNCHANGED bridgeVars PROVE BridgeInv' /\ Quiet
    OBVIOUS
  <2>2. ThreadsTypeOK'
    BY <2>1 DEF BridgeInv, ThreadsTypeOK, bridgeVars, callVars
  <2>3. \A d \in Calls : Connection(d)'
    BY <2>1 DEF BridgeInv, Connection, Untouched, Matches, Count, bridgeVars,
                callVars
  <2> QED BY <1>1, <2>1, <2>2, <2>3 DEF BridgeInv, Quiet, Kept
<1>3. UNCHANGED <<bridgeVars, mine, others, gaveUp>> /\ phase # "wait"
      /\ phase' # "wait" => Alone'
  <2>1. SUFFICES ASSUME UNCHANGED <<bridgeVars, mine, others, gaveUp>>,
                        phase # "wait", phase' # "wait"
                 PROVE  Alone'
    OBVIOUS
  <2>2. /\ others' \in Nat /\ gaveUp' \in BOOLEAN /\ mine' = Nobody
        /\ (phase' = "wait") <=> (mine' # Nobody)
    BY <2>1 DEF Alone
  <2>3. ASSUME others' = 0, ~gaveUp', NEW c \in Calls
        PROVE  (step'[c] # "free" => mine' = c) /\ reply'[c].status # 429
    <3>1. (step[c] # "free" => mine = c) /\ reply[c].status # 429
      BY <2>1, <2>3, Zenon DEF Alone
    <3> QED BY <2>1, <3>1 DEF bridgeVars, callVars
  <2> QED BY <2>2, <2>3, Zenon DEF Alone
<1>4. CASE OutputTaken \/ FromCache \/ Download \/ Link
  <2>1. /\ phase = "fetch" /\ phase' \in {"fetch", "ask", "refused"}
        /\ items' = items /\ where' = where
        /\ UNCHANGED <<bridgeVars, mine, others, gaveUp>>
    BY <1>4 DEF OutputTaken, FromCache, Download, Link, Stop, Loaded
  <2> QED BY <1>2, <1>3, <2>1, FetchInv
<1>5. CASE Ask
  BY <1>5, AskIInv
<1>6. CASE Receive
  <2>1. PICK status, answer : Read(status, "ok", answer)
    BY <1>6 DEF Receive
  <2>2. ItemsInv' /\ phase' \in {"ask", "report"}
    BY <1>6, <2>1, ReadInv DEF Receive
  <2> QED BY <1>6, <2>2, ClosedAlone DEF Receive
<1>7. CASE Disconnected
  <2>1. ItemsInv' /\ phase' \in {"ask", "report"}
    BY <1>7, AgainInv DEF Disconnected
  <2> QED BY <1>7, <2>1, ClosedAlone DEF Disconnected
<1>8. CASE TimeOut
  <2>1. ItemsInv' /\ phase' \in {"ask", "report"}
    BY <1>8, AgainInv DEF TimeOut
  <2>2. mine \in Calls
    BY <1>8 DEF TimeOut, Alone
  <2>3. BridgeInv'
    BY <1>8, <2>2, HangUpInv DEF TimeOut
  <2>4. Alone'
    BY <1>8, <2>1 DEF TimeOut, Alone
  <2> QED BY <2>1, <2>3, <2>4
<1>9. CASE Unreachable
  <2>1. ItemsInv' /\ phase' \in {"ask", "report"}
    BY <1>9, AgainInv DEF Unreachable
  <2> QED BY <1>2, <1>3, <1>9, <2>1 DEF Unreachable
<1>10. CASE AskForeign
  <2>1. ItemsInv' /\ phase' \in {"ask", "report"}
    <3>1. CASE Again("transport")
      BY <1>10, <3>1, AgainInv DEF AskForeign
    <3>2. CASE \E r \in ForeignReplies : Read(r.status, r.form, r.answer)
      BY <1>10, <3>2, ReadInv DEF AskForeign
    <3> QED BY <1>10, <3>1, <3>2 DEF AskForeign
  <2> QED BY <1>2, <1>3, <1>10, <2>1 DEF AskForeign
<1>11. CASE Save
  <2>1. ItemsInv'
    BY <1>11 DEF Save, ItemsInv
  <2> QED BY <1>2, <1>3, <1>11, <2>1 DEF Save
<1> QED BY <1>4, <1>5, <1>6, <1>7, <1>8, <1>9, <1>10, <1>11 DEF Evaluator

LEMMA OthersIInv ==
    ASSUME IInv,
           \/ Start \/ Kill \/ OtherAsks \/ OtherCaches \/ OtherWrites
           \/ UNCHANGED vars
    PROVE  IInv'
<1> USE DEF IInv
<1>1. CASE Start
  <2>1. BridgeInv' /\ Quiet
    BY <1>1, LaunchInv DEF Start
  <2> QED BY <1>1, <2>1, QuietAlone, ItemsKept DEF Start, runVars
<1>2. CASE Kill
  <2>1. BridgeInv' /\ Quiet
    BY <1>2, InterruptInv DEF Kill
  <2> QED BY <1>2, <2>1, QuietAlone, ItemsKept DEF Kill, runVars
<1>3. CASE OtherAsks
  <2>1. PICK c \in Calls, b \in OtherBodies : Post(c, b)
    BY <1>3 DEF OtherAsks
  <2>2. BridgeInv'
    BY <2>1, PostInv, ContentAssumption
  <2>3. Alone'
    BY <1>3 DEF OtherAsks, Alone
  <2> QED BY <1>3, <2>2, <2>3, ItemsKept DEF OtherAsks
<1>4. CASE OtherCaches \/ OtherWrites \/ UNCHANGED vars
  <2>1. UNCHANGED <<bridgeVars, phase, split, where, mine, items, others, gaveUp>>
    BY <1>4 DEF OtherCaches, OtherWrites, vars, runVars
  <2>2. ThreadsTypeOK'
    BY <2>1 DEF BridgeInv, ThreadsTypeOK, bridgeVars, callVars
  <2>3. \A d \in Calls : Connection(d)' /\ Kept(d)
    BY <2>1 DEF BridgeInv, Connection, Untouched, Matches, Count, bridgeVars,
                callVars, Kept
  <2>4. BridgeInv' /\ Quiet
    BY <2>2, <2>3 DEF BridgeInv, Quiet, Kept
  <2> QED BY <2>1, <2>4, QuietAlone, ItemsKept
<1> QED BY <1>1, <1>2, <1>3, <1>4

LEMMA ConnectionsIInv ==
    ASSUME IInv, NEW c \in Calls, Serve(c) \/ Tick(c) \/ OtherReads(c)
    PROVE  IInv'
<1> USE DEF IInv
<1>1. UNCHANGED runVars
  BY DEF Serve, Tick, OtherReads
<1>2. UNCHANGED <<phase, split, where, items, mine, others, gaveUp>>
  BY <1>1 DEF runVars
<1>3. CASE Serve(c) /\ Busy(c)
  <2>1. BridgeInv' /\ \A d \in Calls \ {c} : Kept(d)
    BY <1>3, BusyInv
  <2>2. step[c] = "sent" /\ lock \in Calls /\ step[lock] \in Holding
    BY <1>3 DEF Busy, BridgeInv, ThreadsTypeOK, Connection
  <2>3. step[lock] # "free" /\ lock # c
    BY <2>2 DEF Holding
  <2>4. ~(others = 0 /\ ~gaveUp)
    BY <2>2, <2>3 DEF Alone
  <2>5. Alone'
    BY <1>2, <2>4 DEF Alone
  <2> QED BY <1>2, <2>1, <2>5, ItemsKept
<1>4. CASE Serve(c) /\ ~Busy(c)
  <2>1. BridgeInv' /\ Quiet
    BY <1>4, ThreadInv DEF Serve
  <2> QED BY <1>2, <2>1, QuietAlone, ItemsKept
<1>5. CASE Tick(c)
  <2>1. BridgeInv' /\ Quiet
    BY <1>5, ExpireInv DEF Tick
  <2> QED BY <1>2, <2>1, QuietAlone, ItemsKept
<1>6. CASE OtherReads(c)
  <2>1. BridgeInv' /\ Quiet
    BY <1>6, CloseInv DEF OtherReads
  <2> QED BY <1>2, <2>1, QuietAlone, ItemsKept
<1> QED BY <1>3, <1>4, <1>5, <1>6

\* The invariant of the evaluator and its bridge, in every state.
THEOREM RunInvariant == Spec => []IInv
<1>1. Init => IInv
  BY InitIInv
<1>2. IInv /\ [Next]_vars => IInv'
  BY EvaluatorIInv, OthersIInv, ConnectionsIInv DEF Next
<1> QED BY <1>1, <1>2, PTL DEF Spec

\* What a reply of the bridge says agrees with the work done for it, however
\* its threads, its deadline and its interruption interleave (llm_bridge.py
\* handle and _run).
THEOREM RepliesAgree == Spec => []RepliesMatchWork
<1>1. IInv => RepliesMatchWork
  BY DEF IInv, BridgeInv, Connection, Matches, Count, RepliesMatchWork
<1> QED BY <1>1, RunInvariant, PTL

\* An evaluator alone on the bridge that never gave up on a request is never
\* told that it is busy: the lock is given back before the reply is sent
\* (llm_bridge.py handle, ptbr_bench.py call).
THEOREM AloneNeverBusy == Spec => []NeverBusyAlone
<1>1. IInv => NeverBusyAlone
  BY DEF IInv, Alone, NeverBusyAlone
<1> QED BY <1>1, RunInvariant, PTL

\* A saved report is accepted exactly if it was declared ready and its splits
\* are those of the Hub (ptbr_bench.py readiness and pick,
\* validate_submission.py validate).
THEOREM ReadyReports == Spec => []ReadyIsAccepted
<1>1. ASSUME IInv, Ready, \A t \in DOMAIN Tasks : split[t] = Published[t]
      PROVE  Accepts
  <2>1. ASSUME NEW t \in DOMAIN Tasks PROVE ItemsMatch(t)
    <3>1. /\ IsList(items[t])
          /\ \A i \in 1..Len(items[t]) : Agrees(items[t][i], split[t][i])
          /\ Len(items[t]) = Len(Published[t])
      BY <1>1 DEF IInv, ItemsInv, Ready, Complete
    <3>2. DOMAIN items[t] = 1..Len(items[t])
      BY <3>1 DEF IsList
    <3>3. DOMAIN Published[t] = 1..Len(items[t])
      BY <3>1, ContentAssumption DEF IsSequence
    <3>4. ASSUME NEW i \in DOMAIN items[t]
          PROVE  LET item == items[t][i] row == Published[t][i] IN
                   /\ split[t][i].gold = row.gold
                   /\ item.pred = "none" \/ item.pred \in
                        (IF row.type = "noul" THEN {"yes", "no"}
                         ELSE ToSet(row.keys))
                   /\ (item.pred = "none") <=> (item.code # "none")
      <4>1. split[t] = Published[t]
        BY <1>1
      <4>2. Agrees(items[t][i], Published[t][i])
        BY <3>1, <3>2, <3>4, <4>1
      <4>3. "none" \notin ToSet(Published[t][i].keys)
        BY <3>2, <3>3, <3>4, ContentAssumption
      <4> QED BY <4>1, <4>2, <4>3 DEF Agrees
    <3> QED BY <3>1, <3>4 DEF ItemsMatch
  <2>2. \A t \in DOMAIN Tasks :
          Summary(items[t], split[t]) = Summary(items[t], Published[t])
    BY <1>1
  <2> QED BY <1>1, <2>1, <2>2 DEF Accepts
<1>2. IInv => ReadyIsAccepted
  BY <1>1 DEF ReadyIsAccepted, Accepts
<1> QED BY <1>2, RunInvariant, PTL

-----------------------------------------------------------------------------
(* Journals that grow *)

\* What an append leaves of the lines before it: a line that was cut may be
\* continued, the others stay.
Grows(old, new) ==
    /\ Len(new) >= Len(old)
    /\ \A i \in 1..Len(old) :
          IF old[i].format = "glued"
          THEN new[i].format = "glued" /\ old[i].parts \subseteq new[i].parts
          ELSE new[i] = old[i]

JournalOk(lines, broken) ==
    /\ Listed(lines)
    /\ broken => lines # <<>> /\ Last(lines).format = "glued"

OnRecord(decision, checkpoint) ==
    \E j \in Journals : \E line \in Written(journal[j]) :
        /\ line.key = decision.key
        /\ line.prediction = decision.prediction
        /\ line.identity.checkpoint = checkpoint

Backed(report) == \A i \in DOMAIN report.rows : OnRecord(report.rows[i], report.checkpoint)

Shape ==
    /\ DOMAIN stage = Launches /\ DOMAIN digest = Launches
    /\ DOMAIN progress = Runs /\ DOMAIN bound = Runs /\ DOMAIN record = Runs
    /\ DOMAIN rows = Runs /\ DOMAIN outputs = Runs
    /\ answering \in [Runs -> BOOLEAN]
    /\ DOMAIN journal = Journals /\ torn \in [Journals -> BOOLEAN]

GivenOk ==
    /\ \A l \in Launches : \A q \in ToSet(Requests(config[l])) : q.tokens \in Nat
    /\ \A r \in Runs : /\ arguments[r].command \in {"none", "pairs", "task"}
                       /\ arguments[r].journal \in Journals
    /\ given.journal \in Journals
    /\ Listed(inputs.camaraData) /\ Listed(inputs.legalData)

ServersOk ==
    /\ port \in Launches => stage[port] = "serving"
    /\ \A l \in Launches :
          stage[l] \in {"checked", "published", "frozen", "serving"} =>
              Preflight(config[l])

InHand(r) ==
    /\ record[r].format = arguments[r].command
    /\ record[r].identity = Identity(arguments[r], bound[r])
    /\ bound[r] # NoOne => record[r].faithful

OutputOk(r) ==
    /\ outputs[r].format \in {"none", "summary", "report"}
    /\ outputs[r].format = "summary" =>
          /\ Begins(journal[arguments[r].journal], arguments[r], outputs[r].answers)
          /\ Cardinality(ToSet(Keys(arguments[r]))) \in Nat
    /\ outputs[r].format = "report" =>
          Listed(outputs[r].rows) /\ Backed(outputs[r])

ControlOk(r) ==
    /\ progress[r] \in {"absent", "idle", "bind", "dead"} => ~answering[r]
    /\ answering[r] => Live(bound[r])
    /\ progress[r] = "append" => InHand(r)

RowsOk(r) ==
    /\ Listed(rows[r])
    /\ \A i \in DOMAIN rows[r] : OnRecord(rows[r][i], arguments[r].checkpoint)

RunOk(r) == ControlOk(r) /\ RowsOk(r) /\ OutputOk(r)

ImportOk ==
    /\ importer \in {"once", "twice", "done"} =>
          given.command = "pairs" /\ given.prepared.mode = "v3camara"
    /\ importer = "twice" => /\ Begins(journal[given.journal], given, imported)
                            /\ Cardinality(ToSet(Keys(given))) \in Nat
    /\ importer = "done" =>
          /\ Begins(imported.journal, given,
                    [k \in ToSet(Keys(given)) |-> imported.rows[k[1]].prediction])
          /\ imported.format = "imported"
          /\ DOMAIN imported.rows = DOMAIN imported.source
          /\ Backed(imported)

TasksInv ==
    /\ Shape /\ GivenOk /\ ServersOk
    /\ \A j \in Journals : JournalOk(journal[j], torn[j])
    /\ RecordsBound
    /\ \A r \in Runs : RunOk(r)
    /\ ImportOk
    /\ CombinedAnswered

-----------------------------------------------------------------------------
(* Lemmas about lists and journals *)

LEMMA ListFacts ==
    ASSUME NEW s, Listed(s)
    PROVE  Len(s) \in Nat /\ DOMAIN s = 1..Len(s)
  BY DEF Listed

LEMMA SeqIsListed ==
    ASSUME NEW S, NEW s \in Seq(S)
    PROVE  Listed(s)
<1>1. Len(s) \in Nat /\ DOMAIN s = 1..Len(s) /\ s \in [1..Len(s) -> S]
  BY LenProperties
<1>2. s \in [1..Len(s) -> ToSet(s)]
  BY <1>1 DEF ToSet
<1> QED BY <1>1, <1>2 DEF Listed

LEMMA AppendFacts ==
    ASSUME NEW s, Listed(s), NEW x
    PROVE  /\ Listed(Append(s, x))
           /\ Len(Append(s, x)) = Len(s) + 1
           /\ \A i \in 1..Len(s) : Append(s, x)[i] = s[i]
           /\ Append(s, x)[Len(s) + 1] = x
<1> DEFINE S == ToSet(s) \cup {x}
<1>1. s \in Seq(S) /\ x \in S
  <2>1. s \in Seq(ToSet(s)) /\ ToSet(s) \subseteq S BY DEF Listed
  <2>2. \A i \in 1..Len(s) : s[i] \in S BY <2>1, LenProperties
  <2> QED BY <2>1, <2>2
<1> HIDE DEF S
<1>2. /\ Append(s, x) \in Seq(S)
      /\ Len(Append(s, x)) = Len(s) + 1
      /\ \A i \in 1..Len(s) : Append(s, x)[i] = s[i]
      /\ Append(s, x)[Len(s) + 1] = x
  BY <1>1, AppendProperties
<1>3. Listed(Append(s, x)) BY <1>2, SeqIsListed
<1> QED BY <1>2, <1>3

LEMMA FrontFacts ==
    ASSUME NEW s, Listed(s), s # <<>>
    PROVE  /\ Len(s) >= 1
           /\ Listed(Front(s))
           /\ Len(Front(s)) = Len(s) - 1
           /\ \A i \in 1..(Len(s) - 1) : Front(s)[i] = s[i]
<1>1. s \in Seq(ToSet(s)) /\ Len(s) \in Nat /\ DOMAIN s = 1..Len(s)
  BY ListFacts DEF Listed
<1>2. Len(s) >= 1 BY <1>1
<1>3. \A i \in 1..(Len(s) - 1) : s[i] \in ToSet(s) BY <1>1, <1>2 DEF ToSet
<1>4. /\ SubSeq(s, 1, Len(s) - 1) \in Seq(ToSet(s))
      /\ Len(SubSeq(s, 1, Len(s) - 1)) = IF 1 <= Len(s) - 1 THEN Len(s) - 1 - 1 + 1 ELSE 0
      /\ \A i \in 1..(Len(s) - 1 - 1 + 1) : SubSeq(s, 1, Len(s) - 1)[i] = s[1 + i - 1]
  BY <1>1, <1>2, <1>3, SubSeqProperties
<1>5. Listed(SubSeq(s, 1, Len(s) - 1)) BY <1>4, SeqIsListed
<1> QED BY <1>1, <1>2, <1>4, <1>5 DEF Front

LEMMA SameGrows ==
    ASSUME NEW s, Listed(s)
    PROVE  Grows(s, s)
  BY ListFacts DEF Grows

\* What was written stays in a journal that grows.
LEMMA WrittenStays ==
    ASSUME NEW old, NEW new, Listed(old), Listed(new), Grows(old, new)
    PROVE  Written(old) \subseteq Written(new)
<1> SUFFICES ASSUME NEW i \in DOMAIN old,
                    NEW x \in (IF old[i].format = "glued" THEN old[i].parts
                               ELSE {old[i]})
             PROVE  x \in Written(new)
  BY DEF Written
<1>1. i \in 1..Len(old) /\ i \in DOMAIN new BY ListFacts DEF Grows
<1>2. x \in (IF new[i].format = "glued" THEN new[i].parts ELSE {new[i]})
  BY <1>1 DEF Grows
<1> QED BY <1>1, <1>2 DEF Written

\* Whole lines stay, and with them what was computed from them.
LEMMA BeginsStays ==
    ASSUME NEW old, NEW new, Listed(old), Listed(new), Grows(old, new),
           NEW a, NEW predicted, Cardinality(ToSet(Keys(a))) \in Nat,
           Begins(old, a, predicted)
    PROVE  Begins(new, a, predicted)
<1> DEFINE n == Cardinality(ToSet(Keys(a)))
<1>1. n \in Nat /\ Len(old) \in Nat /\ Len(new) \in Nat /\ Len(old) >= n
  BY ListFacts DEF Begins
<1>2. \A i \in 1..n : LineLegal(old[i], a, old[1].identity.evidence)
  BY DEF Begins
<1>3. \A i \in 1..n : i \in 1..Len(old) /\ old[i].format # "glued"
  <2> SUFFICES ASSUME NEW i \in 1..n PROVE i \in 1..Len(old) /\ old[i].format # "glued"
    OBVIOUS
  <2>1. old[i].format = "pairs" BY <1>2 DEF LineLegal
  <2> QED BY <1>1, <2>1
<1>4. \A i \in 1..n : new[i] = old[i] BY <1>3 DEF Grows
<1>5. n >= 1 => new[1] = old[1] BY <1>1, <1>4
<1>6. Len(new) >= n BY <1>1 DEF Grows
<1>7. {new[i].key : i \in 1..n} = {old[i].key : i \in 1..n} BY <1>4
<1>8. {old[i].key : i \in 1..n} = ToSet(Keys(a)) BY DEF Begins
<1>9. \A i \in 1..n : /\ LineLegal(new[i], a, new[1].identity.evidence)
                       /\ predicted[new[i].key] = new[i].prediction
  <2> SUFFICES ASSUME NEW i \in 1..n
               PROVE  /\ LineLegal(new[i], a, new[1].identity.evidence)
                      /\ predicted[new[i].key] = new[i].prediction
    OBVIOUS
  <2>1. new[1] = old[1] /\ new[i] = old[i] BY <1>1, <1>4, <1>5
  <2>2. predicted[old[i].key] = old[i].prediction BY DEF Begins
  <2> QED BY <1>2, <2>1, <2>2
<1> QED BY <1>6, <1>7, <1>8, <1>9 DEF Begins

\* An append extends a cut line or adds one, and writes its line.
LEMMA ExtendedGrows ==
    ASSUME NEW j \in Journals, torn[j] \in BOOLEAN, JournalOk(journal[j], torn[j]),
           NEW line, line.format # "glued"
    PROVE  /\ Listed(Extended(j, line))
           /\ Grows(journal[j], Extended(j, line))
           /\ Written(Extended(j, line)) = Written(journal[j]) \cup {line}
<1> DEFINE s == journal[j]
<1>1. Listed(s) /\ Len(s) \in Nat /\ DOMAIN s = 1..Len(s) BY ListFacts DEF JournalOk
<1>2. CASE ~torn[j]
  <2> DEFINE t == Append(s, line)
  <2>1. Extended(j, line) = t BY <1>2 DEF Extended
  <2>2. /\ Listed(t) /\ Len(t) = Len(s) + 1 /\ DOMAIN t = 1..(Len(s) + 1)
        /\ \A i \in 1..Len(s) : t[i] = s[i]
        /\ t[Len(s) + 1] = line
    BY <1>1, AppendFacts, ListFacts
  <2>3. Grows(s, t) BY <1>1, <2>2 DEF Grows
  <2> HIDE DEF t
  <2>4. Written(s) \subseteq Written(t) BY <1>1, <2>2, <2>3, WrittenStays
  <2>5. line \in Written(t)
    <3>1. Len(s) + 1 \in DOMAIN t BY <1>1, <2>2
    <3> QED BY <2>2, <3>1 DEF Written
  <2>6. Written(t) \subseteq Written(s) \cup {line}
    <3> SUFFICES ASSUME NEW i \in DOMAIN t,
                        NEW x \in (IF t[i].format = "glued" THEN t[i].parts
                                   ELSE {t[i]})
                 PROVE  x \in Written(s) \cup {line}
      BY DEF Written
    <3>1. CASE i = Len(s) + 1 BY <2>2, <3>1
    <3>2. CASE i # Len(s) + 1
      <4>1. i \in DOMAIN s /\ t[i] = s[i] BY <1>1, <2>2, <3>2
      <4> QED BY <4>1 DEF Written
    <3> QED BY <3>1, <3>2
  <2> HIDE DEF s
  <2> QED BY <2>1, <2>2, <2>3, <2>4, <2>5, <2>6 DEF s
<1>3. CASE torn[j]
  <2> DEFINE g == Glued(s, line)
             t == Append(Front(s), g)
  <2>1. Extended(j, line) = t BY <1>3 DEF Extended
  <2>2. s # <<>> /\ s[Len(s)].format = "glued" BY <1>3 DEF JournalOk, Last
  <2>3. /\ Len(s) >= 1 /\ Listed(Front(s)) /\ Len(Front(s)) = Len(s) - 1
        /\ \A i \in 1..(Len(s) - 1) : Front(s)[i] = s[i]
    BY <1>1, <2>2, FrontFacts
  <2>4. g.format = "glued" /\ g.parts = s[Len(s)].parts \cup {line}
    BY DEF Glued, Last
  <2> HIDE DEF g
  <2>5. /\ Listed(t) /\ Len(t) = Len(s) - 1 + 1
        /\ \A i \in 1..(Len(s) - 1) : t[i] = Front(s)[i]
        /\ t[Len(s) - 1 + 1] = g
    BY <2>3, AppendFacts
  <2> HIDE DEF t
  <2>6. /\ Listed(t) /\ Len(t) = Len(s) /\ DOMAIN t = 1..Len(s)
        /\ \A i \in 1..(Len(s) - 1) : t[i] = s[i]
        /\ t[Len(s)] = g
    BY <1>1, <2>3, <2>5, ListFacts
  <2>7. Grows(s, t)
    <3>1. ASSUME NEW i \in 1..Len(s), i # Len(s) PROVE t[i] = s[i]
      BY <1>1, <2>6, <3>1
    <3> QED BY <1>1, <2>2, <2>4, <2>6, <3>1 DEF Grows
  <2>8. Written(s) \subseteq Written(t) BY <1>1, <2>6, <2>7, WrittenStays
  <2>9. Len(s) \in DOMAIN t /\ Len(s) \in DOMAIN s BY <1>1, <2>3, <2>6
  <2>10. line \in Written(t) BY <2>4, <2>6, <2>9 DEF Written
  <2>11. Written(t) \subseteq Written(s) \cup {line}
    <3> SUFFICES ASSUME NEW i \in DOMAIN t,
                        NEW x \in (IF t[i].format = "glued" THEN t[i].parts
                                   ELSE {t[i]})
                 PROVE  x \in Written(s) \cup {line}
      BY DEF Written
    <3>1. CASE i = Len(s)
      <4>1. x \in s[Len(s)].parts \cup {line} BY <2>4, <2>6, <3>1
      <4> QED BY <2>2, <2>9, <4>1 DEF Written
    <3>2. CASE i # Len(s)
      <4>1. i \in DOMAIN s /\ t[i] = s[i] BY <1>1, <2>6, <3>2
      <4> QED BY <4>1 DEF Written
    <3> QED BY <3>1, <3>2
  <2> HIDE DEF s
  <2> QED BY <2>1, <2>6, <2>7, <2>8, <2>10, <2>11 DEF s
<1> QED BY <1>2, <1>3

\* A journal that is whole holds one clean line for each key.
LEMMA WholeBegins ==
    ASSUME NEW j \in Journals, Listed(journal[j]), NEW a, NEW e, Whole(j, a, e)
    PROVE  /\ Begins(journal[j], a, Answers(journal[j]))
           /\ Cardinality(ToSet(Keys(a))) \in Nat
<1> DEFINE s == journal[j]
           n == Cardinality(ToSet(Keys(a)))
           f == [i \in 1..Len(s) |-> s[i].key]
<1>1. Len(s) \in Nat /\ DOMAIN s = 1..Len(s) BY ListFacts
<1>2. /\ \A i \in DOMAIN s : LineLegal(s[i], a, e)
      /\ NoDuplicates(s)
      /\ {s[i].key : i \in DOMAIN s} = ToSet(Keys(a))
  BY DEF Whole, JournalLegal, Recorded
<1>3. f \in Bijection(1..Len(s), ToSet(Keys(a)))
  <2>1. f \in [1..Len(s) -> ToSet(Keys(a))] BY <1>1, <1>2
  <2>2. IsInjective(f) BY <1>1, <1>2 DEF IsInjective, NoDuplicates
  <2>3. \A k \in ToSet(Keys(a)) : \E i \in 1..Len(s) : f[i] = k BY <1>1, <1>2
  <2> QED BY <2>1, <2>2, <2>3 DEF Bijection, Injection, Surjection
<1>4. n = Len(s)
  <2>1. IsFiniteSet(1..Len(s)) /\ Cardinality(1..Len(s)) = Len(s)
    <3>1. /\ IsFiniteSet(1..Len(s))
          /\ Cardinality(1..Len(s)) = IF 1 > Len(s) THEN 0 ELSE Len(s) - 1 + 1
      BY <1>1, FS_Interval
    <3> QED BY <1>1, <3>1
  <2>2. ExistsBijection(1..Len(s), ToSet(Keys(a))) BY <1>3 DEF ExistsBijection
  <2> HIDE DEF s
  <2> QED BY <2>1, <2>2, FS_Bijection
<1>5. \A i \in 1..Len(s) : s[i].identity.evidence = e
  BY <1>1, <1>2 DEF LineLegal, Identity
<1>6. ASSUME NEW i \in 1..Len(s)
      PROVE  /\ LineLegal(s[i], a, s[1].identity.evidence)
             /\ Answers(s)[s[i].key] = s[i].prediction
  <2>1. LineLegal(s[i], a, e) /\ s[1].identity.evidence = e BY <1>1, <1>2, <1>5, <1>6
  <2>2. \E k \in DOMAIN s : s[k].key = s[i].key BY <1>1
  <2> DEFINE k == CHOOSE k \in DOMAIN s : s[k].key = s[i].key
  <2>3. k \in DOMAIN s /\ s[k].key = s[i].key BY <2>2
  <2>4. k = i BY <1>1, <1>2, <2>3 DEF NoDuplicates
  <2>5. Answers(s)[s[i].key] = s[k].prediction BY <1>1, <2>2 DEF Answers
  <2> QED BY <2>1, <2>4, <2>5
<1>7. {s[i].key : i \in 1..n} = ToSet(Keys(a)) BY <1>1, <1>2, <1>4
<1> HIDE DEF n
<1>8. Begins(s, a, Answers(s))
  BY <1>1, <1>4, <1>6, <1>7 DEF Begins, n
<1> QED BY <1>1, <1>4, <1>8 DEF n

-----------------------------------------------------------------------------
(* Frames *)

\* Every journal grows, or stays.
JournalsGrow ==
    \A j \in Journals : /\ JournalOk(journal[j], torn[j])
                        /\ JournalOk(journal[j], torn[j])'
                        /\ Grows(journal[j], journal'[j])

\* No run's arguments ever change, nor what the reports are made from.
Fixed == UNCHANGED <<arguments, config, given, inputs>>

\* The process a run was bound to still predicted.
PortStays(r) ==
    /\ answering[r] /\ port' = port
    /\ port \in Launches => digest'[port] = digest[port]

LEMMA QuietGrows ==
    ASSUME TasksInv, UNCHANGED <<journal, torn>>
    PROVE  JournalsGrow /\ RecordsBound'
<1>1. JournalsGrow
  <2> SUFFICES ASSUME NEW j \in Journals
               PROVE  /\ JournalOk(journal[j], torn[j])
                      /\ JournalOk(journal[j], torn[j])'
                      /\ Grows(journal[j], journal'[j])
    BY DEF JournalsGrow
  <2>1. JournalOk(journal[j], torn[j]) BY DEF TasksInv
  <2>2. Grows(journal[j], journal[j]) BY <2>1, SameGrows DEF JournalOk
  <2> QED BY <2>1, <2>2 DEF JournalOk
<1>2. RecordsBound' BY DEF TasksInv, RecordsBound
<1> QED BY <1>1, <1>2

LEMMA KeptStays ==
    ASSUME JournalsGrow, NEW d, NEW c, OnRecord(d, c)
    PROVE  OnRecord(d, c)'
<1>1. PICK j \in Journals : \E line \in Written(journal[j]) :
          /\ line.key = d.key
          /\ line.prediction = d.prediction
          /\ line.identity.checkpoint = c
  BY DEF OnRecord
<1>2. Listed(journal[j]) /\ Listed(journal'[j]) /\ Grows(journal[j], journal'[j])
  BY DEF JournalsGrow, JournalOk
<1>3. Written(journal[j]) \subseteq Written(journal'[j]) BY <1>2, WrittenStays
<1>4. \E line \in Written(journal'[j]) :
          /\ line.key = d.key
          /\ line.prediction = d.prediction
          /\ line.identity.checkpoint = c
  BY <1>1, <1>3
<1>5. \E i \in Journals : \E line \in Written(journal'[i]) :
          /\ line.key = d.key
          /\ line.prediction = d.prediction
          /\ line.identity.checkpoint = c
  BY <1>4
<1> QED BY <1>5 DEF OnRecord

LEMMA BeginsGrows ==
    ASSUME JournalsGrow, NEW j \in Journals, NEW a, NEW predicted,
           Cardinality(ToSet(Keys(a))) \in Nat, Begins(journal[j], a, predicted)
    PROVE  Begins(journal'[j], a, predicted)
<1>1. Listed(journal[j]) /\ Listed(journal'[j]) /\ Grows(journal[j], journal'[j])
  BY DEF JournalsGrow, JournalOk
<1> QED BY <1>1, BeginsStays

\* The given, as nothing changes it.
LEMMA GivenStays ==
    ASSUME GivenOk, Fixed
    PROVE  GivenOk'
  BY DEF GivenOk, Fixed

LEMMA OutputStays ==
    ASSUME NEW r \in Runs, GivenOk, Fixed, JournalsGrow, OutputOk(r),
           outputs'[r] = outputs[r]
    PROVE  OutputOk(r)'
<1>1. arguments' = arguments /\ arguments[r].journal \in Journals
  BY DEF Fixed, GivenOk
<1>2. outputs[r].format = "summary" =>
         /\ Begins(journal'[arguments[r].journal], arguments[r], outputs[r].answers)
         /\ Cardinality(ToSet(Keys(arguments[r]))) \in Nat
  BY <1>1, BeginsGrows DEF OutputOk
<1>3. outputs[r].format = "report" => Backed(outputs[r])'
  <2> SUFFICES ASSUME outputs[r].format = "report"
               PROVE  Backed(outputs[r])'
    OBVIOUS
  <2>1. \A i \in DOMAIN outputs[r].rows : OnRecord(outputs[r].rows[i], outputs[r].checkpoint)
    BY DEF OutputOk, Backed
  <2>2. \A i \in DOMAIN outputs[r].rows :
           OnRecord(outputs[r].rows[i], outputs[r].checkpoint)'
    <3> SUFFICES ASSUME NEW i \in DOMAIN outputs[r].rows
                 PROVE  OnRecord(outputs[r].rows[i], outputs[r].checkpoint)'
      OBVIOUS
    <3> DEFINE d == outputs[r].rows[i]
               c == outputs[r].checkpoint
    <3>1. OnRecord(d, c) BY <2>1
    <3> QED BY <3>1, KeptStays
  <2> QED BY <2>2 DEF Backed
<1> QED BY <1>1, <1>2, <1>3 DEF OutputOk, Backed

LEMMA RowsStay ==
    ASSUME NEW r \in Runs, Fixed, JournalsGrow, RowsOk(r), rows'[r] = rows[r]
    PROVE  RowsOk(r)'
<1>1. arguments' = arguments BY DEF Fixed
<1>2. \A i \in DOMAIN rows[r] : OnRecord(rows[r][i], arguments[r].checkpoint)'
  <2> SUFFICES ASSUME NEW i \in DOMAIN rows[r]
               PROVE  OnRecord(rows[r][i], arguments[r].checkpoint)'
    OBVIOUS
  <2> DEFINE d == rows[r][i]
             c == arguments[r].checkpoint
  <2>1. OnRecord(d, c) BY DEF RowsOk
  <2>2. OnRecord(d, c)' BY <2>1, <1>1, KeptStays
  <2> QED BY <2>2
<1>3. Listed(rows'[r]) BY DEF RowsOk
<1> QED BY <1>1, <1>2, <1>3 DEF RowsOk

\* A run that takes no step, whatever happens at the port.
LEMMA RunStays ==
    ASSUME NEW r \in Runs, GivenOk, Fixed, JournalsGrow, RunOk(r),
           progress'[r] = progress[r], bound'[r] = bound[r],
           record'[r] = record[r], rows'[r] = rows[r], outputs'[r] = outputs[r],
           answering'[r] => PortStays(r)
    PROVE  RunOk(r)'
<1>1. OutputOk(r)' BY OutputStays DEF RunOk
<1>2. RowsOk(r)' BY RowsStay DEF RunOk
<1>3. ASSUME answering'[r] PROVE Live(bound[r])'
  <2>1. /\ Live(bound[r]) /\ port' = port
        /\ port \in Launches => digest'[port] = digest[port]
    BY <1>3 DEF RunOk, ControlOk, PortStays
  <2> QED BY <2>1 DEF Live, LiveLlm
<1>4. arguments' = arguments BY DEF Fixed
<1>5. progress[r] = "append" => InHand(r)' BY <1>4 DEF RunOk, ControlOk, InHand
<1>6. progress'[r] \in {"absent", "idle", "bind", "dead"} => ~answering'[r]
  BY DEF RunOk, ControlOk, PortStays
<1>7. ControlOk(r)' BY <1>3, <1>5, <1>6 DEF ControlOk
<1> QED BY <1>1, <1>2, <1>7 DEF RunOk

LEMMA ImportStays ==
    ASSUME GivenOk, Fixed, JournalsGrow, ImportOk, UNCHANGED <<importer, imported>>
    PROVE  ImportOk'
<1>1. given' = given /\ given.journal \in Journals BY DEF Fixed, GivenOk
<1>2. importer = "twice" => /\ Begins(journal'[given.journal], given, imported)
                            /\ Cardinality(ToSet(Keys(given))) \in Nat
  BY <1>1, BeginsGrows DEF ImportOk
<1>3. importer = "done" => Backed(imported)'
  <2> SUFFICES ASSUME importer = "done", NEW i \in DOMAIN imported.rows
               PROVE  OnRecord(imported.rows[i], imported.checkpoint)'
    BY DEF Backed
  <2> DEFINE d == imported.rows[i]
             c == imported.checkpoint
  <2>1. OnRecord(d, c) BY DEF ImportOk, Backed
  <2>2. OnRecord(d, c)' BY <2>1, KeptStays
  <2> QED BY <2>2
<1> QED BY <1>1, <1>2, <1>3 DEF ImportOk

LEMMA AnsweredStays ==
    ASSUME JournalsGrow, UNCHANGED combined, NEW replaced, NEW data,
           AllAnswered(replaced, data)
    PROVE  AllAnswered(replaced, data)'
<1> SUFFICES ASSUME NEW i \in DOMAIN replaced
             PROVE  \E j \in Journals : \E line \in Written(journal'[j]) :
                       /\ line.key = <<i, "full">>
                       /\ line.prediction = replaced[i].prediction
                       /\ SameCheckpoint(line.identity.checkpoint, combined'.checkpoint)
  BY DEF AllAnswered
<1>1. PICK j \in Journals : \E line \in Written(journal[j]) :
                       /\ line.key = <<i, "full">>
                       /\ line.prediction = replaced[i].prediction
                       /\ SameCheckpoint(line.identity.checkpoint, combined.checkpoint)
  BY DEF AllAnswered
<1>2. Listed(journal[j]) /\ Listed(journal'[j]) /\ Grows(journal[j], journal'[j])
  BY DEF JournalsGrow, JournalOk
<1>3. Written(journal[j]) \subseteq Written(journal'[j]) BY <1>2, WrittenStays
<1> QED BY <1>1, <1>3

LEMMA CombinedStays ==
    ASSUME Fixed, JournalsGrow, UNCHANGED combined, CombinedAnswered
    PROVE  CombinedAnswered'
<1> SUFFICES ASSUME combined # Nothing
             PROVE  /\ AllAnswered(combined.camara, inputs.camaraData)'
                    /\ NeedsLegal' => AllAnswered(combined.legal, inputs.legalData)'
  BY DEF CombinedAnswered
<1>1. inputs' = inputs /\ combined' = combined /\ (NeedsLegal' <=> NeedsLegal)
  BY DEF Fixed, NeedsLegal
<1>2. AllAnswered(combined.camara, inputs.camaraData) BY DEF CombinedAnswered
<1>3. NeedsLegal => AllAnswered(combined.legal, inputs.legalData)
  BY DEF CombinedAnswered
<1> DEFINE x == combined.camara
           d == inputs.camaraData
           y == combined.legal
           e == inputs.legalData
<1>4. AllAnswered(x, d)' BY <1>1, <1>2, AnsweredStays
<1>5. NeedsLegal => AllAnswered(y, e)' BY <1>1, <1>3, AnsweredStays
<1> QED BY <1>1, <1>4, <1>5

-----------------------------------------------------------------------------
(* The steps of servers *)

\* What passed its preflight is taken whole.
LEMMA PreflightTakes ==
    ASSUME NEW c, Preflight(c), NEW q \in ToSet(Requests(c)), q.tokens \in Nat
    PROVE  Width(q) <= Takes(c)
<1>1. CASE c.kind = "kev"
  <2>1. q.tokens <= StrictContext BY <1>1 DEF Preflight, KevEncodes
  <2> QED BY <1>1, <2>1, NativeAssumption DEF Width, Takes
<1>2. CASE c.kind = "decider"
  BY <1>2 DEF Preflight, DeciderEncodes, Takes
<1>3. CASE c.kind = "lev"
  BY <1>3 DEF Preflight, LevEncodes, Takes
<1>4. CASE c.kind = "laya"
  BY <1>4 DEF Preflight, LayaEncodes, LayaComplete, Takes
<1> QED BY <1>1, <1>2, <1>3, <1>4 DEF Preflight

LEMMA ServersStay ==
    ASSUME Shape, ServersOk, ServerStep
    PROVE  /\ ServersOk'
           /\ DOMAIN stage' = Launches /\ DOMAIN digest' = Launches
           /\ \A r \in Runs : answering'[r] => PortStays(r)
<1>1. PICK l \in Launches : LaunchStep(l) \/ KillServer(l) BY DEF ServerStep
<1>2. config' = config
  BY <1>1 DEF LaunchStep, StartServer, Publish, Freeze, TakePort, KillServer
<1>3. DOMAIN stage = Launches /\ DOMAIN digest = Launches BY DEF Shape
<1>4. DOMAIN stage' = Launches /\ DOMAIN digest' = Launches
  BY <1>1, <1>3 DEF LaunchStep, StartServer, Publish, Freeze, TakePort, KillServer, End
<1>5. port' \in Launches => stage'[port'] = "serving"
  BY <1>1, <1>3, NativeAssumption
     DEF LaunchStep, StartServer, Publish, Freeze, TakePort, KillServer, End, ServersOk
<1>6. ASSUME NEW m \in Launches,
             stage'[m] \in {"checked", "published", "frozen", "serving"}
      PROVE  Preflight(config[m])
  <2>1. \/ stage[m] \in {"checked", "published", "frozen", "serving"}
        \/ Preflight(config[m])
    BY <1>1, <1>3, <1>6
       DEF LaunchStep, StartServer, Publish, Freeze, TakePort, KillServer, End
  <2> QED BY <2>1 DEF ServersOk
<1>7. \A m \in Launches :
         stage'[m] \in {"checked", "published", "frozen", "serving"} =>
             Preflight(config[m])'
  BY <1>2, <1>6 DEF Preflight, IsFullLegal, KevEncodes, DeciderEncodes, LevEncodes,
       LayaEncodes, LayaComplete, LayaBudget, Budget, ContextLimit, Requests
<1>8. ServersOk' BY <1>5, <1>7 DEF ServersOk
<1>9. ASSUME NEW r \in Runs, answering'[r] PROVE PortStays(r)
  <2>1. answering[r] /\ port' = port BY <1>9 DEF ServerStep, StillAnswering
  <2>2. ASSUME port \in Launches PROVE digest'[port] = digest[port]
    <3>1. stage[port] = "serving" BY <2>2 DEF ServersOk
    <3>2. CASE Freeze(l)
      <4>1. l # port BY <3>1, <3>2 DEF Freeze
      <4> QED BY <1>3, <2>2, <3>2, <4>1 DEF Freeze
    <3>3. CASE ~Freeze(l)
      BY <1>1, <3>3 DEF LaunchStep, StartServer, Publish, TakePort, KillServer
    <3> QED BY <3>2, <3>3
  <2> QED BY <2>1, <2>2 DEF PortStays
<1> QED BY <1>4, <1>8, <1>9

LEMMA ServerStepOk ==
    ASSUME TasksInv, ServerStep \/ Swap, UNCHANGED reportVars
    PROVE  TasksInv'
<1>1. Shape /\ GivenOk /\ ServersOk /\ ImportOk /\ CombinedAnswered BY DEF TasksInv
<1>2. Others' = Others BY DEF ServerStep, Swap
<1>3. UNCHANGED <<arguments, progress, bound, record, rows, journal, torn, outputs>>
  BY <1>2 DEF Others
<1>4. UNCHANGED <<given, inputs, importer, imported, combined>> BY DEF reportVars
<1>5. config' = config
  BY DEF ServerStep, Swap, LaunchStep, StartServer, Publish, Freeze, TakePort, KillServer
<1>6. /\ ServersOk'
      /\ DOMAIN stage' = Launches /\ DOMAIN digest' = Launches
      /\ \A r \in Runs : answering'[r] => PortStays(r)
  <2>1. CASE ServerStep BY <1>1, <2>1, ServersStay
  <2>2. CASE Swap
    <3>1. port' \notin Launches BY <2>2, NativeAssumption, JournalAssumption DEF Swap
    <3>2. stage' = stage /\ digest' = digest /\ StillAnswering BY <2>2 DEF Swap
    <3>3. ServersOk'
      BY <1>1, <1>5, <3>1, <3>2
         DEF ServersOk, Preflight, IsFullLegal, KevEncodes, DeciderEncodes, LevEncodes,
             LayaEncodes, LayaComplete, LayaBudget, Budget, ContextLimit, Requests
    <3>4. \A r \in Runs : answering'[r] => PortStays(r)
      BY <3>2 DEF StillAnswering, PortStays
    <3> QED BY <1>1, <3>2, <3>3, <3>4 DEF Shape
  <2> QED BY <2>1, <2>2
<1>7. answering' \in [Runs -> BOOLEAN]
  BY <1>1 DEF ServerStep, Swap, StillAnswering, Shape
<1>8. Shape' BY <1>1, <1>3, <1>6, <1>7 DEF Shape
<1>9. Fixed BY <1>3, <1>4, <1>5 DEF Fixed
<1>10. JournalsGrow /\ RecordsBound' BY <1>3, QuietGrows
<1>11. ASSUME NEW r \in Runs PROVE RunOk(r)'
  <2>1. RunOk(r) /\ answering[r] \in BOOLEAN /\ answering'[r] \in BOOLEAN
    BY <1>1, <1>7 DEF TasksInv, Shape
  <2> QED BY <1>1, <1>3, <1>6, <1>9, <1>10, <2>1, RunStays
<1>12. GivenOk' BY <1>1, <1>9, GivenStays
<1>13. ImportOk' BY <1>1, <1>4, <1>9, <1>10, ImportStays
<1>14. CombinedAnswered' BY <1>1, <1>4, <1>9, <1>10, CombinedStays
<1>15. \A j \in Journals : JournalOk(journal[j], torn[j])' BY <1>10 DEF JournalsGrow
<1> QED BY <1>6, <1>8, <1>10, <1>11, <1>12, <1>13, <1>14, <1>15 DEF TasksInv

-----------------------------------------------------------------------------
(* The steps of runs *)

\* The other runs are where they were.
Elsewhere(r) ==
    \A s \in Runs \ {r} :
        /\ progress'[s] = progress[s] /\ bound'[s] = bound[s]
        /\ record'[s] = record[s] /\ rows'[s] = rows[s]
        /\ outputs'[s] = outputs[s] /\ answering'[s] = answering[s]

\* A step of one run, which leaves the others, the servers and the reports.
LEMMA RunMoves ==
    ASSUME TasksInv, NEW r \in Runs,
           UNCHANGED <<nativeVars, arguments, reportVars>>,
           Shape', JournalsGrow, RecordsBound', RunOk(r)',
           Elsewhere(r)
    PROVE  TasksInv'
<1>1. Shape /\ GivenOk /\ ServersOk /\ ImportOk /\ CombinedAnswered BY DEF TasksInv
<1>2. UNCHANGED <<given, inputs, importer, imported, combined>> BY DEF reportVars
<1>3. UNCHANGED <<stage, config, digest, published, port>> BY DEF nativeVars
<1>4. Fixed BY <1>2, <1>3 DEF Fixed
<1>5. ServersOk'
  BY <1>1, <1>3
     DEF ServersOk, Preflight, IsFullLegal, KevEncodes, DeciderEncodes, LevEncodes,
         LayaEncodes, LayaComplete, LayaBudget, Budget, ContextLimit, Requests
<1>6. ASSUME NEW s \in Runs PROVE RunOk(s)'
  <2>1. CASE s = r BY <2>1
  <2>2. CASE s # r
    <3>1. RunOk(s) /\ answering[s] \in BOOLEAN /\ answering'[s] \in BOOLEAN
      BY <1>1 DEF TasksInv, Shape
    <3>2. s \in Runs \ {r} BY <2>2
    <3>3. /\ progress'[s] = progress[s] /\ bound'[s] = bound[s]
          /\ record'[s] = record[s] /\ rows'[s] = rows[s]
          /\ outputs'[s] = outputs[s] /\ answering'[s] = answering[s]
      BY <3>2 DEF Elsewhere
    <3>4. answering'[s] => PortStays(s) BY <1>3, <3>3 DEF PortStays
    <3> QED BY <1>1, <1>4, <3>1, <3>3, <3>4, RunStays
  <2> QED BY <2>1, <2>2
<1>7. GivenOk' BY <1>1, <1>4, GivenStays
<1>8. ImportOk' BY <1>1, <1>2, <1>4, ImportStays
<1>9. CombinedAnswered' BY <1>1, <1>2, <1>4, CombinedStays
<1>10. \A j \in Journals : JournalOk(journal[j], torn[j])' BY DEF JournalsGrow
<1> QED BY <1>5, <1>6, <1>7, <1>8, <1>9, <1>10 DEF TasksInv

\* The same for a step that leaves the journals too.
LEMMA QuietMove ==
    ASSUME TasksInv, NEW r \in Runs,
           UNCHANGED <<nativeVars, arguments, reportVars, journal, torn>>,
           DOMAIN progress' = Runs, DOMAIN bound' = Runs, DOMAIN record' = Runs,
           DOMAIN rows' = Runs, DOMAIN outputs' = Runs,
           answering' \in [Runs -> BOOLEAN],
           Elsewhere(r), ControlOk(r)', RowsOk(r)', OutputOk(r)'
    PROVE  TasksInv'
<1>1. UNCHANGED <<nativeVars, arguments, reportVars>> OBVIOUS
<1>2. UNCHANGED <<journal, torn>> OBVIOUS
<1>3. Shape' BY <1>1, <1>2 DEF TasksInv, Shape, nativeVars
<1>4. JournalsGrow /\ RecordsBound' BY <1>2, QuietGrows
<1>5. RunOk(r)' BY DEF RunOk
<1> QED BY <1>1, <1>3, <1>4, <1>5, RunMoves

\* What a quiet step need not prove again.
LEMMA QuietRun ==
    ASSUME TasksInv, NEW r \in Runs,
           UNCHANGED <<nativeVars, arguments, reportVars, journal, torn>>
    PROVE  /\ Fixed /\ JournalsGrow /\ GivenOk /\ Shape
           /\ ControlOk(r) /\ RowsOk(r) /\ OutputOk(r)
           /\ rows'[r] = rows[r] => RowsOk(r)'
           /\ rows'[r] = <<>> => RowsOk(r)'
           /\ outputs'[r] = outputs[r] => OutputOk(r)'
<1>1. UNCHANGED <<journal, torn>> OBVIOUS
<1>2. JournalsGrow BY <1>1, QuietGrows
<1>3. Fixed BY DEF Fixed, nativeVars, reportVars
<1>4. GivenOk /\ Shape /\ RunOk(r) BY DEF TasksInv
<1>5. ControlOk(r) /\ RowsOk(r) /\ OutputOk(r) BY <1>4 DEF RunOk
<1>6. rows'[r] = <<>> => RowsOk(r)'
  <2>1. Listed(<<>>) /\ DOMAIN <<>> = {} BY DEF Listed
  <2> QED BY <2>1 DEF RowsOk
<1>7. rows'[r] = rows[r] => RowsOk(r)' BY <1>2, <1>3, <1>5, RowsStay
<1>8. outputs'[r] = outputs[r] => OutputOk(r)' BY <1>2, <1>3, <1>4, <1>5, OutputStays
<1> QED BY <1>2, <1>3, <1>4, <1>5, <1>6, <1>7, <1>8

LEMMA BeginOk ==
    ASSUME TasksInv, NEW r \in Runs, Begin(r), UNCHANGED reportVars
    PROVE  TasksInv'
<1>1. UNCHANGED <<nativeVars, arguments, reportVars, journal, torn>> BY DEF Begin
<1>2. UNCHANGED <<record, rows, outputs, answering>> BY DEF Begin
<1>3. Shape /\ ControlOk(r) /\ RowsOk(r)' /\ OutputOk(r)' BY <1>1, <1>2, QuietRun
<1>4. /\ DOMAIN progress' = Runs /\ DOMAIN bound' = Runs
      /\ progress[r] = "idle" /\ progress'[r] \in {"refused", "check", "bind"}
      /\ \A s \in Runs \ {r} : progress'[s] = progress[s] /\ bound'[s] = bound[s]
  BY <1>3 DEF Begin, Go, Shape
<1>5. ~answering'[r] /\ progress'[r] # "append" BY <1>2, <1>3, <1>4 DEF ControlOk
<1>6. ControlOk(r)' BY <1>5 DEF ControlOk
<1>7. Elsewhere(r) BY <1>2, <1>4 DEF Elsewhere
<1> QED BY <1>1, <1>2, <1>3, <1>4, <1>6, <1>7, QuietMove DEF Shape

LEMMA BindOk ==
    ASSUME TasksInv, NEW r \in Runs, Bind(r), UNCHANGED reportVars
    PROVE  TasksInv'
<1>1. UNCHANGED <<nativeVars, arguments, reportVars, journal, torn>> BY DEF Bind
<1>2. UNCHANGED <<bound, record, rows, outputs>> BY DEF Bind
<1>3. Shape /\ ControlOk(r) /\ RowsOk(r)' /\ OutputOk(r)' BY <1>1, <1>2, QuietRun
<1>4. /\ DOMAIN progress' = Runs /\ answering' \in [Runs -> BOOLEAN]
      /\ progress[r] = "bind" /\ progress'[r] \in {"check", "refused"}
      /\ \A s \in Runs \ {r} : progress'[s] = progress[s] /\ answering'[s] = answering[s]
  BY <1>3 DEF Bind, Go, Shape
<1>5. ~answering[r] BY <1>3, <1>4 DEF ControlOk
<1>6. answering'[r] => Live(bound[r]) BY <1>5 DEF Bind
<1>7. answering'[r] => Live(bound[r])'
  BY <1>1, <1>2, <1>6 DEF Live, LiveLlm, nativeVars
<1>8. ControlOk(r)' BY <1>4, <1>7 DEF ControlOk
<1>9. Elsewhere(r) BY <1>2, <1>4 DEF Elsewhere
<1> QED BY <1>1, <1>2, <1>3, <1>4, <1>8, <1>9, QuietMove DEF Shape

LEMMA CheckJournalOk ==
    ASSUME TasksInv, NEW r \in Runs, CheckJournal(r), UNCHANGED reportVars
    PROVE  TasksInv'
<1>1. UNCHANGED <<nativeVars, arguments, reportVars, journal, torn>> BY DEF CheckJournal
<1>2. UNCHANGED <<bound, record, rows, outputs, answering>> BY DEF CheckJournal
<1>3. Shape /\ ControlOk(r) /\ RowsOk(r)' /\ OutputOk(r)' BY <1>1, <1>2, QuietRun
<1>4. /\ DOMAIN progress' = Runs /\ progress'[r] \in {"ask", "refused"}
      /\ \A s \in Runs \ {r} : progress'[s] = progress[s]
  BY <1>3 DEF CheckJournal, Go, Shape
<1>5. answering'[r] => Live(bound[r])'
  BY <1>1, <1>2, <1>3 DEF ControlOk, Live, LiveLlm, nativeVars
<1>6. ControlOk(r)' BY <1>4, <1>5 DEF ControlOk
<1>7. Elsewhere(r) BY <1>2, <1>4 DEF Elsewhere
<1> QED BY <1>1, <1>2, <1>3, <1>4, <1>6, <1>7, QuietMove DEF Shape

\* While the bound process predicted it is the one of the evidence, and it takes
\* whatever it was preflighted for.
LEMMA BoundIsFaithful ==
    ASSUME TasksInv, NEW r \in Runs, NEW key, answering[r]
    PROVE  ItsEvidence(r) /\ TakenWhole(r, key)
<1>1. /\ Live(bound[r]) /\ ServersOk
      /\ \A l \in Launches : \A q \in ToSet(Requests(config[l])) : q.tokens \in Nat
  BY DEF TasksInv, RunOk, ControlOk, GivenOk
<1>2. ItsEvidence(r) BY <1>1, JournalAssumption DEF Live, LiveLlm, ItsEvidence
<1>3. ASSUME port \in Launches,
             NEW q \in ToSet(Asked(arguments[r])) \cap ToSet(Requests(config[port]))
      PROVE  Width(q) <= Takes(config[port])
  <2>1. Preflight(config[port]) BY <1>1, <1>3 DEF ServersOk
  <2>2. q \in ToSet(Requests(config[port])) /\ q.tokens \in Nat BY <1>1, <1>3
  <2> QED BY <2>1, <2>2, PreflightTakes
<1>4. TakenWhole(r, key) BY <1>3 DEF TakenWhole
<1> QED BY <1>2, <1>4

LEMMA AskOk ==
    ASSUME TasksInv, NEW r \in Runs, AskNext(r), UNCHANGED reportVars
    PROVE  TasksInv'
<1>1. UNCHANGED <<nativeVars, arguments, reportVars, journal, torn>> BY DEF AskNext
<1>2. UNCHANGED <<bound, rows, outputs, answering>> BY DEF AskNext
<1>3. Shape /\ ControlOk(r) /\ RowsOk(r)' /\ OutputOk(r)' BY <1>1, <1>2, QuietRun
<1> DEFINE key == Remaining(r)[1]
<1>4. PICK response : record' = [record EXCEPT ![r] = Line(r, key, response)]
  BY DEF AskNext
<1> HIDE DEF key
<1>5. /\ DOMAIN progress' = Runs /\ progress'[r] = "append" /\ DOMAIN record' = Runs
      /\ record'[r] = Line(r, key, response)
      /\ \A s \in Runs \ {r} : progress'[s] = progress[s] /\ record'[s] = record[s]
  BY <1>3, <1>4 DEF AskNext, Go, Shape
<1>6. answering[r] => ItsEvidence(r) /\ TakenWhole(r, key) BY BoundIsFaithful
<1>7. /\ record'[r].format = arguments[r].command
      /\ record'[r].identity = Identity(arguments[r], bound[r])
      /\ record'[r].faithful = (answering[r] => ItsEvidence(r) /\ TakenWhole(r, key))
  BY <1>5 DEF Line
<1>8. InHand(r)' BY <1>1, <1>2, <1>6, <1>7 DEF InHand
<1>9. answering'[r] => Live(bound[r])'
  BY <1>1, <1>2, <1>3 DEF ControlOk, Live, LiveLlm, nativeVars
<1>10. ControlOk(r)' BY <1>5, <1>8, <1>9 DEF ControlOk
<1>11. Elsewhere(r) BY <1>2, <1>5 DEF Elsewhere
<1> QED BY <1>1, <1>2, <1>3, <1>5, <1>10, <1>11, QuietMove DEF Shape

LEMMA RestartOk ==
    ASSUME TasksInv, NEW r \in Runs, Restart(r), UNCHANGED reportVars
    PROVE  TasksInv'
<1>1. UNCHANGED <<nativeVars, arguments, reportVars, journal, torn>> BY DEF Restart
<1>2. UNCHANGED <<bound, record, rows, outputs, answering>> BY DEF Restart
<1>3. Shape /\ ControlOk(r) /\ RowsOk(r)' /\ OutputOk(r)' BY <1>1, <1>2, QuietRun
<1>4. /\ DOMAIN progress' = Runs /\ progress[r] = "dead" /\ progress'[r] = "idle"
      /\ \A s \in Runs \ {r} : progress'[s] = progress[s]
  BY <1>3 DEF Restart, Go, Shape
<1>5. ~answering'[r] BY <1>2, <1>3, <1>4 DEF ControlOk
<1>6. ControlOk(r)' BY <1>4, <1>5 DEF ControlOk
<1>7. Elsewhere(r) BY <1>2, <1>4 DEF Elsewhere
<1> QED BY <1>1, <1>2, <1>3, <1>4, <1>6, <1>7, QuietMove DEF Shape

\* A run that is over.
LEMMA Forgotten ==
    ASSUME Shape, NEW r \in Runs, ForgetRun(r)
    PROVE  /\ DOMAIN bound' = Runs /\ DOMAIN rows' = Runs
           /\ answering' \in [Runs -> BOOLEAN]
           /\ rows'[r] = <<>> /\ ~answering'[r]
           /\ \A s \in Runs \ {r} : /\ bound'[s] = bound[s] /\ rows'[s] = rows[s]
                                    /\ answering'[s] = answering[s]
  BY DEF Shape, ForgetRun

\* It has published at most its output, and none of its journal.
LEMMA FinishOk ==
    ASSUME TasksInv, NEW r \in Runs, ForgetRun(r), NEW to \in {"done", "refused"},
           Go(r, to), UNCHANGED <<nativeVars, arguments, record, journal, torn, reportVars>>,
           DOMAIN outputs' = Runs, OutputOk(r)',
           \A s \in Runs \ {r} : outputs'[s] = outputs[s]
    PROVE  TasksInv'
<1>1. UNCHANGED <<nativeVars, arguments, reportVars, journal, torn>> OBVIOUS
<1>2. Shape /\ (rows'[r] = <<>> => RowsOk(r)') BY <1>1, QuietRun
<1>3. /\ DOMAIN bound' = Runs /\ DOMAIN rows' = Runs
      /\ answering' \in [Runs -> BOOLEAN]
      /\ rows'[r] = <<>> /\ ~answering'[r]
      /\ \A s \in Runs \ {r} : /\ bound'[s] = bound[s] /\ rows'[s] = rows[s]
                               /\ answering'[s] = answering[s]
  BY <1>2, Forgotten
<1>4. /\ DOMAIN progress' = Runs /\ progress'[r] = to
      /\ \A s \in Runs \ {r} : progress'[s] = progress[s]
  BY <1>2 DEF Go, Shape
<1>5. ControlOk(r)' BY <1>3, <1>4 DEF ControlOk
<1>6. Elsewhere(r) BY <1>3, <1>4 DEF Elsewhere
<1>7. DOMAIN record' = Runs /\ RowsOk(r)' BY <1>2, <1>3 DEF Shape
<1> QED BY <1>1, <1>3, <1>4, <1>5, <1>6, <1>7, QuietMove

LEMMA SummarizeOk ==
    ASSUME TasksInv, NEW r \in Runs, Summarize(r), UNCHANGED reportVars
    PROVE  TasksInv'
<1> DEFINE a == arguments[r]
           j == arguments[r].journal
<1>1. UNCHANGED <<nativeVars, arguments, record, journal, torn, reportVars>>
  BY DEF Summarize
<1>2. ForgetRun(r) BY DEF Summarize
<1>3. UNCHANGED <<nativeVars, arguments, reportVars, journal, torn>> BY <1>1
<1>4. Shape /\ GivenOk /\ (outputs'[r] = outputs[r] => OutputOk(r)') BY <1>3, QuietRun
<1>5. CASE Whole(j, a, bound[r])
  <2>1. outputs' = [outputs EXCEPT ![r] =
           [format |-> "summary", answers |-> Answers(journal[j]),
            identity |-> Identity(a, bound[r])]]
    BY <1>5 DEF Summarize
  <2>2. Go(r, "done") BY <1>5 DEF Summarize
  <2>3. /\ DOMAIN outputs' = Runs
        /\ outputs'[r].format = "summary" /\ outputs'[r].answers = Answers(journal[j])
        /\ \A s \in Runs \ {r} : outputs'[s] = outputs[s]
    BY <1>4, <2>1 DEF Shape
  <2>4. j \in Journals /\ Listed(journal[j])
    BY <1>4 DEF TasksInv, JournalOk, GivenOk
  <2>5. Begins(journal[j], a, Answers(journal[j])) /\ Cardinality(ToSet(Keys(a))) \in Nat
    BY <1>5, <2>4, WholeBegins
  <2>6. OutputOk(r)' BY <1>1, <2>3, <2>5 DEF OutputOk
  <2> QED BY <1>1, <1>2, <2>2, <2>3, <2>6, FinishOk
<1>6. CASE ~Whole(j, a, bound[r])
  <2>1. Go(r, "refused") /\ outputs' = outputs BY <1>6 DEF Summarize
  <2>2. DOMAIN outputs' = Runs /\ OutputOk(r)' BY <1>4, <2>1 DEF Shape
  <2> QED BY <1>1, <1>2, <2>1, <2>2, FinishOk
<1> QED BY <1>5, <1>6

LEMMA PublishReportOk ==
    ASSUME TasksInv, NEW r \in Runs, PublishReport(r), UNCHANGED reportVars
    PROVE  TasksInv'
<1>1. UNCHANGED <<nativeVars, arguments, record, journal, torn, reportVars>>
  BY DEF PublishReport
<1>2. ForgetRun(r) /\ Go(r, "done") BY DEF PublishReport
<1>3. UNCHANGED <<nativeVars, arguments, reportVars, journal, torn>> BY <1>1
<1>4. Shape /\ RowsOk(r) /\ JournalsGrow BY <1>3, QuietRun
<1>5. /\ DOMAIN outputs' = Runs
      /\ outputs'[r].format = "report" /\ outputs'[r].rows = rows[r]
      /\ outputs'[r].checkpoint = arguments[r].checkpoint
      /\ \A s \in Runs \ {r} : outputs'[s] = outputs[s]
  BY <1>4 DEF PublishReport, Shape, Report
<1>6. \A d, c : OnRecord(d, c) => OnRecord(d, c)' BY <1>4, KeptStays
<1>7. OutputOk(r)' BY <1>4, <1>5, <1>6 DEF OutputOk, Backed, RowsOk
<1> QED BY <1>1, <1>2, <1>5, <1>7, FinishOk

\* A step that appends to one journal, and at most one line of known evidence.
LEMMA OneJournal ==
    ASSUME TasksInv, NEW j \in Journals, NEW lines, NEW broken \in BOOLEAN,
           journal' = [journal EXCEPT ![j] = lines],
           torn' = [torn EXCEPT ![j] = broken],
           JournalOk(lines, broken), Grows(journal[j], lines),
           \A line \in Written(lines) :
              \/ line \in Written(journal[j])
              \/ line.identity.evidence # NoOne => line.faithful
    PROVE  /\ JournalsGrow /\ RecordsBound'
           /\ DOMAIN journal' = Journals /\ torn' \in [Journals -> BOOLEAN]
<1>1. Shape /\ RecordsBound /\ \A k \in Journals : JournalOk(journal[k], torn[k])
  BY DEF TasksInv
<1>2. /\ DOMAIN journal' = Journals /\ torn' \in [Journals -> BOOLEAN]
      /\ journal'[j] = lines /\ torn'[j] = broken
      /\ \A k \in Journals \ {j} : journal'[k] = journal[k] /\ torn'[k] = torn[k]
  BY <1>1 DEF Shape
<1>3. ASSUME NEW k \in Journals
      PROVE  /\ JournalOk(journal[k], torn[k]) /\ JournalOk(journal'[k], torn'[k])
             /\ Grows(journal[k], journal'[k])
  <2>1. CASE k = j BY <1>1, <1>2, <2>1
  <2>2. CASE k # j
    <3>1. Grows(journal[k], journal[k]) BY <1>1, SameGrows DEF JournalOk
    <3> QED BY <1>1, <1>2, <2>2, <3>1
  <2> QED BY <2>1, <2>2
<1>4. JournalsGrow BY <1>3 DEF JournalsGrow
<1>5. ASSUME NEW k \in Journals, NEW line \in Written(journal'[k]),
             line.identity.evidence # NoOne
      PROVE  line.faithful
  <2>1. CASE line \in Written(journal[k]) BY <1>1, <1>5, <2>1 DEF RecordsBound
  <2>2. CASE line \notin Written(journal[k])
    <3>1. k = j BY <1>2, <1>5, <2>2
    <3> QED BY <1>2, <1>5, <2>2, <3>1
  <2> QED BY <2>1, <2>2
<1>6. RecordsBound' BY <1>5 DEF RecordsBound
<1> QED BY <1>2, <1>4, <1>6

LEMMA AppendOk ==
    ASSUME TasksInv, NEW r \in Runs, AppendLine(r), UNCHANGED reportVars
    PROVE  TasksInv'
<1> DEFINE j == arguments[r].journal
           line == record[r]
           lines == Extended(j, line)
<1>1. Shape /\ GivenOk /\ RunOk(r) BY DEF TasksInv
<1>2. j \in Journals /\ progress[r] = "append" /\ InHand(r)
  BY <1>1 DEF AppendLine, GivenOk, RunOk, ControlOk
<1>3. /\ UNCHANGED <<nativeVars, arguments, outputs, reportVars>>
      /\ journal' = [journal EXCEPT ![j] = lines]
      /\ torn' = [torn EXCEPT ![j] = FALSE]
      /\ record' = [record EXCEPT ![r] = Nothing]
  BY DEF AppendLine
<1>4. line.format # "glued" BY <1>1, <1>2 DEF InHand, GivenOk
<1>5. /\ JournalOk(journal[j], torn[j]) /\ torn[j] \in BOOLEAN
  BY <1>1, <1>2 DEF TasksInv, Shape
<1>6. /\ Listed(lines) /\ Grows(journal[j], lines)
      /\ Written(lines) = Written(journal[j]) \cup {line}
  BY <1>2, <1>4, <1>5, ExtendedGrows
<1>7. /\ line.identity.evidence = bound[r]
      /\ line.identity.checkpoint = arguments[r].checkpoint
      /\ bound[r] # NoOne => line.faithful
  BY <1>2 DEF InHand, Identity
<1> HIDE DEF lines, line
<1>8. JournalOk(lines, FALSE) BY <1>6 DEF JournalOk
<1>9. /\ JournalsGrow /\ RecordsBound'
      /\ DOMAIN journal' = Journals /\ torn' \in [Journals -> BOOLEAN]
  BY <1>2, <1>3, <1>6, <1>7, <1>8, OneJournal
<1>10. journal'[j] = lines BY <1>1, <1>2, <1>3 DEF Shape
<1>11. Fixed BY <1>3 DEF Fixed, nativeVars, reportVars
<1>12. OutputOk(r)' BY <1>1, <1>3, <1>9, <1>11, OutputStays DEF RunOk
<1>13. \A d, c : OnRecord(d, c) => OnRecord(d, c)' BY <1>9, KeptStays
<1>14. DOMAIN record' = Runs /\ \A s \in Runs \ {r} : record'[s] = record[s]
  BY <1>1, <1>3 DEF Shape
<1>15. UNCHANGED <<nativeVars, arguments, reportVars>> BY <1>3
<1>16. CASE line.prediction = NoLabel
  <2>1. Go(r, "refused") /\ ForgetRun(r) BY <1>16 DEF AppendLine, line
  <2>2. /\ DOMAIN bound' = Runs /\ DOMAIN rows' = Runs
        /\ answering' \in [Runs -> BOOLEAN]
        /\ rows'[r] = <<>> /\ ~answering'[r]
        /\ \A s \in Runs \ {r} : /\ bound'[s] = bound[s] /\ rows'[s] = rows[s]
                                 /\ answering'[s] = answering[s]
    BY <1>1, <2>1, Forgotten
  <2>3. /\ DOMAIN progress' = Runs /\ progress'[r] = "refused"
        /\ \A s \in Runs \ {r} : progress'[s] = progress[s]
    BY <1>1, <2>1 DEF Go, Shape
  <2>4. Listed(<<>>) /\ DOMAIN <<>> = {} BY DEF Listed
  <2>5. RowsOk(r)' BY <2>2, <2>4 DEF RowsOk
  <2>6. ControlOk(r)' BY <2>2, <2>3 DEF ControlOk
  <2>7. RunOk(r)' BY <1>12, <2>5, <2>6 DEF RunOk
  <2>8. Elsewhere(r) BY <1>3, <1>14, <2>2, <2>3 DEF Elsewhere
  <2>9. Shape' BY <1>1, <1>3, <1>9, <1>14, <2>2, <2>3 DEF Shape, nativeVars
  <2> QED BY <1>9, <1>15, <2>7, <2>8, <2>9, RunMoves
<1>17. CASE line.prediction # NoLabel
  <2>1. /\ Go(r, "ask") /\ UNCHANGED <<bound, prior, answering>>
        /\ rows' = [rows EXCEPT ![r] = Append(@, line)]
    BY <1>17 DEF AppendLine, line
  <2>2. /\ DOMAIN progress' = Runs /\ progress'[r] = "ask"
        /\ \A s \in Runs \ {r} : progress'[s] = progress[s]
    BY <1>1, <2>1 DEF Go, Shape
  <2>3. /\ DOMAIN rows' = Runs /\ rows'[r] = Append(rows[r], line)
        /\ \A s \in Runs \ {r} : rows'[s] = rows[s]
    BY <1>1, <2>1 DEF Shape
  <2>4. RowsOk(r)'
    <3>1. /\ Listed(rows[r])
          /\ \A i \in DOMAIN rows[r] : OnRecord(rows[r][i], arguments[r].checkpoint)
      BY <1>1 DEF RunOk, RowsOk
    <3>2. /\ Listed(rows'[r]) /\ Len(rows'[r]) = Len(rows[r]) + 1
          /\ \A i \in 1..Len(rows[r]) : rows'[r][i] = rows[r][i]
          /\ rows'[r][Len(rows[r]) + 1] = line
      BY <2>3, <3>1, AppendFacts
    <3>3. /\ DOMAIN rows'[r] = 1..(Len(rows[r]) + 1)
          /\ DOMAIN rows[r] = 1..Len(rows[r]) /\ Len(rows[r]) \in Nat
      BY <3>1, <3>2, ListFacts
    <3> DEFINE d == line
               c == arguments[r].checkpoint
    <3>4. \E x \in Written(journal'[j]) :
              /\ x.key = line.key /\ x.prediction = line.prediction
              /\ x.identity.checkpoint = c
      BY <1>6, <1>7, <1>10
    <3>5. ASSUME NEW i \in DOMAIN rows'[r], NEW e, e = rows'[r][i]
          PROVE  \E k \in Journals : \E x \in Written(journal'[k]) :
                    /\ x.key = e.key /\ x.prediction = e.prediction
                    /\ x.identity.checkpoint = c
      <4>1. CASE i = Len(rows[r]) + 1
        BY <1>2, <3>2, <3>4, <3>5, <4>1
      <4>2. CASE i # Len(rows[r]) + 1
        <5>1. i \in DOMAIN rows[r] /\ i \in 1..Len(rows[r]) BY <3>3, <4>2
        <5>2. e = rows[r][i] BY <3>2, <3>5, <5>1
        <5>3. OnRecord(e, c) BY <3>1, <5>1, <5>2
        <5>4. OnRecord(e, c)' BY <1>3, <1>13, <5>3
        <5> QED BY <1>3, <5>4 DEF OnRecord
      <4> QED BY <4>1, <4>2
    <3>6. \A i \in DOMAIN rows'[r] : OnRecord(rows[r][i], arguments[r].checkpoint)'
      BY <1>3, <3>5 DEF OnRecord
    <3> QED BY <3>2, <3>6 DEF RowsOk
  <2>5. answering'[r] => Live(bound[r])'
    BY <1>1, <1>3, <2>1 DEF RunOk, ControlOk, Live, LiveLlm, nativeVars
  <2>6. ControlOk(r)' BY <2>2, <2>5 DEF ControlOk
  <2>7. RunOk(r)' BY <1>12, <2>4, <2>6 DEF RunOk
  <2>8. Elsewhere(r) BY <1>3, <1>14, <2>1, <2>2, <2>3 DEF Elsewhere
  <2>9. Shape' BY <1>1, <1>3, <1>9, <1>14, <2>1, <2>2, <2>3 DEF Shape, nativeVars
  <2> QED BY <1>9, <1>15, <2>7, <2>8, <2>9, RunMoves
<1> QED BY <1>16, <1>17

\* The beginning of a line that was cut has nothing of a record.
LEMMA CutGrows ==
    ASSUME NEW s, Listed(s)
    PROVE  LET t == Append(s, [format |-> "glued", parts |-> {}]) IN
           JournalOk(t, TRUE) /\ Grows(s, t) /\ Written(t) \subseteq Written(s)
<1> DEFINE g == [format |-> "glued", parts |-> {}]
           t == Append(s, g)
<1>1. g.format = "glued" /\ g.parts = {} OBVIOUS
<1> HIDE DEF g
<1>2. Len(s) \in Nat /\ DOMAIN s = 1..Len(s) BY ListFacts
<1>3. /\ Listed(t) /\ Len(t) = Len(s) + 1 /\ DOMAIN t = 1..(Len(s) + 1)
      /\ \A i \in 1..Len(s) : t[i] = s[i]
      /\ t[Len(s) + 1] = g
  BY AppendFacts, ListFacts
<1> HIDE DEF t
<1>4. JournalOk(t, TRUE)
  <2>1. t # <<>> BY <1>2, <1>3
  <2> QED BY <1>1, <1>3, <2>1 DEF JournalOk, Last
<1>5. Grows(s, t) BY <1>2, <1>3 DEF Grows
<1>6. Written(t) \subseteq Written(s)
  <2> SUFFICES ASSUME NEW i \in DOMAIN t,
                      NEW x \in (IF t[i].format = "glued" THEN t[i].parts
                                 ELSE {t[i]})
               PROVE  x \in Written(s)
    BY DEF Written
  <2>1. i # Len(s) + 1 BY <1>1, <1>3
  <2>2. i \in DOMAIN s /\ t[i] = s[i] BY <1>2, <1>3, <2>1
  <2> QED BY <2>2 DEF Written
<1> QED BY <1>4, <1>5, <1>6 DEF t, g

LEMMA DieOk ==
    ASSUME TasksInv, NEW r \in Runs, Die(r), UNCHANGED reportVars
    PROVE  TasksInv'
<1> DEFINE j == arguments[r].journal
           cut == [format |-> "glued", parts |-> {}]
<1>1. Shape /\ GivenOk /\ RunOk(r) BY DEF TasksInv
<1>2. /\ UNCHANGED <<nativeVars, arguments, outputs, reportVars>>
      /\ Go(r, "dead") /\ ForgetRun(r)
      /\ record' = [record EXCEPT ![r] = Nothing]
  BY DEF Die
<1>3. j \in Journals BY <1>1 DEF GivenOk
<1>4. JournalOk(journal[j], torn[j]) /\ torn[j] \in BOOLEAN
  BY <1>1, <1>3 DEF TasksInv, Shape
<1>5. /\ JournalsGrow /\ RecordsBound'
      /\ DOMAIN journal' = Journals /\ torn' \in [Journals -> BOOLEAN]
  <2>1. CASE UNCHANGED <<journal, torn>>
    BY <1>1, <2>1, QuietGrows DEF Shape
  <2>2. CASE /\ journal' = [journal EXCEPT ![j] = IF torn[j] THEN @ ELSE Append(@, cut)]
             /\ torn' = [torn EXCEPT ![j] = TRUE]
    <3> DEFINE lines == IF torn[j] THEN journal[j] ELSE Append(journal[j], cut)
    <3>1. journal' = [journal EXCEPT ![j] = lines] BY <2>2
    <3>2. JournalOk(lines, TRUE) /\ Grows(journal[j], lines)
          /\ Written(lines) \subseteq Written(journal[j])
      <4>1. CASE torn[j]
        <5>1. lines = journal[j] /\ torn[j] = TRUE BY <1>4, <4>1
        <5>2. Grows(journal[j], journal[j]) BY <1>4, SameGrows DEF JournalOk
        <5> QED BY <1>4, <5>1, <5>2
      <4>2. CASE ~torn[j]
        <5>1. lines = Append(journal[j], cut) BY <4>2
        <5> HIDE DEF lines
        <5>2. Listed(journal[j]) BY <1>4 DEF JournalOk
        <5> QED BY <5>1, <5>2, CutGrows
      <4> QED BY <4>1, <4>2
    <3> HIDE DEF lines
    <3> QED BY <1>3, <2>2, <3>1, <3>2, OneJournal
  <2> QED BY <2>1, <2>2 DEF Die
<1>6. Fixed BY <1>2 DEF Fixed, nativeVars, reportVars
<1>7. OutputOk(r)' BY <1>1, <1>2, <1>5, <1>6, OutputStays DEF RunOk
<1>8. DOMAIN record' = Runs /\ \A s \in Runs \ {r} : record'[s] = record[s]
  BY <1>1, <1>2 DEF Shape
<1>9. /\ DOMAIN bound' = Runs /\ DOMAIN rows' = Runs
      /\ answering' \in [Runs -> BOOLEAN]
      /\ rows'[r] = <<>> /\ ~answering'[r]
      /\ \A s \in Runs \ {r} : /\ bound'[s] = bound[s] /\ rows'[s] = rows[s]
                               /\ answering'[s] = answering[s]
  BY <1>1, <1>2, Forgotten
<1>10. /\ DOMAIN progress' = Runs /\ progress'[r] = "dead"
       /\ \A s \in Runs \ {r} : progress'[s] = progress[s]
  BY <1>1, <1>2 DEF Go, Shape
<1>11. Listed(<<>>) /\ DOMAIN <<>> = {} BY DEF Listed
<1>12. RowsOk(r)' BY <1>9, <1>11 DEF RowsOk
<1>13. ControlOk(r)' BY <1>9, <1>10 DEF ControlOk
<1>14. RunOk(r)' BY <1>7, <1>12, <1>13 DEF RunOk
<1>15. Elsewhere(r) BY <1>2, <1>8, <1>9, <1>10 DEF Elsewhere
<1>16. Shape' BY <1>1, <1>2, <1>5, <1>8, <1>9, <1>10 DEF Shape, nativeVars
<1>17. UNCHANGED <<nativeVars, arguments, reportVars>> BY <1>2
<1> QED BY <1>5, <1>14, <1>15, <1>16, <1>17, RunMoves

-----------------------------------------------------------------------------
(* The steps of importer, combination and validation *)

\* A step that leaves servers, runs and journals.
LEMMA ReportMoves ==
    ASSUME TasksInv, UNCHANGED <<nativeVars, journalVars, given, inputs>>,
           ImportOk', CombinedAnswered'
    PROVE  TasksInv'
<1>1. /\ UNCHANGED <<stage, config, digest, published, port>>
      /\ UNCHANGED <<arguments, progress, bound, record, rows, journal, torn,
                     outputs, answering>>
      /\ UNCHANGED <<given, inputs>>
  BY DEF nativeVars, journalVars
<1>2. Shape /\ GivenOk /\ ServersOk BY DEF TasksInv
<1>3. Fixed BY <1>1 DEF Fixed
<1>4. UNCHANGED <<journal, torn>> BY <1>1
<1>5. JournalsGrow /\ RecordsBound' BY <1>4, QuietGrows
<1>6. Shape' BY <1>1, <1>2 DEF Shape
<1>7. GivenOk' BY <1>2, <1>3, GivenStays
<1>8. ServersOk'
  BY <1>1, <1>2
     DEF ServersOk, Preflight, IsFullLegal, KevEncodes, DeciderEncodes, LevEncodes,
         LayaEncodes, LayaComplete, LayaBudget, Budget, ContextLimit, Requests
<1>9. ASSUME NEW r \in Runs PROVE RunOk(r)'
  <2>1. RunOk(r) BY DEF TasksInv
  <2>2. answering'[r] => PortStays(r) BY <1>1 DEF PortStays
  <2> QED BY <1>1, <1>2, <1>3, <1>5, <2>1, <2>2, RunStays
<1>10. \A j \in Journals : JournalOk(journal[j], torn[j])' BY <1>5 DEF JournalsGrow
<1> QED BY <1>5, <1>6, <1>7, <1>8, <1>9, <1>10 DEF TasksInv

LEMMA CombinedKept ==
    ASSUME TasksInv, UNCHANGED <<nativeVars, journalVars, given, inputs, combined>>
    PROVE  CombinedAnswered'
<1>1. UNCHANGED <<journal, torn>> /\ UNCHANGED <<arguments, config, given, inputs>>
  BY DEF journalVars, nativeVars
<1>2. JournalsGrow /\ Fixed BY <1>1, QuietGrows DEF Fixed
<1> QED BY <1>2, CombinedStays DEF TasksInv

LEMMA ImportKept ==
    ASSUME TasksInv, UNCHANGED <<nativeVars, journalVars, given, inputs, importer, imported>>
    PROVE  ImportOk'
<1>1. UNCHANGED <<journal, torn>> /\ UNCHANGED <<arguments, config, given, inputs>>
  BY DEF journalVars, nativeVars
<1>2. JournalsGrow /\ Fixed BY <1>1, QuietGrows DEF Fixed
<1> QED BY <1>2, ImportStays DEF TasksInv

LEMMA ImportSummaryOk ==
    ASSUME TasksInv, ImportSummary
    PROVE  TasksInv'
<1>1. /\ UNCHANGED <<nativeVars, journalVars, given, inputs>>
      /\ UNCHANGED <<imported, combined>>
  BY DEF ImportSummary
<1>2. importer' \in {"once", "refused"} BY DEF ImportSummary
<1>3. importer' = "once" => given.command = "pairs" /\ given.prepared.mode = "v3camara"
  BY DEF ImportSummary, ImportLegal
<1>4. ImportOk' BY <1>1, <1>2, <1>3 DEF ImportOk
<1>5. CombinedAnswered' BY <1>1, CombinedKept
<1> QED BY <1>1, <1>4, <1>5, ReportMoves

LEMMA ImportRecordsOk ==
    ASSUME TasksInv, ImportRecords
    PROVE  TasksInv'
<1>1. /\ UNCHANGED <<nativeVars, journalVars, given, inputs>>
      /\ UNCHANGED combined
  BY DEF ImportRecords
<1>2. journal' = journal BY <1>1 DEF journalVars
<1>3. given.command = "pairs" /\ given.prepared.mode = "v3camara"
  BY DEF ImportRecords, TasksInv, ImportOk
<1>4. CASE ImportsWhole
  <2>1. importer' = "twice" /\ imported' = Answers(journal[given.journal])
    BY <1>4 DEF ImportRecords
  <2>2. given.journal \in Journals /\ Listed(journal[given.journal])
    BY DEF TasksInv, GivenOk, JournalOk
  <2>3. /\ Begins(journal[given.journal], given, Answers(journal[given.journal]))
        /\ Cardinality(ToSet(Keys(given))) \in Nat
    BY <1>4, <2>2, WholeBegins DEF ImportsWhole
  <2> QED BY <1>1, <1>2, <1>3, <2>1, <2>3, CombinedKept, ReportMoves DEF ImportOk
<1>5. CASE ~ImportsWhole
  <2>1. importer' = "refused" BY <1>5 DEF ImportRecords
  <2>2. ImportOk' BY <2>1 DEF ImportOk
  <2> QED BY <1>1, <2>2, CombinedKept, ReportMoves
<1> QED BY <1>4, <1>5

LEMMA CamaraKeys ==
    ASSUME NEW a, a.command = "pairs", a.prepared.mode = "v3camara"
    PROVE  ToSet(Keys(a)) = {<<i, "full">> : i \in DOMAIN a.data}
<1>1. Asked(a) = FullRequests(a.data) BY DEF Asked, Requests
<1>2. /\ DOMAIN Asked(a) = DOMAIN a.data
      /\ \A i \in DOMAIN a.data : Asked(a)[i].index = i /\ Asked(a)[i].arm = "full"
  BY <1>1 DEF FullRequests, Request
<1>3. /\ DOMAIN Keys(a) = DOMAIN a.data
      /\ \A i \in DOMAIN a.data : Keys(a)[i] = <<i, "full">>
  BY <1>2 DEF Keys
<1> QED BY <1>3 DEF ToSet

LEMMA ImportPublishOk ==
    ASSUME TasksInv, ImportPublish
    PROVE  TasksInv'
<1> DEFINE lines == journal[given.journal]
           n == Cardinality(ToSet(Keys(given)))
<1>1. /\ UNCHANGED <<nativeVars, journalVars, given, inputs>>
      /\ UNCHANGED combined /\ importer' = "done"
  BY DEF ImportPublish
<1>2. journal' = journal BY <1>1 DEF journalVars
<1>3. /\ given.command = "pairs" /\ given.prepared.mode = "v3camara"
      /\ Begins(lines, given, imported) /\ n \in Nat
      /\ given.journal \in Journals /\ Listed(lines)
  BY DEF ImportPublish, TasksInv, ImportOk, GivenOk, JournalOk
<1>4. /\ imported'.format = "imported" /\ imported'.rows = Decisions(imported)
      /\ imported'.source = given.data /\ imported'.checkpoint = given.checkpoint
      /\ imported'.journal = lines
  <2> DEFINE whole == Report(given, Decisions(imported), "strict-journal-import")
  <2>1. imported' = [x \in DOMAIN whole \cup {"journal"} |->
                       CASE x = "format" -> "imported"
                         [] x = "journal" -> lines
                         [] OTHER -> whole[x]]
    BY DEF ImportPublish
  <2>2. /\ DOMAIN whole = {"format", "task", "checkpoint", "source", "rows", "complete",
                          "server", "score"}
        /\ whole.rows = Decisions(imported) /\ whole.source = given.data
        /\ whole.checkpoint = given.checkpoint
    BY DEF Report
  <2> HIDE DEF whole, lines
  <2> QED BY <2>1, <2>2
<1>5. /\ DOMAIN imported'.rows = DOMAIN given.data
      /\ \A i \in DOMAIN given.data :
            /\ imported'.rows[i].key = <<i, "full">>
            /\ imported'.rows[i].prediction = imported[<<i, "full">>]
  BY <1>4 DEF Decisions
<1>6. ToSet(Keys(given)) = {<<i, "full">> : i \in DOMAIN given.data}
  BY <1>3, CamaraKeys
<1> DEFINE predicted == [k \in ToSet(Keys(given)) |-> imported'.rows[k[1]].prediction]
<1>7. \A k \in ToSet(Keys(given)) : predicted[k] = imported[k]
  BY <1>5, <1>6
<1>8. /\ Len(lines) >= n
      /\ {lines[i].key : i \in 1..n} = ToSet(Keys(given))
      /\ \A i \in 1..n : /\ LineLegal(lines[i], given, lines[1].identity.evidence)
                         /\ imported[lines[i].key] = lines[i].prediction
  BY <1>3 DEF Begins
<1>9. Begins(lines, given, predicted)
  <2>1. \A i \in 1..n : lines[i].key \in ToSet(Keys(given)) BY <1>8
  <2>2. \A i \in 1..n : predicted[lines[i].key] = lines[i].prediction
    BY <1>7, <1>8, <2>1
  <2> HIDE DEF predicted, lines
  <2> QED BY <1>8, <2>2 DEF Begins
<1>10. ASSUME NEW i \in DOMAIN given.data
       PROVE  \E line \in Written(lines) :
                 /\ line.key = <<i, "full">>
                 /\ line.prediction = imported[<<i, "full">>]
                 /\ line.identity.checkpoint = given.checkpoint
  <2>1. PICK x \in 1..n : lines[x].key = <<i, "full">> BY <1>6, <1>8
  <2>2. LineLegal(lines[x], given, lines[1].identity.evidence) BY <1>8
  <2>3. lines[x].format # "glued" BY <2>2 DEF LineLegal
  <2>4. lines[x].identity.checkpoint = given.checkpoint BY <2>2 DEF LineLegal, Identity
  <2>5. x \in DOMAIN lines BY <1>3, <1>8, ListFacts
  <2>6. lines[x] \in Written(lines) BY <2>3, <2>5 DEF Written
  <2> QED BY <1>8, <2>1, <2>4, <2>6
<1>11. \A i \in DOMAIN imported'.rows :
          \E j \in Journals : \E line \in Written(journal'[j]) :
              /\ line.key = imported'.rows[i].key
              /\ line.prediction = imported'.rows[i].prediction
              /\ line.identity.checkpoint = imported'.checkpoint
  <2> SUFFICES ASSUME NEW i \in DOMAIN imported'.rows
               PROVE  \E line \in Written(journal'[given.journal]) :
                         /\ line.key = imported'.rows[i].key
                         /\ line.prediction = imported'.rows[i].prediction
                         /\ line.identity.checkpoint = imported'.checkpoint
    BY <1>3
  <2>1. i \in DOMAIN given.data BY <1>5
  <2> QED BY <1>2, <1>4, <1>5, <1>10, <2>1
<1>12. Backed(imported)' BY <1>11 DEF Backed, OnRecord
<1>13. ImportOk'
  BY <1>1, <1>3, <1>4, <1>5, <1>9, <1>12 DEF ImportOk
<1> QED BY <1>1, <1>13, CombinedKept, ReportMoves

\* A legal report is of every row, each from a line of a journal.
LEMMA LegalIsBacked ==
    ASSUME TasksInv, NEW from, NEW task, NEW data, Listed(data),
           ReportLegal(ReportAt(from), task, data)
    PROVE  /\ Backed(ReportAt(from))
           /\ Len(ReportAt(from).rows) = Len(data)
           /\ DOMAIN ReportAt(from).rows = DOMAIN data
           /\ \A i \in DOMAIN data : ReportAt(from).rows[i].key = <<i, "full">>
<1> DEFINE report == ReportAt(from)
<1>1. /\ report.format \in {"report", "imported"} /\ report.source = data
      /\ Len(report.rows) = Len(data)
      /\ \A i \in DOMAIN data : report.rows[i].key = <<i, "full">>
  BY DEF ReportLegal, DecisionLegal
<1>2. CASE from \in Runs
  <2>1. report = outputs[from] BY <1>2 DEF ReportAt
  <2>2. OutputOk(from) BY <1>2 DEF TasksInv, RunOk
  <2>3. Listed(report.rows) /\ Backed(report) BY <1>1, <2>1, <2>2 DEF OutputOk
  <2>4. DOMAIN report.rows = 1..Len(report.rows) /\ DOMAIN data = 1..Len(data)
    BY <2>3, ListFacts
  <2> QED BY <1>1, <2>3, <2>4
<1>3. CASE from \notin Runs
  <2>1. report # Nothing BY <1>1 DEF Nothing
  <2>2. report = imported /\ importer = "done" BY <1>3, <2>1 DEF ReportAt
  <2> QED BY <1>1, <2>2 DEF TasksInv, ImportOk
<1> QED BY <1>2, <1>3

LEMMA CombineOk ==
    ASSUME TasksInv, Combine
    PROVE  TasksInv'
<1>1. /\ UNCHANGED <<nativeVars, journalVars, given, inputs>>
      /\ UNCHANGED <<importer, imported>>
      /\ combined' = Rebuilt(CamaraReport, LegalReport)
      /\ Combinable(CamaraReport, LegalReport)
  BY DEF Combine
<1>2. journal' = journal /\ inputs' = inputs BY <1>1 DEF journalVars
<1>3. Listed(inputs.camaraData) /\ Listed(inputs.legalData) BY DEF TasksInv, GivenOk
<1>4. /\ combined'.checkpoint = CamaraReport.checkpoint
      /\ combined'.camara = CamaraReport.rows
      /\ NeedsLegal => combined'.legal = LegalReport.rows
  BY <1>1 DEF Rebuilt
<1>5. /\ Backed(CamaraReport)
      /\ Len(CamaraReport.rows) = Len(inputs.camaraData)
      /\ DOMAIN CamaraReport.rows = DOMAIN inputs.camaraData
      /\ \A i \in DOMAIN inputs.camaraData : CamaraReport.rows[i].key = <<i, "full">>
  BY <1>1, <1>3, LegalIsBacked DEF Combinable, CamaraReport
<1>6. NeedsLegal =>
        /\ Backed(LegalReport)
        /\ Len(LegalReport.rows) = Len(inputs.legalData)
        /\ DOMAIN LegalReport.rows = DOMAIN inputs.legalData
        /\ \A i \in DOMAIN inputs.legalData : LegalReport.rows[i].key = <<i, "full">>
        /\ SameCheckpoint(LegalReport.checkpoint, CamaraReport.checkpoint)
  BY <1>1, <1>3, LegalIsBacked DEF Combinable, LegalReport
<1>7. ASSUME NEW report, Backed(report), NEW data, Len(report.rows) = Len(data),
             DOMAIN report.rows = DOMAIN data,
             \A i \in DOMAIN data : report.rows[i].key = <<i, "full">>,
             SameCheckpoint(report.checkpoint, combined'.checkpoint)
      PROVE  /\ Len(report.rows) = Len(data)
             /\ \A i \in DOMAIN report.rows :
                   \E j \in Journals : \E line \in Written(journal'[j]) :
                      /\ line.key = <<i, "full">>
                      /\ line.prediction = report.rows[i].prediction
                      /\ SameCheckpoint(line.identity.checkpoint, combined'.checkpoint)
  <2> SUFFICES ASSUME NEW i \in DOMAIN report.rows
               PROVE  \E j \in Journals : \E line \in Written(journal'[j]) :
                      /\ line.key = <<i, "full">>
                      /\ line.prediction = report.rows[i].prediction
                      /\ SameCheckpoint(line.identity.checkpoint, combined'.checkpoint)
    BY <1>7
  <2>1. OnRecord(report.rows[i], report.checkpoint) BY <1>7 DEF Backed
  <2>2. report.rows[i].key = <<i, "full">> BY <1>7
  <2> QED BY <1>2, <1>7, <2>1, <2>2 DEF OnRecord
<1>8. SameCheckpoint(CamaraReport.checkpoint, combined'.checkpoint)
  BY <1>4 DEF SameCheckpoint
<1>9. AllAnswered(combined.camara, inputs.camaraData)'
  <2> DEFINE report == CamaraReport
             data == inputs.camaraData
  <2>1. /\ Len(report.rows) = Len(data)
        /\ \A i \in DOMAIN report.rows :
              \E j \in Journals : \E line \in Written(journal'[j]) :
                 /\ line.key = <<i, "full">>
                 /\ line.prediction = report.rows[i].prediction
                 /\ SameCheckpoint(line.identity.checkpoint, combined'.checkpoint)
    <3> HIDE DEF report, data
    <3> QED BY <1>5, <1>7, <1>8 DEF report, data
  <2> QED BY <1>2, <1>4, <2>1 DEF AllAnswered
<1>10. NeedsLegal => AllAnswered(combined.legal, inputs.legalData)'
  <2> SUFFICES ASSUME NeedsLegal
               PROVE  AllAnswered(combined.legal, inputs.legalData)'
    OBVIOUS
  <2> DEFINE report == LegalReport
             data == inputs.legalData
  <2>1. SameCheckpoint(report.checkpoint, combined'.checkpoint) BY <1>4, <1>6
  <2>2. /\ Len(report.rows) = Len(data)
        /\ \A i \in DOMAIN report.rows :
              \E j \in Journals : \E line \in Written(journal'[j]) :
                 /\ line.key = <<i, "full">>
                 /\ line.prediction = report.rows[i].prediction
                 /\ SameCheckpoint(line.identity.checkpoint, combined'.checkpoint)
    <3> HIDE DEF report, data
    <3> QED BY <1>6, <1>7, <2>1 DEF report, data
  <2> QED BY <1>2, <1>4, <2>2 DEF AllAnswered
<1>11. NeedsLegal' <=> NeedsLegal BY <1>2 DEF NeedsLegal
<1>12. CombinedAnswered' BY <1>9, <1>10, <1>11 DEF CombinedAnswered
<1> QED BY <1>1, <1>12, ImportKept, ReportMoves

\* Nothing changes.
LEMMA StillOk ==
    ASSUME TasksInv, UNCHANGED taskVars
    PROVE  TasksInv'
<1>1. /\ UNCHANGED <<nativeVars, journalVars, given, inputs, combined>>
      /\ UNCHANGED <<importer, imported>>
  BY DEF taskVars, reportVars
<1> QED BY <1>1, ImportKept, CombinedKept, ReportMoves

\* A validation writes nothing but its temporary.
LEMMA ValidationOk ==
    ASSUME TasksInv, NEW v \in Validators, Validate(v) \/ KillValidation(v)
    PROVE  TasksInv'
<1>1. /\ UNCHANGED <<nativeVars, journalVars, given, inputs, combined>>
      /\ UNCHANGED <<importer, imported>>
  BY DEF Validate, BeginValidation, Build, ReadBack, Clear, KillValidation
<1> QED BY <1>1, ImportKept, CombinedKept, ReportMoves

LEMMA TasksStart ==
    ASSUME ReportsInit
    PROVE  TasksInv
<1>1. PICK s \in Scenarios : InitRuns(s) /\ InitReports(s) BY DEF ReportsInit
<1>2. /\ stage = [l \in Launches |-> "idle"] /\ config = s.configs
      /\ digest = [l \in Launches |-> NoOne] /\ port = s.port
  BY <1>1 DEF InitRuns, InitNative
<1>3. /\ arguments = s.runs
      /\ progress = [r \in Runs |-> IF s.runs[r].command = "none"
                                    THEN "absent" ELSE "idle"]
      /\ bound = [r \in Runs |-> NoOne] /\ record = [r \in Runs |-> Nothing]
      /\ rows = [r \in Runs |-> <<>>] /\ journal = [j \in Journals |-> <<>>]
      /\ torn = [j \in Journals |-> FALSE] /\ outputs = [r \in Runs |-> Nothing]
      /\ answering = [r \in Runs |-> FALSE]
  BY <1>1 DEF InitRuns
<1>4. importer = "idle" /\ given = s.import /\ inputs = s.combine /\ combined = Nothing
  BY <1>1 DEF InitReports
<1>5. Shape BY <1>2, <1>3 DEF Shape
<1>6. GivenOk BY <1>2, <1>3, <1>4, ReportsAssumption DEF GivenOk
<1>7. ServersOk
  <2>1. port \notin Launches
    BY <1>2, ReportsAssumption, JournalAssumption, NativeAssumption
  <2> QED BY <1>2, <2>1 DEF ServersOk
<1>8. Listed(<<>>)
  <2>1. <<>> \in Seq({}) OBVIOUS
  <2> QED BY <2>1, SeqIsListed
<1>9. \A j \in Journals : JournalOk(journal[j], torn[j]) BY <1>3, <1>8 DEF JournalOk
<1>10. RecordsBound
  <2>1. \A j \in Journals : Written(journal[j]) = {}
    BY <1>3 DEF Written
  <2> QED BY <2>1 DEF RecordsBound
<1>11. ASSUME NEW r \in Runs PROVE RunOk(r)
  <2>1. ControlOk(r) BY <1>3 DEF ControlOk
  <2>2. RowsOk(r) BY <1>3, <1>8 DEF RowsOk
  <2>3. OutputOk(r) BY <1>3 DEF OutputOk, Nothing
  <2> QED BY <2>1, <2>2, <2>3 DEF RunOk
<1>12. ImportOk BY <1>4 DEF ImportOk
<1>13. CombinedAnswered BY <1>4 DEF CombinedAnswered
<1> QED BY <1>5, <1>6, <1>7, <1>9, <1>10, <1>11, <1>12, <1>13 DEF TasksInv

LEMMA JournalledOk ==
    ASSUME TasksInv, Journalled
    PROVE  TasksInv'
<1>1. UNCHANGED reportVars BY DEF Journalled
<1>2. CASE ServerStep \/ Swap BY <1>1, <1>2, ServerStepOk
<1>3. CASE \E r \in Runs : RunStep(r) \/ Die(r) \/ Restart(r)
  <2>1. PICK r \in Runs : RunStep(r) \/ Die(r) \/ Restart(r) BY <1>3
  <2>2. CASE Begin(r) BY <1>1, <2>2, BeginOk
  <2>3. CASE Bind(r) BY <1>1, <2>3, BindOk
  <2>4. CASE CheckJournal(r) BY <1>1, <2>4, CheckJournalOk
  <2>5. CASE AskNext(r) BY <1>1, <2>5, AskOk
  <2>6. CASE AppendLine(r) BY <1>1, <2>6, AppendOk
  <2>7. CASE Summarize(r) BY <1>1, <2>7, SummarizeOk
  <2>8. CASE PublishReport(r) BY <1>1, <2>8, PublishReportOk
  <2>9. CASE Die(r) BY <1>1, <2>9, DieOk
  <2>10. CASE Restart(r) BY <1>1, <2>10, RestartOk
  <2> QED BY <2>1, <2>2, <2>3, <2>4, <2>5, <2>6, <2>7, <2>8, <2>9, <2>10 DEF RunStep
<1> QED BY <1>2, <1>3 DEF Journalled

LEMMA ReportedOk ==
    ASSUME TasksInv, Reported
    PROVE  TasksInv'
<1>1. CASE ImportSummary BY <1>1, ImportSummaryOk
<1>2. CASE ImportRecords BY <1>2, ImportRecordsOk
<1>3. CASE ImportPublish BY <1>3, ImportPublishOk
<1>4. CASE Combine BY <1>4, CombineOk
<1>5. CASE \E v \in Validators : Validate(v) \/ KillValidation(v)
  BY <1>5, ValidationOk
<1> QED BY <1>1, <1>2, <1>3, <1>4, <1>5 DEF Reported

\* In every state of the runs, the servers and the reports made from them, the
\* inductive invariant above holds.
THEOREM TasksInvariant == ReportsSpec => []TasksInv
<1>1. ReportsInit => TasksInv BY TasksStart
<1>2. TasksInv /\ [ReportsNext]_taskVars => TasksInv'
  <2> SUFFICES ASSUME TasksInv, [ReportsNext]_taskVars PROVE TasksInv' OBVIOUS
  <2>1. CASE Journalled BY <2>1, JournalledOk
  <2>2. CASE Reported BY <2>2, ReportedOk
  <2>3. CASE UNCHANGED taskVars BY <2>3, StillOk
  <2> QED BY <2>1, <2>2, <2>3 DEF ReportsNext
<1> QED BY <1>1, <1>2, PTL DEF ReportsSpec

\* A summary or an imported report is computed from attempts none of which
\* failed, one for each key, all with the same prepared file, checkpoint and
\* evidence, however runs overlap, die inside a line and are started again
\* (validate_journal, summarize, from_strict_journal).
THEOREM SummariesAreHonest == ReportsSpec => []SummaryHonest
<1>1. TasksInv => SummaryHonest
  <2> SUFFICES ASSUME TasksInv PROVE SummaryHonest OBVIOUS
  <2>1. \A r \in Runs : outputs[r].format = "summary" =>
           Begins(journal[arguments[r].journal], arguments[r], outputs[r].answers)
    BY DEF TasksInv, RunOk, OutputOk
  <2>2. importer = "done" =>
           Begins(imported.journal, given,
                  [k \in ToSet(Keys(given)) |-> imported.rows[k[1]].prediction])
    BY DEF TasksInv, ImportOk
  <2> QED BY <2>1, <2>2 DEF SummaryHonest
<1> QED BY <1>1, TasksInvariant, PTL

\* A line that names evidence was answered by the process that evidence is of,
\* which takes the request whole if it was preflighted for it, as long as the
\* port has not changed hands since the run looked (preflight,
\* _server_binding).
THEOREM RecordsAreBound == ReportsSpec => []RecordsBound
<1>1. TasksInv => RecordsBound BY DEF TasksInv
<1> QED BY <1>1, TasksInvariant, PTL

\* A combined report has, for every row of the tasks it replaces, an attempt
\* that succeeded for its own checkpoint and whose record is in a journal, and
\* no rows besides (run_task, _validate_report, combine).
THEOREM CombinedIsAnswered == ReportsSpec => []CombinedAnswered
<1>1. TasksInv => CombinedAnswered BY DEF TasksInv
<1> QED BY <1>1, TasksInvariant, PTL

=============================================================================
