------------------------ MODULE RoleExecutionProofs ------------------------
(***************************************************************************)
(* Theorems about RoleExecution: its state has its type, and its safety    *)
(* properties hold, for every plan, every set of answers and evidence, and *)
(* any number of deaths.                                                   *)
(*                                                                         *)
(* The argument: while an execution holds the lock nobody else commits, so *)
(* what it found admissible and legal when it began still is when it asks  *)
(* and when it commits.  A reservation comes before its request and is     *)
(* never taken back, and an identity that is resolved takes no event more, *)
(* so a pilot that passed stays passed.                                    *)
(*                                                                         *)
(* The verdicts are about what the open rows may still come to: they add   *)
(* to a floor or a pair at most themselves, and to the rows of a share at  *)
(* most as many as to the rows of the lane.                                *)
(***************************************************************************)
EXTENDS RoleExecution, FiniteSetTheorems, TLAPS

-----------------------------------------------------------------------------
(* Types.                                                                  *)

Results == {x.answer : x \in Records(lane)}

Executions ==
    [step : Steps, identity : Identities, role : RolesOf[lane], evidence : Evidence,
     answer : Results \cup {None}]

LEMMA IdleOff == Idle.step = "off"
  BY DEF Idle

LEMMA RunningTyped ==
    ASSUME TypeOK, exec.step # "off"
    PROVE  exec \in Executions
  BY IdleOff DEF TypeOK, Executions, Results

LEMMA LaneRoles ==
    ASSUME TypeOK
    PROVE  RolesOf[lane] \subseteq Roles
  BY RoleAssumption DEF TypeOK, Roles, RolesOf

LEMMA ResultsTyped ==
    ASSUME TypeOK
    PROVE  /\ Failed \in Results
           /\ \A r \in RolesOf[lane] : \A a \in Answers[lane][r] : a \in Results /\ a # Failed
           /\ \A r \in RolesOf[lane], a \in Results : Event(r, a) \in Records(lane)
<1> DEFINE Possible == {Failed} \cup UNION {Answers[lane][r] : r \in RolesOf[lane]}
<1>0. lane \in Lanes /\ lane \in {"training", "sealed"}
  BY RoleAssumption DEF TypeOK
<1>1. PICK r \in RolesOf[lane] : TRUE
  <2>1. "author" \in RolesOf["training"] /\ "author" \in RolesOf["sealed"]
    BY DEF RolesOf
  <2> QED BY <1>0, <2>1
<1>2. Results = Possible
  <2>1. ASSUME NEW a \in Possible PROVE a \in Results
    <3>1. [role |-> r, answer |-> a] \in Records(lane)
      BY <1>1, <2>1 DEF Records
    <3>2. [role |-> r, answer |-> a].answer = a
      OBVIOUS
    <3> QED BY <3>1, <3>2 DEF Results
  <2>2. ASSUME NEW a \in Results PROVE a \in Possible
    BY <2>2 DEF Results, Records
  <2> QED BY <2>1, <2>2
<1>3. \A q \in RolesOf[lane] : \A a \in Answers[lane][q] : a # Failed
  <2>1. \A l \in Lanes : \A q \in RolesOf[l] : Failed \notin Answers[l][q]
    BY RoleAssumption, Zenon
  <2> QED BY <1>0, <2>1
<1> QED BY <1>2, <1>3 DEF Records, Event

\* What a step of an execution makes of it.
LEMMA GotoTyped ==
    ASSUME TypeOK, exec.step # "off", NEW s \in Steps, Goto(s)
    PROVE  /\ exec' \in Executions
           /\ exec'.step = s
           /\ exec'.identity = exec.identity
           /\ exec'.role = exec.role
           /\ exec'.evidence = exec.evidence
           /\ exec'.answer = exec.answer
  BY RunningTyped DEF Goto, Executions

LEMMA AnswerTyped ==
    ASSUME TypeOK, exec.step # "off", NEW s \in Steps, NEW a \in Results,
           exec' = [exec EXCEPT !.answer = a, !.step = s]
    PROVE  /\ exec' \in Executions
           /\ exec'.step = s
           /\ exec'.identity = exec.identity
           /\ exec'.role = exec.role
           /\ exec'.evidence = exec.evidence
           /\ exec'.answer = a
  BY RunningTyped DEF Executions

LEMMA ToCommitTyped ==
    ASSUME TypeOK, exec.step # "off", NEW a \in Results, ToCommit(a)
    PROVE  /\ exec' \in Executions
           /\ exec'.step = "commit"
           /\ exec'.identity = exec.identity
           /\ exec'.role = exec.role
           /\ exec'.evidence = exec.evidence
           /\ exec'.answer = a
  BY RunningTyped DEF ToCommit, Executions, Steps

LEMMA EnterTyped ==
    ASSUME TypeOK, NEW i \in Identities, NEW r \in RolesOf[lane], NEW e \in Evidence,
           NEW s \in Steps, NEW a \in Results \cup {None}, Enter(i, r, e, s, a)
    PROVE  /\ exec' \in Executions
           /\ exec'.step = s
           /\ exec'.identity = i
           /\ exec'.role = r
           /\ exec'.evidence = e
           /\ exec'.answer = a
  BY DEF Enter, Executions

LEMMA StepNotOff == "off" \notin Steps
  BY DEF Steps

LEMMA SameLane ==
    ASSUME lane' = lane
    PROVE  Executions' = Executions /\ Results' = Results /\ Records(lane)' = Records(lane)
  BY DEF Executions, Results, Records

\* An execution has an answer when it commits, and a success when it stores.
Answered ==
    /\ exec.step \in {"store", "commit"} => exec.answer \in Results
    /\ exec.step = "store" => exec.answer # Failed

LEMMA InitTyped == Init => TypeOK /\ Answered
<1> SUFFICES ASSUME Init PROVE TypeOK /\ Answered
  OBVIOUS
<1>1. MaxDeaths \in Nat /\ lane \in Lanes
  BY RoleAssumption DEF Init
<1> QED BY <1>1, IdleOff DEF Init, TypeOK, Answered

\* The execution that begins, or ends with a failure at once.
LEMMA BeginTyped ==
    ASSUME TypeOK, NEW i \in Identities, NEW r \in Roles, NEW e \in Evidence,
           SettleReserved(i, r, e) \/ SettleGated(i, r, e) \/ Prepare(i, r, e)
    PROVE  /\ exec' \in Executions
           /\ exec'.identity = i /\ exec'.role = r /\ exec'.evidence = e
           /\ \/ exec'.step = "commit" /\ exec'.answer = Failed
              \/ exec'.step = "environment" /\ ~SettleReserved(i, r, e) /\ reserved[i][r] = None
           /\ UNCHANGED <<lane, deaths, events, environment, bindings, reserved, cases, posts>>
           /\ MayExecute(i, r, e)
<1>1. MayExecute(i, r, e) /\ r \in RolesOf[lane]
  BY DEF SettleReserved, SettleGated, Prepare, MayExecute
<1>2. UNCHANGED <<lane, deaths, events, environment, bindings, reserved, cases, posts>>
  BY DEF SettleReserved, SettleGated, Prepare, Keep, KeepFiles
<1>3. e # None
  BY RoleAssumption
<1>4. CASE SettleReserved(i, r, e) \/ SettleGated(i, r, e)
  <2>1. Enter(i, r, e, "commit", Failed)
    BY <1>4 DEF SettleReserved, SettleGated
  <2>2. "commit" \in Steps
    BY DEF Steps
  <2> QED BY <1>1, <1>2, <2>1, <2>2, EnterTyped, ResultsTyped
<1>5. CASE Prepare(i, r, e)
  <2>1. Enter(i, r, e, "environment", None) /\ reserved[i][r] = None
    BY <1>5 DEF Prepare
  <2>2. "environment" \in Steps
    BY DEF Steps
  <2>3. ~SettleReserved(i, r, e)
    BY <1>3, <2>1 DEF SettleReserved
  <2> QED BY <1>1, <1>2, <2>1, <2>2, <2>3, EnterTyped
<1> QED BY <1>4, <1>5

LEMMA CountTyped ==
    ASSUME NEW f \in [Identities -> [Roles -> Nat]], NEW i \in Identities, NEW r \in Roles
    PROVE  /\ [f EXCEPT ![i][r] = @ + 1] \in [Identities -> [Roles -> Nat]]
           /\ \A j \in Identities, q \in Roles :
                [f EXCEPT ![i][r] = @ + 1][j][q] = IF j = i /\ q = r THEN f[j][q] + 1 ELSE f[j][q]
<1>1. f[i] \in [Roles -> Nat] /\ f[i][r] + 1 \in Nat
  OBVIOUS
<1>2. [f[i] EXCEPT ![r] = @ + 1] \in [Roles -> Nat]
  BY <1>1
<1> QED BY <1>1, <1>2

\* The one request: it fails, or its answer is stored or committed next.
LEMMA ChatDoes ==
    ASSUME TypeOK, Chat
    PROVE  /\ exec.step = "chat"
           /\ exec.identity \in Identities /\ exec.role \in Roles
           /\ posts \in [Identities -> [Roles -> Nat]]
           /\ posts' \in [Identities -> [Roles -> Nat]]
           /\ posts' = [posts EXCEPT ![exec.identity][exec.role] = @ + 1]
           /\ exec' \in Executions
           /\ exec'.identity = exec.identity
           /\ exec'.role = exec.role
           /\ exec'.evidence = exec.evidence
           /\ \/ exec'.step = "commit" /\ exec'.answer = Failed
              \/ /\ exec'.step = "store" \/ (exec'.step = "commit" /\ exec.role # "author")
                 /\ exec'.answer \in Results /\ exec'.answer # Failed
           /\ UNCHANGED <<lane, deaths, events, environment, bindings, reserved, cases>>
<1>1. exec.step = "chat" /\ exec.step # "off"
  BY DEF Chat
<1>2. exec.identity \in Identities /\ exec.role \in RolesOf[lane] /\ exec.role \in Roles
  BY <1>1, RunningTyped, LaneRoles DEF Executions
<1>3. UNCHANGED <<lane, deaths, events, environment, bindings, reserved, cases>>
  BY DEF Chat, Keep, KeepFiles
<1>4. posts' = [posts EXCEPT ![exec.identity][exec.role] = @ + 1]
  BY DEF Chat
<1>5. posts \in [Identities -> [Roles -> Nat]]
  BY DEF TypeOK
<1>6. posts' \in [Identities -> [Roles -> Nat]]
  BY <1>2, <1>4, <1>5, CountTyped
<1>7. Failed \in Results /\ "store" \in Steps /\ "commit" \in Steps
  BY ResultsTyped DEF Steps
<1>8. CASE ToCommit(Failed)
  BY <1>1, <1>2, <1>3, <1>4, <1>5, <1>6, <1>7, <1>8, ToCommitTyped
<1>9. ASSUME NEW a \in Answers[lane][exec.role],
             exec' = [exec EXCEPT !.answer = a,
                                  !.step = IF exec.role = "author" THEN "store" ELSE "commit"]
      PROVE  /\ exec' \in Executions
             /\ exec'.identity = exec.identity
             /\ exec'.role = exec.role
             /\ exec'.evidence = exec.evidence
             /\ exec'.step = "store" \/ (exec'.step = "commit" /\ exec.role # "author")
             /\ exec'.answer \in Results /\ exec'.answer # Failed
  <2>1. a \in Results /\ a # Failed
    BY <1>2, ResultsTyped
  <2> DEFINE s == IF exec.role = "author" THEN "store" ELSE "commit"
  <2>2. s \in Steps /\ exec' = [exec EXCEPT !.answer = a, !.step = s]
    BY <1>7, <1>9
  <2> HIDE DEF s
  <2>3. /\ exec' \in Executions /\ exec'.step = s /\ exec'.answer = a
        /\ exec'.identity = exec.identity /\ exec'.role = exec.role
        /\ exec'.evidence = exec.evidence
    BY <1>1, <2>1, <2>2, AnswerTyped
  <2> QED BY <2>1, <2>3 DEF s
<1>10. \/ ToCommit(Failed)
       \/ \E a \in Answers[lane][exec.role] :
            exec' = [exec EXCEPT !.answer = a,
                                 !.step = IF exec.role = "author" THEN "store" ELSE "commit"]
  BY DEF Chat
<1> QED BY <1>1, <1>2, <1>3, <1>4, <1>5, <1>6, <1>8, <1>9, <1>10

LEMMA NextTyped == TypeOK /\ Answered /\ [Next]_vars => TypeOK' /\ Answered'
<1> SUFFICES ASSUME TypeOK, Answered, [Next]_vars PROVE TypeOK' /\ Answered'
  OBVIOUS
<1>0. IsFiniteSet(Identities) /\ MaxDeaths \in Nat
  BY RoleAssumption
<1>1. lane' = lane
  BY DEF Next, Begin, Step, BindEnvironment, BindRole, ReserveRole, CheckModels, Chat, StoreCase,
         CommitEvent, CommitRaises, Die, SettleReserved, SettleGated, Prepare, Keep, vars
<1>2. Executions' = Executions /\ Results' = Results /\ Records(lane)' = Records(lane)
  BY <1>1, SameLane
<1> DEFINE Files == /\ events' \in [Identities -> SUBSET Records(lane)]
                    /\ environment' \in {e.grant : e \in Evidence} \cup {None}
                    /\ bindings' \in [BindingFiles -> Evidence \cup {None}]
                    /\ reserved' \in [Identities -> [Roles -> Evidence \cup {None}]]
                    /\ cases' \subseteq Identities
                    /\ posts' \in [Identities -> [Roles -> Nat]]
                    /\ deaths' \in 0..MaxDeaths
<1>3. ASSUME Files, exec' = Idle \/ exec' \in Executions PROVE TypeOK'
  BY <1>1, <1>2, <1>3, Zenon DEF TypeOK, Executions, Results
<1>4. ASSUME UNCHANGED <<events, environment, bindings, reserved, cases, posts, deaths>> PROVE Files
  BY <1>4 DEF TypeOK
<1>5. CASE Begin
  <2>1. PICK i \in Identities, r \in Roles, e \in Evidence :
            SettleReserved(i, r, e) \/ SettleGated(i, r, e) \/ Prepare(i, r, e)
    BY <1>5 DEF Begin
  <2>2. TypeOK'
    BY <1>3, <1>4, <2>1, BeginTyped
  <2>3. Answered'
    BY <1>2, <2>1, BeginTyped, ResultsTyped DEF Answered
  <2> QED BY <2>2, <2>3
<1>6. CASE BindEnvironment
  <2>1. exec.step # "off" /\ Goto("binding") /\ "binding" \in Steps
    BY <1>6 DEF BindEnvironment, Steps
  <2>2. Files
    BY <1>6, <2>1, RunningTyped DEF BindEnvironment, TypeOK, Keep, Executions
  <2> QED BY <1>2, <1>3, <2>1, <2>2, GotoTyped DEF Answered
<1>7. CASE BindRole
  <2>1. exec.step # "off" /\ Goto("reserve") /\ "reserve" \in Steps
    BY <1>7 DEF BindRole, Steps
  <2>2. Files
    BY <1>7, <2>1, RunningTyped DEF BindRole, TypeOK, Keep, Executions
  <2> QED BY <1>2, <1>3, <2>1, <2>2, GotoTyped DEF Answered
<1>8. CASE ReserveRole
  <2>1. exec.step # "off" /\ Goto("models") /\ "models" \in Steps
    BY <1>8 DEF ReserveRole, Steps
  <2>2. exec.identity \in Identities /\ exec.role \in Roles /\ exec.evidence \in Evidence
    BY <2>1, RunningTyped, LaneRoles DEF Executions
  <2>3. Files
    BY <1>8, <2>2 DEF ReserveRole, TypeOK, Keep
  <2> QED BY <1>2, <1>3, <2>1, <2>3, GotoTyped DEF Answered
<1>9. CASE CheckModels
  <2>1. exec.step # "off" /\ "chat" \in Steps /\ Failed \in Results
    BY <1>9, ResultsTyped DEF CheckModels, Steps
  <2>2. Files
    BY <1>4, <1>9 DEF CheckModels, Keep, KeepFiles
  <2>3. CASE Goto("chat")
    BY <1>2, <1>3, <2>1, <2>2, <2>3, GotoTyped DEF Answered
  <2>4. CASE ToCommit(Failed)
    BY <1>2, <1>3, <2>1, <2>2, <2>4, ToCommitTyped DEF Answered
  <2> QED BY <1>9, <2>3, <2>4 DEF CheckModels
<1>10. CASE Chat
  <2>1. posts' \in [Identities -> [Roles -> Nat]]
    BY <1>10, ChatDoes
  <2>2. Files
    BY <1>10, <2>1, ChatDoes DEF TypeOK
  <2> QED BY <1>2, <1>3, <1>10, <2>2, ChatDoes, ResultsTyped DEF Answered
<1>11. CASE StoreCase
  <2>1. exec.step # "off" /\ Goto("commit") /\ "commit" \in Steps /\ exec.step = "store"
    BY <1>11 DEF StoreCase, Steps
  <2>2. Files
    BY <1>11, <2>1, RunningTyped DEF StoreCase, TypeOK, Keep, Executions
  <2> QED BY <1>2, <1>3, <2>1, <2>2, GotoTyped DEF Answered
<1>12. CASE CommitEvent
  <2>1. exec.step # "off" /\ exec' = Idle /\ exec.step = "commit"
    BY <1>12 DEF CommitEvent
  <2>2. exec.identity \in Identities /\ exec.role \in RolesOf[lane] /\ exec.answer \in Results
    BY <2>1, RunningTyped DEF Executions, Answered
  <2>3. Event(exec.role, exec.answer) \in Records(lane)
    BY <2>2, ResultsTyped
  <2>4. Files
    BY <1>12, <2>3 DEF CommitEvent, TypeOK, Keep
  <2> QED BY <1>3, <2>1, <2>4, IdleOff DEF Answered
<1>13. CASE CommitRaises
  <2>1. Files /\ exec' = Idle
    BY <1>4, <1>13 DEF CommitRaises, Keep, KeepFiles
  <2> QED BY <1>3, <2>1, IdleOff DEF Answered
<1>14. CASE Die
  <2>1. Files /\ exec' = Idle
    BY <1>0, <1>14 DEF Die, KeepFiles, TypeOK
  <2> QED BY <1>3, <2>1, IdleOff DEF Answered
<1>15. CASE UNCHANGED vars
  <2>1. Files /\ exec' = exec
    BY <1>4, <1>15 DEF vars
  <2>2. TypeOK'
    BY <1>3, <2>1 DEF TypeOK, Executions, Results
  <2> QED BY <1>2, <2>1, <2>2 DEF Answered
<1> QED BY <1>5, <1>6, <1>7, <1>8, <1>9, <1>10, <1>11, <1>12, <1>13, <1>14, <1>15 DEF Next, Step

-----------------------------------------------------------------------------
(* One request.                                                            *)

\* A request has a reservation, and a role in progress has been asked nothing.
Fresh ==
    /\ \A i \in Identities, r \in Roles : posts[i][r] <= 1
    /\ \A i \in Identities, r \in Roles : reserved[i][r] = None => posts[i][r] = 0
    /\ exec.step \in {"environment", "binding", "reserve"} =>
         reserved[exec.identity][exec.role] = None
    /\ exec.step \in {"models", "chat"} =>
         posts[exec.identity][exec.role] = 0 /\ reserved[exec.identity][exec.role] # None

LEMMA InitFresh == Init => Fresh
  BY IdleOff DEF Init, Fresh

\* The reservation is the only one that changes.
LEMMA ReserveDoes ==
    ASSUME TypeOK, ReserveRole
    PROVE  /\ exec.step = "reserve"
           /\ exec.identity \in Identities /\ exec.role \in Roles /\ exec.evidence \in Evidence
           /\ reserved \in [Identities -> [Roles -> Evidence \cup {None}]]
           /\ \A j \in Identities, q \in Roles :
                reserved'[j][q] = IF j = exec.identity /\ q = exec.role THEN exec.evidence
                                                                        ELSE reserved[j][q]
           /\ exec'.step = "models"
           /\ exec'.identity = exec.identity
           /\ exec'.role = exec.role
           /\ exec'.evidence = exec.evidence
           /\ UNCHANGED <<lane, deaths, events, environment, bindings, cases, posts>>
<1>1. exec.step = "reserve" /\ exec.step # "off" /\ Goto("models") /\ "models" \in Steps
  BY DEF ReserveRole, Steps
<1>2. exec.identity \in Identities /\ exec.role \in Roles /\ exec.evidence \in Evidence
  BY <1>1, RunningTyped, LaneRoles DEF Executions
<1>3. reserved \in [Identities -> [Roles -> Evidence \cup {None}]]
  BY DEF TypeOK
<1>4. reserved' = [reserved EXCEPT ![exec.identity][exec.role] = exec.evidence]
  BY DEF ReserveRole
<1>5. \A j \in Identities, q \in Roles :
        reserved'[j][q] = IF j = exec.identity /\ q = exec.role THEN exec.evidence
                                                                ELSE reserved[j][q]
  BY <1>2, <1>3, <1>4
<1>6. UNCHANGED <<lane, deaths, events, environment, bindings, cases, posts>>
  BY DEF ReserveRole, Keep
<1> QED BY <1>1, <1>2, <1>3, <1>5, <1>6, GotoTyped

LEMMA ChatCounts ==
    ASSUME TypeOK, Chat
    PROVE  \A j \in Identities, q \in Roles :
             posts'[j][q] = IF j = exec.identity /\ q = exec.role THEN posts[j][q] + 1
                                                                  ELSE posts[j][q]
  BY ChatDoes, CountTyped

LEMMA NextFresh == TypeOK /\ Fresh /\ [Next]_vars => Fresh'
<1> SUFFICES ASSUME TypeOK, Fresh, [Next]_vars PROVE Fresh'
  OBVIOUS
<1>0. ASSUME UNCHANGED <<posts, reserved>>
      PROVE  /\ \A i \in Identities, r \in Roles : posts'[i][r] <= 1
             /\ \A i \in Identities, r \in Roles : reserved'[i][r] = None => posts'[i][r] = 0
  BY <1>0 DEF Fresh
<1>1. CASE Begin
  <2>1. PICK i \in Identities, r \in Roles, e \in Evidence :
            SettleReserved(i, r, e) \/ SettleGated(i, r, e) \/ Prepare(i, r, e)
    BY <1>1 DEF Begin
  <2> QED BY <1>0, <2>1, BeginTyped DEF Fresh
<1>2. CASE BindEnvironment
  <2>1. exec.step = "environment" /\ Goto("binding") /\ "binding" \in Steps
        /\ UNCHANGED <<posts, reserved>>
    BY <1>2 DEF BindEnvironment, Steps
  <2> QED BY <1>0, <2>1, GotoTyped DEF Fresh
<1>3. CASE BindRole
  <2>1. exec.step = "binding" /\ Goto("reserve") /\ "reserve" \in Steps
        /\ UNCHANGED <<posts, reserved>>
    BY <1>3 DEF BindRole, Steps
  <2> QED BY <1>0, <2>1, GotoTyped DEF Fresh
<1>4. CASE ReserveRole
  BY <1>4, ReserveDoes, RoleAssumption DEF Fresh
<1>5. CASE CheckModels
  <2>1. exec.step = "models" /\ "chat" \in Steps /\ Failed \in Results
        /\ UNCHANGED <<posts, reserved>>
    BY <1>5, ResultsTyped DEF CheckModels, KeepFiles, Steps
  <2>2. CASE Goto("chat")
    BY <1>0, <2>1, <2>2, GotoTyped DEF Fresh
  <2>3. CASE ToCommit(Failed)
    BY <1>0, <2>1, <2>3, ToCommitTyped DEF Fresh
  <2> QED BY <1>5, <2>2, <2>3 DEF CheckModels
<1>6. CASE Chat
  <2>1. \A i \in Identities, r \in Roles : posts'[i][r] <= 1
    BY <1>6, ChatDoes, ChatCounts DEF Fresh
  <2> QED BY <1>6, <2>1, ChatDoes, ChatCounts DEF Fresh
<1>7. CASE StoreCase
  <2>1. exec.step = "store" /\ Goto("commit") /\ "commit" \in Steps
        /\ UNCHANGED <<posts, reserved>>
    BY <1>7 DEF StoreCase, Steps
  <2> QED BY <1>0, <2>1, GotoTyped DEF Fresh
<1>8. CASE CommitEvent \/ CommitRaises \/ Die
  <2>1. exec' = Idle /\ UNCHANGED <<posts, reserved>>
    BY <1>8 DEF CommitEvent, CommitRaises, Die, KeepFiles
  <2> QED BY <1>0, <2>1, IdleOff DEF Fresh
<1>9. CASE UNCHANGED vars
  BY <1>9 DEF vars, Fresh
<1> QED BY <1>1, <1>2, <1>3, <1>4, <1>5, <1>6, <1>7, <1>8, <1>9 DEF Next, Step

-----------------------------------------------------------------------------
(* What the histories come to, and what is open because of it.             *)

LEMMA SameOutcome ==
    ASSUME UNCHANGED <<events, lane>>
    PROVE  P' = P /\ Outcome' = Outcome
<1>1. P' = P
  BY DEF P
<1> QED BY <1>1 DEF Outcome

LEMMA SameStatus ==
    ASSUME UNCHANGED <<events, lane>>
    PROVE  /\ Micro(Outcome)' = Micro(Outcome)
           /\ Pilot(Outcome)' = Pilot(Outcome)
           /\ Status' = Status
           /\ \A i : Admissible(i)' = Admissible(i)
<1>1. P' = P /\ Outcome' = Outcome
  BY SameOutcome
<1> HIDE DEF P, Outcome
<1>2. Micro(Outcome)' = Micro(Outcome) /\ Pilot(Outcome)' = Pilot(Outcome)
  BY <1>1 DEF Micro, Pilot
<1>3. Full(Outcome)' = Full(Outcome)
  BY <1>1 DEF Full
<1>4. \A a : PairsIn(a)' = PairsIn(a)
  BY <1>1 DEF PairsIn
<1>5. Verdict(Outcome)' = Verdict(Outcome)
  BY <1>1, <1>2, <1>3, <1>4 DEF Verdict, ShareLost, ShareKept, PairsIn
<1> QED BY <1>1, <1>2, <1>5 DEF Status, Admissible

\* While an execution runs, its role is legal and admissible.
Open ==
    exec.step # "off" =>
        /\ exec.identity \in P.all
        /\ Legal(Event(exec.role, Failed), events[exec.identity])
        /\ Admissible(exec.identity)

LEMMA InitOpen == Init => Open
  BY IdleOff DEF Init, Open

\* An execution that goes on is the same one, over the same histories.
LEMMA GoesOn ==
    ASSUME TypeOK,
           BindEnvironment \/ BindRole \/ ReserveRole \/ CheckModels \/ Chat \/ StoreCase
    PROVE  /\ exec.step # "off"
           /\ exec'.identity = exec.identity
           /\ exec'.role = exec.role
           /\ exec'.evidence = exec.evidence
           /\ UNCHANGED <<lane, events>>
<1>1. CASE BindEnvironment
  BY <1>1, GotoTyped DEF BindEnvironment, Steps, Keep
<1>2. CASE BindRole
  BY <1>2, GotoTyped DEF BindRole, Steps, Keep
<1>3. CASE ReserveRole
  BY <1>3, ReserveDoes
<1>4. CASE CheckModels
  BY <1>4, GotoTyped, ToCommitTyped, ResultsTyped DEF CheckModels, Steps, Keep, KeepFiles
<1>5. CASE Chat
  BY <1>5, ChatDoes
<1>6. CASE StoreCase
  BY <1>6, GotoTyped DEF StoreCase, Steps, Keep
<1> QED BY <1>1, <1>2, <1>3, <1>4, <1>5, <1>6

LEMMA NextOpen == TypeOK /\ Open /\ [Next]_vars => Open'
<1> SUFFICES ASSUME TypeOK, Open, [Next]_vars PROVE Open'
  OBVIOUS
<1> USE DEF Open
<1>1. CASE Begin
  <2>1. PICK i \in Identities, r \in Roles, e \in Evidence :
            SettleReserved(i, r, e) \/ SettleGated(i, r, e) \/ Prepare(i, r, e)
    BY <1>1 DEF Begin
  <2>2. MayExecute(i, r, e) /\ UNCHANGED <<events, lane>>
        /\ exec'.identity = i /\ exec'.role = r
    BY <2>1, BeginTyped
  <2>3. i \in P.all /\ Legal(Event(r, Failed), events[i]) /\ Admissible(i)
    BY <2>2 DEF MayExecute
  <2>4. Admissible(i)' /\ P' = P
    BY <2>2, <2>3, SameStatus, SameOutcome
  <2>5. Legal(Event(r, Failed), events[i])'
    BY <2>2, <2>3
  <2>6. Admissible(exec.identity)'
    BY <2>2, <2>4 DEF Admissible
  <2> QED BY <2>2, <2>3, <2>4, <2>5, <2>6
<1>2. CASE BindEnvironment \/ BindRole \/ ReserveRole \/ CheckModels \/ Chat \/ StoreCase
  <2>1. /\ exec.step # "off" /\ UNCHANGED <<events, lane>>
        /\ exec'.identity = exec.identity /\ exec'.role = exec.role
    BY <1>2, GoesOn
  <2>2. P' = P /\ Admissible(exec.identity)'
    BY <2>1, SameStatus, SameOutcome DEF Admissible
  <2> QED BY <2>1, <2>2
<1>3. CASE CommitEvent \/ CommitRaises \/ Die
  BY <1>3, IdleOff DEF CommitEvent, CommitRaises, Die
<1>4. CASE UNCHANGED vars
  <2>1. UNCHANGED <<events, lane, exec>>
    BY <1>4 DEF vars
  <2>2. P' = P /\ (exec.step # "off" => Admissible(exec.identity)')
    BY <2>1, SameStatus, SameOutcome DEF Admissible
  <2> QED BY <2>1, <2>2
<1> QED BY <1>1, <1>2, <1>3, <1>4 DEF Next, Step

LEMMA NextNoGo ==
    ASSUME TypeOK, Open, [Next]_vars
    PROVE  Status = "NO_GO" => UNCHANGED <<events, posts, reserved>>
<1>1. exec.step # "off" => Status # "NO_GO"
  BY DEF Open, Admissible, Status
<1>2. CASE Begin
  BY <1>2, BeginTyped DEF Begin
<1>3. CASE Step
  <2>1. exec.step # "off"
    BY <1>3 DEF Step, BindEnvironment, BindRole, ReserveRole, CheckModels, Chat, StoreCase,
                CommitEvent, CommitRaises
  <2> QED BY <1>1, <2>1
<1>4. CASE Die
  BY <1>4 DEF Die, KeepFiles
<1>5. CASE UNCHANGED vars
  BY <1>5 DEF vars
<1> QED BY <1>2, <1>3, <1>4, <1>5 DEF Next

-----------------------------------------------------------------------------
(* The ledger.                                                             *)

LEMMA CommitDoes ==
    ASSUME TypeOK, Answered, CommitEvent
    PROVE  /\ exec.step = "commit"
           /\ exec.identity \in Identities /\ exec.role \in RolesOf[lane] /\ exec.role \in Roles
           /\ exec.answer \in Results
           /\ Commits(exec.identity, exec.role, exec.answer)
           /\ \A j \in Identities :
                events'[j] = IF j = exec.identity
                             THEN events[j] \cup {Event(exec.role, exec.answer)} ELSE events[j]
           /\ exec' = Idle
           /\ UNCHANGED <<lane, deaths, environment, bindings, reserved, cases, posts>>
<1>1. exec.step = "commit" /\ exec.step # "off"
  BY DEF CommitEvent
<1>2. /\ exec.identity \in Identities /\ exec.role \in RolesOf[lane] /\ exec.role \in Roles
      /\ exec.answer \in Results
  BY <1>1, RunningTyped, LaneRoles DEF Executions, Answered
<1>3. events' = [events EXCEPT ![exec.identity] = @ \cup {Event(exec.role, exec.answer)}]
  BY DEF CommitEvent
<1>4. Commits(exec.identity, exec.role, exec.answer)
  BY DEF CommitEvent
<1>5. exec' = Idle /\ UNCHANGED <<lane, deaths, environment, bindings, reserved, cases, posts>>
  BY DEF CommitEvent, Keep
<1> QED BY <1>1, <1>2, <1>3, <1>4, <1>5 DEF TypeOK

\* Only a commit changes the ledger.
LEMMA OnlyCommits ==
    ASSUME TypeOK, [Next]_vars, ~CommitEvent
    PROVE  UNCHANGED <<lane, events>>
<1>1. CASE Begin
  BY <1>1, BeginTyped DEF Begin
<1>2. CASE BindEnvironment \/ BindRole \/ ReserveRole \/ CheckModels \/ Chat \/ StoreCase
  BY <1>2, GoesOn
<1>3. CASE CommitRaises \/ Die
  BY <1>3 DEF CommitRaises, Die, Keep, KeepFiles
<1>4. CASE UNCHANGED vars
  BY <1>4 DEF vars
<1> QED BY <1>1, <1>2, <1>3, <1>4 DEF Next, Step

LEMMA InitReadable == Init => LedgerReadable
  BY DEF Init, LedgerReadable, Valid

LEMMA NextReadable ==
    TypeOK /\ Answered /\ LedgerReadable /\ [Next]_vars => LedgerReadable'
<1> SUFFICES ASSUME TypeOK, Answered, LedgerReadable, [Next]_vars PROVE LedgerReadable'
  OBVIOUS
<1>1. CASE CommitEvent
  <2>1. \A j \in Identities : Valid(events'[j])
    BY <1>1, CommitDoes DEF Commits, LedgerReadable
  <2> QED BY <2>1 DEF LedgerReadable
<1>2. CASE ~CommitEvent
  BY <1>2, OnlyCommits DEF LedgerReadable
<1> QED BY <1>1, <1>2

-----------------------------------------------------------------------------
(* Answers and their evidence.                                             *)

\* A role in progress has bound its environment as far as it got.
BoundSoFar ==
    /\ exec.step \in {"binding", "reserve", "models", "chat", "store"} =>
         environment = exec.evidence.grant
    /\ exec.step \in {"reserve", "models", "chat", "store"} =>
         bindings[BindingFile(exec.role)] = exec.evidence

\* A reservation holds what its role and its environment are bound to.
ReservedBound ==
    \A i \in Identities, r \in Roles : reserved[i][r] # None =>
        /\ reserved[i][r] = bindings[BindingFile(r)]
        /\ reserved[i][r].grant = environment

\* An answer in hand was asked for, once; an author's case is stored first.
InHand ==
    /\ exec.step = "store" \/ (exec.step = "commit" /\ exec.answer # Failed) =>
         /\ posts[exec.identity][exec.role] = 1
         /\ reserved[exec.identity][exec.role] # None
    /\ exec.step = "commit" /\ exec.answer # Failed /\ exec.role = "author" =>
         exec.identity \in cases

Committed ==
    \A i \in Identities : \A e \in events[i] : e.answer # Failed =>
        /\ posts[i][e.role] = 1
        /\ reserved[i][e.role] # None
        /\ i \in cases

Evidenced == BoundSoFar /\ ReservedBound /\ InHand /\ Committed

LEMMA InitEvidenced == Init => Evidenced
  BY IdleOff DEF Init, Evidenced, BoundSoFar, ReservedBound, InHand, Committed

LEMMA EvidencedMeans == TypeOK /\ Evidenced => AnswersEvidenced
<1> SUFFICES ASSUME TypeOK, Evidenced,
                    NEW i \in Identities, NEW e \in events[i], e.answer # Failed
             PROVE  /\ posts[i][e.role] = 1
                    /\ reserved[i][e.role] # None
                    /\ reserved[i][e.role].grant = environment
                    /\ reserved[i][e.role] = bindings[BindingFile(e.role)]
                    /\ i \in cases
  BY DEF AnswersEvidenced
<1>1. e.role \in Roles
  BY LaneRoles DEF TypeOK, Records
<1> QED BY <1>1 DEF Evidenced, Committed, ReservedBound

LEMMA NextEvidenced ==
    TypeOK /\ Answered /\ Open /\ Fresh /\ Evidenced /\ [Next]_vars => Evidenced'
<1> SUFFICES ASSUME TypeOK, Answered, Open, Fresh, Evidenced, [Next]_vars PROVE Evidenced'
  OBVIOUS
<1> USE DEF Evidenced
<1>0. \A e \in Evidence : e # None /\ e.grant # None
  BY RoleAssumption
<1>1. CASE Begin
  <2>1. PICK i \in Identities, r \in Roles, e \in Evidence :
            SettleReserved(i, r, e) \/ SettleGated(i, r, e) \/ Prepare(i, r, e)
    BY <1>1 DEF Begin
  <2>2. /\ UNCHANGED <<events, environment, bindings, reserved, cases, posts>>
        /\ exec'.step = "environment" \/ (exec'.step = "commit" /\ exec'.answer = Failed)
    BY <2>1, BeginTyped
  <2>3. ReservedBound' /\ Committed'
    BY <2>2 DEF ReservedBound, Committed
  <2> QED BY <2>2, <2>3 DEF BoundSoFar, InHand
<1>2. CASE BindEnvironment
  <2>1. /\ exec.step = "environment" /\ Goto("binding") /\ "binding" \in Steps
        /\ environment \in {None, exec.evidence.grant} /\ environment' = exec.evidence.grant
        /\ UNCHANGED <<events, bindings, reserved, cases, posts>>
    BY <1>2 DEF BindEnvironment, Steps
  <2>2. \A i \in Identities, r \in Roles : reserved[i][r] \in Evidence \cup {None}
    BY DEF TypeOK
  <2>3. ReservedBound'
    BY <1>0, <2>1, <2>2 DEF ReservedBound
  <2>4. Committed'
    BY <2>1 DEF Committed
  <2>5. exec'.step = "binding" /\ exec'.evidence = exec.evidence
    BY <2>1, GotoTyped
  <2> QED BY <2>1, <2>3, <2>4, <2>5 DEF BoundSoFar, InHand
<1>3. CASE BindRole
  <2>1. /\ exec.step = "binding" /\ Goto("reserve") /\ "reserve" \in Steps
        /\ bindings[BindingFile(exec.role)] \in {None, exec.evidence}
        /\ bindings' = [bindings EXCEPT ![BindingFile(exec.role)] = exec.evidence]
        /\ UNCHANGED <<events, environment, reserved, cases, posts>>
    BY <1>3 DEF BindRole, Steps
  <2>2. /\ exec'.step = "reserve" /\ exec'.evidence = exec.evidence /\ exec'.role = exec.role
        /\ exec.role \in Roles
    BY <2>1, GotoTyped, RunningTyped, LaneRoles DEF Executions
  <2>3. \A r \in Roles : BindingFile(r) \in BindingFiles
    BY DEF BindingFiles
  <2>4. \A r \in Roles : r # exec.role => BindingFile(r) # BindingFile(exec.role)
    BY DEF BindingFile
  <2>5. bindings \in [BindingFiles -> Evidence \cup {None}]
    BY DEF TypeOK
  <2>6. \A r \in Roles : bindings'[BindingFile(r)] =
                            IF r = exec.role THEN exec.evidence ELSE bindings[BindingFile(r)]
    BY <2>1, <2>2, <2>3, <2>4, <2>5
  <2>7. ReservedBound'
    BY <2>1, <2>6 DEF ReservedBound
  <2>8. Committed'
    BY <2>1 DEF Committed
  <2> QED BY <2>1, <2>2, <2>6, <2>7, <2>8 DEF BoundSoFar, InHand
<1>4. CASE ReserveRole
  <2>1. environment = exec.evidence.grant /\ bindings[BindingFile(exec.role)] = exec.evidence
    BY <1>4, ReserveDoes DEF BoundSoFar
  <2>2. ReservedBound'
    BY <1>4, <2>1, ReserveDoes DEF ReservedBound
  <2>3. Committed'
    <3> SUFFICES ASSUME NEW i \in Identities, NEW e \in events[i], e.answer # Failed
                 PROVE  posts[i][e.role] = 1 /\ reserved'[i][e.role] # None /\ i \in cases
      BY <1>4, ReserveDoes DEF Committed
    <3>1. e.role \in Roles
      BY LaneRoles DEF TypeOK, Records
    <3> QED BY <1>0, <1>4, <3>1, ReserveDoes DEF Committed
  <2> QED BY <1>4, <2>1, <2>2, <2>3, ReserveDoes DEF BoundSoFar, InHand
<1>5. CASE CheckModels
  <2>1. exec.step = "models" /\ "chat" \in Steps /\ Failed \in Results
        /\ UNCHANGED <<events, environment, bindings, reserved, cases, posts>>
    BY <1>5, ResultsTyped DEF CheckModels, KeepFiles, Steps
  <2>2. ReservedBound' /\ Committed'
    BY <2>1 DEF ReservedBound, Committed
  <2>3. CASE Goto("chat")
    BY <2>1, <2>2, <2>3, GotoTyped DEF BoundSoFar, InHand
  <2>4. CASE ToCommit(Failed)
    BY <2>1, <2>2, <2>4, ToCommitTyped DEF BoundSoFar, InHand
  <2> QED BY <1>5, <2>3, <2>4 DEF CheckModels
<1>6. CASE Chat
  <2>1. posts[exec.identity][exec.role] = 0 /\ reserved[exec.identity][exec.role] # None
    BY <1>6, ChatDoes DEF Fresh
  <2>2. ReservedBound'
    BY <1>6, ChatDoes DEF ReservedBound
  <2>3. Committed'
    <3> SUFFICES ASSUME NEW i \in Identities, NEW e \in events[i], e.answer # Failed
                 PROVE  posts'[i][e.role] = 1 /\ reserved[i][e.role] # None /\ i \in cases
      BY <1>6, ChatDoes DEF Committed
    <3>1. e.role \in Roles
      BY LaneRoles DEF TypeOK, Records
    <3> QED BY <1>6, <2>1, <3>1, ChatCounts DEF Committed
  <2>4. posts'[exec.identity][exec.role] = 1
    BY <1>6, <2>1, ChatDoes, ChatCounts
  <2> QED BY <1>6, <2>1, <2>2, <2>3, <2>4, ChatDoes DEF BoundSoFar, InHand
<1>7. CASE StoreCase
  <2>1. /\ exec.step = "store" /\ Goto("commit") /\ "commit" \in Steps
        /\ cases' = cases \cup {exec.identity}
        /\ UNCHANGED <<events, environment, bindings, reserved, posts>>
    BY <1>7 DEF StoreCase, Steps
  <2>2. ReservedBound' /\ Committed'
    BY <2>1 DEF ReservedBound, Committed
  <2> QED BY <2>1, <2>2, GotoTyped DEF BoundSoFar, InHand
<1>8. CASE CommitEvent
  <2> DEFINE i == exec.identity
             new == Event(exec.role, exec.answer)
  <2>1. Legal(new, events[i]) /\ i \in Identities
    BY <1>8, CommitDoes DEF Commits
  <2>2. exec.answer # Failed => i \in cases
    <3>1. CASE exec.role = "author"
      BY <1>8, <3>1, CommitDoes DEF InHand
    <3>2. CASE exec.role # "author"
      <4>1. "author" \in RolesIn(events[i]) /\ ~AnyFailed(events[i])
        BY <2>1, <3>2 DEF Legal, Event, Annotated
      <4>2. PICK e \in events[i] : e.role = "author" /\ e.answer # Failed
        BY <4>1 DEF RolesIn, AnyFailed
      <4> QED BY <2>1, <4>2 DEF Committed
    <3> QED BY <3>1, <3>2
  <2>3. Committed'
    <3> SUFFICES ASSUME NEW j \in Identities, NEW e \in events'[j], e.answer # Failed
                 PROVE  posts[j][e.role] = 1 /\ reserved[j][e.role] # None /\ j \in cases
      BY <1>8, CommitDoes DEF Committed
    <3>1. CASE e \in events[j]
      BY <3>1 DEF Committed
    <3>2. CASE e \notin events[j]
      <4>1. j = i /\ e = new
        BY <1>8, <3>2, CommitDoes
      <4> QED BY <1>8, <2>2, <4>1, CommitDoes DEF Event, InHand
    <3> QED BY <3>1, <3>2
  <2>4. ReservedBound'
    BY <1>8, CommitDoes DEF ReservedBound
  <2> QED BY <1>8, <2>3, <2>4, CommitDoes, IdleOff DEF BoundSoFar, InHand
<1>9. CASE CommitRaises \/ Die
  <2>1. exec' = Idle /\ UNCHANGED <<events, environment, bindings, reserved, cases, posts>>
    BY <1>9 DEF CommitRaises, Die, KeepFiles
  <2> QED BY <2>1, IdleOff DEF BoundSoFar, ReservedBound, InHand, Committed
<1>10. CASE UNCHANGED vars
  BY <1>10 DEF vars, BoundSoFar, ReservedBound, InHand, Committed
<1> QED BY <1>1, <1>2, <1>3, <1>4, <1>5, <1>6, <1>7, <1>8, <1>9, <1>10 DEF Next, Step

-----------------------------------------------------------------------------
(* Disagreement.                                                           *)

\* A replayable history has one answer per role, and keeps it when an event of
\* another role is added.
LEMMA LabelStays ==
    ASSUME NEW history, NEW e, NEW r, Valid(history), r \in RolesIn(history), e.role # r
    PROVE  Label(history \cup {e}, r) = Label(history, r)
<1>1. PICK x \in history : x.role = r
  BY DEF RolesIn
<1>2. \A y \in history \cup {e} : y.role = r => y = x
  BY <1>1 DEF Valid
<1>3. AnswerOf(history, r) = x.answer
  BY <1>1, <1>2 DEF AnswerOf
<1>4. AnswerOf(history \cup {e}, r) = x.answer
  BY <1>1, <1>2 DEF AnswerOf
<1> QED BY <1>3, <1>4 DEF Label

Differs(history) ==
    /\ Succeeded(history, "annotator_a") /\ Succeeded(history, "annotator_b")
    /\ Label(history, "annotator_a") # Label(history, "annotator_b")

\* Two annotations that differ are there when an adjudication is legal.
LEMMA LegalDiffers ==
    ASSUME NEW e, NEW before, Legal(e, before), e.role = "adjudicator"
    PROVE  Differs(before)
<1>1. RolesIn(before) = Annotated /\ ~AnyFailed(before)
      /\ Label(before, "annotator_a") # Label(before, "annotator_b")
  BY DEF Legal, Annotated
<1>2. Succeeded(before, "annotator_a") /\ Succeeded(before, "annotator_b")
  BY <1>1 DEF Annotated, RolesIn, AnyFailed, Succeeded
<1> QED BY <1>1, <1>2 DEF Differs

LEMMA DiffersStays ==
    ASSUME NEW e, NEW before, Valid(before), Differs(before), Legal(e, before)
    PROVE  Differs(before \cup {e})
<1>1. "annotator_a" \in RolesIn(before) /\ "annotator_b" \in RolesIn(before)
  BY DEF Differs, Succeeded, RolesIn
<1>2. e.role # "annotator_a" /\ e.role # "annotator_b"
  BY <1>1 DEF Legal
<1>3. /\ Label(before \cup {e}, "annotator_a") = Label(before, "annotator_a")
      /\ Label(before \cup {e}, "annotator_b") = Label(before, "annotator_b")
  BY <1>1, <1>2, LabelStays
<1>4. Succeeded(before \cup {e}, "annotator_a") /\ Succeeded(before \cup {e}, "annotator_b")
  BY DEF Differs, Succeeded
<1> QED BY <1>3, <1>4 DEF Differs

LEMMA InitDisagreement == Init => AdjudicatesDisagreement
<1>1. "adjudicator" \in Roles
  BY DEF Roles, RolesOf
<1> QED BY <1>1 DEF Init, AdjudicatesDisagreement

\* Only a chat asks a model.
LEMMA OnlyChats ==
    ASSUME TypeOK, [Next]_vars, ~Chat
    PROVE  UNCHANGED posts
<1>1. CASE Begin
  BY <1>1, BeginTyped DEF Begin
<1>2. CASE Step
  BY <1>2 DEF Step, BindEnvironment, BindRole, ReserveRole, CheckModels, StoreCase,
              CommitEvent, CommitRaises, KeepFiles
<1>3. CASE Die
  BY <1>3 DEF Die
<1>4. CASE UNCHANGED vars
  BY <1>4 DEF vars
<1> QED BY <1>1, <1>2, <1>3, <1>4 DEF Next

LEMMA NextDisagreement ==
    TypeOK /\ Answered /\ Open /\ LedgerReadable /\ AdjudicatesDisagreement /\ [Next]_vars
        => AdjudicatesDisagreement'
<1> SUFFICES ASSUME TypeOK, Answered, Open, LedgerReadable, AdjudicatesDisagreement, [Next]_vars,
                    NEW i \in Identities, posts'[i]["adjudicator"] > 0
             PROVE  Differs(events'[i])
  BY DEF AdjudicatesDisagreement, Differs
<1>0. "adjudicator" \in Roles
  BY DEF Roles, RolesOf
<1>1. CASE Chat
  <2>1. UNCHANGED events /\ exec.step # "off"
    BY <1>1, ChatDoes
  <2>2. CASE i = exec.identity /\ exec.role = "adjudicator"
    <3>1. Legal(Event(exec.role, Failed), events[i])
      BY <2>1, <2>2 DEF Open
    <3>2. Event(exec.role, Failed).role = "adjudicator"
      BY <2>2 DEF Event
    <3> QED BY <2>1, <3>1, <3>2, LegalDiffers
  <2>3. CASE ~(i = exec.identity /\ exec.role = "adjudicator")
    <3>1. posts'[i]["adjudicator"] = posts[i]["adjudicator"]
      BY <1>0, <1>1, <2>3, ChatCounts
    <3> QED BY <2>1, <3>1 DEF AdjudicatesDisagreement, Differs
  <2> QED BY <2>2, <2>3
<1>2. CASE ~Chat
  <2>1. Differs(events[i])
    BY <1>2, OnlyChats DEF AdjudicatesDisagreement, Differs
  <2>2. CASE CommitEvent
    <3>1. CASE i = exec.identity
      <4>1. events'[i] = events[i] \cup {Event(exec.role, exec.answer)}
            /\ Legal(Event(exec.role, exec.answer), events[i])
        BY <2>2, <3>1, CommitDoes DEF Commits
      <4>2. Valid(events[i])
        BY DEF LedgerReadable
      <4> QED BY <2>1, <4>1, <4>2, DiffersStays
    <3>2. CASE i # exec.identity
      BY <2>1, <2>2, <3>2, CommitDoes
    <3> QED BY <3>1, <3>2
  <2>3. CASE ~CommitEvent
    BY <2>1, <2>3, OnlyCommits
  <2> QED BY <2>2, <2>3
<1> QED BY <1>1, <1>2

-----------------------------------------------------------------------------
(* Pilots.                                                                 *)

\* An identity that is resolved takes no event any more.
LEMMA ResolvedIsClosed ==
    ASSUME NEW e, NEW history, Legal(e, history)
    PROVE  ~IsResolved(history)
<1> SUFFICES ASSUME IsResolved(history) PROVE FALSE
  OBVIOUS
<1>1. CASE AnyFailed(history)
  BY <1>1 DEF Legal
<1>2. history = {} => RolesIn(history) = {}
  BY DEF RolesIn
<1>3. CASE "reviewer" \in RolesIn(history)
  BY <1>2, <1>3 DEF Legal, Annotated
<1>4. CASE Agreed(history)
  <2>1. "annotator_a" \in RolesIn(history) /\ "annotator_b" \in RolesIn(history)
        /\ Label(history, "annotator_a") = Label(history, "annotator_b")
    BY <1>4 DEF Agreed, Succeeded, RolesIn
  <2> QED BY <1>2, <2>1 DEF Legal
<1>5. CASE "adjudicator" \in RolesIn(history)
  BY <1>2, <1>5 DEF Legal, Annotated
<1> QED BY <1>1, <1>3, <1>4, <1>5 DEF IsResolved

\* The status of a selection depends on the histories of the selection only.
LEMMA StageLocal ==
    ASSUME NEW o1, NEW o2, NEW selection, NEW floors, NEW direct, NEW adjudicated,
           selection \cap o1.resolved = selection \cap o2.resolved,
           selection \cap o1.accepted = selection \cap o2.accepted,
           selection \cap o1.direct = selection \cap o2.direct,
           selection \cap o1.adjudicated = selection \cap o2.adjudicated
    PROVE  Stage(o1, selection, floors, direct, adjudicated)
               = Stage(o2, selection, floors, direct, adjudicated)
<1>1. selection \ o1.resolved = selection \ o2.resolved
  OBVIOUS
<1> QED BY <1>1 DEF Stage

\* A selection passes only when all of it is resolved.
LEMMA PassResolved ==
    ASSUME NEW o, NEW selection, NEW floors, NEW direct, NEW adjudicated,
           Stage(o, selection, floors, direct, adjudicated) = "PASS"
    PROVE  selection \subseteq o.resolved
  BY DEF Stage

LEMMA StageStays ==
    ASSUME NEW selection, NEW floors, NEW direct, NEW adjudicated,
           lane' = lane, selection \subseteq P.all,
           \A j \in selection : events'[j] = events[j]
    PROVE  Stage(Outcome', selection, floors, direct, adjudicated)
               = Stage(Outcome, selection, floors, direct, adjudicated)
<1>1. P' = P
  BY DEF P
<1>2. /\ Outcome.resolved = {i \in P.all : IsResolved(events[i])}
      /\ Outcome.accepted = {i \in P.all : IsAccepted(events[i])}
      /\ Outcome.direct = {i \in P.all : ~AnyFailed(events[i]) /\ Agreed(events[i])}
      /\ Outcome.adjudicated = {i \in P.all : ~AnyFailed(events[i])
                                               /\ "adjudicator" \in RolesIn(events[i])}
  BY DEF Outcome
<1>3. /\ Outcome'.resolved = {i \in P.all : IsResolved(events'[i])}
      /\ Outcome'.accepted = {i \in P.all : IsAccepted(events'[i])}
      /\ Outcome'.direct = {i \in P.all : ~AnyFailed(events'[i]) /\ Agreed(events'[i])}
      /\ Outcome'.adjudicated = {i \in P.all : ~AnyFailed(events'[i])
                                                /\ "adjudicator" \in RolesIn(events'[i])}
  BY <1>1 DEF Outcome
<1>4. /\ selection \cap Outcome'.resolved = selection \cap Outcome.resolved
      /\ selection \cap Outcome'.accepted = selection \cap Outcome.accepted
      /\ selection \cap Outcome'.direct = selection \cap Outcome.direct
      /\ selection \cap Outcome'.adjudicated = selection \cap Outcome.adjudicated
  BY <1>2, <1>3
<1> QED BY <1>4, StageLocal

LEMMA PlanNested ==
    ASSUME TypeOK
    PROVE  /\ P.micro \subseteq P.all /\ P.pilot \subseteq P.all
           /\ P.micro \subseteq P.pilot /\ P.all \subseteq Identities
<1>1. \A l \in Lanes : /\ Plan[l].all \subseteq Identities
                       /\ Plan[l].micro \subseteq Plan[l].pilot
                       /\ Plan[l].pilot \subseteq Plan[l].all
  BY RoleAssumption, Zenon
<1> QED BY <1>1 DEF TypeOK, P

\* A selection that passed stays so.
LEMMA PassStays ==
    ASSUME TypeOK, Answered, [Next]_vars,
           NEW selection, NEW floors, NEW direct, NEW adjudicated, selection \subseteq P.all,
           Stage(Outcome, selection, floors, direct, adjudicated) = "PASS"
    PROVE  Stage(Outcome', selection, floors, direct, adjudicated) = "PASS"
<1>1. CASE CommitEvent
  <2>1. /\ lane' = lane
        /\ \A j \in Identities : j # exec.identity => events'[j] = events[j]
        /\ Legal(Event(exec.role, exec.answer), events[exec.identity])
    BY <1>1, CommitDoes DEF Commits
  <2>2. ~IsResolved(events[exec.identity])
    BY <2>1, ResolvedIsClosed
  <2>3. exec.identity \notin Outcome.resolved
    BY <2>2 DEF Outcome
  <2>4. exec.identity \notin selection
    BY <2>3, PassResolved
  <2>5. \A j \in selection : events'[j] = events[j]
    BY <2>1, <2>4, PlanNested
  <2> QED BY <2>1, <2>5, StageStays
<1>2. CASE ~CommitEvent
  <2>1. UNCHANGED <<lane, events>>
    BY <1>2, OnlyCommits
  <2> QED BY <2>1, SameOutcome
<1> QED BY <1>1, <1>2

LEMMA PilotsStay ==
    ASSUME TypeOK, Answered, [Next]_vars
    PROVE  /\ P' = P
           /\ Micro(Outcome) = "PASS" => Micro(Outcome)' = "PASS"
           /\ Pilot(Outcome) = "PASS" => Pilot(Outcome)' = "PASS"
<1>1. lane' = lane
  BY CommitDoes, OnlyCommits
<1>2. P' = P
  BY <1>1 DEF P
<1>3. ASSUME Micro(Outcome) = "PASS" PROVE Micro(Outcome)' = "PASS"
  <2>1. Stage(Outcome', P.micro, P.microFloors, 0, Cardinality(P.micro)) = "PASS"
    BY <1>3, PassStays, PlanNested DEF Micro
  <2> QED BY <1>2, <2>1 DEF Micro
<1>4. ASSUME Pilot(Outcome) = "PASS" PROVE Pilot(Outcome)' = "PASS"
  <2>1. Stage(Outcome', P.pilot, P.pilotFloors, P.pilotDirect, P.pilotAdjudicated) = "PASS"
    BY <1>4, PassStays, PlanNested DEF Pilot
  <2> QED BY <1>2, <2>1 DEF Pilot
<1> QED BY <1>2, <1>3, <1>4

\* What is admissible waits for the pilots it has to wait for.
LEMMA AdmissibleWaits ==
    ASSUME NEW i, Admissible(i)
    PROVE  /\ i \notin P.micro => Micro(Outcome) = "PASS"
           /\ i \notin P.pilot => Pilot(Outcome) = "PASS"
<1>1. Micro(Outcome) \in {"PASS", "NO_GO", "PENDING"}
  BY DEF Micro, Stage
<1>2. Verdict(Outcome) # "NO_GO" => Micro(Outcome) # "NO_GO"
  BY DEF Verdict
<1> QED BY <1>1, <1>2 DEF Admissible

\* Nothing is touched but by the execution that holds the lock.
LEMMA OnlyTouches ==
    ASSUME TypeOK, Answered, [Next]_vars, NEW i \in Identities, ~Touched(i), Touched(i)'
    PROVE  exec.step # "off" /\ i = exec.identity
<1> DEFINE Same == /\ events'[i] = events[i]
                   /\ \A r \in Roles : reserved'[i][r] = reserved[i][r] /\ posts'[i][r] = posts[i][r]
<1>1. ~Same
  BY DEF Touched
<1>2. CASE Begin
  BY <1>1, <1>2, BeginTyped DEF Begin
<1>3. CASE Chat
  BY <1>1, <1>3, ChatDoes, ChatCounts
<1>4. CASE ReserveRole
  BY <1>1, <1>4, ReserveDoes
<1>5. CASE CommitEvent
  BY <1>1, <1>5, CommitDoes
<1>6. CASE BindEnvironment \/ BindRole \/ CheckModels \/ StoreCase \/ CommitRaises \/ Die
  BY <1>1, <1>6 DEF BindEnvironment, BindRole, CheckModels, StoreCase, CommitRaises, Die, KeepFiles
<1>7. CASE UNCHANGED vars
  BY <1>1, <1>7 DEF vars
<1> QED BY <1>2, <1>3, <1>4, <1>5, <1>6, <1>7 DEF Next, Step

LEMMA InitPilots == Init => PilotsComeFirst
<1> SUFFICES ASSUME Init PROVE PilotsComeFirst
  OBVIOUS
<1>1. TypeOK
  BY InitTyped
<1>2. \A i \in Identities : ~Touched(i)
  BY DEF Init, Touched
<1> QED BY <1>1, <1>2, PlanNested DEF PilotsComeFirst

LEMMA NextPilots ==
    TypeOK /\ Answered /\ Open /\ PilotsComeFirst /\ [Next]_vars => PilotsComeFirst'
<1> SUFFICES ASSUME TypeOK, Answered, Open, PilotsComeFirst, [Next]_vars PROVE PilotsComeFirst'
  OBVIOUS
<1>1. P' = P /\ P.all \subseteq Identities
  BY PilotsStay, PlanNested
<1>2. ASSUME NEW i \in P.all, Touched(i)'
      PROVE  /\ i \notin P.micro => Micro(Outcome) = "PASS"
             /\ i \notin P.pilot => Pilot(Outcome) = "PASS"
  <2>1. CASE Touched(i)
    BY <2>1 DEF PilotsComeFirst
  <2>2. CASE ~Touched(i)
    <3>1. exec.step # "off" /\ i = exec.identity
      BY <1>1, <1>2, <2>2, OnlyTouches
    <3>2. Admissible(i)
      BY <3>1 DEF Open
    <3> QED BY <3>2, AdmissibleWaits
  <2> QED BY <2>1, <2>2
<1>3. ASSUME NEW i \in P.all \ P.micro, Touched(i)' PROVE Micro(Outcome)' = "PASS"
  BY <1>2, <1>3, PilotsStay
<1>4. ASSUME NEW i \in P.all \ P.pilot, Touched(i)' PROVE Pilot(Outcome)' = "PASS"
  BY <1>2, <1>4, PilotsStay
<1> QED BY <1>1, <1>3, <1>4, Zenon DEF PilotsComeFirst

-----------------------------------------------------------------------------
(* Verdicts.                                                               *)

\* What the reducers count: sets of identities of the lane.
Counted(o) ==
    /\ o.resolved \subseteq P.all /\ o.accepted \subseteq o.resolved
    /\ o.direct \subseteq o.resolved /\ o.adjudicated \subseteq o.resolved

LEMMA OutcomeCounted == Counted(Outcome)
<1>1. ASSUME NEW history, Agreed(history) PROVE IsResolved(history)
  BY <1>1 DEF IsResolved
<1>2. ASSUME NEW history, IsAccepted(history) PROVE IsResolved(history)
  BY <1>2 DEF IsResolved, IsAccepted
<1>3. ASSUME NEW history, "adjudicator" \in RolesIn(history) PROVE IsResolved(history)
  BY <1>3 DEF IsResolved
<1>4. /\ Outcome.resolved = {i \in P.all : IsResolved(events[i])}
      /\ Outcome.accepted = {i \in P.all : IsAccepted(events[i])}
      /\ Outcome.direct = {i \in P.all : ~AnyFailed(events[i]) /\ Agreed(events[i])}
      /\ Outcome.adjudicated = {i \in P.all : ~AnyFailed(events[i])
                                               /\ "adjudicator" \in RolesIn(events[i])}
  BY DEF Outcome
<1> QED BY <1>1, <1>2, <1>3, <1>4 DEF Counted

LEMMA PlanTyped ==
    ASSUME TypeOK
    PROVE  /\ P \in PlanType /\ IsFiniteSet(P.all)
           /\ \A f \in P.microFloors : f.group \subseteq P.micro
           /\ \A f \in P.pilotFloors : f.group \subseteq P.pilot
           /\ \A f \in P.fullFloors : f.group \subseteq P.all
           /\ \A s \in P.shares :
                /\ s.group \subseteq P.all
                /\ s.percent <= 100
                /\ \E f \in P.fullFloors : f.group = P.all /\ f.minimum >= P.base
<1>1. \A l \in Lanes :
        /\ Plan[l] \in PlanType
        /\ \A f \in Plan[l].microFloors : f.group \subseteq Plan[l].micro
        /\ \A f \in Plan[l].pilotFloors : f.group \subseteq Plan[l].pilot
        /\ \A f \in Plan[l].fullFloors : f.group \subseteq Plan[l].all
        /\ \A s \in Plan[l].shares :
             /\ s.group \subseteq Plan[l].all
             /\ s.percent <= 100
             /\ \E f \in Plan[l].fullFloors :
                   f.group = Plan[l].all /\ f.minimum >= Plan[l].base
  BY RoleAssumption, Zenon
<1>2. lane \in Lanes
  BY DEF TypeOK
<1>3. IsFiniteSet(Identities) /\ P.all \subseteq Identities
  BY RoleAssumption, PlanNested
<1> QED BY <1>1, <1>2, <1>3, FS_Subset DEF P

LEMMA Counts ==
    ASSUME NEW S, IsFiniteSet(S), NEW T \in SUBSET S
    PROVE  /\ IsFiniteSet(T) /\ Cardinality(T) \in Nat /\ Cardinality(S) \in Nat
           /\ Cardinality(T) <= Cardinality(S)
  BY FS_Subset, FS_CardinalityType

\* More accepted rows meet no fewer floors.
LEMMA MeetsMonotone ==
    ASSUME NEW S, IsFiniteSet(S), NEW A, NEW B \in SUBSET S, NEW floors \in SUBSET FloorType,
           \A f \in floors : A \cap f.group \subseteq B, Meets(A, floors)
    PROVE  Meets(B, floors)
<1> SUFFICES ASSUME NEW f \in floors PROVE Cardinality(B \cap f.group) >= f.minimum
  BY DEF Meets
<1>1. Cardinality(A \cap f.group) >= f.minimum /\ f.minimum \in Nat
  BY DEF Meets, FloorType
<1>2. A \cap f.group \subseteq B \cap f.group /\ B \cap f.group \subseteq S
  OBVIOUS
<1>3. IsFiniteSet(B \cap f.group)
  BY <1>2, Counts
<1> QED BY <1>1, <1>2, <1>3, Counts

\* More accepted rows complete no fewer pairs.
LEMMA PairsMonotone ==
    ASSUME TypeOK, NEW A, NEW B, A \subseteq B
    PROVE  PairsIn(A) \in Nat /\ PairsIn(B) \in Nat /\ PairsIn(A) <= PairsIn(B)
<1> DEFINE In(X) == {pair \in P.pairs : pair \subseteq X}
<1>1. P.pairs \subseteq SUBSET Identities
  BY PlanTyped DEF PlanType
<1>2. IsFiniteSet(SUBSET Identities)
  BY RoleAssumption, FS_SUBSET
<1>3. In(A) \subseteq In(B) /\ In(B) \subseteq SUBSET Identities
  BY <1>1
<1>4. IsFiniteSet(In(B))
  BY <1>2, <1>3, Counts
<1>5. PairsIn(A) = Cardinality(In(A)) /\ PairsIn(B) = Cardinality(In(B))
  BY DEF PairsIn
<1> HIDE DEF In
<1> QED BY <1>3, <1>4, <1>5, Counts

\* A selection is given up only when no outcome of its open rows would do.
LEMMA StageGivesUp ==
    ASSUME TypeOK, NEW o, Counted(o), NEW selection \in SUBSET P.all,
           NEW floors \in SUBSET FloorType, \A f \in floors : f.group \subseteq selection,
           NEW direct \in Nat, NEW adjudicated \in Nat,
           Stage(o, selection, floors, direct, adjudicated) = "NO_GO",
           NEW won \in SUBSET (P.all \ o.resolved), NEW agreed \in SUBSET (P.all \ o.resolved),
           Meets(o.accepted \cup won, floors),
           Cardinality((o.direct \cup agreed) \cap selection) >= direct,
           Cardinality(o.adjudicated \cap selection) <= adjudicated
    PROVE  FALSE
<1> DEFINE open == selection \ o.resolved
           sure == selection \cap o.direct
           new == (o.direct \cup agreed) \cap selection
<1>0. IsFiniteSet(P.all)
  BY PlanTyped
<1>1. Meets((selection \cap o.accepted) \cup open, floors)
  <2>1. \A f \in floors : (o.accepted \cup won) \cap f.group
                              \subseteq (selection \cap o.accepted) \cup open
    OBVIOUS
  <2> QED BY <1>0, <2>1, MeetsMonotone
<1>2. Cardinality(sure) + Cardinality(open) >= direct
  <2>1. IsFiniteSet(sure) /\ IsFiniteSet(open) /\ sure \cap open = {} /\ new \subseteq sure \cup open
    BY <1>0, Counts DEF Counted
  <2> HIDE DEF sure, open, new
  <2>2. IsFiniteSet(sure \cup open)
        /\ Cardinality(sure \cup open) = Cardinality(sure) + Cardinality(open) - Cardinality({})
    BY <2>1, FS_Union
  <2>3. Cardinality({}) = 0
    BY FS_EmptySet
  <2>4. Cardinality(new) <= Cardinality(sure \cup open) /\ Cardinality(new) \in Nat
    BY <2>1, <2>2, Counts
  <2>5. Cardinality(sure) \in Nat /\ Cardinality(open) \in Nat
    BY <2>1, FS_CardinalityType
  <2>6. Cardinality(new) >= direct
    BY DEF new
  <2> QED BY <2>2, <2>3, <2>4, <2>5, <2>6
<1>3. ~(Cardinality(sure) + Cardinality(open) < direct)
  <2>1. Cardinality(sure) \in Nat /\ Cardinality(open) \in Nat
    BY <1>0, Counts
  <2> QED BY <1>2, <2>1
<1>4. ~(Cardinality(selection \cap o.adjudicated) > adjudicated)
  <2>1. selection \cap o.adjudicated = o.adjudicated \cap selection
    OBVIOUS
  <2>2. Cardinality(selection \cap o.adjudicated) \in Nat
    BY <1>0, Counts
  <2>3. Cardinality(selection \cap o.adjudicated) <= adjudicated
    BY <2>1
  <2> HIDE DEF sure, open, new
  <2> QED BY <2>2, <2>3
<1> QED BY <1>1, <1>3, <1>4 DEF Stage

\* With nothing open a selection that is not given up has passed.
LEMMA StageDecides ==
    ASSUME TypeOK, NEW o, Counted(o), NEW selection \in SUBSET P.all,
           NEW floors, NEW direct \in Nat, NEW adjudicated \in Nat,
           selection \subseteq o.resolved,
           Stage(o, selection, floors, direct, adjudicated) # "NO_GO"
    PROVE  /\ Stage(o, selection, floors, direct, adjudicated) = "PASS"
           /\ Meets(selection \cap o.accepted, floors)
           /\ Cardinality(selection \cap o.direct) >= direct
           /\ Cardinality(selection \cap o.adjudicated) <= adjudicated
<1> DEFINE good == selection \cap o.accepted
           open == selection \ o.resolved
           agreed == Cardinality(selection \cap o.direct)
           judged == Cardinality(selection \cap o.adjudicated)
<1>1. open = {} /\ good \cup open = good
  OBVIOUS
<1>2. Cardinality(open) = 0
  BY <1>1, FS_EmptySet
<1>3. agreed \in Nat /\ judged \in Nat
  BY PlanTyped, Counts
<1>4. Stage(o, selection, floors, direct, adjudicated)
          = IF open = {} /\ Meets(good, floors) /\ agreed >= direct /\ judged <= adjudicated
            THEN "PASS"
            ELSE IF \/ ~Meets(good \cup open, floors)
                    \/ agreed + Cardinality(open) < direct
                    \/ judged > adjudicated
            THEN "NO_GO" ELSE "PENDING"
  BY DEF Stage
<1> SUFFICES open = {} /\ Meets(good, floors) /\ agreed >= direct /\ judged <= adjudicated
  BY <1>4
<1> HIDE DEF good, open, agreed, judged
<1>5. \/ Meets(good, floors) /\ agreed >= direct /\ judged <= adjudicated
      \/ /\ Meets(good \cup open, floors)
         /\ ~(agreed + Cardinality(open) < direct)
         /\ ~(judged > adjudicated)
  BY <1>4
<1> QED BY <1>1, <1>2, <1>3, <1>5

-----------------------------------------------------------------------------
(* Shares.                                                                 *)

LEMMA Times ==
    ASSUME NEW p \in Nat, NEW a \in Nat, NEW b \in Nat, a <= b
    PROVE  p * a <= p * b
<1>1. b - a \in Nat /\ p * (b - a) \in Nat
  OBVIOUS
<1>2. p * b = p * a + p * (b - a)
  OBVIOUS
<1> QED BY <1>1, <1>2

\* The rows that are won add to the group at most as much as to the lane.
LEMMA ShareArithmetic ==
    ASSUME NEW a \in Nat, NEW n \in Nat, NEW k \in Nat, NEW x \in Nat, NEW total \in Nat,
           NEW p \in Nat, NEW base \in Nat,
           p <= 100, x <= k, n + x <= total, base <= total,
           100 * (a + k) < p * Larger(base, n + k)
    PROVE  100 * (a + x) < p * total
<1>1. CASE base < n + k
  <2>1. 100 * (a + k) < p * (n + k)
    BY <1>1 DEF Larger
  <2>2. p * (n + x) <= p * total
    BY Times
  <2>3. k - x \in Nat /\ (k - x) * p <= (k - x) * 100
    BY Times
  <2>4. (k - x) * p = p * k - p * x /\ (k - x) * 100 = 100 * k - 100 * x
    OBVIOUS
  <2>5. p * (n + k) = p * n + p * k /\ p * (n + x) = p * n + p * x
    OBVIOUS
  <2>6. p * n \in Nat /\ p * k \in Nat /\ p * x \in Nat /\ p * total \in Nat
    OBVIOUS
  <2> QED BY <2>1, <2>2, <2>3, <2>4, <2>5, <2>6
<1>2. CASE ~(base < n + k)
  <2>1. 100 * (a + k) < p * base
    BY <1>2 DEF Larger
  <2>2. p * base <= p * total
    BY Times
  <2>3. p * base \in Nat /\ p * total \in Nat
    OBVIOUS
  <2> QED BY <2>1, <2>2, <2>3
<1> QED BY <1>1, <1>2

\* A share that is given up is missed whatever the open rows come to.
LEMMA ShareGivesUp ==
    ASSUME TypeOK, NEW o, Counted(o), NEW s \in P.shares, ShareLost(s, o),
           NEW won \in SUBSET (P.all \ o.resolved), Meets(o.accepted \cup won, P.fullFloors)
    PROVE  ~(100 * Cardinality((o.accepted \cup won) \cap s.group)
                 >= s.percent * Cardinality(o.accepted \cup won))
<1> DEFINE all == o.accepted \cup won
           old == o.accepted \cap s.group
           new == won \cap s.group
           open == s.group \ o.resolved
           a == Cardinality(old)
           n == Cardinality(o.accepted)
           k == Cardinality(open)
           x == Cardinality(new)
           total == Cardinality(all)
<1>0. /\ IsFiniteSet(P.all) /\ s.group \subseteq P.all /\ s.percent <= 100
      /\ s.percent \in Nat /\ P.base \in Nat /\ P.fullFloors \subseteq FloorType
  BY PlanTyped DEF PlanType
<1>1. /\ IsFiniteSet(old) /\ IsFiniteSet(new) /\ IsFiniteSet(open) /\ IsFiniteSet(won)
      /\ IsFiniteSet(all) /\ IsFiniteSet(o.accepted)
      /\ a \in Nat /\ n \in Nat /\ k \in Nat /\ x \in Nat /\ total \in Nat
      /\ Cardinality(won) \in Nat /\ x <= k /\ x <= Cardinality(won)
  <2>1. /\ old \subseteq P.all /\ new \subseteq open /\ open \subseteq P.all
        /\ won \subseteq P.all /\ all \subseteq P.all /\ o.accepted \subseteq P.all
        /\ new \subseteq won
    BY <1>0 DEF Counted
  <2> HIDE DEF all, old, new, open
  <2> QED BY <1>0, <2>1, Counts
<1>2. n + x <= total
  <2>1. o.accepted \cap won = {}
    BY DEF Counted
  <2>2. total = n + Cardinality(won) - Cardinality({})
    BY <1>1, <2>1, FS_Union
  <2> QED BY <1>1, <2>2, FS_EmptySet
<1>3. P.base <= total
  <2>1. PICK f \in P.fullFloors : f.group = P.all /\ f.minimum >= P.base
    BY PlanTyped
  <2>2. all \cap P.all = all
    BY DEF Counted
  <2>3. Cardinality(all) >= f.minimum /\ f.minimum \in Nat
    BY <1>0, <2>1, <2>2 DEF Meets, FloorType
  <2> QED BY <1>0, <1>1, <2>1, <2>3
<1>4. 100 * (a + k) < s.percent * Larger(P.base, n + k)
  BY DEF ShareLost
<1>5. Cardinality(all \cap s.group) = a + x
  <2>1. all \cap s.group = old \cup new /\ old \cap new = {}
    BY DEF Counted
  <2>2. Cardinality(old \cup new) = a + x - Cardinality({})
    <3> HIDE DEF old, new
    <3> QED BY <1>1, <2>1, FS_Union
  <2>3. Cardinality({}) = 0
    BY FS_EmptySet
  <2>4. Cardinality(all \cap s.group) = Cardinality(old \cup new)
    BY <2>1
  <2>5. a \in Nat /\ x \in Nat
    BY <1>1
  <2> HIDE DEF all, old, new, a, x
  <2> QED BY <2>2, <2>3, <2>4, <2>5
<1>6. 100 * (a + x) < s.percent * total
  <2> HIDE DEF a, n, k, x, total
  <2> QED BY <1>0, <1>1, <1>2, <1>3, <1>4, ShareArithmetic
<1>7. s.percent * total \in Nat /\ 100 * (a + x) \in Nat
  <2> HIDE DEF a, n, k, x, total
  <2> QED BY <1>0, <1>1
<1> HIDE DEF a, x, total
<1> QED BY <1>5, <1>6, <1>7 DEF total

\* With nothing open a share that is not given up is kept.
LEMMA ShareDecides ==
    ASSUME TypeOK, NEW o, Counted(o), P.all \subseteq o.resolved, NEW s \in P.shares, ~ShareLost(s, o)
    PROVE  ShareKept(s, o)
<1> DEFINE a == Cardinality(o.accepted \cap s.group)
           n == Cardinality(o.accepted)
<1>1. IsFiniteSet(P.all) /\ s.group \subseteq P.all /\ s.percent \in Nat /\ P.base \in Nat
  BY PlanTyped DEF PlanType
<1>2. a \in Nat /\ n \in Nat
  BY <1>1, Counts DEF Counted
<1>3. s.group \ o.resolved = {} /\ Cardinality({}) = 0
  BY <1>1, FS_EmptySet
<1>4. ~(100 * (a + 0) < s.percent * Larger(P.base, n + 0))
  BY <1>3 DEF ShareLost
<1> HIDE DEF a, n
<1>5. Larger(P.base, n) \in Nat /\ n <= Larger(P.base, n)
  BY <1>1, <1>2 DEF Larger
<1>6. s.percent * n <= s.percent * Larger(P.base, n)
  BY <1>1, <1>2, <1>5, Times
<1>7. s.percent * n \in Nat /\ s.percent * Larger(P.base, n) \in Nat
  BY <1>1, <1>2, <1>5
<1>8. 100 * a >= s.percent * n
  BY <1>2, <1>4, <1>6, <1>7
<1> QED BY <1>8 DEF ShareKept, a, n

-----------------------------------------------------------------------------
\* A lane that is given up would not qualify whatever its open rows come to.
LEMMA NoGoHopeless ==
    ASSUME TypeOK, NEW o, Counted(o), Verdict(o) = "NO_GO",
           NEW won \in SUBSET (P.all \ o.resolved), NEW agreed \in SUBSET (P.all \ o.resolved)
    PROVE  ~Qualifies(o.accepted \cup won, o.direct \cup agreed, o.adjudicated)
<1> SUFFICES ASSUME Qualifies(o.accepted \cup won, o.direct \cup agreed, o.adjudicated) PROVE FALSE
  OBVIOUS
<1>0. /\ IsFiniteSet(P.all) /\ P.micro \subseteq P.all /\ P.pilot \subseteq P.all
      /\ P.microFloors \subseteq FloorType /\ P.pilotFloors \subseteq FloorType
      /\ P.fullFloors \subseteq FloorType
      /\ P.pilotDirect \in Nat /\ P.fullDirect \in Nat
      /\ P.pilotAdjudicated \in Nat /\ P.fullAdjudicated \in Nat /\ P.pairMinimum \in Nat
  BY PlanTyped, PlanNested DEF PlanType
<1>1. /\ Meets(o.accepted \cup won, P.microFloors)
      /\ Meets(o.accepted \cup won, P.pilotFloors)
      /\ Meets(o.accepted \cup won, P.fullFloors)
  BY DEF Qualifies, Meets
<1>2. Micro(o) # "NO_GO"
  <2>1. Cardinality(P.micro) \in Nat
        /\ Cardinality((o.direct \cup agreed) \cap P.micro) \in Nat
        /\ Cardinality(o.adjudicated \cap P.micro) <= Cardinality(P.micro)
    <3>1. IsFiniteSet(P.micro)
      BY <1>0, Counts
    <3> QED BY <3>1, Counts
  <2>2. Cardinality((o.direct \cup agreed) \cap P.micro) >= 0
    BY <2>1
  <2> QED BY <1>0, <1>1, <2>1, <2>2, PlanTyped, StageGivesUp DEF Micro
<1>3. Pilot(o) # "NO_GO"
  <2>1. /\ Cardinality((o.direct \cup agreed) \cap P.pilot) >= P.pilotDirect
        /\ Cardinality(o.adjudicated \cap P.pilot) <= P.pilotAdjudicated
    BY DEF Qualifies
  <2> QED BY <1>0, <1>1, <2>1, PlanTyped, StageGivesUp DEF Pilot
<1>4. Full(o) # "NO_GO"
  <2>1. (o.direct \cup agreed) \cap P.all = o.direct \cup agreed
        /\ o.adjudicated \cap P.all = o.adjudicated
    BY DEF Counted
  <2>2. /\ Cardinality((o.direct \cup agreed) \cap P.all) >= P.fullDirect
        /\ Cardinality(o.adjudicated \cap P.all) <= P.fullAdjudicated
    BY <2>1 DEF Qualifies
  <2> QED BY <1>0, <1>1, <2>2, PlanTyped, StageGivesUp DEF Full
<1>5. ~(PairsIn(o.accepted \cup (P.all \ o.resolved)) < P.pairMinimum)
  <2>1. PairsIn(o.accepted \cup won) >= P.pairMinimum
    BY DEF Qualifies
  <2>2. o.accepted \cup won \subseteq o.accepted \cup (P.all \ o.resolved)
    OBVIOUS
  <2> QED BY <1>0, <2>1, <2>2, PairsMonotone
<1>6. \A s \in P.shares : ~ShareLost(s, o)
  BY <1>1, ShareGivesUp DEF Qualifies
<1> QED BY <1>2, <1>3, <1>4, <1>5, <1>6 DEF Verdict

\* A lane none of whose rows is open is given up or qualifies.
LEMMA ClosedDecided ==
    ASSUME TypeOK, NEW o, Counted(o), P.all \subseteq o.resolved, Verdict(o) # "NO_GO"
    PROVE  Verdict(o) = "READY" /\ Qualifies(o.accepted, o.direct, o.adjudicated)
<1>0. /\ IsFiniteSet(P.all) /\ P.micro \subseteq P.all /\ P.pilot \subseteq P.all
      /\ P.microFloors \subseteq FloorType /\ P.pilotFloors \subseteq FloorType
      /\ P.fullFloors \subseteq FloorType
      /\ P.pilotDirect \in Nat /\ P.fullDirect \in Nat
      /\ P.pilotAdjudicated \in Nat /\ P.fullAdjudicated \in Nat /\ P.pairMinimum \in Nat
      /\ Cardinality(P.micro) \in Nat
  BY PlanTyped, PlanNested, Counts DEF PlanType
<1>1. /\ Micro(o) # "NO_GO" /\ Pilot(o) # "NO_GO" /\ Full(o) # "NO_GO"
      /\ ~(PairsIn(o.accepted \cup (P.all \ o.resolved)) < P.pairMinimum)
      /\ \A s \in P.shares : ~ShareLost(s, o)
  BY DEF Verdict
<1>2. Meets(P.micro \cap o.accepted, P.microFloors)
  <2>1. Stage(o, P.micro, P.microFloors, 0, Cardinality(P.micro)) # "NO_GO"
    BY <1>1 DEF Micro
  <2>2. P.micro \in SUBSET P.all /\ P.micro \subseteq o.resolved
    BY <1>0
  <2> QED BY <1>0, <2>1, <2>2, StageDecides
<1>3. /\ Meets(P.pilot \cap o.accepted, P.pilotFloors)
      /\ Cardinality(P.pilot \cap o.direct) >= P.pilotDirect
      /\ Cardinality(P.pilot \cap o.adjudicated) <= P.pilotAdjudicated
  <2>1. Stage(o, P.pilot, P.pilotFloors, P.pilotDirect, P.pilotAdjudicated) # "NO_GO"
    BY <1>1 DEF Pilot
  <2>2. P.pilot \in SUBSET P.all /\ P.pilot \subseteq o.resolved
    BY <1>0
  <2> QED BY <1>0, <2>1, <2>2, StageDecides
<1>4. /\ Full(o) = "PASS"
      /\ Meets(P.all \cap o.accepted, P.fullFloors)
      /\ Cardinality(P.all \cap o.direct) >= P.fullDirect
      /\ Cardinality(P.all \cap o.adjudicated) <= P.fullAdjudicated
  BY <1>0, <1>1, StageDecides DEF Full
<1>5. /\ P.all \cap o.accepted = o.accepted /\ P.all \cap o.direct = o.direct
      /\ P.all \cap o.adjudicated = o.adjudicated
      /\ P.pilot \cap o.direct = o.direct \cap P.pilot
      /\ P.pilot \cap o.adjudicated = o.adjudicated \cap P.pilot
      /\ o.accepted \in SUBSET P.all
  BY DEF Counted
<1>6. /\ Meets(o.accepted, P.microFloors) /\ Meets(o.accepted, P.pilotFloors)
      /\ Meets(o.accepted, P.fullFloors)
  <2>1. Meets(o.accepted, P.microFloors)
    BY <1>0, <1>2, <1>5, MeetsMonotone
  <2>2. Meets(o.accepted, P.pilotFloors)
    BY <1>0, <1>3, <1>5, MeetsMonotone
  <2> QED BY <1>4, <1>5, <2>1, <2>2
<1>7. Meets(o.accepted, P.microFloors \cup P.pilotFloors \cup P.fullFloors)
  BY <1>6 DEF Meets
<1>8. PairsIn(o.accepted) >= P.pairMinimum
  <2>1. o.accepted \cup (P.all \ o.resolved) = o.accepted
    OBVIOUS
  <2>2. PairsIn(o.accepted) \in Nat
    BY PairsMonotone
  <2>3. ~(PairsIn(o.accepted) < P.pairMinimum)
    BY <1>1, <2>1
  <2> QED BY <1>0, <2>2, <2>3
<1>9. \A s \in P.shares : ShareKept(s, o)
  BY <1>1, ShareDecides
<1> QED BY <1>1, <1>3, <1>4, <1>5, <1>7, <1>8, <1>9 DEF Verdict, Qualifies, ShareKept

LEMMA ReadyClosed ==
    ASSUME NEW o, Counted(o), Verdict(o) = "READY"
    PROVE  P.all \subseteq o.resolved
<1>1. Full(o) = "PASS"
  BY DEF Verdict
<1> QED BY <1>1, PassResolved DEF Full, Counted

LEMMA Sound == TypeOK => VerdictSound
<1> SUFFICES ASSUME TypeOK PROVE VerdictSound
  OBVIOUS
<1>1. Counted(Outcome)
  BY OutcomeCounted
<1>2. ASSUME Verdict(Outcome) = "READY"
      PROVE  /\ P.all \ Outcome.resolved = {}
             /\ Qualifies(Outcome.accepted, Outcome.direct, Outcome.adjudicated)
  <2>1. P.all \subseteq Outcome.resolved
    BY <1>1, <1>2, ReadyClosed
  <2> QED BY <1>1, <1>2, <2>1, ClosedDecided
<1>3. ASSUME P.all \ Outcome.resolved = {} PROVE Verdict(Outcome) # "PENDING"
  <2>1. P.all \subseteq Outcome.resolved
    BY <1>1, <1>3 DEF Counted
  <2> QED BY <1>1, <2>1, ClosedDecided
<1> QED BY <1>1, <1>2, <1>3, NoGoHopeless DEF VerdictSound

-----------------------------------------------------------------------------
(* Theorems.                                                               *)

IInv ==
    /\ TypeOK /\ Answered /\ Fresh /\ Open /\ Evidenced
    /\ LedgerReadable /\ AdjudicatesDisagreement /\ PilotsComeFirst

THEOREM Inductive == Spec => []IInv
<1>1. Init => IInv
  BY InitTyped, InitFresh, InitOpen, InitEvidenced, InitReadable, InitDisagreement, InitPilots
     DEF IInv
<1>2. IInv /\ [Next]_vars => IInv'
  BY NextTyped, NextFresh, NextOpen, NextEvidenced, NextReadable, NextDisagreement, NextPilots
     DEF IInv
<1> QED BY <1>1, <1>2, PTL DEF Spec

\* The state of the executor has its type, whatever the plan and the answers.
THEOREM TypeCorrect == Spec => []TypeOK
<1>1. IInv => TypeOK
  BY DEF IInv
<1> QED BY <1>1, Inductive, PTL

\* However executions die and are started again, no model is asked twice in
\* one role about one identity.
THEOREM NoSecondRequest == Spec => []OneRequest
<1>1. IInv => OneRequest
  BY DEF IInv, Fresh, OneRequest
<1> QED BY <1>1, Inductive, PTL

\* What the executor commits, every later reader can replay.
THEOREM Readable == Spec => []LedgerReadable
<1>1. IInv => LedgerReadable
  BY DEF IInv
<1> QED BY <1>1, Inductive, PTL

\* Nothing outside a pilot is reserved, asked or committed before it passed,
\* and a pilot that passed is never undone by what comes later.
THEOREM PilotsFirst == Spec => []PilotsComeFirst
<1>1. IInv => PilotsComeFirst
  BY DEF IInv
<1> QED BY <1>1, Inductive, PTL

\* An adjudicator is asked only where two committed annotations differ.
THEOREM OnlyDisagreements == Spec => []AdjudicatesDisagreement
<1>1. IInv => AdjudicatesDisagreement
  BY DEF IInv
<1> QED BY <1>1, Inductive, PTL

\* Every answer in the ledger was asked for once under a reservation of the
\* bound environment, and its case is stored.
THEOREM AnswersHaveEvidence == Spec => []AnswersEvidenced
<1>1. IInv => AnswersEvidenced
  BY EvidencedMeans DEF IInv
<1> QED BY <1>1, Inductive, PTL

\* A lane that is NO_GO takes no reservation, request or event any more.
THEOREM NoGoStays == Spec => NoGoIsFinal
<1>1. IInv /\ [Next]_vars => [Status = "NO_GO" => UNCHANGED <<events, posts, reserved>>]_vars
  BY NextNoGo DEF IInv
<1> QED BY <1>1, Inductive, PTL DEF Spec, NoGoIsFinal

\* A lane is given up only when no outcome of its open identities would meet
\* the floors, limits, pairs and shares, is READY only when they are met, and
\* is one or the other once none is open.
THEOREM VerdictsRight == Spec => []VerdictSound
<1>1. IInv => VerdictSound
  BY Sound DEF IInv
<1> QED BY <1>1, Inductive, PTL
=============================================================================
