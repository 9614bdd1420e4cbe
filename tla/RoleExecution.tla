--------------------------- MODULE RoleExecution ---------------------------
(***************************************************************************)
(* The role executor of the v02 corpus and its offline ledger.  A driver   *)
(* executes one role for one identity of the plan at a time, under the     *)
(* lock of the artifact root: a reservation is put on disk, the model is   *)
(* asked once, and what it answered, or that it failed, is committed as    *)
(* one immutable event.  Reducers over all events say whether the micro    *)
(* pilot, the pilot and the lane passed, and so what may still be asked.   *)
(*                                                                         *)
(* An execution that finds the lock taken, an event already committed or   *)
(* a guard violated returns or raises and leaves no trace: the actions are *)
(* the executions that go on.                                              *)
(***************************************************************************)
EXTENDS Integers, FiniteSets

CONSTANTS
    Identities,
    Lanes,          \* the lanes to be considered: "training", "sealed"
    Plan,           \* lane -> its selections and acceptance floors, see PlanType
    Answers,        \* lane -> role -> what a model may answer
    Evidence,       \* grant and runtime evidence an execution may present
    MaxDeaths,
    Failed, None

RolesOf == [training |-> {"author", "reviewer"},
            sealed |-> {"author", "annotator_a", "annotator_b", "adjudicator"}]
Roles == RolesOf["training"] \cup RolesOf["sealed"]

\* All gates passed; some failed, but no local prerequisite; or a local one did.
GateOutcomes == {"all", "some", "local"}
FloorType == [group : SUBSET Identities, minimum : Nat]
PlanType ==
    [all : SUBSET Identities, micro : SUBSET Identities, pilot : SUBSET Identities,
     microFloors : SUBSET FloorType, pilotFloors : SUBSET FloorType,
     fullFloors : SUBSET FloorType,
     pilotDirect : Nat, fullDirect : Nat,
     pilotAdjudicated : Nat, fullAdjudicated : Nat,
     pairs : SUBSET SUBSET Identities, pairMinimum : Nat,
     shares : SUBSET [group : SUBSET Identities, percent : Nat], base : Nat]

ASSUME RoleAssumption ==
    /\ IsFiniteSet(Identities)
    /\ Lanes \subseteq {"training", "sealed"}
    /\ \A l \in Lanes :
         /\ \A r \in RolesOf[l] : \A a \in Answers[l][r] :
              a.value \in Nat /\ a.gates \in GateOutcomes
         /\ Plan[l] \in PlanType
         /\ Plan[l].all \subseteq Identities
         /\ Plan[l].micro \subseteq Plan[l].pilot
         /\ Plan[l].pilot \subseteq Plan[l].all
         \* A floor counts rows of its selection, a share rows of the lane,
         \* and the base of the shares is a floor of the whole lane.
         /\ \A f \in Plan[l].microFloors : f.group \subseteq Plan[l].micro
         /\ \A f \in Plan[l].pilotFloors : f.group \subseteq Plan[l].pilot
         /\ \A f \in Plan[l].fullFloors : f.group \subseteq Plan[l].all
         /\ \A s \in Plan[l].shares :
              /\ s.group \subseteq Plan[l].all
              /\ s.percent <= 100
              /\ \E f \in Plan[l].fullFloors :
                    f.group = Plan[l].all /\ f.minimum >= Plan[l].base
    /\ \A l \in Lanes : \A r \in RolesOf[l] : Failed \notin Answers[l][r]
    /\ \A e \in Evidence : e # None /\ e.grant # None
    /\ MaxDeaths \in Nat

VARIABLES
    lane,
    events,         \* identity -> its committed events
    environment,    \* the grant in the environment binding, or None
    bindings,       \* binding file of a role -> evidence, or None
    reserved,       \* identity -> role -> evidence in its reservation, or None
    cases,          \* identities whose private case is stored
    posts,          \* identity -> role -> number of requests sent to the model
    exec,           \* the execution that holds the lock
    deaths

vars == <<lane, events, environment, bindings, reserved, cases, posts, exec, deaths>>

Idle == [step |-> "off", identity |-> None, role |-> None, evidence |-> None, answer |-> None]

\* The executor names the binding file of a role by a digest of the role.
BindingFile(r) == <<"digest", r>>
BindingFiles == {BindingFile(r) : r \in Roles}

Init ==
    /\ lane \in Lanes
    /\ events = [i \in Identities |-> {}]
    /\ environment = None
    /\ bindings = [f \in BindingFiles |-> None]
    /\ reserved = [i \in Identities |-> [r \in Roles |-> None]]
    /\ cases = {}
    /\ posts = [i \in Identities |-> [r \in Roles |-> 0]]
    /\ exec = Idle
    /\ deaths = 0

-----------------------------------------------------------------------------
(* Histories.                                                              *)

\* The envelopes the ledger of a lane accepts.
Records(l) ==
    [role : RolesOf[l], answer : {Failed} \cup UNION {Answers[l][r] : r \in RolesOf[l]}]

RolesIn(history) == {e.role : e \in history}
AnswerOf(history, r) == (CHOOSE e \in history : e.role = r).answer
Succeeded(history, r) == \E e \in history : e.role = r /\ e.answer # Failed
AnyFailed(history) == \E e \in history : e.answer = Failed

Annotated == {"author", "annotator_a", "annotator_b"}
Label(history, r) == AnswerOf(history, r).value

\* What may be committed after which events of the same identity: nothing
\* after a failure, and an adjudication only where the annotators differ.
Legal(e, before) ==
    /\ ~AnyFailed(before)
    /\ e.role \notin RolesIn(before)
    /\ \/ e.role = "author" /\ before = {}
       \/ e.role = "reviewer" /\ RolesIn(before) = {"author"}
       \/ /\ e.role \in {"annotator_a", "annotator_b"}
          /\ "author" \in RolesIn(before)
          /\ RolesIn(before) \subseteq Annotated
       \/ /\ e.role = "adjudicator"
          /\ RolesIn(before) = Annotated
          /\ Label(before, "annotator_a") # Label(before, "annotator_b")
          /\ e.answer # Failed => \E r \in {"annotator_a", "annotator_b"} :
                                     e.answer.value = Label(before, r)

\* On every read the history is replayed in the order of the roles, whatever
\* the order of the commits was.
Place == [author |-> 0, reviewer |-> 1, annotator_a |-> 3, annotator_b |-> 4, adjudicator |-> 5]
Valid(history) ==
    \A e \in history :
        /\ \A f \in history : f.role = e.role => f = e
        /\ Legal(e, {f \in history : Place[f.role] < Place[e.role]})

-----------------------------------------------------------------------------
(* Reducers.                                                               *)

Agreed(history) ==
    /\ Succeeded(history, "annotator_a") /\ Succeeded(history, "annotator_b")
    /\ Label(history, "annotator_a") = Label(history, "annotator_b")

IsResolved(history) ==
    \/ AnyFailed(history)
    \/ "reviewer" \in RolesIn(history)
    \/ Agreed(history)
    \/ "adjudicator" \in RolesIn(history)

\* The gold answer and the target are 1.
Gold == 1
IsAccepted(history) ==
    /\ ~AnyFailed(history)
    /\ \A e \in history : e.answer.gates = "all"
    /\ \/ /\ RolesIn(history) = {"author", "reviewer"}
          /\ \A e \in history : e.answer.value = Gold
       \/ Agreed(history) /\ Label(history, "annotator_a") = Gold
       \/ "adjudicator" \in RolesIn(history) /\ Label(history, "adjudicator") = Gold

P == Plan[lane]

\* What all histories together come to.
Outcome ==
    [resolved |-> {i \in P.all : IsResolved(events[i])},
     accepted |-> {i \in P.all : IsAccepted(events[i])},
     direct |-> {i \in P.all : ~AnyFailed(events[i]) /\ Agreed(events[i])},
     adjudicated |-> {i \in P.all : ~AnyFailed(events[i])
                                     /\ "adjudicator" \in RolesIn(events[i])}]

Meets(accepted, floors) == \A f \in floors : Cardinality(accepted \cap f.group) >= f.minimum

\* The status of a selection: what can still be accepted is counted as such.
Stage(o, selection, floors, direct, adjudicated) ==
    LET open == selection \ o.resolved
        accepted == selection \cap o.accepted
        agreed == Cardinality(selection \cap o.direct)
        judged == Cardinality(selection \cap o.adjudicated)
    IN  IF open = {} /\ Meets(accepted, floors) /\ agreed >= direct /\ judged <= adjudicated
        THEN "PASS"
        ELSE IF \/ ~Meets(accepted \cup open, floors)
                \/ agreed + Cardinality(open) < direct
                \/ judged > adjudicated
        THEN "NO_GO" ELSE "PENDING"

Micro(o) == Stage(o, P.micro, P.microFloors, 0, Cardinality(P.micro))
Pilot(o) == Stage(o, P.pilot, P.pilotFloors, P.pilotDirect, P.pilotAdjudicated)
Full(o) == Stage(o, P.all, P.fullFloors, P.fullDirect, P.fullAdjudicated)

PairsIn(accepted) == Cardinality({pair \in P.pairs : pair \subseteq accepted})
Larger(a, b) == IF a < b THEN b ELSE a

ShareKept(s, o) ==
    100 * Cardinality(o.accepted \cap s.group) >= s.percent * Cardinality(o.accepted)

\* (mutant) the shares are those of the rows accepted so far
ShareLostSoFar(s, o) == ~ShareKept(s, o)

\* A share that even with every open identity of its group is missed.
ShareLost(s, o) ==
    LET open == Cardinality(s.group \ o.resolved)
    IN  100 * (Cardinality(o.accepted \cap s.group) + open)
            < s.percent * Larger(P.base, Cardinality(o.accepted) + open)

\* The status of the lane.
Verdict(o) ==
    LET full == Full(o) IN
    IF \/ "NO_GO" \in {Micro(o), Pilot(o), full}
       \/ PairsIn(o.accepted \cup (P.all \ o.resolved)) < P.pairMinimum
       \/ \E s \in P.shares : ShareLost(s, o)
    THEN "NO_GO"
    ELSE IF /\ full = "PASS"
            /\ PairsIn(o.accepted) >= P.pairMinimum
            /\ \A s \in P.shares : ShareKept(s, o)
    THEN "READY" ELSE "PENDING"

Status == Verdict(Outcome)

\* Whether anything may be asked or committed about i.
Admissible(i) ==
    LET o == Outcome IN
    /\ Verdict(o) # "NO_GO"
    /\ Micro(o) = "PENDING" => i \in P.micro
    /\ i \notin P.pilot => Pilot(o) = "PASS"

-----------------------------------------------------------------------------
(* One execution.                                                          *)

BindingsMatch(r, e) ==
    /\ environment \in {None, e.grant}
    /\ bindings[BindingFile(r)] \in {None, e}

Keep == UNCHANGED <<lane, deaths>>
KeepFiles == UNCHANGED <<events, environment, bindings, reserved, cases>>

Goto(step) == exec' = [exec EXCEPT !.step = step]
ToCommit(answer) == exec' = [exec EXCEPT !.step = "commit", !.answer = answer]

Event(r, answer) == [role |-> r, answer |-> answer]

\* The role is neither committed nor out of order, and the lane is open for it.
MayExecute(i, r, e) ==
    /\ exec.step = "off"
    /\ i \in P.all
    /\ r \in RolesOf[lane]
    /\ BindingsMatch(r, e)
    /\ Legal(Event(r, Failed), events[i])
    /\ \A j \in P.all : Valid(events[j])
    /\ Admissible(i)

Enter(i, r, e, step, answer) ==
    exec' = [step |-> step, identity |-> i, role |-> r, evidence |-> e, answer |-> answer]

\* (mutant) a reservation of an execution that died stands for good
SettleNothing(i, r, e) ==
    /\ MayExecute(i, r, e)
    /\ reserved[i][r] = e
    /\ FALSE
    /\ UNCHANGED vars

\* A reservation without an event: its request may have been sent, and is not
\* sent again.  Only the same evidence may settle it.
SettleReserved(i, r, e) ==
    /\ MayExecute(i, r, e)
    /\ reserved[i][r] = e
    /\ Enter(i, r, e, "commit", Failed)
    /\ Keep /\ KeepFiles /\ UNCHANGED posts

\* The cases of all committed authors have to be readable.
CasesReadable == \A j \in P.all : Succeeded(events[j], "author") => j \in cases

GatedByAuthor(i, r) == r # "author" /\ AnswerOf(events[i], "author").gates = "local"

\* The author's case fails a local prerequisite: nobody is asked about it.
SettleGated(i, r, e) ==
    /\ MayExecute(i, r, e)
    /\ reserved[i][r] = None
    /\ CasesReadable
    /\ GatedByAuthor(i, r)
    /\ Enter(i, r, e, "commit", Failed)
    /\ Keep /\ KeepFiles /\ UNCHANGED posts

\* (mutant) a reservation does not keep the role from being executed
PrepareAgain(i, r, e) ==
    /\ MayExecute(i, r, e)
    /\ CasesReadable
    /\ ~GatedByAuthor(i, r)
    /\ Enter(i, r, e, "environment", None)
    /\ Keep /\ KeepFiles /\ UNCHANGED posts

Prepare(i, r, e) ==
    /\ MayExecute(i, r, e)
    /\ reserved[i][r] = None
    /\ CasesReadable
    /\ ~GatedByAuthor(i, r)
    /\ Enter(i, r, e, "environment", None)
    /\ Keep /\ KeepFiles /\ UNCHANGED posts

\* Each of the three files is created, or must hold the same already.
BindEnvironment ==
    /\ exec.step = "environment"
    /\ environment \in {None, exec.evidence.grant}
    /\ environment' = exec.evidence.grant
    /\ Goto("binding")
    /\ Keep /\ UNCHANGED <<events, bindings, reserved, cases, posts>>

BindRole ==
    /\ exec.step = "binding"
    /\ bindings[BindingFile(exec.role)] \in {None, exec.evidence}
    /\ bindings' = [bindings EXCEPT ![BindingFile(exec.role)] = exec.evidence]
    /\ Goto("reserve")
    /\ Keep /\ UNCHANGED <<events, environment, reserved, cases, posts>>

ReserveRole ==
    /\ exec.step = "reserve"
    /\ reserved[exec.identity][exec.role] \in {None, exec.evidence}
    /\ reserved' = [reserved EXCEPT ![exec.identity][exec.role] = exec.evidence]
    /\ Goto("models")
    /\ Keep /\ UNCHANGED <<events, environment, bindings, cases, posts>>

\* The served model is checked first; the request counts from here on.
CheckModels ==
    /\ exec.step = "models"
    /\ \/ Goto("chat")
       \/ ToCommit(Failed)
    /\ Keep /\ KeepFiles /\ UNCHANGED posts

Chat ==
    LET i == exec.identity
        r == exec.role
    IN  /\ exec.step = "chat"
        /\ posts' = [posts EXCEPT ![i][r] = @ + 1]
        /\ \/ ToCommit(Failed)
           \/ \E a \in Answers[lane][r] :
                /\ Legal(Event(r, a), events[i])
                /\ exec' = [exec EXCEPT !.answer = a,
                                        !.step = IF r = "author" THEN "store" ELSE "commit"]
        /\ Keep /\ KeepFiles

StoreCase ==
    /\ exec.step = "store"
    /\ cases' = cases \cup {exec.identity}
    /\ Goto("commit")
    /\ Keep /\ UNCHANGED <<events, environment, bindings, reserved, posts>>

\* (mutant) the history with the new event is not replayed
CommitsUnreplayed(i, r, answer) ==
    /\ Legal(Event(r, answer), events[i])
    /\ Admissible(i)

\* The ledger admits the event after the ones it has.
Commits(i, r, answer) ==
    /\ Legal(Event(r, answer), events[i])
    /\ Valid(events[i] \cup {Event(r, answer)})
    /\ Admissible(i)

CommitEvent ==
    /\ exec.step = "commit"
    /\ Commits(exec.identity, exec.role, exec.answer)
    /\ events' = [events EXCEPT ![exec.identity] = @ \cup {Event(exec.role, exec.answer)}]
    /\ exec' = Idle
    /\ Keep /\ UNCHANGED <<environment, bindings, reserved, cases, posts>>

CommitRaises ==
    /\ exec.step = "commit"
    /\ ~Commits(exec.identity, exec.role, exec.answer)
    /\ exec' = Idle
    /\ Keep /\ KeepFiles /\ UNCHANGED posts

\* The process dies; the system releases its lock.
Die ==
    /\ exec.step # "off"
    /\ deaths < MaxDeaths
    /\ deaths' = deaths + 1
    /\ exec' = Idle
    /\ KeepFiles /\ UNCHANGED <<lane, posts>>

-----------------------------------------------------------------------------

Begin == \E i \in Identities, r \in Roles, e \in Evidence :
             SettleReserved(i, r, e) \/ SettleGated(i, r, e) \/ Prepare(i, r, e)

Step ==
    \/ BindEnvironment \/ BindRole \/ ReserveRole \/ CheckModels \/ Chat
    \/ StoreCase \/ CommitEvent \/ CommitRaises

Next == Begin \/ Step \/ Die

Spec == Init /\ [][Next]_vars

\* The driver goes on with whatever role may be executed, and an execution
\* runs on unless its process dies.
FairSpec == Spec /\ WF_vars(Begin) /\ WF_vars(Step)

-----------------------------------------------------------------------------

Steps == {"environment", "binding", "reserve", "models", "chat", "store", "commit"}

TypeOK ==
    /\ lane \in Lanes
    /\ events \in [Identities -> SUBSET Records(lane)]
    /\ environment \in {e.grant : e \in Evidence} \cup {None}
    /\ bindings \in [BindingFiles -> Evidence \cup {None}]
    /\ reserved \in [Identities -> [Roles -> Evidence \cup {None}]]
    /\ cases \subseteq Identities
    /\ posts \in [Identities -> [Roles -> Nat]]
    /\ exec = Idle \/ exec \in [step : Steps, identity : Identities, role : RolesOf[lane],
                                evidence : Evidence,
                                answer : {x.answer : x \in Records(lane)} \cup {None}]
    /\ deaths \in 0..MaxDeaths

\* No model is asked twice in one role about one identity, whatever executions
\* died and were started again.
OneRequest == \A i \in Identities, r \in Roles : posts[i][r] <= 1

\* The events on disk can always be replayed: no sequence of executions leaves
\* a ledger that every later reader rejects.
LedgerReadable == \A i \in Identities : Valid(events[i])

\* Nothing but the micro pilot is touched before it passed, and nothing outside
\* the pilot before the pilot passed: no reservation, no request, no event.
Touched(i) ==
    events[i] # {} \/ \E r \in Roles : reserved[i][r] # None \/ posts[i][r] > 0
PilotsComeFirst ==
    /\ (\E i \in P.all \ P.micro : Touched(i)) => Micro(Outcome) = "PASS"
    /\ (\E i \in P.all \ P.pilot : Touched(i)) => Pilot(Outcome) = "PASS"

\* Once the lane is NO_GO no model is asked and nothing is committed any more.
NoGoIsFinal ==
    [][Status = "NO_GO" => UNCHANGED <<events, posts, reserved>>]_vars

\* What the floors mean, apart from how the reducers compute it.
Qualifies(accepted, direct, adjudicated) ==
    /\ Meets(accepted, P.microFloors \cup P.pilotFloors \cup P.fullFloors)
    /\ Cardinality(direct \cap P.pilot) >= P.pilotDirect
    /\ Cardinality(direct) >= P.fullDirect
    /\ Cardinality(adjudicated \cap P.pilot) <= P.pilotAdjudicated
    /\ Cardinality(adjudicated) <= P.fullAdjudicated
    /\ PairsIn(accepted) >= P.pairMinimum
    /\ \A s \in P.shares :
         100 * Cardinality(accepted \cap s.group) >= s.percent * Cardinality(accepted)

\* A lane is given up only when no outcome of the open identities would
\* qualify, and is decided, rightly, when none is open.
VerdictSound ==
    LET o == Outcome
        open == P.all \ o.resolved
        verdict == Verdict(o)
    IN  /\ verdict = "NO_GO" =>
              \A won, agreed \in SUBSET open :
                  ~Qualifies(o.accepted \cup won, o.direct \cup agreed, o.adjudicated)
        /\ verdict = "READY" => open = {} /\ Qualifies(o.accepted, o.direct, o.adjudicated)
        /\ open = {} => verdict # "PENDING"

\* An adjudicator is asked only where two committed annotations differ.
AdjudicatesDisagreement ==
    \A i \in Identities : posts[i]["adjudicator"] > 0 =>
        /\ Succeeded(events[i], "annotator_a") /\ Succeeded(events[i], "annotator_b")
        /\ Label(events[i], "annotator_a") # Label(events[i], "annotator_b")

\* Every answer in the ledger was asked for once, under a reservation of the
\* bound environment, and the case it is about can be read.
AnswersEvidenced ==
    \A i \in Identities : \A e \in events[i] : e.answer # Failed =>
        /\ posts[i][e.role] = 1
        /\ reserved[i][e.role] # None
        /\ reserved[i][e.role].grant = environment
        /\ reserved[i][e.role] = bindings[BindingFile(e.role)]
        /\ i \in cases

\* The second annotation of some identity was committed before its first.
Inverted ==
    \E i \in Identities : "annotator_b" \in RolesIn(events[i])
                           /\ "annotator_a" \notin RolesIn(events[i])

\* A driver that annotates in order comes to a verdict.
ComesToVerdict == <>Inverted \/ <>(Status # "PENDING")

=============================================================================
