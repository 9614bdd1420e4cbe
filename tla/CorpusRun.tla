------------------------------ MODULE CorpusRun ------------------------------
(***************************************************************************)
(* The corpus command: for every batch of planned task slots one author    *)
(* call, for every usable authored row one reviewer call, then one         *)
(* resolution file for the batch.  A process may die at any step and the   *)
(* next one resumes from the ledger and the resolution files; when all     *)
(* batches are resolved the packet is sealed.                              *)
(*                                                                         *)
(* Capped runs are run_corpus with the hard-cap policy, which raises at    *)
(* the first failure; the others are _run_post_pilot_corpus with the       *)
(* report-only policy, which retries malformed responses.                  *)
(***************************************************************************)
EXTENDS ProviderLedger

CONSTANTS
    ProjectEvery,   \* batches between two projections of a capped run
    MaxSent,        \* bound on requests
    MaxSnapshots    \* bound on the snapshots a new process is started after

\* A resolution file of a batch of so many rows: what became of each row, with
\* the requests it names.
Marks == {"new", "usable", "unusable", "reviewed", "failed", "authorLost", "reviewerLost"}
Outcomes(rows) == [1..rows -> [mark : Marks, reviewer : RequestIds \cup {None}]]
Resolutions(rows) == [author : RequestIds \cup {None}, accepted : SUBSET (1..rows),
                      rows : Outcomes(rows)]

ASSUME CorpusAssumption ==
    /\ \A p \in Plans :
         /\ {p.batches, p.rows, p.attempts} \subseteq Nat \ {0}
         /\ p.deaths \in Nat
         /\ None \notin Resolutions(p.rows)
    /\ ProjectEvery \in Nat \ {0}
    /\ MaxSent \in Nat
    /\ MaxSnapshots \in Nat

VARIABLES
    pc,         \* process -> its next step
    work,       \* process -> what it holds of the batch under way
    resolved,   \* batch -> its resolution file, or None
    diagnosed,  \* batches with a diagnostics file
    complete,   \* the newest snapshot says "complete"
    packet,     \* "none", "sealed" or "failed", the terminal report
    deaths

vars == <<ledgerVars, pc, work, resolved, diagnosed, complete, packet, deaths>>

Rows == plan.rows               \* task slots of a batch
MaxAttempts == plan.attempts    \* _POST_PILOT_MAXIMUM_ATTEMPTS; 1 if capped
Minimum == plan.minimum         \* accepted rows the packet needs
MaxDeaths == plan.deaths        \* bound on deaths

BatchNumbers == 1..plan.batches
RowNumbers == 1..Rows

\* What has become of a row, with the requests its resolution names.
Row(mark, reviewer) == [mark |-> mark, reviewer |-> reviewer]
NoWork == [batch |-> 0, row |-> 0, attempt |-> 0, author |-> None, raises |-> FALSE,
           rows |-> [r \in RowNumbers |-> Row("new", None)], done |-> {}]

Init ==
    /\ LedgerInit
    /\ pc = [p \in Procs |-> "off"]
    /\ work = [p \in Procs |-> NoWork]
    /\ resolved = [b \in BatchNumbers |-> None]
    /\ diagnosed = {}
    /\ complete = FALSE
    /\ packet = "none"
    /\ deaths = 0

AuthorCall(b) == [stage |-> "author", batch |-> b, row |-> 0]
ReviewerCall(b, r) == [stage |-> "reviewer", batch |-> b, row |-> r]
CallOf(p) ==
    IF work[p].row = 0 THEN AuthorCall(work[p].batch)
    ELSE ReviewerCall(work[p].batch, work[p].row)

Goto(p, step) == pc' = [pc EXCEPT ![p] = step]
Keep == UNCHANGED <<resolved, diagnosed, packet, deaths>>
KeepLedger == UNCHANGED <<ledgerVars, complete>>

\* The command returns, or raises.
Leave(p) ==
    /\ Forget(p)
    /\ Goto(p, "off")
    /\ work' = [work EXCEPT ![p] = NoWork]

Die(p) ==
    /\ pc[p] # "off"
    /\ deaths < MaxDeaths
    /\ deaths' = deaths + 1
    /\ Leave(p)
    /\ UNCHANGED <<resolved, diagnosed, complete, packet>>

-----------------------------------------------------------------------------
(* Starting: what the files say has to be consistent.                      *)

ResolvedBatches == {b \in BatchNumbers : resolved[b] # None}

\* Every uncertain request is bound to rows rejected for exactly that request.
UncertainBound(entries) ==
    \A e \in Items(entries) : e.status = "uncertain" =>
        LET call == e.id.call
            rows == resolved[call.batch]
        IN  /\ rows # None
            /\ IF call.row = 0
               THEN rows.author = e.id /\ \A r \in RowNumbers : rows.rows[r].mark = "authorLost"
               ELSE rows.rows[call.row] = Row("reviewerLost", e.id)

\* (mutant) a paid batch without a resolution is asked for again
ConsistentDespiteUnresolved(l) ==
    /\ \A e \in Items(l.entries) : e.status # "reserved"
    /\ Items(l.journal) = Ids(l.entries)

Consistent(l) ==
    /\ \A e \in Items(l.entries) : e.status # "reserved"
    /\ Items(l.journal) = Ids(l.entries)
    /\ \A id \in Items(l.journal) : id.call.batch \in ResolvedBatches
    /\ ~Capped => diagnosed = ResolvedBatches /\ UncertainBound(l.entries)

\* Every unresolved call must fit the budgets before any of them is made.
Preflight(entries) ==
    LET open == Cardinality(BatchNumbers \ ResolvedBatches)
        author == open * Worst["author"]
        reviewer == open * Rows * Worst["reviewer"]
    IN  /\ Fits(entries, "author", author)
        /\ Fits(entries, "reviewer", reviewer)
        /\ Capped => SpentAll(entries) + author + reviewer <= Total

Resumable ==
    /\ Consistent(disk)
    /\ (Capped \/ ResolvedBatches # BatchNumbers) => Preflight(disk.entries)

Start(p) ==
    /\ p \in plan.procs
    /\ pc[p] = "off"
    /\ packet = "none"
    /\ written < MaxSnapshots
    /\ Resumable
    /\ Resume(p)
    /\ work' = [work EXCEPT ![p].done = ResolvedBatches]
    /\ Goto(p, "next")
    /\ Keep /\ UNCHANGED complete

\* The next batch in plan order, or the end.
NextBatch(p) ==
    LET open == BatchNumbers \ work[p].done IN
    /\ pc[p] = "next"
    /\ IF open = {}
       THEN Goto(p, "finish") /\ UNCHANGED work
       ELSE /\ work' = [work EXCEPT ![p] = [NoWork EXCEPT !.batch = Min(open), !.attempt = 1,
                                                          !.done = work[p].done]]
            /\ Goto(p, "reserve")
    /\ Keep /\ KeepLedger

-----------------------------------------------------------------------------
(* A request.                                                              *)

\* A snapshot written on the way is not the complete one.
Written == complete' = (complete /\ written' = written)

ReserveCall(p) ==
    /\ pc[p] = "reserve"
    /\ \/ Reserve(p, CallOf(p), TRUE) /\ Goto(p, "send")
       \/ Reserve(p, CallOf(p), FALSE) /\ Goto(p, "failed")
    /\ Keep /\ Written /\ UNCHANGED work

Send(p) ==
    /\ pc[p] = "send"
    /\ Len(sent) < MaxSent
    /\ Transport(p)
    /\ Goto(p, "close")
    /\ Keep /\ UNCHANGED <<work, complete>>

CloseCall(p) ==
    /\ pc[p] = "close"
    /\ \/ Close(p, TRUE) /\ Goto(p, "journal")
       \/ Close(p, FALSE) /\ Goto(p, "failed")
    /\ Keep /\ Written /\ UNCHANGED work

\* A journaled response that is good and within budget is handed to the batch.
HandedOver(p) ==
    /\ request[p].reply.kind = "good"
    /\ \A e \in Items(ledger[p].entries) : e.id = request[p].id => e.status # "overspent"

JournalCall(p) ==
    /\ pc[p] = "journal"
    /\ \/ Journal(p, TRUE) /\ Goto(p, IF HandedOver(p) THEN "answered" ELSE "failed")
       \/ Journal(p, FALSE) /\ Goto(p, "failed")
    /\ Keep /\ Written /\ UNCHANGED work

-----------------------------------------------------------------------------
(* Good answers.                                                           *)

\* The first row from r on that is to be reviewed, or 0.
NextUsable(rows, r) ==
    LET usable == {x \in r..Rows : rows[x].mark = "usable"}
    IN  IF usable = {} THEN 0 ELSE Min(usable)

ReviewFrom(p, rows, r) ==
    LET next == NextUsable(rows, r) IN
    /\ work' = [work EXCEPT ![p].rows = rows, ![p].row = next, ![p].attempt = 1,
                            ![p].author = IF work[p].row = 0 THEN last[p] ELSE @]
    /\ Goto(p, IF next = 0 THEN "store" ELSE "reserve")

\* Some of the authored rows are usable.
AuthorAnswered(p) ==
    /\ pc[p] = "answered"
    /\ work[p].row = 0
    /\ \E usable \in SUBSET RowNumbers :
         ReviewFrom(p, [r \in RowNumbers |->
                           Row(IF r \in usable THEN "usable" ELSE "unusable", None)], 1)
    /\ Keep /\ KeepLedger

ReviewerAnswered(p) ==
    /\ pc[p] = "answered"
    /\ work[p].row # 0
    /\ ReviewFrom(p, [work[p].rows EXCEPT ![work[p].row] = Row("reviewed", last[p])],
                  work[p].row + 1)
    /\ Keep /\ KeepLedger

\* The local validation of the authored rows breaks: the batch is given up
\* with its resolution, and the error raised.
AuthorValidationBreaks(p) ==
    /\ pc[p] = "answered"
    /\ work[p].row = 0
    /\ work' = [work EXCEPT ![p].rows = [r \in RowNumbers |-> Row("failed", None)],
                            ![p].author = last[p], ![p].raises = TRUE]
    /\ Goto(p, "store")
    /\ Keep /\ KeepLedger

-----------------------------------------------------------------------------
(* Failed requests of the report-only policy.                              *)

LastLost(p) ==
    /\ ledger[p].entries # <<>>
    /\ ledger[p].entries[Len(ledger[p].entries)].status = "uncertain"

\* (mutant) the rows do not name the uncertain request
AuthorLostUnnamed(p) ==
    /\ pc[p] = "failed" /\ ~Capped /\ LastLost(p) /\ work[p].row = 0
    /\ work' = [work EXCEPT ![p].rows = [r \in RowNumbers |-> Row("authorLost", None)]]
    /\ Goto(p, "store")
    /\ Keep /\ KeepLedger

\* An uncertain request is not retried: its rows are rejected for it.
AuthorLost(p) ==
    /\ pc[p] = "failed" /\ ~Capped /\ LastLost(p) /\ work[p].row = 0
    /\ work' = [work EXCEPT ![p].rows = [r \in RowNumbers |-> Row("authorLost", None)],
                            ![p].author = request[p].id]
    /\ Goto(p, "store")
    /\ Keep /\ KeepLedger

\* (mutant) the row is rejected as if the response had been malformed
ReviewerLostFailed(p) ==
    /\ pc[p] = "failed" /\ ~Capped /\ LastLost(p) /\ work[p].row # 0
    /\ ReviewFrom(p, [work[p].rows EXCEPT ![work[p].row] = Row("failed", request[p].id)],
                  work[p].row + 1)
    /\ Keep /\ KeepLedger

ReviewerLost(p) ==
    /\ pc[p] = "failed" /\ ~Capped /\ LastLost(p) /\ work[p].row # 0
    /\ ReviewFrom(p, [work[p].rows EXCEPT ![work[p].row] = Row("reviewerLost", request[p].id)],
                  work[p].row + 1)
    /\ Keep /\ KeepLedger

\* The client's last journal record, of whatever request, if the stage is right.
LastOfStage(p) == last[p] # None /\ last[p].call.stage = CallOf(p).stage

Retry(p) ==
    /\ pc[p] = "failed" /\ ~Capped /\ ~LastLost(p) /\ LastOfStage(p)
    /\ work[p].attempt < MaxAttempts
    /\ work' = [work EXCEPT ![p].attempt = @ + 1]
    /\ Goto(p, "reserve")
    /\ Keep /\ KeepLedger

AuthorGivenUp(p) ==
    /\ pc[p] = "failed" /\ ~Capped /\ ~LastLost(p) /\ LastOfStage(p)
    /\ work[p].attempt = MaxAttempts /\ work[p].row = 0
    /\ work' = [work EXCEPT ![p].rows = [r \in RowNumbers |-> Row("failed", None)],
                            ![p].author = last[p]]
    /\ Goto(p, "store")
    /\ Keep /\ KeepLedger

ReviewerGivenUp(p) ==
    /\ pc[p] = "failed" /\ ~Capped /\ ~LastLost(p) /\ LastOfStage(p)
    /\ work[p].attempt = MaxAttempts /\ work[p].row # 0
    /\ ReviewFrom(p, [work[p].rows EXCEPT ![work[p].row] = Row("failed", last[p])],
                  work[p].row + 1)
    /\ Keep /\ KeepLedger

\* Without a journal record of the stage the command raises.
Stranded(p) ==
    /\ pc[p] = "failed" /\ ~Capped /\ ~LastLost(p) /\ ~LastOfStage(p)
    /\ Leave(p)
    /\ Keep /\ UNCHANGED complete

-----------------------------------------------------------------------------
(* Failed requests of a capped run: a settled author call is resolved, and *)
(* the command raises.                                                     *)

LastOfCall(p) == last[p] # None /\ last[p].call = CallOf(p)

CappedAuthorFails(p) ==
    /\ pc[p] = "failed" /\ Capped /\ work[p].row = 0
    /\ IF LastOfCall(p)
       THEN /\ work' = [work EXCEPT ![p].rows = [r \in RowNumbers |-> Row("failed", None)],
                                    ![p].author = last[p], ![p].raises = TRUE]
            /\ Goto(p, "store")
            /\ KeepLedger
       ELSE Leave(p) /\ UNCHANGED complete
    /\ Keep

CappedReviewerFails(p) ==
    /\ pc[p] = "failed" /\ Capped /\ work[p].row # 0
    /\ work' = [work EXCEPT
          ![p].rows = [r \in RowNumbers |->
              Row("failed", IF r = work[p].row
                            THEN IF LastOfCall(p) THEN last[p] ELSE None
                            ELSE work[p].rows[r].reviewer)],
          ![p].raises = TRUE]
    /\ Goto(p, "store")
    /\ Keep /\ KeepLedger

-----------------------------------------------------------------------------
(* The resolution file of a batch, then its diagnostics file.              *)

Resolution(p, accepted) ==
    [author |-> work[p].author, accepted |-> accepted, rows |-> work[p].rows]

Reviewed(p) == {r \in RowNumbers : work[p].rows[r].mark = "reviewed"}

\* (mutant) a batch that raises leaves no diagnostics
AfterStoreRaising(p) ==
    IF work[p].raises THEN "raise" ELSE IF ~Capped THEN "diagnose" ELSE "project"

AfterStore(p) == IF ~Capped THEN "diagnose" ELSE IF work[p].raises THEN "raise" ELSE "project"

Store(p) ==
    /\ pc[p] = "store"
    /\ resolved[work[p].batch] = None
    /\ \E accepted \in SUBSET Reviewed(p) :
         resolved' = [resolved EXCEPT ![work[p].batch] = Resolution(p, accepted)]
    /\ work' = [work EXCEPT ![p].done = @ \cup {work[p].batch}]
    /\ Goto(p, AfterStore(p))
    /\ KeepLedger /\ UNCHANGED <<diagnosed, packet, deaths>>

\* The normal resolution of a capped run cannot be written: a fallback is.
StoreFallback(p) ==
    /\ pc[p] = "store" /\ Capped
    /\ resolved[work[p].batch] = None
    /\ resolved' = [resolved EXCEPT ![work[p].batch] =
          [author |-> work[p].author, accepted |-> {},
           rows |-> [r \in RowNumbers |-> Row("failed", work[p].rows[r].reviewer)]]]
    /\ work' = [work EXCEPT ![p].done = @ \cup {work[p].batch}, ![p].raises = TRUE]
    /\ Goto(p, "raise")
    /\ KeepLedger /\ UNCHANGED <<diagnosed, packet, deaths>>

\* A resolution file is never replaced.
StoreClobbers(p) ==
    /\ pc[p] = "store"
    /\ resolved[work[p].batch] # None
    /\ Leave(p)
    /\ Keep /\ UNCHANGED complete

Diagnose(p) ==
    /\ pc[p] = "diagnose"
    /\ diagnosed' = diagnosed \cup {work[p].batch}
    /\ Goto(p, IF work[p].raises THEN "raise" ELSE "next")
    /\ KeepLedger /\ UNCHANGED <<work, resolved, packet, deaths>>

Raise(p) ==
    /\ pc[p] = "raise"
    /\ Leave(p)
    /\ Keep /\ UNCHANGED complete

\* Every ProjectEvery batches a capped run stops when the minimum cannot be
\* reached any more; a Wilson projection may stop it earlier.
AcceptedRows == UNION {{<<b, r>> : r \in RowNumbers \cap resolved[b].accepted} :
                          b \in ResolvedBatches}
Impossible ==
    Cardinality(AcceptedRows) + Cardinality(BatchNumbers \ ResolvedBatches) * Rows < Minimum

Project(p) ==
    /\ pc[p] = "project"
    /\ \/ /\ work[p].batch % ProjectEvery = 0
          /\ Write(ledger[p])
          /\ Goto(p, "raise")
          /\ UNCHANGED <<plan, ledger, last, request, sent>>
       \/ /\ work[p].batch % ProjectEvery = 0 => ~Impossible
          /\ Goto(p, "next")
          /\ UNCHANGED ledgerVars
    /\ Keep /\ UNCHANGED <<work, complete>>

-----------------------------------------------------------------------------
(* The end: the complete snapshot, the minimum, the packet.                *)

Finish(p) ==
    /\ pc[p] = "finish"
    /\ IF (Capped \/ Consistent(ledger[p])) /\ Extends(disk, ledger[p])
       THEN /\ IF ~Capped /\ complete
               THEN UNCHANGED ledgerVars
               ELSE Write(ledger[p]) /\ UNCHANGED <<plan, ledger, last, request, sent>>
            /\ complete' = TRUE
            /\ Goto(p, "seal")
            /\ UNCHANGED work
       ELSE Leave(p) /\ UNCHANGED complete
    /\ Keep

\* The last journaled request of a call, or None.
Final(journal, call) ==
    LET attempts == {i \in DOMAIN journal : journal[i].call = call}
    IN  IF attempts = {} THEN None ELSE journal[Max(attempts)]

\* Every row names the final attempt of its author and of its reviewer call.
LineageValid(journal) ==
    \A b \in BatchNumbers : resolved[b] # None =>
        /\ resolved[b].author = Final(journal, AuthorCall(b))
        /\ \A r \in RowNumbers :
             resolved[b].rows[r].reviewer = Final(journal, ReviewerCall(b, r))

MaySeal(p) ==
    /\ Cardinality(AcceptedRows) >= Minimum
    /\ LineageValid(ledger[p].journal)
    /\ Items(ledger[p].journal)
         = {e.id : e \in {x \in Items(ledger[p].entries) : x.status # "reserved"}}

Seal(p) ==
    /\ pc[p] = "seal"
    /\ packet' = IF MaySeal(p) THEN "sealed" ELSE IF Capped THEN packet ELSE "failed"
    /\ Leave(p)
    /\ UNCHANGED <<resolved, diagnosed, complete, deaths>>

-----------------------------------------------------------------------------
(* Two commands on one work directory.                                     *)

WritesSnapshot(p) ==
    \/ pc[p] \in {"close", "journal"}
    \/ /\ pc[p] = "reserve"
       /\ NewId(p, CallOf(p)) \notin Ids(ledger[p].entries)
       /\ Fits(ledger[p].entries, CallOf(p).stage, Worst[CallOf(p).stage])
    \/ pc[p] = "project" /\ work[p].batch % ProjectEvery = 0
    \/ pc[p] = "finish" /\ (Capped \/ ~complete)

\* The other one takes the number of the snapshot between the look at the
\* directory and the create.  The error is none of the corpus: it ends a
\* command without hard cap, while a capped one treats a request with it as
\* any other that failed, and does not use its ledger again.
Overtaken(p) ==
    /\ WritesSnapshot(p)
    /\ \E q \in Procs \ {p} : pc[q] # "off"
    /\ IF Capped /\ pc[p] \in {"reserve", "close", "journal"}
       THEN Goto(p, "failed") /\ UNCHANGED <<ledgerVars, work>>
       ELSE Leave(p)
    /\ Keep /\ UNCHANGED complete

-----------------------------------------------------------------------------

Request(p) == ReserveCall(p) \/ Send(p) \/ CloseCall(p) \/ JournalCall(p)
Answer(p) ==
    \/ AuthorAnswered(p) \/ ReviewerAnswered(p) \/ AuthorValidationBreaks(p)
    \/ AuthorLost(p) \/ ReviewerLost(p) \/ Retry(p)
    \/ AuthorGivenUp(p) \/ ReviewerGivenUp(p) \/ Stranded(p)
    \/ CappedAuthorFails(p) \/ CappedReviewerFails(p)
Resolve(p) == Store(p) \/ StoreFallback(p) \/ StoreClobbers(p) \/ Diagnose(p) \/ Raise(p)

Step(p) == NextBatch(p) \/ Request(p) \/ Answer(p) \/ Resolve(p)
               \/ Project(p) \/ Finish(p) \/ Seal(p)

Next == \E p \in Procs : Start(p) \/ Step(p) \/ Overtaken(p) \/ Die(p)

Spec == Init /\ [][Next]_vars

\* The command is started again until its packet is decided, and runs on.
FairSpec == Spec /\ \A p \in Procs : WF_vars(Start(p)) /\ WF_vars(Step(p))

-----------------------------------------------------------------------------

\* One command at a time.
Alone == Cardinality(plan.procs) = 1

\* The provider reports no cost that the ledger does not accept.  After one the
\* reservation stays open and the request without a record: the command raises
\* or goes on from the record of an earlier request, and refuses to start again.
CostsAccepted == "invalid" \notin Kinds

\* Every persisted outcome points to the final attempt of its author call and
\* of its reviewer call, through retries, failures and restarts.
OutcomesOfFinalAttempts == Alone /\ CostsAccepted => LineageValid(disk.journal)

\* Only a death makes the command refuse to start: whatever failed
\* calls, rows that did not validate and budget stops there were, what it
\* leaves behind is consistent.  Errors of the file system are not among them.
FailsClosedOnlyAfterDeath ==
    Alone /\ CostsAccepted /\ deaths = 0 /\ (\A p \in Procs : pc[p] = "off") => Consistent(disk)

\* Without a hard cap the command resolves all batches and decides the packet,
\* however many responses are malformed or lost; after a death it may refuse to
\* go on.
Decided == <>(packet # "none" \/ deaths > 0 \/ Capped \/ ~Alone)
=============================================================================
