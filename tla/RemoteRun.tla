----------------------------- MODULE RemoteRun -----------------------------
(***************************************************************************)
(* benchmarks/universal_remote_resume/runner.py: the continuation of a     *)
(* remote run.  A run makes its output directory with an empty journal,    *)
(* takes the claim of its lineage, sends each request once, and seals the  *)
(* journal into a result, a report and a manifest; finalize-partial seals  *)
(* what a run that stopped has left.  Processes may be killed anywhere and *)
(* an append to the journal may fail.                                      *)
(***************************************************************************)
EXTENDS Integers, Sequences, FiniteSets, SequencesExt

CONSTANTS
    Runs,       \* run commands
    Sealers,    \* finalize-partial commands, one after the other each
    Outputs,    \* output directories
    Absent,     \* no file, no directory
    LastOrdinal,\* requests 1..LastOrdinal, in the code 10 to 56
    MaxFaults   \* bound on kills and on appends that fail

\* A line of the journal.
RowSet == [seq : Nat, kind : {"reserve", "settle", "over", "failure"},
           ordinal : Nat, whole : BOOLEAN]

ASSUME RemoteAssumption ==
    /\ Runs \cap Sealers = {}
    /\ Absent \notin Outputs \cup Seq(RowSet)
    /\ LastOrdinal \in Nat \ {0}
    /\ MaxFaults \in Nat

VARIABLES
    claimed,    \* the claim of the lineage exists; its bytes never differ
    made,       \* output directories that exist
    files,      \* of each output, by name
    temps,      \* of each output: <<name, process>> of writers' temporaries
    phase,      \* of each process
    at,         \* the output it works on
    file,       \* the file it is publishing
    rows,       \* a run's journal in memory, or the rows a seal has read
    bytes,      \* the journal a seal has read again for its manifest
    faults,
    owned,      \* history: outputs whose run got past the claim
    sent,       \* history: how often a request went out, by output
    accepted,   \* history: requests answered within the contract, by output
    sealed,     \* history: outputs a seal has validated
    premature,  \* history: outputs read by a seal while their run went on
    spoiled     \* history: an append failed that had written something

diskVars == <<claimed, made, files, temps>>
localVars == <<at, file, rows, bytes>>
historyVars == <<owned, sent, accepted, sealed, premature, spoiled>>
vars == <<diskVars, phase, localVars, faults, historyVars>>

Processes == Runs \cup Sealers
Names == {"journal", "result", "report", "manifest"}
NoFiles == [name \in Names |-> Absent]

Init ==
    /\ claimed = FALSE
    /\ made = {}
    /\ files = [o \in Outputs |-> NoFiles]
    /\ temps = [o \in Outputs |-> {}]
    /\ phase = [p \in Processes |-> "idle"]
    /\ at = [p \in Processes |-> Absent]
    /\ file = [p \in Processes |-> "journal"]
    /\ rows = [p \in Processes |-> <<>>]
    /\ bytes = [p \in Processes |-> <<>>]
    /\ faults = 0
    /\ owned = {}
    /\ sent = [o \in Outputs |-> [n \in 1..LastOrdinal |-> 0]]
    /\ accepted = [o \in Outputs |-> {}]
    /\ sealed = {}
    /\ premature = {}
    /\ spoiled = {}

-----------------------------------------------------------------------------
(* The journal *)

Final == {"over", "failure"}

Terminal(j) == \E i \in DOMAIN j : j[i].kind \in Final

\* _check: what may follow the rows of a journal.
Follows(j, row) ==
    /\ ~Terminal(j)
    /\ row.seq = Len(j) + 1
    /\ \/ /\ row.kind = "reserve"
          /\ row.ordinal = Cardinality({j[i].ordinal : i \in DOMAIN j}) + 1
          /\ j # <<>> => Last(j).kind = "settle"
       \/ /\ row.kind \in {"settle", "over", "failure"}
          /\ j # <<>>
          /\ Last(j).kind = "reserve"
          /\ Last(j).ordinal = row.ordinal

\* A journal that can be read: each line whole, each row after the others.
Readable(j) ==
    \A i \in DOMAIN j : j[i].whole /\ Follows(SubSeq(j, 1, i - 1), j[i])

Journal(o) == files[o]["journal"]

Settled(j) == {j[i].ordinal : i \in {k \in DOMAIN j :
                                       j[k].kind \in {"settle", "over"}}}

\* Mutant: only what was settled is charged.
ChargeOfSettled(j) ==
    [n \in Settled(j) |-> "computed"]

\* charged: the cost computed from the answer, or else the reservation.
Charge(j) ==
    [n \in {j[i].ordinal : i \in DOMAIN j} |->
        IF n \in Settled(j) THEN "computed" ELSE "reserved"]

\* reconstruct: the result is a function of the journal.
Result(j) ==
    [status |-> IF ~Terminal(j) /\ Settled(j) = 1..LastOrdinal
                THEN "complete" ELSE "partial",
     failure |-> IF Terminal(j) THEN Last(j).kind
                 ELSE IF Settled(j) = 1..LastOrdinal THEN "none"
                 ELSE "process_interrupted",
     completed |-> Settled(j), charge |-> Charge(j)]

-----------------------------------------------------------------------------
(* Processes *)

GoesTo(p, step) == phase' = [phase EXCEPT ![p] = step]

\* A command ends; finalize-partial may be given again.
Ends(p) ==
    /\ GoesTo(p, IF p \in Runs THEN "ended" ELSE "idle")
    /\ at' = [at EXCEPT ![p] = Absent]
    /\ file' = [file EXCEPT ![p] = "journal"]
    /\ rows' = [rows EXCEPT ![p] = <<>>]
    /\ bytes' = [bytes EXCEPT ![p] = <<>>]

Kill(p) ==
    /\ phase[p] \notin {"idle", "ended"}
    /\ faults < MaxFaults
    /\ faults' = faults + 1
    /\ Ends(p)
    /\ UNCHANGED <<diskVars, historyVars>>

Publishing == {"look", "link", "unlink"}

\* A run that may still write into its journal or remove it.
GoesOn(r) ==
    \/ phase[r] \in {"claim", "again", "take", "cleanup", "rmdir", "reserve",
                     "send", "await", "fail"}
    \/ phase[r] \in Publishing /\ file[r] = "journal"

-----------------------------------------------------------------------------
(* Create if absent *)

ManifestOf(result, journal) == [result |-> result, journal |-> journal]

\* What a process publishes under the name it has reached.
Content(p) ==
    CASE file[p] = "journal" -> <<>>
      [] file[p] \in {"result", "report"} -> Result(rows[p])
      [] file[p] = "manifest" -> ManifestOf(Result(rows[p]), bytes[p])

NextFile == [result |-> "report", report |-> "manifest"]

Published(p) ==
    /\ GoesTo(p, IF file[p] = "journal" THEN "claim"
                 ELSE IF file[p] = "manifest" THEN "validate"
                 ELSE "look")
    /\ file' = [file EXCEPT ![p] = IF file[p] \in DOMAIN NextFile
                                   THEN NextFile[file[p]] ELSE @]
    /\ UNCHANGED <<at, rows, bytes>>

\* Mutant: a file that exists is never accepted.
LookForNone(p) ==
    /\ phase[p] = "look"
    /\ IF files[at[p]][file[p]] = Absent
       THEN /\ temps' = [temps EXCEPT ![at[p]] = @ \cup {<<file[p], p>>}]
            /\ GoesTo(p, "link")
            /\ UNCHANGED localVars
       ELSE Ends(p) /\ UNCHANGED temps
    /\ UNCHANGED <<claimed, made, files, faults, historyVars>>

\* _atomic: a file that is there must have these bytes; else a temporary.
Look(p) ==
    /\ phase[p] = "look"
    /\ LET there == files[at[p]][file[p]] IN
         IF there = Absent /\ at[p] \in made
         THEN /\ temps' = [temps EXCEPT ![at[p]] = @ \cup {<<file[p], p>>}]
              /\ GoesTo(p, "link")
              /\ UNCHANGED localVars
         ELSE /\ IF there = Content(p) THEN Published(p) ELSE Ends(p)
              /\ UNCHANGED temps
    /\ UNCHANGED <<claimed, made, files, faults, historyVars>>

\* The temporary may have been removed, and the name taken, meanwhile.
Link(p) ==
    /\ phase[p] = "link"
    /\ LET o == at[p] t == <<file[p], p>> IN
         IF t \in temps[o] /\ files[o][file[p]] = Absent
         THEN /\ files' = [files EXCEPT ![o][file[p]] = Content(p)]
              /\ GoesTo(p, "unlink")
              /\ UNCHANGED <<temps, localVars>>
         ELSE /\ temps' = [temps EXCEPT ![o] = @ \ {t}]
              /\ Ends(p)
              /\ UNCHANGED files
    /\ UNCHANGED <<claimed, made, faults, historyVars>>

Unlink(p) ==
    /\ phase[p] = "unlink"
    /\ temps' = [temps EXCEPT ![at[p]] = @ \ {<<file[p], p>>}]
    /\ Published(p)
    /\ UNCHANGED <<claimed, made, files, faults, historyVars>>

-----------------------------------------------------------------------------
(* The output and the claim *)

\* create_output: the directory is this run's, or the run ends.
Begin(r, o) ==
    /\ phase[r] = "idle"
    /\ IF o \in made
       THEN Ends(r) /\ UNCHANGED made
       ELSE /\ made' = made \cup {o}
            /\ at' = [at EXCEPT ![r] = o]
            /\ GoesTo(r, "look")
            /\ UNCHANGED <<file, rows, bytes>>
    /\ UNCHANGED <<claimed, files, temps, faults, historyVars>>

\* create_claim: a claim that exists is taken, whatever its bytes.
LookForClaim(r) ==
    /\ phase[r] = "claim"
    /\ GoesTo(r, IF claimed THEN "cleanup" ELSE "again")
    /\ UNCHANGED <<diskVars, localVars, faults, historyVars>>

Load(r) ==
    /\ GoesTo(r, "reserve")
    /\ rows' = [rows EXCEPT ![r] = IF Journal(at[r]) = Absent THEN <<>>
                                    ELSE Journal(at[r])]
    /\ owned' = owned \cup {at[r]}

\* _atomic looks again, and accepts a claim of the same bytes.
LookAgain(r) ==
    /\ phase[r] = "again"
    /\ IF claimed THEN Load(r)
       ELSE GoesTo(r, "take") /\ UNCHANGED <<rows, owned>>
    /\ UNCHANGED <<diskVars, at, file, bytes, faults, sent, accepted, sealed,
                   premature, spoiled>>

Take(r) ==
    /\ phase[r] = "take"
    /\ IF claimed
       THEN GoesTo(r, "cleanup") /\ UNCHANGED <<claimed, rows, owned>>
       ELSE claimed' = TRUE /\ Load(r)
    /\ UNCHANGED <<made, files, temps, at, file, bytes, faults, sent, accepted,
                   sealed, premature, spoiled>>

\* The empty journal and the directory of this run are removed.
Cleanup(r) ==
    /\ phase[r] = "cleanup"
    /\ files' = [files EXCEPT ![at[r]]["journal"] = Absent]
    /\ GoesTo(r, "rmdir")
    /\ UNCHANGED <<claimed, made, temps, localVars, faults, historyVars>>

\* The directory stays if somebody else has put anything into it.
RemoveDirectory(r) ==
    /\ phase[r] = "rmdir"
    /\ made' = IF files[at[r]] = NoFiles /\ temps[at[r]] = {}
               THEN made \ {at[r]} ELSE made
    /\ Ends(r)
    /\ UNCHANGED <<claimed, files, temps, faults, historyVars>>

-----------------------------------------------------------------------------
(* The requests *)

Ordinal(r) == Cardinality({rows[r][i].ordinal : i \in DOMAIN rows[r]})

Row(r, kind, n) == [seq |-> Len(rows[r]) + 1, kind |-> kind, ordinal |-> n,
                    whole |-> TRUE]

\* A file opened to append is made if it is not there.
Added(j, row) == IF j = Absent THEN <<row>> ELSE Append(j, row)

\* append: one write, flushed and synced.
Appends(r, row) ==
    /\ Follows(rows[r], row)
    /\ files' = [files EXCEPT ![at[r]]["journal"] = Added(@, row)]
    /\ rows' = [rows EXCEPT ![r] = Append(@, row)]

\* The write or the sync fails: with nothing, a part or all of it in the file.
Raises(r, row) ==
    /\ Follows(rows[r], row)
    /\ faults < MaxFaults
    /\ faults' = faults + 1
    /\ \/ UNCHANGED <<files, spoiled>>
       \/ \E whole \in BOOLEAN :
            /\ files' = [files EXCEPT ![at[r]]["journal"] =
                           Added(@, [row EXCEPT !.whole = whole])]
            /\ spoiled' = spoiled \cup {at[r]}

diskRest == <<claimed, made, temps>>
historyRest == <<owned, sent, accepted, sealed, premature>>

Reserve(r) ==
    /\ phase[r] = "reserve"
    /\ LET row == Row(r, "reserve", Ordinal(r) + 1) IN
         \/ /\ Appends(r, row)
            /\ GoesTo(r, "send")
            /\ UNCHANGED <<at, file, bytes, faults, spoiled>>
         \/ Raises(r, row) /\ Ends(r)
    /\ UNCHANGED <<diskRest, historyRest>>

Send(r) ==
    /\ phase[r] = "send"
    /\ sent' = [sent EXCEPT ![at[r]][Ordinal(r)] = @ + 1]
    /\ GoesTo(r, "await")
    /\ UNCHANGED <<diskVars, localVars, faults, owned, accepted, sealed,
                   premature, spoiled>>

\* An answer within the contract; over the limit of input tokens it is last.
Settle(r, kind) ==
    /\ phase[r] = "await"
    /\ LET row == Row(r, kind, Ordinal(r)) IN
         \/ /\ Appends(r, row)
            /\ GoesTo(r, IF kind = "over" \/ Ordinal(r) = LastOrdinal
                         THEN "clear" ELSE "reserve")
            /\ UNCHANGED <<at, file, bytes, faults, spoiled>>
         \/ Raises(r, row) /\ GoesTo(r, "fail") /\ UNCHANGED localVars
    /\ accepted' = [accepted EXCEPT ![at[r]] =
                      IF kind = "settle" THEN @ \cup {Ordinal(r)} ELSE @]
    /\ UNCHANGED <<diskRest, owned, sent, sealed, premature>>

\* No answer, an answer outside of the contract, or a settlement that could
\* not be written: recorded, and the last one.
Fail(r) ==
    /\ phase[r] \in {"await", "fail"}
    /\ LET row == Row(r, "failure", Ordinal(r)) IN
         \/ /\ Appends(r, row)
            /\ GoesTo(r, "clear")
            /\ UNCHANGED <<at, file, bytes, faults, spoiled>>
         \/ Raises(r, row) /\ Ends(r)
    /\ UNCHANGED <<diskRest, historyRest>>

-----------------------------------------------------------------------------
(* The seal *)

\* finalize-partial on an output, whatever became of its run.
Seal(s, o) ==
    /\ phase[s] = "idle"
    /\ o \in made
    /\ at' = [at EXCEPT ![s] = o]
    /\ GoesTo(s, "clear")
    /\ UNCHANGED <<diskVars, file, rows, bytes, faults, historyVars>>

Recognised == {"result", "report", "manifest"}

\* Mutant: whatever has one of the names in its own is removed.
ClearMatches(p) ==
    /\ phase[p] = "clear"
    /\ files' = [files EXCEPT ![at[p]] =
                   [n \in Names |-> IF n \in Recognised THEN Absent ELSE @[n]]]
    /\ temps' = [temps EXCEPT ![at[p]] = {}]
    /\ GoesTo(p, "rows")
    /\ UNCHANGED <<claimed, made, localVars, faults, historyVars>>

\* Temporaries of dead writers, and of others that are not, are removed; at a
\* name that is none of theirs the command ends where it is.
Clear(p) ==
    /\ phase[p] = "clear"
    /\ LET left == {t[1] : t \in temps[at[p]]} IN
         IF at[p] \in made /\ left \subseteq Recognised
         THEN /\ temps' = [temps EXCEPT ![at[p]] = {}]
              /\ GoesTo(p, "rows")
              /\ UNCHANGED localVars
         ELSE /\ \E gone \in SUBSET {t \in temps[at[p]] : t[1] \in Recognised} :
                   temps' = [temps EXCEPT ![at[p]] = @ \ gone]
              /\ Ends(p)
    /\ UNCHANGED <<claimed, made, files, faults, historyVars>>

\* The names in the directory, the claim and the journal are looked at.
ReadRows(p) ==
    /\ phase[p] = "rows"
    /\ LET o == at[p] IN
         /\ IF /\ temps[o] = {}
               /\ Journal(o) # Absent
               /\ claimed
               /\ Readable(Journal(o))
            THEN /\ rows' = [rows EXCEPT ![p] = Journal(o)]
                 /\ GoesTo(p, "bytes")
                 /\ UNCHANGED <<at, file, bytes>>
            ELSE Ends(p)
         /\ premature' = premature \cup
              (IF \E r \in Runs : at[r] = o /\ GoesOn(r) THEN {o} ELSE {})
    /\ UNCHANGED <<diskVars, faults, owned, sent, accepted, sealed, spoiled>>

\* The journal is read again, for the manifest.
ReadBytes(p) ==
    /\ phase[p] = "bytes"
    /\ IF Journal(at[p]) = Absent
       THEN Ends(p)
       ELSE /\ bytes' = [bytes EXCEPT ![p] = Journal(at[p])]
            /\ file' = [file EXCEPT ![p] = "result"]
            /\ GoesTo(p, "look")
            /\ UNCHANGED <<at, rows>>
    /\ UNCHANGED <<diskVars, faults, historyVars>>

\* validate_artifact: every file is what the journal makes of it.
Validates(o) ==
    /\ claimed
    /\ \A name \in Names : files[o][name] # Absent
    /\ Readable(Journal(o))
    /\ LET result == Result(Journal(o)) IN
         /\ files[o]["result"] = result
         /\ files[o]["report"] = result
         /\ files[o]["manifest"] = ManifestOf(result, Journal(o))

Validate(p) ==
    /\ phase[p] = "validate"
    /\ sealed' = IF Validates(at[p]) /\ temps[at[p]] = {}
                 THEN sealed \cup {at[p]} ELSE sealed
    /\ Ends(p)
    /\ UNCHANGED <<diskVars, faults, owned, sent, accepted, premature, spoiled>>

-----------------------------------------------------------------------------

RunSteps(r) ==
    \/ LookForClaim(r) \/ LookAgain(r) \/ Take(r)
    \/ Cleanup(r) \/ RemoveDirectory(r)
    \/ Reserve(r) \/ Send(r) \/ Fail(r)
    \/ \E kind \in {"settle", "over"} : Settle(r, kind)

Steps(p) ==
    \/ Look(p) \/ Link(p) \/ Unlink(p)
    \/ Clear(p) \/ ReadRows(p) \/ ReadBytes(p) \/ Validate(p)

Next ==
    \/ \E r \in Runs, o \in Outputs : Begin(r, o)
    \/ \E r \in Runs : RunSteps(r)
    \/ \E s \in Sealers, o \in Outputs : Seal(s, o)
    \/ \E p \in Processes : Steps(p) \/ Kill(p)

Spec == Init /\ [][Next]_vars

\* No process works on the output any more.
Stopped(o) == \A p \in Processes : at[p] # o

\* A process that runs makes progress, a request ends (its timeout is 60 s),
\* and the operator does not neglect an output that stopped unsealed.
FairSpec ==
    /\ Spec
    /\ \A r \in Runs : WF_vars(RunSteps(r))
    /\ \A p \in Processes : WF_vars(Steps(p))
    /\ \A o \in Outputs :
         SF_vars(\E s \in Sealers : Stopped(o) /\ o \notin sealed /\ Seal(s, o))

-----------------------------------------------------------------------------
(* Properties *)

\* Type invariant; what is in a directory has the directory (run_prevalidated
\* removes it while a seal may be at work in it).
TypeOK ==
    /\ claimed \in BOOLEAN
    /\ {made, owned, sealed, premature, spoiled} \subseteq SUBSET Outputs
    /\ at \in [Processes -> Outputs \cup {Absent}]
    /\ file \in [Processes -> Names]
    /\ \A o \in Outputs : temps[o] \subseteq Names \X Processes
    /\ \A o \in Outputs \ made : files[o] = NoFiles /\ temps[o] = {}
    /\ \A p \in Processes : at[p] = Absent <=> phase[p] \in {"idle", "ended"}
    /\ faults \in 0..MaxFaults

\* A seal lasts: once validated, an output whose run had stopped writing is
\* valid in every later state, whatever other runs, seals and kills do to the
\* directory (create_output, finalize, _atomic).
SealedLasts == \A o \in sealed \ premature : Validates(o)

\* A sealed result charges every request that may have reached the provider,
\* counts none as completed without an answer, and is complete only if all
\* were answered within the contract (reconstruct, charged).
ResultHonest ==
    \A o \in sealed \ premature :
        LET r == files[o]["result"] IN
          /\ {n \in 1..LastOrdinal : sent[o][n] > 0} \subseteq DOMAIN r.charge
          /\ \A n \in r.completed : sent[o][n] = 1
          /\ r.status = "complete" => accepted[o] = 1..LastOrdinal

\* A run that got its claim is sealed in the end, by itself or by the operator.
EventuallySealed ==
    \A o \in Outputs :
        o \in owned ~> o \in sealed \cup premature \cup spoiled

-----------------------------------------------------------------------------
(* What the documents say and the code does not keep (README, section 3.3) *)

\* A request is sent at most once for a lineage, whoever runs at the same time
\* (create_claim and its "claim already exists").
SentOnce ==
    \A n \in 1..LastOrdinal :
        Cardinality({o \in Outputs : sent[o][n] > 0}) <= 1
=============================================================================
