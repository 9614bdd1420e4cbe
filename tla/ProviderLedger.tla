--------------------------- MODULE ProviderLedger ---------------------------
(***************************************************************************)
(* The provider client of the corpus commands and its cost ledger.  Every  *)
(* request is reserved, sent, closed and journaled, and after each of      *)
(* these the whole ledger is written as one more immutable snapshot; a     *)
(* process that starts resumes the newest snapshot.                        *)
(*                                                                         *)
(* A call is the request for one task set at one stage; prompts and        *)
(* responses are known by the call and by what the provider made of it.    *)
(***************************************************************************)
EXTENDS Integers, Sequences, FiniteSetsExt

CONSTANTS
    Procs,      \* processes of the command on one work directory
    Plans,      \* the plans and policies the command may be run under
    Worst,      \* stage -> what a request may cost by the local price table
    Wide,       \* first snapshot number that outgrows its zero padding
    None

\* Calls and requests: an author call is for a batch, a reviewer call for one
\* of its rows.
Calls == [stage : {"author"}, batch : Nat, row : {0}]
             \cup [stage : {"reviewer"}, batch : Nat, row : Nat \ {0}]
RequestIds == [call : Calls, attempt : Nat]
ReplyType == [kind : {"good", "malformed", "lost", "invalid"}, cost : Nat]

ASSUME LedgerAssumption ==
    /\ IsFiniteSet(Procs)
    /\ Worst \in [{"author", "reviewer"} -> Nat]
    /\ None \notin RequestIds \cup ReplyType
    /\ \A p \in Plans :
         /\ p.procs \subseteq Procs
         /\ p.capped \in BOOLEAN
         /\ p.costs \subseteq Nat
         /\ p.limit \in [{"author", "reviewer"} -> Nat] /\ p.total \in Nat
         /\ p.kinds \subseteq {"good", "malformed", "lost", "invalid"}
    /\ Wide \in Nat \ {0}

VARIABLES
    plan,       \* the plan and policy of this work directory
    ledger,     \* process -> its ledger in memory
    last,       \* process -> the last journaled request of its client, or None
    request,    \* process -> the request under way: its id and reply
    disk,       \* the snapshot that sorts last
    written,    \* number of snapshots
    sent        \* all requests that reached the provider, in order

ledgerVars == <<plan, ledger, last, request, disk, written, sent>>

Capped == plan.capped   \* the hard-cap policy; otherwise the report-only one
Limit == plan.limit     \* stage -> its budget
Total == plan.total     \* the budget of all stages
Costs == plan.costs     \* costs the provider may report
Kinds == plan.kinds     \* what may become of a request, see Replies

Empty == [entries |-> <<>>, journal |-> <<>>]
NoRequest == [id |-> None, reply |-> None]

(* good: a settled response with usable content; malformed: a settled      *)
(* response without; lost: the transport failed or no cost can be read;    *)
(* invalid: a cost is reported that the ledger does not accept.            *)
Replies ==
    [kind : Kinds \cap {"good", "malformed"}, cost : Costs]
        \cup [kind : Kinds \cap {"lost", "invalid"}, cost : {0}]

LedgerInit ==
    /\ plan \in Plans
    /\ ledger = [p \in Procs |-> Empty]
    /\ last = [p \in Procs |-> None]
    /\ request = [p \in Procs |-> NoRequest]
    /\ disk = Empty
    /\ written = 0
    /\ sent = <<>>

-----------------------------------------------------------------------------
(* Ledgers.                                                                *)

Larger(a, b) == IF a < b THEN b ELSE a

Ids(seq) == {seq[i].id : i \in DOMAIN seq}
Items(seq) == {seq[i] : i \in DOMAIN seq}

SumOver(entries, S) == MapThenSumSet(LAMBDA i : entries[i].debit, S)
SpentAll(entries) == SumOver(entries, DOMAIN entries)
Spent(entries, stage) ==
    SumOver(entries, {i \in DOMAIN entries : entries[i].id.call.stage = stage})

Over(entries, stage) == Spent(entries, stage) > Limit[stage] \/ SpentAll(entries) > Total

\* (mutant) the cost to come is left out
FitsSoFar(entries, stage, cost) ==
    Capped =>
        /\ \A e \in Items(entries) : e.status # "overspent"
        /\ Spent(entries, stage) <= Limit[stage]
        /\ SpentAll(entries) <= Total

Fits(entries, stage, cost) ==
    Capped =>
        /\ \A e \in Items(entries) : e.status # "overspent"
        /\ Spent(entries, stage) + cost <= Limit[stage]
        /\ SpentAll(entries) + cost <= Total

Reserved(id) == [id |-> id, debit |-> Worst[id.call.stage], status |-> "reserved",
                 reply |-> None]

EntryOf(entries, id) == CHOOSE i \in DOMAIN entries : entries[i].id = id

Settled(entries, i, reply) ==
    [entries EXCEPT ![i].status = "settled", ![i].reply = reply,
                    ![i].debit = Larger(@, reply.cost)]

\* A charged reservation is settled or marked uncertain, never released.
Closed(entries, id, reply) ==
    LET i == EntryOf(entries, id)
        settled == Settled(entries, i, reply)
    IN  IF reply.kind = "invalid" THEN entries
        ELSE IF reply.kind = "lost" THEN [entries EXCEPT ![i].status = "uncertain"]
        ELSE IF Capped /\ Over(settled, id.call.stage)
        THEN [settled EXCEPT ![i].status = "overspent"]
        ELSE settled

-----------------------------------------------------------------------------
(* Snapshots.  A new one has to extend the one that sorts last: file names *)
(* have four digits, so that snapshots from number Wide on sort before     *)
(* number Wide - 1.                                                        *)

ExtendsEntry(old, new) ==
    \/ new = old
    \/ /\ old.status = "reserved"
       /\ new.status # "reserved"
       /\ new.id = old.id
       /\ new.debit >= old.debit

Extends(old, new) ==
    /\ Len(old.entries) <= Len(new.entries)
    /\ \A i \in DOMAIN old.entries : ExtendsEntry(old.entries[i], new.entries[i])
    /\ Len(old.journal) <= Len(new.journal)
    /\ \A i \in DOMAIN old.journal : new.journal[i] = old.journal[i]

\* (mutant) a snapshot is written whatever the previous one holds
WriteUnchecked(l) ==
    /\ disk' = IF written < Wide THEN l ELSE disk
    /\ written' = written + 1

Write(l) ==
    /\ Extends(disk, l)
    /\ disk' = IF written < Wide THEN l ELSE disk
    /\ written' = written + 1

WriteFails(l) ==
    /\ ~Extends(disk, l)
    /\ UNCHANGED <<disk, written>>

-----------------------------------------------------------------------------
(* One request of process p.  Each step tells in ok whether it went well.  *)

Attempts(journal, call) == Cardinality({i \in DOMAIN journal : journal[i].call = call})

\* Only a policy with retries numbers the attempts of a call.
NewId(p, call) ==
    [call |-> call,
     attempt |-> IF Capped THEN 0 ELSE Attempts(ledger[p].journal, call)]

Reserve(p, call, ok) ==
    LET id == NewId(p, call)
        reserved == [ledger[p] EXCEPT !.entries = Append(@, Reserved(id))]
        allowed == /\ id \notin Ids(ledger[p].entries)
                   /\ Fits(ledger[p].entries, call.stage, Worst[call.stage])
    IN  /\ request' = [request EXCEPT ![p] = [id |-> id, reply |-> None]]
        /\ \/ ok /\ allowed /\ Write(reserved)
           \/ ~ok /\ allowed /\ WriteFails(reserved)
           \/ ~ok /\ ~allowed /\ UNCHANGED <<disk, written>>
        /\ ledger' = IF allowed THEN [ledger EXCEPT ![p] = reserved] ELSE ledger
        /\ UNCHANGED <<plan, last, sent>>

Transport(p) ==
    /\ \E reply \in Replies :
         /\ request' = [request EXCEPT ![p].reply = reply]
         /\ sent' = Append(sent, [id |-> request[p].id, reply |-> reply])
    /\ UNCHANGED <<plan, ledger, last, disk, written>>

\* A reported cost that is not accepted leaves the reservation as it is.
Close(p, ok) ==
    LET id == request[p].id
        closed == [ledger[p] EXCEPT !.entries = Closed(@, id, request[p].reply)]
    IN  /\ ledger' = [ledger EXCEPT ![p] = closed]
        /\ \/ ok = (request[p].reply.kind # "invalid") /\ Write(closed)
           \/ ~ok /\ WriteFails(closed)
        /\ UNCHANGED <<plan, last, request, sent>>

Journal(p, ok) ==
    LET id == request[p].id
        journaled == [ledger[p] EXCEPT !.journal = Append(@, id)]
    IN  /\ ledger' = [ledger EXCEPT ![p] = journaled]
        /\ \/ ok /\ Write(journaled) /\ last' = [last EXCEPT ![p] = id]
           \/ ~ok /\ WriteFails(journaled) /\ UNCHANGED last
        /\ UNCHANGED <<plan, request, sent>>

\* A new process resumes the snapshot that sorts last.
Resume(p) ==
    /\ ledger' = [ledger EXCEPT ![p] = disk]
    /\ UNCHANGED <<plan, last, request, disk, written, sent>>

Forget(p) ==
    /\ ledger' = [ledger EXCEPT ![p] = Empty]
    /\ last' = [last EXCEPT ![p] = None]
    /\ request' = [request EXCEPT ![p] = NoRequest]
    /\ UNCHANGED <<plan, disk, written, sent>>

-----------------------------------------------------------------------------

\* The reservation a request made is in the snapshot a resumed process would
\* load, charged with what was reserved and with the cost reported since, also
\* when two commands write their ledgers over each other.
Charged ==
    \A i \in DOMAIN sent :
        \E e \in Items(disk.entries) :
            /\ e.id = sent[i].id
            /\ e.debit >= Worst[e.id.call.stage]
            /\ e.status # "reserved" /\ sent[i].reply = e.reply => e.debit >= sent[i].reply.cost

\* No response that was good, and none whose outcome is unknown, is requested
\* a second time, whatever processes come and go one after the other.
NeverRepeated ==
    Cardinality(plan.procs) = 1 => \A i, j \in DOMAIN sent :
        i < j /\ sent[i].id.call = sent[j].id.call => sent[i].reply.kind = "malformed"

\* Under the hard-cap policy everything before an overspent entry is within
\* budget, and the overspent entry is the last there ever is.
BudgetKept ==
    Capped => \A i \in DOMAIN disk.entries :
        LET before == SubSeq(disk.entries, 1, i) IN
        /\ disk.entries[i].status = "overspent" => i = Len(disk.entries)
        /\ disk.entries[i].status # "overspent" =>
              ~Over(before, disk.entries[i].id.call.stage)

=============================================================================
