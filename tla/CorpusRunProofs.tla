--------------------------- MODULE CorpusRunProofs ---------------------------
(***************************************************************************)
(* What is proved of the corpus command and its provider ledger, for all   *)
(* plans, policies and budgets and any number of batches, rows, attempts   *)
(* and deaths: the types; that what was sent is charged; that one command  *)
(* after the other does not ask again for what it has paid for; that every *)
(* resolution names the final attempt of its calls; and that a command     *)
(* that did not die leaves nothing behind that stops the next one.         *)
(*                                                                         *)
(* All but the types is said of the snapshots that sort by their number    *)
(* (written <= Wide).                                                      *)
(***************************************************************************)
EXTENDS CorpusRun, FiniteSetTheorems, WellFoundedInduction, TLAPS

Statuses == {"reserved", "settled", "uncertain", "overspent"}
EntryType == [id : RequestIds, debit : Nat, status : Statuses,
              reply : ReplyType \cup {None}]
LedgerType == [entries : Seq(EntryType), journal : Seq(RequestIds)]

\* The places of a process: within a request, within a batch whose calls are
\* not all answered, and with a batch that is not resolved.
Asking == {"send", "close", "journal"}
InHand == {"reserve", "send", "close", "journal", "answered", "failed"}
Unresolved == InHand \cup {"store"}
Steps == Unresolved \cup {"off", "next", "diagnose", "raise", "project", "finish", "seal"}

WorkType == [batch : {0} \cup BatchNumbers, row : {0} \cup RowNumbers, attempt : Nat,
             author : RequestIds \cup {None}, raises : BOOLEAN,
             rows : Outcomes(Rows), done : SUBSET BatchNumbers]

-----------------------------------------------------------------------------
(* One command at a time and its requests: what is sent has been reserved, *)
(* and is sent once.                                                       *)

LastEntry == disk.entries[Len(disk.entries)]

\* So far the provider has answered the call under way with malformed responses.
Clean(p) == \A i \in DOMAIN sent :
    sent[i].id.call = CallOf(p) => sent[i].reply.kind = "malformed"
\* The next request has its entry already, so that it is refused.
Blocked(p) ==
    /\ request[p].id = NewId(p, CallOf(p))
    /\ request[p].id \in Ids(disk.entries)

\* The process has written what it holds.
Synced(p) == pc[p] # "off" => ledger[p] = disk
OneEntryEach == \A i, j \in DOMAIN disk.entries :
    disk.entries[i].id = disk.entries[j].id => i = j
\* The request under way is the last entry, open until it is closed.
UnderWay(p) == pc[p] \in Asking =>
    /\ request[p].id.call = CallOf(p)
    /\ disk.entries # <<>>
    /\ LastEntry.id = request[p].id
    /\ pc[p] # "journal" => LastEntry.status = "reserved"
    /\ ~Capped => request[p].id = NewId(p, CallOf(p))
    /\ pc[p] = "journal" =>
          /\ request[p].reply.kind # "invalid"
          /\ LastEntry.status # "reserved"
          /\ (LastEntry.status = "uncertain") <=> (request[p].reply.kind = "lost")
          /\ ~Capped => LastEntry.status # "overspent"
SentLast(p) == pc[p] \in {"close", "journal"} =>
    sent # <<>> /\ sent[Len(sent)] = [id |-> request[p].id, reply |-> request[p].reply]
\* Requests are sent in the order of batches and rows.
Confined(p) ==
    /\ pc[p] \in Unresolved =>
          /\ work[p].batch \notin work[p].done
          /\ \A i \in DOMAIN sent :
                sent[i].id.call.batch \in work[p].done \cup {work[p].batch}
    /\ pc[p] \in InHand => \A i \in DOMAIN sent :
          sent[i].id.call.batch = work[p].batch => sent[i].id.call.row <= work[p].row
    /\ pc[p] \in {"next", "diagnose", "project"} =>
          \A i \in DOMAIN sent : sent[i].id.call.batch \in work[p].done
\* What is asked for is new, or has only been answered malformed.
Fresh(p) ==
    /\ pc[p] = "reserve" => Clean(p) \/ Blocked(p)
    /\ pc[p] = "send" => Clean(p)
    /\ pc[p] \in {"close", "journal"} => \A i \in DOMAIN sent :
          i < Len(sent) /\ sent[i].id.call = CallOf(p) => sent[i].reply.kind = "malformed"
    /\ pc[p] = "failed" /\ ~Capped /\ ~LastLost(p) => Clean(p) \/ Blocked(p)
NoRepeat == \A i, j \in DOMAIN sent :
    i < j /\ sent[i].id.call = sent[j].id.call => sent[i].reply.kind = "malformed"

Recorded == \A i \in DOMAIN sent : sent[i].id \in Ids(disk.entries)
Run(p) == Recorded /\ Synced(p) /\ OneEntryEach /\ UnderWay(p) /\ SentLast(p)
          /\ Confined(p) /\ Fresh(p) /\ NoRepeat

-----------------------------------------------------------------------------
(* One command at a time and its records and resolutions.                 *)

\* No process has died since the last one started.
Orderly(p) == pc[p] # "off" \/ deaths = 0

\* Attempts are numbered from 0, so that the next number is free.
Counted == ~Capped => \A k \in DOMAIN disk.journal :
    disk.journal[k].attempt < Attempts(disk.journal, disk.journal[k].call)
Unasked(call) == \A k \in DOMAIN disk.journal : disk.journal[k].call # call
\* Every entry but that of the request under way is on record.
Journaled(p) == Orderly(p) =>
    Ids(disk.entries) = Items(disk.journal)
                          \cup (IF pc[p] \in Asking THEN {request[p].id} ELSE {})
Open(p) == IF pc[p] \in Unresolved THEN {work[p].batch} ELSE {}
\* What is on record belongs to resolved batches or to the one under way, up to
\* the row under way.
Places(p) ==
    /\ Orderly(p) => \A k \in DOMAIN disk.journal :
          disk.journal[k].call.batch \in ResolvedBatches \cup Open(p)
    /\ pc[p] \in InHand => \A k \in DOMAIN disk.journal :
          disk.journal[k].call.batch = work[p].batch
             => disk.journal[k].call.row <= work[p].row
DoneIsResolved(p) == pc[p] # "off" => work[p].done = ResolvedBatches
Heard(p) == last[p] = request[p].id /\ request[p].id.call = CallOf(p)
\* The client's last record is the last on file, and that of the request that
\* was just answered; a capped call is not on record before it is made.
LastIs(p) ==
    /\ last[p] # None => /\ disk.journal # <<>>
                         /\ last[p] = disk.journal[Len(disk.journal)]
    /\ pc[p] = "answered" => Heard(p) /\ last[p] # None
    /\ pc[p] = "failed" => (Heard(p) /\ last[p] # None) \/ (Capped /\ Unasked(CallOf(p)))
    /\ pc[p] \in {"reserve", "send", "close"} /\ Capped => Unasked(CallOf(p))
\* The rows of the batch under way name the final requests of their calls.
Named(p) ==
    LET b == work[p].batch IN
    /\ pc[p] \in InHand /\ work[p].row = 0 =>
          \A r \in RowNumbers : work[p].rows[r].reviewer = None
    /\ pc[p] \in InHand /\ work[p].row # 0 =>
          /\ work[p].author = Final(disk.journal, AuthorCall(b))
          /\ \A r \in RowNumbers \ {work[p].row} :
                work[p].rows[r].reviewer = Final(disk.journal, ReviewerCall(b, r))
    /\ pc[p] = "store" =>
          /\ work[p].author = Final(disk.journal, AuthorCall(b))
          /\ \A r \in RowNumbers :
                work[p].rows[r].reviewer = Final(disk.journal, ReviewerCall(b, r))
Lineage == LineageValid(disk.journal)

\* Only the request under way is reserved.
AllClosed(p) == Orderly(p) => \A i \in DOMAIN disk.entries :
    disk.entries[i].status = "reserved" =>
        pc[p] \in {"send", "close"} /\ i = Len(disk.entries)
Diagnosed(p) == Orderly(p) /\ ~Capped =>
    ResolvedBatches = diagnosed \cup (IF pc[p] = "diagnose" THEN {work[p].batch} ELSE {})
\* An uncertain entry is bound to the rows that were rejected for it: on file,
\* or in what is held of the batch under way.
BoundBy(author, rows, e) ==
    IF e.id.call.row = 0
    THEN author = e.id /\ \A r \in RowNumbers : rows[r].mark = "authorLost"
    ELSE rows[e.id.call.row] = Row("reviewerLost", e.id)
Lost(p) == ~Capped => \A i \in DOMAIN disk.entries :
    LET e == disk.entries[i]
        b == e.id.call.batch
    IN  Orderly(p) /\ e.status = "uncertain" =>
        IF b \in ResolvedBatches THEN BoundBy(resolved[b].author, resolved[b].rows, e)
        ELSE \/ pc[p] = "store" /\ BoundBy(work[p].author, work[p].rows, e)
             \/ pc[p] \in InHand /\ e.id.call.row \in RowNumbers /\ e.id.call.row < work[p].row
                 /\ work[p].rows[e.id.call.row] = Row("reviewerLost", e.id)
             \/ pc[p] \in {"journal", "failed"} /\ i = Len(disk.entries) /\ e.id.call = CallOf(p)
\* The entry of the request that was just answered is the last one.
FailedEnd(p) == ~Capped /\ pc[p] \in {"answered", "failed"} =>
    /\ disk.entries # <<>>
    /\ LastEntry.id = request[p].id
    /\ pc[p] = "answered" => LastEntry.status # "uncertain"

\* No cost was reported that is not accepted.
Accepted(p) == pc[p] = "close" => request[p].reply.kind # "invalid"

Tidy(p) == Counted /\ Journaled(p) /\ Places(p) /\ DoneIsResolved(p) /\ LastIs(p)
    /\ Named(p) /\ Lineage /\ AllClosed(p) /\ Diagnosed(p) /\ Lost(p) /\ FailedEnd(p)
    /\ Accepted(p)

-----------------------------------------------------------------------------
(* The types of the state, in parts.                                       *)

LedgersTyped ==
    /\ plan \in Plans
    /\ ledger \in [Procs -> LedgerType]
    /\ last \in [Procs -> RequestIds \cup {None}]
    /\ request \in [Procs -> [id : RequestIds \cup {None}, reply : ReplyType \cup {None}]]
    /\ disk \in LedgerType
    /\ written \in Nat
    /\ sent \in Seq([id : RequestIds, reply : ReplyType])
FilesTyped ==
    /\ resolved \in [BatchNumbers -> Resolutions(Rows) \cup {None}]
    /\ diagnosed \subseteq BatchNumbers
    /\ complete \in BOOLEAN
    /\ packet \in {"none", "sealed", "failed"}
    /\ deaths \in Nat
WorkTyped ==
    /\ pc \in [Procs -> Steps]
    /\ work \in [Procs -> WorkType]
\* What a step of the process relies on having been prepared.
Ready(p) ==
    /\ pc[p] \in Asking => request[p].id \in RequestIds \cap Ids(ledger[p].entries)
    /\ pc[p] \in {"close", "journal"} => request[p].reply \in ReplyType
    /\ pc[p] \in Unresolved \cup {"diagnose", "project", "raise"} =>
          work[p].batch \in BatchNumbers
    /\ pc[p] # "off" => p \in plan.procs

TypeOK == LedgersTyped /\ FilesTyped /\ WorkTyped /\ \A p \in Procs : Ready(p)

-----------------------------------------------------------------------------
(* Types.                                                                  *)

LEMMA NoneApart == None \notin RequestIds /\ None \notin ReplyType
  BY LedgerAssumption

LEMMA PlanTyped ==
    ASSUME TypeOK
    PROVE  /\ Capped \in BOOLEAN
           /\ Rows \in Nat \ {0} /\ plan.batches \in Nat \ {0}
           /\ plan.procs \subseteq Procs
           /\ Replies \subseteq ReplyType
           /\ None \notin Resolutions(Rows)
<1>1. /\ plan.procs \subseteq Procs /\ plan.capped \in BOOLEAN /\ plan.costs \subseteq Nat
      /\ plan.kinds \subseteq {"good", "malformed", "lost", "invalid"}
  BY LedgerAssumption DEF TypeOK, LedgersTyped
<1>2. {plan.batches, plan.rows, plan.attempts} \subseteq Nat \ {0}
  BY CorpusAssumption DEF TypeOK, LedgersTyped
<1>3. None \notin Resolutions(plan.rows)
  BY CorpusAssumption DEF TypeOK, LedgersTyped
<1>4. Replies \subseteq ReplyType
  BY <1>1 DEF Replies, ReplyType, Costs, Kinds
<1> QED BY <1>1, <1>2, <1>3, <1>4 DEF Capped, Rows

LEMMA CallTyped ==
    ASSUME TypeOK, NEW p \in Procs, pc[p] \in Unresolved
    PROVE  CallOf(p) \in Calls
<1>1. work[p].batch \in BatchNumbers /\ work[p].row \in {0} \cup RowNumbers
  <2>1. work[p] \in WorkType
    BY DEF TypeOK, WorkTyped
  <2>2. work[p].batch \in BatchNumbers
    BY DEF TypeOK, Ready
  <2> QED BY <2>1, <2>2 DEF WorkType
<1>2. work[p].batch \in Nat /\ work[p].row \in Nat
  BY <1>1, PlanTyped DEF BatchNumbers, RowNumbers
<1>3. CASE work[p].row = 0
  BY <1>2, <1>3 DEF CallOf, AuthorCall, Calls
<1>4. CASE work[p].row # 0
  BY <1>2, <1>4 DEF CallOf, ReviewerCall, Calls
<1> QED BY <1>3, <1>4

LEMMA AttemptsTyped ==
    ASSUME NEW j \in Seq(RequestIds), NEW c
    PROVE  /\ IsFiniteSet({i \in DOMAIN j : j[i].call = c})
           /\ Attempts(j, c) \in Nat
<1>1. DOMAIN j = 1 .. Len(j) /\ Len(j) \in Nat
  OBVIOUS
<1>2. IsFiniteSet(DOMAIN j)
  BY <1>1, FS_Interval
<1>3. IsFiniteSet({i \in DOMAIN j : j[i].call = c})
  BY <1>2, FS_Subset
<1> QED BY <1>3, FS_CardinalityType DEF Attempts

LEMMA NewIdTyped ==
    ASSUME TypeOK, NEW p \in Procs, NEW c \in Calls
    PROVE  NewId(p, c) \in RequestIds
<1>1. Attempts(ledger[p].journal, c) \in Nat
  BY AttemptsTyped DEF TypeOK, LedgersTyped, LedgerType
<1> QED BY <1>1, PlanTyped DEF NewId, RequestIds

LEMMA ReservedTyped ==
    ASSUME NEW id \in RequestIds
    PROVE  Reserved(id) \in EntryType
<1>1. id.call.stage \in {"author", "reviewer"}
  BY DEF RequestIds, Calls
<1>2. Worst[id.call.stage] \in Nat
  BY <1>1, LedgerAssumption
<1> QED BY <1>2 DEF Reserved, EntryType, Statuses

LEMMA SettledFacts ==
    ASSUME NEW entries \in Seq(EntryType), NEW i \in DOMAIN entries, NEW reply \in ReplyType
    PROVE  LET settled == Settled(entries, i, reply) IN
           /\ settled \in Seq(EntryType)
           /\ Len(settled) = Len(entries)
           /\ \A j \in DOMAIN entries : j # i => settled[j] = entries[j]
           /\ settled[i].id = entries[i].id
           /\ settled[i].status = "settled"
           /\ settled[i].reply = reply
           /\ settled[i].debit >= entries[i].debit
           /\ settled[i].debit >= reply.cost
<1>1. reply.cost \in Nat
  BY DEF ReplyType
<1>2. entries[i] \in EntryType
  OBVIOUS
<1>3. PICK debit \in Nat : /\ debit = Larger(entries[i].debit, reply.cost)
                          /\ debit >= entries[i].debit /\ debit >= reply.cost
  BY <1>1, <1>2 DEF EntryType, Larger
<1>4. [entries[i] EXCEPT !.status = "settled", !.reply = reply, !.debit = debit] \in EntryType
  BY <1>2, <1>3 DEF EntryType, Statuses
<1>5. Settled(entries, i, reply)
        = [entries EXCEPT ![i] = [entries[i] EXCEPT !.status = "settled", !.reply = reply,
                                                    !.debit = debit]]
  BY <1>2, <1>3 DEF Settled, EntryType
<1> DEFINE entry == [entries[i] EXCEPT !.status = "settled", !.reply = reply, !.debit = debit]
<1>6. /\ entry.id = entries[i].id /\ entry.status = "settled"
      /\ entry.reply = reply /\ entry.debit = debit
  BY <1>2 DEF EntryType
<1>7. entry \in EntryType /\ Settled(entries, i, reply) = [entries EXCEPT ![i] = entry]
  BY <1>4, <1>5
<1> HIDE DEF entry
<1> QED BY <1>3, <1>6, <1>7

\* What closing a request may do to the entries: to no other entry than one of
\* the request, and no debit gets smaller.
ClosedLegally(entries, i, reply, closed) ==
    /\ closed \in Seq(EntryType)
    /\ Len(closed) = Len(entries)
    /\ \A j \in DOMAIN entries : j # i => closed[j] = entries[j]
    /\ closed[i].id = entries[i].id
    /\ closed[i].debit >= entries[i].debit
    /\ \/ /\ reply.kind = "invalid"
          /\ closed[i] = entries[i]
       \/ /\ reply.kind = "lost"
          /\ closed[i].status = "uncertain"
          /\ closed[i].reply = entries[i].reply
       \/ /\ reply.kind \notin {"invalid", "lost"}
          /\ closed[i].status = "settled" \/ (Capped /\ closed[i].status = "overspent")
          /\ closed[i].reply = reply
          /\ closed[i].debit >= reply.cost

LEMMA ClosedFacts ==
    ASSUME NEW entries \in Seq(EntryType), NEW id, NEW reply \in ReplyType,
           EntryOf(entries, id) \in DOMAIN entries
    PROVE  ClosedLegally(entries, EntryOf(entries, id), reply, Closed(entries, id, reply))
<1>1. PICK i \in DOMAIN entries : i = EntryOf(entries, id)
  OBVIOUS
<1>2. entries[i] \in EntryType
  BY <1>1
<1>3. CASE reply.kind = "invalid"
  BY <1>1, <1>2, <1>3 DEF Closed, ClosedLegally, EntryType
<1>4. CASE reply.kind = "lost"
  <2>1. Closed(entries, id, reply) = [entries EXCEPT ![i] = [entries[i] EXCEPT !.status = "uncertain"]]
    BY <1>1, <1>2, <1>4 DEF Closed, EntryType
  <2>2. [entries[i] EXCEPT !.status = "uncertain"] \in EntryType
    BY <1>2 DEF EntryType, Statuses
  <2> QED BY <1>1, <1>2, <1>4, <2>1, <2>2 DEF ClosedLegally, EntryType
<1>5. CASE reply.kind \notin {"invalid", "lost"}
  <2>1. PICK settled \in Seq(EntryType) :
          /\ settled = Settled(entries, i, reply)
          /\ Len(settled) = Len(entries)
          /\ \A j \in DOMAIN entries : j # i => settled[j] = entries[j]
          /\ settled[i].id = entries[i].id
          /\ settled[i].status = "settled"
          /\ settled[i].reply = reply
          /\ settled[i].debit >= entries[i].debit
          /\ settled[i].debit >= reply.cost
    BY <1>1, SettledFacts
  <2>2. CASE ~(Capped /\ Over(settled, id.call.stage))
    <3>1. Closed(entries, id, reply) = settled
      BY <1>1, <1>5, <2>1, <2>2 DEF Closed
    <3> QED BY <1>1, <1>2, <1>5, <2>1, <3>1 DEF ClosedLegally
  <2>3. CASE Capped /\ Over(settled, id.call.stage)
    <3>1. settled[i] \in EntryType
      BY <1>1, <2>1
    <3>2. Closed(entries, id, reply)
            = [settled EXCEPT ![i] = [settled[i] EXCEPT !.status = "overspent"]]
      BY <1>1, <1>5, <2>1, <2>3, <3>1 DEF Closed, EntryType
    <3>3. [settled[i] EXCEPT !.status = "overspent"] \in EntryType
      BY <3>1 DEF EntryType, Statuses
    <3> QED BY <1>1, <1>2, <1>5, <2>1, <2>3, <3>1, <3>2, <3>3 DEF ClosedLegally, EntryType
  <2> QED BY <2>2, <2>3
<1> QED BY <1>3, <1>4, <1>5

-----------------------------------------------------------------------------
(* The operators on sets of numbers and on journals.                       *)

LEMMA MinFacts ==
    ASSUME NEW S \in SUBSET Nat, S # {}
    PROVE  Min(S) \in S /\ \A x \in S : Min(S) <= x
<1> DEFINE R == OpToRel(<, Nat)
<1>1. IsWellFoundedOn(R, Nat)
  BY NatLessThanWellFounded
<1>2. \A x, m \in Nat : x < m => <<x, m>> \in R
  BY DEF OpToRel
<1> HIDE DEF R
<1>3. PICK m \in S : \A x \in S : m <= x
  <2>1. PICK m \in S : \A x \in S : ~(<<x, m>> \in R)
    BY <1>1, WFMin
  <2>2. \A x \in S : m <= x
    <3> TAKE x \in S
    <3>1. x \in Nat /\ m \in Nat /\ ~(x < m)
      BY <1>2, <2>1
    <3> QED BY <3>1
  <2> QED BY <2>2
<1>4. \E m_1 \in S : \A x \in S : m_1 <= x
  BY <1>3
<1> QED BY <1>4, Zenon DEF Min

LEMMA MaxFacts ==
    ASSUME NEW n \in Nat, NEW S \in SUBSET (1 .. n), S # {}
    PROVE  Max(S) \in S /\ \A x \in S : x <= Max(S)
<1> DEFINE T == {n - x : x \in S}
<1>1. T \in SUBSET Nat /\ T # {}
  <2>1. PICK x \in S : TRUE
    OBVIOUS
  <2>2. n - x \in T
    BY <2>1
  <2>3. \A y \in S : n - y \in Nat
    OBVIOUS
  <2> QED BY <2>2, <2>3
<1>2. PICK m \in T : \A x \in T : m <= x
  BY <1>1, MinFacts
<1>3. PICK k \in S : m = n - k
  BY <1>2
<1>4. \A x \in S : x <= k
  <2> TAKE x \in S
  <2>1. m <= n - x
    BY <1>2
  <2> QED BY <1>3, <2>1
<1>5. \E k_1 \in S : \A x \in S : k_1 >= x
  BY <1>4
<1>6. Max(S) \in S /\ \A x \in S : Max(S) >= x
  BY <1>5, Zenon DEF Max
<1> QED BY <1>6

LEMMA AttemptsAppend ==
    ASSUME NEW j \in Seq(RequestIds), NEW id \in RequestIds, NEW c
    PROVE  Attempts(Append(j, id), c) = Attempts(j, c) + (IF id.call = c THEN 1 ELSE 0)
<1> DEFINE n == Len(j) + 1
           S == {i \in DOMAIN j : j[i].call = c}
           T == {i \in DOMAIN Append(j, id) : Append(j, id)[i].call = c}
<1>1. IsFiniteSet(S) /\ Cardinality(S) \in Nat
  BY AttemptsTyped DEF Attempts
<1>2. n \notin S
  OBVIOUS
<1>3. CASE id.call = c
  <2>1. T = S \cup {n}
    BY <1>3
  <2>2. Cardinality(T) = Cardinality(S) + 1
    BY <1>1, <1>2, <2>1, FS_AddElement
  <2> QED BY <1>3, <2>2 DEF Attempts
<1>4. CASE id.call # c
  <2>1. T = S
    BY <1>4
  <2>2. Attempts(Append(j, id), c) = Attempts(j, c) /\ Attempts(j, c) \in Nat
    BY <1>1, <2>1 DEF Attempts
  <2> QED BY <1>4, <2>2
<1> QED BY <1>3, <1>4

LEMMA FinalAppend ==
    ASSUME NEW j \in Seq(RequestIds), NEW id \in RequestIds, NEW c
    PROVE  Final(Append(j, id), c) = IF id.call = c THEN id ELSE Final(j, c)
<1> DEFINE n == Len(j) + 1
           S == {i \in DOMAIN j : j[i].call = c}
           T == {i \in DOMAIN Append(j, id) : Append(j, id)[i].call = c}
<1>1. n \in Nat /\ T \in SUBSET (1 .. n)
  OBVIOUS
<1>2. CASE id.call = c
  <2>1. n \in T
    BY <1>2
  <2>2. Max(T) = n
    <3> HIDE DEF n, T
    <3>1. Max(T) \in T /\ \A x \in T : x <= Max(T)
      BY <1>1, <2>1, MaxFacts
    <3>2. Max(T) \in 1 .. n
      BY <1>1, <3>1
    <3>3. n <= Max(T)
      BY <2>1, <3>1
    <3> QED BY <1>1, <3>2, <3>3
  <2>3. Append(j, id)[n] = id
    OBVIOUS
  <2>4. Final(Append(j, id), c) = Append(j, id)[Max(T)]
    BY <2>1 DEF Final
  <2> QED BY <1>2, <2>2, <2>3, <2>4
<1>3. CASE id.call # c
  <2>1. T = S
    BY <1>3
  <2>2. CASE S = {}
    BY <1>3, <2>1, <2>2 DEF Final
  <2>3. CASE S # {}
    <3>1. S \in SUBSET (1 .. Len(j)) /\ Len(j) \in Nat
      OBVIOUS
    <3>2. Max(S) \in S
      <4> HIDE DEF S
      <4> QED BY <2>3, <3>1, MaxFacts
    <3>3. Append(j, id)[Max(S)] = j[Max(S)]
      BY <3>1, <3>2
    <3>4. Final(j, c) = j[Max(S)]
      BY <2>3 DEF Final
    <3>5. Final(Append(j, id), c) = Append(j, id)[Max(T)]
      BY <2>1, <2>3 DEF Final
    <3> QED BY <1>3, <2>1, <3>3, <3>4, <3>5
  <2> QED BY <2>2, <2>3
<1> QED BY <1>2, <1>3

LEMMA FinalOf ==
    ASSUME NEW j \in Seq(RequestIds), NEW c
    PROVE  /\ (\A k \in DOMAIN j : j[k].call # c) => Final(j, c) = None
           /\ Final(j, c) \in RequestIds \cup {None}
           /\ j # <<>> /\ j[Len(j)].call = c => Final(j, c) = j[Len(j)]
<1> DEFINE S == {i \in DOMAIN j : j[i].call = c}
<1>1. S \in SUBSET (1 .. Len(j)) /\ Len(j) \in Nat
  OBVIOUS
<1>2. CASE S = {}
  <2>1. Final(j, c) = None
    BY <1>2 DEF Final
  <2>2. j # <<>> => Len(j) \in DOMAIN j
    OBVIOUS
  <2> QED BY <1>2, <2>1, <2>2
<1>3. CASE S # {}
  <2>1. Max(S) \in S /\ \A x \in S : x <= Max(S)
    BY <1>1, <1>3, MaxFacts
  <2>2. Final(j, c) = j[Max(S)]
    BY <1>3 DEF Final
  <2>3. ASSUME j # <<>>, j[Len(j)].call = c PROVE Max(S) = Len(j)
    <3>1. Len(j) \in S
      BY <2>3
    <3>2. Max(S) \in 1 .. Len(j) /\ Len(j) <= Max(S)
      <4> HIDE DEF S
      <4> QED BY <1>1, <2>1, <3>1
    <3> QED BY <1>1, <3>2
  <2> QED BY <1>3, <2>1, <2>2, <2>3
<1> QED BY <1>2, <1>3

LEMMA NextUsableFacts ==
    ASSUME TypeOK, NEW rows, NEW r \in Nat
    PROVE  /\ NextUsable(rows, r) \in {0} \cup (RowNumbers \cap {x \in Nat : x >= r})
           /\ NextUsable(rows, r) # 0 => rows[NextUsable(rows, r)].mark = "usable"
<1> DEFINE usable == {x \in r .. Rows : rows[x].mark = "usable"}
<1>1. Rows \in Nat /\ usable \in SUBSET Nat
  BY PlanTyped
<1>2. CASE usable = {}
  BY <1>2 DEF NextUsable
<1>3. CASE usable # {}
  <2>1. Min(usable) \in usable
    BY <1>1, <1>3, MinFacts
  <2>2. NextUsable(rows, r) = Min(usable)
    BY <1>3 DEF NextUsable
  <2>3. NextUsable(rows, r) \in usable
    BY <2>1, <2>2
  <2>4. NextUsable(rows, r) \in r .. Rows /\ rows[NextUsable(rows, r)].mark = "usable"
    BY <2>3
  <2>5. NextUsable(rows, r) # 0 => NextUsable(rows, r) \in RowNumbers
    BY <1>1, <2>4 DEF RowNumbers
  <2> QED BY <1>1, <2>4, <2>5
<1> QED BY <1>2, <1>3

-----------------------------------------------------------------------------
(* Steps and types.                                                        *)

\* The step of a process that leaves ledgers and snapshots alone.
Moves(p, s, w) ==
    /\ pc' = [pc EXCEPT ![p] = s]
    /\ work' = [work EXCEPT ![p] = w]
    /\ UNCHANGED <<ledgerVars, complete>>

LEMMA InitTyped == Init => TypeOK
<1> SUFFICES ASSUME Init PROVE TypeOK
  OBVIOUS
<1> USE DEF Init, LedgerInit
<1>1. /\ Empty \in LedgerType
      /\ NoRequest \in [id : RequestIds \cup {None}, reply : ReplyType \cup {None}]
  BY DEF Empty, LedgerType, NoRequest
<1>2. LedgersTyped
  BY <1>1 DEF LedgersTyped
<1>3. FilesTyped
  BY DEF FilesTyped
<1>4. NoWork \in WorkType
  BY DEF NoWork, WorkType, Row, Outcomes, Marks, RowNumbers
<1>5. WorkTyped
  BY <1>4 DEF WorkTyped, Steps
<1>6. \A p \in Procs : Ready(p)
  BY DEF Ready, Asking, Unresolved, InHand
<1> QED BY <1>2, <1>3, <1>5, <1>6 DEF TypeOK

LEMMA RunnerPlanned ==
    ASSUME TypeOK, NEW p \in Procs, pc[p] # "off"
    PROVE  p \in plan.procs
  BY DEF TypeOK, Ready

\* What a step gives its process: the place it goes to, what it holds of the
\* batch, its ledger, its request and its last journal record.
Prepared(p, s, w, l, q, id) ==
    /\ s \in Steps /\ w \in WorkType /\ l \in LedgerType
    /\ q \in [id : RequestIds \cup {None}, reply : ReplyType \cup {None}]
    /\ id \in RequestIds \cup {None}
    /\ s \in Asking => q.id \in RequestIds \cap Ids(l.entries)
    /\ s \in {"close", "journal"} => q.reply \in ReplyType
    /\ s \in Unresolved \cup {"diagnose", "project", "raise"} => w.batch \in BatchNumbers
    /\ s # "off" => p \in plan.procs
Takes(p, s, w, l, q, id) ==
    /\ pc' = [pc EXCEPT ![p] = s]
    /\ work' = [work EXCEPT ![p] = w]
    /\ ledger' = [ledger EXCEPT ![p] = l]
    /\ request' = [request EXCEPT ![p] = q]
    /\ last' = [last EXCEPT ![p] = id]
    /\ UNCHANGED plan

LEMMA StepTyped ==
    ASSUME TypeOK, NEW p \in Procs, NEW s, NEW w, NEW l, NEW q, NEW id,
           Prepared(p, s, w, l, q, id), Takes(p, s, w, l, q, id),
           disk' \in LedgerType, written' \in Nat,
           sent' \in Seq([id : RequestIds, reply : ReplyType]),
           FilesTyped'
    PROVE  TypeOK'
<1> USE DEF Takes
<1>1. LedgersTyped'
  BY DEF TypeOK, LedgersTyped, Prepared
<1>2. UNCHANGED <<BatchNumbers, RowNumbers, Rows>>
  BY DEF BatchNumbers, RowNumbers, Rows
<1>3. WorkType' = WorkType
  BY <1>2 DEF WorkType
<1>4. WorkTyped'
  BY <1>3 DEF TypeOK, WorkTyped, Prepared
<1>5. \A q_1 \in Procs : Ready(q_1)'
  <2> TAKE o \in Procs
  <2>1. CASE o = p
    <3>1. pc'[o] = s /\ work'[o] = w /\ ledger'[o] = l /\ request'[o] = q
      BY <2>1 DEF TypeOK, WorkTyped, LedgersTyped
    <3> QED BY <1>2, <2>1, <3>1 DEF Ready, Prepared
  <2>2. CASE o # p
    <3>1. /\ pc'[o] = pc[o] /\ work'[o] = work[o] /\ ledger'[o] = ledger[o]
          /\ request'[o] = request[o]
      BY <2>2 DEF TypeOK, WorkTyped, LedgersTyped
    <3>2. Ready(o)
      BY DEF TypeOK
    <3> QED BY <1>2, <3>1, <3>2 DEF Ready
  <2> QED BY <2>1, <2>2
<1> QED BY <1>1, <1>4, <1>5 DEF TypeOK

LEMMA MovesTyped ==
    ASSUME TypeOK, NEW p \in plan.procs, NEW s \in Steps \ Asking, NEW w \in WorkType,
           s \in Unresolved \cup {"diagnose", "project", "raise"} => w.batch \in BatchNumbers,
           Moves(p, s, w), FilesTyped'
    PROVE  TypeOK'
<1>1. p \in Procs
  BY PlanTyped
<1>2. UNCHANGED <<plan, ledger, last, request, disk, written, sent>>
  BY DEF Moves, ledgerVars
<1>3. /\ ledger \in [Procs -> LedgerType] /\ last \in [Procs -> RequestIds \cup {None}]
      /\ request \in [Procs -> [id : RequestIds \cup {None}, reply : ReplyType \cup {None}]]
      /\ disk \in LedgerType /\ written \in Nat
      /\ sent \in Seq([id : RequestIds, reply : ReplyType])
  BY DEF TypeOK, LedgersTyped
<1>4. Takes(p, s, w, ledger[p], request[p], last[p])
  BY <1>1, <1>2, <1>3 DEF Moves, Takes
<1>5. Prepared(p, s, w, ledger[p], request[p], last[p])
  BY <1>1, <1>3 DEF Prepared, Asking
<1> QED BY <1>1, <1>2, <1>3, <1>4, <1>5, StepTyped

LEMMA LeaveTyped ==
    ASSUME TypeOK, NEW p \in Procs, Leave(p), FilesTyped'
    PROVE  TypeOK'
<1>1. Takes(p, "off", NoWork, Empty, NoRequest, None) /\ UNCHANGED <<disk, written, sent>>
  BY DEF Takes, Leave, Forget, Goto
<1>2. Prepared(p, "off", NoWork, Empty, NoRequest, None)
  BY DEF Prepared, Steps, Asking, Unresolved, InHand, Empty, LedgerType, NoRequest, NoWork,
         WorkType, Row, Outcomes, Marks, RowNumbers
<1>3. /\ disk \in LedgerType /\ written \in Nat
      /\ sent \in Seq([id : RequestIds, reply : ReplyType])
  BY DEF TypeOK, LedgersTyped
<1> QED BY <1>1, <1>2, <1>3, StepTyped

-----------------------------------------------------------------------------
(* What the steps that leave the ledgers alone do.                         *)

\* What stays of the batch under way.
Carried(p, w) ==
    w \in WorkType /\ w.batch = work[p].batch /\ w.done = work[p].done

ReviewMove(p, rows, r, s, w) ==
    /\ Moves(p, s, w) /\ Carried(p, w)
    /\ w.rows = rows
    /\ w.row = NextUsable(rows, r)
    /\ w.attempt = 1
    /\ w.author = IF work[p].row = 0 THEN last[p] ELSE work[p].author
    /\ w.raises = work[p].raises
    /\ w.row \in {0} \cup (RowNumbers \cap {x \in Nat : x >= r})
    /\ s = IF w.row = 0 THEN "store" ELSE "reserve"

LEMMA ReviewMoves ==
    ASSUME TypeOK, NEW p \in Procs, NEW rows \in Outcomes(Rows), NEW r \in Nat,
           ReviewFrom(p, rows, r), Keep, KeepLedger
    PROVE  \E s, w : ReviewMove(p, rows, r, s, w)
<1> DEFINE next == NextUsable(rows, r)
           author == IF work[p].row = 0 THEN last[p] ELSE work[p].author
           w == [work[p] EXCEPT !.rows = rows, !.row = next, !.attempt = 1, !.author = author]
           s == IF next = 0 THEN "store" ELSE "reserve"
<1>1. work[p] \in WorkType /\ work \in [Procs -> WorkType]
  BY DEF TypeOK, WorkTyped
<1>2. next \in {0} \cup (RowNumbers \cap {x \in Nat : x >= r})
  BY NextUsableFacts
<1>3. author \in RequestIds \cup {None}
  BY <1>1 DEF TypeOK, LedgersTyped, WorkType
<1>4. pc' = [pc EXCEPT ![p] = s]
  BY DEF ReviewFrom, Goto
<1>5. work' = [work EXCEPT ![p].rows = rows, ![p].row = next, ![p].attempt = 1,
                           ![p].author = author]
  BY <1>1 DEF ReviewFrom, WorkType
<1> HIDE DEF next, author
<1>6. work' = [work EXCEPT ![p] = w]
  BY <1>1, <1>5 DEF WorkType
<1>7. w \in WorkType
  BY <1>1, <1>2, <1>3 DEF WorkType
<1>8. /\ w.rows = rows /\ w.row = next /\ w.attempt = 1 /\ w.author = author
      /\ w.batch = work[p].batch /\ w.done = work[p].done /\ w.raises = work[p].raises
  BY <1>1 DEF WorkType
<1> HIDE DEF w
<1>9. ReviewMove(p, rows, r, s, w)
  BY <1>2, <1>4, <1>6, <1>7, <1>8 DEF ReviewMove, Moves, Carried, KeepLedger, next, author
<1> QED BY <1>9

StoreMove(p, rows, author, raises, w) ==
    /\ Moves(p, "store", w) /\ Carried(p, w)
    /\ w.rows = rows
    /\ w.author = author
    /\ w.raises = raises

LEMMA StoreMoves ==
    ASSUME TypeOK, NEW p \in Procs, NEW rows \in Outcomes(Rows),
           NEW author \in RequestIds \cup {None}, NEW raises \in BOOLEAN,
           Goto(p, "store"), KeepLedger,
           work' = [work EXCEPT ![p] = [work[p] EXCEPT !.rows = rows, !.author = author,
                                                       !.raises = raises]]
    PROVE  \E w : StoreMove(p, rows, author, raises, w)
<1> DEFINE w == [work[p] EXCEPT !.rows = rows, !.author = author, !.raises = raises]
<1>1. work[p] \in WorkType
  BY DEF TypeOK, WorkTyped
<1>2. w \in WorkType
  BY <1>1 DEF WorkType
<1>3. /\ w.rows = rows /\ w.author = author /\ w.raises = raises
      /\ w.batch = work[p].batch /\ w.done = work[p].done
  BY <1>1 DEF WorkType
<1>4. work' = [work EXCEPT ![p] = w]
  OBVIOUS
<1> HIDE DEF w
<1>5. StoreMove(p, rows, author, raises, w)
  BY <1>2, <1>3, <1>4 DEF StoreMove, Moves, Carried, KeepLedger, Goto
<1> QED BY <1>5

LEMMA UniformRows ==
    ASSUME NEW mark \in Marks, NEW reviewer \in RequestIds \cup {None}
    PROVE  [r \in RowNumbers |-> Row(mark, reviewer)] \in Outcomes(Rows)
  BY DEF Outcomes, Row, RowNumbers

LEMMA ChangedRow ==
    ASSUME NEW rows \in Outcomes(Rows), NEW n, NEW mark \in Marks,
           NEW reviewer \in RequestIds \cup {None}
    PROVE  [rows EXCEPT ![n] = Row(mark, reviewer)] \in Outcomes(Rows)
  BY DEF Outcomes, Row

LEMMA LastTyped ==
    ASSUME TypeOK, NEW p \in Procs
    PROVE  /\ last[p] \in RequestIds \cup {None}
           /\ request[p].id \in RequestIds \cup {None}
           /\ work[p] \in WorkType
           /\ work[p].rows \in Outcomes(Rows)
           /\ work[p].author \in RequestIds \cup {None}
           /\ work[p].row \in {0} \cup RowNumbers /\ work[p].row \in Nat
           /\ work[p].attempt \in Nat
           /\ work[p].raises \in BOOLEAN
           /\ work[p].done \subseteq BatchNumbers
<1>1. last[p] \in RequestIds \cup {None} /\ request[p].id \in RequestIds \cup {None}
  BY DEF TypeOK, LedgersTyped
<1>2. work[p] \in WorkType
  BY DEF TypeOK, WorkTyped
<1>3. RowNumbers \subseteq Nat
  BY PlanTyped DEF RowNumbers
<1>4. /\ work[p].rows \in Outcomes(Rows)
      /\ work[p].author \in RequestIds \cup {None}
      /\ work[p].row \in {0} \cup RowNumbers
      /\ work[p].attempt \in Nat
      /\ work[p].raises \in BOOLEAN
      /\ work[p].done \subseteq BatchNumbers
  BY <1>2 DEF WorkType
<1>5. work[p].row \in Nat
  <2>1. PICK row \in {0} \cup RowNumbers : row = work[p].row
    BY <1>4
  <2>2. row \in Nat
    BY <1>3
  <2> QED BY <2>1, <2>2
<1> QED BY <1>1, <1>2, <1>4, <1>5

LEMMA AuthorAnsweredMoves ==
    ASSUME TypeOK, NEW p \in Procs, AuthorAnswered(p)
    PROVE  \E rows \in Outcomes(Rows) :
              /\ \E s, w : ReviewMove(p, rows, 1, s, w)
              /\ \A r \in RowNumbers : rows[r].reviewer = None
<1>1. PICK usable \in SUBSET RowNumbers :
         ReviewFrom(p, [r \in RowNumbers |->
                           Row(IF r \in usable THEN "usable" ELSE "unusable", None)], 1)
  BY DEF AuthorAnswered
<1> DEFINE rows == [r \in RowNumbers |-> Row(IF r \in usable THEN "usable" ELSE "unusable", None)]
<1>2. rows \in Outcomes(Rows)
  BY DEF Outcomes, Row, RowNumbers, Marks
<1>3. \A r \in RowNumbers : rows[r].reviewer = None
  BY DEF Row
<1>4. ReviewFrom(p, rows, 1) /\ Keep /\ KeepLedger
  BY <1>1 DEF AuthorAnswered
<1> HIDE DEF rows
<1>5. \E s, w : ReviewMove(p, rows, 1, s, w)
  BY <1>2, <1>4, ReviewMoves
<1> QED BY <1>2, <1>3, <1>5

ReviewedRow(p, mark, id) == [work[p].rows EXCEPT ![work[p].row] = Row(mark, id)]

LEMMA RowMoves ==
    ASSUME TypeOK, NEW p \in Procs, NEW mark \in Marks, NEW id \in RequestIds \cup {None},
           ReviewFrom(p, ReviewedRow(p, mark, id), work[p].row + 1), Keep, KeepLedger
    PROVE  \E s, w : ReviewMove(p, ReviewedRow(p, mark, id), work[p].row + 1, s, w)
<1>1. ReviewedRow(p, mark, id) \in Outcomes(Rows)
  BY LastTyped, ChangedRow DEF ReviewedRow
<1>2. work[p].row + 1 \in Nat
  BY LastTyped
<1> QED BY <1>1, <1>2, ReviewMoves

LEMMA ReviewerMoves ==
    ASSUME TypeOK, NEW p \in Procs
    PROVE  /\ ReviewerAnswered(p) =>
                \E s, w : ReviewMove(p, ReviewedRow(p, "reviewed", last[p]), work[p].row + 1, s, w)
           /\ ReviewerLost(p) =>
                \E s, w : ReviewMove(p, ReviewedRow(p, "reviewerLost", request[p].id),
                                     work[p].row + 1, s, w)
           /\ ReviewerGivenUp(p) =>
                \E s, w : ReviewMove(p, ReviewedRow(p, "failed", last[p]), work[p].row + 1, s, w)
<1>1. last[p] \in RequestIds \cup {None} /\ request[p].id \in RequestIds \cup {None}
  BY LastTyped
<1>2. {"reviewed", "reviewerLost", "failed"} \subseteq Marks
  BY DEF Marks
<1>3. ASSUME ReviewerAnswered(p)
      PROVE  \E s, w : ReviewMove(p, ReviewedRow(p, "reviewed", last[p]), work[p].row + 1, s, w)
  <2>1. ReviewFrom(p, ReviewedRow(p, "reviewed", last[p]), work[p].row + 1) /\ Keep /\ KeepLedger
    BY <1>3 DEF ReviewerAnswered, ReviewedRow
  <2> QED BY <1>1, <1>2, <2>1, RowMoves
<1>4. ASSUME ReviewerLost(p)
      PROVE  \E s, w : ReviewMove(p, ReviewedRow(p, "reviewerLost", request[p].id),
                                  work[p].row + 1, s, w)
  <2>1. /\ ReviewFrom(p, ReviewedRow(p, "reviewerLost", request[p].id), work[p].row + 1)
        /\ Keep /\ KeepLedger
    BY <1>4 DEF ReviewerLost, ReviewedRow
  <2> QED BY <1>1, <1>2, <2>1, RowMoves
<1>5. ASSUME ReviewerGivenUp(p)
      PROVE  \E s, w : ReviewMove(p, ReviewedRow(p, "failed", last[p]), work[p].row + 1, s, w)
  <2>1. ReviewFrom(p, ReviewedRow(p, "failed", last[p]), work[p].row + 1) /\ Keep /\ KeepLedger
    BY <1>5 DEF ReviewerGivenUp, ReviewedRow
  <2> QED BY <1>1, <1>2, <2>1, RowMoves
<1> QED BY <1>3, <1>4, <1>5

UniformRow(mark, id) == [r \in RowNumbers |-> Row(mark, id)]
\* The rows of a capped batch whose reviewer call of the row under way fails.
CappedRows(p) == [r \in RowNumbers |->
    Row("failed", IF r = work[p].row THEN IF LastOfCall(p) THEN last[p] ELSE None
                  ELSE work[p].rows[r].reviewer)]

LEMMA GivenUpMoves ==
    ASSUME TypeOK, NEW p \in Procs
    PROVE  /\ AuthorValidationBreaks(p) =>
                \E w : StoreMove(p, UniformRow("failed", None), last[p], TRUE, w)
           /\ AuthorLost(p) =>
                \E w : StoreMove(p, UniformRow("authorLost", None), request[p].id,
                                 work[p].raises, w)
           /\ AuthorGivenUp(p) =>
                \E w : StoreMove(p, UniformRow("failed", None), last[p], work[p].raises, w)
           /\ CappedAuthorFails(p) /\ LastOfCall(p) =>
                \E w : StoreMove(p, UniformRow("failed", None), last[p], TRUE, w)
           /\ CappedReviewerFails(p) =>
                \E w : StoreMove(p, CappedRows(p), work[p].author, TRUE, w)
<1>1. /\ last[p] \in RequestIds \cup {None} /\ request[p].id \in RequestIds \cup {None}
      /\ work[p].raises \in BOOLEAN /\ work[p].author \in RequestIds \cup {None}
      /\ work[p].rows \in Outcomes(Rows)
      /\ work \in [Procs -> WorkType]
  BY LastTyped DEF TypeOK, WorkTyped
<1>2. /\ UniformRow("failed", None) \in Outcomes(Rows)
      /\ UniformRow("authorLost", None) \in Outcomes(Rows)
  BY UniformRows DEF UniformRow, Marks
<1>3. CappedRows(p) \in Outcomes(Rows)
  BY <1>1 DEF CappedRows, Outcomes, Row, RowNumbers, Marks
<1>4. ASSUME AuthorValidationBreaks(p)
      PROVE  \E w : StoreMove(p, UniformRow("failed", None), last[p], TRUE, w)
  <2>1. work' = [work EXCEPT ![p] = [work[p] EXCEPT !.rows = UniformRow("failed", None),
                                                    !.author = last[p], !.raises = TRUE]]
    BY <1>1, <1>4 DEF AuthorValidationBreaks, UniformRow, WorkType
  <2> QED BY <1>1, <1>2, <1>4, <2>1, StoreMoves DEF AuthorValidationBreaks
<1>5. ASSUME AuthorLost(p)
      PROVE  \E w : StoreMove(p, UniformRow("authorLost", None), request[p].id,
                              work[p].raises, w)
  <2>1. work' = [work EXCEPT ![p] = [work[p] EXCEPT !.rows = UniformRow("authorLost", None),
                                                    !.author = request[p].id,
                                                    !.raises = work[p].raises]]
    BY <1>1, <1>5 DEF AuthorLost, UniformRow, WorkType
  <2>2. PICK raises \in BOOLEAN : raises = work[p].raises
    BY <1>1
  <2>3. work' = [work EXCEPT ![p] = [work[p] EXCEPT !.rows = UniformRow("authorLost", None),
                                                    !.author = request[p].id, !.raises = raises]]
    BY <2>1, <2>2
  <2>4. Goto(p, "store") /\ KeepLedger
    BY <1>5 DEF AuthorLost
  <2>5. \E w : StoreMove(p, UniformRow("authorLost", None), request[p].id, raises, w)
    BY <1>1, <1>2, <2>3, <2>4, StoreMoves
  <2> QED BY <2>2, <2>5
<1>6. ASSUME AuthorGivenUp(p)
      PROVE  \E w : StoreMove(p, UniformRow("failed", None), last[p], work[p].raises, w)
  <2>1. work' = [work EXCEPT ![p] = [work[p] EXCEPT !.rows = UniformRow("failed", None),
                                                    !.author = last[p],
                                                    !.raises = work[p].raises]]
    BY <1>1, <1>6 DEF AuthorGivenUp, UniformRow, WorkType
  <2>2. PICK raises \in BOOLEAN : raises = work[p].raises
    BY <1>1
  <2>3. work' = [work EXCEPT ![p] = [work[p] EXCEPT !.rows = UniformRow("failed", None),
                                                    !.author = last[p], !.raises = raises]]
    BY <2>1, <2>2
  <2>4. Goto(p, "store") /\ KeepLedger
    BY <1>6 DEF AuthorGivenUp
  <2>5. \E w : StoreMove(p, UniformRow("failed", None), last[p], raises, w)
    BY <1>1, <1>2, <2>3, <2>4, StoreMoves
  <2> QED BY <2>2, <2>5
<1>7. ASSUME CappedAuthorFails(p), LastOfCall(p)
      PROVE  \E w : StoreMove(p, UniformRow("failed", None), last[p], TRUE, w)
  <2>1. work' = [work EXCEPT ![p] = [work[p] EXCEPT !.rows = UniformRow("failed", None),
                                                    !.author = last[p], !.raises = TRUE]]
    BY <1>1, <1>7 DEF CappedAuthorFails, UniformRow, WorkType
  <2> QED BY <1>1, <1>2, <1>7, <2>1, StoreMoves DEF CappedAuthorFails
<1>8. ASSUME CappedReviewerFails(p)
      PROVE  \E w : StoreMove(p, CappedRows(p), work[p].author, TRUE, w)
  <2>1. work' = [work EXCEPT ![p] = [work[p] EXCEPT !.rows = CappedRows(p),
                                                    !.author = work[p].author,
                                                    !.raises = TRUE]]
    BY <1>1, <1>8 DEF CappedReviewerFails, CappedRows, WorkType
  <2> QED BY <1>1, <1>3, <1>8, <2>1, StoreMoves DEF CappedReviewerFails
<1> QED BY <1>4, <1>5, <1>6, <1>7, <1>8

BatchMove(p, w) ==
    /\ Moves(p, "reserve", w)
    /\ w \in WorkType
    /\ w.batch \in BatchNumbers \ work[p].done
    /\ w.done = work[p].done
    /\ w.row = 0
    /\ \A r \in RowNumbers : w.rows[r].reviewer = None

LEMMA NextBatchMoves ==
    ASSUME TypeOK, NEW p \in Procs, NextBatch(p)
    PROVE  \/ BatchNumbers \ work[p].done = {} /\ Moves(p, "finish", work[p])
           \/ \E w : BatchMove(p, w)
<1> DEFINE open == BatchNumbers \ work[p].done
<1>1. work \in [Procs -> WorkType] /\ work[p] \in WorkType /\ work[p].done \subseteq BatchNumbers
  BY LastTyped DEF TypeOK, WorkTyped
<1>2. CASE open = {}
  <2>1. pc' = [pc EXCEPT ![p] = "finish"] /\ UNCHANGED work /\ KeepLedger
    BY <1>2 DEF NextBatch, Goto
  <2> QED BY <1>1, <1>2, <2>1 DEF Moves, KeepLedger
<1>3. CASE open # {}
  <2>1. open \in SUBSET Nat
    BY PlanTyped DEF BatchNumbers
  <2>2. PICK b \in open : b = Min(open)
    BY <1>3, <2>1, MinFacts
  <2> DEFINE w == [NoWork EXCEPT !.batch = b, !.attempt = 1, !.done = work[p].done]
  <2>3. work' = [work EXCEPT ![p] = w] /\ pc' = [pc EXCEPT ![p] = "reserve"] /\ KeepLedger
    BY <1>3, <2>2 DEF NextBatch, Goto
  <2>4. NoWork \in WorkType /\ NoWork.row = 0 /\ \A r \in RowNumbers : NoWork.rows[r].reviewer = None
    BY DEF NoWork, WorkType, Row, Outcomes, Marks, RowNumbers
  <2>5. w \in WorkType
    BY <1>1, <2>2, <2>4 DEF WorkType
  <2>6. w.batch = b /\ w.done = work[p].done /\ w.row = 0 /\ w.rows = NoWork.rows
    BY <2>4 DEF WorkType
  <2> HIDE DEF w
  <2>7. BatchMove(p, w)
    BY <2>2, <2>3, <2>4, <2>5, <2>6 DEF BatchMove, Moves, KeepLedger
  <2> QED BY <2>7
<1> QED BY <1>2, <1>3

LEMMA RetryMoves ==
    ASSUME TypeOK, NEW p \in Procs, Retry(p)
    PROVE  \E w : /\ Moves(p, "reserve", w) /\ Carried(p, w)
                  /\ w.row = work[p].row /\ w.rows = work[p].rows /\ w.author = work[p].author
<1> DEFINE w == [work[p] EXCEPT !.attempt = @ + 1]
<1>1. work \in [Procs -> WorkType] /\ work[p] \in WorkType /\ work[p].attempt \in Nat
  BY LastTyped DEF TypeOK, WorkTyped
<1>2. work' = [work EXCEPT ![p] = w] /\ pc' = [pc EXCEPT ![p] = "reserve"] /\ KeepLedger
  BY <1>1 DEF Retry, Goto, WorkType
<1>3. w \in WorkType
  BY <1>1 DEF WorkType
<1>4. /\ w.batch = work[p].batch /\ w.done = work[p].done
      /\ w.row = work[p].row /\ w.rows = work[p].rows /\ w.author = work[p].author
  BY <1>1 DEF WorkType
<1> HIDE DEF w
<1>5. Moves(p, "reserve", w) /\ Carried(p, w)
  BY <1>2, <1>3, <1>4 DEF Moves, Carried, KeepLedger
<1> QED BY <1>4, <1>5

ResolveMove(p, s, w, resolution) ==
    /\ Moves(p, s, w)
    /\ s \in {"diagnose", "project", "raise"}
    /\ ~Capped => s = "diagnose"
    /\ w \in WorkType
    /\ w.batch = work[p].batch
    /\ w.done = work[p].done \cup {work[p].batch}
    /\ resolution \in Resolutions(Rows)
    /\ resolved[work[p].batch] = None
    /\ resolved' = [resolved EXCEPT ![work[p].batch] = resolution]
    /\ resolution.author = work[p].author
    /\ \A r \in RowNumbers : resolution.rows[r].reviewer = work[p].rows[r].reviewer
    /\ ~Capped => resolution.rows = work[p].rows

LEMMA StoredMoves ==
    ASSUME TypeOK, NEW p \in Procs, Store(p)
    PROVE  \E s, w, resolution : ResolveMove(p, s, w, resolution)
<1> DEFINE w == [work[p] EXCEPT !.done = @ \cup {work[p].batch}]
           s == AfterStore(p)
<1>1. work \in [Procs -> WorkType] /\ work[p] \in WorkType
  BY LastTyped DEF TypeOK, WorkTyped
<1>2. work[p].batch \in BatchNumbers
  BY DEF TypeOK, Ready, Store, Unresolved
<1>3. PICK accepted \in SUBSET Reviewed(p) :
         resolved' = [resolved EXCEPT ![work[p].batch] = Resolution(p, accepted)]
  BY DEF Store
<1>4. work' = [work EXCEPT ![p] = w] /\ pc' = [pc EXCEPT ![p] = s] /\ KeepLedger
      /\ resolved[work[p].batch] = None
  BY <1>1 DEF Store, Goto, WorkType
<1>5. w \in WorkType
  BY <1>1, <1>2 DEF WorkType
<1>6. w.batch = work[p].batch /\ w.done = work[p].done \cup {work[p].batch}
  BY <1>1 DEF WorkType
<1>7. s \in {"diagnose", "project", "raise"} /\ (~Capped => s = "diagnose")
  BY DEF AfterStore
<1> DEFINE resolution == Resolution(p, accepted)
<1>8. resolution.author = work[p].author /\ resolution.rows = work[p].rows
  BY DEF Resolution
<1>9. resolution \in Resolutions(Rows)
  <2>1. accepted \in SUBSET (1 .. Rows)
    BY DEF Reviewed, RowNumbers
  <2>2. work[p].author \in RequestIds \cup {None} /\ work[p].rows \in Outcomes(Rows)
    BY LastTyped
  <2> QED BY <2>1, <2>2 DEF Resolution, Resolutions
<1> HIDE DEF w, s, resolution
<1>10. ResolveMove(p, s, w, resolution)
  BY <1>3, <1>4, <1>5, <1>6, <1>7, <1>8, <1>9 DEF ResolveMove, Moves, KeepLedger, resolution
<1> QED BY <1>10

LEMMA FallbackMoves ==
    ASSUME TypeOK, NEW p \in Procs, StoreFallback(p)
    PROVE  \E s, w, resolution : ResolveMove(p, s, w, resolution)
<1> DEFINE w == [work[p] EXCEPT !.done = @ \cup {work[p].batch}, !.raises = TRUE]
           rows == [r \in RowNumbers |-> Row("failed", work[p].rows[r].reviewer)]
           resolution == [author |-> work[p].author, accepted |-> {}, rows |-> rows]
<1>1. work \in [Procs -> WorkType] /\ work[p] \in WorkType
  BY LastTyped DEF TypeOK, WorkTyped
<1>2. work[p].batch \in BatchNumbers
  BY DEF TypeOK, Ready, StoreFallback, Unresolved
<1>3. work' = [work EXCEPT ![p] = w] /\ pc' = [pc EXCEPT ![p] = "raise"] /\ KeepLedger
      /\ resolved[work[p].batch] = None /\ Capped
      /\ resolved' = [resolved EXCEPT ![work[p].batch] = resolution]
  BY <1>1 DEF StoreFallback, Goto, WorkType
<1>4. w \in WorkType
  BY <1>1, <1>2 DEF WorkType
<1>5. w.batch = work[p].batch /\ w.done = work[p].done \cup {work[p].batch}
  BY <1>1 DEF WorkType
<1>6. work[p].author \in RequestIds \cup {None} /\ work[p].rows \in Outcomes(Rows)
  BY LastTyped
<1>7. rows \in Outcomes(Rows) /\ \A r \in RowNumbers : rows[r].reviewer = work[p].rows[r].reviewer
  BY <1>6 DEF Outcomes, Row, RowNumbers, Marks
<1> HIDE DEF rows
<1>8. resolution \in Resolutions(Rows)
  BY <1>6, <1>7 DEF Resolutions
<1>9. resolution.author = work[p].author /\ resolution.rows = rows
  OBVIOUS
<1> HIDE DEF w, resolution
<1>10. ResolveMove(p, "raise", w, resolution)
  BY <1>3, <1>4, <1>5, <1>7, <1>8, <1>9 DEF ResolveMove, Moves, KeepLedger
<1> QED BY <1>10

-----------------------------------------------------------------------------
(* What the steps on the ledgers do.                                       *)

\* A ledger is written as the next snapshot, or found not to extend the last.
Saves(l) == Write(l) \/ WriteFails(l)

LEMMA SavesTyped ==
    ASSUME TypeOK, NEW l \in LedgerType, Saves(l) \/ UNCHANGED <<disk, written>>
    PROVE  disk' \in LedgerType /\ written' \in Nat /\ written' >= written
<1>1. disk \in LedgerType /\ written \in Nat
  BY DEF TypeOK, LedgersTyped
<1>2. CASE Write(l)
  BY <1>1, <1>2 DEF Write
<1>3. CASE WriteFails(l) \/ UNCHANGED <<disk, written>>
  BY <1>1, <1>3 DEF WriteFails
<1> QED BY <1>2, <1>3 DEF Saves

Other == UNCHANGED <<resolved, diagnosed, packet, deaths>>

WithEntry(p, id) == [ledger[p] EXCEPT !.entries = Append(@, Reserved(id))]
\* What reserving does; ok when the call is charged in a new snapshot.
ReserveMove(p, s, l, id) ==
    /\ Takes(p, s, work[p], l, [id |-> id, reply |-> None], last[p])
    /\ UNCHANGED sent /\ Other
    /\ complete' = (complete /\ written' = written)
    /\ id \in RequestIds /\ id = NewId(p, CallOf(p)) /\ id.call = CallOf(p)
    /\ \/ /\ s = "send" /\ l = WithEntry(p, id) /\ Write(l)
          /\ id \notin Ids(ledger[p].entries)
       \/ /\ s = "failed" /\ l = WithEntry(p, id) /\ WriteFails(l)
       \/ /\ s = "failed" /\ l = ledger[p] /\ UNCHANGED <<disk, written>>
          /\ Capped \/ id \in Ids(ledger[p].entries)

LEMMA WithEntryTyped ==
    ASSUME TypeOK, NEW p \in Procs, NEW id \in RequestIds
    PROVE  /\ WithEntry(p, id) \in LedgerType
           /\ WithEntry(p, id).entries = Append(ledger[p].entries, Reserved(id))
           /\ WithEntry(p, id).journal = ledger[p].journal
           /\ id \in Ids(WithEntry(p, id).entries)
<1>1. ledger[p] \in LedgerType /\ Reserved(id) \in EntryType
  BY ReservedTyped DEF TypeOK, LedgersTyped
<1>2. /\ WithEntry(p, id) \in LedgerType
      /\ WithEntry(p, id).entries = Append(ledger[p].entries, Reserved(id))
      /\ WithEntry(p, id).journal = ledger[p].journal
  <2>1. ledger[p].entries \in Seq(EntryType)
    BY <1>1 DEF LedgerType
  <2> DEFINE e == Append(ledger[p].entries, Reserved(id))
  <2>3. e \in Seq(EntryType)
    BY <1>1, <2>1
  <2> HIDE DEF e
  <2>2. WithEntry(p, id) = [ledger[p] EXCEPT !.entries = e]
    BY <1>1 DEF WithEntry, LedgerType, e
  <2> QED BY <1>1, <2>2, <2>3 DEF LedgerType, e
<1> DEFINE entries == Append(ledger[p].entries, Reserved(id))
           n == Len(ledger[p].entries) + 1
<1>3. n \in DOMAIN entries /\ entries[n] = Reserved(id)
  BY <1>1 DEF LedgerType
<1>4. Reserved(id).id = id
  BY DEF Reserved
<1> QED BY <1>2, <1>3, <1>4 DEF Ids

LEMMA ReserveMoves ==
    ASSUME TypeOK, NEW p \in Procs, ReserveCall(p)
    PROVE  \E s, l, id : ReserveMove(p, s, l, id)
<1>1. pc[p] = "reserve"
  BY DEF ReserveCall
<1>2. CallOf(p) \in Calls
  BY <1>1, CallTyped DEF Unresolved, InHand
<1> DEFINE id == NewId(p, CallOf(p))
<1>3. id \in RequestIds /\ id.call = CallOf(p)
  BY <1>2, NewIdTyped DEF NewId
<1>4. /\ work \in [Procs -> WorkType] /\ last \in [Procs -> RequestIds \cup {None}]
      /\ ledger \in [Procs -> LedgerType]
  BY DEF TypeOK, WorkTyped, LedgersTyped
<1>5. PICK ok \in BOOLEAN : Reserve(p, CallOf(p), ok)
                            /\ pc' = [pc EXCEPT ![p] = IF ok THEN "send" ELSE "failed"]
  BY DEF ReserveCall, Goto
<1>6. /\ request' = [request EXCEPT ![p] = [id |-> id, reply |-> None]]
      /\ UNCHANGED <<plan, last, sent>>
  BY <1>5 DEF Reserve
<1>7. UNCHANGED work /\ Other /\ complete' = (complete /\ written' = written)
  BY DEF ReserveCall, Keep, Written, Other
<1>8. work' = [work EXCEPT ![p] = work[p]] /\ last' = [last EXCEPT ![p] = last[p]]
  BY <1>4, <1>6, <1>7
<1> DEFINE allowed == /\ id \notin Ids(ledger[p].entries)
                      /\ Fits(ledger[p].entries, CallOf(p).stage, Worst[CallOf(p).stage])
<1>9. /\ \/ ok /\ allowed /\ Write(WithEntry(p, id))
         \/ ~ok /\ allowed /\ WriteFails(WithEntry(p, id))
         \/ ~ok /\ ~allowed /\ UNCHANGED <<disk, written>>
      /\ ledger' = IF allowed THEN [ledger EXCEPT ![p] = WithEntry(p, id)] ELSE ledger
  BY <1>5 DEF Reserve, WithEntry
<1>10. ~allowed => Capped \/ id \in Ids(ledger[p].entries)
  BY DEF Fits
<1> HIDE DEF id, allowed
<1>11. CASE allowed /\ ok
  <2>1. pc' = [pc EXCEPT ![p] = "send"]
    BY <1>5, <1>11
  <2>2. Takes(p, "send", work[p], WithEntry(p, id), [id |-> id, reply |-> None], last[p])
    BY <1>6, <1>8, <1>9, <1>11, <2>1 DEF Takes
  <2>3. Write(WithEntry(p, id)) /\ id \notin Ids(ledger[p].entries)
    BY <1>9, <1>11 DEF allowed
  <2>4. ReserveMove(p, "send", WithEntry(p, id), id)
    BY <1>3, <1>6, <1>7, <2>2, <2>3 DEF ReserveMove, id
  <2> QED BY <2>4
<1>12. CASE allowed /\ ~ok
  <2>1. pc' = [pc EXCEPT ![p] = "failed"]
    BY <1>5, <1>12
  <2>2. Takes(p, "failed", work[p], WithEntry(p, id), [id |-> id, reply |-> None], last[p])
    BY <1>6, <1>8, <1>9, <1>12, <2>1 DEF Takes
  <2>3. WriteFails(WithEntry(p, id))
    BY <1>9, <1>12
  <2>4. ReserveMove(p, "failed", WithEntry(p, id), id)
    BY <1>3, <1>6, <1>7, <2>2, <2>3 DEF ReserveMove, id
  <2> QED BY <2>4
<1>13. CASE ~allowed
  <2>1. pc' = [pc EXCEPT ![p] = "failed"] /\ UNCHANGED <<disk, written>>
    BY <1>5, <1>9, <1>13
  <2>2. ledger' = [ledger EXCEPT ![p] = ledger[p]]
    BY <1>4, <1>9, <1>13
  <2>3. Takes(p, "failed", work[p], ledger[p], [id |-> id, reply |-> None], last[p])
    BY <1>6, <1>8, <2>1, <2>2 DEF Takes
  <2>4. ReserveMove(p, "failed", ledger[p], id)
    BY <1>3, <1>6, <1>7, <1>10, <1>13, <2>1, <2>3 DEF ReserveMove, id
  <2> QED BY <2>4
<1> QED BY <1>11, <1>12, <1>13

SendMove(p, reply) ==
    /\ reply \in Replies
    /\ Takes(p, "close", work[p], ledger[p], [id |-> request[p].id, reply |-> reply], last[p])
    /\ sent' = Append(sent, [id |-> request[p].id, reply |-> reply])
    /\ UNCHANGED <<disk, written, complete>> /\ Other

LEMMA Unmoved ==
    ASSUME TypeOK, NEW p \in Procs
    PROVE  /\ UNCHANGED work => work' = [work EXCEPT ![p] = work[p]]
           /\ UNCHANGED ledger => ledger' = [ledger EXCEPT ![p] = ledger[p]]
           /\ UNCHANGED request => request' = [request EXCEPT ![p] = request[p]]
           /\ UNCHANGED last => last' = [last EXCEPT ![p] = last[p]]
<1>1. /\ work \in [Procs -> WorkType] /\ last \in [Procs -> RequestIds \cup {None}]
      /\ ledger \in [Procs -> LedgerType]
      /\ request \in [Procs -> [id : RequestIds \cup {None}, reply : ReplyType \cup {None}]]
  BY DEF TypeOK, WorkTyped, LedgersTyped
<1> QED BY <1>1

LEMMA SendMoves ==
    ASSUME TypeOK, NEW p \in Procs, Send(p)
    PROVE  \E reply : SendMove(p, reply)
<1>1. PICK reply \in Replies :
        /\ request' = [request EXCEPT ![p].reply = reply]
        /\ sent' = Append(sent, [id |-> request[p].id, reply |-> reply])
  BY DEF Send, Transport
<1>2. request \in [Procs -> [id : RequestIds \cup {None}, reply : ReplyType \cup {None}]]
  BY DEF TypeOK, LedgersTyped
<1>3. request' = [request EXCEPT ![p] = [id |-> request[p].id, reply |-> reply]]
  <2>1. [request[p] EXCEPT !.reply = reply] = [id |-> request[p].id, reply |-> reply]
    BY <1>2
  <2> QED BY <1>1, <1>2, <2>1
<1>4. /\ UNCHANGED <<plan, ledger, last, disk, written, complete, work>> /\ Other
      /\ pc' = [pc EXCEPT ![p] = "close"]
  BY DEF Send, Transport, Keep, Goto, Other
<1>5. SendMove(p, reply)
  BY <1>1, <1>3, <1>4, Unmoved DEF SendMove, Takes
<1> QED BY <1>5

WithClosed(p) == [ledger[p] EXCEPT !.entries = Closed(@, request[p].id, request[p].reply)]
EntryUnderWay(p) == EntryOf(ledger[p].entries, request[p].id)

CloseMove(p, s) ==
    LET l == WithClosed(p) IN
    /\ Takes(p, s, work[p], l, request[p], last[p])
    /\ \/ s = "journal" /\ Write(l) /\ request[p].reply.kind # "invalid"
       \/ s = "failed" /\ Write(l) /\ request[p].reply.kind = "invalid"
       \/ s = "failed" /\ WriteFails(l)
    /\ UNCHANGED sent /\ Other
    /\ complete' = (complete /\ written' = written)

LEMMA EntryOfFacts ==
    ASSUME NEW entries \in Seq(EntryType), NEW id \in Ids(entries)
    PROVE  EntryOf(entries, id) \in DOMAIN entries /\ entries[EntryOf(entries, id)].id = id
<1>1. \E i \in DOMAIN entries : entries[i].id = id
  BY DEF Ids
<1> QED BY <1>1 DEF EntryOf

LEMMA WithClosedTyped ==
    ASSUME TypeOK, NEW p \in Procs, pc[p] = "close"
    PROVE  /\ EntryUnderWay(p) \in DOMAIN ledger[p].entries
           /\ ledger[p].entries[EntryUnderWay(p)].id = request[p].id
           /\ ledger[p].entries \in Seq(EntryType)
           /\ request[p].reply \in ReplyType
           /\ ClosedLegally(ledger[p].entries, EntryUnderWay(p), request[p].reply,
                            WithClosed(p).entries)
           /\ WithClosed(p) \in LedgerType
           /\ WithClosed(p).journal = ledger[p].journal
<1>1. /\ request[p].id \in Ids(ledger[p].entries) /\ request[p].reply \in ReplyType
      /\ ledger[p] \in LedgerType
  BY DEF TypeOK, Ready, Asking, LedgersTyped
<1>2. ledger[p].entries \in Seq(EntryType)
  BY <1>1 DEF LedgerType
<1>3. /\ EntryUnderWay(p) \in DOMAIN ledger[p].entries
      /\ ledger[p].entries[EntryUnderWay(p)].id = request[p].id
  BY <1>1, <1>2, EntryOfFacts DEF EntryUnderWay
<1> DEFINE closed == Closed(ledger[p].entries, request[p].id, request[p].reply)
<1>4. ClosedLegally(ledger[p].entries, EntryUnderWay(p), request[p].reply, closed)
  BY <1>1, <1>2, <1>3, ClosedFacts DEF EntryUnderWay
<1>5. closed \in Seq(EntryType)
  BY <1>4 DEF ClosedLegally
<1>6. WithClosed(p) = [ledger[p] EXCEPT !.entries = closed]
  BY DEF WithClosed
<1> HIDE DEF closed
<1>7. /\ WithClosed(p) \in LedgerType
      /\ WithClosed(p).journal = ledger[p].journal /\ WithClosed(p).entries = closed
  BY <1>1, <1>5, <1>6 DEF LedgerType
<1> QED BY <1>1, <1>2, <1>3, <1>4, <1>7

LEMMA CloseMoves ==
    ASSUME TypeOK, NEW p \in Procs, CloseCall(p)
    PROVE  pc[p] = "close" /\ \E s : CloseMove(p, s)
<1>1. PICK ok \in BOOLEAN : /\ Close(p, ok)
                            /\ pc' = [pc EXCEPT ![p] = IF ok THEN "journal" ELSE "failed"]
  BY DEF CloseCall, Goto
<1>2. /\ ledger' = [ledger EXCEPT ![p] = WithClosed(p)]
      /\ \/ ok = (request[p].reply.kind # "invalid") /\ Write(WithClosed(p))
         \/ ~ok /\ WriteFails(WithClosed(p))
      /\ UNCHANGED <<plan, last, request, sent>>
  BY <1>1 DEF Close, WithClosed
<1>3. /\ pc[p] = "close" /\ UNCHANGED work /\ Other
      /\ complete' = (complete /\ written' = written)
  BY DEF CloseCall, Keep, Written, Other
<1> DEFINE s == IF ok THEN "journal" ELSE "failed"
<1>4. Takes(p, s, work[p], WithClosed(p), request[p], last[p])
  BY <1>1, <1>2, <1>3, Unmoved DEF Takes
<1>5. CloseMove(p, s)
  BY <1>2, <1>3, <1>4 DEF CloseMove
<1> QED BY <1>3, <1>5

WithRecord(p) == [ledger[p] EXCEPT !.journal = Append(@, request[p].id)]
JournalMove(p, s, id) ==
    /\ Takes(p, s, work[p], WithRecord(p), request[p], id)
    /\ \/ /\ s = IF HandedOver(p) THEN "answered" ELSE "failed"
          /\ Write(WithRecord(p)) /\ id = request[p].id
       \/ s = "failed" /\ WriteFails(WithRecord(p)) /\ id = last[p]
    /\ UNCHANGED sent /\ Other
    /\ complete' = (complete /\ written' = written)

LEMMA WithRecordTyped ==
    ASSUME TypeOK, NEW p \in Procs, request[p].id \in RequestIds
    PROVE  /\ WithRecord(p) \in LedgerType
           /\ WithRecord(p).entries = ledger[p].entries
           /\ WithRecord(p).journal = Append(ledger[p].journal, request[p].id)
<1>1. ledger[p] \in LedgerType
  BY DEF TypeOK, LedgersTyped
<1> DEFINE j == Append(ledger[p].journal, request[p].id)
<1>2. j \in Seq(RequestIds)
  <2>1. ledger[p].journal \in Seq(RequestIds)
    BY <1>1 DEF LedgerType
  <2> QED BY <2>1
<1> HIDE DEF j
<1>3. WithRecord(p) = [ledger[p] EXCEPT !.journal = j]
  BY <1>1 DEF WithRecord, LedgerType, j
<1> QED BY <1>1, <1>2, <1>3 DEF LedgerType, j

LEMMA JournalMoves ==
    ASSUME TypeOK, NEW p \in Procs, JournalCall(p)
    PROVE  pc[p] = "journal" /\ \E s, id : JournalMove(p, s, id)
<1>1. PICK ok \in BOOLEAN :
        /\ Journal(p, ok)
        /\ pc' = [pc EXCEPT ![p] = IF ok /\ HandedOver(p) THEN "answered" ELSE "failed"]
  BY DEF JournalCall, Goto
<1>2. /\ ledger' = [ledger EXCEPT ![p] = WithRecord(p)]
      /\ \/ ok /\ Write(WithRecord(p)) /\ last' = [last EXCEPT ![p] = request[p].id]
         \/ ~ok /\ WriteFails(WithRecord(p)) /\ UNCHANGED last
      /\ UNCHANGED <<plan, request, sent>>
  BY <1>1 DEF Journal, WithRecord
<1>3. /\ pc[p] = "journal" /\ UNCHANGED work /\ Other
      /\ complete' = (complete /\ written' = written)
  BY DEF JournalCall, Keep, Written, Other
<1>4. CASE ok
  <2>1. Takes(p, IF HandedOver(p) THEN "answered" ELSE "failed", work[p], WithRecord(p),
              request[p], request[p].id)
    BY <1>1, <1>2, <1>3, <1>4, Unmoved DEF Takes
  <2>2. JournalMove(p, IF HandedOver(p) THEN "answered" ELSE "failed", request[p].id)
    BY <1>2, <1>3, <1>4, <2>1 DEF JournalMove
  <2> QED BY <1>3, <2>2
<1>5. CASE ~ok
  <2>1. Takes(p, "failed", work[p], WithRecord(p), request[p], last[p])
    BY <1>1, <1>2, <1>3, <1>5, Unmoved DEF Takes
  <2>2. JournalMove(p, "failed", last[p])
    BY <1>2, <1>3, <1>5, <2>1 DEF JournalMove
  <2> QED BY <1>3, <2>2
<1> QED BY <1>4, <1>5

StartMove(p, w) ==
    /\ p \in plan.procs /\ pc[p] = "off" /\ Resumable
    /\ Takes(p, "next", w, disk, request[p], last[p])
    /\ w \in WorkType /\ w.done = ResolvedBatches
    /\ UNCHANGED <<disk, written, sent, complete>> /\ Other

LEMMA StartMoves ==
    ASSUME TypeOK, NEW p \in Procs, Start(p)
    PROVE  \E w : StartMove(p, w)
<1> DEFINE w == [work[p] EXCEPT !.done = ResolvedBatches]
<1>1. work \in [Procs -> WorkType] /\ work[p] \in WorkType
  BY LastTyped DEF TypeOK, WorkTyped
<1>2. work' = [work EXCEPT ![p] = w]
  BY <1>1 DEF Start, WorkType
<1>3. w \in WorkType /\ w.done = ResolvedBatches
  BY <1>1 DEF WorkType, ResolvedBatches
<1> HIDE DEF w
<1>4. /\ p \in plan.procs /\ pc[p] = "off" /\ Resumable
      /\ ledger' = [ledger EXCEPT ![p] = disk]
      /\ UNCHANGED <<plan, last, request, disk, written, sent, complete>> /\ Other
      /\ pc' = [pc EXCEPT ![p] = "next"]
  BY DEF Start, Resume, Keep, Goto, Other
<1>5. StartMove(p, w)
  BY <1>2, <1>3, <1>4, Unmoved DEF StartMove, Takes
<1> QED BY <1>5

\* The ledger in memory is written once more.
SaveMove(p, s) ==
    /\ Takes(p, s, work[p], ledger[p], request[p], last[p])
    /\ Write(ledger[p]) \/ UNCHANGED <<disk, written>>
    /\ UNCHANGED sent /\ Other /\ complete' \in BOOLEAN

LEMMA ProjectMoves ==
    ASSUME TypeOK, NEW p \in Procs, Project(p)
    PROVE  pc[p] = "project" /\ (SaveMove(p, "raise") \/ SaveMove(p, "next"))
<1>1. pc[p] = "project" /\ UNCHANGED <<work, complete>> /\ Other /\ complete \in BOOLEAN
  BY DEF Project, Keep, Other, TypeOK, FilesTyped
<1>2. CASE /\ Write(ledger[p]) /\ pc' = [pc EXCEPT ![p] = "raise"]
           /\ UNCHANGED <<plan, ledger, last, request, sent>>
  BY <1>1, <1>2, Unmoved DEF SaveMove, Takes
<1>3. CASE pc' = [pc EXCEPT ![p] = "next"] /\ UNCHANGED ledgerVars
  BY <1>1, <1>3, Unmoved DEF SaveMove, Takes, ledgerVars
<1> QED BY <1>2, <1>3 DEF Project, Goto

LEMMA FinishMoves ==
    ASSUME TypeOK, NEW p \in Procs, Finish(p)
    PROVE  /\ pc[p] = "finish"
           /\ \/ SaveMove(p, "seal")
              \/ /\ Leave(p) /\ Other /\ UNCHANGED complete
                 /\ ~((Capped \/ Consistent(ledger[p])) /\ Extends(disk, ledger[p]))
<1>1. pc[p] = "finish" /\ Other
  BY DEF Finish, Keep, Other
<1>2. CASE (Capped \/ Consistent(ledger[p])) /\ Extends(disk, ledger[p])
  <2>1. /\ UNCHANGED work /\ pc' = [pc EXCEPT ![p] = "seal"] /\ complete' = TRUE
        /\ UNCHANGED <<plan, ledger, last, request, sent>>
        /\ Write(ledger[p]) \/ UNCHANGED <<disk, written>>
    BY <1>2 DEF Finish, Goto, ledgerVars
  <2> QED BY <1>1, <2>1, Unmoved DEF SaveMove, Takes
<1>3. CASE ~((Capped \/ Consistent(ledger[p])) /\ Extends(disk, ledger[p]))
  BY <1>1, <1>3 DEF Finish
<1> QED BY <1>1, <1>2, <1>3

-----------------------------------------------------------------------------
(* The type invariant.                                                     *)

LEMMA FilesKept ==
    ASSUME TypeOK, UNCHANGED plan, Other, complete' \in BOOLEAN
    PROVE  FilesTyped'
<1>1. UNCHANGED <<BatchNumbers, Rows>>
  BY DEF BatchNumbers, Rows
<1>2. UNCHANGED Resolutions(Rows)
  BY <1>1
<1> QED BY <1>1, <1>2 DEF TypeOK, FilesTyped, Other

LEMMA StepPlaces ==
    /\ {"next", "reserve", "answered", "failed", "store", "diagnose", "raise", "project", "finish", "seal", "off"}
         \subseteq Steps \ Asking
    /\ Asking \subseteq Steps
    /\ Asking \subseteq Unresolved /\ InHand \subseteq Unresolved
    /\ InHand = Asking \cup {"reserve", "answered", "failed"}
    /\ Unresolved = InHand \cup {"store"}
    /\ Asking = {"send", "close", "journal"}
  BY DEF Steps, Asking, Unresolved, InHand

LEMMA BatchNumbered ==
    ASSUME TypeOK, NEW p \in Procs, pc[p] \in Unresolved \cup {"diagnose", "project", "raise"}
    PROVE  p \in plan.procs /\ work[p].batch \in BatchNumbers
<1>1. pc[p] # "off"
  BY DEF Unresolved, InHand
<1> QED BY <1>1 DEF TypeOK, Ready

LEMMA CarriedTyped ==
    ASSUME TypeOK, NEW p \in Procs, pc[p] \in Unresolved, NEW s \in {"store", "reserve"},
           NEW w, Carried(p, w), Moves(p, s, w), Other
    PROVE  TypeOK'
<1>1. p \in plan.procs /\ w \in WorkType /\ w.batch \in BatchNumbers
  BY BatchNumbered DEF Carried
<1>2. FilesTyped'
  BY FilesKept DEF Moves, ledgerVars, TypeOK, FilesTyped
<1> QED BY <1>1, <1>2, StepPlaces, MovesTyped

LEMMA AnswerMoves ==
    ASSUME TypeOK, NEW p \in Procs, Answer(p)
    PROVE  /\ pc[p] \in {"answered", "failed"} /\ pc[p] \in Unresolved
           /\ Other /\ UNCHANGED complete
           /\ \/ Leave(p)
              \/ \E s \in {"store", "reserve"} : \E w : Carried(p, w) /\ Moves(p, s, w)
<1>1. pc[p] \in {"answered", "failed"}
  BY DEF Answer, AuthorAnswered, ReviewerAnswered, AuthorValidationBreaks, AuthorLost, ReviewerLost,
         Retry, AuthorGivenUp, ReviewerGivenUp, Stranded, CappedAuthorFails, CappedReviewerFails
<1>2. pc[p] \in Unresolved
  BY <1>1, StepPlaces
<1>3. Other
  BY DEF Answer, AuthorAnswered, ReviewerAnswered, AuthorValidationBreaks, AuthorLost, ReviewerLost,
         Retry, AuthorGivenUp, ReviewerGivenUp, Stranded, CappedAuthorFails, CappedReviewerFails,
         Keep, Other
<1> DEFINE Goal == \/ Leave(p) /\ UNCHANGED complete
                   \/ \E s \in {"store", "reserve"} : \E w : Carried(p, w) /\ Moves(p, s, w)
<1>4. ASSUME NEW rows, NEW r, NEW s, NEW w, ReviewMove(p, rows, r, s, w) PROVE Goal
  BY <1>4 DEF ReviewMove
<1>5. ASSUME NEW rows, NEW author, NEW raises, NEW w, StoreMove(p, rows, author, raises, w) PROVE Goal
  BY <1>5 DEF StoreMove
<1>6. ASSUME Retry(p) PROVE Goal
  BY <1>6, RetryMoves DEF Goal
<1>7. ASSUME Leave(p), UNCHANGED complete PROVE Goal
  BY <1>7
<1> HIDE DEF Goal
<1>8. ASSUME AuthorAnswered(p) PROVE Goal
  BY <1>4, <1>8, AuthorAnsweredMoves
<1>9. ASSUME ReviewerAnswered(p) \/ ReviewerLost(p) \/ ReviewerGivenUp(p) PROVE Goal
  BY <1>4, <1>9, ReviewerMoves
<1>10. ASSUME AuthorValidationBreaks(p) \/ AuthorLost(p) \/ AuthorGivenUp(p) \/ CappedReviewerFails(p) PROVE Goal
  BY <1>5, <1>10, GivenUpMoves
<1>11. ASSUME Stranded(p) PROVE Goal
  BY <1>7, <1>11 DEF Stranded
<1>12. ASSUME CappedAuthorFails(p) PROVE Goal
  <2>1. CASE LastOfCall(p)
    BY <1>5, <1>12, <2>1, GivenUpMoves
  <2>2. CASE ~LastOfCall(p)
    BY <1>7, <1>12, <2>2 DEF CappedAuthorFails
  <2> QED BY <2>1, <2>2
<1>13. Goal
  BY <1>6, <1>8, <1>9, <1>10, <1>11, <1>12 DEF Answer, Goal
<1> QED BY <1>1, <1>2, <1>3, <1>13 DEF Goal, Moves

LEMMA AnswerTyped ==
    ASSUME TypeOK, NEW p \in Procs, Answer(p)
    PROVE  TypeOK'
<1>1. CASE Leave(p)
  <2>1. FilesTyped'
    BY <1>1, AnswerMoves, FilesKept DEF Leave, Forget, TypeOK, FilesTyped
  <2> QED BY <1>1, <2>1, LeaveTyped
<1>2. CASE \E s \in {"store", "reserve"} : \E w : Carried(p, w) /\ Moves(p, s, w)
  BY <1>2, AnswerMoves, CarriedTyped
<1> QED BY <1>1, <1>2, AnswerMoves

LEMMA RequestTyped ==
    ASSUME TypeOK, NEW p \in Procs
    PROVE  /\ request[p] \in [id : RequestIds \cup {None}, reply : ReplyType \cup {None}]
           /\ ledger[p] \in LedgerType
           /\ disk \in LedgerType /\ written \in Nat /\ complete \in BOOLEAN
           /\ sent \in Seq([id : RequestIds, reply : ReplyType])
  BY DEF TypeOK, LedgersTyped, FilesTyped

LEMMA ReserveTyped ==
    ASSUME TypeOK, NEW p \in Procs, ReserveCall(p)
    PROVE  TypeOK'
<1>1. pc[p] = "reserve"
  BY DEF ReserveCall
<1>2. p \in plan.procs /\ work[p].batch \in BatchNumbers
  BY <1>1, BatchNumbered, StepPlaces
<1>3. PICK s, l, id : ReserveMove(p, s, l, id)
  BY ReserveMoves
<1>4. id \in RequestIds /\ s \in {"send", "failed"} /\ (l = WithEntry(p, id) \/ (l = ledger[p] /\ s = "failed"))
  BY <1>3 DEF ReserveMove
<1>5. l \in LedgerType /\ (s = "send" => id \in Ids(l.entries))
  BY <1>4, WithEntryTyped, RequestTyped
<1>6. [id |-> id, reply |-> None] \in [id : RequestIds \cup {None}, reply : ReplyType \cup {None}]
  BY <1>4
<1>7. Prepared(p, s, work[p], l, [id |-> id, reply |-> None], last[p])
  BY <1>2, <1>4, <1>5, <1>6, LastTyped, StepPlaces DEF Prepared
<1>8. Saves(l) \/ UNCHANGED <<disk, written>>
  BY <1>3 DEF ReserveMove, Saves
<1>9. disk' \in LedgerType /\ written' \in Nat
  BY <1>5, <1>8, SavesTyped
<1>10. /\ Takes(p, s, work[p], l, [id |-> id, reply |-> None], last[p])
       /\ UNCHANGED sent /\ Other /\ complete' \in BOOLEAN
  BY <1>3, RequestTyped DEF ReserveMove
<1>11. FilesTyped'
  BY <1>10, FilesKept DEF Takes
<1> QED BY <1>7, <1>9, <1>10, <1>11, RequestTyped, StepTyped

LEMMA SendTyped ==
    ASSUME TypeOK, NEW p \in Procs, Send(p)
    PROVE  TypeOK'
<1>1. pc[p] = "send"
  BY DEF Send
<1>2. /\ p \in plan.procs /\ work[p].batch \in BatchNumbers
      /\ request[p].id \in RequestIds \cap Ids(ledger[p].entries)
  BY <1>1, BatchNumbered, StepPlaces DEF TypeOK, Ready
<1>3. PICK reply \in ReplyType : SendMove(p, reply)
  BY SendMoves, PlanTyped DEF SendMove
<1> DEFINE q == [id |-> request[p].id, reply |-> reply]
<1>4. q \in [id : RequestIds, reply : ReplyType]
  BY <1>2
<1>5. Prepared(p, "close", work[p], ledger[p], q, last[p])
  BY <1>2, <1>4, LastTyped, RequestTyped, StepPlaces DEF Prepared
<1>6. /\ Takes(p, "close", work[p], ledger[p], q, last[p]) /\ sent' = Append(sent, q)
      /\ UNCHANGED <<disk, written, complete>> /\ Other
  BY <1>3 DEF SendMove
<1>7. FilesTyped'
  BY <1>6, FilesKept, RequestTyped DEF Takes
<1> HIDE DEF q
<1>8. sent' \in Seq([id : RequestIds, reply : ReplyType])
  <2> DEFINE S == [id : RequestIds, reply : ReplyType]
  <2>1. q \in S /\ sent \in Seq(S) /\ sent' = Append(sent, q)
    BY <1>4, <1>6, RequestTyped
  <2> HIDE DEF S
  <2>2. sent' \in Seq(S)
    BY <2>1
  <2> QED BY <2>2 DEF S
<1> QED BY <1>5, <1>6, <1>7, <1>8, RequestTyped, StepTyped

LEMMA CloseTyped ==
    ASSUME TypeOK, NEW p \in Procs, CloseCall(p)
    PROVE  TypeOK'
<1>1. PICK s : CloseMove(p, s)
  BY CloseMoves
<1>2. pc[p] = "close"
  BY CloseMoves
<1>3. /\ p \in plan.procs /\ work[p].batch \in BatchNumbers
      /\ request[p].id \in RequestIds \cap Ids(ledger[p].entries)
      /\ request[p].reply \in ReplyType
  BY <1>2, BatchNumbered, StepPlaces DEF TypeOK, Ready
<1> DEFINE l == WithClosed(p)
<1>4. /\ s \in {"journal", "failed"}
      /\ Takes(p, s, work[p], l, request[p], last[p])
      /\ Saves(l) /\ UNCHANGED sent /\ Other /\ complete' \in BOOLEAN
  BY <1>1, RequestTyped DEF CloseMove, Saves
<1>5. l \in LedgerType
  BY <1>2, WithClosedTyped
<1>6. request[p].id \in Ids(l.entries)
  BY <1>2, WithClosedTyped DEF ClosedLegally, Ids
<1> HIDE DEF l
<1>7. Prepared(p, s, work[p], l, request[p], last[p])
  BY <1>3, <1>4, <1>5, <1>6, LastTyped, RequestTyped, StepPlaces DEF Prepared
<1>8. disk' \in LedgerType /\ written' \in Nat
  BY <1>4, <1>5, SavesTyped
<1>9. FilesTyped'
  BY <1>4, FilesKept DEF Takes
<1> QED BY <1>4, <1>7, <1>8, <1>9, RequestTyped, StepTyped

LEMMA JournalTyped ==
    ASSUME TypeOK, NEW p \in Procs, JournalCall(p)
    PROVE  TypeOK'
<1>1. PICK s, id : JournalMove(p, s, id)
  BY JournalMoves
<1>2. pc[p] = "journal"
  BY JournalMoves
<1>3. /\ p \in plan.procs /\ work[p].batch \in BatchNumbers /\ request[p].id \in RequestIds
  BY <1>2, BatchNumbered, StepPlaces DEF TypeOK, Ready
<1> DEFINE l == WithRecord(p)
<1>4. /\ s \in {"answered", "failed"}
      /\ Takes(p, s, work[p], l, request[p], id)
      /\ Saves(l) /\ UNCHANGED sent /\ Other /\ complete' \in BOOLEAN
      /\ id \in {request[p].id, last[p]}
  BY <1>1, RequestTyped DEF JournalMove, Saves
<1>5. l \in LedgerType
  BY <1>3, WithRecordTyped
<1> HIDE DEF l
<1>6. Prepared(p, s, work[p], l, request[p], id)
  BY <1>3, <1>4, <1>5, LastTyped, RequestTyped, StepPlaces DEF Prepared
<1>7. disk' \in LedgerType /\ written' \in Nat
  BY <1>4, <1>5, SavesTyped
<1>8. FilesTyped'
  BY <1>4, FilesKept DEF Takes
<1> QED BY <1>4, <1>6, <1>7, <1>8, RequestTyped, StepTyped

LEMMA StartTyped ==
    ASSUME TypeOK, NEW p \in Procs, Start(p)
    PROVE  TypeOK'
<1>1. PICK w : StartMove(p, w)
  BY StartMoves
<1>2. /\ p \in plan.procs /\ w \in WorkType
      /\ Takes(p, "next", w, disk, request[p], last[p])
      /\ UNCHANGED <<disk, written, sent, complete>> /\ Other
  BY <1>1 DEF StartMove
<1>3. Prepared(p, "next", w, disk, request[p], last[p])
  BY <1>2, LastTyped, RequestTyped, StepPlaces DEF Prepared
<1>4. FilesTyped'
  BY <1>2, FilesKept, RequestTyped DEF Takes
<1> QED BY <1>2, <1>3, <1>4, RequestTyped, StepTyped

LEMMA SaveTyped ==
    ASSUME TypeOK, NEW p \in Procs, pc[p] \in {"project", "finish"},
           NEW s \in {"next", "raise", "seal"}, SaveMove(p, s),
           s = "raise" => work[p].batch \in BatchNumbers
    PROVE  TypeOK'
<1>1. p \in plan.procs
  BY DEF TypeOK, Ready
<1>2. Prepared(p, s, work[p], ledger[p], request[p], last[p])
  BY <1>1, LastTyped, RequestTyped, StepPlaces DEF Prepared
<1>3. /\ Takes(p, s, work[p], ledger[p], request[p], last[p])
      /\ Saves(ledger[p]) \/ UNCHANGED <<disk, written>>
      /\ UNCHANGED sent /\ Other /\ complete' \in BOOLEAN
  BY DEF SaveMove, Saves
<1>4. disk' \in LedgerType /\ written' \in Nat
  BY <1>3, RequestTyped, SavesTyped
<1>5. FilesTyped'
  BY <1>3, FilesKept DEF Takes
<1> QED BY <1>2, <1>3, <1>4, <1>5, RequestTyped, StepTyped

LEMMA ResolveTyped ==
    ASSUME TypeOK, NEW p \in Procs, Resolve(p)
    PROVE  TypeOK'
<1>1. pc[p] \in {"store", "diagnose", "raise"}
  BY DEF Resolve, Store, StoreFallback, StoreClobbers, Diagnose, Raise
<1>2. p \in plan.procs /\ work[p].batch \in BatchNumbers
  BY <1>1, BatchNumbered, StepPlaces
<1>3. CASE Store(p) \/ StoreFallback(p)
  <2>1. PICK s, w, resolution : ResolveMove(p, s, w, resolution)
    BY <1>3, StoredMoves, FallbackMoves
  <2>2. UNCHANGED <<plan, diagnosed, packet, deaths, complete>>
    BY <1>3 DEF Store, StoreFallback, KeepLedger, ledgerVars
  <2>3. UNCHANGED <<BatchNumbers, Rows>>
    BY <2>2 DEF BatchNumbers, Rows
  <2>4. FilesTyped'
    BY <2>1, <2>2, <2>3 DEF ResolveMove, TypeOK, FilesTyped
  <2> QED BY <1>2, <2>1, <2>4, MovesTyped, StepPlaces DEF ResolveMove
<1>4. CASE StoreClobbers(p) \/ Raise(p)
  <2>1. Leave(p) /\ Other /\ UNCHANGED <<plan, complete>>
    BY <1>4 DEF StoreClobbers, Raise, Keep, Other, Leave, Forget
  <2>2. FilesTyped'
    BY <2>1, FilesKept, RequestTyped
  <2> QED BY <2>1, <2>2, LeaveTyped
<1>5. CASE Diagnose(p)
  <2> DEFINE s == IF work[p].raises THEN "raise" ELSE "next"
  <2>1. Moves(p, s, work[p])
    BY <1>5, Unmoved DEF Diagnose, Moves, Goto, KeepLedger
  <2>2. UNCHANGED <<plan, resolved, packet, deaths, complete>>
    BY <1>5 DEF Diagnose, KeepLedger, ledgerVars
  <2>3. diagnosed' = diagnosed \cup {work[p].batch} /\ UNCHANGED <<BatchNumbers, Rows>>
    BY <1>5, <2>2 DEF Diagnose, BatchNumbers, Rows
  <2>4. FilesTyped'
    BY <1>2, <2>2, <2>3 DEF TypeOK, FilesTyped
  <2>5. s \in Steps \ Asking
    BY StepPlaces
  <2> HIDE DEF s
  <2> QED BY <1>2, <2>1, <2>4, <2>5, LastTyped, MovesTyped
<1> QED BY <1>3, <1>4, <1>5 DEF Resolve

LEMMA NextBatchTyped ==
    ASSUME TypeOK, NEW p \in Procs, NextBatch(p)
    PROVE  TypeOK'
<1>1. pc[p] = "next" /\ UNCHANGED <<plan, complete>> /\ Other
  BY DEF NextBatch, Keep, KeepLedger, ledgerVars, Other
<1>2. p \in plan.procs /\ FilesTyped'
  BY <1>1, FilesKept, RequestTyped DEF TypeOK, Ready
<1>3. CASE Moves(p, "finish", work[p])
  BY <1>2, <1>3, MovesTyped, LastTyped, StepPlaces
<1>4. CASE \E w : BatchMove(p, w)
  <2>1. PICK w \in WorkType : Moves(p, "reserve", w) /\ w.batch \in BatchNumbers
    BY <1>4 DEF BatchMove
  <2> QED BY <1>2, <2>1, MovesTyped, StepPlaces
<1> QED BY <1>3, <1>4, NextBatchMoves

\* Of two commands one may be overtaken, and ends or goes on without its request.
LEMMA OvertakenMoves ==
    ASSUME TypeOK, NEW p \in Procs, Overtaken(p)
    PROVE  /\ Other /\ UNCHANGED <<plan, complete>> /\ pc[p] # "off"
           /\ \E q \in Procs \ {p} : pc[q] # "off"
           /\ \/ Leave(p)
              \/ /\ Moves(p, "failed", work[p])
                 /\ pc[p] \in {"reserve", "close", "journal"}
<1>1. pc[p] \in {"reserve", "close", "journal", "project", "finish"}
  BY DEF Overtaken, WritesSnapshot
<1>2. CASE Leave(p)
  BY <1>1, <1>2 DEF Overtaken, Keep, Other, Leave, Forget
<1>3. CASE /\ pc[p] \in {"reserve", "close", "journal"}
           /\ Goto(p, "failed") /\ UNCHANGED <<ledgerVars, work>>
  <2>1. work' = [work EXCEPT ![p] = work[p]]
    BY <1>3 DEF TypeOK, WorkTyped
  <2> QED BY <1>1, <1>3, <2>1 DEF Overtaken, Keep, Other, Goto, Moves, ledgerVars
<1> QED BY <1>2, <1>3 DEF Overtaken

LEMMA OvertakenTyped ==
    ASSUME TypeOK, NEW p \in Procs, Overtaken(p)
    PROVE  TypeOK'
<1>1. FilesTyped'
  BY OvertakenMoves, FilesKept DEF TypeOK, FilesTyped
<1>2. CASE Leave(p)
  BY <1>1, <1>2, LeaveTyped
<1>3. CASE Moves(p, "failed", work[p]) /\ pc[p] \in {"reserve", "close", "journal"}
  <2>1. p \in plan.procs /\ work[p].batch \in BatchNumbers
    BY <1>3, BatchNumbered, StepPlaces
  <2>2. work[p] \in WorkType
    BY DEF TypeOK, WorkTyped
  <2> QED BY <1>1, <1>3, <2>1, <2>2, MovesTyped, StepPlaces
<1> QED BY <1>2, <1>3, OvertakenMoves

LEMMA NextTyped ==
    ASSUME TypeOK, [Next]_vars
    PROVE  TypeOK'
<1>1. ASSUME NEW p \in Procs, Start(p) PROVE TypeOK'
  BY <1>1, StartTyped
<1>2. ASSUME NEW p \in Procs, Die(p) PROVE TypeOK'
  <2>1. Leave(p) /\ UNCHANGED <<plan, resolved, diagnosed, complete, packet>> /\ deaths' = deaths + 1
    BY <1>2 DEF Die, Leave, Forget
  <2>2. UNCHANGED <<BatchNumbers, Rows>>
    BY <2>1 DEF BatchNumbers, Rows
  <2>3. FilesTyped'
    BY <2>1, <2>2 DEF TypeOK, FilesTyped
  <2> QED BY <2>1, <2>3, LeaveTyped
<1>3. ASSUME NEW p \in Procs, Step(p) PROVE TypeOK'
  <2>1. CASE NextBatch(p)
    BY <2>1, NextBatchTyped
  <2>2. CASE Request(p)
    BY <2>2, ReserveTyped, SendTyped, CloseTyped, JournalTyped DEF Request
  <2>3. CASE Answer(p)
    BY <2>3, AnswerTyped
  <2>4. CASE Resolve(p)
    BY <2>4, ResolveTyped
  <2>5. CASE Project(p)
    <3>1. pc[p] = "project" /\ (SaveMove(p, "raise") \/ SaveMove(p, "next"))
      BY <2>5, ProjectMoves
    <3>2. work[p].batch \in BatchNumbers
      BY <3>1, BatchNumbered
    <3> QED BY <3>1, <3>2, SaveTyped
  <2>6. CASE Finish(p)
    <3>1. CASE pc[p] = "finish" /\ SaveMove(p, "seal")
      BY <3>1, SaveTyped
    <3>2. CASE Leave(p) /\ Other /\ UNCHANGED complete
      <4>1. FilesTyped'
        BY <3>2, FilesKept, RequestTyped DEF Leave, Forget
      <4> QED BY <3>2, <4>1, LeaveTyped
    <3> QED BY <2>6, <3>1, <3>2, FinishMoves
  <2>7. CASE Seal(p)
    <3>1. Leave(p) /\ UNCHANGED <<plan, resolved, diagnosed, complete, deaths>>
          /\ packet' \in {"none", "sealed", "failed"}
      BY <2>7 DEF Seal, Leave, Forget, TypeOK, FilesTyped
    <3>2. UNCHANGED <<BatchNumbers, Rows>>
      BY <3>1 DEF BatchNumbers, Rows
    <3>3. FilesTyped'
      BY <3>1, <3>2 DEF TypeOK, FilesTyped
    <3> QED BY <3>1, <3>3, LeaveTyped
  <2> QED BY <1>3, <2>1, <2>2, <2>3, <2>4, <2>5, <2>6, <2>7 DEF Step
<1>4. CASE UNCHANGED vars
  <2>1. UNCHANGED <<BatchNumbers, Rows, RowNumbers>>
    BY <1>4 DEF vars, ledgerVars, BatchNumbers, Rows, RowNumbers
  <2>2. LedgersTyped' /\ FilesTyped' /\ (\A p \in Procs : Ready(p)')
    BY <1>4, <2>1 DEF vars, ledgerVars, TypeOK, LedgersTyped, FilesTyped, Ready
  <2>3. WorkTyped'
    BY <1>4, <2>1 DEF vars, TypeOK, WorkTyped, WorkType
  <2> QED BY <2>2, <2>3 DEF TypeOK
<1>5. ASSUME NEW p \in Procs, Overtaken(p) PROVE TypeOK'
  BY <1>5, OvertakenTyped
<1> QED BY <1>1, <1>2, <1>3, <1>4, <1>5 DEF Next

\* Ledgers, requests, what a process holds of its batch and the files of all
\* batches keep their types, and a request under way has its entry.
THEOREM TypeCorrect == Spec => []TypeOK
<1>1. Init => TypeOK
  BY InitTyped
<1>2. TypeOK /\ [Next]_vars => TypeOK'
  BY NextTyped
<1> QED BY <1>1, <1>2, PTL DEF Spec

-----------------------------------------------------------------------------
(* Charged: every request that was sent has its entry.                     *)

\* Entries that are charged with what was reserved and with the cost they name.
Paid(entries) == \A i \in DOMAIN entries :
    /\ entries[i].debit >= Worst[entries[i].id.call.stage]
    /\ entries[i].reply # None => entries[i].debit >= entries[i].reply.cost

\* While snapshots sort by their number, the entry of every request that may
\* have reached the provider is in the last one.
ChargeInv ==
    /\ Paid(disk.entries) /\ \A p \in Procs : Paid(ledger[p].entries)
    /\ written <= Wide =>
          /\ Recorded
          /\ \A p \in Procs : pc[p] = "send" => request[p].id \in Ids(disk.entries)

\* What a step does to the ledgers, as far as charging goes.
Effect(p, s, l) ==
    /\ pc' = [pc EXCEPT ![p] = s]
    /\ ledger' = [ledger EXCEPT ![p] = l]
    /\ \A q \in Procs \ {p} : request'[q] = request[q]
    /\ UNCHANGED <<disk, written>> \/ (l \in LedgerType /\ Write(l))
    /\ Paid(ledger[p].entries) /\ Paid(disk.entries) => Paid(l.entries)
    /\ \/ UNCHANGED sent /\ s # "send"
       \/ UNCHANGED sent /\ Write(l) /\ request'[p].id \in Ids(l.entries)
       \/ /\ pc[p] = "send" /\ s # "send" /\ UNCHANGED <<disk, written>>
          /\ \E reply : sent' = Append(sent, [id |-> request[p].id, reply |-> reply])

LEMMA ExtendsFacts ==
    ASSUME NEW old \in LedgerType, NEW new \in LedgerType, Extends(old, new)
    PROVE  Ids(old.entries) \subseteq Ids(new.entries)
<1>1. old.entries \in Seq(EntryType) /\ new.entries \in Seq(EntryType)
  BY DEF LedgerType
<1>2. Len(old.entries) <= Len(new.entries)
      /\ \A i \in DOMAIN old.entries : ExtendsEntry(old.entries[i], new.entries[i])
  BY DEF Extends
<1>3. \A i \in DOMAIN old.entries : i \in DOMAIN new.entries /\ new.entries[i].id = old.entries[i].id
  BY <1>1, <1>2 DEF ExtendsEntry
<1> QED BY <1>3 DEF Ids

LEMMA ReservedPaid ==
    ASSUME TypeOK, NEW p \in Procs, NEW id \in RequestIds, Paid(ledger[p].entries)
    PROVE  Paid(WithEntry(p, id).entries)
<1>1. ledger[p].entries \in Seq(EntryType)
  BY RequestTyped DEF LedgerType
<1>2. /\ Reserved(id) \in EntryType /\ Reserved(id).id = id /\ Reserved(id).reply = None
      /\ Reserved(id).debit = Worst[id.call.stage]
  BY ReservedTyped DEF Reserved
<1>3. WithEntry(p, id).entries = Append(ledger[p].entries, Reserved(id))
  BY WithEntryTyped
<1>4. Worst[id.call.stage] \in Nat
  BY <1>2 DEF EntryType
<1>5. \A i \in DOMAIN WithEntry(p, id).entries :
         \/ i \in DOMAIN ledger[p].entries /\ WithEntry(p, id).entries[i] = ledger[p].entries[i]
         \/ WithEntry(p, id).entries[i] = Reserved(id)
  BY <1>1, <1>3
<1> QED BY <1>2, <1>4, <1>5 DEF Paid

LEMMA ClosedPaid ==
    ASSUME TypeOK, NEW p \in Procs, pc[p] = "close", Paid(ledger[p].entries)
    PROVE  Paid(WithClosed(p).entries)
<1> DEFINE old == ledger[p].entries
           new == WithClosed(p).entries
           n == EntryUnderWay(p)
<1>1. /\ old \in Seq(EntryType) /\ n \in DOMAIN old /\ request[p].reply \in ReplyType
      /\ ClosedLegally(old, n, request[p].reply, new)
  BY WithClosedTyped
<1> HIDE DEF old, new, n
<1>2. new \in Seq(EntryType) /\ DOMAIN new = DOMAIN old
  BY <1>1 DEF ClosedLegally
<1>3. Paid(old)
  BY DEF old
<1>4. ASSUME NEW i \in DOMAIN new
      PROVE  /\ new[i].debit >= Worst[new[i].id.call.stage]
             /\ new[i].reply # None => new[i].debit >= new[i].reply.cost
  <2>1. CASE i # n
    BY <1>1, <1>2, <1>3, <2>1 DEF ClosedLegally, Paid
  <2>2. CASE i = n
    <3>1. /\ old[n] \in EntryType /\ new[n] \in EntryType /\ new[n].id = old[n].id
          /\ new[n].debit >= old[n].debit
      BY <1>1, <1>2 DEF ClosedLegally
    <3>2. Worst[old[n].id.call.stage] \in Nat
      BY <3>1, ReservedTyped DEF EntryType, Reserved
    <3>3. new[n].debit >= Worst[new[n].id.call.stage]
      BY <1>1, <1>3, <3>1, <3>2 DEF Paid, EntryType
    <3>4. \/ new[n] = old[n]
          \/ new[n].reply = old[n].reply
          \/ new[n].reply = request[p].reply /\ new[n].debit >= request[p].reply.cost
      BY <1>1 DEF ClosedLegally
    <3>5. old[n].reply # None => old[n].debit >= old[n].reply.cost
      BY <1>1, <1>3 DEF Paid
    <3>6. old[n].reply # None => old[n].reply.cost \in Nat
      BY <3>1 DEF EntryType, ReplyType
    <3>7. new[n].reply # None => new[n].debit >= new[n].reply.cost
      BY <3>1, <3>4, <3>5, <3>6 DEF EntryType
    <3> QED BY <2>2, <3>3, <3>7
  <2> QED BY <2>1, <2>2
<1> QED BY <1>4 DEF Paid, new

LEMMA MovesEffect ==
    ASSUME TypeOK, NEW p \in Procs, NEW s, NEW w, s # "send", Moves(p, s, w)
    PROVE  Effect(p, s, ledger[p])
  BY Unmoved DEF Moves, Effect, ledgerVars

LEMMA LeaveEffect ==
    ASSUME TypeOK, NEW p \in Procs, Leave(p)
    PROVE  Effect(p, "off", Empty)
<1>1. /\ pc' = [pc EXCEPT ![p] = "off"] /\ ledger' = [ledger EXCEPT ![p] = Empty]
      /\ request' = [request EXCEPT ![p] = NoRequest]
      /\ UNCHANGED <<disk, written, sent>>
  BY DEF Leave, Forget, Goto
<1>2. Paid(Empty.entries)
  BY DEF Paid, Empty
<1>3. \A q \in Procs \ {p} : request'[q] = request[q]
  BY <1>1, RequestTyped DEF TypeOK, LedgersTyped
<1> QED BY <1>1, <1>2, <1>3 DEF Effect

LEMMA StepEffect ==
    ASSUME TypeOK, NEW p \in Procs, Start(p) \/ Step(p) \/ Overtaken(p) \/ Die(p)
    PROVE  \E s, l : Effect(p, s, l)
<1> USE DEF Takes
<1>1. CASE Start(p)
  <2>1. PICK w : StartMove(p, w)
    BY <1>1, StartMoves
  <2>2. Effect(p, "next", disk)
    BY <2>1, Unmoved DEF StartMove, Effect, TypeOK, LedgersTyped
  <2> QED BY <2>2
<1>2. CASE Die(p) \/ Seal(p)
  BY <1>2, LeaveEffect DEF Die, Seal
<1>3. CASE NextBatch(p)
  <2>1. \E s, w : s # "send" /\ Moves(p, s, w)
    BY <1>3, NextBatchMoves DEF BatchMove
  <2> QED BY <2>1, MovesEffect
<1>4. CASE ReserveCall(p)
  <2>1. PICK s, l, id : ReserveMove(p, s, l, id)
    BY <1>4, ReserveMoves
  <2>2. /\ pc' = [pc EXCEPT ![p] = s] /\ ledger' = [ledger EXCEPT ![p] = l]
        /\ request' = [request EXCEPT ![p] = [id |-> id, reply |-> None]]
        /\ UNCHANGED sent /\ id \in RequestIds
    BY <2>1 DEF ReserveMove
  <2>3. \/ s = "send" /\ l = WithEntry(p, id) /\ Write(l)
        \/ s = "failed" /\ l \in {WithEntry(p, id), ledger[p]} /\ UNCHANGED <<disk, written>>
    BY <2>1 DEF ReserveMove, WriteFails
  <2>4. \A q \in Procs \ {p} : request'[q] = request[q]
    BY <2>2 DEF TypeOK, LedgersTyped
  <2>5. request'[p].id = id
    BY <2>2 DEF TypeOK, LedgersTyped
  <2>6. Paid(ledger[p].entries) => Paid(l.entries)
    BY <2>2, <2>3, ReservedPaid
  <2>7. WithEntry(p, id) \in LedgerType /\ id \in Ids(WithEntry(p, id).entries)
    BY <2>2, WithEntryTyped
  <2>8. Effect(p, s, l)
    BY <2>2, <2>3, <2>4, <2>5, <2>6, <2>7 DEF Effect
  <2> QED BY <2>8
<1>5. CASE Send(p)
  <2>1. PICK reply : SendMove(p, reply)
    BY <1>5, SendMoves
  <2>2. \A q \in Procs \ {p} : request'[q] = request[q]
    BY <2>1 DEF SendMove, TypeOK, LedgersTyped
  <2>3. Effect(p, "close", ledger[p])
    BY <1>5, <2>1, <2>2 DEF SendMove, Send, Effect
  <2> QED BY <2>3
<1>6. CASE CloseCall(p)
  <2>1. PICK s : CloseMove(p, s)
    BY <1>6, CloseMoves
  <2>2. /\ pc[p] = "close" /\ s \in {"journal", "failed"}
        /\ pc' = [pc EXCEPT ![p] = s] /\ ledger' = [ledger EXCEPT ![p] = WithClosed(p)]
        /\ UNCHANGED sent
        /\ Write(WithClosed(p)) \/ UNCHANGED <<disk, written>>
    BY <1>6, <2>1, CloseMoves DEF CloseMove, WriteFails
  <2>3. \A q \in Procs \ {p} : request'[q] = request[q]
    BY <2>1 DEF CloseMove, TypeOK, LedgersTyped
  <2>4. WithClosed(p) \in LedgerType
        /\ (Paid(ledger[p].entries) => Paid(WithClosed(p).entries))
    BY <2>2, WithClosedTyped, ClosedPaid
  <2>5. Effect(p, s, WithClosed(p))
    BY <2>2, <2>3, <2>4 DEF Effect
  <2> QED BY <2>5
<1>7. CASE JournalCall(p)
  <2>1. PICK s, id : JournalMove(p, s, id)
    BY <1>7, JournalMoves
  <2>2. /\ pc[p] = "journal" /\ s \in {"answered", "failed"}
        /\ pc' = [pc EXCEPT ![p] = s] /\ ledger' = [ledger EXCEPT ![p] = WithRecord(p)]
        /\ UNCHANGED sent
        /\ Write(WithRecord(p)) \/ UNCHANGED <<disk, written>>
    BY <1>7, <2>1, JournalMoves DEF JournalMove, WriteFails
  <2>3. \A q \in Procs \ {p} : request'[q] = request[q]
    BY <2>1 DEF JournalMove, TypeOK, LedgersTyped
  <2>4. request[p].id \in RequestIds
    BY <2>2, StepPlaces DEF TypeOK, Ready
  <2>5. WithRecord(p) \in LedgerType /\ WithRecord(p).entries = ledger[p].entries
    BY <2>4, WithRecordTyped
  <2>6. Effect(p, s, WithRecord(p))
    BY <2>2, <2>3, <2>5 DEF Effect
  <2> QED BY <2>6
<1>8. CASE Answer(p)
  <2>1. CASE Leave(p)
    BY <2>1, LeaveEffect
  <2>2. CASE \E s \in {"store", "reserve"} : \E w : Moves(p, s, w)
    BY <2>2, MovesEffect
  <2> QED BY <1>8, <2>1, <2>2, AnswerMoves
<1>9. CASE Resolve(p)
  <2>1. CASE Store(p) \/ StoreFallback(p)
    <3>1. \E s, w : s # "send" /\ Moves(p, s, w)
      BY <2>1, StoredMoves, FallbackMoves DEF ResolveMove
    <3> QED BY <3>1, MovesEffect
  <2>2. CASE StoreClobbers(p) \/ Raise(p)
    BY <2>2, LeaveEffect DEF StoreClobbers, Raise
  <2>3. CASE Diagnose(p)
    <3>1. Moves(p, IF work[p].raises THEN "raise" ELSE "next", work[p])
      BY <2>3, Unmoved DEF Diagnose, Moves, Goto, KeepLedger
    <3>2. (IF work[p].raises THEN "raise" ELSE "next") # "send"
      OBVIOUS
    <3> QED BY <3>1, <3>2, MovesEffect
  <2> QED BY <1>9, <2>1, <2>2, <2>3 DEF Resolve
<1>10. CASE Project(p) \/ Finish(p)
  <2>1. CASE Leave(p)
    BY <2>1, LeaveEffect
  <2>2. CASE \E s \in {"raise", "next", "seal"} : SaveMove(p, s)
    <3>1. PICK s \in {"raise", "next", "seal"} : SaveMove(p, s)
      BY <2>2
    <3>2. \A q \in Procs \ {p} : request'[q] = request[q]
      BY <3>1 DEF SaveMove, TypeOK, LedgersTyped
    <3>3. Effect(p, s, ledger[p])
      BY <3>1, <3>2, RequestTyped DEF SaveMove, Effect
    <3> QED BY <3>3
  <2> QED BY <1>10, <2>1, <2>2, ProjectMoves, FinishMoves
<1>11. CASE Overtaken(p)
  <2>1. CASE Leave(p)
    BY <2>1, LeaveEffect
  <2>2. CASE Moves(p, "failed", work[p])
    BY <2>2, MovesEffect
  <2> QED BY <1>11, <2>1, <2>2, OvertakenMoves
<1> QED BY <1>1, <1>2, <1>3, <1>4, <1>5, <1>6, <1>7, <1>8, <1>9, <1>10, <1>11
     DEF Step, Request

LEMMA DiskGrows ==
    ASSUME TypeOK, TypeOK', NEW l, UNCHANGED <<disk, written>> \/ (l \in LedgerType /\ Write(l)),
           written' <= Wide
    PROVE  /\ written <= Wide
           /\ Ids(disk.entries) \subseteq Ids(disk'.entries)
           /\ Write(l) => disk' = l
<1>1. /\ disk \in LedgerType /\ written \in Nat /\ written' \in Nat /\ Wide \in Nat
  BY RequestTyped, LedgerAssumption DEF TypeOK, LedgersTyped
<1>2. CASE UNCHANGED <<disk, written>>
  <2>1. Write(l) => written' = written + 1
    BY DEF Write
  <2> QED BY <1>1, <1>2, <2>1
<1>3. CASE l \in LedgerType /\ Write(l)
  <2>1. Extends(disk, l) /\ written' = written + 1 /\ disk' = IF written < Wide THEN l ELSE disk
    BY <1>3 DEF Write
  <2>2. written < Wide /\ disk' = l
    BY <1>1, <2>1
  <2> QED BY <1>1, <1>3, <2>1, <2>2, ExtendsFacts
<1> QED BY <1>2, <1>3

LEMMA ChargeStep ==
    ASSUME TypeOK, TypeOK', ChargeInv, NEW p \in Procs, NEW s, NEW l, Effect(p, s, l)
    PROVE  ChargeInv'
<1>1. /\ pc \in [Procs -> Steps] /\ ledger \in [Procs -> LedgerType]
      /\ disk \in LedgerType /\ disk' \in LedgerType
      /\ sent \in Seq([id : RequestIds, reply : ReplyType])
  BY DEF TypeOK, WorkTyped, LedgersTyped
<1>2. /\ pc'[p] = s /\ ledger'[p] = l
      /\ \A q \in Procs \ {p} : pc'[q] = pc[q] /\ ledger'[q] = ledger[q] /\ request'[q] = request[q]
  BY <1>1 DEF Effect
<1>3. Paid(l.entries)
  BY DEF Effect, ChargeInv
<1>4. \A q \in Procs : Paid(ledger'[q].entries)
  BY <1>2, <1>3 DEF ChargeInv
<1>5. Paid(disk'.entries)
  BY <1>3 DEF Effect, ChargeInv, Write
<1>6. ASSUME written' <= Wide
      PROVE  /\ Recorded'
             /\ \A q \in Procs : pc'[q] = "send" => request'[q].id \in Ids(disk'.entries)
  <2>1. /\ written <= Wide /\ Ids(disk.entries) \subseteq Ids(disk'.entries)
        /\ Write(l) => disk' = l
    BY <1>6, DiskGrows DEF Effect
  <2>2. Recorded /\ \A q \in Procs : pc[q] = "send" => request[q].id \in Ids(disk.entries)
    BY <2>1 DEF ChargeInv
  <2>3. Recorded'
    <3>1. CASE UNCHANGED sent
      BY <2>1, <2>2, <3>1 DEF Recorded
    <3>2. CASE pc[p] = "send" /\ \E reply : sent' = Append(sent, [id |-> request[p].id, reply |-> reply])
      <4>1. PICK x : sent' = Append(sent, x) /\ x.id = request[p].id
        BY <3>2
      <4>2. \A i \in DOMAIN sent' : (i \in DOMAIN sent /\ sent'[i] = sent[i]) \/ sent'[i] = x
        BY <1>1, <4>1
      <4>3. x.id \in Ids(disk'.entries)
        BY <2>1, <2>2, <3>2, <4>1
      <4> QED BY <2>1, <2>2, <4>2, <4>3 DEF Recorded
    <3> QED BY <3>1, <3>2 DEF Effect
  <2>4. pc'[p] = "send" => request'[p].id \in Ids(disk'.entries)
    BY <1>2, <2>1 DEF Effect
  <2>5. \A q \in Procs \ {p} : pc'[q] = "send" => request'[q].id \in Ids(disk'.entries)
    BY <1>2, <2>1, <2>2
  <2> QED BY <2>3, <2>4, <2>5
<1> QED BY <1>4, <1>5, <1>6 DEF ChargeInv

LEMMA ChargeInit == Init => ChargeInv
<1> SUFFICES ASSUME Init PROVE ChargeInv
  OBVIOUS
<1>1. disk = Empty /\ ledger = [p \in Procs |-> Empty] /\ sent = <<>> /\ pc = [p \in Procs |-> "off"]
  BY DEF Init, LedgerInit
<1>2. Paid(Empty.entries)
  BY DEF Paid, Empty
<1> QED BY <1>1, <1>2 DEF ChargeInv, Recorded

LEMMA ChargeNext ==
    ASSUME TypeOK, TypeOK', ChargeInv, [Next]_vars
    PROVE  ChargeInv'
<1>1. CASE Next
  <2>1. PICK p \in Procs : Start(p) \/ Step(p) \/ Overtaken(p) \/ Die(p)
    BY <1>1 DEF Next
  <2> QED BY <2>1, StepEffect, ChargeStep
<1>2. CASE UNCHANGED vars
  BY <1>2 DEF vars, ledgerVars, ChargeInv, Recorded
<1> QED BY <1>1, <1>2

LEMMA ChargeMeans ==
    ASSUME TypeOK, ChargeInv, written <= Wide
    PROVE  Charged
<1> SUFFICES ASSUME NEW i \in DOMAIN sent
             PROVE  \E e \in Items(disk.entries) :
                      /\ e.id = sent[i].id
                      /\ e.debit >= Worst[e.id.call.stage]
                      /\ e.status # "reserved" /\ sent[i].reply = e.reply
                           => e.debit >= sent[i].reply.cost
  BY DEF Charged
<1>1. sent[i].id \in Ids(disk.entries)
  BY DEF ChargeInv, Recorded
<1>2. PICK n \in DOMAIN disk.entries : disk.entries[n].id = sent[i].id
  BY <1>1 DEF Ids
<1>3. sent[i].reply \in ReplyType
  <2> DEFINE S == [id : RequestIds, reply : ReplyType]
  <2>1. sent \in Seq(S)
    BY DEF TypeOK, LedgersTyped
  <2> HIDE DEF S
  <2>2. sent[i] \in S
    BY <2>1
  <2> QED BY <2>2 DEF S
<1>4. sent[i].reply # None
  BY <1>3, NoneApart
<1>5. disk.entries[n] \in Items(disk.entries)
  BY DEF Items
<1> QED BY <1>2, <1>4, <1>5 DEF ChargeInv, Paid

\* As long as the snapshots sort by their number, every request the provider
\* has seen, of whatever process and through deaths, restarts and commands that
\* run at the same time, has its entry in the snapshot that would be resumed,
\* charged with what was reserved for it and with the cost it was settled with.
THEOREM ChargedHolds == Spec => [](written <= Wide => Charged)
<1>1. Init => TypeOK /\ ChargeInv
  BY InitTyped, ChargeInit
<1>2. (TypeOK /\ ChargeInv) /\ [Next]_vars => (TypeOK /\ ChargeInv)'
  BY NextTyped, ChargeNext
<1>3. TypeOK /\ ChargeInv => (written <= Wide => Charged)
  BY ChargeMeans
<1> QED BY <1>1, <1>2, <1>3, PTL DEF Spec

-----------------------------------------------------------------------------
(* Facts about one command at a time.                                      *)

LEMMA TakesAt ==
    ASSUME TypeOK, NEW p \in Procs, NEW s, NEW w, NEW l, NEW q, NEW id, Takes(p, s, w, l, q, id)
    PROVE  /\ pc'[p] = s /\ work'[p] = w /\ ledger'[p] = l /\ request'[p] = q /\ last'[p] = id
           /\ UNCHANGED <<plan, Capped, Rows, BatchNumbers, RowNumbers>>
  BY DEF Takes, TypeOK, WorkTyped, LedgersTyped, Capped, Rows, BatchNumbers, RowNumbers

LEMMA MovesAt ==
    ASSUME TypeOK, NEW p \in Procs, NEW s, NEW w, Moves(p, s, w)
    PROVE  /\ pc'[p] = s /\ work'[p] = w
           /\ UNCHANGED <<plan, ledger, last, request, disk, written, sent>>
           /\ UNCHANGED <<Capped, Rows, BatchNumbers, RowNumbers>>
  BY DEF Moves, ledgerVars, TypeOK, WorkTyped, Capped, Rows, BatchNumbers, RowNumbers

LEMMA CallFacts ==
    ASSUME TypeOK, NEW p \in Procs
    PROVE  CallOf(p).batch = work[p].batch /\ CallOf(p).row = work[p].row
  BY DEF CallOf, AuthorCall, ReviewerCall

LEMMA SameCall ==
    ASSUME NEW p \in Procs, work'[p].batch = work[p].batch, work'[p].row = work[p].row
    PROVE  CallOf(p)' = CallOf(p)
  BY DEF CallOf, AuthorCall, ReviewerCall

-----------------------------------------------------------------------------
(* NeverRepeated.                                                          *)

LEMMA RunMoves ==
    ASSUME TypeOK, NEW p \in Procs, Run(p), NEW s, NEW w, Moves(p, s, w), s \notin Asking,
           pc[p] # "off", Confined(p)', Fresh(p)'
    PROVE  Run(p)'
<1>1. /\ pc'[p] = s /\ work'[p] = w
      /\ UNCHANGED <<plan, ledger, last, request, disk, written, sent>>
  BY MovesAt
<1>2. Recorded' /\ Synced(p)' /\ OneEntryEach' /\ NoRepeat'
  BY <1>1 DEF Run, Recorded, Synced, OneEntryEach, NoRepeat
<1>3. UnderWay(p)' /\ SentLast(p)'
  BY <1>1 DEF UnderWay, SentLast, Asking
<1> QED BY <1>2, <1>3 DEF Run

LEMMA RunLeave ==
    ASSUME TypeOK, NEW p \in Procs, Run(p), Leave(p)
    PROVE  Run(p)'
<1>1. pc'[p] = "off" /\ UNCHANGED <<disk, sent>>
  BY DEF Leave, Forget, Goto, TypeOK, WorkTyped
<1>2. Recorded' /\ Synced(p)' /\ OneEntryEach' /\ NoRepeat'
  BY <1>1 DEF Run, Recorded, Synced, OneEntryEach, NoRepeat
<1>3. UnderWay(p)' /\ SentLast(p)' /\ Confined(p)' /\ Fresh(p)'
  BY <1>1, StepPlaces DEF UnderWay, SentLast, Confined, Fresh
<1> QED BY <1>2, <1>3 DEF Run

\* A row further on, or a batch further on, has not been asked for.
LEMMA RunAnswer ==
    ASSUME TypeOK, NEW p \in Procs, Run(p), pc[p] \in {"answered", "failed"},
           NEW s \in {"store", "reserve"}, NEW w, Carried(p, w), Moves(p, s, w),
           \/ s = "store"
           \/ s = "reserve" /\ w.row > work[p].row
           \/ /\ s = "reserve" /\ w.row = work[p].row
              /\ pc[p] = "failed" /\ ~Capped /\ ~LastLost(p)
    PROVE  Run(p)'
<1>1. /\ pc'[p] = s /\ work'[p] = w
      /\ UNCHANGED <<plan, ledger, last, request, disk, written, sent>>
      /\ w.batch = work[p].batch /\ w.done = work[p].done
      /\ UNCHANGED Capped
  BY MovesAt DEF Carried
<1>2. work[p].row \in Nat /\ w.row \in Nat
  <2>1. w \in WorkType /\ RowNumbers \subseteq Nat
    BY PlanTyped DEF Carried, RowNumbers
  <2>2. PICK row \in {0} \cup RowNumbers : row = w.row
    BY <2>1 DEF WorkType
  <2>3. row \in Nat
    BY <2>1
  <2> QED BY <2>2, <2>3, LastTyped
<1>3. \A i \in DOMAIN sent : sent[i].id.call.row \in Nat
  <2> DEFINE S == [id : RequestIds, reply : ReplyType]
  <2>1. sent \in Seq(S)
    BY DEF TypeOK, LedgersTyped
  <2> HIDE DEF S
  <2>2. \A i \in DOMAIN sent : sent[i] \in S
    BY <2>1
  <2>3. \A id \in RequestIds : id.call \in Calls
    BY DEF RequestIds
  <2>4. \A c \in Calls : c.row \in Nat
    BY DEF Calls
  <2> QED BY <2>2, <2>3, <2>4 DEF S
<1>4. Confined(p)
  BY DEF Run
<1>5. Confined(p)'
  <2>1. pc[p] \in Unresolved /\ pc[p] \in InHand
    BY StepPlaces
  <2>2. s \in Unresolved /\ s \notin {"next", "diagnose", "project"}
    BY StepPlaces
  <2>3. s \in InHand => w.row >= work[p].row
    BY <1>2, StepPlaces
  <2> QED BY <1>1, <1>2, <1>3, <1>4, <2>1, <2>2, <2>3 DEF Confined
<1>6. Fresh(p)'
  <2>1. s = "reserve" => (Clean(p) \/ Blocked(p))'
    <3>1. ASSUME s = "reserve", w.row > work[p].row PROVE Clean(p)'
      <4>1. CallOf(p)'.batch = w.batch /\ CallOf(p)'.row = w.row
        BY <1>1 DEF CallOf, AuthorCall, ReviewerCall
      <4>2. ASSUME NEW i \in DOMAIN sent, sent[i].id.call = CallOf(p)' PROVE FALSE
        <5>1. sent[i].id.call.row <= work[p].row
          BY <1>1, <1>4, <4>1, <4>2, StepPlaces DEF Confined
        <5> QED BY <1>2, <3>1, <4>1, <4>2, <5>1
      <4> QED BY <1>1, <4>2 DEF Clean
    <3>2. ASSUME s = "reserve", w.row = work[p].row,
                 pc[p] = "failed", ~Capped, ~LastLost(p)
          PROVE  (Clean(p) \/ Blocked(p))'
      <4>1. CallOf(p)' = CallOf(p)
        BY <1>1, <3>2, SameCall
      <4>2. NewId(p, CallOf(p))' = NewId(p, CallOf(p))
        BY <1>1, <4>1 DEF NewId
      <4>3. Clean(p) \/ Blocked(p)
        BY <3>2 DEF Run, Fresh
      <4> QED BY <1>1, <4>1, <4>2, <4>3 DEF Clean, Blocked
    <3>3. s = "reserve" => w.row > work[p].row \/ w.row = work[p].row
      BY <1>2
    <3> QED BY <3>1, <3>2
  <2> QED BY <1>1, <2>1 DEF Fresh
<1>7. s \notin Asking /\ pc[p] # "off"
  BY StepPlaces
<1> QED BY <1>5, <1>6, <1>7, RunMoves

LEMMA OnlyOne ==
    ASSUME TypeOK, Alone, NEW p \in plan.procs, NEW q \in plan.procs
    PROVE  p = q
<1>1. IsFiniteSet(plan.procs)
  BY LedgerAssumption, PlanTyped, FS_Subset
<1>2. \E x : plan.procs = {x}
  BY <1>1, FS_Singleton DEF Alone
<1> QED BY <1>2

\* A command that is alone is not overtaken.
LEMMA NotOvertaken ==
    ASSUME TypeOK, Alone, NEW p \in plan.procs
    PROVE  p \in Procs /\ ~Overtaken(p)
<1>1. p \in Procs
  BY PlanTyped
<1> SUFFICES ASSUME Overtaken(p) PROVE FALSE
  BY <1>1
<1>2. PICK q \in Procs \ {p} : pc[q] # "off"
  BY <1>1, OvertakenMoves
<1> QED BY <1>2, RunnerPlanned, OnlyOne

LEMMA ActsPlanned ==
    ASSUME TypeOK, NEW p \in Procs, Start(p) \/ Step(p) \/ Overtaken(p) \/ Die(p)
    PROVE  p \in plan.procs /\ (~Start(p) => pc[p] # "off")
<1>1. CASE Start(p)
  BY <1>1 DEF Start
<1>2. ASSUME ~Start(p) PROVE pc[p] # "off"
  BY <1>2, OvertakenMoves DEF Die, Step, NextBatch, Request, ReserveCall, Send, CloseCall, JournalCall,
     Answer, AuthorAnswered, ReviewerAnswered, AuthorValidationBreaks, AuthorLost, ReviewerLost,
     Retry, AuthorGivenUp, ReviewerGivenUp, Stranded, CappedAuthorFails, CappedReviewerFails,
     Resolve, Store, StoreFallback, StoreClobbers, Diagnose, Raise, Project, Finish, Seal
<1> QED BY <1>1, <1>2, RunnerPlanned

\* A single command always extends the last snapshot with its own ledger.
LEMMA OwnSnapshot ==
    ASSUME NEW old \in LedgerType, NEW new \in LedgerType,
           \/ new.entries = old.entries
           \/ \E e \in EntryType : new.entries = Append(old.entries, e)
           \/ /\ Len(new.entries) = Len(old.entries)
              /\ \A i \in DOMAIN old.entries : ExtendsEntry(old.entries[i], new.entries[i]),
           \/ new.journal = old.journal
           \/ \E id \in RequestIds : new.journal = Append(old.journal, id)
    PROVE  Extends(old, new)
<1>1. /\ old.entries \in Seq(EntryType) /\ new.entries \in Seq(EntryType)
      /\ old.journal \in Seq(RequestIds) /\ new.journal \in Seq(RequestIds)
  BY DEF LedgerType
<1>2. /\ Len(old.entries) <= Len(new.entries)
      /\ \A i \in DOMAIN old.entries : ExtendsEntry(old.entries[i], new.entries[i])
  <2>1. CASE new.entries = old.entries
    BY <1>1, <2>1 DEF ExtendsEntry
  <2>2. CASE \E e \in EntryType : new.entries = Append(old.entries, e)
    <3>1. PICK e \in EntryType : new.entries = Append(old.entries, e)
      BY <2>2
    <3>2. /\ Len(new.entries) = Len(old.entries) + 1 /\ Len(old.entries) \in Nat
          /\ \A i \in DOMAIN old.entries : new.entries[i] = old.entries[i]
      BY <1>1, <3>1
    <3> QED BY <3>2 DEF ExtendsEntry
  <2>3. CASE /\ Len(new.entries) = Len(old.entries)
             /\ \A i \in DOMAIN old.entries : ExtendsEntry(old.entries[i], new.entries[i])
    BY <1>1, <2>3
  <2> QED BY <2>1, <2>2, <2>3
<1>3. /\ Len(old.journal) <= Len(new.journal)
      /\ \A i \in DOMAIN old.journal : new.journal[i] = old.journal[i]
  BY <1>1
<1> QED BY <1>2, <1>3 DEF Extends

\* What writing amounts to as long as the numbers keep their four digits.
LEMMA Written1 ==
    ASSUME TypeOK, NEW l, Write(l), written' <= Wide
    PROVE  disk' = l
<1>1. written \in Nat /\ Wide \in Nat
  BY LedgerAssumption DEF TypeOK, LedgersTyped
<1> QED BY <1>1 DEF Write

LEMMA RunStart ==
    ASSUME TypeOK, NEW p \in Procs, Run(p), NEW w, StartMove(p, w)
    PROVE  Run(p)'
<1>1. /\ pc'[p] = "next" /\ work'[p] = w /\ ledger'[p] = disk
      /\ UNCHANGED <<disk, sent>> /\ w.done = ResolvedBatches /\ Consistent(disk)
  BY TakesAt DEF StartMove, Resumable
<1>2. Recorded' /\ Synced(p)' /\ OneEntryEach' /\ NoRepeat'
  BY <1>1 DEF Run, Recorded, Synced, OneEntryEach, NoRepeat
<1>3. \A i \in DOMAIN sent : sent[i].id.call.batch \in ResolvedBatches
  <2> TAKE i \in DOMAIN sent
  <2>1. sent[i].id \in Ids(disk.entries)
    BY DEF Run, Recorded
  <2>2. sent[i].id \in Items(disk.journal)
    BY <1>1, <2>1 DEF Consistent
  <2> QED BY <1>1, <2>2 DEF Consistent
<1>4. UnderWay(p)' /\ SentLast(p)' /\ Confined(p)' /\ Fresh(p)'
  BY <1>1, <1>3, StepPlaces DEF UnderWay, SentLast, Confined, Fresh
<1> QED BY <1>2, <1>4 DEF Run

LEMMA RunNextBatch ==
    ASSUME TypeOK, NEW p \in Procs, Run(p), NextBatch(p)
    PROVE  Run(p)'
<1>1. pc[p] = "next" /\ \A i \in DOMAIN sent : sent[i].id.call.batch \in work[p].done
  BY DEF NextBatch, Run, Confined
<1>2. CASE Moves(p, "finish", work[p])
  <2>1. pc'[p] = "finish"
    BY <1>2, MovesAt
  <2>2. Confined(p)' /\ Fresh(p)'
    BY <2>1, StepPlaces DEF Confined, Fresh
  <2> QED BY <1>1, <1>2, <2>2, RunMoves, StepPlaces
<1>3. CASE \E w : BatchMove(p, w)
  <2>1. PICK w : BatchMove(p, w)
    BY <1>3
  <2>2. /\ Moves(p, "reserve", w) /\ pc'[p] = "reserve" /\ work'[p] = w /\ UNCHANGED sent
        /\ w.batch \notin work[p].done /\ w.done = work[p].done
    BY <2>1, MovesAt DEF BatchMove
  <2>3. Confined(p)'
    BY <1>1, <2>2, StepPlaces DEF Confined
  <2>4. CallOf(p)'.batch = w.batch
    BY <2>2 DEF CallOf, AuthorCall, ReviewerCall
  <2>5. Clean(p)'
    BY <1>1, <2>2, <2>4 DEF Clean
  <2>6. Fresh(p)'
    BY <2>2, <2>5 DEF Fresh
  <2> QED BY <1>1, <2>2, <2>3, <2>6, RunMoves, StepPlaces
<1> QED BY <1>2, <1>3, NextBatchMoves

LEMMA RunStored ==
    ASSUME TypeOK, NEW p \in Procs, Run(p), Store(p) \/ StoreFallback(p)
    PROVE  Run(p)'
<1>1. PICK s, w, resolution : ResolveMove(p, s, w, resolution)
  BY StoredMoves, FallbackMoves
<1>2. /\ Moves(p, s, w) /\ pc'[p] = s /\ work'[p] = w /\ UNCHANGED sent
      /\ s \in {"diagnose", "project", "raise"}
      /\ w.done = work[p].done \cup {work[p].batch}
  BY <1>1, MovesAt DEF ResolveMove
<1>3. pc[p] = "store"
  BY DEF Store, StoreFallback
<1>4. Confined(p)'
  BY <1>2, <1>3, StepPlaces DEF Confined, Run
<1>5. Fresh(p)'
  BY <1>2 DEF Fresh
<1> QED BY <1>2, <1>3, <1>4, <1>5, RunMoves, StepPlaces

LEMMA RunDiagnose ==
    ASSUME TypeOK, NEW p \in Procs, Run(p), Diagnose(p)
    PROVE  Run(p)'
<1> DEFINE s == IF work[p].raises THEN "raise" ELSE "next"
<1>1. pc[p] = "diagnose" /\ Moves(p, s, work[p])
  BY Unmoved DEF Diagnose, Moves, Goto, KeepLedger
<1>2. s \in {"raise", "next"}
  OBVIOUS
<1> HIDE DEF s
<1>3. pc'[p] = s /\ work'[p] = work[p] /\ UNCHANGED sent
  BY <1>1, MovesAt
<1>4. Confined(p)' /\ Fresh(p)'
  BY <1>1, <1>2, <1>3, StepPlaces DEF Confined, Fresh, Run
<1> QED BY <1>1, <1>2, <1>4, RunMoves, StepPlaces

LEMMA RunSave ==
    ASSUME TypeOK, NEW p \in Procs, Run(p), written' <= Wide,
           \/ pc[p] = "project" /\ (SaveMove(p, "raise") \/ SaveMove(p, "next"))
           \/ pc[p] = "finish" /\ SaveMove(p, "seal")
    PROVE  Run(p)'
<1>1. PICK s \in {"raise", "next", "seal"} :
        SaveMove(p, s) /\ (s = "next" => pc[p] = "project") /\ pc[p] # "off"
  OBVIOUS
<1>2. /\ pc'[p] = s /\ work'[p] = work[p] /\ ledger'[p] = ledger[p] /\ UNCHANGED sent
  BY <1>1, TakesAt DEF SaveMove
<1>3. ledger[p] = disk
  BY <1>1 DEF Run, Synced
<1>4. disk' = disk
  BY <1>1, <1>3, Written1 DEF SaveMove
<1>5. Recorded' /\ Synced(p)' /\ OneEntryEach' /\ NoRepeat'
  BY <1>2, <1>3, <1>4 DEF Run, Recorded, Synced, OneEntryEach, NoRepeat
<1>6. UnderWay(p)' /\ SentLast(p)' /\ Confined(p)' /\ Fresh(p)'
  BY <1>1, <1>2, StepPlaces DEF UnderWay, SentLast, Confined, Fresh, Run
<1> QED BY <1>5, <1>6 DEF Run

LEMMA RunReserve ==
    ASSUME TypeOK, NEW p \in Procs, Run(p), ReserveCall(p), written' <= Wide
    PROVE  Run(p)'
<1>1. PICK s, l, id : ReserveMove(p, s, l, id)
  BY ReserveMoves
<1>2. /\ pc[p] = "reserve" /\ ledger[p] = disk /\ disk \in LedgerType
      /\ disk.entries \in Seq(EntryType) /\ disk.journal \in Seq(RequestIds)
  BY DEF ReserveCall, Run, Synced, TypeOK, LedgersTyped, LedgerType
<1>3. /\ pc'[p] = s /\ work'[p] = work[p] /\ ledger'[p] = l
      /\ request'[p] = [id |-> id, reply |-> None]
      /\ UNCHANGED <<plan, sent, Capped>>
      /\ id \in RequestIds /\ id = NewId(p, CallOf(p)) /\ id.call = CallOf(p)
  BY <1>1, TakesAt DEF ReserveMove
<1>4. CallOf(p)' = CallOf(p)
  BY <1>3, SameCall
<1> DEFINE full == WithEntry(p, id)
<1>5. /\ full \in LedgerType /\ full.entries = Append(disk.entries, Reserved(id))
      /\ full.journal = disk.journal /\ Reserved(id) \in EntryType
  BY <1>2, <1>3, WithEntryTyped, ReservedTyped
<1> HIDE DEF full
<1>6. Extends(disk, full)
  BY <1>2, <1>5, OwnSnapshot
<1>7. Recorded /\ NoRepeat /\ OneEntryEach /\ Confined(p) /\ (Clean(p) \/ Blocked(p))
  BY <1>2 DEF Run, Fresh
<1>8. NoRepeat'
  BY <1>3, <1>7 DEF NoRepeat
<1>9. s \in {"send", "failed"} /\ Confined(p)'
  <2>1. s \in {"send", "failed"}
    BY <1>1 DEF ReserveMove
  <2> QED BY <1>2, <1>3, <1>7, <2>1, StepPlaces DEF Confined
<1>10. SentLast(p)'
  BY <1>3, <1>9 DEF SentLast
<1>11. CASE /\ s = "send" /\ l = full /\ Write(l)
            /\ id \notin Ids(ledger[p].entries)
  <2>1. disk' = full
    BY <1>11, Written1
  <2> DEFINE n == Len(disk.entries) + 1
  <2>2. /\ Len(disk'.entries) = n /\ disk'.entries[n] = Reserved(id) /\ n \in DOMAIN disk'.entries
        /\ \A i \in DOMAIN disk'.entries : i # n =>
              i \in DOMAIN disk.entries /\ disk'.entries[i] = disk.entries[i]
    BY <1>2, <1>5, <2>1
  <2>3. Recorded'
    <3>1. Ids(disk.entries) \subseteq Ids(disk'.entries)
      BY <1>2, <1>5, <1>6, <2>1, ExtendsFacts
    <3> QED BY <1>3, <1>7, <3>1 DEF Recorded
  <2>4. Synced(p)'
    BY <1>3, <1>11, <2>1 DEF Synced
  <2>5. Reserved(id).id = id /\ Reserved(id).status = "reserved"
    BY DEF Reserved
  <2> HIDE DEF n
  <2>6. OneEntryEach'
    <3>1. \A i \in DOMAIN disk.entries : disk.entries[i].id # id
      BY <1>2, <1>11 DEF Ids
    <3> QED BY <1>7, <2>2, <2>5, <3>1 DEF OneEntryEach
  <2>7. NewId(p, CallOf(p))' = NewId(p, CallOf(p))
    BY <1>2, <1>3, <1>4, <1>5, <1>11 DEF NewId
  <2>8. LastEntry' = Reserved(id) /\ disk'.entries # <<>>
    BY <1>2, <1>5, <2>1, <2>2 DEF LastEntry
  <2>9. UnderWay(p)'
    BY <1>3, <1>4, <1>11, <2>5, <2>7, <2>8 DEF UnderWay
  <2>10. Clean(p)
    BY <1>2, <1>3, <1>7, <1>11 DEF Blocked, Fresh, Run, Recorded
  <2>11. Fresh(p)'
    BY <1>3, <1>4, <1>11, <2>10 DEF Fresh, Clean
  <2> QED BY <1>8, <1>9, <1>10, <2>3, <2>4, <2>6, <2>9, <2>11 DEF Run
<1>12. CASE s = "failed" /\ l = full /\ WriteFails(l)
  BY <1>6, <1>12 DEF WriteFails
<1>13. CASE /\ s = "failed" /\ l = ledger[p] /\ UNCHANGED <<disk, written>>
            /\ Capped \/ id \in Ids(ledger[p].entries)
  <2>1. Recorded' /\ Synced(p)' /\ OneEntryEach'
    BY <1>2, <1>3, <1>7, <1>13 DEF Recorded, Synced, OneEntryEach
  <2>2. UnderWay(p)'
    BY <1>3, <1>13 DEF UnderWay, Asking
  <2>3. NewId(p, CallOf(p))' = NewId(p, CallOf(p))
    BY <1>3, <1>4, <1>13 DEF NewId
  <2>4. ~Capped => Blocked(p)'
    BY <1>2, <1>3, <1>4, <1>13, <2>3 DEF Blocked
  <2>5. Fresh(p)'
    BY <1>3, <1>13, <2>4 DEF Fresh
  <2> QED BY <1>8, <1>9, <1>10, <2>1, <2>2, <2>5 DEF Run
<1> QED BY <1>1, <1>11, <1>12, <1>13 DEF ReserveMove, full

LEMMA SentTyped ==
    ASSUME TypeOK
    PROVE  /\ \A i \in DOMAIN sent : sent[i].id \in RequestIds /\ sent[i].reply \in ReplyType
           /\ Len(sent) \in Nat /\ DOMAIN sent = 1 .. Len(sent)
<1> DEFINE S == [id : RequestIds, reply : ReplyType]
<1>1. sent \in Seq(S)
  BY DEF TypeOK, LedgersTyped
<1> HIDE DEF S
<1>2. /\ \A i \in DOMAIN sent : sent[i] \in S
      /\ Len(sent) \in Nat /\ DOMAIN sent = 1 .. Len(sent)
  BY <1>1
<1> QED BY <1>2 DEF S

LEMMA RunSend ==
    ASSUME TypeOK, NEW p \in Procs, Run(p), Send(p)
    PROVE  Run(p)'
<1>1. PICK reply : SendMove(p, reply)
  BY SendMoves
<1> DEFINE x == [id |-> request[p].id, reply |-> reply]
<1>2. /\ pc[p] = "send" /\ pc'[p] = "close" /\ work'[p] = work[p] /\ ledger'[p] = ledger[p]
      /\ request'[p] = x /\ sent' = Append(sent, x) /\ UNCHANGED <<plan, disk, Capped>>
  BY <1>1, TakesAt DEF SendMove, Send
<1>3. x.id = request[p].id /\ x.reply = reply
  OBVIOUS
<1> HIDE DEF x
<1>4. /\ Recorded /\ Synced(p) /\ OneEntryEach /\ UnderWay(p) /\ Confined(p) /\ Clean(p) /\ NoRepeat
  BY <1>2 DEF Run, Fresh
<1>5. CallOf(p)' = CallOf(p)
  BY <1>2, SameCall
<1>6. /\ request[p].id.call = CallOf(p) /\ request[p].id \in Ids(disk.entries)
  BY <1>2, <1>4, StepPlaces DEF UnderWay, TypeOK, Ready, Synced
<1> DEFINE n == Len(sent) + 1
<1>7. /\ Len(sent') = n /\ n \in Nat /\ sent'[n] = x /\ n \in DOMAIN sent' /\ sent' # <<>>
      /\ \A i \in DOMAIN sent' : i # n => i \in DOMAIN sent /\ sent'[i] = sent[i] /\ i < n
      /\ \A i \in DOMAIN sent' : i <= n
  <2> DEFINE S == {sent[i] : i \in DOMAIN sent} \cup {x}
  <2>1. Len(sent) \in Nat /\ DOMAIN sent = 1 .. Len(sent)
    BY SentTyped
  <2>2. sent \in Seq([id : RequestIds, reply : ReplyType])
    BY DEF TypeOK, LedgersTyped
  <2> QED BY <1>2, <2>1, <2>2
<1> HIDE DEF n
<1>8. Recorded'
  BY <1>2, <1>3, <1>4, <1>6, <1>7 DEF Recorded
<1>9. Synced(p)' /\ OneEntryEach'
  BY <1>2, <1>4 DEF Synced, OneEntryEach
<1>10. NewId(p, CallOf(p))' = NewId(p, CallOf(p))
  BY <1>2, <1>5 DEF NewId
<1>11. UnderWay(p)'
  BY <1>2, <1>3, <1>4, <1>5, <1>10, StepPlaces DEF UnderWay, LastEntry
<1>12. SentLast(p)'
  BY <1>2, <1>3, <1>7 DEF SentLast, x
<1>13. Confined(p)'
  <2>1. /\ x.id.call.batch = work[p].batch /\ x.id.call.row = work[p].row
        /\ work[p].row <= work[p].row
    BY <1>3, <1>6, CallFacts, LastTyped
  <2> QED BY <1>2, <1>4, <1>7, <2>1, StepPlaces DEF Confined
<1>14. Fresh(p)'
  BY <1>2, <1>4, <1>5, <1>7 DEF Fresh, Clean
<1>15. NoRepeat'
  <2> SUFFICES ASSUME NEW i \in DOMAIN sent', NEW j \in DOMAIN sent', i < j,
                      sent'[i].id.call = sent'[j].id.call
               PROVE  sent'[i].reply.kind = "malformed"
    BY DEF NoRepeat
  <2>1. i # n /\ i \in DOMAIN sent /\ sent'[i] = sent[i]
    BY <1>2, <1>7, SentTyped
  <2>2. CASE j # n
    BY <1>4, <1>7, <2>1, <2>2 DEF NoRepeat
  <2>3. CASE j = n
    BY <1>3, <1>4, <1>6, <1>7, <2>1, <2>3 DEF Clean
  <2> QED BY <2>2, <2>3
<1> QED BY <1>8, <1>9, <1>11, <1>12, <1>13, <1>14, <1>15 DEF Run

\* A single command closes the last entry, and may write its ledger.
LEMMA ClosesLast ==
    ASSUME TypeOK, NEW p \in Procs, Run(p), pc[p] = "close"
    PROVE  /\ ledger[p] = disk
           /\ EntryUnderWay(p) = Len(disk.entries)
           /\ Len(disk.entries) \in DOMAIN disk.entries
           /\ Extends(disk, WithClosed(p))
<1>1. /\ ledger[p] = disk /\ disk \in LedgerType /\ disk.entries \in Seq(EntryType)
      /\ disk.entries # <<>>
      /\ LastEntry.id = request[p].id /\ LastEntry.status = "reserved" /\ OneEntryEach
  BY StepPlaces DEF Run, Synced, UnderWay, TypeOK, LedgersTyped, LedgerType
<1> DEFINE n == Len(disk.entries)
<1>2. n \in DOMAIN disk.entries /\ disk.entries[n].id = request[p].id
      /\ disk.entries[n].status = "reserved" /\ disk.entries[n] \in EntryType
  BY <1>1 DEF LastEntry
<1>3. /\ EntryUnderWay(p) \in DOMAIN disk.entries
      /\ disk.entries[EntryUnderWay(p)].id = request[p].id
      /\ ClosedLegally(disk.entries, EntryUnderWay(p), request[p].reply, WithClosed(p).entries)
      /\ WithClosed(p) \in LedgerType /\ WithClosed(p).journal = disk.journal
  BY <1>1, WithClosedTyped
<1>4. EntryUnderWay(p) = n
  BY <1>1, <1>2, <1>3 DEF OneEntryEach
<1> HIDE DEF n
<1>5. /\ Len(WithClosed(p).entries) = Len(disk.entries)
      /\ \A i \in DOMAIN disk.entries : ExtendsEntry(disk.entries[i], WithClosed(p).entries[i])
  <2>1. Len(WithClosed(p).entries) = Len(disk.entries)
    BY <1>3 DEF ClosedLegally
  <2>2. ASSUME NEW i \in DOMAIN disk.entries
        PROVE  ExtendsEntry(disk.entries[i], WithClosed(p).entries[i])
    <3>1. CASE i # n
      BY <1>3, <1>4, <3>1 DEF ClosedLegally, ExtendsEntry
    <3>2. CASE i = n
      BY <1>2, <1>3, <1>4, <3>2 DEF ClosedLegally, ExtendsEntry
    <3> QED BY <3>1, <3>2
  <2> QED BY <2>1, <2>2
<1>6. Extends(disk, WithClosed(p))
  BY <1>1, <1>3, <1>5, OwnSnapshot
<1> QED BY <1>1, <1>2, <1>4, <1>6 DEF n

LEMMA RunClose ==
    ASSUME TypeOK, NEW p \in Procs, Run(p), CloseCall(p), written' <= Wide
    PROVE  Run(p)'
<1>1. PICK s : CloseMove(p, s)
  BY CloseMoves
<1>2. /\ pc[p] = "close" /\ ledger[p] = disk /\ EntryUnderWay(p) = Len(disk.entries)
      /\ Len(disk.entries) \in DOMAIN disk.entries
      /\ Extends(disk, WithClosed(p))
  BY CloseMoves, ClosesLast
<1> DEFINE l == WithClosed(p)
           n == Len(disk.entries)
           reply == request[p].reply
<1>3. /\ l \in LedgerType /\ l.journal = disk.journal /\ disk.entries \in Seq(EntryType)
      /\ ClosedLegally(disk.entries, n, reply, l.entries) /\ reply \in ReplyType
      /\ disk \in LedgerType
  BY <1>2, WithClosedTyped DEF TypeOK, LedgersTyped
<1> HIDE DEF l
<1>4. /\ pc'[p] = s /\ work'[p] = work[p] /\ ledger'[p] = l /\ request'[p] = request[p]
      /\ UNCHANGED <<plan, sent, Capped>>
      /\ Write(l) \/ WriteFails(l)
      /\ \/ s = "journal" /\ reply.kind # "invalid"
         \/ s = "failed" /\ (Write(l) => reply.kind = "invalid")
  BY <1>1, TakesAt DEF CloseMove, Write, WriteFails, l
<1>5. Write(l)
  BY <1>2, <1>4 DEF WriteFails, l
<1>6. disk' = l
  BY <1>5, Written1
<1>7. /\ Len(l.entries) = n /\ DOMAIN l.entries = DOMAIN disk.entries
      /\ \A i \in DOMAIN disk.entries : l.entries[i].id = disk.entries[i].id
      /\ l.entries \in Seq(EntryType)
  BY <1>2, <1>3 DEF ClosedLegally
<1>8. CallOf(p)' = CallOf(p) /\ NewId(p, CallOf(p))' = NewId(p, CallOf(p))
  <2>1. CallOf(p)' = CallOf(p)
    BY <1>4, SameCall
  <2> QED BY <1>2, <1>3, <1>4, <2>1 DEF NewId
<1>9. /\ Recorded /\ OneEntryEach /\ UnderWay(p) /\ SentLast(p) /\ Confined(p) /\ NoRepeat
      /\ \A i \in DOMAIN sent :
            i < Len(sent) /\ sent[i].id.call = CallOf(p) => sent[i].reply.kind = "malformed"
  BY <1>2 DEF Run, Fresh
<1>10. Ids(l.entries) = Ids(disk.entries)
  BY <1>7 DEF Ids
<1>11. Recorded' /\ Synced(p)' /\ OneEntryEach' /\ NoRepeat'
  <2>1. Recorded' /\ Synced(p)'
    BY <1>4, <1>6, <1>9, <1>10 DEF Recorded, Synced
  <2>2. OneEntryEach'
    BY <1>6, <1>7, <1>9 DEF OneEntryEach
  <2>3. NoRepeat'
    BY <1>4, <1>9 DEF NoRepeat
  <2> QED BY <2>1, <2>2, <2>3
<1>12. LastEntry' = l.entries[n] /\ disk'.entries # <<>> /\ LastEntry.id = l.entries[n].id
  BY <1>2, <1>6, <1>7 DEF LastEntry
<1>13. SentLast(p)' /\ Confined(p)'
  BY <1>2, <1>4, <1>9, StepPlaces DEF SentLast, Confined
<1>14. UnderWay(p)'
  <2>1. CASE s = "failed"
    BY <1>4, <2>1, StepPlaces DEF UnderWay
  <2>2. CASE s = "journal"
    <3>1. /\ request[p].id.call = CallOf(p) /\ LastEntry.id = request[p].id
      BY <1>2, <1>9, StepPlaces DEF UnderWay
    <3>4. ~Capped => request[p].id = NewId(p, CallOf(p))
      BY <1>2, <1>9, StepPlaces DEF UnderWay
    <3>2. /\ l.entries[n].status # "reserved"
          /\ (l.entries[n].status = "uncertain") <=> (reply.kind = "lost")
          /\ ~Capped => l.entries[n].status # "overspent"
      BY <1>3, <1>4, <2>2 DEF ClosedLegally
    <3>3. reply.kind # "invalid" /\ pc'[p] = "journal"
      BY <1>4, <2>2
    <3> QED BY <1>4, <1>8, <1>12, <3>1, <3>2, <3>3, <3>4 DEF UnderWay
  <2> QED BY <1>4, <2>1, <2>2
<1>15. Fresh(p)'
  <2>1. CASE s = "journal"
    BY <1>4, <1>8, <1>9, <2>1 DEF Fresh
  <2>2. CASE s = "failed"
    <3>1. ~Capped => Blocked(p)'
      <4>1. ~Capped => request[p].id = NewId(p, CallOf(p))
        BY <1>2, <1>9, StepPlaces DEF UnderWay
      <4>2. request[p].id \in Ids(disk.entries)
        BY <1>2, StepPlaces DEF TypeOK, Ready
      <4> QED BY <1>4, <1>6, <1>8, <1>10, <4>1, <4>2 DEF Blocked
    <3> QED BY <1>4, <2>2, <3>1 DEF Fresh
  <2> QED BY <1>4, <2>1, <2>2
<1> QED BY <1>11, <1>13, <1>14, <1>15 DEF Run

LEMMA RunJournal ==
    ASSUME TypeOK, NEW p \in Procs, Run(p), JournalCall(p), written' <= Wide
    PROVE  Run(p)'
<1>1. PICK s, id : JournalMove(p, s, id)
  BY JournalMoves
<1>2. /\ pc[p] = "journal" /\ ledger[p] = disk /\ disk \in LedgerType
      /\ request[p].id \in RequestIds
  BY JournalMoves, StepPlaces DEF Run, Synced, TypeOK, LedgersTyped, Ready
<1> DEFINE l == WithRecord(p)
<1>3. /\ l \in LedgerType /\ l.entries = disk.entries
      /\ l.journal = Append(disk.journal, request[p].id)
  BY <1>2, WithRecordTyped
<1> HIDE DEF l
<1>4. Extends(disk, l)
  BY <1>2, <1>3, OwnSnapshot
<1>5. /\ pc'[p] = s /\ work'[p] = work[p] /\ ledger'[p] = l /\ request'[p] = request[p]
      /\ UNCHANGED <<plan, sent, Capped>>
      /\ Write(l) /\ s = IF HandedOver(p) THEN "answered" ELSE "failed"
  BY <1>1, <1>4, TakesAt DEF JournalMove, WriteFails, l
<1>6. disk' = l
  BY <1>5, Written1
<1>7. CallOf(p)' = CallOf(p)
  BY <1>5, SameCall
<1>8. /\ Recorded /\ OneEntryEach /\ UnderWay(p) /\ SentLast(p) /\ Confined(p) /\ NoRepeat
      /\ \A i \in DOMAIN sent :
            i < Len(sent) /\ sent[i].id.call = CallOf(p) => sent[i].reply.kind = "malformed"
  BY <1>2 DEF Run, Fresh
<1>9. s \in {"answered", "failed"}
  BY <1>5
<1>10. Recorded' /\ Synced(p)' /\ OneEntryEach' /\ NoRepeat'
  BY <1>3, <1>5, <1>6, <1>8 DEF Recorded, Synced, OneEntryEach, NoRepeat
<1>11. UnderWay(p)' /\ SentLast(p)' /\ Confined(p)'
  BY <1>2, <1>5, <1>8, <1>9, StepPlaces DEF UnderWay, SentLast, Confined
<1>12. Fresh(p)'
  <2>1. ASSUME s = "failed", ~Capped, ~LastLost(p)' PROVE Clean(p)'
    <3>1. /\ LastEntry.status # "uncertain"
          /\ LastEntry.id = request[p].id /\ LastEntry.status # "overspent"
          /\ (LastEntry.status = "uncertain") <=> (request[p].reply.kind = "lost")
          /\ request[p].reply.kind # "invalid"
          /\ disk.entries # <<>> /\ request[p].id.call = CallOf(p)
      BY <1>2, <1>3, <1>5, <1>6, <1>8, <2>1, StepPlaces DEF LastLost, LastEntry, UnderWay
    <3>2. \A e \in Items(disk.entries) : e.id = request[p].id => e.status # "overspent"
      <4>1. Len(disk.entries) \in DOMAIN disk.entries
        BY <1>2, <3>1 DEF LedgerType
      <4> QED BY <1>8, <3>1, <4>1 DEF Items, OneEntryEach, LastEntry
    <3>3. request[p].reply.kind # "good"
      BY <1>2, <1>5, <2>1, <3>2 DEF HandedOver
    <3>4. request[p].reply.kind = "malformed"
      <4>1. request[p].reply \in ReplyType
        BY <1>2 DEF TypeOK, Ready
      <4> QED BY <3>1, <3>3, <4>1 DEF ReplyType
    <3>5. sent # <<>> /\ sent[Len(sent)].reply = request[p].reply
      BY <1>2, <1>8 DEF SentLast
    <3>6. \A i \in DOMAIN sent : i < Len(sent) \/ i = Len(sent)
      BY SentTyped
    <3> QED BY <1>5, <1>7, <1>8, <3>4, <3>5, <3>6 DEF Clean
  <2> QED BY <1>5, <1>9, <2>1 DEF Fresh
<1> QED BY <1>10, <1>11, <1>12 DEF Run

LEMMA RunInit == ASSUME Init, NEW p \in plan.procs PROVE Run(p)
<1>1. /\ p \in Procs /\ disk = Empty /\ sent = <<>> /\ pc[p] = "off"
  BY PlanTyped, InitTyped DEF Init, LedgerInit
<1>2. Recorded /\ Synced(p) /\ OneEntryEach /\ NoRepeat
  BY <1>1 DEF Recorded, Synced, OneEntryEach, NoRepeat, Empty
<1>3. UnderWay(p) /\ SentLast(p) /\ Confined(p) /\ Fresh(p)
  BY <1>1, StepPlaces DEF UnderWay, SentLast, Confined, Fresh
<1> QED BY <1>2, <1>3 DEF Run

\* What the batch's answer steps do to the row under way.
LEMMA AnswerRows ==
    ASSUME TypeOK, NEW p \in Procs, Answer(p), ~Leave(p)
    PROVE  \E s \in {"store", "reserve"} : \E w :
             /\ Carried(p, w) /\ Moves(p, s, w)
             /\ \/ s = "store"
                \/ s = "reserve" /\ w.row > work[p].row
                \/ /\ s = "reserve" /\ w.row = work[p].row
                   /\ pc[p] = "failed" /\ ~Capped /\ ~LastLost(p)
<1>1. work[p].row \in Nat
  BY LastTyped
<1> DEFINE Goal == \E s \in {"store", "reserve"} : \E w :
             /\ Carried(p, w) /\ Moves(p, s, w)
             /\ \/ s = "store"
                \/ s = "reserve" /\ w.row > work[p].row
                \/ /\ s = "reserve" /\ w.row = work[p].row
                   /\ pc[p] = "failed" /\ ~Capped /\ ~LastLost(p)
<1>2. ASSUME NEW rows, NEW r \in Nat, r > work[p].row, NEW s, NEW w, ReviewMove(p, rows, r, s, w)
      PROVE  Goal
  <2>1. /\ s \in {"store", "reserve"} /\ Carried(p, w) /\ Moves(p, s, w)
        /\ s = "reserve" => w.row \in Nat /\ w.row >= r
    BY <1>2 DEF ReviewMove
  <2>2. s = "reserve" => w.row > work[p].row
    BY <1>1, <1>2, <2>1
  <2> QED BY <2>1, <2>2
<1>3. ASSUME NEW rows, NEW author, NEW raises, NEW w, StoreMove(p, rows, author, raises, w)
      PROVE  Goal
  BY <1>3 DEF StoreMove
<1>4. ASSUME Retry(p) PROVE Goal
  BY <1>4, RetryMoves DEF Retry
<1> HIDE DEF Goal
<1>5. ASSUME AuthorAnswered(p) PROVE Goal
  <2>1. work[p].row = 0
    BY <1>5 DEF AuthorAnswered
  <2> QED BY <1>2, <1>5, <2>1, AuthorAnsweredMoves
<1>6. ASSUME ReviewerAnswered(p) \/ ReviewerLost(p) \/ ReviewerGivenUp(p) PROVE Goal
  <2>1. work[p].row + 1 \in Nat /\ work[p].row + 1 > work[p].row
    BY <1>1
  <2> QED BY <1>2, <1>6, <2>1, ReviewerMoves
<1>7. ASSUME AuthorValidationBreaks(p) \/ AuthorLost(p) \/ AuthorGivenUp(p) \/ CappedReviewerFails(p)
      PROVE  Goal
  BY <1>3, <1>7, GivenUpMoves
<1>8. ASSUME CappedAuthorFails(p) PROVE Goal
  <2>1. LastOfCall(p)
    BY <1>8 DEF CappedAuthorFails
  <2> QED BY <1>3, <1>8, <2>1, GivenUpMoves
<1>9. ~Stranded(p)
  BY DEF Stranded
<1>10. Goal
  BY <1>4, <1>5, <1>6, <1>7, <1>8, <1>9 DEF Answer
<1> QED BY <1>10 DEF Goal

LEMMA RunStep ==
    ASSUME TypeOK, NEW p \in Procs, Run(p), Start(p) \/ Step(p) \/ Die(p), written' <= Wide
    PROVE  Run(p)'
<1>1. CASE Start(p)
  BY <1>1, StartMoves, RunStart
<1>2. CASE Leave(p)
  BY <1>2, RunLeave
<1>3. CASE Die(p) \/ Seal(p)
  BY <1>2, <1>3 DEF Die, Seal
<1>4. CASE NextBatch(p)
  BY <1>4, RunNextBatch
<1>5. CASE Request(p)
  BY <1>5, RunReserve, RunSend, RunClose, RunJournal DEF Request
<1>6. CASE Answer(p)
  <2>1. CASE ~Leave(p)
    BY <1>6, <2>1, AnswerRows, AnswerMoves, RunAnswer
  <2> QED BY <1>2, <2>1
<1>7. CASE Resolve(p)
  BY <1>2, <1>7, RunStored, RunDiagnose DEF Resolve, StoreClobbers, Raise
<1>8. CASE Project(p) \/ Finish(p)
  BY <1>2, <1>8, ProjectMoves, FinishMoves, RunSave
<1> QED BY <1>1, <1>3, <1>4, <1>5, <1>6, <1>7, <1>8 DEF Step

RunInv == Alone /\ written <= Wide => \A p \in plan.procs : Run(p)

LEMMA PlanKept ==
    ASSUME NEW p \in Procs, Start(p) \/ Step(p) \/ Overtaken(p) \/ Die(p)
    PROVE  UNCHANGED plan
<1> USE DEF Leave, Forget, KeepLedger, ledgerVars
<1>1. CASE Start(p) \/ Die(p) \/ NextBatch(p) \/ Project(p) \/ Finish(p) \/ Seal(p)
  BY <1>1 DEF Start, Resume, Die, NextBatch, Project, Finish, Seal
<1>2. CASE Request(p)
  BY <1>2 DEF Request, ReserveCall, Reserve, Send, Transport, CloseCall, Close, JournalCall, Journal
<1>3. CASE Answer(p)
  BY <1>3 DEF Answer, AuthorAnswered, ReviewerAnswered, AuthorValidationBreaks, AuthorLost,
     ReviewerLost, Retry, AuthorGivenUp, ReviewerGivenUp, Stranded, CappedAuthorFails,
     CappedReviewerFails
<1>4. CASE Resolve(p)
  BY <1>4 DEF Resolve, Store, StoreFallback, StoreClobbers, Diagnose, Raise
<1>5. CASE Overtaken(p)
  BY <1>5 DEF Overtaken
<1> QED BY <1>1, <1>2, <1>3, <1>4, <1>5 DEF Step

LEMMA WrittenGrows ==
    ASSUME TypeOK, TypeOK', [Next]_vars
    PROVE  UNCHANGED plan /\ (written' <= Wide => written <= Wide)
<1>1. CASE Next
  <2>1. PICK p \in Procs : Start(p) \/ Step(p) \/ Overtaken(p) \/ Die(p)
    BY <1>1 DEF Next
  <2>2. PICK s, l : Effect(p, s, l)
    BY <2>1, StepEffect
  <2>3. written' <= Wide => written <= Wide
    BY <2>2, DiskGrows DEF Effect
  <2>4. UNCHANGED plan
    BY <2>1, PlanKept
  <2> QED BY <2>3, <2>4
<1>2. CASE UNCHANGED vars
  BY <1>2 DEF vars, ledgerVars
<1> QED BY <1>1, <1>2

LEMMA RunNext ==
    ASSUME TypeOK, TypeOK', RunInv, [Next]_vars
    PROVE  RunInv'
<1> SUFFICES ASSUME Alone', written' <= Wide, NEW p \in plan'.procs PROVE Run(p)'
  BY DEF RunInv
<1>1. UNCHANGED plan /\ written <= Wide
  BY WrittenGrows
<1>2. Alone /\ p \in plan.procs /\ Run(p) /\ p \in Procs
  BY <1>1, PlanTyped DEF Alone, RunInv
<1>3. CASE Next
  <2>1. PICK q \in Procs : Start(q) \/ Step(q) \/ Overtaken(q) \/ Die(q)
    BY <1>3 DEF Next
  <2>2. q = p
    BY <1>2, <2>1, ActsPlanned, OnlyOne
  <2> QED BY <1>2, <2>1, <2>2, NotOvertaken, RunStep
<1>4. CASE UNCHANGED vars
  <2>1. /\ Recorded' /\ Synced(p)' /\ OneEntryEach' /\ NoRepeat' /\ SentLast(p)' /\ Confined(p)'
    BY <1>2, <1>4 DEF vars, ledgerVars, Run, Recorded, Synced, OneEntryEach, NoRepeat, SentLast, Confined
  <2>2. UNCHANGED <<CallOf(p), NewId(p, CallOf(p)), Capped, LastEntry, LastLost(p)>>
    BY <1>4 DEF vars, ledgerVars, CallOf, NewId, Capped, LastEntry, LastLost
  <2>3. UnderWay(p)' /\ Fresh(p)'
    BY <1>2, <1>4, <2>2 DEF vars, ledgerVars, Run, UnderWay, Fresh, Clean, Blocked
  <2> QED BY <2>1, <2>3 DEF Run
<1> QED BY <1>3, <1>4

\* One command after the other never asks again for what it has paid for: only
\* a response that was settled and found malformed is followed by a second
\* request for the same call, whatever dies and is started again in between.
THEOREM NeverRepeatedHolds == Spec => [](written <= Wide => NeverRepeated)
<1>1. Init => TypeOK /\ RunInv
  BY InitTyped, RunInit DEF RunInv
<1>2. (TypeOK /\ RunInv) /\ [Next]_vars => (TypeOK /\ RunInv)'
  BY NextTyped, RunNext
<1>3. TypeOK /\ RunInv => (written <= Wide => NeverRepeated)
  <2> SUFFICES ASSUME TypeOK, RunInv, written <= Wide, Alone PROVE NoRepeat
    BY DEF NeverRepeated, NoRepeat, Alone
  <2>1. \E x : plan.procs = {x}
    <3>1. IsFiniteSet(plan.procs)
      BY LedgerAssumption, PlanTyped, FS_Subset
    <3> QED BY <3>1, FS_Singleton DEF Alone
  <2> QED BY <2>1 DEF RunInv, Run
<1> QED BY <1>1, <1>2, <1>3, PTL DEF Spec

-----------------------------------------------------------------------------
(* What one command leaves behind.                                         *)

LEMMA Ledgered ==
    ASSUME TypeOK
    PROVE  /\ disk \in LedgerType
           /\ disk.entries \in Seq(EntryType) /\ disk.journal \in Seq(RequestIds)
           /\ \A k \in DOMAIN disk.journal : disk.journal[k] \in RequestIds
                /\ disk.journal[k].call \in Calls
           /\ \A i \in DOMAIN disk.entries : disk.entries[i] \in EntryType
                /\ disk.entries[i].id \in RequestIds
                /\ disk.entries[i].id.call \in Calls
                /\ disk.entries[i].id.call.row \in Nat
<1>1. disk \in LedgerType
  BY DEF TypeOK, LedgersTyped
<1>2. disk.entries \in Seq(EntryType) /\ disk.journal \in Seq(RequestIds)
  BY <1>1 DEF LedgerType
<1>3. \A id \in RequestIds : id.call \in Calls
  BY DEF RequestIds
<1>4. \A c \in Calls : c.row \in Nat
  BY DEF Calls
<1>5. \A k \in DOMAIN disk.journal : disk.journal[k] \in RequestIds
  BY <1>2
<1>6. \A i \in DOMAIN disk.entries : disk.entries[i] \in EntryType
  BY <1>2
<1>7. \A i \in DOMAIN disk.entries : disk.entries[i].id \in RequestIds
  BY <1>6 DEF EntryType
<1> QED BY <1>1, <1>2, <1>3, <1>4, <1>5, <1>6, <1>7

\* An uncertain entry of a batch that is not resolved.
Dangling(i) ==
    /\ i \in DOMAIN disk.entries /\ disk.entries[i].status = "uncertain"
    /\ disk.entries[i].id.call.batch \notin ResolvedBatches
MarkedLost(rows, e, row) ==
    /\ e.id.call.row \in RowNumbers /\ e.id.call.row < row
    /\ rows[e.id.call.row] = Row("reviewerLost", e.id)
\* Author and reviewers of a batch are named as far as there are any.
AllNamed(b, author, rows) ==
    /\ author = Final(disk.journal, AuthorCall(b))
    /\ \A r \in RowNumbers : rows[r].reviewer = Final(disk.journal, ReviewerCall(b, r))

\* The steps from one request of a batch to the next, or to its resolution.
LEMMA TidyAnswer ==
    ASSUME TypeOK, NEW p \in Procs, Run(p), Tidy(p), pc[p] \in {"answered", "failed"},
           NEW s \in {"store", "reserve"}, NEW w, Carried(p, w), Moves(p, s, w), Other,
           s = "reserve" => w.row \in RowNumbers /\ w.row > work[p].row,
           AllNamed(work[p].batch, w.author, w.rows),
           \A i : ~Capped /\ Dangling(i) =>
              IF s = "store" THEN BoundBy(w.author, w.rows, disk.entries[i])
              ELSE MarkedLost(w.rows, disk.entries[i], w.row)
    PROVE  Tidy(p)'
<1>1. /\ pc'[p] = s /\ work'[p] = w
      /\ UNCHANGED <<plan, ledger, last, request, disk, written, sent>>
      /\ UNCHANGED <<Capped, Rows, BatchNumbers, RowNumbers>>
      /\ UNCHANGED <<resolved, diagnosed, deaths>>
      /\ w.batch = work[p].batch /\ w.done = work[p].done
  BY MovesAt DEF Carried, Other
<1>2. UNCHANGED ResolvedBatches
  BY <1>1 DEF ResolvedBatches
<1>3. /\ pc[p] # "off" /\ pc[p] \in Unresolved /\ pc[p] \in InHand /\ pc[p] \notin Asking
      /\ s # "off" /\ s \in Unresolved /\ s \notin Asking
      /\ s \in InHand <=> s = "reserve"
  BY StepPlaces
<1>4. work[p].row \in Nat /\ (s = "reserve" => w.row \in Nat /\ w.row > work[p].row /\ w.row # 0)
  <2>1. \A x \in RowNumbers : x \in Nat /\ x # 0
    BY PlanTyped DEF RowNumbers
  <2> QED BY <2>1, LastTyped
<1>5. Counted'
  BY <1>1 DEF Tidy, Counted
<1>6. Journaled(p)'
  BY <1>1, <1>3 DEF Tidy, Journaled, Orderly
<1>7. Places(p)'
  <2>1. Orderly(p) /\ Open(p) = {work[p].batch} /\ Open(p)' = {work[p].batch}
    BY <1>1, <1>3 DEF Orderly, Open
  <2>2. \A k \in DOMAIN disk.journal : disk.journal[k].call.row \in Nat
    <3>1. \A c \in Calls : c.row \in Nat
      BY DEF Calls
    <3> QED BY <3>1, Ledgered
  <2> QED BY <1>1, <1>2, <1>3, <1>4, <2>1, <2>2 DEF Tidy, Places
<1>8. DoneIsResolved(p)'
  BY <1>1, <1>2, <1>3 DEF Tidy, DoneIsResolved
<1>9. LastIs(p)'
  <2>1. s = "reserve" => Unasked(CallOf(p))'
    <3> SUFFICES ASSUME s = "reserve", NEW k \in DOMAIN disk.journal,
                        disk.journal[k].call = CallOf(p)'
                 PROVE  FALSE
      BY <1>1 DEF Unasked
    <3>1. CallOf(p)'.batch = w.batch /\ CallOf(p)'.row = w.row
      BY <1>1 DEF CallOf, AuthorCall, ReviewerCall
    <3>2. disk.journal[k].call.row <= work[p].row
      BY <1>1, <1>3, <3>1 DEF Tidy, Places
    <3> QED BY <1>4, <3>1, <3>2
  <2> QED BY <1>1, <2>1 DEF Tidy, LastIs
<1>10. Named(p)'
  BY <1>1, <1>3, <1>4 DEF Named, AllNamed, AuthorCall, ReviewerCall
<1>11. Lineage'
  BY <1>1 DEF Tidy, Lineage, LineageValid
<1>12. AllClosed(p)'
  BY <1>1, <1>3 DEF Tidy, AllClosed, Orderly
<1>13. Diagnosed(p)'
  BY <1>1, <1>2, <1>3 DEF Tidy, Diagnosed, Orderly
<1>14. Lost(p)'
  <2> SUFFICES ASSUME ~Capped, NEW i \in DOMAIN disk.entries,
                      disk.entries[i].status = "uncertain"
               PROVE  LET e == disk.entries[i]
                          b == e.id.call.batch
                      IN  IF b \in ResolvedBatches THEN BoundBy(resolved[b].author, resolved[b].rows, e)'
                          ELSE \/ s = "store" /\ BoundBy(w.author, w.rows, e)'
                               \/ /\ s \in InHand /\ e.id.call.row \in RowNumbers
                                  /\ e.id.call.row < w.row
                                  /\ w.rows[e.id.call.row] = Row("reviewerLost", e.id)
    BY <1>1, <1>2 DEF Lost, BoundBy
  <2>1. CASE disk.entries[i].id.call.batch \in ResolvedBatches
    BY <1>1, <1>2, <1>3, <2>1 DEF Tidy, Lost, Orderly, BoundBy
  <2>2. CASE disk.entries[i].id.call.batch \notin ResolvedBatches
    <3>1. Dangling(i)
      BY <2>2 DEF Dangling
    <3> QED BY <1>1, <1>3, <2>2, <3>1 DEF MarkedLost, BoundBy
  <2> QED BY <2>1, <2>2
<1>15. FailedEnd(p)' /\ Accepted(p)'
  BY <1>1 DEF FailedEnd, Accepted
<1> QED BY <1>5, <1>6, <1>7, <1>8, <1>9, <1>10, <1>11, <1>12, <1>13, <1>14, <1>15 DEF Tidy

LEMMA TidyReview ==
    ASSUME TypeOK, NEW p \in Procs, Run(p), Tidy(p), pc[p] \in {"answered", "failed"},
           NEW rows, NEW r \in Nat, r > work[p].row, NEW s, NEW w,
           ReviewMove(p, rows, r, s, w), Other,
           AllNamed(work[p].batch, IF work[p].row = 0 THEN last[p] ELSE work[p].author, rows),
           \A i : ~Capped /\ Dangling(i) => MarkedLost(rows, disk.entries[i], r)
    PROVE  Tidy(p)'
<1>1. /\ Moves(p, s, w) /\ Carried(p, w) /\ w.rows = rows
      /\ w.author = IF work[p].row = 0 THEN last[p] ELSE work[p].author
      /\ w.row \in {0} \cup (RowNumbers \cap {x \in Nat : x >= r})
      /\ s = IF w.row = 0 THEN "store" ELSE "reserve"
  BY DEF ReviewMove
<1>2. work[p].row \in Nat
  BY LastTyped
<1>3. s = "reserve" => w.row \in RowNumbers /\ w.row \in Nat /\ w.row >= r /\ w.row > work[p].row
  BY <1>1, <1>2
<1>4. ASSUME NEW i, ~Capped, Dangling(i)
      PROVE  IF s = "store" THEN BoundBy(w.author, w.rows, disk.entries[i])
             ELSE MarkedLost(w.rows, disk.entries[i], w.row)
  <2>1. MarkedLost(rows, disk.entries[i], r)
    BY <1>4
  <2>2. disk.entries[i].id.call.row \in Nat /\ disk.entries[i].id.call.row # 0
    <3>1. \A x \in RowNumbers : x \in Nat /\ x # 0
      BY PlanTyped DEF RowNumbers
    <3> QED BY <2>1, <3>1 DEF MarkedLost
  <2>3. CASE s = "store"
    BY <1>1, <2>1, <2>2, <2>3 DEF MarkedLost, BoundBy
  <2>4. CASE s = "reserve"
    BY <1>1, <1>3, <2>1, <2>2, <2>4 DEF MarkedLost
  <2> QED BY <1>1, <2>3, <2>4
<1>5. AllNamed(work[p].batch, w.author, w.rows)
  BY <1>1
<1>6. s \in {"store", "reserve"}
  BY <1>1
<1> QED BY <1>1, <1>3, <1>4, <1>5, <1>6, TidyAnswer

LEMMA TidyGivenUp ==
    ASSUME TypeOK, NEW p \in Procs, Run(p), Tidy(p), pc[p] \in {"answered", "failed"},
           NEW rows, NEW author, NEW raises, NEW w,
           StoreMove(p, rows, author, raises, w), Other,
           AllNamed(work[p].batch, author, rows),
           \A i : ~Capped /\ Dangling(i) => BoundBy(author, rows, disk.entries[i])
    PROVE  Tidy(p)'
<1>1. /\ Moves(p, "store", w) /\ Carried(p, w) /\ w.rows = rows /\ w.author = author
  BY DEF StoreMove
<1> DEFINE s == "store"
<1>2. /\ s \in {"store", "reserve"} /\ s # "reserve" /\ Moves(p, s, w)
      /\ AllNamed(work[p].batch, w.author, w.rows)
      /\ \A i : ~Capped /\ Dangling(i) =>
            IF s = "store" THEN BoundBy(w.author, w.rows, disk.entries[i])
            ELSE MarkedLost(w.rows, disk.entries[i], w.row)
  BY <1>1
<1> HIDE DEF s
<1> QED BY <1>1, <1>2, TidyAnswer

\* A request that was answered, or failed after all, is the last on record.
LEMMA HeardLast ==
    ASSUME TypeOK, NEW p \in Procs, Tidy(p), last[p] # None, last[p].call = CallOf(p)
    PROVE  Final(disk.journal, CallOf(p)) = last[p]
<1>1. disk.journal # <<>> /\ last[p] = disk.journal[Len(disk.journal)]
  BY DEF Tidy, LastIs
<1>2. disk.journal \in Seq(RequestIds)
  BY Ledgered
<1> QED BY <1>1, <1>2, FinalOf

LEMMA HeardFacts ==
    ASSUME TypeOK, NEW p \in Procs, Tidy(p), pc[p] = "answered" \/ (pc[p] = "failed" /\ ~Capped)
    PROVE  /\ last[p] = request[p].id /\ last[p] # None /\ last[p].call = CallOf(p)
           /\ LastOfStage(p) /\ LastOfCall(p)
           /\ Final(disk.journal, CallOf(p)) = last[p]
<1>1. last[p] = request[p].id /\ last[p] # None /\ last[p].call = CallOf(p)
  BY DEF Tidy, LastIs, Heard
<1> QED BY <1>1, HeardLast DEF LastOfStage, LastOfCall

LEMMA NoReviewers ==
    ASSUME TypeOK, NEW p \in Procs, Tidy(p), pc[p] \in {"answered", "failed"}, work[p].row = 0,
           NEW r \in RowNumbers
    PROVE  Final(disk.journal, ReviewerCall(work[p].batch, r)) = None
<1> DEFINE c == ReviewerCall(work[p].batch, r)
<1>1. c.batch = work[p].batch /\ c.row = r
  BY DEF ReviewerCall
<1> HIDE DEF c
<1>2. \A k \in DOMAIN disk.journal : disk.journal[k].call # c
  <2> SUFFICES ASSUME NEW k \in DOMAIN disk.journal, disk.journal[k].call = c PROVE FALSE
    OBVIOUS
  <2>1. r <= 0
    BY <1>1, StepPlaces DEF Tidy, Places
  <2>2. r \in Nat /\ r # 0
    BY PlanTyped DEF RowNumbers
  <2> QED BY <2>1, <2>2
<1>3. Final(disk.journal, c) = None
  BY <1>2, Ledgered, FinalOf
<1> QED BY <1>3 DEF c

LEMMA DanglingAnswered ==
    ASSUME TypeOK, NEW p \in Procs, Run(p), Tidy(p), pc[p] \in {"answered", "failed"}, ~Capped,
           NEW i, Dangling(i)
    PROVE  \/ MarkedLost(work[p].rows, disk.entries[i], work[p].row)
           \/ /\ pc[p] = "failed" /\ LastLost(p)
              /\ disk.entries[i].id = request[p].id /\ disk.entries[i].id.call = CallOf(p)
<1>1. pc[p] # "off" /\ pc[p] # "store" /\ pc[p] # "journal"
  OBVIOUS
<1>2. \/ MarkedLost(work[p].rows, disk.entries[i], work[p].row)
      \/ pc[p] = "failed" /\ i = Len(disk.entries) /\ disk.entries[i].id.call = CallOf(p)
  BY <1>1 DEF Tidy, Lost, Orderly, Dangling, MarkedLost
<1>3. ASSUME pc[p] = "failed", i = Len(disk.entries)
      PROVE  LastLost(p) /\ disk.entries[i].id = request[p].id
  <2>1. ledger[p] = disk
    BY <1>1 DEF Run, Synced
  <2>2. disk.entries # <<>> /\ LastEntry.id = request[p].id
    BY <1>3 DEF Tidy, FailedEnd
  <2> QED BY <1>3, <2>1, <2>2 DEF LastLost, LastEntry, Dangling
<1> QED BY <1>2, <1>3

\* Before any of its rows is reviewed, no entry of the batch but the author's is
\* uncertain.
LEMMA DanglingAuthor ==
    ASSUME TypeOK, NEW p \in Procs, Run(p), Tidy(p), pc[p] \in {"answered", "failed"}, ~Capped,
           work[p].row = 0, ~(pc[p] = "failed" /\ LastLost(p)), NEW i
    PROVE  ~Dangling(i)
<1> SUFFICES ASSUME Dangling(i) PROVE FALSE
  OBVIOUS
<1>1. MarkedLost(work[p].rows, disk.entries[i], work[p].row)
  BY DanglingAnswered
<1>2. \A x \in RowNumbers : x \in Nat
  BY PlanTyped DEF RowNumbers
<1> QED BY <1>1, <1>2 DEF MarkedLost

LEMMA UniformNamed ==
    ASSUME TypeOK, NEW p \in Procs, Tidy(p), pc[p] \in {"answered", "failed"}, work[p].row = 0,
           NEW rows, \A r \in RowNumbers : rows[r].reviewer = None,
           last[p] # None, last[p].call = CallOf(p)
    PROVE  AllNamed(work[p].batch, last[p], rows)
<1>1. CallOf(p) = AuthorCall(work[p].batch)
  BY DEF CallOf
<1> QED BY <1>1, HeardLast, NoReviewers DEF AllNamed

LEMMA TidyAuthorAnswered ==
    ASSUME TypeOK, NEW p \in Procs, Run(p), Tidy(p), AuthorAnswered(p)
    PROVE  Tidy(p)'
<1>1. pc[p] = "answered" /\ work[p].row = 0 /\ Other
  BY DEF AuthorAnswered, Keep, Other
<1>2. PICK rows \in Outcomes(Rows) : /\ \E s, w : ReviewMove(p, rows, 1, s, w)
                                    /\ \A r \in RowNumbers : rows[r].reviewer = None
  BY AuthorAnsweredMoves
<1>3. PICK s, w : ReviewMove(p, rows, 1, s, w)
  BY <1>2
<1>4. AllNamed(work[p].batch, last[p], rows)
  BY <1>1, <1>2, HeardFacts, UniformNamed
<1>5. \A i : ~Capped /\ Dangling(i) => MarkedLost(rows, disk.entries[i], 1)
  BY <1>1, DanglingAuthor
<1> QED BY <1>1, <1>3, <1>4, <1>5, TidyReview

\* A row that got its outcome names its final request, and is marked if lost.
LEMMA TidyRow ==
    ASSUME TypeOK, NEW p \in Procs, Run(p), Tidy(p),
           pc[p] = "answered" \/ (pc[p] = "failed" /\ ~Capped), work[p].row # 0, Other,
           NEW mark, NEW s, NEW w,
           ReviewMove(p, ReviewedRow(p, mark, request[p].id), work[p].row + 1, s, w),
           pc[p] = "failed" /\ LastLost(p) => mark = "reviewerLost"
    PROVE  Tidy(p)'
<1> DEFINE k == work[p].row
           b == work[p].batch
           rows == ReviewedRow(p, mark, request[p].id)
<1>1. k \in RowNumbers /\ k \in Nat /\ work[p].rows \in Outcomes(Rows)
  BY LastTyped
<1>2. /\ rows[k] = Row(mark, request[p].id)
      /\ \A r \in RowNumbers \ {k} : rows[r] = work[p].rows[r]
  BY <1>1 DEF ReviewedRow, Outcomes, RowNumbers
<1> HIDE DEF rows
<1>3. AllNamed(b, work[p].author, rows)
  <2>1. pc[p] \in InHand
    BY StepPlaces
  <2>2. /\ work[p].author = Final(disk.journal, AuthorCall(b))
        /\ \A r \in RowNumbers \ {k} :
              work[p].rows[r].reviewer = Final(disk.journal, ReviewerCall(b, r))
    BY <2>1 DEF Tidy, Named
  <2>3. request[p].id = Final(disk.journal, ReviewerCall(b, k))
    BY HeardFacts DEF CallOf
  <2>4. rows[k].reviewer = request[p].id
    BY <1>2 DEF Row
  <2> QED BY <1>2, <2>2, <2>3, <2>4 DEF AllNamed
<1>4. ASSUME NEW i, ~Capped, Dangling(i) PROVE MarkedLost(rows, disk.entries[i], k + 1)
  <2>1. CASE MarkedLost(work[p].rows, disk.entries[i], k)
    <3>1. /\ disk.entries[i].id.call.row \in RowNumbers /\ disk.entries[i].id.call.row < k
          /\ disk.entries[i].id.call.row \in Nat
      BY <1>4, <2>1, Ledgered DEF MarkedLost, Dangling
    <3>2. disk.entries[i].id.call.row # k /\ disk.entries[i].id.call.row < k + 1
      BY <1>1, <3>1
    <3> QED BY <1>2, <2>1, <3>1, <3>2 DEF MarkedLost
  <2>2. CASE /\ pc[p] = "failed" /\ LastLost(p)
             /\ disk.entries[i].id = request[p].id /\ disk.entries[i].id.call = CallOf(p)
    <3>1. disk.entries[i].id.call.row = k /\ k < k + 1
      BY <1>1, <2>2, CallFacts
    <3> QED BY <1>1, <1>2, <2>2, <3>1 DEF MarkedLost
  <2> QED BY <1>4, <2>1, <2>2, DanglingAnswered
<1>5. k + 1 \in Nat /\ k + 1 > work[p].row /\ pc[p] \in {"answered", "failed"}
  BY <1>1
<1>6. ReviewMove(p, rows, k + 1, s, w)
  BY DEF rows
<1>7. AllNamed(b, IF work[p].row = 0 THEN last[p] ELSE work[p].author, rows)
  BY <1>3
<1> QED BY <1>4, <1>5, <1>6, <1>7, TidyReview

LEMMA TidyReviewer ==
    ASSUME TypeOK, NEW p \in Procs, Run(p), Tidy(p),
           ReviewerAnswered(p) \/ ReviewerLost(p) \/ ReviewerGivenUp(p)
    PROVE  Tidy(p)'
<1>1. Other /\ work[p].row # 0 /\ (pc[p] = "answered" \/ (pc[p] = "failed" /\ ~Capped))
  BY DEF ReviewerAnswered, ReviewerLost, ReviewerGivenUp, Keep, Other
<1>2. last[p] = request[p].id
  BY <1>1, HeardFacts
<1>3. CASE ReviewerAnswered(p)
  <2>1. pc[p] = "answered"
    BY <1>3 DEF ReviewerAnswered
  <2>2. PICK s, w : ReviewMove(p, ReviewedRow(p, "reviewed", request[p].id), work[p].row + 1, s, w)
    BY <1>2, <1>3, ReviewerMoves
  <2> QED BY <1>1, <2>1, <2>2, TidyRow
<1>4. CASE ReviewerLost(p)
  <2>1. PICK s, w : ReviewMove(p, ReviewedRow(p, "reviewerLost", request[p].id),
                               work[p].row + 1, s, w)
    BY <1>4, ReviewerMoves
  <2> QED BY <1>1, <2>1, TidyRow
<1>5. CASE ReviewerGivenUp(p)
  <2>1. ~LastLost(p)
    BY <1>5 DEF ReviewerGivenUp
  <2>2. PICK s, w : ReviewMove(p, ReviewedRow(p, "failed", request[p].id), work[p].row + 1, s, w)
    BY <1>2, <1>5, ReviewerMoves
  <2> QED BY <1>1, <2>1, <2>2, TidyRow
<1> QED BY <1>3, <1>4, <1>5

LEMMA UniformFacts ==
    ASSUME NEW mark, NEW id, NEW r \in RowNumbers
    PROVE  UniformRow(mark, id)[r].reviewer = id /\ UniformRow(mark, id)[r].mark = mark
  BY DEF UniformRow, Row

LEMMA TidyAuthor ==
    ASSUME TypeOK, NEW p \in Procs, Run(p), Tidy(p),
           AuthorValidationBreaks(p) \/ AuthorLost(p) \/ AuthorGivenUp(p)
    PROVE  Tidy(p)'
<1>1. /\ Other /\ work[p].row = 0 /\ (pc[p] = "answered" \/ (pc[p] = "failed" /\ ~Capped))
      /\ pc[p] \in {"answered", "failed"}
  BY DEF AuthorValidationBreaks, AuthorLost, AuthorGivenUp, Keep, Other
<1>2. last[p] = request[p].id /\ last[p] # None /\ last[p].call = CallOf(p)
  BY <1>1, HeardFacts
<1>3. \A mark : AllNamed(work[p].batch, last[p], UniformRow(mark, None))
  <2> TAKE mark
  <2>1. \A r \in RowNumbers : UniformRow(mark, None)[r].reviewer = None
    BY UniformFacts
  <2> QED BY <1>1, <1>2, <2>1, UniformNamed
<1>4. ASSUME ~(pc[p] = "failed" /\ LastLost(p)), NEW raises, NEW w,
             StoreMove(p, UniformRow("failed", None), last[p], raises, w)
      PROVE  Tidy(p)'
  <2>1. \A i : ~Capped => ~Dangling(i)
    BY <1>1, <1>4, DanglingAuthor
  <2> QED BY <1>1, <1>3, <1>4, <2>1, TidyGivenUp
<1>5. CASE AuthorValidationBreaks(p)
  <2>1. pc[p] = "answered"
    BY <1>5 DEF AuthorValidationBreaks
  <2> QED BY <1>4, <1>5, <2>1, GivenUpMoves
<1>6. CASE AuthorGivenUp(p)
  <2>1. ~LastLost(p)
    BY <1>6 DEF AuthorGivenUp
  <2> QED BY <1>4, <1>6, <2>1, GivenUpMoves
<1>7. CASE AuthorLost(p)
  <2> DEFINE rows == UniformRow("authorLost", None)
  <2>1. PICK w : StoreMove(p, rows, request[p].id, work[p].raises, w)
    BY <1>7, GivenUpMoves
  <2>2. ASSUME NEW i, ~Capped, Dangling(i)
        PROVE  BoundBy(request[p].id, rows, disk.entries[i])
    <3>1. \A x \in RowNumbers : x \in Nat
      BY PlanTyped DEF RowNumbers
    <3>2. ~MarkedLost(work[p].rows, disk.entries[i], work[p].row)
      BY <1>1, <3>1 DEF MarkedLost
    <3>3. disk.entries[i].id = request[p].id /\ disk.entries[i].id.call = CallOf(p)
      BY <1>1, <2>2, <3>2, DanglingAnswered
    <3>4. disk.entries[i].id.call.row = 0
      BY <1>1, <3>3, CallFacts
    <3>5. \A r \in RowNumbers : rows[r].mark = "authorLost"
      BY UniformFacts
    <3> QED BY <3>3, <3>4, <3>5 DEF BoundBy
  <2>3. AllNamed(work[p].batch, request[p].id, rows)
    BY <1>2, <1>3
  <2> HIDE DEF rows
  <2> QED BY <1>1, <2>1, <2>2, <2>3, TidyGivenUp
<1> QED BY <1>5, <1>6, <1>7

LEMMA TidyCapped ==
    ASSUME TypeOK, NEW p \in Procs, Run(p), Tidy(p),
           (CappedAuthorFails(p) /\ LastOfCall(p)) \/ CappedReviewerFails(p)
    PROVE  Tidy(p)'
<1>1. pc[p] = "failed" /\ Capped /\ Other
  BY DEF CappedAuthorFails, CappedReviewerFails, Keep, Other
<1>2. pc[p] \in {"answered", "failed"}
  BY <1>1
<1>3. CASE CappedAuthorFails(p) /\ LastOfCall(p)
  <2>1. work[p].row = 0 /\ last[p] # None /\ last[p].call = CallOf(p)
    BY <1>3 DEF CappedAuthorFails, LastOfCall
  <2>2. \A r \in RowNumbers : UniformRow("failed", None)[r].reviewer = None
    BY UniformFacts
  <2>3. AllNamed(work[p].batch, last[p], UniformRow("failed", None))
    BY <1>2, <2>1, <2>2, UniformNamed
  <2> QED BY <1>1, <1>2, <1>3, <2>3, GivenUpMoves, TidyGivenUp
<1>4. CASE CappedReviewerFails(p)
  <2> DEFINE k == work[p].row
             b == work[p].batch
             rows == CappedRows(p)
  <2>1. k # 0 /\ k \in RowNumbers
    BY <1>4, LastTyped DEF CappedReviewerFails
  <2>2. /\ rows[k].reviewer = IF LastOfCall(p) THEN last[p] ELSE None
        /\ \A r \in RowNumbers \ {k} : rows[r].reviewer = work[p].rows[r].reviewer
    BY <2>1 DEF CappedRows, Row
  <2> HIDE DEF rows
  <2>3. CallOf(p) = ReviewerCall(b, k)
    BY <2>1 DEF CallOf
  <2>4. Final(disk.journal, CallOf(p)) = rows[k].reviewer
    <3>1. CASE LastOfCall(p)
      BY <2>2, <3>1, HeardLast DEF LastOfCall
    <3>2. CASE ~LastOfCall(p)
      <4>1. Unasked(CallOf(p))
        BY <1>1, <3>2 DEF Tidy, LastIs, Heard, LastOfCall
      <4>2. Final(disk.journal, CallOf(p)) = None
        BY <4>1, Ledgered, FinalOf DEF Unasked
      <4> QED BY <2>2, <3>2, <4>2
    <3> QED BY <3>1, <3>2
  <2>5. /\ work[p].author = Final(disk.journal, AuthorCall(b))
        /\ \A r \in RowNumbers \ {k} :
              work[p].rows[r].reviewer = Final(disk.journal, ReviewerCall(b, r))
    BY <1>1, <2>1, StepPlaces DEF Tidy, Named
  <2>6. AllNamed(b, work[p].author, rows)
    BY <2>2, <2>3, <2>4, <2>5 DEF AllNamed
  <2>7. \E w : StoreMove(p, rows, work[p].author, TRUE, w)
    BY <1>4, GivenUpMoves DEF rows
  <2> QED BY <1>1, <1>2, <2>6, <2>7, TidyGivenUp
<1> QED BY <1>3, <1>4

LEMMA TidyRetry ==
    ASSUME TypeOK, NEW p \in Procs, Run(p), Tidy(p), Retry(p)
    PROVE  Tidy(p)'
<1>1. pc[p] = "failed" /\ ~Capped /\ ~LastLost(p) /\ Other
  BY DEF Retry, Keep, Other
<1>2. PICK w : /\ Moves(p, "reserve", w) /\ Carried(p, w)
               /\ w.row = work[p].row /\ w.rows = work[p].rows /\ w.author = work[p].author
  BY RetryMoves
<1>3. /\ pc'[p] = "reserve" /\ work'[p] = w
      /\ UNCHANGED <<plan, ledger, last, request, disk, written, sent>>
      /\ UNCHANGED <<Capped, Rows, BatchNumbers, RowNumbers>>
      /\ UNCHANGED <<resolved, diagnosed, deaths>>
      /\ w.batch = work[p].batch /\ w.done = work[p].done
  BY <1>1, <1>2, MovesAt DEF Carried, Other
<1>4. UNCHANGED ResolvedBatches
  BY <1>3 DEF ResolvedBatches
<1>5. Counted' /\ Journaled(p)' /\ Places(p)' /\ DoneIsResolved(p)'
  <2>1. Counted' /\ DoneIsResolved(p)'
    BY <1>1, <1>3, <1>4 DEF Tidy, Counted, DoneIsResolved
  <2>2. Journaled(p)'
    BY <1>1, <1>3, StepPlaces DEF Tidy, Journaled, Orderly
  <2>3. Open(p) = {work[p].batch} /\ Open(p)' = {work[p].batch}
    BY <1>1, <1>3, StepPlaces DEF Open
  <2>4. Places(p)'
    BY <1>1, <1>2, <1>3, <1>4, <2>3, StepPlaces DEF Tidy, Places, Orderly
  <2> QED BY <2>1, <2>2, <2>4
<1>6. LastIs(p)' /\ FailedEnd(p)' /\ Accepted(p)'
  BY <1>1, <1>3 DEF Tidy, LastIs, FailedEnd, Accepted
<1>7. Named(p)' /\ Lineage'
  BY <1>1, <1>2, <1>3, StepPlaces DEF Tidy, Named, Lineage, LineageValid
<1>8. AllClosed(p)' /\ Diagnosed(p)'
  BY <1>1, <1>3, <1>4 DEF Tidy, AllClosed, Diagnosed, Orderly
<1>9. Lost(p)'
  <2> SUFFICES ASSUME NEW i \in DOMAIN disk.entries, disk.entries[i].status = "uncertain"
               PROVE  LET e == disk.entries[i]
                          b == e.id.call.batch
                      IN  IF b \in ResolvedBatches THEN BoundBy(resolved[b].author, resolved[b].rows, e)'
                          ELSE MarkedLost(w.rows, e, w.row)
    BY <1>3, <1>4, StepPlaces DEF Lost, BoundBy, MarkedLost
  <2>1. CASE disk.entries[i].id.call.batch \in ResolvedBatches
    BY <1>1, <1>3, <2>1 DEF Tidy, Lost, Orderly, BoundBy
  <2>2. CASE disk.entries[i].id.call.batch \notin ResolvedBatches
    <3>1. Dangling(i)
      BY <2>2 DEF Dangling
    <3>2. MarkedLost(work[p].rows, disk.entries[i], work[p].row)
      BY <1>1, <3>1, DanglingAnswered
    <3> QED BY <1>2, <2>2, <3>2
  <2> QED BY <2>1, <2>2
<1> QED BY <1>5, <1>6, <1>7, <1>8, <1>9 DEF Tidy

\* The command does not raise in the middle of a batch it has journaled.
LEMMA TidyLeave ==
    ASSUME TypeOK, NEW p \in Procs, Tidy(p), Leave(p), UNCHANGED resolved,
           deaths' # 0 \/ (UNCHANGED <<deaths, diagnosed>> /\ pc[p] \notin Asking /\ pc[p] # "diagnose"),
           deaths' # 0 \/ pc[p] \notin Unresolved
              \/ (Capped /\ \A k \in DOMAIN disk.journal : disk.journal[k].call.batch \in ResolvedBatches),
           pc[p] # "off"
    PROVE  Tidy(p)'
<1>1. /\ pc'[p] = "off" /\ last'[p] = None /\ UNCHANGED <<plan, disk>>
  BY DEF Leave, Forget, Goto, TypeOK, WorkTyped, LedgersTyped
<1>2. UNCHANGED <<Capped, Rows, BatchNumbers, RowNumbers, ResolvedBatches>>
  BY <1>1 DEF Capped, Rows, BatchNumbers, RowNumbers, ResolvedBatches
<1>3. Orderly(p) /\ (Orderly(p)' => deaths' = 0)
  BY <1>1 DEF Orderly
<1>4. Counted' /\ Lineage'
  BY <1>1, <1>2 DEF Tidy, Counted, Lineage, LineageValid
<1>5. DoneIsResolved(p)' /\ LastIs(p)' /\ Named(p)' /\ FailedEnd(p)' /\ Accepted(p)'
  BY <1>1, StepPlaces DEF DoneIsResolved, LastIs, Named, FailedEnd, Accepted
<1>6. Journaled(p)'
  BY <1>1, <1>3, StepPlaces DEF Tidy, Journaled
<1>7. Places(p)'
  <2>1. Open(p)' = {}
    BY <1>1, StepPlaces DEF Open
  <2>2. pc[p] \notin Unresolved => Open(p) = {}
    BY DEF Open
  <2> QED BY <1>1, <1>2, <1>3, <2>1, <2>2, StepPlaces DEF Tidy, Places
<1>8. AllClosed(p)' /\ Diagnosed(p)'
  BY <1>1, <1>2, <1>3, StepPlaces DEF Tidy, AllClosed, Diagnosed
<1>9. Lost(p)'
  BY <1>1, <1>2, <1>3, StepPlaces DEF Tidy, Lost, BoundBy
<1> QED BY <1>4, <1>5, <1>6, <1>7, <1>8, <1>9 DEF Tidy

\* Between two batches no request is left over.
LEMMA TidyNextBatch ==
    ASSUME TypeOK, NEW p \in Procs, Run(p), Tidy(p), NextBatch(p)
    PROVE  Tidy(p)'
<1>1. pc[p] = "next" /\ Other
  BY DEF NextBatch, Keep, Other
<1>2. PICK s \in {"finish", "reserve"}, w \in WorkType :
         /\ Moves(p, s, w) /\ w.done = work[p].done
         /\ s = "reserve" => /\ w.batch \in BatchNumbers \ work[p].done /\ w.row = 0
                             /\ \A r \in RowNumbers : w.rows[r].reviewer = None
  <2>1. work[p] \in WorkType
    BY LastTyped
  <2> QED BY <2>1, NextBatchMoves DEF BatchMove
<1>3. /\ pc'[p] = s /\ work'[p] = w
      /\ UNCHANGED <<plan, ledger, last, request, disk, written, sent>>
      /\ UNCHANGED <<Capped, Rows, BatchNumbers, RowNumbers>>
      /\ UNCHANGED <<resolved, diagnosed, deaths>>
  BY <1>1, <1>2, MovesAt DEF Other
<1>4. UNCHANGED ResolvedBatches
  BY <1>3 DEF ResolvedBatches
<1>5. \A k \in DOMAIN disk.journal : disk.journal[k].call.batch \in ResolvedBatches
  BY <1>1, StepPlaces DEF Tidy, Places, Orderly, Open
<1>6. s = "reserve" => /\ w.batch \notin ResolvedBatches
                       /\ \A k \in DOMAIN disk.journal : disk.journal[k].call.batch # w.batch
  BY <1>1, <1>2, <1>5 DEF Tidy, DoneIsResolved
<1>7. Counted' /\ DoneIsResolved(p)' /\ Journaled(p)'
  BY <1>1, <1>2, <1>3, <1>4, StepPlaces DEF Tidy, Counted, DoneIsResolved, Journaled, Orderly
<1>8. Places(p)'
  BY <1>2, <1>3, <1>4, <1>5, <1>6, StepPlaces DEF Places
<1>9. LastIs(p)' /\ FailedEnd(p)' /\ Accepted(p)'
  <2>1. s = "reserve" => Unasked(CallOf(p))'
    <3>1. CallOf(p)'.batch = w.batch
      BY <1>3 DEF CallOf, AuthorCall, ReviewerCall
    <3> QED BY <1>3, <1>6, <3>1 DEF Unasked
  <2> QED BY <1>3, <2>1 DEF Tidy, LastIs, FailedEnd, Accepted
<1>10. Named(p)' /\ Lineage'
  BY <1>2, <1>3, StepPlaces DEF Tidy, Named, Lineage, LineageValid
<1>11. AllClosed(p)' /\ Diagnosed(p)'
  BY <1>1, <1>3, <1>4 DEF Tidy, AllClosed, Diagnosed, Orderly
<1>12. Lost(p)'
  BY <1>1, <1>3, <1>4, StepPlaces DEF Tidy, Lost, Orderly, BoundBy
<1> QED BY <1>7, <1>8, <1>9, <1>10, <1>11, <1>12 DEF Tidy

\* The resolution of a batch takes over what was held of it.
LEMMA TidyStored ==
    ASSUME TypeOK, NEW p \in Procs, Run(p), Tidy(p), Store(p) \/ StoreFallback(p)
    PROVE  Tidy(p)'
<1>1. pc[p] = "store" /\ UNCHANGED <<diagnosed, packet, deaths>>
  BY DEF Store, StoreFallback
<1>2. PICK s, w, resolution : ResolveMove(p, s, w, resolution)
  BY StoredMoves, FallbackMoves
<1> DEFINE b == work[p].batch
<1>3. /\ pc'[p] = s /\ work'[p] = w /\ s \in {"diagnose", "project", "raise"}
      /\ UNCHANGED <<plan, ledger, last, request, disk, written, sent>>
      /\ UNCHANGED <<Capped, Rows, BatchNumbers, RowNumbers>>
      /\ w.batch = b /\ w.done = work[p].done \cup {b}
      /\ ~Capped => s = "diagnose"
  BY <1>2, MovesAt DEF ResolveMove
<1>4. /\ resolved' = [resolved EXCEPT ![b] = resolution]
      /\ b \in BatchNumbers /\ resolved[b] = None /\ resolution # None
      /\ resolved \in [BatchNumbers -> Resolutions(Rows) \cup {None}]
      /\ resolution.author = work[p].author
      /\ \A r \in RowNumbers : resolution.rows[r].reviewer = work[p].rows[r].reviewer
      /\ ~Capped => resolution.rows = work[p].rows
  <2>1. b \in BatchNumbers
    BY <1>1, BatchNumbered, StepPlaces
  <2> QED BY <1>2, <2>1, PlanTyped DEF ResolveMove, TypeOK, FilesTyped
<1>5. ResolvedBatches' = ResolvedBatches \cup {b} /\ b \notin ResolvedBatches
  BY <1>3, <1>4 DEF ResolvedBatches
<1>6. Counted' /\ DoneIsResolved(p)' /\ Journaled(p)'
  BY <1>1, <1>3, <1>5, StepPlaces DEF Tidy, Counted, DoneIsResolved, Journaled, Orderly
<1>7. Places(p)'
  <2>1. Open(p) = {b}
    BY <1>1, StepPlaces DEF Open
  <2> QED BY <1>1, <1>3, <1>5, <2>1, StepPlaces DEF Tidy, Places, Orderly
<1>8. LastIs(p)' /\ FailedEnd(p)' /\ Accepted(p)'
  BY <1>3 DEF Tidy, LastIs, FailedEnd, Accepted
<1>9. Named(p)'
  BY <1>3, StepPlaces DEF Named
<1>10. Lineage'
  <2>1. AllNamed(b, work[p].author, work[p].rows)
    BY <1>1 DEF Tidy, Named, AllNamed
  <2> SUFFICES ASSUME NEW c \in BatchNumbers, resolved'[c] # None
               PROVE  /\ resolved'[c].author = Final(disk.journal, AuthorCall(c))
                      /\ \A r \in RowNumbers :
                           resolved'[c].rows[r].reviewer = Final(disk.journal, ReviewerCall(c, r))
    BY <1>3 DEF Lineage, LineageValid, AuthorCall, ReviewerCall
  <2>2. CASE c = b
    BY <1>4, <2>1, <2>2 DEF AllNamed
  <2>3. CASE c # b
    BY <1>4, <2>3 DEF Tidy, Lineage, LineageValid
  <2> QED BY <2>2, <2>3
<1>11. AllClosed(p)'
  BY <1>1, <1>3 DEF Tidy, AllClosed, Orderly
<1>12. Diagnosed(p)'
  BY <1>1, <1>3, <1>5 DEF Tidy, Diagnosed, Orderly
<1>13. Lost(p)'
  <2> SUFFICES ASSUME ~Capped, NEW i \in DOMAIN disk.entries,
                      disk.entries[i].status = "uncertain"
               PROVE  LET e == disk.entries[i]
                          c == e.id.call.batch
                      IN  c \in ResolvedBatches' /\ BoundBy(resolved[c].author, resolved[c].rows, e)'
    BY <1>3 DEF Lost, BoundBy
  <2> DEFINE c == disk.entries[i].id.call.batch
  <2>1. IF c \in ResolvedBatches THEN BoundBy(resolved[c].author, resolved[c].rows, disk.entries[i])
        ELSE BoundBy(work[p].author, work[p].rows, disk.entries[i])
    BY <1>1, StepPlaces DEF Tidy, Lost, Orderly
  <2>2. CASE c \in ResolvedBatches
    <3>1. resolved'[c] = resolved[c] /\ c \in ResolvedBatches'
      BY <1>4, <1>5, <2>2
    <3> QED BY <1>3, <2>1, <2>2, <3>1 DEF BoundBy
  <2>3. CASE c \notin ResolvedBatches
    <3>1. c = b
      <4>1. disk.entries[i].id \in Items(disk.journal)
        BY <1>1, StepPlaces DEF Tidy, Journaled, Orderly, Ids
      <4>2. c \in ResolvedBatches \cup Open(p)
        BY <1>1, <4>1 DEF Tidy, Places, Orderly, Items
      <4> QED BY <1>1, <2>3, <4>2, StepPlaces DEF Open
    <3>2. resolved'[c] = resolution /\ c \in ResolvedBatches'
      BY <1>4, <1>5, <3>1
    <3> QED BY <1>3, <1>4, <2>1, <2>3, <3>2 DEF BoundBy
  <2> QED BY <2>2, <2>3
<1> QED BY <1>6, <1>7, <1>8, <1>9, <1>10, <1>11, <1>12, <1>13 DEF Tidy

\* The diagnostics file closes the batch.
LEMMA TidyDiagnose ==
    ASSUME TypeOK, NEW p \in Procs, Run(p), Tidy(p), Diagnose(p)
    PROVE  Tidy(p)'
<1> DEFINE s == IF work[p].raises THEN "raise" ELSE "next"
<1>1. pc[p] = "diagnose" /\ Moves(p, s, work[p]) /\ UNCHANGED <<resolved, deaths>>
      /\ diagnosed' = diagnosed \cup {work[p].batch}
  BY Unmoved DEF Diagnose, Moves, Goto, KeepLedger
<1>2. s \in {"raise", "next"}
  OBVIOUS
<1> HIDE DEF s
<1>3. /\ pc'[p] = s /\ work'[p] = work[p]
      /\ UNCHANGED <<plan, ledger, last, request, disk, written, sent>>
      /\ UNCHANGED <<Capped, Rows, BatchNumbers, RowNumbers>>
  BY <1>1, MovesAt
<1>4. UNCHANGED ResolvedBatches
  BY <1>1, <1>3 DEF ResolvedBatches
<1>5. Counted' /\ DoneIsResolved(p)' /\ Journaled(p)'
  BY <1>1, <1>2, <1>3, <1>4, StepPlaces DEF Tidy, Counted, DoneIsResolved, Journaled, Orderly
<1>6. Places(p)'
  BY <1>1, <1>2, <1>3, <1>4, StepPlaces DEF Tidy, Places, Orderly, Open
<1>7. LastIs(p)' /\ FailedEnd(p)' /\ Accepted(p)' /\ Named(p)'
  BY <1>2, <1>3, StepPlaces DEF Tidy, LastIs, FailedEnd, Accepted, Named
<1>8. Lineage'
  BY <1>1, <1>3 DEF Tidy, Lineage, LineageValid
<1>9. AllClosed(p)' /\ Diagnosed(p)'
  BY <1>1, <1>2, <1>3, <1>4 DEF Tidy, AllClosed, Diagnosed, Orderly
<1>10. Lost(p)'
  BY <1>1, <1>2, <1>3, <1>4, StepPlaces DEF Tidy, Lost, Orderly, BoundBy
<1> QED BY <1>5, <1>6, <1>7, <1>8, <1>9, <1>10 DEF Tidy

\* A ledger that is written once more is the one already written.
LEMMA TidySave ==
    ASSUME TypeOK, NEW p \in Procs, Run(p), Tidy(p), written' <= Wide,
           pc[p] \in {"project", "finish"}, NEW s \in {"next", "raise", "seal"}, SaveMove(p, s)
    PROVE  Tidy(p)'
<1>1. /\ pc'[p] = s /\ work'[p] = work[p] /\ request'[p] = request[p] /\ last'[p] = last[p]
      /\ UNCHANGED <<plan, Capped, Rows, BatchNumbers, RowNumbers>>
      /\ UNCHANGED <<resolved, diagnosed, deaths>>
  BY TakesAt DEF SaveMove, Other
<1>2. disk' = disk
  BY Written1 DEF SaveMove, Run, Synced
<1>3. UNCHANGED ResolvedBatches
  BY <1>1 DEF ResolvedBatches
<1>4. Counted' /\ DoneIsResolved(p)' /\ Journaled(p)'
  BY <1>1, <1>2, <1>3, StepPlaces DEF Tidy, Counted, DoneIsResolved, Journaled, Orderly
<1>5. Places(p)'
  BY <1>1, <1>2, <1>3, StepPlaces DEF Tidy, Places, Orderly, Open
<1>6. LastIs(p)' /\ FailedEnd(p)' /\ Accepted(p)' /\ Named(p)'
  BY <1>1, <1>2, StepPlaces DEF Tidy, LastIs, FailedEnd, Accepted, Named
<1>7. Lineage'
  BY <1>1, <1>2 DEF Tidy, Lineage, LineageValid
<1>8. AllClosed(p)' /\ Diagnosed(p)'
  BY <1>1, <1>2, <1>3 DEF Tidy, AllClosed, Diagnosed, Orderly
<1>9. Lost(p)'
  BY <1>1, <1>2, <1>3, StepPlaces DEF Tidy, Lost, Orderly, BoundBy
<1> QED BY <1>4, <1>5, <1>6, <1>7, <1>8, <1>9 DEF Tidy

\* What a command starts from has been found consistent.
LEMMA TidyStart ==
    ASSUME TypeOK, NEW p \in Procs, Run(p), Tidy(p), NEW w, StartMove(p, w)
    PROVE  Tidy(p)'
<1>1. /\ pc'[p] = "next" /\ work'[p] = w /\ request'[p] = request[p] /\ last'[p] = last[p]
      /\ UNCHANGED <<plan, Capped, Rows, BatchNumbers, RowNumbers>>
      /\ UNCHANGED <<disk, resolved, diagnosed, deaths>>
      /\ w.done = ResolvedBatches
  BY TakesAt DEF StartMove, Other
<1>2. Consistent(disk)
  BY DEF StartMove, Resumable
<1>3. UNCHANGED ResolvedBatches
  BY <1>1 DEF ResolvedBatches
<1>4. Counted' /\ DoneIsResolved(p)' /\ Lineage'
  BY <1>1, <1>3 DEF Tidy, Counted, DoneIsResolved, Lineage, LineageValid
<1>5. Journaled(p)'
  BY <1>1, <1>2, StepPlaces DEF Journaled, Consistent
<1>6. Places(p)'
  BY <1>1, <1>2, <1>3, StepPlaces DEF Places, Consistent, Items
<1>7. LastIs(p)' /\ FailedEnd(p)' /\ Accepted(p)' /\ Named(p)'
  BY <1>1, StepPlaces DEF Tidy, LastIs, FailedEnd, Accepted, Named
<1>8. AllClosed(p)' /\ Diagnosed(p)'
  BY <1>1, <1>2, <1>3 DEF AllClosed, Diagnosed, Consistent, Items
<1>9. Lost(p)'
  <2> SUFFICES ASSUME ~Capped, NEW i \in DOMAIN disk.entries,
                      disk.entries[i].status = "uncertain"
               PROVE  LET e == disk.entries[i]
                          c == e.id.call.batch
                      IN  c \in ResolvedBatches /\ BoundBy(resolved[c].author, resolved[c].rows, e)'
    BY <1>1, <1>3 DEF Lost, BoundBy
  <2> DEFINE e == disk.entries[i]
             c == e.id.call.batch
  <2>1. /\ e \in Items(disk.entries)
        /\ e.id \in Ids(disk.entries)
    BY DEF Items, Ids
  <2>2. c \in ResolvedBatches
    BY <1>2, <2>1 DEF Consistent
  <2>3. BoundBy(resolved[c].author, resolved[c].rows, e)
    BY <1>2, <2>1 DEF Consistent, UncertainBound, BoundBy
  <2> QED BY <1>1, <2>2, <2>3 DEF BoundBy
<1> QED BY <1>4, <1>5, <1>6, <1>7, <1>8, <1>9 DEF Tidy

LEMMA NotPrepared ==
    ASSUME TypeOK, NEW p \in Procs, Run(p), Tidy(p), pc[p] = "reserve", ~Capped,
           NewId(p, CallOf(p)) \in Ids(disk.entries)
    PROVE  FALSE
<1>1. NewId(p, CallOf(p)).attempt = Attempts(disk.journal, CallOf(p))
      /\ NewId(p, CallOf(p)).call = CallOf(p)
  BY DEF NewId, Run, Synced
<1>2. NewId(p, CallOf(p)) \in Items(disk.journal)
  BY StepPlaces DEF Tidy, Journaled, Orderly
<1>3. PICK k \in DOMAIN disk.journal : disk.journal[k] = NewId(p, CallOf(p))
  BY <1>2 DEF Items
<1>4. disk.journal[k].attempt < Attempts(disk.journal, CallOf(p))
  BY <1>1, <1>3 DEF Tidy, Counted
<1>5. Attempts(disk.journal, CallOf(p)) \in Nat
  BY AttemptsTyped, Ledgered
<1> QED BY <1>1, <1>3, <1>4, <1>5

\* What a request under way leaves as it is until its record is written.
LEMMA TidyAsking ==
    ASSUME TypeOK, NEW p \in Procs, Tidy(p), pc[p] \in {"reserve", "send", "close"},
           NEW s \in {"send", "close", "journal", "failed"}, pc'[p] = s, work'[p] = work[p],
           UNCHANGED plan, UNCHANGED <<resolved, diagnosed, deaths>>,
           disk'.journal = disk.journal
    PROVE  /\ Counted' /\ Places(p)' /\ DoneIsResolved(p)' /\ Named(p)' /\ Lineage'
           /\ Diagnosed(p)' /\ Orderly(p) /\ Orderly(p)'
           /\ UNCHANGED <<Capped, Rows, BatchNumbers, RowNumbers, ResolvedBatches>>
           /\ CallOf(p)' = CallOf(p)
<1>1. UNCHANGED <<Capped, Rows, BatchNumbers, RowNumbers, ResolvedBatches>>
  BY DEF Capped, Rows, BatchNumbers, RowNumbers, ResolvedBatches
<1>2. Counted'
  BY <1>1 DEF Tidy, Counted
<1>3. Places(p)' /\ DoneIsResolved(p)'
  <2>1. Open(p)' = Open(p)
    BY StepPlaces DEF Open
  <2> QED BY <1>1, <2>1, StepPlaces DEF Tidy, Places, DoneIsResolved, Orderly
<1>4. Named(p)'
  BY <1>1, StepPlaces DEF Tidy, Named
<1>5. Lineage'
  BY <1>1 DEF Tidy, Lineage, LineageValid
<1>6. Diagnosed(p)' /\ Orderly(p) /\ Orderly(p)'
  BY <1>1 DEF Tidy, Diagnosed, Orderly
<1> QED BY <1>1, <1>2, <1>3, <1>4, <1>5, <1>6, SameCall

\* An entry is reserved, or, for want of budget, nothing happens.
LEMMA TidyReserve ==
    ASSUME TypeOK, NEW p \in Procs, Run(p), Tidy(p), ReserveCall(p), written' <= Wide
    PROVE  Tidy(p)'
<1>1. PICK s, l, id : ReserveMove(p, s, l, id)
  BY ReserveMoves
<1>2. /\ pc[p] = "reserve" /\ ledger[p] = disk /\ disk \in LedgerType
      /\ disk.entries \in Seq(EntryType) /\ disk.journal \in Seq(RequestIds)
  BY DEF ReserveCall, Run, Synced, TypeOK, LedgersTyped, LedgerType
<1>3. /\ pc'[p] = s /\ work'[p] = work[p]
      /\ request'[p] = [id |-> id, reply |-> None] /\ last'[p] = last[p]
      /\ UNCHANGED plan /\ UNCHANGED <<resolved, diagnosed, deaths>>
      /\ id \in RequestIds /\ id = NewId(p, CallOf(p)) /\ id.call = CallOf(p)
      /\ s \in {"send", "failed"}
  BY <1>1, TakesAt DEF ReserveMove, Other
<1> DEFINE full == WithEntry(p, id)
<1>4. /\ full \in LedgerType /\ full.entries = Append(disk.entries, Reserved(id))
      /\ full.journal = disk.journal
  BY <1>2, <1>3, WithEntryTyped, ReservedTyped
<1>5. /\ Reserved(id) \in EntryType /\ Reserved(id).id = id /\ Reserved(id).status = "reserved"
  BY <1>3, ReservedTyped DEF Reserved
<1> HIDE DEF full
<1>6. Extends(disk, full)
  BY <1>2, <1>4, <1>5, OwnSnapshot
<1>7. CASE s = "send" /\ l = full /\ Write(l)
  <2>1. disk' = full
    BY <1>7, Written1
  <2>2. disk'.journal = disk.journal
    BY <1>4, <2>1
  <2> DEFINE n == Len(disk.entries) + 1
  <2>3. /\ Len(disk'.entries) = n /\ disk'.entries[n] = Reserved(id) /\ n \in DOMAIN disk'.entries
        /\ \A i \in DOMAIN disk'.entries : i # n =>
              i \in DOMAIN disk.entries /\ disk'.entries[i] = disk.entries[i]
    BY <1>2, <1>4, <1>5, <2>1
  <2> HIDE DEF n
  <2>4. /\ Counted' /\ Places(p)' /\ DoneIsResolved(p)' /\ Named(p)' /\ Lineage'
        /\ Diagnosed(p)' /\ Orderly(p) /\ Orderly(p)'
        /\ UNCHANGED <<Capped, RowNumbers, ResolvedBatches>> /\ CallOf(p)' = CallOf(p)
    BY <1>2, <1>3, <2>2, TidyAsking
  <2>5. Journaled(p)'
    <3>1. Ids(disk'.entries) = Ids(disk.entries) \cup {id}
      <4>1. \A i \in DOMAIN disk.entries :
               i \in DOMAIN disk'.entries /\ disk'.entries[i] = disk.entries[i]
        BY <1>2, <1>4, <1>5, <2>1
      <4> QED BY <1>5, <2>3, <4>1 DEF Ids
    <3> QED BY <1>2, <1>3, <1>7, <2>2, <2>4, <3>1, StepPlaces DEF Tidy, Journaled
  <2>6. LastIs(p)' /\ FailedEnd(p)' /\ Accepted(p)'
    BY <1>2, <1>3, <1>7, <2>2, <2>4 DEF Tidy, LastIs, FailedEnd, Accepted, Unasked
  <2>7. AllClosed(p)'
    BY <1>2, <1>3, <1>7, <2>3, <2>4 DEF Tidy, AllClosed
  <2>8. Lost(p)'
    <3> SUFFICES ASSUME ~Capped, NEW i \in DOMAIN disk'.entries,
                        disk'.entries[i].status = "uncertain"
                 PROVE  LET e == disk'.entries[i]
                            b == e.id.call.batch
                        IN  IF b \in ResolvedBatches THEN BoundBy(resolved[b].author, resolved[b].rows, e)
                            ELSE MarkedLost(work[p].rows, e, work[p].row)
      BY <1>3, <1>7, <2>4, StepPlaces DEF Lost, BoundBy, MarkedLost
    <3>1. i \in DOMAIN disk.entries /\ disk'.entries[i] = disk.entries[i]
      BY <1>5, <2>3
    <3> QED BY <1>2, <2>4, <3>1, StepPlaces DEF Tidy, Lost, MarkedLost
  <2> QED BY <2>4, <2>5, <2>6, <2>7, <2>8 DEF Tidy
<1>8. CASE s = "failed" /\ l = full /\ WriteFails(l)
  BY <1>6, <1>8 DEF WriteFails
<1>9. CASE /\ s = "failed" /\ UNCHANGED <<disk, written>>
           /\ Capped \/ id \in Ids(ledger[p].entries)
  <2>1. Capped
    BY <1>2, <1>3, <1>9, NotPrepared
  <2>2. /\ Counted' /\ Places(p)' /\ DoneIsResolved(p)' /\ Named(p)' /\ Lineage'
        /\ Diagnosed(p)' /\ Orderly(p) /\ Orderly(p)'
        /\ UNCHANGED Capped /\ CallOf(p)' = CallOf(p)
    BY <1>2, <1>3, <1>9, TidyAsking
  <2>3. Journaled(p)' /\ AllClosed(p)'
    BY <1>2, <1>3, <1>9, <2>2, StepPlaces DEF Tidy, Journaled, AllClosed
  <2>4. LastIs(p)'
    BY <1>2, <1>3, <1>9, <2>1, <2>2 DEF Tidy, LastIs, Unasked
  <2>5. Lost(p)' /\ FailedEnd(p)' /\ Accepted(p)'
    BY <1>3, <1>9, <2>1, <2>2 DEF Lost, FailedEnd, Accepted
  <2> QED BY <2>2, <2>3, <2>4, <2>5 DEF Tidy
<1> QED BY <1>1, <1>7, <1>8, <1>9 DEF ReserveMove, full

\* What is sent is reserved already.
LEMMA TidySend ==
    ASSUME TypeOK, CostsAccepted, NEW p \in Procs, Run(p), Tidy(p), Send(p)
    PROVE  Tidy(p)'
<1>1. PICK reply : SendMove(p, reply)
  BY SendMoves
<1>2. /\ pc[p] = "send" /\ pc'[p] = "close" /\ work'[p] = work[p] /\ last'[p] = last[p]
      /\ request'[p] = [id |-> request[p].id, reply |-> reply]
      /\ UNCHANGED plan /\ UNCHANGED <<disk, resolved, diagnosed, deaths>> /\ reply \in Replies
  BY <1>1, TakesAt DEF SendMove, Send, Other
<1>3. /\ Counted' /\ Places(p)' /\ DoneIsResolved(p)' /\ Named(p)' /\ Lineage'
      /\ Diagnosed(p)' /\ Orderly(p) /\ Orderly(p)'
      /\ UNCHANGED <<Capped, RowNumbers, ResolvedBatches>> /\ CallOf(p)' = CallOf(p)
  BY <1>2, TidyAsking
<1>4. Journaled(p)' /\ AllClosed(p)'
  BY <1>2, <1>3, StepPlaces DEF Tidy, Journaled, AllClosed
<1>5. LastIs(p)' /\ FailedEnd(p)'
  BY <1>2, <1>3 DEF Tidy, LastIs, FailedEnd, Unasked
<1>6. Accepted(p)'
  <2>1. reply.kind \in Kinds
    BY <1>2 DEF Replies
  <2> QED BY <1>2, <2>1 DEF Accepted, CostsAccepted
<1>7. Lost(p)'
  BY <1>2, <1>3, StepPlaces DEF Tidy, Lost, BoundBy
<1> QED BY <1>3, <1>4, <1>5, <1>6, <1>7 DEF Tidy

\* The entry of the request is closed, and possibly uncertain from now on.
LEMMA TidyClose ==
    ASSUME TypeOK, NEW p \in Procs, Run(p), Tidy(p), CloseCall(p), written' <= Wide
    PROVE  Tidy(p)'
<1>1. PICK s : CloseMove(p, s)
  BY CloseMoves
<1>2. /\ pc[p] = "close" /\ ledger[p] = disk /\ EntryUnderWay(p) = Len(disk.entries)
      /\ Len(disk.entries) \in DOMAIN disk.entries
      /\ Extends(disk, WithClosed(p))
  BY CloseMoves, ClosesLast
<1> DEFINE l == WithClosed(p)
           n == Len(disk.entries)
<1>3. /\ l \in LedgerType /\ l.journal = disk.journal /\ disk.entries \in Seq(EntryType)
      /\ ClosedLegally(disk.entries, n, request[p].reply, l.entries)
  BY <1>2, WithClosedTyped DEF TypeOK, LedgersTyped
<1> HIDE DEF l
<1>4. request[p].reply.kind # "invalid"
  BY <1>2 DEF Tidy, Accepted
<1>5. /\ pc'[p] = "journal" /\ work'[p] = work[p] /\ request'[p] = request[p] /\ last'[p] = last[p]
      /\ UNCHANGED plan /\ UNCHANGED <<resolved, diagnosed, deaths>>
      /\ Write(l) /\ s = "journal"
  BY <1>1, <1>2, <1>4, TakesAt DEF CloseMove, WriteFails, Other, l
<1>6. disk' = l
  BY <1>5, Written1
<1>7. /\ Len(disk'.entries) = n /\ DOMAIN disk'.entries = DOMAIN disk.entries
      /\ n \in DOMAIN disk.entries
      /\ \A i \in DOMAIN disk.entries : disk'.entries[i].id = disk.entries[i].id
      /\ \A i \in DOMAIN disk.entries : i # n => disk'.entries[i] = disk.entries[i]
      /\ disk'.entries[n].status # "reserved"
  BY <1>2, <1>3, <1>4, <1>6 DEF ClosedLegally
<1>8. /\ Counted' /\ Places(p)' /\ DoneIsResolved(p)' /\ Named(p)' /\ Lineage'
      /\ Diagnosed(p)' /\ Orderly(p) /\ Orderly(p)'
      /\ UNCHANGED <<Capped, RowNumbers, ResolvedBatches>> /\ CallOf(p)' = CallOf(p)
  BY <1>2, <1>3, <1>5, <1>6, TidyAsking
<1>9. Journaled(p)'
  <2>1. Ids(disk'.entries) = Ids(disk.entries)
    BY <1>7 DEF Ids
  <2> QED BY <1>2, <1>3, <1>5, <1>6, <1>8, <2>1, StepPlaces DEF Tidy, Journaled
<1>10. LastIs(p)' /\ FailedEnd(p)' /\ Accepted(p)'
  BY <1>2, <1>3, <1>5, <1>6, <1>8 DEF Tidy, LastIs, FailedEnd, Accepted, Unasked
<1> HIDE DEF n
<1>11. AllClosed(p)'
  <2> SUFFICES ASSUME NEW i \in DOMAIN disk.entries, disk'.entries[i].status = "reserved"
               PROVE  FALSE
    BY <1>7 DEF AllClosed
  <2>1. i # n /\ disk.entries[i].status = "reserved"
    BY <1>7
  <2> QED BY <1>2, <1>8, <2>1 DEF Tidy, AllClosed, n
<1>12. Lost(p)'
  <2>1. /\ disk.entries[n].id.call = CallOf(p)
        /\ disk.entries[n].id.call.batch \notin ResolvedBatches
    <3>1. disk.entries[n].id = request[p].id /\ request[p].id.call = CallOf(p)
      BY <1>2, StepPlaces DEF Run, UnderWay, LastEntry, n
    <3>2. work[p].batch \notin work[p].done /\ work[p].done = ResolvedBatches
      BY <1>2, StepPlaces DEF Run, Confined, Tidy, DoneIsResolved
    <3> QED BY <3>1, <3>2, CallFacts
  <2> SUFFICES ASSUME ~Capped, NEW i \in DOMAIN disk'.entries,
                      disk'.entries[i].status = "uncertain"
               PROVE  LET e == disk'.entries[i]
                          b == e.id.call.batch
                      IN  IF b \in ResolvedBatches THEN BoundBy(resolved[b].author, resolved[b].rows, e)
                          ELSE MarkedLost(work[p].rows, e, work[p].row) \/ (i = n /\ e.id.call = CallOf(p))
    <3>1. n = Len(disk'.entries) /\ pc'[p] \in InHand /\ pc'[p] \in {"journal", "failed"}
      BY <1>5, <1>7, StepPlaces
    <3> QED BY <1>5, <1>8, <3>1 DEF Lost, BoundBy, MarkedLost
  <2>2. CASE i = n
    BY <1>7, <2>1, <2>2
  <2>3. CASE i # n
    <3>1. i \in DOMAIN disk.entries /\ disk'.entries[i] = disk.entries[i]
      BY <1>7, <2>3
    <3> QED BY <1>2, <1>8, <3>1, StepPlaces DEF Tidy, Lost, MarkedLost
  <2> QED BY <2>2, <2>3
<1> QED BY <1>8, <1>9, <1>10, <1>11, <1>12 DEF Tidy

\* The record of the request is the final one of its call, and of no other.
LEMMA TidyJournal ==
    ASSUME TypeOK, NEW p \in Procs, Run(p), Tidy(p), JournalCall(p), written' <= Wide
    PROVE  Tidy(p)'
<1>1. PICK s, id : JournalMove(p, s, id)
  BY JournalMoves
<1>2. /\ pc[p] = "journal" /\ ledger[p] = disk /\ disk \in LedgerType
      /\ request[p].id \in RequestIds
      /\ disk.journal \in Seq(RequestIds) /\ disk.entries \in Seq(EntryType)
  BY JournalMoves, StepPlaces DEF Run, Synced, TypeOK, LedgersTyped, Ready, LedgerType
<1> DEFINE l == WithRecord(p)
           new == request[p].id
<1>3. /\ l \in LedgerType /\ l.entries = disk.entries
      /\ l.journal = Append(disk.journal, new)
  BY <1>2, WithRecordTyped
<1> HIDE DEF l
<1>4. Extends(disk, l)
  BY <1>2, <1>3, OwnSnapshot
<1>5. /\ pc'[p] = s /\ work'[p] = work[p] /\ request'[p] = request[p] /\ last'[p] = new
      /\ UNCHANGED <<plan, Capped, Rows, BatchNumbers, RowNumbers>>
      /\ UNCHANGED <<resolved, diagnosed, deaths>>
      /\ Write(l) /\ s = IF HandedOver(p) THEN "answered" ELSE "failed"
  BY <1>1, <1>4, TakesAt DEF JournalMove, WriteFails, Other, l
<1>6. disk' = l
  BY <1>5, Written1
<1>7. UNCHANGED ResolvedBatches /\ CallOf(p)' = CallOf(p) /\ s \in {"answered", "failed"}
  BY <1>5, SameCall DEF ResolvedBatches
<1>8. /\ new.call = CallOf(p) /\ disk.entries # <<>> /\ LastEntry.id = new
      /\ ~Capped => new = NewId(p, CallOf(p))
      /\ (LastEntry.status = "uncertain") <=> (request[p].reply.kind = "lost")
  BY <1>2, StepPlaces DEF Run, UnderWay
<1>9. work[p].batch \notin ResolvedBatches
  BY <1>2, StepPlaces DEF Run, Confined, Tidy, DoneIsResolved
<1> DEFINE n == Len(disk.journal) + 1
<1>10. /\ Len(disk'.journal) = n /\ n \in DOMAIN disk'.journal /\ disk'.journal[n] = new
       /\ disk'.journal # <<>> /\ disk'.entries = disk.entries
       /\ \A k \in DOMAIN disk'.journal : k # n =>
             k \in DOMAIN disk.journal /\ disk'.journal[k] = disk.journal[k]
  BY <1>2, <1>3, <1>6
<1>11. \A k \in DOMAIN disk.journal :
          k \in DOMAIN disk'.journal /\ disk'.journal[k] = disk.journal[k]
  BY <1>2, <1>3, <1>6
<1> HIDE DEF n
<1>12. \A c : Final(disk'.journal, c) = IF new.call = c THEN new ELSE Final(disk.journal, c)
  <2>1. \A c : Final(Append(disk.journal, new), c) = IF new.call = c THEN new ELSE Final(disk.journal, c)
    BY <1>2, FinalAppend
  <2> QED BY <1>3, <1>6, <2>1
<1> HIDE DEF new
<1>13. Orderly(p) /\ Orderly(p)'
  BY <1>2, <1>5 DEF Orderly
<1>14. Counted'
  <2> SUFFICES ASSUME ~Capped, NEW k \in DOMAIN disk'.journal
               PROVE  disk'.journal[k].attempt < Attempts(disk'.journal, disk'.journal[k].call)
    BY <1>5 DEF Counted
  <2> DEFINE c == disk'.journal[k].call
  <2>1. /\ Attempts(disk'.journal, c) = Attempts(disk.journal, c) + (IF new.call = c THEN 1 ELSE 0)
        /\ Attempts(disk.journal, c) \in Nat
    <3>1. Attempts(Append(disk.journal, request[p].id), c)
            = Attempts(disk.journal, c) + (IF request[p].id.call = c THEN 1 ELSE 0)
      BY <1>2, AttemptsAppend
    <3>2. Attempts(disk.journal, c) \in Nat
      BY <1>2, AttemptsTyped
    <3> QED BY <1>3, <1>6, <3>1, <3>2 DEF new
  <2>2. CASE k = n
    <3>1. new.attempt = Attempts(disk.journal, CallOf(p))
      BY <1>2, <1>8 DEF NewId
    <3> QED BY <1>8, <1>10, <2>1, <2>2, <3>1
  <2>3. CASE k # n
    <3>1. k \in DOMAIN disk.journal /\ disk'.journal[k] = disk.journal[k]
      BY <1>10, <2>3
    <3>2. disk.journal[k].attempt < Attempts(disk.journal, c) /\ disk.journal[k].attempt \in Nat
      <4>1. disk.journal[k] \in RequestIds
        BY <1>2, <3>1
      <4>2. disk.journal[k].attempt \in Nat
        BY <4>1 DEF RequestIds
      <4> QED BY <3>1, <4>2 DEF Tidy, Counted
    <3> QED BY <2>1, <3>1, <3>2
  <2> QED BY <2>2, <2>3
<1>15. Journaled(p)'
  <2>1. Items(disk'.journal) = Items(disk.journal) \cup {new}
    BY <1>10, <1>11 DEF Items
  <2>2. Ids(disk.entries) = Items(disk.journal) \cup {new}
    BY <1>2, <1>13, StepPlaces DEF Tidy, Journaled, new
  <2> QED BY <1>5, <1>7, <1>10, <2>1, <2>2, StepPlaces DEF Journaled
<1>16. Places(p)' /\ DoneIsResolved(p)'
  <2>1. /\ new.call.batch = work[p].batch /\ new.call.row = work[p].row
        /\ work[p].row <= work[p].row
    BY <1>8, CallFacts, LastTyped
  <2>2. Open(p) = {work[p].batch} /\ Open(p)' = {work[p].batch}
    BY <1>2, <1>5, <1>7, StepPlaces DEF Open
  <2>3. \A k \in DOMAIN disk'.journal :
           /\ disk'.journal[k].call.batch \in ResolvedBatches \cup {work[p].batch}
           /\ disk'.journal[k].call.batch = work[p].batch => disk'.journal[k].call.row <= work[p].row
    BY <1>2, <1>10, <1>13, <2>1, <2>2, StepPlaces DEF Tidy, Places
  <2>4. DoneIsResolved(p)'
    BY <1>2, <1>5, <1>7 DEF Tidy, DoneIsResolved
  <2> QED BY <1>5, <1>7, <2>2, <2>3, <2>4, StepPlaces DEF Places
<1>17. LastIs(p)'
  <2>1. last'[p] = new /\ new # None /\ request'[p].id = new
    BY <1>2, <1>5, NoneApart DEF new
  <2> QED BY <1>5, <1>7, <1>8, <1>10, <2>1 DEF LastIs, Heard
<1>18. Named(p)'
  <2>1. CASE work[p].row = 0
    BY <1>2, <1>5, <1>7, <2>1, StepPlaces DEF Tidy, Named
  <2>2. CASE work[p].row # 0
    <3>1. new.call = ReviewerCall(work[p].batch, work[p].row)
      BY <1>8, <2>2 DEF CallOf
    <3>2. Final(disk'.journal, AuthorCall(work[p].batch)) = Final(disk.journal, AuthorCall(work[p].batch))
      BY <1>12, <3>1 DEF AuthorCall, ReviewerCall
    <3>3. \A r \in RowNumbers \ {work[p].row} :
             Final(disk'.journal, ReviewerCall(work[p].batch, r))
               = Final(disk.journal, ReviewerCall(work[p].batch, r))
      BY <1>12, <3>1 DEF ReviewerCall
    <3>4. /\ work[p].author = Final(disk.journal, AuthorCall(work[p].batch))
          /\ \A r \in RowNumbers \ {work[p].row} :
               work[p].rows[r].reviewer = Final(disk.journal, ReviewerCall(work[p].batch, r))
      BY <1>2, <2>2, StepPlaces DEF Tidy, Named
    <3> HIDE DEF new
    <3>5. pc'[p] # "store"
      BY <1>5, <1>7
    <3> QED BY <1>5, <2>2, <3>2, <3>3, <3>4, <3>5 DEF Named, AuthorCall, ReviewerCall
  <2> QED BY <2>1, <2>2
<1>19. Lineage'
  <2> SUFFICES ASSUME NEW b \in BatchNumbers, resolved[b] # None
               PROVE  /\ resolved[b].author = Final(disk'.journal, AuthorCall(b))
                      /\ \A r \in RowNumbers :
                           resolved[b].rows[r].reviewer = Final(disk'.journal, ReviewerCall(b, r))
    BY <1>5 DEF Lineage, LineageValid, AuthorCall, ReviewerCall
  <2>1. new.call.batch # b
    BY <1>8, <1>9, CallFacts DEF ResolvedBatches
  <2>2. new.call # AuthorCall(b) /\ \A r : new.call # ReviewerCall(b, r)
    BY <2>1 DEF AuthorCall, ReviewerCall
  <2> QED BY <1>12, <2>2 DEF Tidy, Lineage, LineageValid
<1>20. AllClosed(p)' /\ Diagnosed(p)'
  BY <1>2, <1>5, <1>7, <1>10, <1>13 DEF Tidy, AllClosed, Diagnosed
<1>21. FailedEnd(p)' /\ Accepted(p)'
  <2>1. s = "answered" => LastEntry.status # "uncertain"
    BY <1>5, <1>8 DEF HandedOver
  <2>2. LastEntry' = LastEntry
    BY <1>10 DEF LastEntry
  <2> QED BY <1>5, <1>7, <1>8, <1>10, <2>1, <2>2 DEF FailedEnd, Accepted, new
<1>22. Lost(p)'
  <2> SUFFICES ASSUME ~Capped, NEW i \in DOMAIN disk'.entries,
                      disk'.entries[i].status = "uncertain"
               PROVE  LET e == disk'.entries[i]
                          b == e.id.call.batch
                      IN  IF b \in ResolvedBatches THEN BoundBy(resolved[b].author, resolved[b].rows, e)
                          ELSE \/ MarkedLost(work[p].rows, e, work[p].row)
                               \/ s = "failed" /\ i = Len(disk'.entries) /\ e.id.call = CallOf(p)
    <3>1. /\ pc'[p] \in InHand /\ (pc'[p] \in {"journal", "failed"} <=> s = "failed")
          /\ pc'[p] # "store" /\ Orderly(p)'
      BY <1>5, <1>7, <1>13, StepPlaces
    <3> QED BY <1>5, <1>7, <3>1 DEF Lost, BoundBy, MarkedLost
  <2> DEFINE e == disk.entries[i]
             b == e.id.call.batch
  <2>1. IF b \in ResolvedBatches THEN BoundBy(resolved[b].author, resolved[b].rows, e)
        ELSE \/ MarkedLost(work[p].rows, e, work[p].row)
             \/ i = Len(disk.entries) /\ e.id.call = CallOf(p)
    BY <1>2, <1>10, <1>13, StepPlaces DEF Tidy, Lost, MarkedLost
  <2>2. i = Len(disk.entries) => s = "failed"
    <3>1. i = Len(disk.entries) => request[p].reply.kind = "lost"
      BY <1>8, <1>10 DEF LastEntry
    <3> QED BY <1>5, <3>1 DEF HandedOver
  <2> QED BY <1>10, <2>1, <2>2
<1> QED BY <1>14, <1>15, <1>16, <1>17, <1>18, <1>19, <1>20, <1>21, <1>22 DEF Tidy

\* The author call of a capped run that was refused its reservation is the
\* first of its batch.
LEMMA TidyRefused ==
    ASSUME TypeOK, NEW p \in Procs, Run(p), Tidy(p), CappedAuthorFails(p), ~LastOfCall(p)
    PROVE  Tidy(p)'
<1>1. /\ pc[p] = "failed" /\ Capped /\ work[p].row = 0
      /\ Leave(p) /\ UNCHANGED <<resolved, diagnosed, deaths>>
  BY DEF CappedAuthorFails, Keep
<1>2. Unasked(CallOf(p))
  BY <1>1 DEF Tidy, LastIs, Heard, LastOfCall
<1>3. ASSUME NEW k \in DOMAIN disk.journal
      PROVE  disk.journal[k].call.batch \in ResolvedBatches
  <2>1. disk.journal[k].call.batch \in ResolvedBatches \cup {work[p].batch}
    BY <1>1, StepPlaces DEF Tidy, Places, Orderly, Open
  <2>2. CASE disk.journal[k].call.batch = work[p].batch
    <3>1. disk.journal[k].call.row <= 0 /\ disk.journal[k].call \in Calls
      BY <1>1, <2>2, Ledgered, StepPlaces DEF Tidy, Places
    <3>2. \A c \in Calls : c.row <= 0 => c = AuthorCall(c.batch)
      BY DEF Calls, AuthorCall
    <3>3. disk.journal[k].call = CallOf(p)
      BY <1>1, <2>2, <3>1, <3>2 DEF CallOf
    <3> QED BY <1>2, <3>3 DEF Unasked
  <2> QED BY <2>1, <2>2
<1>4. pc[p] \notin Asking /\ pc[p] # "diagnose" /\ pc[p] # "off"
  BY <1>1 DEF Asking
<1> QED BY <1>1, <1>3, <1>4, TidyLeave

LEMMA TidyAnswers ==
    ASSUME TypeOK, NEW p \in Procs, Run(p), Tidy(p), Answer(p)
    PROVE  Tidy(p)'
<1>1. CASE AuthorAnswered(p) \/ Retry(p)
  BY <1>1, TidyAuthorAnswered, TidyRetry
<1>2. CASE ReviewerAnswered(p) \/ ReviewerLost(p) \/ ReviewerGivenUp(p)
  BY <1>2, TidyReviewer
<1>3. CASE AuthorValidationBreaks(p) \/ AuthorLost(p) \/ AuthorGivenUp(p)
  BY <1>3, TidyAuthor
<1>4. CASE CappedAuthorFails(p) \/ CappedReviewerFails(p)
  BY <1>4, TidyCapped, TidyRefused
<1>5. CASE Stranded(p)
  BY <1>5, HeardFacts DEF Stranded
<1> QED BY <1>1, <1>2, <1>3, <1>4, <1>5 DEF Answer

LEMMA TidyEnd ==
    ASSUME TypeOK, NEW p \in Procs, Run(p), Tidy(p), Leave(p), UNCHANGED resolved,
           \/ Die(p)
           \/ pc[p] \in {"raise", "finish", "seal"} /\ UNCHANGED <<deaths, diagnosed>>
    PROVE  Tidy(p)'
<1>1. CASE Die(p)
  <2>1. pc[p] # "off" /\ deaths' # 0
    BY <1>1 DEF Die, TypeOK, FilesTyped
  <2> QED BY <2>1, TidyLeave
<1>2. CASE pc[p] \in {"raise", "finish", "seal"} /\ UNCHANGED <<deaths, diagnosed>>
  <2>1. pc[p] \notin Unresolved /\ pc[p] \notin Asking /\ pc[p] # "diagnose" /\ pc[p] # "off"
    BY <1>2, StepPlaces
  <2> QED BY <1>2, <2>1, TidyLeave
<1> QED BY <1>1, <1>2

LEMMA TidyResolve ==
    ASSUME TypeOK, NEW p \in Procs, Run(p), Tidy(p), Resolve(p)
    PROVE  Tidy(p)'
<1>1. CASE Store(p) \/ StoreFallback(p)
  BY <1>1, TidyStored
<1>2. CASE Diagnose(p)
  BY <1>2, TidyDiagnose
<1>3. CASE StoreClobbers(p)
  <2>1. pc[p] = "store" /\ resolved[work[p].batch] # None
    BY <1>3 DEF StoreClobbers
  <2>2. work[p].batch \in BatchNumbers
    BY <2>1, BatchNumbered, StepPlaces
  <2>3. work[p].batch \notin work[p].done /\ work[p].done = ResolvedBatches
    BY <2>1, StepPlaces DEF Run, Confined, Tidy, DoneIsResolved
  <2> QED BY <2>1, <2>2, <2>3 DEF ResolvedBatches
<1>4. CASE Raise(p)
  BY <1>4, TidyEnd DEF Raise, Keep
<1> QED BY <1>1, <1>2, <1>3, <1>4 DEF Resolve

LEMMA TidyStep ==
    ASSUME TypeOK, CostsAccepted, NEW p \in Procs, Run(p), Tidy(p),
           Start(p) \/ Step(p) \/ Die(p), written' <= Wide
    PROVE  Tidy(p)'
<1>1. CASE Start(p)
  BY <1>1, StartMoves, TidyStart
<1>2. CASE Die(p)
  BY <1>2, TidyEnd DEF Die
<1>3. CASE NextBatch(p)
  BY <1>3, TidyNextBatch
<1>4. CASE Request(p)
  BY <1>4, TidyReserve, TidySend, TidyClose, TidyJournal DEF Request
<1>5. CASE Answer(p)
  BY <1>5, TidyAnswers
<1>6. CASE Resolve(p)
  BY <1>6, TidyResolve
<1>7. CASE Project(p)
  BY <1>7, ProjectMoves, TidySave
<1>8. CASE Finish(p)
  <2>1. CASE SaveMove(p, "seal")
    BY <1>8, <2>1, FinishMoves, TidySave
  <2>2. CASE Leave(p) /\ Other
    BY <1>8, <2>2, FinishMoves, TidyEnd DEF Other
  <2> QED BY <1>8, <2>1, <2>2, FinishMoves
<1>9. CASE Seal(p)
  BY <1>9, TidyEnd DEF Seal
<1> QED BY <1>1, <1>2, <1>3, <1>4, <1>5, <1>6, <1>7, <1>8, <1>9 DEF Step

LEMMA TidyInit == ASSUME Init, NEW p \in plan.procs PROVE Tidy(p)
<1>1. /\ p \in Procs /\ disk = Empty /\ pc[p] = "off" /\ last[p] = None /\ diagnosed = {}
  BY PlanTyped, InitTyped DEF Init, LedgerInit
<1>2. ResolvedBatches = {} /\ Open(p) = {}
  BY <1>1, StepPlaces DEF Init, ResolvedBatches, Open
<1>3. Counted /\ Places(p) /\ DoneIsResolved(p) /\ LastIs(p) /\ Named(p)
  BY <1>1, <1>2, StepPlaces DEF Counted, Places, DoneIsResolved, LastIs, Named, Empty
<1>4. Journaled(p) /\ AllClosed(p) /\ Diagnosed(p) /\ Lost(p) /\ FailedEnd(p) /\ Accepted(p)
  BY <1>1, <1>2, StepPlaces DEF Journaled, AllClosed, Diagnosed, Lost, FailedEnd, Accepted, Empty,
     Ids, Items
<1>5. Lineage
  BY <1>2 DEF Lineage, LineageValid, ResolvedBatches
<1> QED BY <1>3, <1>4, <1>5 DEF Tidy

TidyInv == Alone /\ CostsAccepted /\ written <= Wide => \A p \in plan.procs : Tidy(p)

LEMMA TidyNext ==
    ASSUME TypeOK, TypeOK', RunInv, TidyInv, [Next]_vars
    PROVE  TidyInv'
<1> SUFFICES ASSUME Alone', CostsAccepted', written' <= Wide, NEW p \in plan'.procs PROVE Tidy(p)'
  BY DEF TidyInv
<1>1. UNCHANGED plan /\ written <= Wide
  BY WrittenGrows
<1>2. Alone /\ CostsAccepted /\ p \in plan.procs /\ Run(p) /\ Tidy(p) /\ p \in Procs
  BY <1>1, PlanTyped DEF Alone, CostsAccepted, Kinds, RunInv, TidyInv
<1>3. CASE Next
  <2>1. PICK q \in Procs : Start(q) \/ Step(q) \/ Overtaken(q) \/ Die(q)
    BY <1>3 DEF Next
  <2>2. q = p
    BY <1>2, <2>1, ActsPlanned, OnlyOne
  <2> QED BY <1>2, <2>1, <2>2, NotOvertaken, TidyStep
<1>4. CASE UNCHANGED vars
  <2>1. UNCHANGED <<pc, work, last, request, disk, resolved, diagnosed, deaths>>
    BY <1>4 DEF vars, ledgerVars
  <2>2. UNCHANGED <<CallOf(p), Capped, LastEntry, ResolvedBatches, Open(p), Orderly(p),
                    RowNumbers, BatchNumbers>>
    BY <1>1, <2>1 DEF CallOf, Capped, LastEntry, ResolvedBatches, Open, Orderly, RowNumbers,
       BatchNumbers, Rows
  <2>3. Counted' /\ Places(p)' /\ DoneIsResolved(p)' /\ Journaled(p)' /\ Diagnosed(p)'
    BY <1>2, <2>1, <2>2 DEF Tidy, Counted, Places, DoneIsResolved, Journaled, Diagnosed
  <2>4. LastIs(p)' /\ FailedEnd(p)' /\ Accepted(p)' /\ AllClosed(p)'
    BY <1>2, <2>1, <2>2 DEF Tidy, LastIs, Heard, Unasked, FailedEnd, Accepted, AllClosed
  <2>5. Named(p)' /\ Lineage'
    BY <1>2, <2>1, <2>2 DEF Tidy, Named, Lineage, LineageValid
  <2>6. Lost(p)'
    BY <1>2, <2>1, <2>2 DEF Tidy, Lost, BoundBy
  <2> QED BY <2>3, <2>4, <2>5, <2>6 DEF Tidy
<1> QED BY <1>3, <1>4

LEMMA TheOne ==
    ASSUME TypeOK, Alone
    PROVE  \E p \in Procs : plan.procs = {p}
<1>1. IsFiniteSet(plan.procs)
  BY LedgerAssumption, PlanTyped, FS_Subset
<1> QED BY <1>1, PlanTyped, FS_Singleton DEF Alone

LEMMA Resumes ==
    ASSUME TypeOK, NEW p \in Procs, Tidy(p), deaths = 0, pc[p] = "off"
    PROVE  Consistent(disk)
<1>1. Orderly(p) /\ Open(p) = {}
  BY StepPlaces DEF Orderly, Open
<1>2. \A e \in Items(disk.entries) : e.status # "reserved"
  BY <1>1 DEF Tidy, AllClosed, Items
<1>3. Items(disk.journal) = Ids(disk.entries)
  BY <1>1, StepPlaces DEF Tidy, Journaled
<1>4. \A id \in Items(disk.journal) : id.call.batch \in ResolvedBatches
  BY <1>1 DEF Tidy, Places, Items
<1>5. ~Capped => diagnosed = ResolvedBatches
  BY <1>1 DEF Tidy, Diagnosed
<1>6. ~Capped => UncertainBound(disk.entries)
  <2> SUFFICES ASSUME ~Capped, NEW i \in DOMAIN disk.entries,
                      disk.entries[i].status = "uncertain"
               PROVE  LET e == disk.entries[i]
                          call == e.id.call
                          rows == resolved[call.batch]
                      IN  /\ rows # None
                          /\ IF call.row = 0
                             THEN rows.author = e.id /\ \A r \in RowNumbers : rows.rows[r].mark = "authorLost"
                             ELSE rows.rows[call.row] = Row("reviewerLost", e.id)
    BY DEF UncertainBound, Items
  <2> DEFINE e == disk.entries[i]
             b == e.id.call.batch
  <2>1. b \in ResolvedBatches /\ BoundBy(resolved[b].author, resolved[b].rows, e)
    BY <1>1, StepPlaces DEF Tidy, Lost
  <2> QED BY <2>1 DEF BoundBy, ResolvedBatches
<1> QED BY <1>2, <1>3, <1>4, <1>5, <1>6 DEF Consistent

LEMMA TidyAlways == Spec => [](TypeOK /\ RunInv /\ TidyInv)
<1>1. Init => TypeOK /\ RunInv /\ TidyInv
  BY InitTyped, RunInit, TidyInit DEF RunInv, TidyInv
<1>2. (TypeOK /\ RunInv /\ TidyInv) /\ [Next]_vars => (TypeOK /\ RunInv /\ TidyInv)'
  BY NextTyped, RunNext, TidyNext
<1> QED BY <1>1, <1>2, PTL DEF Spec

\* Whatever was lost, retried or given up, and wherever commands died and were
\* started again: every resolution names the request that is on record last for
\* its author call and for each of its reviewer calls.
THEOREM OutcomesOfFinalAttemptsHolds == Spec => [](written <= Wide => OutcomesOfFinalAttempts)
<1>1. TypeOK /\ RunInv /\ TidyInv => (written <= Wide => OutcomesOfFinalAttempts)
  BY TheOne DEF TidyInv, Tidy, Lineage, OutcomesOfFinalAttempts
<1> QED BY <1>1, TidyAlways, PTL

\* Only a death makes the command refuse to go on with what it left behind.
THEOREM FailsClosedOnlyAfterDeathHolds == Spec => [](written <= Wide => FailsClosedOnlyAfterDeath)
<1>1. TypeOK /\ RunInv /\ TidyInv => (written <= Wide => FailsClosedOnlyAfterDeath)
  BY TheOne, Resumes DEF TidyInv, FailsClosedOnlyAfterDeath
<1> QED BY <1>1, TidyAlways, PTL

-----------------------------------------------------------------------------
(* BudgetKept.  First the sums of debits: SumOver is computed by a recursion *)
(* over the parts of a set, so that what it adds up to follows from the      *)
(* least part for which it would not.                                        *)

Pick(s) == CHOOSE x \in s : TRUE

\* What the recursion behind SumOver computes, for every part of a set.
Adds(g, entries, S) ==
    \A s \in SUBSET S :
        g[s] = IF s = {} THEN 0 ELSE entries[Pick(s)].debit + g[s \ {Pick(s)}]
IsSum(g, entries, S) == Adds(g, entries, S) /\ \A s \in SUBSET S : g[s] \in Nat

Debits(entries, S) == \A i \in S : entries[i].debit \in Nat

LEMMA Picked ==
    ASSUME NEW s, s # {}
    PROVE  Pick(s) \in s
  BY DEF Pick

LEMMA Smaller ==
    ASSUME NEW S, IsFiniteSet(S), NEW s \in SUBSET S, NEW x \in s
    PROVE  /\ Cardinality(s) \in Nat /\ Cardinality(s \ {x}) \in Nat
           /\ Cardinality(s \ {x}) < Cardinality(s)
<1>1. IsFiniteSet(s) BY FS_Subset
<1>2. IsFiniteSet(s \ {x}) /\ Cardinality(s \ {x}) = Cardinality(s) - 1
  BY <1>1, FS_RemoveElement
<1>3. Cardinality(s) \in Nat /\ Cardinality(s \ {x}) \in Nat
  BY <1>1, <1>2, FS_CardinalityType
<1> QED BY <1>2, <1>3

\* Of the sets with a property, one has no smaller part that has it.
LEMMA SmallestPart ==
    ASSUME NEW S, IsFiniteSet(S), NEW T \in SUBSET (SUBSET S), T # {}
    PROVE  \E s \in T : \A x \in s : s \ {x} \notin T
<1> DEFINE sizes == {Cardinality(s) : s \in T}
<1>1. sizes \in SUBSET Nat
  BY FS_Subset, FS_CardinalityType
<1>2. sizes # {} OBVIOUS
<1>3. Min(sizes) \in sizes /\ \A x \in sizes : Min(sizes) <= x
  <2> HIDE DEF sizes
  <2> QED BY <1>1, <1>2, MinFacts
<1>4. PICK s \in T : Cardinality(s) = Min(sizes) BY <1>3
<1>5. ASSUME NEW x \in s, s \ {x} \in T PROVE FALSE
  <2>1. Cardinality(s) <= Cardinality(s \ {x}) BY <1>3, <1>4, <1>5
  <2>2. /\ Cardinality(s) \in Nat /\ Cardinality(s \ {x}) \in Nat
        /\ Cardinality(s \ {x}) < Cardinality(s)
    BY <1>4, Smaller
  <2> QED BY <2>1, <2>2
<1> QED BY <1>4, <1>5

LEMMA SumExists ==
    ASSUME NEW entries, NEW S, IsFiniteSet(S), Debits(entries, S)
    PROVE  \E g : IsSum(g, entries, S)
<1> DEFINE Small(n) == {s \in SUBSET S : Cardinality(s) < n}
           Sums(g, n) == \A s \in Small(n) :
               /\ g[s] \in Nat
               /\ g[s] = IF s = {} THEN 0 ELSE entries[Pick(s)].debit + g[s \ {Pick(s)}]
           T == {n \in Nat : ~\E g : Sums(g, n)}
<1>1. \A s \in SUBSET S : IsFiniteSet(s) /\ Cardinality(s) \in Nat
  BY FS_Subset, FS_CardinalityType
<1>2. ASSUME T # {} PROVE FALSE
  <2>1. T \in SUBSET Nat OBVIOUS
  <2>2. PICK m \in T : \A n \in T : m <= n
    <3> HIDE DEF T
    <3> QED BY <1>2, <2>1, MinFacts
  <2>3. m \in Nat /\ ~\E g : Sums(g, m) BY <2>2
  <2>4. m # 0
    <3> SUFFICES ASSUME m = 0 PROVE \E g : Sums(g, m) BY <2>3
    <3>1. \A s \in Small(m) : FALSE BY <1>1
    <3> DEFINE none == [s \in {} |-> 0]
    <3>2. Sums(none, m)
      <4> HIDE DEF none, Small
      <4> QED BY <3>1
    <3> HIDE DEF none
    <3> WITNESS none
    <3> QED BY <3>2
  <2>5. m - 1 \in Nat /\ m - 1 \notin T
    <3> HIDE DEF T
    <3> QED BY <2>1, <2>2, <2>4
  <2>6. PICK g : Sums(g, m - 1) BY <2>5
  <2> DEFINE h == [s \in Small(m) |->
                     IF Cardinality(s) < m - 1 THEN g[s]
                     ELSE IF s = {} THEN 0
                     ELSE entries[Pick(s)].debit + g[s \ {Pick(s)}]]
  <2>7. ASSUME NEW s \in Small(m)
        PROVE  /\ h[s] \in Nat
               /\ h[s] = IF s = {} THEN 0 ELSE entries[Pick(s)].debit + h[s \ {Pick(s)}]
    <3>1. CASE s = {}
      <4>1. Cardinality(s) < m - 1 => g[s] = 0
        BY <2>6, <3>1
      <4> QED BY <3>1, <4>1
    <3>2. CASE s # {}
      <4> DEFINE x == Pick(s)
                 r == s \ {x}
      <4>1. x \in s /\ x \in S BY <3>2, Picked
      <4>2. /\ Cardinality(s) \in Nat /\ Cardinality(r) \in Nat
            /\ Cardinality(r) < Cardinality(s) /\ Cardinality(s) < m
        BY <4>1, Smaller
      <4>3. r \in Small(m - 1) /\ r \in Small(m) /\ Cardinality(r) < m - 1
        BY <2>3, <2>5, <4>2
      <4>4. h[r] = g[r] /\ g[r] \in Nat BY <2>6, <4>3
      <4>5. entries[x].debit \in Nat BY <4>1 DEF Debits
      <4>6. h[s] = entries[x].debit + g[r]
        <5>1. CASE Cardinality(s) < m - 1
          <6>1. s \in Small(m - 1) BY <5>1
          <6>2. h[s] = g[s] BY <5>1
          <6> QED BY <2>6, <3>2, <6>1, <6>2
        <5>2. CASE ~(Cardinality(s) < m - 1) BY <3>2, <5>2
        <5> QED BY <5>1, <5>2
      <4> QED BY <3>2, <4>4, <4>5, <4>6
    <3> QED BY <3>1, <3>2
  <2>8. Sums(h, m) BY <2>7
  <2> QED BY <2>3, <2>8
<1>3. Cardinality(S) + 1 \in Nat BY FS_CardinalityType
<1>4. PICK g : Sums(g, Cardinality(S) + 1)
  <2> HIDE DEF Sums
  <2> QED BY <1>2, <1>3
<1>5. \A s \in SUBSET S : s \in Small(Cardinality(S) + 1)
  <2>1. \A s \in SUBSET S : Cardinality(s) <= Cardinality(S) BY FS_Subset
  <2> QED BY <1>1, <1>3, <2>1
<1> QED BY <1>4, <1>5 DEF IsSum, Adds

LEMMA SumUnique ==
    ASSUME NEW entries, NEW S, IsFiniteSet(S), NEW f, NEW g, IsSum(g, entries, S),
           Adds(f, entries, S)
    PROVE  \A s \in SUBSET S : f[s] = g[s]
<1> DEFINE T == {s \in SUBSET S : f[s] # g[s]}
<1>1. ASSUME T # {} PROVE FALSE
  <2>1. T \in SUBSET (SUBSET S) OBVIOUS
  <2>2. PICK s \in T : \A x \in s : s \ {x} \notin T
    <3> HIDE DEF T
    <3> QED BY <1>1, <2>1, SmallestPart
  <2>3. s # {} BY <2>2 DEF IsSum, Adds
  <2>4. Pick(s) \in s BY <2>3, Picked
  <2>5. f[s \ {Pick(s)}] = g[s \ {Pick(s)}] BY <2>2, <2>4
  <2> QED BY <2>2, <2>3, <2>5 DEF IsSum, Adds
<1> QED BY <1>1

\* It does not matter which element is taken first.
LEMMA SumAnyOrder ==
    ASSUME NEW entries, NEW S, IsFiniteSet(S), NEW g, IsSum(g, entries, S),
           Debits(entries, S)
    PROVE  \A s \in SUBSET S : \A y \in s : g[s] = entries[y].debit + g[s \ {y}]
<1> DEFINE T == {s \in SUBSET S : \E y \in s : g[s] # entries[y].debit + g[s \ {y}]}
<1>1. ASSUME T # {} PROVE FALSE
  <2>1. T \in SUBSET (SUBSET S) OBVIOUS
  <2>2. PICK s \in T : \A x \in s : s \ {x} \notin T
    <3> HIDE DEF T
    <3> QED BY <1>1, <2>1, SmallestPart
  <2>3. PICK y \in s : g[s] # entries[y].debit + g[s \ {y}] BY <2>2
  <2> DEFINE x == Pick(s)
             r == (s \ {x}) \ {y}
  <2>4. x \in s BY <2>3, Picked
  <2>5. g[s] = entries[x].debit + g[s \ {x}] BY <2>3 DEF IsSum, Adds
  <2>6. x # y BY <2>3, <2>5
  <2>7. s \ {x} \notin T /\ s \ {y} \notin T BY <2>2, <2>4
  <2>8. g[s \ {x}] = entries[y].debit + g[r] BY <2>6, <2>7
  <2>9. g[s \ {y}] = entries[x].debit + g[(s \ {y}) \ {x}] BY <2>4, <2>6, <2>7
  <2>10. (s \ {y}) \ {x} = r OBVIOUS
  <2>11. entries[x].debit \in Nat /\ entries[y].debit \in Nat BY <2>4 DEF Debits
  <2>12. g[r] \in Nat BY DEF IsSum, Adds
  <2>13. g[s] = entries[y].debit + g[s \ {y}]
    <3> DEFINE a == g[s]
               b == g[s \ {x}]
               c == g[s \ {y}]
               d == g[r]
               u == entries[x].debit
               w == entries[y].debit
    <3>1. a = u + b /\ b = w + d /\ c = u + d
      BY <2>5, <2>8, <2>9, <2>10
    <3>2. u \in Nat /\ w \in Nat /\ d \in Nat BY <2>11, <2>12
    <3> HIDE DEF a, b, c, d, u, w
    <3>3. a = w + c BY <3>1, <3>2
    <3> QED BY <3>3 DEF a, c, w
  <2> QED BY <2>3, <2>13
<1> QED BY <1>1

LEMMA SumOverIs ==
    ASSUME NEW entries, NEW S, IsFiniteSet(S), NEW g, IsSum(g, entries, S)
    PROVE  SumOver(entries, S) = g[S]
<1> DEFINE P(f) == f = [s \in SUBSET S |->
                          IF s = {} THEN 0
                          ELSE entries[Pick(s)].debit + f[s \ {Pick(s)}]]
           iter == CHOOSE f : P(f)
           h == [s \in SUBSET S |-> g[s]]
<1>1. SumOver(entries, S) = iter[S]
  BY DEF SumOver, MapThenSumSet, MapThenFoldSet, Pick
<1>2. P(h)
  <2>1. \A s \in SUBSET S : h[s] = IF s = {} THEN 0
                                   ELSE entries[Pick(s)].debit + h[s \ {Pick(s)}]
    BY DEF IsSum, Adds
  <2> QED BY <2>1
<1>3. P(iter)
  <2> HIDE DEF P
  <2> QED BY <1>2
<1>4. Adds(iter, entries, S)
  <2> HIDE DEF iter
  <2> QED BY <1>3 DEF Adds
<1> HIDE DEF iter
<1>5. \A s \in SUBSET S : iter[s] = g[s] BY <1>4, SumUnique
<1> QED BY <1>1, <1>5

\* The entries of a stage.
Stage(entries, stage) == {i \in DOMAIN entries : entries[i].id.call.stage = stage}

LEMMA SumFacts ==
    ASSUME NEW entries \in Seq(EntryType), NEW S \in SUBSET DOMAIN entries
    PROVE  IsFiniteSet(S) /\ Debits(entries, S) /\ SumOver(entries, S) \in Nat
<1>1. IsFiniteSet(S)
  <2>1. DOMAIN entries = 1 .. Len(entries) /\ Len(entries) \in Nat
    OBVIOUS
  <2>2. IsFiniteSet(1 .. Len(entries))
    BY <2>1, FS_Interval
  <2>3. S \subseteq 1 .. Len(entries)
    OBVIOUS
  <2> QED BY <2>2, <2>3, FS_Subset
<1>2. Debits(entries, S)
  <2>1. \A i \in S : entries[i] \in EntryType
    OBVIOUS
  <2> QED BY <2>1 DEF Debits, EntryType
<1>3. PICK g : IsSum(g, entries, S)
  BY <1>1, <1>2, SumExists
<1>4. SumOver(entries, S) = g[S]
  BY <1>1, <1>3, SumOverIs
<1>5. g[S] \in Nat
  BY <1>3 DEF IsSum
<1> QED BY <1>1, <1>2, <1>4, <1>5

\* Only the debits that are added matter.
LEMMA SumSame ==
    ASSUME NEW old \in Seq(EntryType), NEW new, NEW S \in SUBSET DOMAIN old,
           \A i \in S : new[i].debit = old[i].debit
    PROVE  SumOver(new, S) = SumOver(old, S)
<1>1. IsFiniteSet(S) /\ Debits(old, S)
  BY SumFacts
<1>2. PICK g : IsSum(g, old, S)
  BY <1>1, SumExists
<1>3. \A s \in SUBSET S : s # {} => Pick(s) \in S
  BY Picked
<1>4. IsSum(g, new, S)
  BY <1>2, <1>3 DEF IsSum, Adds
<1> QED BY <1>1, <1>2, <1>4, SumOverIs

LEMMA SumAdds ==
    ASSUME NEW entries \in Seq(EntryType), NEW S \in SUBSET DOMAIN entries,
           NEW i \in DOMAIN entries, i \notin S
    PROVE  SumOver(entries, S \cup {i}) = SumOver(entries, S) + entries[i].debit
<1> DEFINE U == S \cup {i}
<1>1. U \in SUBSET DOMAIN entries
  OBVIOUS
<1>2. IsFiniteSet(U) /\ Debits(entries, U) /\ IsFiniteSet(S)
  BY <1>1, SumFacts
<1>3. PICK g : IsSum(g, entries, U)
  BY <1>2, SumExists
<1>4. IsSum(g, entries, S)
  BY <1>3 DEF IsSum, Adds
<1>5. SumOver(entries, U) = g[U] /\ SumOver(entries, S) = g[S]
  BY <1>2, <1>3, <1>4, SumOverIs
<1>6. U \ {i} = S
  OBVIOUS
<1>7. g[U] = entries[i].debit + g[U \ {i}]
  <2> HIDE DEF U
  <2>1. i \in U BY DEF U
  <2> QED BY <1>2, <1>3, <2>1, SumAnyOrder
<1>8. g[S] \in Nat /\ entries[i].debit \in Nat
  BY <1>2, <1>3 DEF IsSum, Debits
<1> HIDE DEF U
<1>9. g[U] = entries[i].debit + g[S]
  BY <1>6, <1>7
<1>10. SumOver(entries, U) = SumOver(entries, S) + entries[i].debit
  BY <1>5, <1>8, <1>9
<1> QED BY <1>10 DEF U

-----------------------------------------------------------------------------
(* The budgets.                                                            *)

Exceeds(budget, entries, stage) ==
    \/ SumOver(entries, Stage(entries, stage)) > budget.limit[stage]
    \/ SumOver(entries, DOMAIN entries) > budget.total

\* What BudgetKept says, of the entries of any ledger.
InBudget(budget, entries) ==
    \A i \in DOMAIN entries :
        /\ entries[i].status = "overspent" => i = Len(entries)
        /\ entries[i].status # "overspent" =>
              ~Exceeds(budget, SubSeq(entries, 1, i), entries[i].id.call.stage)

Budgets(budget) == budget.limit \in [{"author", "reviewer"} -> Nat] /\ budget.total \in Nat

\* The entry of a request that is not closed yet is the last one.
OwnLast(p) == pc[p] \in {"send", "close"} =>
    LET entries == ledger[p].entries
        n == Len(entries)
    IN  /\ n \in DOMAIN entries
        /\ entries[n].status = "reserved"
        /\ \A i \in DOMAIN entries : entries[i].id = request[p].id => i = n

\* Every snapshot was the ledger of a process, and a ledger is in budget.
BudgetInv == Capped =>
    /\ InBudget(plan, disk.entries)
    /\ \A p \in Procs : InBudget(plan, ledger[p].entries) /\ OwnLast(p)

LEMMA StageTyped ==
    ASSUME NEW e \in EntryType
    PROVE  e.id.call.stage \in {"author", "reviewer"} /\ e.debit \in Nat
  BY DEF EntryType, RequestIds, Calls

LEMMA Prefixes ==
    ASSUME NEW old \in Seq(EntryType), NEW new \in Seq(EntryType),
           NEW i \in DOMAIN old, i \in DOMAIN new,
           \A j \in 1..i : new[j] = old[j]
    PROVE  SubSeq(new, 1, i) = SubSeq(old, 1, i)
<1>1. i \in Nat /\ i >= 1 /\ i <= Len(old) /\ i <= Len(new)
  OBVIOUS
<1>2. /\ SubSeq(new, 1, i) = [j \in 1..i |-> new[j]]
      /\ SubSeq(old, 1, i) = [j \in 1..i |-> old[j]]
  BY <1>1
<1> QED BY <1>2

LEMMA WholePrefix ==
    ASSUME NEW entries \in Seq(EntryType)
    PROVE  SubSeq(entries, 1, Len(entries)) = entries
  OBVIOUS

LEMMA AddedSums ==
    ASSUME NEW old \in Seq(EntryType), NEW e \in EntryType
    PROVE  LET new == Append(old, e)
               stage == e.id.call.stage
           IN  /\ SumOver(new, Stage(new, stage)) = SumOver(old, Stage(old, stage)) + e.debit
               /\ SumOver(new, DOMAIN new) = SumOver(old, DOMAIN old) + e.debit
<1> DEFINE new == Append(old, e)
           stage == e.id.call.stage
           n == Len(old) + 1
<1>1. /\ new \in Seq(EntryType) /\ n \in DOMAIN new /\ new[n] = e
      /\ DOMAIN new = DOMAIN old \cup {n} /\ n \notin DOMAIN old
      /\ \A i \in DOMAIN old : new[i] = old[i]
  OBVIOUS
<1> HIDE DEF new, n
<1>2. Stage(new, stage) = Stage(old, stage) \cup {n}
  BY <1>1 DEF Stage
<1>3. ASSUME NEW S \in SUBSET DOMAIN old
      PROVE  SumOver(new, S \cup {n}) = SumOver(old, S) + e.debit
  <2>1. SumOver(new, S \cup {n}) = SumOver(new, S) + new[n].debit
    BY <1>1, SumAdds
  <2>2. SumOver(new, S) = SumOver(old, S)
    BY <1>1, SumSame
  <2> QED BY <1>1, <2>1, <2>2
<1>4. Stage(old, stage) \in SUBSET DOMAIN old
  BY DEF Stage
<1>5. /\ SumOver(new, Stage(new, stage)) = SumOver(old, Stage(old, stage)) + e.debit
      /\ SumOver(new, DOMAIN new) = SumOver(old, DOMAIN old) + e.debit
  BY <1>1, <1>2, <1>3, <1>4
<1> QED BY <1>5 DEF new

\* A reservation that fits.
LEMMA ReservedInBudget ==
    ASSUME NEW budget, NEW old \in Seq(EntryType), NEW e \in EntryType, Budgets(budget),
           InBudget(budget, old),
           \A x \in Items(old) : x.status # "overspent",
           SumOver(old, Stage(old, e.id.call.stage)) + e.debit <= budget.limit[e.id.call.stage],
           SumOver(old, DOMAIN old) + e.debit <= budget.total
    PROVE  InBudget(budget, Append(old, e))
<1> DEFINE new == Append(old, e)
           stage == e.id.call.stage
           n == Len(old) + 1
<1>1. /\ new \in Seq(EntryType) /\ Len(new) = n /\ new[n] = e /\ DOMAIN new = 1..n
      /\ DOMAIN new = DOMAIN old \cup {n} /\ DOMAIN old = 1..Len(old) /\ n \in Nat
      /\ \A i \in DOMAIN old : new[i] = old[i]
  OBVIOUS
<1>2. /\ SumOver(new, Stage(new, stage)) = SumOver(old, Stage(old, stage)) + e.debit
      /\ SumOver(new, DOMAIN new) = SumOver(old, DOMAIN old) + e.debit
  BY AddedSums
<1>3. stage \in {"author", "reviewer"} /\ budget.limit[stage] \in Nat /\ e.debit \in Nat
  BY StageTyped DEF Budgets
<1>4. Stage(old, stage) \in SUBSET DOMAIN old
  BY DEF Stage
<1>5. SumOver(old, Stage(old, stage)) \in Nat /\ SumOver(old, DOMAIN old) \in Nat
  BY <1>4, SumFacts
<1> HIDE DEF new, n
<1>6. ~Exceeds(budget, new, stage)
  <2>1. /\ SumOver(new, Stage(new, stage)) <= budget.limit[stage]
        /\ SumOver(new, DOMAIN new) <= budget.total
    BY <1>2
  <2>2. SumOver(new, Stage(new, stage)) \in Nat /\ SumOver(new, DOMAIN new) \in Nat
    BY <1>2, <1>3, <1>5
  <2> QED BY <1>3, <2>1, <2>2 DEF Exceeds, Budgets
<1>7. ASSUME NEW i \in DOMAIN new
      PROVE  /\ new[i].status = "overspent" => i = Len(new)
             /\ new[i].status # "overspent" =>
                   ~Exceeds(budget, SubSeq(new, 1, i), new[i].id.call.stage)
  <2>1. CASE i = n
    BY <1>1, <1>6, <2>1, WholePrefix
  <2>2. CASE i \in DOMAIN old
    <3>1. SubSeq(new, 1, i) = SubSeq(old, 1, i)
      <4>1. \A j \in 1..i : j \in DOMAIN old BY <1>1, <2>2
      <4> QED BY <1>1, <2>2, <4>1, Prefixes
    <3>2. old[i].status # "overspent"
      BY <2>2 DEF Items
    <3> QED BY <1>1, <2>2, <3>1, <3>2 DEF InBudget
  <2> QED BY <1>1, <2>1, <2>2
<1> QED BY <1>7 DEF InBudget, new

\* A last entry that is closed.
LEMMA ClosedInBudget ==
    ASSUME NEW budget, NEW old \in Seq(EntryType), NEW new \in Seq(EntryType),
           Len(old) \in DOMAIN old, Len(new) = Len(old),
           InBudget(budget, old),
           \A i \in DOMAIN old : i # Len(old) => new[i] = old[i],
           LET n == Len(old) IN
               \/ new[n].status = "overspent"
               \/ ~Exceeds(budget, new, new[n].id.call.stage)
    PROVE  InBudget(budget, new)
<1> DEFINE n == Len(old)
<1>1. /\ DOMAIN new = 1..n /\ DOMAIN old = 1..n /\ n \in Nat
  OBVIOUS
<1> HIDE DEF n
<1>2. ASSUME NEW i \in DOMAIN new
      PROVE  /\ new[i].status = "overspent" => i = Len(new)
             /\ new[i].status # "overspent" =>
                   ~Exceeds(budget, SubSeq(new, 1, i), new[i].id.call.stage)
  <2>1. CASE i = n
    BY <1>1, <2>1, WholePrefix DEF n
  <2>2. CASE i # n
    <3>1. i \in DOMAIN old /\ new[i] = old[i]
      BY <1>1, <2>2 DEF n
    <3>3. \A j \in 1..i : j \in DOMAIN old /\ j # n
      BY <1>1, <2>2
    <3>2. SubSeq(new, 1, i) = SubSeq(old, 1, i)
      BY <3>1, <3>3, Prefixes DEF n
    <3> QED BY <2>2, <3>1, <3>2 DEF InBudget, n
  <2> QED BY <2>1, <2>2
<1> QED BY <1>2 DEF InBudget

\* A step that neither reserves, sends nor closes keeps the entries of the
\* ledger, or takes those of a snapshot.
Calm(p) ==
    /\ pc'[p] \notin {"send", "close"}
    /\ ledger'[p].entries \in {ledger[p].entries, disk.entries, <<>>}

LEMMA MovesCalm ==
    ASSUME TypeOK, NEW p \in Procs, NEW s, NEW w, s \notin {"send", "close"}, Moves(p, s, w)
    PROVE  Calm(p)
  BY DEF Moves, Calm, ledgerVars, TypeOK, WorkTyped

LEMMA LeaveCalm ==
    ASSUME TypeOK, NEW p \in Procs, Leave(p)
    PROVE  Calm(p)
  BY DEF Leave, Forget, Goto, Calm, Empty, TypeOK, WorkTyped, LedgersTyped

LEMMA TakesCalm ==
    ASSUME TypeOK, NEW p \in Procs, NEW s, NEW w, NEW l, NEW q, NEW id,
           Takes(p, s, w, l, q, id),
           s \notin {"send", "close"}, l.entries \in {ledger[p].entries, disk.entries}
    PROVE  Calm(p)
  BY DEF Takes, Calm, TypeOK, WorkTyped, LedgersTyped

LEMMA StepCalm ==
    ASSUME TypeOK, NEW p \in Procs,
           Start(p) \/ NextBatch(p) \/ JournalCall(p) \/ Answer(p) \/ Resolve(p)
               \/ Project(p) \/ Finish(p) \/ Seal(p) \/ Overtaken(p) \/ Die(p)
    PROVE  Calm(p)
<1>1. CASE Start(p)
  <2>1. PICK w : StartMove(p, w)
    BY <1>1, StartMoves
  <2> QED BY <2>1, TakesCalm DEF StartMove
<1>2. CASE Die(p) \/ Seal(p)
  BY <1>2, LeaveCalm DEF Die, Seal
<1>3. CASE NextBatch(p)
  <2>1. \E s, w : s \notin {"send", "close"} /\ Moves(p, s, w)
    BY <1>3, NextBatchMoves DEF BatchMove
  <2> QED BY <2>1, MovesCalm
<1>4. CASE JournalCall(p)
  <2>1. PICK s, id : JournalMove(p, s, id)
    BY <1>4, JournalMoves
  <2>2. Takes(p, s, work[p], WithRecord(p), request[p], id) /\ s \in {"answered", "failed"}
    BY <2>1 DEF JournalMove
  <2>3. request[p].id \in RequestIds
    BY <1>4, JournalMoves, StepPlaces DEF TypeOK, Ready
  <2>4. WithRecord(p).entries = ledger[p].entries
    BY <2>3, WithRecordTyped
  <2> QED BY <2>2, <2>4, TakesCalm
<1>5. CASE Answer(p)
  <2>1. CASE Leave(p)
    BY <2>1, LeaveCalm
  <2>2. CASE \E s \in {"store", "reserve"} : \E w : Moves(p, s, w)
    BY <2>2, MovesCalm
  <2> QED BY <1>5, <2>1, <2>2, AnswerMoves
<1>6. CASE Resolve(p)
  <2>1. CASE Store(p) \/ StoreFallback(p)
    <3>1. \E s, w : s \notin {"send", "close"} /\ Moves(p, s, w)
      BY <2>1, StoredMoves, FallbackMoves DEF ResolveMove
    <3> QED BY <3>1, MovesCalm
  <2>2. CASE StoreClobbers(p) \/ Raise(p)
    BY <2>2, LeaveCalm DEF StoreClobbers, Raise
  <2>3. CASE Diagnose(p)
    <3>1. Moves(p, IF work[p].raises THEN "raise" ELSE "next", work[p])
      BY <2>3, Unmoved DEF Diagnose, Moves, Goto, KeepLedger
    <3>2. (IF work[p].raises THEN "raise" ELSE "next") \notin {"send", "close"}
      OBVIOUS
    <3> QED BY <3>1, <3>2, MovesCalm
  <2> QED BY <1>6, <2>1, <2>2, <2>3 DEF Resolve
<1>7. CASE Project(p) \/ Finish(p)
  <2>1. CASE Leave(p)
    BY <2>1, LeaveCalm
  <2>2. CASE \E s \in {"raise", "next", "seal"} : SaveMove(p, s)
    <3>1. PICK s \in {"raise", "next", "seal"} : SaveMove(p, s)
      BY <2>2
    <3> QED BY <3>1, TakesCalm DEF SaveMove
  <2> QED BY <1>7, <2>1, <2>2, ProjectMoves, FinishMoves
<1>8. CASE Overtaken(p)
  <2>1. CASE Leave(p)
    BY <2>1, LeaveCalm
  <2>2. CASE Moves(p, "failed", work[p])
    BY <2>2, MovesCalm
  <2> QED BY <1>8, <2>1, <2>2, OvertakenMoves
<1> QED BY <1>1, <1>2, <1>3, <1>4, <1>5, <1>6, <1>7, <1>8

LEMMA NoneInBudget == ASSUME NEW budget PROVE InBudget(budget, <<>>)
  BY DEF InBudget

LEMMA CalmInBudget ==
    ASSUME BudgetInv, Capped, NEW p \in Procs, Calm(p)
    PROVE  InBudget(plan, ledger'[p].entries) /\ OwnLast(p)'
<1>1. InBudget(plan, ledger[p].entries) /\ InBudget(plan, disk.entries)
  BY DEF BudgetInv
<1> QED BY <1>1, NoneInBudget DEF Calm, OwnLast

LEMMA PlanBudgets == ASSUME TypeOK PROVE Budgets(plan)
  BY LedgerAssumption DEF TypeOK, LedgersTyped, Budgets

\* A reservation is made only when it fits, and is the last entry then.
LEMMA ReserveInBudget ==
    ASSUME TypeOK, BudgetInv, Capped, NEW p \in Procs, ReserveCall(p)
    PROVE  InBudget(plan, ledger'[p].entries) /\ OwnLast(p)'
<1>1. PICK s, l, id : ReserveMove(p, s, l, id)
  BY ReserveMoves
<1>2. /\ pc'[p] = s /\ ledger'[p] = l /\ request'[p].id = id
      /\ id \in RequestIds /\ id = NewId(p, CallOf(p)) /\ id.call = CallOf(p)
      /\ s \in {"send", "failed"}
  BY <1>1 DEF ReserveMove, Takes, TypeOK, LedgersTyped, WorkTyped
<1>3. InBudget(plan, ledger[p].entries)
  BY DEF BudgetInv
<1>4. CASE l = ledger[p]
  <2>1. s = "failed"
    BY <1>1, <1>4, WithEntryTyped DEF ReserveMove
  <2> QED BY <1>2, <1>3, <1>4, <2>1 DEF OwnLast
<1>5. CASE l # ledger[p]
  <2> DEFINE old == ledger[p].entries
             e == Reserved(id)
             stage == id.call.stage
  <2>1. l = WithEntry(p, id)
    BY <1>1, <1>5 DEF ReserveMove
  <2>2. /\ id \notin Ids(old)
        /\ Fits(old, stage, Worst[stage])
    <3>1. ledger' = ledger \/ (/\ id \notin Ids(old)
                               /\ Fits(old, stage, Worst[stage]))
      BY <1>2 DEF ReserveCall, Reserve
    <3> QED BY <1>2, <1>5, <3>1
  <2>3. /\ old \in Seq(EntryType) /\ e \in EntryType /\ l.entries = Append(old, e)
        /\ e.id = id /\ e.debit = Worst[stage] /\ e.status = "reserved"
    BY <1>2, <2>1, WithEntryTyped, ReservedTyped, RequestTyped DEF LedgerType, Reserved
  <2>4. /\ \A x \in Items(old) : x.status # "overspent"
        /\ SumOver(old, Stage(old, e.id.call.stage)) + e.debit <= plan.limit[e.id.call.stage]
        /\ SumOver(old, DOMAIN old) + e.debit <= plan.total
    BY <2>2, <2>3 DEF Fits, Spent, SpentAll, Stage, Limit, Total
  <2> HIDE DEF old, e, stage
  <2>5. InBudget(plan, l.entries)
    BY <1>3, <2>3, <2>4, PlanBudgets, ReservedInBudget DEF old
  <2>6. LET n == Len(l.entries)
        IN  /\ n \in DOMAIN l.entries
            /\ l.entries[n].status = "reserved"
            /\ \A i \in DOMAIN l.entries : l.entries[i].id = id => i = n
    <3>1. \A i \in DOMAIN old : old[i].id # id
      BY <2>2 DEF Ids
    <3> QED BY <2>3, <3>1
  <2> QED BY <1>2, <2>5, <2>6 DEF OwnLast
<1> QED BY <1>4, <1>5

LEMMA SendInBudget ==
    ASSUME TypeOK, BudgetInv, Capped, NEW p \in Procs, Send(p)
    PROVE  InBudget(plan, ledger'[p].entries) /\ OwnLast(p)'
<1>1. PICK reply : SendMove(p, reply)
  BY SendMoves
<1>2. pc[p] = "send" /\ ledger'[p] = ledger[p] /\ request'[p].id = request[p].id
  BY <1>1 DEF SendMove, Takes, Send, TypeOK, LedgersTyped
<1> QED BY <1>2 DEF BudgetInv, OwnLast

\* Closing changes the last entry: it keeps its debit, or is looked at with its
\* new one and is marked overspent.
LEMMA CloseInBudget ==
    ASSUME TypeOK, BudgetInv, Capped, NEW p \in Procs, CloseCall(p)
    PROVE  InBudget(plan, ledger'[p].entries) /\ OwnLast(p)'
<1>1. PICK s : pc[p] = "close" /\ CloseMove(p, s)
  BY CloseMoves
<1>2. pc'[p] \in {"journal", "failed"} /\ ledger'[p] = WithClosed(p)
  BY <1>1 DEF CloseMove, Takes, TypeOK, LedgersTyped, WorkTyped
<1> DEFINE old == ledger[p].entries
           new == WithClosed(p).entries
           reply == request[p].reply
           n == Len(old)
<1>3. InBudget(plan, old)
  BY DEF BudgetInv
<1>4. /\ EntryUnderWay(p) \in DOMAIN old /\ old[EntryUnderWay(p)].id = request[p].id
      /\ old \in Seq(EntryType) /\ reply \in ReplyType
      /\ ClosedLegally(old, EntryUnderWay(p), reply, new)
  BY <1>1, WithClosedTyped
<1>5. n \in DOMAIN old /\ EntryUnderWay(p) = n /\ old[n].status = "reserved"
  BY <1>1, <1>4 DEF BudgetInv, OwnLast
<1>6. new = Closed(old, request[p].id, reply) /\ EntryOf(old, request[p].id) = n
  BY <1>5, RequestTyped DEF WithClosed, EntryUnderWay, LedgerType
<1>7. /\ new \in Seq(EntryType) /\ Len(new) = Len(old)
      /\ \A i \in DOMAIN old : i # Len(old) => new[i] = old[i]
      /\ new[n].id = old[n].id
  BY <1>4, <1>5 DEF ClosedLegally
<1> HIDE DEF old, new, reply
<1>8. \/ new[n].status = "overspent"
      \/ ~Exceeds(plan, new, new[n].id.call.stage)
  <2>1. ASSUME new[n].debit = old[n].debit PROVE ~Exceeds(plan, new, new[n].id.call.stage)
    <3> DEFINE stage == old[n].id.call.stage
    <3>1. ~Exceeds(plan, old, stage)
      <4>1. SubSeq(old, 1, n) = old
        BY <1>4, WholePrefix
      <4> QED BY <1>3, <1>5, <4>1 DEF InBudget
    <3>2. \A i \in DOMAIN old : new[i].debit = old[i].debit /\ new[i].id = old[i].id
      BY <1>5, <1>7, <2>1
    <3>3. DOMAIN new = DOMAIN old
      BY <1>4, <1>7
    <3>4. Stage(new, stage) = Stage(old, stage) /\ Stage(old, stage) \in SUBSET DOMAIN old
      BY <3>2, <3>3 DEF Stage
    <3>5. SumOver(new, Stage(new, stage)) = SumOver(old, Stage(old, stage))
          /\ SumOver(new, DOMAIN new) = SumOver(old, DOMAIN old)
      BY <1>4, <3>2, <3>3, <3>4, SumSame
    <3> QED BY <1>7, <3>1, <3>5 DEF Exceeds
  <2>2. CASE reply.kind = "invalid"
    BY <1>6, <2>1, <2>2 DEF Closed
  <2>3. CASE reply.kind = "lost"
    <3>1. new = [old EXCEPT ![n].status = "uncertain"]
      BY <1>6, <2>3 DEF Closed
    <3>2. new[n].debit = old[n].debit
      <4>1. old[n] \in EntryType
        BY <1>4, <1>5
      <4> HIDE DEF n
      <4>2. new[n] = [old[n] EXCEPT !.status = "uncertain"]
        BY <1>4, <1>5, <3>1
      <4> QED BY <4>1, <4>2 DEF EntryType
    <3> QED BY <2>1, <3>2
  <2>4. CASE reply.kind \notin {"invalid", "lost"}
    <3> DEFINE settled == Settled(old, n, reply)
               stage == request[p].id.call.stage
    <3>1. settled \in Seq(EntryType) /\ n \in DOMAIN settled
      BY <1>4, <1>5, SettledFacts
    <3>2. CASE Over(settled, stage)
      <4>1. new = [settled EXCEPT ![n].status = "overspent"]
        BY <1>6, <2>4, <3>2 DEF Closed
      <4>2. settled[n] \in EntryType
        BY <3>1
      <4>3. new[n].status = "overspent"
        <5> HIDE DEF settled
        <5> QED BY <3>1, <4>1, <4>2 DEF EntryType
      <4> QED BY <4>3
    <3>3. CASE ~Over(settled, stage)
      <4>1. new = settled
        BY <1>6, <2>4, <3>3 DEF Closed
      <4>2. new[n].id.call.stage = stage
        BY <1>4, <1>5, <1>7
      <4> QED BY <3>3, <4>1, <4>2 DEF Over, Exceeds, Spent, SpentAll, Stage, Limit, Total
    <3> QED BY <3>2, <3>3
  <2> QED BY <2>2, <2>3, <2>4
<1>9. InBudget(plan, new)
  BY <1>3, <1>4, <1>5, <1>7, <1>8, ClosedInBudget
<1> QED BY <1>2, <1>9 DEF new, OwnLast

LEMMA BudgetStep ==
    ASSUME TypeOK, BudgetInv, NEW p \in Procs, Start(p) \/ Step(p) \/ Overtaken(p) \/ Die(p)
    PROVE  BudgetInv'
<1>1. UNCHANGED plan
  BY PlanKept
<1> SUFFICES ASSUME Capped
             PROVE  /\ InBudget(plan, disk'.entries)
                    /\ \A q \in Procs : InBudget(plan, ledger'[q].entries) /\ OwnLast(q)'
  BY <1>1 DEF BudgetInv, Capped
<1>2. InBudget(plan, ledger'[p].entries) /\ OwnLast(p)'
  BY StepCalm, CalmInBudget, ReserveInBudget, SendInBudget, CloseInBudget DEF Step, Request
<1>3. PICK s, l : Effect(p, s, l)
  BY StepEffect
<1>4. /\ ledger'[p] = l
      /\ \A q \in Procs \ {p} :
            pc'[q] = pc[q] /\ ledger'[q] = ledger[q] /\ request'[q] = request[q]
  BY <1>3 DEF Effect, TypeOK, WorkTyped, LedgersTyped
<1>5. disk' \in {disk, l}
  BY <1>3 DEF Effect, Write
<1>6. \A q \in Procs \ {p} : InBudget(plan, ledger'[q].entries) /\ OwnLast(q)'
  BY <1>4 DEF BudgetInv, OwnLast
<1>7. InBudget(plan, disk'.entries)
  BY <1>2, <1>4, <1>5 DEF BudgetInv
<1> QED BY <1>2, <1>6, <1>7

\* Under the hard-cap policy all of a ledger but an overspent last entry is within
\* the stage's and the total budget, in every snapshot, with any number of
\* processes, deaths and unaccepted costs.
THEOREM BudgetKeptHolds == Spec => []BudgetKept
<1>1. Init => BudgetInv
  <2> SUFFICES ASSUME Init PROVE BudgetInv
    OBVIOUS
  <2>1. disk = Empty /\ ledger = [p \in Procs |-> Empty] /\ pc = [p \in Procs |-> "off"]
    BY DEF Init, LedgerInit
  <2> QED BY <2>1, NoneInBudget DEF BudgetInv, OwnLast, Empty
<1>2. TypeOK /\ BudgetInv /\ [Next]_vars => BudgetInv'
  <2> SUFFICES ASSUME TypeOK, BudgetInv, [Next]_vars PROVE BudgetInv'
    OBVIOUS
  <2>1. CASE Next
    BY <2>1, BudgetStep DEF Next
  <2>2. CASE UNCHANGED vars
    BY <2>2 DEF vars, ledgerVars, BudgetInv, OwnLast, Capped
  <2> QED BY <2>1, <2>2
<1>3. BudgetInv => BudgetKept
  BY DEF BudgetInv, BudgetKept, InBudget, Exceeds, Over, Spent, SpentAll, Stage, Limit, Total
<1> QED BY <1>1, <1>2, <1>3, TypeCorrect, PTL DEF Spec
=============================================================================
