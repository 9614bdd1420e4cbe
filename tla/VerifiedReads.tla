--------------------------- MODULE VerifiedReads ---------------------------
(***************************************************************************)
(* verified_bytes.py: one reader of a calibration, of a training capsule   *)
(* or of a reviewed snapshot, while others change the directory.  It       *)
(* looks at each file before and after reading it part by part, at the     *)
(* name again, and for a directory at the set of names before and after.   *)
(***************************************************************************)
EXTENDS StoredFiles

CONSTANTS
    Reviewed    \* the version that the package's registry names

VARIABLES
    plan,       \* what is read: its kind, names, mode and parent directory
    step,       \* the reader's next step
    file,       \* its open file
    before,     \* what fstat said of it first
    bytes,      \* the parts read of it
    values,     \* the contents of the files read so far
    verdict     \* "pending", "returned", "refused" or "lost"

readVars == <<plan, step, file, before, bytes, values, verdict>>

InitReader ==
    /\ step = "idle"
    /\ file = Nothing
    /\ before = Nothing
    /\ bytes = <<>>
    /\ values = <<>>
    /\ verdict = "pending"

-----------------------------------------------------------------------------

Listed == plan.kind \in {"capsule", "snapshot"}

\* _open_calibration_directory takes a parent that others can read and enter,
\* _open_directory only a private one.  Neither follows a link on the way.
OpensDirectory ==
    \/ plan.parent = "private"
    \/ plan.parent = "readable" /\ plan.kind = "calibration"

\* The modes that the two leaf readers take.
AllowsMode ==
    \/ plan.mode = "0600"
    \/ plan.mode = "0644" /\ plan.kind = "calibration"

\* _entry_names against the names of the ledger.
NamesMatch ==
    {n \in Names : dir[n] # Nothing} = {plan.names[k] : k \in DOMAIN plan.names}

Name == plan.names[Len(values) + 1]

\* What _stat_identity compares.
Identity(i) ==
    [inode |-> i, size |-> Len(data[i]), links |-> Links(i), stamp |-> stamp[i]]

Whole(content, version) == content = [k \in 1..Size |-> version]

Advance(next) ==
    /\ step' = next
    /\ UNCHANGED <<plan, file, before, bytes, values, verdict>>

Refuse ==
    /\ step' = "end"
    /\ verdict' = "refused"
    /\ UNCHANGED <<plan, file, before, bytes, values>>

\* Walk to the directory.
Begin ==
    /\ step = "idle"
    /\ \/ OpensDirectory /\ Advance(IF Listed THEN "list" ELSE "open")
       \/ ~OpensDirectory /\ Refuse

List ==
    /\ step = "list"
    /\ IF NamesMatch THEN Advance("open") ELSE Refuse

Open ==
    /\ step = "open"
    /\ \/ /\ dir[Name] # Nothing
          /\ step' = "fstat"
          /\ file' = dir[Name]
          /\ UNCHANGED <<plan, before, bytes, values, verdict>>
       \/ dir[Name] = Nothing /\ Refuse

\* fstat before reading; what the file held is kept for the properties only.
Examine ==
    /\ step = "fstat"
    /\ before' = [id |-> Identity(file), tick |-> tick, held |-> data[file]]
    /\ IF AllowsMode /\ Links(file) = 1 /\ Len(data[file]) <= Size
         THEN step' = "read" /\ UNCHANGED verdict
         ELSE step' = "end" /\ verdict' = "refused"
    /\ bytes' = <<>>
    /\ UNCHANGED <<plan, file, values>>

\* One read, until there is nothing left or the limit is exceeded.
Read ==
    /\ step = "read"
    /\ LET k == Len(bytes) + 1 IN
       IF k > Len(data[file]) THEN Advance("compare")
       ELSE IF k > Size THEN Refuse
       ELSE /\ bytes' = Append(bytes, data[file][k])
            /\ UNCHANGED <<plan, step, file, before, values, verdict>>

\* A snapshot's files are those of the registry, byte by byte.
InLedger == plan.kind = "snapshot" => Whole(bytes, Reviewed)

\* Mutant: only the size is compared after the reads.
ComparesSize ==
    /\ Len(bytes) = before.id.size
    /\ InLedger

\* fstat after reading, stat of the name, and the digest where there is one.
Compares ==
    /\ Identity(file) = before.id
    /\ dir[Name] = file
    /\ Len(bytes) = before.id.size
    /\ InLedger

Compare ==
    /\ step = "compare"
    /\ \/ /\ Compares
          /\ values' = Append(values, bytes)
          /\ step' = IF Len(values') < Len(plan.names) THEN "open"
                     ELSE IF Listed THEN "relist" ELSE "conclude"
          /\ UNCHANGED <<plan, file, before, bytes, verdict>>
       \/ ~Compares /\ Refuse

Relist ==
    /\ step = "relist"
    /\ IF NamesMatch THEN Advance("conclude") ELSE Refuse

\* Mutant: the checkpoint is not compared with the manifest's digest.
BindsAnything ==
    plan.kind \in {"pair", "capsule"} =>
      \E v \in Versions : Whole(values[1], v)

\* A manifest that is whole and the checkpoint whose digest it names.
Binds ==
    plan.kind \in {"pair", "capsule"} =>
      \E v \in Versions : Whole(values[1], v) /\ Whole(values[2], v)

Conclude ==
    /\ step = "conclude"
    /\ \/ /\ Binds
          /\ step' = "end"
          /\ verdict' = "returned"
          /\ UNCHANGED <<plan, file, before, bytes, values>>
       \/ ~Binds /\ Refuse

ReaderStep ==
    \/ Begin \/ List \/ Open \/ Examine \/ Read \/ Compare \/ Relist \/ Conclude

\* The machine stops.
LoseReader ==
    /\ step' = "end"
    /\ verdict' = IF verdict = "pending" THEN "lost" ELSE verdict
    /\ UNCHANGED <<plan, file, before, bytes, values>>
=============================================================================
