-------------------------- MODULE CalibrationStore --------------------------
(***************************************************************************)
(* The writers of AtomicPublication and the reader of VerifiedReads over   *)
(* one directory, with an operator who edits, replaces, removes and adds   *)
(* files while they are read, killed writers and power losses.             *)
(***************************************************************************)
EXTENDS AtomicPublication, VerifiedReads

CONSTANTS
    First, Second,  \* two files that are there from the start, of version Old
    Old, New,       \* the versions of the operator's files
    Stray,          \* the name of a file that nobody expects
    Spare,          \* the files that the operator brings
    Drafts,         \* what the operator writes into a file
    Plans,          \* the scenarios: what is read, and what happens meanwhile
    MaxTick

ASSUME StoreAssumption ==
    /\ IsFiniteSet(Names)
    /\ {First, Second, Stray} \subseteq Names \ (Writers \cup {Target})
    /\ {First, Second} \cup Spare \subseteq Inodes \ Writers
    /\ {Old, New, Reviewed} \subseteq Versions \ Writers
    /\ Drafts \subseteq Seq(Versions)

\* Which files each kind of reader is asked for; nobody but the writers
\* touches a published calibration, and they create it with mode 0600.
ASSUME PlansAssumption ==
    \A p \in Plans :
      /\ p.present \subseteq {First, Second} /\ p.writers \subseteq Writers
      /\ p.names \in Seq(Names) /\ Len(p.names) > 0
      /\ p.kind \in {"calibration", "pair", "capsule", "snapshot"}
      /\ p.kind \in {"pair", "capsule"} => Len(p.names) = 2
      /\ p.names = <<Target>> => p.kind = "calibration" /\ p.mode = "0600"

VARIABLES
    edits,      \* the operator's changes so far
    outages     \* the power losses so far

storeVars == <<fileVars, writerVars, readVars, edits, outages>>

\* The files of version Old are there unless the plan is about publication.
Init ==
    /\ plan \in Plans
    /\ InitWriters
    /\ InitReader
    /\ dir = [n \in Names |->
                IF n \in {First, Second} /\ n \in plan.present
                THEN n ELSE Nothing]
    /\ disk = dir
    /\ data = [i \in Inodes |->
                 IF i \in plan.present THEN [k \in 1..Size |-> Old] ELSE <<>>]
    /\ synced = [i \in Inodes |-> Len(data[i])]
    /\ stamp = [i \in Inodes |-> 0]
    /\ tick = 0
    /\ edits = 0
    /\ outages = 0

-----------------------------------------------------------------------------

\* The operator writes into a file in place.
Rewrite(n) ==
    /\ dir[n] # Nothing
    /\ \E content \in Drafts : data' = [data EXCEPT ![dir[n]] = content]
    /\ Touch({dir[n]})
    /\ UNCHANGED <<dir, disk, synced, tick>>

\* The operator renames a finished file to a name, taken or not.
Replace(n) ==
    \E i \in Spare :
      /\ data[i] = <<>>
      /\ data' = [data EXCEPT ![i] = [k \in 1..Size |-> New]]
      /\ dir' = [dir EXCEPT ![n] = i]
      /\ Touch({dir[n], i})
      /\ UNCHANGED <<disk, synced, tick>>

Remove(n) == dir[n] # Nothing /\ Bind(n, Nothing)

Operator ==
    /\ edits < plan.edits
    /\ edits' = edits + 1
    /\ \/ \E n \in plan.present : Rewrite(n) \/ Replace(n) \/ Remove(n)
       \/ Replace(Stray)
    /\ UNCHANGED <<writerVars, readVars, outages>>

Publication ==
    /\ \/ \E w \in plan.writers : WriterStep(w)
       \/ \E w \in plan.writers : Kill(w)
    /\ UNCHANGED <<readVars, edits, outages>>

Reading == ReaderStep /\ UNCHANGED <<fileVars, writerVars, edits, outages>>

Outage ==
    /\ outages < plan.losses
    /\ outages' = outages + 1
    /\ PowerLoss
    /\ LoseReader
    /\ UNCHANGED edits

Clock ==
    /\ tick < MaxTick
    /\ Tick
    /\ UNCHANGED <<writerVars, readVars, edits, outages>>

Next == Publication \/ Reading \/ Operator \/ Outage \/ Clock

Spec == Init /\ [][Next]_storeVars

-----------------------------------------------------------------------------

\* What is kept of a file is what it held when it was looked at first, and is
\* under its name when it is looked at last, unless it was changed again in
\* the very tick of its last change (_read_regular_at,
\* _read_calibration_regular_at).
ReadsWhatIsThere ==
    [][ (Len(values') > Len(values) /\ before.id.stamp < before.tick) =>
          /\ bytes = before.held
          /\ dir[Name] # Nothing /\ bytes = data[dir[Name]]
      ]_storeVars

\* What a reader returns is of one version: a published calibration is that of
\* one writer, a manifest comes with the checkpoint of its version, and a
\* snapshot is the reviewed one, however the directory changes meanwhile
\* (load_calibration_envelope, load_verified_minilm_bytes, _read_snapshot).
ReturnedIsOneVersion ==
    (verdict = "returned" /\ (plan.names = <<Target>> \/ plan.kind # "calibration")) =>
      /\ \E v \in Versions : \A k \in DOMAIN values : Whole(values[k], v)
      /\ plan.kind = "snapshot" => values[1][1] = Reviewed

\* A published calibration that nobody edits is refused only while its writer,
\* or one that died there, still holds its temporary name (the st_nlink of
\* _read_calibration_regular_at against the order of os.link and unlink).
RefusedOnlyUnfinished ==
    ( /\ plan.names = <<Target>>
      /\ verdict = "refused"
      /\ OpensDirectory /\ file # Nothing ) => before.id.links > 1
=============================================================================
