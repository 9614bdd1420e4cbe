-------------------------- MODULE RemoteRunProofs --------------------------
(***************************************************************************)
(* Theorems about RemoteRun: a seal lasts and its result is honest, for    *)
(* any number of runs, seals, outputs, requests and faults.                *)
(***************************************************************************)
EXTENDS RemoteRun, FiniteSetTheorems, TLAPS

Phases == {"idle", "ended", "look", "link", "unlink", "claim", "again", "take",
           "cleanup", "rmdir", "reserve", "send", "await", "fail", "clear",
           "rows", "bytes", "validate"}

\* A process that has read the rows it seals.
Past(p) ==
    \/ phase[p] \in {"bytes", "validate"}
    \/ phase[p] \in Publishing /\ file[p] # "journal"

\* No run may still write into the journal of this output, or remove it.
Untouched(o) == \A r \in Runs : GoesOn(r) => at[r] # o

\* The types of the variables that the seal depends on.
Types ==
    /\ claimed \in BOOLEAN
    /\ {made, owned, sealed, premature, spoiled} \subseteq SUBSET Outputs
    /\ phase \in [Processes -> Phases]
    /\ at \in [Processes -> Outputs \cup {Absent}]
    /\ file \in [Processes -> Names]
    /\ DOMAIN files = Outputs
    /\ \A o \in Outputs : DOMAIN files[o] = Names
    /\ temps \in [Outputs -> SUBSET (Names \X Processes)]
    /\ faults \in 0..MaxFaults

\* The step of a process, its output and its file.
Control ==
    \A p \in Processes :
        /\ at[p] = Absent <=> phase[p] \in {"idle", "ended"}
        /\ phase[p] \notin Publishing \cup {"validate"} => file[p] = "journal"
        /\ p \in Sealers => phase[p] \in {"idle", "clear", "rows"} \/ Past(p)

\* What is in a directory has the directory.
Directories ==
    \A o \in Outputs \ made : files[o] = NoFiles /\ temps[o] = {}

\* A run that goes on has a directory of its own.
Alone ==
    \A r \in Runs :
        GoesOn(r) =>
            /\ at[r] \in made
            /\ \A q \in Runs \ {r} : GoesOn(q) => at[q] # at[r]

\* Nobody changes what is being sealed, unless it was read while a run went on.
Reading ==
    \A p \in Processes :
        Past(p) /\ at[p] \notin premature =>
            at[p] \in made /\ Untouched(at[p])

\* Nor what was sealed.
Lasting == \A o \in sealed \ premature : Validates(o) /\ Untouched(o)

Seals == Types /\ Control /\ Directories /\ Alone /\ Reading /\ Lasting

-----------------------------------------------------------------------------
(* Frames *)

LEMMA InitSeals == Init => Seals
<1> SUFFICES ASSUME Init PROVE Seals
  OBVIOUS
<1>1. \A p \in Processes : phase[p] = "idle" /\ at[p] = Absent
                             /\ file[p] = "journal"
  BY DEF Init
<1>2. Types
  <2>1. claimed \in BOOLEAN
    BY DEF Init
  <2>6. faults \in 0..MaxFaults
    BY RemoteAssumption DEF Init
  <2>2. {made, owned, sealed, premature, spoiled} \subseteq SUBSET Outputs
    BY DEF Init
  <2>3. /\ phase \in [Processes -> Phases]
        /\ at \in [Processes -> Outputs \cup {Absent}]
        /\ file \in [Processes -> Names]
    BY DEF Init, Phases, Names
  <2>4. /\ DOMAIN files = Outputs
        /\ \A o \in Outputs : DOMAIN files[o] = Names
    BY DEF Init, NoFiles
  <2>5. temps \in [Outputs -> SUBSET (Names \X Processes)]
    BY DEF Init
  <2>. QED  BY <2>1, <2>2, <2>3, <2>4, <2>5, <2>6 DEF Types
<1>3. Control
  BY <1>1 DEF Control
<1>4. Directories
  BY DEF Init, Directories
<1>5. Alone /\ Reading /\ Lasting
  BY <1>1 DEF Init, Alone, Reading, Lasting, GoesOn, Past, Publishing, Processes
<1>. QED  BY <1>2, <1>3, <1>4, <1>5 DEF Seals

\* What a step does to the process that takes it and to the others.
Own(p) ==
    /\ \A q \in Processes \ {p} :
         /\ phase'[q] = phase[q] /\ at'[q] = at[q] /\ file'[q] = file[q]
    /\ phase' \in [Processes -> Phases]
    /\ at' \in [Processes -> Outputs \cup {Absent}]
    /\ file' \in [Processes -> Names]
    /\ at'[p] = Absent <=> phase'[p] \in {"idle", "ended"}
    /\ phase'[p] \notin Publishing \cup {"validate"} => file'[p] = "journal"
    /\ p \in Sealers => phase'[p] \in {"idle", "clear", "rows"} \/ Past(p)'

\* It takes no output, and has read no rows that it had not.
Stays(p) ==
    /\ p \in Runs /\ GoesOn(p)' => GoesOn(p) /\ at'[p] = at[p]
    /\ Past(p)' => Past(p) /\ at'[p] = at[p]

\* It writes where a run goes on, or a file that was not there.
Writes(p) ==
    /\ DOMAIN files' = Outputs
    /\ \A o \in Outputs :
        /\ DOMAIN files'[o] = Names
        /\ \/ files'[o] = files[o]
           \/ p \in Runs /\ GoesOn(p) /\ at[p] = o
           \/ o \in made /\ \E n \in Names : files[o][n] = Absent
    /\ temps' \in [Outputs -> SUBSET (Names \X Processes)]
    /\ \A o \in Outputs \ made : temps'[o] = {}
    /\ claimed' \in BOOLEAN /\ (claimed => claimed')

LEMMA Frame ==
    ASSUME Seals, NEW p \in Processes, Own(p), Stays(p), Writes(p),
           made' = made, sealed' = sealed, premature' = premature,
           owned' \in SUBSET Outputs, spoiled' \in SUBSET Outputs,
           faults' \in 0..MaxFaults
    PROVE  Seals'
<1>1. Types'
  BY DEF Seals, Types, Own, Writes
<1>2. Control'
  BY DEF Seals, Control, Own, Past
<1>3. \A r \in Runs : GoesOn(r)' => GoesOn(r) /\ at'[r] = at[r]
  BY DEF Own, Stays, GoesOn, Processes
<1>4. \A q \in Processes : Past(q)' => Past(q) /\ at'[q] = at[q]
  BY DEF Own, Stays, Past
<1>5. Directories'
  BY DEF Seals, Directories, Writes, Alone
<1>6. Alone'
  BY <1>3 DEF Seals, Alone
<1>7. Reading'
  BY <1>3, <1>4 DEF Seals, Reading, Untouched
<1>8. Lasting'
  <2> SUFFICES ASSUME NEW o \in sealed \ premature
               PROVE  Validates(o)' /\ Untouched(o)'
    BY DEF Lasting
  <2>1. Validates(o) /\ Untouched(o) /\ o \in Outputs
    BY DEF Seals, Lasting, Types
  <2>2. files'[o] = files[o]
    BY <2>1 DEF Writes, Untouched, Validates
  <2>3. Validates(o)'
    BY <2>1, <2>2 DEF Writes, Validates, Journal
  <2>. QED  BY <1>3, <2>1, <2>3 DEF Untouched
<1>. QED  BY <1>1, <1>2, <1>5, <1>6, <1>7, <1>8 DEF Seals

-----------------------------------------------------------------------------
(* Publication *)

\* The end of a command.
LEMMA EndsOwn ==
    ASSUME Seals, NEW p \in Processes, Ends(p)
    PROVE  Own(p) /\ Stays(p)
<1>1. phase'[p] \in {"idle", "ended"} /\ at'[p] = Absent /\ file'[p] = "journal"
  BY DEF Seals, Types, Ends, GoesTo
<1>2. p \in Sealers => phase'[p] = "idle"
  BY RemoteAssumption DEF Seals, Types, Ends, GoesTo
<1>3. Own(p)
  BY <1>1, <1>2, RemoteAssumption
  DEF Seals, Types, Ends, GoesTo, Own, Phases, Names, Publishing
<1>4. ~GoesOn(p)' /\ ~Past(p)'
  BY <1>1 DEF GoesOn, Past, Publishing
<1>. QED  BY <1>3, <1>4 DEF Stays

\* The next step of one that goes on.
LEMMA GoesOwn ==
    ASSUME Seals, NEW p \in Processes, NEW step \in Phases \ {"idle", "ended"},
           GoesTo(p, step), at' = at, at[p] # Absent,
           file' \in [Processes -> Names],
           \A q \in Processes \ {p} : file'[q] = file[q],
           step \notin Publishing \cup {"validate"} => file'[p] = "journal",
           p \in Sealers =>
               \/ step \in {"clear", "rows", "bytes", "validate"}
               \/ step \in Publishing /\ file'[p] # "journal"
    PROVE  Own(p) /\ phase'[p] = step
BY DEF Seals, Types, GoesTo, Own, Past

\* The step after a publication.
LEMMA PublishedOwn ==
    ASSUME Seals, NEW p \in Processes, Published(p), phase[p] \in Publishing
    PROVE  Own(p) /\ Stays(p)
<1>1. at[p] # Absent /\ (p \in Sealers => file[p] # "journal")
  BY DEF Seals, Control, Publishing, Past
<1>2. CASE file[p] = "journal"
  <2>1. GoesTo(p, "claim") /\ file' = [file EXCEPT ![p] = file[p]]
    BY <1>2 DEF Published, NextFile
  <2>2. file' \in [Processes -> Names] /\ file'[p] = "journal"
        /\ \A q \in Processes \ {p} : file'[q] = file[q]
    BY <2>1, <1>2 DEF Seals, Types
  <2>3. Own(p) /\ phase'[p] = "claim"
    BY <1>1, <1>2, <2>1, <2>2, GoesOwn DEF Published, Phases
  <2>. QED  BY <1>2, <2>3 DEF Stays, GoesOn, Past, Publishing, Published
<1>3. CASE file[p] = "manifest"
  <2>1. GoesTo(p, "validate") /\ file' = [file EXCEPT ![p] = file[p]]
    BY <1>3 DEF Published, NextFile
  <2>2. file' \in [Processes -> Names] /\ file'[p] = "manifest"
        /\ \A q \in Processes \ {p} : file'[q] = file[q]
    BY <2>1, <1>3 DEF Seals, Types
  <2>3. Own(p) /\ phase'[p] = "validate"
    BY <1>1, <1>3, <2>1, <2>2, GoesOwn DEF Published, Phases, Publishing
  <2>. QED  BY <1>3, <2>3 DEF Stays, GoesOn, Past, Publishing, Published
<1>4. CASE file[p] \in {"result", "report"}
  <2>1. GoesTo(p, "look") /\ file' = [file EXCEPT ![p] = NextFile[file[p]]]
    BY <1>4 DEF Published, NextFile
  <2>2. NextFile[file[p]] \in {"report", "manifest"}
    BY <1>4 DEF NextFile
  <2>3. file' \in [Processes -> Names] /\ file'[p] \in {"report", "manifest"}
        /\ \A q \in Processes \ {p} : file'[q] = file[q]
    BY <2>1, <2>2 DEF Seals, Types, Names
  <2>4. Own(p) /\ phase'[p] = "look"
    BY <1>1, <2>1, <2>3, GoesOwn DEF Published, Phases, Publishing
  <2>. QED  BY <1>4, <2>3, <2>4 DEF Stays, GoesOn, Past, Publishing, Published
<1>. QED  BY <1>2, <1>3, <1>4 DEF Seals, Types, Names

LEMMA LookSeals ==
    ASSUME Seals, NEW p \in Processes, Look(p)
    PROVE  Seals'
<1>1. at[p] # Absent /\ at[p] \in Outputs /\ file[p] \in Names
  BY DEF Look, Seals, Control, Types
<1>2. Own(p) /\ Stays(p)
  <2>1. CASE Published(p)
    BY <2>1, PublishedOwn DEF Look, Publishing
  <2>2. CASE Ends(p)
    BY <2>2, EndsOwn
  <2>3. CASE GoesTo(p, "link") /\ UNCHANGED localVars
    <3>1. Own(p) /\ phase'[p] = "link"
      BY <1>1, <2>3, GoesOwn
      DEF Seals, Types, Control, Look, Phases, Publishing, localVars, Past
    <3>. QED  BY <2>3, <3>1 DEF Stays, GoesOn, Past, Publishing, Look, localVars
  <2>. QED  BY <2>1, <2>2, <2>3 DEF Look
<1>3. Writes(p)
  BY <1>1 DEF Look, Seals, Types, Directories, Writes
<1>. QED  BY <1>2, <1>3, Frame DEF Look, Seals, Types, historyVars

LEMMA LinkSeals ==
    ASSUME Seals, NEW p \in Processes, Link(p)
    PROVE  Seals'
<1>1. at[p] # Absent /\ at[p] \in Outputs /\ file[p] \in Names
  BY DEF Link, Seals, Control, Types
<1>2. Own(p) /\ Stays(p)
  <2>1. CASE Ends(p)
    BY <2>1, EndsOwn
  <2>2. CASE GoesTo(p, "unlink") /\ UNCHANGED localVars
    <3>1. Own(p) /\ phase'[p] = "unlink"
      BY <1>1, <2>2, GoesOwn
      DEF Seals, Types, Control, Link, Phases, Publishing, localVars, Past
    <3>. QED  BY <2>2, <3>1 DEF Stays, GoesOn, Past, Publishing, Link, localVars
  <2>. QED  BY <2>1, <2>2 DEF Link
<1>3. Writes(p)
  <2>1. CASE /\ files' = files
             /\ temps' = [temps EXCEPT ![at[p]] = @ \ {<<file[p], p>>}]
    BY <1>1, <2>1 DEF Link, Seals, Types, Directories, Writes
  <2>2. CASE /\ <<file[p], p>> \in temps[at[p]]
             /\ files[at[p]][file[p]] = Absent
             /\ files' = [files EXCEPT ![at[p]][file[p]] = Content(p)]
             /\ temps' = temps
    <3>1. at[p] \in made
      BY <1>1, <2>2 DEF Seals, Directories
    <3>. QED  BY <1>1, <2>2, <3>1 DEF Link, Seals, Types, Directories, Writes
  <2>. QED  BY <2>1, <2>2 DEF Link
<1>. QED  BY <1>2, <1>3, Frame DEF Link, Seals, Types, historyVars

LEMMA UnlinkSeals ==
    ASSUME Seals, NEW p \in Processes, Unlink(p)
    PROVE  Seals'
<1>1. at[p] # Absent /\ at[p] \in Outputs
  BY DEF Unlink, Seals, Control, Types
<1>2. Own(p) /\ Stays(p)
  BY PublishedOwn DEF Unlink, Publishing
<1>3. Writes(p)
  BY <1>1 DEF Unlink, Seals, Types, Directories, Writes
<1>. QED  BY <1>2, <1>3, Frame DEF Unlink, Seals, Types, historyVars

LEMMA KillSeals ==
    ASSUME Seals, NEW p \in Processes, Kill(p)
    PROVE  Seals'
<1>1. Own(p) /\ Stays(p)
  BY EndsOwn DEF Kill
<1>2. Writes(p)
  BY DEF Kill, Seals, Types, Directories, Writes, diskVars
<1>3. faults' \in 0..MaxFaults
  BY RemoteAssumption DEF Kill, Seals, Types
<1>. QED  BY <1>1, <1>2, <1>3, Frame DEF Kill, Seals, Types, historyVars, diskVars

-----------------------------------------------------------------------------
(* The output and the claim *)

LEMMA BeginSeals ==
    ASSUME Seals, NEW r \in Runs, NEW o \in Outputs, Begin(r, o)
    PROVE  Seals'
<1>1. r \in Processes /\ r \notin Sealers
  BY RemoteAssumption DEF Processes
<1>2. CASE o \in made
  <2>1. Own(r) /\ Stays(r)
    BY <1>1, <1>2, EndsOwn DEF Begin
  <2>2. Writes(r)
    BY <1>2 DEF Begin, Seals, Types, Directories, Writes
  <2>. QED  BY <1>1, <1>2, <2>1, <2>2, Frame DEF Begin, Seals, Types, historyVars
<1>3. CASE o \notin made
  <2>1. /\ made' = made \cup {o} /\ at' = [at EXCEPT ![r] = o]
        /\ phase' = [phase EXCEPT ![r] = "look"] /\ file' = file
        /\ files' = files /\ temps' = temps /\ claimed' = claimed
        /\ sealed' = sealed /\ premature' = premature /\ owned' = owned
        /\ spoiled' = spoiled /\ faults' = faults
    BY <1>3 DEF Begin, GoesTo, historyVars
  <2>2. file[r] = "journal"
    BY <1>1 DEF Begin, Seals, Control, Publishing
  <2>3. o # Absent
    BY RemoteAssumption
  <2>4. Types'
    BY <1>1, <2>1 DEF Seals, Types, Phases
  <2>5. /\ phase'[r] = "look" /\ at'[r] = o
        /\ \A q \in Processes \ {r} : phase'[q] = phase[q] /\ at'[q] = at[q]
    BY <1>1, <2>1 DEF Seals, Types
  <2>6. Control'
    BY <1>1, <2>1, <2>2, <2>3, <2>5 DEF Seals, Control, Past, Publishing
  <2>7. Directories'
    BY <2>1 DEF Seals, Directories
  <2>8. /\ \A q \in Processes : Past(q)' => Past(q) /\ at'[q] = at[q]
        /\ \A q \in Runs \ {r} : GoesOn(q)' => GoesOn(q) /\ at'[q] = at[q]
    BY <2>1, <2>2, <2>5 DEF Past, GoesOn, Publishing, Processes
  <2>9. Alone'
    BY <1>3, <2>1, <2>5, <2>8 DEF Seals, Alone
  <2>10. Reading'
    BY <1>3, <2>1, <2>5, <2>8 DEF Seals, Reading, Untouched
  <2>11. Lasting'
    <3> SUFFICES ASSUME NEW x \in sealed \ premature
                 PROVE  Validates(x)' /\ Untouched(x)'
      BY <2>1 DEF Lasting
    <3>1. Validates(x) /\ Untouched(x) /\ x \in Outputs
      BY DEF Seals, Lasting, Types
    <3>2. x \in made
      BY <3>1 DEF Seals, Directories, Validates, NoFiles, Names
    <3>. QED  BY <1>3, <2>1, <2>5, <2>8, <3>1, <3>2
              DEF Validates, Journal, Untouched
  <2>. QED  BY <2>4, <2>6, <2>7, <2>9, <2>10, <2>11 DEF Seals
<1>. QED  BY <1>2, <1>3

\* A run goes from one of its steps to the next, or to its seal.
LEMMA RunOwn ==
    ASSUME Seals, NEW r \in Runs, GoesOn(r), phase[r] \notin Publishing,
           NEW step \in Phases \ {"idle", "ended", "bytes", "validate"},
           step \notin Publishing, GoesTo(r, step), at' = at, file' = file
    PROVE  Own(r) /\ Stays(r)
<1>1. r \in Processes /\ r \notin Sealers
  BY RemoteAssumption DEF Processes
<1>2. at[r] # Absent /\ file[r] = "journal"
  BY <1>1 DEF Seals, Control, GoesOn, Publishing
<1>3. Own(r) /\ phase'[r] = step
  BY <1>1, <1>2, GoesOwn DEF Seals, Types
<1>. QED  BY <1>3 DEF Stays, Past, Publishing

LEMMA ClaimSeals ==
    ASSUME Seals, NEW r \in Runs, LookForClaim(r) \/ LookAgain(r) \/ Take(r)
    PROVE  Seals'
<1>1. r \in Processes /\ GoesOn(r) /\ at[r] \in Outputs
  BY DEF Processes, GoesOn, LookForClaim, LookAgain, Take, Seals, Types, Control
<1>2. \E step \in {"cleanup", "again", "reserve", "take"} : GoesTo(r, step)
  BY DEF LookForClaim, LookAgain, Take, Load
<1>3. at' = at /\ file' = file /\ phase[r] \notin Publishing
  BY DEF LookForClaim, LookAgain, Take, localVars, Publishing
<1>4. Own(r) /\ Stays(r)
  BY <1>1, <1>2, <1>3, RunOwn DEF Phases, Publishing
<1>5. Writes(r)
  <2>1. files' = files /\ temps' = temps /\ (claimed' = claimed \/ claimed')
    BY DEF LookForClaim, LookAgain, Take, diskVars
  <2>2. claimed' \in BOOLEAN
    BY DEF LookForClaim, LookAgain, Take, diskVars, Seals, Types
  <2>. QED  BY <2>1, <2>2 DEF Seals, Types, Directories, Writes
<1>6. owned' \in SUBSET Outputs
  BY <1>1 DEF LookForClaim, LookAgain, Take, Load, historyVars, Seals, Types
<1>7. /\ made' = made /\ sealed' = sealed /\ premature' = premature
      /\ spoiled' = spoiled /\ faults' = faults
  BY DEF LookForClaim, LookAgain, Take, diskVars, historyVars
<1>. QED  BY <1>1, <1>4, <1>5, <1>6, <1>7, Frame DEF Seals, Types

LEMMA CleanupSeals ==
    ASSUME Seals, NEW r \in Runs, Cleanup(r)
    PROVE  Seals'
<1>1. r \in Processes /\ GoesOn(r) /\ at[r] \in Outputs
  BY DEF Processes, GoesOn, Cleanup, Seals, Types, Control
<1>2. Own(r) /\ Stays(r)
  BY <1>1, RunOwn DEF Phases, Publishing, Cleanup, localVars
<1>3. Writes(r)
  BY <1>1 DEF Cleanup, Seals, Types, Directories, Writes
<1>. QED  BY <1>1, <1>2, <1>3, Frame DEF Cleanup, Seals, Types, historyVars

LEMMA RemoveDirectorySeals ==
    ASSUME Seals, NEW r \in Runs, RemoveDirectory(r)
    PROVE  Seals'
<1>1. r \in Processes /\ GoesOn(r) /\ at[r] \in made /\ Own(r) /\ Stays(r)
  BY EndsOwn DEF Processes, RemoveDirectory, Seals, Alone, GoesOn
<1>2. Types'
  BY <1>1 DEF RemoveDirectory, Seals, Types, Own, historyVars
<1>3. Control'
  BY <1>1 DEF Seals, Control, Own, Past
<1>4. Directories'
  BY <1>1 DEF RemoveDirectory, Seals, Directories
<1>5. ~GoesOn(r)' /\ ~Past(r)'
  <2>1. phase'[r] = "ended"
    BY <1>1 DEF RemoveDirectory, Ends, GoesTo, Seals, Types
  <2>. QED  BY <2>1 DEF GoesOn, Past, Publishing
<1>6. /\ \A q \in Runs : GoesOn(q)' => q # r /\ GoesOn(q) /\ at'[q] = at[q]
      /\ \A q \in Processes : Past(q)' => Past(q) /\ at'[q] = at[q]
  BY <1>1, <1>5 DEF Own, GoesOn, Past, Processes
<1>7. \A o \in Outputs : o \in made /\ o # at[r] => o \in made'
  BY DEF RemoveDirectory
<1>8. Alone'
  BY <1>1, <1>6, <1>7 DEF Seals, Alone, Types
<1>9. Reading'
  BY <1>1, <1>6, <1>7 DEF Seals, Types, Reading, Untouched, RemoveDirectory,
                          historyVars
<1>10. Lasting'
  BY <1>6 DEF Seals, Lasting, Validates, Journal, Untouched, RemoveDirectory,
              historyVars
<1>. QED  BY <1>2, <1>3, <1>4, <1>8, <1>9, <1>10 DEF Seals

-----------------------------------------------------------------------------
(* The requests *)

\* Every step writes only what is its own, and what the step before left.
LEMMA RequestSeals ==
    ASSUME Seals, NEW r \in Runs,
           \/ Reserve(r) \/ Send(r) \/ Fail(r)
           \/ \E kind \in {"settle", "over"} : Settle(r, kind)
    PROVE  Seals'
<1>1. r \in Processes /\ GoesOn(r) /\ phase[r] \notin Publishing
  BY DEF Processes, GoesOn, Reserve, Send, Fail, Settle, Publishing
<1>2. at[r] \in made /\ at[r] \in Outputs
  BY <1>1 DEF Seals, Alone, Types
<1>3. Own(r) /\ Stays(r)
  <2>1. CASE Ends(r)
    BY <1>1, <2>1, EndsOwn
  <2>2. CASE /\ \E step \in {"send", "await", "clear", "reserve", "fail"} :
                    GoesTo(r, step)
             /\ at' = at /\ file' = file
    BY <1>1, <2>2, RunOwn DEF Phases, Publishing
  <2>. QED  BY <2>1, <2>2 DEF Reserve, Send, Fail, Settle, localVars
<1>4. \/ files' = files
      \/ \E j : files' = [files EXCEPT ![at[r]]["journal"] = j]
  BY DEF Reserve, Send, Fail, Settle, Appends, Raises, diskVars
<1>5. temps' = temps /\ claimed' = claimed /\ made' = made
  BY DEF Reserve, Send, Fail, Settle, diskVars, diskRest
<1>6. Writes(r)
  BY <1>1, <1>2, <1>4, <1>5 DEF Seals, Types, Directories, Writes
<1>7. sealed' = sealed /\ premature' = premature /\ owned' = owned
  BY DEF Reserve, Send, Fail, Settle, historyRest
<1>8. spoiled' \in SUBSET Outputs
  BY <1>2 DEF Reserve, Send, Fail, Settle, Raises, Seals, Types
<1>9. faults' = faults \/ (faults < MaxFaults /\ faults' = faults + 1)
  BY DEF Reserve, Send, Fail, Settle, Raises
<1>10. faults' \in 0..MaxFaults
  BY <1>9, RemoteAssumption DEF Seals, Types
<1>. QED  BY <1>1, <1>3, <1>5, <1>6, <1>7, <1>8, <1>10, Frame DEF Seals, Types

-----------------------------------------------------------------------------
(* The seal *)

\* The steps by which a seal comes to its rows, and reads them.
LEMMA ClearSeals ==
    ASSUME Seals, NEW p \in Processes, Clear(p)
    PROVE  Seals'
<1>1. at[p] # Absent /\ at[p] \in Outputs /\ file[p] = "journal"
  BY DEF Clear, Seals, Control, Types, Publishing
<1>2. Own(p) /\ Stays(p)
  <2>1. CASE Ends(p)
    BY <2>1, EndsOwn
  <2>2. CASE GoesTo(p, "rows") /\ UNCHANGED localVars
    <3>1. Own(p) /\ phase'[p] = "rows"
      BY <1>1, <2>2, GoesOwn DEF Seals, Types, Phases, Publishing, localVars
    <3>. QED  BY <3>1 DEF Stays, GoesOn, Past, Publishing
  <2>. QED  BY <2>1, <2>2 DEF Clear
<1>3. temps' = [temps EXCEPT ![at[p]] = {}]
      \/ \E gone : temps' = [temps EXCEPT ![at[p]] = @ \ gone]
  BY DEF Clear
<1>4. Writes(p)
  BY <1>1, <1>3 DEF Clear, Seals, Types, Directories, Writes
<1>. QED  BY <1>2, <1>4, Frame DEF Clear, Seals, Types, historyVars

LEMMA ReadBytesSeals ==
    ASSUME Seals, NEW p \in Processes, ReadBytes(p)
    PROVE  Seals'
<1>1. at[p] # Absent /\ at[p] \in Outputs
  BY DEF ReadBytes, Seals, Control, Types
<1>2. Own(p) /\ Stays(p)
  <2>1. CASE Ends(p)
    BY <2>1, EndsOwn
  <2>2. CASE GoesTo(p, "look") /\ at' = at
             /\ file' = [file EXCEPT ![p] = "result"]
    <3>1. /\ file' \in [Processes -> Names] /\ file'[p] = "result"
          /\ \A q \in Processes \ {p} : file'[q] = file[q]
      BY <2>2 DEF Seals, Types, Names
    <3>2. Own(p) /\ phase'[p] = "look"
      BY <1>1, <2>2, <3>1, GoesOwn DEF Phases, Publishing
    <3>. QED  BY <2>2, <3>1, <3>2 DEF Stays, GoesOn, Past, Publishing, ReadBytes
  <2>. QED  BY <2>1, <2>2 DEF ReadBytes
<1>3. Writes(p)
  BY DEF ReadBytes, Seals, Types, Directories, Writes, diskVars
<1>. QED  BY <1>2, <1>3, Frame DEF ReadBytes, Seals, Types, historyVars, diskVars

LEMMA SealSeals ==
    ASSUME Seals, NEW s \in Sealers, NEW o \in Outputs, Seal(s, o)
    PROVE  Seals'
<1>1. s \in Processes /\ s \notin Runs /\ o # Absent
  BY RemoteAssumption DEF Processes
<1>2. file[s] = "journal"
  BY <1>1 DEF Seal, Seals, Control, Publishing
<1>3. /\ phase'[s] = "clear" /\ at'[s] = o /\ file' = file
      /\ \A q \in Processes \ {s} : phase'[q] = phase[q] /\ at'[q] = at[q]
  BY <1>1 DEF Seal, GoesTo, Seals, Types
<1>4. /\ phase' \in [Processes -> Phases]
      /\ at' \in [Processes -> Outputs \cup {Absent}]
  BY <1>1 DEF Seal, GoesTo, Seals, Types, Phases
<1>5. Own(s) /\ Stays(s)
  BY <1>1, <1>2, <1>3, <1>4
  DEF Own, Stays, Past, Publishing, Seals, Types
<1>6. Writes(s)
  BY DEF Seal, Seals, Types, Directories, Writes, diskVars
<1>. QED  BY <1>1, <1>5, <1>6, Frame DEF Seal, Seals, Types, historyVars, diskVars

LEMMA ReadRowsSeals ==
    ASSUME Seals, NEW p \in Processes, ReadRows(p)
    PROVE  Seals'
<1>1. at[p] # Absent /\ at[p] \in Outputs /\ file[p] = "journal"
  BY DEF ReadRows, Seals, Control, Types, Publishing
<1>2. Own(p) /\ ((at'[p] = at[p] /\ Journal(at[p]) # Absent) \/ ~Past(p)')
      /\ (p \in Runs => ~GoesOn(p)')
  <2>1. CASE Ends(p)
    <3>1. phase'[p] \in {"idle", "ended"}
      BY <2>1 DEF Ends, GoesTo, Seals, Types
    <3>. QED  BY <2>1, <3>1, EndsOwn DEF Past, Publishing, GoesOn
  <2>2. CASE GoesTo(p, "bytes") /\ at' = at /\ file' = file
             /\ Journal(at[p]) # Absent
    <3>1. Own(p) /\ phase'[p] = "bytes"
      BY <1>1, <2>2, GoesOwn DEF Seals, Types, Phases, Publishing
    <3>. QED  BY <2>2, <3>1 DEF GoesOn, Publishing
  <2>. QED  BY <2>1, <2>2 DEF ReadRows
<1>3. /\ files' = files /\ temps' = temps /\ claimed' = claimed /\ made' = made
      /\ sealed' = sealed /\ owned' = owned /\ spoiled' = spoiled
      /\ faults' = faults /\ premature \subseteq premature'
  BY DEF ReadRows, diskVars
<1>4. premature' \in SUBSET Outputs
      /\ (at[p] \notin premature' => Untouched(at[p]))
  BY <1>1 DEF ReadRows, Seals, Types, Untouched
<1>5. Types'
  BY <1>2, <1>3, <1>4 DEF Seals, Types, Own
<1>6. Control'
  BY <1>2 DEF Seals, Control, Own, Past
<1>7. Directories'
  BY <1>3 DEF Seals, Directories
<1>8. \A r \in Runs : GoesOn(r)' => GoesOn(r) /\ at'[r] = at[r]
  BY <1>2 DEF Own, GoesOn, Processes
<1>9. \A q \in Processes \ {p} : Past(q)' => Past(q) /\ at'[q] = at[q]
  BY <1>2 DEF Own, Past
<1>10. Alone'
  BY <1>3, <1>8 DEF Seals, Alone
<1>11. Journal(at[p]) # Absent => at[p] \in made
  BY <1>1 DEF Seals, Directories, NoFiles, Names, Journal
<1>12. Reading'
  BY <1>2, <1>3, <1>4, <1>8, <1>9, <1>11 DEF Seals, Reading, Untouched
<1>13. Lasting'
  BY <1>3, <1>8 DEF Seals, Lasting, Validates, Journal, Untouched
<1>. QED  BY <1>5, <1>6, <1>7, <1>10, <1>12, <1>13 DEF Seals

LEMMA ValidateSeals ==
    ASSUME Seals, NEW p \in Processes, Validate(p)
    PROVE  Seals'
<1>1. Past(p) /\ at[p] \in Outputs
  BY DEF Validate, Past, Seals, Control, Types
<1>2. Own(p) /\ Stays(p)
  BY EndsOwn DEF Validate
<1>3. /\ files' = files /\ temps' = temps /\ claimed' = claimed /\ made' = made
      /\ premature' = premature /\ owned' = owned /\ spoiled' = spoiled
      /\ faults' = faults
  BY DEF Validate, diskVars
<1>4. sealed' = sealed \/ (sealed' = sealed \cup {at[p]} /\ Validates(at[p]))
  BY DEF Validate
<1>5. Types'
  BY <1>1, <1>2, <1>3, <1>4 DEF Seals, Types, Own
<1>6. Control'
  BY <1>2 DEF Seals, Control, Own, Past
<1>7. Directories'
  BY <1>3 DEF Seals, Directories
<1>8. /\ \A r \in Runs : GoesOn(r)' => GoesOn(r) /\ at'[r] = at[r]
      /\ \A q \in Processes : Past(q)' => Past(q) /\ at'[q] = at[q]
  BY <1>2 DEF Own, Stays, GoesOn, Past, Processes
<1>9. Alone' /\ Reading'
  BY <1>3, <1>8 DEF Seals, Alone, Reading, Untouched
<1>10. \A o \in sealed' \ premature : Validates(o) /\ Untouched(o)
  BY <1>1, <1>4 DEF Seals, Lasting, Reading
<1>11. Lasting'
  BY <1>3, <1>8, <1>10 DEF Lasting, Validates, Journal, Untouched
<1>. QED  BY <1>5, <1>6, <1>7, <1>9, <1>11 DEF Seals

-----------------------------------------------------------------------------

LEMMA NextSeals == Seals /\ [Next]_vars => Seals'
<1> SUFFICES ASSUME Seals, [Next]_vars PROVE Seals'
  OBVIOUS
<1>1. ASSUME NEW r \in Runs, NEW o \in Outputs, Begin(r, o) PROVE Seals'
  BY <1>1, BeginSeals
<1>2. ASSUME NEW r \in Runs, RunSteps(r) PROVE Seals'
  BY <1>2, ClaimSeals, CleanupSeals, RemoveDirectorySeals, RequestSeals
  DEF RunSteps
<1>3. ASSUME NEW s \in Sealers, NEW o \in Outputs, Seal(s, o) PROVE Seals'
  BY <1>3, SealSeals
<1>4. ASSUME NEW p \in Processes, Steps(p) \/ Kill(p) PROVE Seals'
  BY <1>4, LookSeals, LinkSeals, UnlinkSeals, ClearSeals, ReadRowsSeals,
     ReadBytesSeals, ValidateSeals, KillSeals DEF Steps
<1>5. CASE UNCHANGED vars
  BY <1>5 DEF vars, diskVars, localVars, historyVars, Seals, Types, Control,
     Directories, Alone, Reading, Lasting, Untouched, Validates, Journal,
     GoesOn, Past
<1>. QED  BY <1>1, <1>2, <1>3, <1>4, <1>5 DEF Next

\* The inductive invariant of the seals: an output has at most one run that
\* goes on, and none from the reading of its rows on (create_output, finalize).
THEOREM SealsHold == Spec => []Seals
BY InitSeals, NextSeals, PTL DEF Spec

\* The type invariant of the remote runs, for any runs, seals and faults.
THEOREM TypeCorrect == Spec => []TypeOK
<1>1. Seals => TypeOK
  BY DEF Seals, Types, Control, Directories, TypeOK
<1>. QED  BY <1>1, SealsHold, PTL

\* A seal lasts, whatever other runs, seals and kills do to the directory
\* (create_output, finalize, _atomic).
THEOREM SealsLast == Spec => []SealedLasts
<1>1. Seals => SealedLasts
  BY DEF Seals, Lasting, SealedLasts
<1>. QED  BY <1>1, SealsHold, PTL

-----------------------------------------------------------------------------
(* What the journal is evidence of *)

Requests == 1..LastOrdinal

Ordinals(j) == {j[i].ordinal : i \in DOMAIN j}

Writing(r) == phase[r] \in {"reserve", "send", "await", "fail"}

Unsent(o) == \A n \in Requests : sent[o][n] = 0

\* A row that settles a request tells of an answer to it.
Backs(o, row) ==
    row.kind \in {"settle", "over"} =>
        /\ row.ordinal \in Requests
        /\ sent[o][row.ordinal] = 1
        /\ row.kind = "settle" => row.ordinal \in accepted[o]

\* The types of the variables that tell of requests.
Counts ==
    /\ sent \in [Outputs -> [Requests -> Nat]]
    /\ accepted \in [Outputs -> SUBSET Requests]
    /\ DOMAIN rows = Processes
    /\ \A o \in Outputs : Journal(o) \in Seq(RowSet) \cup {Absent}

\* A journal settles what was answered, and has reserved what was sent.
Backed ==
    \A o \in Outputs :
        /\ Journal(o) # Absent =>
             \A i \in DOMAIN Journal(o) : Backs(o, Journal(o)[i])
        /\ \A n \in Requests : sent[o][n] > 0 =>
             Journal(o) # Absent /\ n \in Ordinals(Journal(o))

\* Nothing is sent before the claim.
Early ==
    /\ \A o \in Outputs \ made : Unsent(o)
    /\ \A r \in Runs :
         GoesOn(r) /\ ~Writing(r) =>
             Unsent(at[r]) /\ Journal(at[r]) \in {Absent, <<>>}

\* The journal on disk is the one in memory until an append fails, and the
\* request of its last row is sent once.
InHand(r) ==
    LET o == at[r] n == Ordinal(r) IN
      /\ rows[r] \in Seq(RowSet)
      /\ n \in 0..LastOrdinal
      /\ Ordinals(rows[r]) = 1..n
      /\ phase[r] = "reserve" =>
           /\ n < LastOrdinal
           /\ Journal(o) = rows[r] \/ (Journal(o) = Absent /\ rows[r] = <<>>)
      /\ phase[r] # "reserve" => n > 0
      /\ phase[r] \in {"send", "await"} => Journal(o) = rows[r]
      /\ phase[r] = "send" => sent[o][n] = 0
      /\ phase[r] \in {"await", "fail"} => sent[o][n] = 1

Evidence ==
    Counts /\ Backed /\ Early /\ (\A r \in Runs : Writing(r) => InHand(r))

\* A row put at the end of a journal.
LEMMA AppendRow ==
    ASSUME NEW j \in Seq(RowSet), NEW row \in RowSet
    PROVE  /\ Append(j, row) \in Seq(RowSet)
           /\ Ordinals(Append(j, row)) = Ordinals(j) \cup {row.ordinal}
           /\ \A i \in DOMAIN Append(j, row) :
                 \/ i \in DOMAIN j /\ Append(j, row)[i] = j[i]
                 \/ Append(j, row)[i] = row
<1>1. /\ Append(j, row) \in Seq(RowSet)
      /\ DOMAIN Append(j, row) = 1..(Len(j) + 1)
      /\ DOMAIN j = 1..Len(j) /\ Len(j) \in Nat
      /\ \A i \in 1..Len(j) : Append(j, row)[i] = j[i]
      /\ Append(j, row)[Len(j) + 1] = row
  OBVIOUS
<1>2. DOMAIN Append(j, row) = DOMAIN j \cup {Len(j) + 1}
  BY <1>1
<1>3. Ordinals(Append(j, row)) = Ordinals(j) \cup {row.ordinal}
  BY <1>1, <1>2 DEF Ordinals
<1>. QED  BY <1>1, <1>2, <1>3

LEMMA AddRow ==
    ASSUME NEW j \in Seq(RowSet) \cup {Absent}, NEW row \in RowSet
    PROVE  /\ Added(j, row) \in Seq(RowSet)
           /\ row.ordinal \in Ordinals(Added(j, row))
           /\ j # Absent => Ordinals(j) \subseteq Ordinals(Added(j, row))
           /\ \A i \in DOMAIN Added(j, row) :
                 \/ j # Absent /\ i \in DOMAIN j /\ Added(j, row)[i] = j[i]
                 \/ Added(j, row)[i] = row
<1>1. CASE j = Absent
  <2>1. Added(j, row) = <<row>>
    BY <1>1 DEF Added
  <2>2. <<row>> \in Seq(RowSet) /\ DOMAIN <<row>> = {1} /\ <<row>>[1] = row
    OBVIOUS
  <2>. QED  BY <1>1, <2>1, <2>2 DEF Ordinals
<1>2. CASE j # Absent
  BY <1>2, AppendRow DEF Added
<1>. QED  BY <1>1, <1>2

\* Rows whose requests are 1 to n have n requests.
LEMMA CountOfRequests ==
    ASSUME NEW n \in Nat
    PROVE  Cardinality(1..n) = n
BY FS_Interval

LEMMA InitEvidence == Init => Evidence
<1> SUFFICES ASSUME Init PROVE Evidence
  OBVIOUS
<1>1. \A o \in Outputs : Journal(o) = Absent /\ Unsent(o)
  BY DEF Init, NoFiles, Names, Journal, Unsent, Requests
<1>2. Counts
  BY <1>1 DEF Init, Counts, Requests
<1>3. Backed
  BY <1>1 DEF Backed, Unsent
<1>4. \A r \in Runs : ~GoesOn(r) /\ ~Writing(r)
  BY DEF Init, GoesOn, Writing, Publishing, Processes
<1>. QED  BY <1>1, <1>2, <1>3, <1>4 DEF Evidence, Early

\* A step that sends nothing, and writes into no journal with a request.
Silent ==
    /\ sent' = sent /\ accepted' = accepted
    /\ DOMAIN rows' = Processes
    /\ \A o \in Outputs :
         \/ Journal(o)' = Journal(o)
         \/ Unsent(o) /\ Journal(o)' \in {Absent, <<>>}
    /\ \A o \in made : o \in made' \/ Unsent(o)
    /\ \A r \in Runs :
         /\ Writing(r)' =>
              /\ Writing(r) /\ phase'[r] = phase[r] /\ at'[r] = at[r]
              /\ rows'[r] = rows[r] /\ Journal(at[r])' = Journal(at[r])
         /\ GoesOn(r)' /\ ~Writing(r)' =>
              Unsent(at[r])' /\ Journal(at[r])' \in {Absent, <<>>}

LEMMA SilentStep ==
    ASSUME Seals, Evidence, Silent
    PROVE  Evidence'
<1>1. Counts'
  <2>1. ASSUME NEW o \in Outputs PROVE Journal(o)' \in Seq(RowSet) \cup {Absent}
    <3>1. <<>> \in Seq(RowSet)
      OBVIOUS
    <3>2. Journal(o)' \in {Journal(o), Absent, <<>>}
      BY DEF Silent
    <3>3. Journal(o) \in Seq(RowSet) \cup {Absent}
      BY DEF Evidence, Counts
    <3>. QED  BY <3>1, <3>2, <3>3
  <2>2. /\ sent' \in [Outputs -> [Requests -> Nat]]
        /\ accepted' \in [Outputs -> SUBSET Requests]
        /\ DOMAIN rows' = Processes
    BY DEF Evidence, Counts, Silent
  <2>. QED  BY <2>1, <2>2 DEF Counts
<1>2. Backed'
  <2> SUFFICES ASSUME NEW o \in Outputs
               PROVE  /\ Journal(o)' # Absent =>
                            \A i \in DOMAIN Journal(o)' :
                                Backs(o, Journal(o)[i])'
                      /\ \A n \in Requests : sent'[o][n] > 0 =>
                            Journal(o)' # Absent /\ n \in Ordinals(Journal(o)')
    BY DEF Backed
  <2>1. CASE Journal(o)' = Journal(o)
    BY <2>1 DEF Evidence, Backed, Silent, Backs
  <2>2. CASE Unsent(o) /\ Journal(o)' \in {Absent, <<>>}
    BY <2>2 DEF Unsent, Silent
  <2>. QED  BY <2>1, <2>2 DEF Silent
<1>3. Early'
  <2>1. \A o \in Outputs : Unsent(o) => Unsent(o)'
    BY DEF Silent, Unsent
  <2>2. ASSUME NEW o \in Outputs \ made' PROVE Unsent(o)'
    BY <2>1 DEF Evidence, Early, Silent
  <2>3. ASSUME NEW r \in Runs, GoesOn(r)', ~Writing(r)'
        PROVE  Unsent(at[r])' /\ Journal(at[r])' \in {Absent, <<>>}
    BY <2>3 DEF Silent
  <2>. QED  BY <2>2, <2>3 DEF Early
<1>4. ASSUME NEW r \in Runs, Writing(r)'
      PROVE  InHand(r)'
  <2>1. /\ Writing(r) /\ phase'[r] = phase[r] /\ at'[r] = at[r]
        /\ rows'[r] = rows[r] /\ Journal(at[r])' = Journal(at[r])
        /\ sent' = sent
    BY <1>4 DEF Silent
  <2>2. InHand(r)
    BY <2>1 DEF Evidence
  <2>. QED  BY <2>1, <2>2 DEF InHand, Ordinal, Ordinals, Journal
<1>. QED  BY <1>1, <1>2, <1>3, <1>4 DEF Evidence

\* Who does not go on writes into no journal; who has not claimed has sent
\* nothing.
LEMMA OfOthers ==
    ASSUME Seals, Evidence, NEW p \in Processes, Own(p), NEW r \in Runs, r # p
    PROVE  /\ Writing(r)' => Writing(r) /\ phase'[r] = phase[r] /\ at'[r] = at[r]
           /\ GoesOn(r)' /\ ~Writing(r)' =>
                /\ GoesOn(r) /\ at'[r] = at[r] /\ Unsent(at[r])
                /\ Journal(at[r]) \in {Absent, <<>>}
BY DEF Own, Writing, GoesOn, Evidence, Early, Processes

\* A step of a process that is not writing requests, before or after.
LEMMA QuietStep ==
    ASSUME Seals, Evidence, NEW p \in Processes, Own(p),
           p \in Runs => ~Writing(p)',
           sent' = sent, accepted' = accepted, DOMAIN rows' = Processes,
           \A r \in Runs \ {p} : rows'[r] = rows[r],
           \A o \in Outputs :
              \/ files'[o]["journal"] = files[o]["journal"]
              \/ /\ p \in Runs /\ GoesOn(p) /\ ~Writing(p) /\ at[p] = o
                 /\ files'[o]["journal"] \in {Absent, <<>>},
           \A o \in made : o \in made' \/ (p \in Runs /\ GoesOn(p) /\ ~Writing(p)
                                           /\ at[p] = o),
           p \in Runs /\ GoesOn(p)' =>
              \/ GoesOn(p) /\ ~Writing(p) /\ at'[p] = at[p]
              \/ at'[p] \in Outputs \ made
    PROVE  Evidence'
<1>1. \A o \in Outputs :
         \/ Journal(o)' = Journal(o)
         \/ p \in Runs /\ GoesOn(p) /\ ~Writing(p) /\ at[p] = o
            /\ Unsent(o) /\ Journal(o)' \in {Absent, <<>>}
  BY DEF Evidence, Early, Journal
<1>2. \A o \in made : o \in made' \/ Unsent(o)
  BY DEF Evidence, Early, Seals, Types
<1>3. ASSUME NEW r \in Runs, Writing(r)'
      PROVE  /\ Writing(r) /\ phase'[r] = phase[r] /\ at'[r] = at[r]
             /\ rows'[r] = rows[r] /\ Journal(at[r])' = Journal(at[r])
  <2>1. r # p
    BY <1>3
  <2>2. Writing(r) /\ phase'[r] = phase[r] /\ at'[r] = at[r]
    BY <1>3, <2>1, OfOthers
  <2>3. GoesOn(r) /\ at[r] \in Outputs
    BY <2>2 DEF Writing, GoesOn, Seals, Alone, Types
  <2>4. p \in Runs /\ GoesOn(p) => at[p] # at[r]
    BY <2>1, <2>3 DEF Seals, Alone
  <2>5. Journal(at[r])' = Journal(at[r])
    BY <2>2, <2>3, <2>4 DEF Journal
  <2>. QED  BY <2>1, <2>2, <2>5
<1>4. ASSUME NEW r \in Runs, GoesOn(r)', ~Writing(r)'
      PROVE  Unsent(at[r])' /\ Journal(at[r])' \in {Absent, <<>>}
  <2>1. CASE r # p \/ (GoesOn(r) /\ ~Writing(r) /\ at'[r] = at[r])
    <3>1. /\ at'[r] = at[r] /\ at[r] \in Outputs /\ Unsent(at[r])
          /\ Journal(at[r]) \in {Absent, <<>>}
      BY <1>4, <2>1, OfOthers DEF Evidence, Early, Seals, Alone, Types
    <3>2. files'[at[r]]["journal"] \in {Absent, <<>>}
      BY <3>1 DEF Journal
    <3>. QED  BY <3>1, <3>2 DEF Unsent, Journal
  <2>2. CASE r = p /\ at'[r] \in Outputs \ made
    <3>1. Unsent(at'[r]) /\ files[at'[r]]["journal"] = Absent
      BY <2>2 DEF Evidence, Early, Seals, Directories, NoFiles, Names
    <3>2. files'[at'[r]]["journal"] \in {Absent, <<>>}
      BY <2>2, <3>1
    <3>. QED  BY <3>1, <3>2 DEF Unsent, Journal
  <2>. QED  BY <1>4, <2>1, <2>2
<1>5. Silent
  BY <1>1, <1>2, <1>3, <1>4 DEF Silent
<1>. QED  BY <1>5, SilentStep

LEMMA EndsQuiet ==
    ASSUME Seals, Evidence, NEW p \in Processes, Ends(p)
    PROVE  /\ Own(p) /\ (p \in Runs => ~Writing(p)' /\ ~GoesOn(p)')
           /\ DOMAIN rows' = Processes
           /\ \A r \in Runs \ {p} : rows'[r] = rows[r]
<1>1. phase'[p] \in {"idle", "ended"}
  BY DEF Ends, GoesTo, Seals, Types
<1>2. rows' = [rows EXCEPT ![p] = <<>>] /\ DOMAIN rows = Processes
  BY DEF Ends, Evidence, Counts
<1>3. DOMAIN rows' = Processes /\ \A r \in Runs \ {p} : rows'[r] = rows[r]
  BY <1>2 DEF Processes
<1>. QED  BY <1>1, <1>3, EndsOwn DEF Writing, GoesOn, Publishing

\* The steps of a publication; only a run publishes a journal, an empty one.
LEMMA PublicationEvidence ==
    ASSUME Seals, Evidence, NEW p \in Processes,
           Look(p) \/ Link(p) \/ Unlink(p)
    PROVE  Evidence'
<1>1. phase[p] \in Publishing /\ at[p] # Absent /\ at[p] \in Outputs
      /\ file[p] \in Names
  BY DEF Look, Link, Unlink, Publishing, Seals, Control, Types
<1>2. /\ Own(p) /\ (p \in Runs => ~Writing(p)') /\ DOMAIN rows' = Processes
      /\ \A r \in Runs \ {p} : rows'[r] = rows[r]
      /\ p \in Runs /\ GoesOn(p)' => GoesOn(p) /\ at'[p] = at[p]
  <2>1. CASE Ends(p)
    BY <2>1, EndsQuiet
  <2>2. CASE Published(p)
    <3>1. Own(p) /\ Stays(p) /\ rows' = rows
      BY <1>1, <2>2, PublishedOwn DEF Published
    <3>2. phase'[p] \in {"claim", "validate", "look"}
      BY <2>2 DEF Published, GoesTo, Seals, Types
    <3>. QED  BY <3>1, <3>2 DEF Stays, Writing, Evidence, Counts
  <2>3. CASE (GoesTo(p, "link") \/ GoesTo(p, "unlink")) /\ UNCHANGED localVars
    <3>1. at' = at /\ file' = file /\ rows' = rows
      BY <2>3 DEF localVars
    <3>2. p \in Sealers => file[p] # "journal"
      BY <1>1 DEF Seals, Control, Publishing, Past
    <3>3. Own(p) /\ phase'[p] \in {"link", "unlink"}
      BY <1>1, <2>3, <3>1, <3>2, GoesOwn
      DEF Seals, Types, Phases, Publishing
    <3>. QED  BY <1>1, <3>1, <3>3
              DEF Writing, GoesOn, Publishing, Evidence, Counts
  <2>. QED  BY <2>1, <2>2, <2>3 DEF Look, Link, Unlink
<1>3. \A o \in Outputs :
         \/ files'[o]["journal"] = files[o]["journal"]
         \/ /\ p \in Runs /\ GoesOn(p) /\ at[p] = o
            /\ files'[o]["journal"] = <<>>
  <2>1. CASE files' = files
    BY <2>1
  <2>2. CASE Link(p) /\ files' = [files EXCEPT ![at[p]][file[p]] = Content(p)]
    <3>1. CASE file[p] = "journal"
      <4>1. p \in Runs /\ GoesOn(p)
        BY <1>1, <3>1 DEF Seals, Control, Past, Publishing, GoesOn, Processes
      <4>2. Content(p) = <<>>
        BY <3>1 DEF Content
      <4>. QED  BY <1>1, <2>2, <3>1, <4>1, <4>2 DEF Seals, Types
    <3>2. CASE file[p] # "journal"
      BY <1>1, <2>2, <3>2 DEF Seals, Types
    <3>. QED  BY <3>1, <3>2
  <2>. QED  BY <2>1, <2>2 DEF Look, Link, Unlink
<1>4. made' = made /\ sent' = sent /\ accepted' = accepted
  BY DEF Look, Link, Unlink, historyVars
<1>5. ~Writing(p)
  BY <1>1 DEF Publishing, Writing
<1>. QED  BY <1>2, <1>3, <1>4, <1>5, QuietStep

LEMMA EndEvidence ==
    ASSUME Seals, Evidence, NEW p \in Processes, Ends(p),
           sent' = sent, accepted' = accepted, files' = files, made' = made
    PROVE  Evidence'
BY EndsQuiet, QuietStep

LEMMA BeginEvidence ==
    ASSUME Seals, Evidence, NEW r \in Runs, NEW o \in Outputs, Begin(r, o)
    PROVE  Evidence'
<1>1. r \in Processes /\ r \notin Sealers
  BY RemoteAssumption DEF Processes
<1>2. files' = files /\ sent' = sent /\ accepted' = accepted
  BY DEF Begin, historyVars
<1>3. CASE o \in made
  BY <1>1, <1>2, <1>3, EndEvidence DEF Begin
<1>4. CASE o \notin made
  <2>1. /\ made' = made \cup {o} /\ at' = [at EXCEPT ![r] = o]
        /\ GoesTo(r, "look") /\ file' = file /\ rows' = rows
    BY <1>4 DEF Begin
  <2>2. file[r] = "journal" /\ o # Absent
    BY <1>1, RemoteAssumption DEF Begin, Seals, Control, Publishing
  <2>3. /\ phase'[r] = "look" /\ at'[r] = o
        /\ \A q \in Processes \ {r} : phase'[q] = phase[q] /\ at'[q] = at[q]
    BY <1>1, <2>1 DEF GoesTo, Seals, Types
  <2>4. /\ phase' \in [Processes -> Phases]
        /\ at' \in [Processes -> Outputs \cup {Absent}]
        /\ file' \in [Processes -> Names]
    BY <1>1, <2>1 DEF GoesTo, Seals, Types, Phases
  <2>5. Own(r)
    BY <1>1, <2>1, <2>2, <2>3, <2>4 DEF Own, Publishing
  <2>6. ~Writing(r)' /\ DOMAIN rows' = Processes
    BY <2>1, <2>3 DEF Writing, Evidence, Counts
  <2>. QED  BY <1>1, <1>2, <1>4, <2>1, <2>3, <2>5, <2>6, QuietStep
<1>. QED  BY <1>3, <1>4

LEMMA LookForClaimEvidence ==
    ASSUME Seals, Evidence, NEW r \in Runs,
           \/ LookForClaim(r) \/ Cleanup(r)
           \/ (LookAgain(r) \/ Take(r)) /\ ~Load(r)
    PROVE  Evidence'
<1>1. r \in Processes /\ GoesOn(r) /\ ~Writing(r) /\ at[r] \in Outputs
  BY DEF Processes, GoesOn, Writing, LookForClaim, LookAgain, Take, Cleanup,
         Seals, Types, Control
<1>2. \E step \in {"cleanup", "again", "take", "rmdir"} : GoesTo(r, step)
  BY DEF LookForClaim, LookAgain, Take, Cleanup
<1>3. /\ at' = at /\ file' = file /\ rows' = rows /\ made' = made
      /\ sent' = sent /\ accepted' = accepted /\ phase[r] \notin Publishing
  BY DEF LookForClaim, LookAgain, Take, Cleanup, localVars, diskVars,
         historyVars, Publishing
<1>4. Own(r)
  BY <1>1, <1>2, <1>3, RunOwn DEF Phases, Publishing
<1>5. ~Writing(r)' /\ DOMAIN rows' = Processes
  BY <1>1, <1>2, <1>3 DEF GoesTo, Writing, Evidence, Counts, Seals, Types
<1>6. \/ files' = files
      \/ files' = [files EXCEPT ![at[r]]["journal"] = Absent]
  BY DEF LookForClaim, LookAgain, Take, Cleanup, diskVars
<1>7. \A o \in Outputs :
         \/ files'[o]["journal"] = files[o]["journal"]
         \/ at[r] = o /\ files'[o]["journal"] = Absent
  BY <1>1, <1>6 DEF Seals, Types, Names
<1>. QED  BY <1>1, <1>3, <1>4, <1>5, <1>7, QuietStep

LEMMA RemoveDirectoryEvidence ==
    ASSUME Seals, Evidence, NEW r \in Runs, RemoveDirectory(r)
    PROVE  Evidence'
<1>1. r \in Processes /\ GoesOn(r) /\ ~Writing(r)
  BY DEF RemoveDirectory, GoesOn, Writing, Processes
<1>2. /\ Ends(r) /\ files' = files /\ sent' = sent /\ accepted' = accepted
      /\ \A o \in made : o \in made' \/ at[r] = o
  BY DEF RemoveDirectory, historyVars
<1>. QED  BY <1>1, <1>2, EndsQuiet, QuietStep

\* A step beside the requests and the directories.
LEMMA AsideStep ==
    ASSUME Seals, Evidence, NEW p \in Processes,
           files' = files, sent' = sent, accepted' = accepted, made' = made,
           DOMAIN rows' = Processes,
           \A r \in Runs \ {p} :
              /\ phase'[r] = phase[r] /\ at'[r] = at[r] /\ file'[r] = file[r]
              /\ rows'[r] = rows[r],
           p \in Runs => ~GoesOn(p)'
    PROVE  Evidence'
<1>1. \A r \in Runs : GoesOn(r)' =>
         /\ r # p /\ GoesOn(r) /\ phase'[r] = phase[r] /\ at'[r] = at[r]
         /\ rows'[r] = rows[r] /\ at[r] \in Outputs
  BY DEF GoesOn, Seals, Alone, Types
<1>2. \A r \in Runs : Writing(r)' => GoesOn(r)'
  BY DEF Writing, GoesOn
<1>3. Silent
  BY <1>1, <1>2 DEF Silent, Evidence, Early, Unsent, Journal, Writing
<1>. QED  BY <1>3, SilentStep

\* A seal writes its temporaries and files only.
LEMMA SealEvidence ==
    ASSUME Seals, Evidence, NEW p \in Processes,
           \/ Clear(p) \/ ReadRows(p) \/ ReadBytes(p) \/ Validate(p) \/ Kill(p)
           \/ \E o \in Outputs : p \in Sealers /\ Seal(p, o)
    PROVE  Evidence'
<1>1. files' = files /\ sent' = sent /\ accepted' = accepted /\ made' = made
  BY DEF Clear, ReadRows, ReadBytes, Validate, Kill, Seal, diskVars, historyVars
<1>2. CASE Ends(p)
  BY <1>1, <1>2, EndEvidence
<1>3. CASE p \in Sealers /\ \E o \in Outputs : Seal(p, o)
  <2>1. p \notin Runs /\ rows' = rows /\ file' = file
    BY <1>3, RemoteAssumption DEF Seal
  <2>2. \A r \in Runs : phase'[r] = phase[r] /\ at'[r] = at[r]
    BY <1>3, <2>1 DEF Seal, GoesTo, Seals, Types, Processes
  <2>. QED  BY <1>1, <2>1, <2>2, AsideStep DEF Evidence, Counts
<1>4. CASE /\ \E step \in {"rows", "bytes", "look"} : GoesTo(p, step)
           /\ Clear(p) \/ ReadRows(p) \/ ReadBytes(p)
           /\ ~Ends(p)
  <2>1. at' = at /\ file[p] = "journal"
    BY <1>4 DEF Clear, ReadRows, ReadBytes, Seals, Control, localVars, Publishing
  <2>2. /\ rows' = rows \/ \E j : rows' = [rows EXCEPT ![p] = j]
        /\ file' = file \/ file' = [file EXCEPT ![p] = "result"]
        /\ GoesTo(p, "look") => file' = [file EXCEPT ![p] = "result"]
    BY <1>4 DEF Clear, ReadRows, ReadBytes, localVars, GoesTo, Seals, Types
  <2>3. \A r \in Runs \ {p} :
           /\ phase'[r] = phase[r] /\ at'[r] = at[r] /\ file'[r] = file[r]
           /\ rows'[r] = rows[r]
    BY <1>4, <2>1, <2>2 DEF GoesTo, Seals, Types, Evidence, Counts, Processes
  <2>4. phase'[p] \in {"rows", "bytes", "look"}
        /\ (phase'[p] = "look" => file'[p] = "result")
    BY <1>4, <2>2 DEF GoesTo, Seals, Types
  <2>5. ~GoesOn(p)'
    BY <2>4 DEF GoesOn, Publishing
  <2>6. DOMAIN rows' = Processes
    BY <2>2 DEF Evidence, Counts
  <2>. QED  BY <1>1, <2>3, <2>5, <2>6, AsideStep
<1>. QED
  BY <1>2, <1>3, <1>4
  DEF Clear, ReadRows, ReadBytes, Validate, Kill

-----------------------------------------------------------------------------
(* The requests, and what is in the journal of them *)

\* A run with the claim begins with an empty journal.
LEMMA LoadEvidence ==
    ASSUME Seals, Evidence, NEW r \in Runs, LookAgain(r) \/ Take(r), Load(r)
    PROVE  Evidence'
<1>1. r \in Processes /\ GoesOn(r) /\ ~Writing(r) /\ at[r] \in Outputs
  BY DEF Processes, GoesOn, Writing, LookAgain, Take, Seals, Types, Control
<1>2. Unsent(at[r]) /\ Journal(at[r]) \in {Absent, <<>>}
  BY <1>1 DEF Evidence, Early
<1>3. /\ at' = at /\ file' = file /\ files' = files /\ made' = made
      /\ sent' = sent /\ accepted' = accepted
  BY DEF LookAgain, Take, diskVars
<1>4. rows' = [rows EXCEPT ![r] = <<>>]
  BY <1>2 DEF Load
<1>5. rows'[r] = <<>> /\ DOMAIN rows' = Processes
      /\ \A q \in Runs \ {r} : rows'[q] = rows[q]
  BY <1>1, <1>4 DEF Evidence, Counts, Processes
<1>6. phase'[r] = "reserve" /\ \A q \in Runs \ {r} : phase'[q] = phase[q]
  BY <1>1 DEF Load, GoesTo, Seals, Types, Processes
<1>7. Counts' /\ Backed'
  BY <1>3, <1>5 DEF Evidence, Counts, Backed, Backs, Journal
<1>8. Early'
  BY <1>3, <1>6 DEF Evidence, Early, Unsent, Journal, GoesOn, Writing
<1>9. InHand(r)'
  <2>1. Ordinals(<<>>) = {} /\ 1..0 = {} /\ Cardinality({}) = 0
    BY FS_EmptySet DEF Ordinals
  <2>2. Ordinals(rows[r])' = {} /\ Ordinal(r)' = 0
    BY <1>5, <2>1 DEF Ordinals, Ordinal
  <2>3. <<>> \in Seq(RowSet)
    OBVIOUS
  <2>. QED  BY <1>2, <1>3, <1>5, <1>6, <2>1, <2>2, <2>3, RemoteAssumption
            DEF InHand, Journal
<1>10. ASSUME NEW q \in Runs \ {r}, Writing(q)'
       PROVE  InHand(q)'
  <2>1. Writing(q) /\ InHand(q)
    BY <1>6, <1>10 DEF Writing, Evidence
  <2>2. /\ phase'[q] = phase[q] /\ at'[q] = at[q] /\ rows'[q] = rows[q]
        /\ sent' = sent /\ Journal(at[q])' = Journal(at[q])
    BY <1>3, <1>5, <1>6 DEF Journal
  <2>. QED  BY <2>1, <2>2 DEF InHand, Ordinal, Ordinals, Journal
<1>. QED  BY <1>7, <1>8, <1>9, <1>10 DEF Evidence

\* What a request leaves alone: the outputs and the requests of other runs.
LEMMA RequestFrame ==
    ASSUME Seals, Evidence, NEW r \in Runs, Writing(r), made' = made,
           \A q \in Runs \ {r} :
              /\ phase'[q] = phase[q] /\ at'[q] = at[q] /\ file'[q] = file[q]
              /\ rows'[q] = rows[q],
           \A o \in Outputs \ {at[r]} :
              sent'[o] = sent[o] /\ Journal(o)' = Journal(o),
           GoesOn(r)' => Writing(r)'
    PROVE  Early' /\ \A q \in Runs \ {r} : Writing(q)' => InHand(q)'
<1>1. GoesOn(r) /\ at[r] \in made
  BY DEF Writing, GoesOn, Seals, Alone
<1>2. ASSUME NEW q \in Runs \ {r}, GoesOn(q)'
      PROVE  /\ GoesOn(q) /\ at'[q] = at[q] /\ at[q] \in Outputs \ {at[r]}
             /\ phase'[q] = phase[q] /\ rows'[q] = rows[q]
             /\ sent'[at[q]] = sent[at[q]]
             /\ files'[at[q]]["journal"] = files[at[q]]["journal"]
  <2>1. GoesOn(q) /\ at'[q] = at[q] /\ phase'[q] = phase[q] /\ rows'[q] = rows[q]
    BY <1>2 DEF GoesOn
  <2>2. at[q] \in Outputs \ {at[r]}
    BY <1>1, <2>1 DEF Seals, Alone, Types
  <2>. QED  BY <2>1, <2>2 DEF Journal
<1>3. \A q \in Runs : Writing(q) => GoesOn(q)
  BY DEF Writing, GoesOn
<1>4. \A q \in Runs : Writing(q)' => GoesOn(q)'
  BY DEF Writing, GoesOn
<1>5. Early'
  <2>1. ASSUME NEW o \in Outputs \ made' PROVE Unsent(o)'
    BY <1>1 DEF Evidence, Early, Unsent
  <2>2. ASSUME NEW q \in Runs, GoesOn(q)', ~Writing(q)'
        PROVE  Unsent(at[q])' /\ Journal(at[q])' \in {Absent, <<>>}
    <3>1. q \in Runs \ {r}
      BY <2>2
    <3>2. ~Writing(q)
      BY <1>2, <2>2, <3>1 DEF Writing
    <3>3. Unsent(at[q]) /\ Journal(at[q]) \in {Absent, <<>>}
      BY <1>2, <2>2, <3>1, <3>2 DEF Evidence, Early
    <3>. QED  BY <1>2, <2>2, <3>1, <3>3 DEF Unsent, Journal
  <2>. QED  BY <2>1, <2>2 DEF Early
<1>6. ASSUME NEW q \in Runs \ {r}, Writing(q)'
      PROVE  InHand(q)'
  <2>1. GoesOn(q)' /\ Writing(q)
    BY <1>2, <1>4, <1>6 DEF Writing
  <2>2. InHand(q)
    BY <2>1 DEF Evidence
  <2>3. /\ phase'[q] = phase[q] /\ rows'[q] = rows[q]
        /\ sent'[at'[q]] = sent[at[q]] /\ Journal(at[q])' = Journal(at[q])
    BY <1>2, <2>1 DEF Journal
  <2>4. Ordinal(q)' = Ordinal(q) /\ Ordinals(rows[q])' = Ordinals(rows[q])
    BY <2>3 DEF Ordinal, Ordinals
  <2>. QED  BY <2>2, <2>3, <2>4 DEF InHand
<1>. QED  BY <1>5, <1>6

\* A row more in a journal.
LEMMA JournalGrows ==
    ASSUME Seals, Evidence, NEW o \in Outputs, NEW row \in RowSet,
           files' = [files EXCEPT ![o]["journal"] = Added(@, row)],
           sent' = sent, DOMAIN rows' = Processes,
           accepted' \in [Outputs -> SUBSET Requests],
           \A x \in Outputs : accepted[x] \subseteq accepted'[x],
           row.kind \in {"settle", "over"} =>
              /\ row.ordinal \in Requests /\ sent[o][row.ordinal] = 1
              /\ row.kind = "settle" => row.ordinal \in accepted'[o]
    PROVE  /\ Counts' /\ Backed'
           /\ Journal(o)' = Added(Journal(o), row)
           /\ \A x \in Outputs \ {o} : Journal(x)' = Journal(x)
<1>1. /\ Journal(o)' = Added(Journal(o), row)
      /\ \A x \in Outputs \ {o} : Journal(x)' = Journal(x)
  BY DEF Journal, Seals, Types, Names
<1>2. Journal(o) \in Seq(RowSet) \cup {Absent}
  BY DEF Evidence, Counts
<1>3. /\ Journal(o)' \in Seq(RowSet)
      /\ Journal(o) # Absent =>
           Ordinals(Journal(o)) \subseteq Ordinals(Journal(o)')
      /\ \A i \in DOMAIN Journal(o)' :
            \/ /\ Journal(o) # Absent /\ i \in DOMAIN Journal(o)
               /\ Journal(o)'[i] = Journal(o)[i]
            \/ Journal(o)'[i] = row
  BY <1>1, <1>2, AddRow
<1>4. Journal(o)' # Absent
  BY <1>3, RemoteAssumption
<1>5. Counts'
  BY <1>1, <1>3 DEF Evidence, Counts
<1>6. ASSUME NEW x \in Outputs, Journal(x)' # Absent, NEW i \in DOMAIN Journal(x)'
      PROVE  Backs(x, Journal(x)[i])'
  <2>1. CASE x # o
    <3>1. Backs(x, Journal(x)[i]) /\ Journal(x)' = Journal(x)
      BY <1>1, <1>6, <2>1 DEF Evidence, Backed
    <3>. QED  BY <3>1 DEF Backs
  <2>2. CASE x = o /\ Journal(o)'[i] = row
    BY <2>2 DEF Backs
  <2>3. CASE /\ x = o /\ Journal(o) # Absent /\ i \in DOMAIN Journal(o)
             /\ Journal(o)'[i] = Journal(o)[i]
    <3>1. Backs(o, Journal(o)[i])
      BY <2>3 DEF Evidence, Backed
    <3>. QED  BY <2>3, <3>1 DEF Backs
  <2>. QED  BY <1>3, <1>6, <2>1, <2>2, <2>3
<1>7. ASSUME NEW x \in Outputs, NEW n \in Requests, sent'[x][n] > 0
      PROVE  Journal(x)' # Absent /\ n \in Ordinals(Journal(x)')
  <2>1. Journal(x) # Absent /\ n \in Ordinals(Journal(x))
    BY <1>7 DEF Evidence, Backed
  <2>. QED  BY <1>1, <1>3, <1>4, <2>1
<1>8. Backed'
  BY <1>6, <1>7 DEF Backed, Ordinals
<1>. QED  BY <1>1, <1>5, <1>8

\* An append that fails leaves the journal, or a row more in it, whole or not.
LEMMA RaisesGrows ==
    ASSUME Seals, Evidence, NEW r \in Runs, NEW row \in RowSet, Raises(r, row),
           at[r] \in Outputs, sent' = sent, DOMAIN rows' = Processes,
           accepted' \in [Outputs -> SUBSET Requests],
           \A x \in Outputs : accepted[x] \subseteq accepted'[x],
           row.kind \in {"settle", "over"} =>
              /\ row.ordinal \in Requests /\ sent[at[r]][row.ordinal] = 1
              /\ row.kind = "settle" => row.ordinal \in accepted'[at[r]]
    PROVE  /\ Counts' /\ Backed'
           /\ \A x \in Outputs \ {at[r]} : Journal(x)' = Journal(x)
<1>1. CASE files' = files
  BY <1>1 DEF Evidence, Counts, Backed, Backs, Journal
<1>2. ASSUME NEW whole \in BOOLEAN,
             files' = [files EXCEPT ![at[r]]["journal"] =
                         Added(@, [row EXCEPT !.whole = whole])]
      PROVE  /\ Counts' /\ Backed'
             /\ \A x \in Outputs \ {at[r]} : Journal(x)' = Journal(x)
  <2>1. /\ [row EXCEPT !.whole = whole] \in RowSet
        /\ [row EXCEPT !.whole = whole].kind = row.kind
        /\ [row EXCEPT !.whole = whole].ordinal = row.ordinal
    BY DEF RowSet
  <2>. DEFINE w == [row EXCEPT !.whole = whole]
  <2>2. /\ w \in RowSet /\ w.kind = row.kind /\ w.ordinal = row.ordinal
        /\ files' = [files EXCEPT ![at[r]]["journal"] = Added(@, w)]
    BY <1>2, <2>1
  <2>. HIDE DEF w
  <2>. QED  BY <2>2, JournalGrows
<1>. QED  BY <1>1, <1>2 DEF Raises

\* Where a run is that has requests, and the row it writes.
LEMMA AtRequest ==
    ASSUME Seals, Evidence, NEW r \in Runs, Writing(r)
    PROVE  /\ r \in Processes /\ at[r] \in Outputs /\ at[r] \in made /\ InHand(r)
           /\ Ordinal(r) \in 0..LastOrdinal /\ DOMAIN rows = Processes
           /\ rows[r] \in Seq(RowSet)
           /\ \A kind \in {"reserve", "settle", "over", "failure"}, n \in Nat :
                 /\ Row(r, kind, n) \in RowSet
                 /\ Row(r, kind, n).kind = kind /\ Row(r, kind, n).ordinal = n
<1>1. GoesOn(r) /\ r \in Processes
  BY DEF Writing, GoesOn, Processes
<1>2. at[r] \in made /\ at[r] \in Outputs
  BY <1>1 DEF Seals, Alone, Types
<1>3. InHand(r) /\ DOMAIN rows = Processes
  BY DEF Evidence, Counts
<1>4. rows[r] \in Seq(RowSet) /\ Ordinal(r) \in 0..LastOrdinal
  BY <1>3 DEF InHand
<1>5. Len(rows[r]) + 1 \in Nat
  BY <1>4
<1>. QED  BY <1>1, <1>2, <1>3, <1>4, <1>5 DEF Row, RowSet

\* The steps that end a run at its request.
LEMMA RequestEnds ==
    ASSUME Seals, Evidence, NEW r \in Runs, Writing(r), Ends(r),
           NEW row \in RowSet, row.kind \in {"reserve", "failure"},
           Raises(r, row), sent' = sent, accepted' = accepted, made' = made
    PROVE  Evidence'
<1>1. r \in Processes /\ at[r] \in Outputs
  BY AtRequest
<1>2. /\ ~Writing(r)' /\ ~GoesOn(r)' /\ DOMAIN rows' = Processes
      /\ \A q \in Runs \ {r} :
           /\ phase'[q] = phase[q] /\ at'[q] = at[q] /\ file'[q] = file[q]
           /\ rows'[q] = rows[q]
  BY <1>1, EndsQuiet DEF Own, Processes
<1>3. /\ Counts' /\ Backed'
      /\ \A x \in Outputs \ {at[r]} : Journal(x)' = Journal(x)
  <2>1. accepted \in [Outputs -> SUBSET Requests]
    BY DEF Evidence, Counts
  <2>. QED  BY <1>1, <1>2, <2>1, RaisesGrows
<1>4. Early' /\ \A q \in Runs \ {r} : Writing(q)' => InHand(q)'
  BY <1>2, <1>3, RequestFrame
<1>. QED  BY <1>2, <1>3, <1>4 DEF Evidence

\* The steps of a run to the next one of its request.
LEMMA RequestGoes ==
    ASSUME Seals, Evidence, NEW r \in Runs, Writing(r),
           NEW step \in {"reserve", "send", "await", "fail", "clear"},
           GoesTo(r, step), at' = at, file' = file, made' = made,
           DOMAIN rows' = Processes,
           \A q \in Runs \ {r} : rows'[q] = rows[q],
           \A o \in Outputs \ {at[r]} :
              sent'[o] = sent[o] /\ Journal(o)' = Journal(o),
           Counts', Backed', step # "clear" => InHand(r)'
    PROVE  Evidence'
<1>1. r \in Processes
  BY DEF Processes
<1>2. phase'[r] = step /\ \A q \in Runs \ {r} : phase'[q] = phase[q]
  BY <1>1 DEF GoesTo, Seals, Types, Processes
<1>3. GoesOn(r)' => Writing(r)'
  BY <1>2 DEF GoesOn, Writing, Publishing
<1>4. Early' /\ \A q \in Runs \ {r} : Writing(q)' => InHand(q)'
  BY <1>2, <1>3, RequestFrame
<1>5. Writing(r)' => InHand(r)'
  BY <1>2 DEF Writing
<1>. QED  BY <1>4, <1>5 DEF Evidence

LEMMA ReserveEvidence ==
    ASSUME Seals, Evidence, NEW r \in Runs, Reserve(r)
    PROVE  Evidence'
<1>1. Writing(r) /\ phase[r] = "reserve"
  BY DEF Reserve, Writing
<1>2. PICK o \in Outputs, n \in 0..LastOrdinal :
        /\ r \in Processes /\ o = at[r] /\ o \in made /\ InHand(r)
        /\ n = Ordinal(r) /\ DOMAIN rows = Processes
        /\ rows[r] \in Seq(RowSet)
  BY <1>1, AtRequest
<1>. DEFINE row == Row(r, "reserve", n + 1)
<1>3. n < LastOrdinal /\ Ordinals(rows[r]) = 1..n
      /\ (Journal(o) = rows[r] \/ (Journal(o) = Absent /\ rows[r] = <<>>))
  BY <1>1, <1>2 DEF InHand
<1>4. n + 1 \in Requests /\ n + 1 \in Nat
  <2>1. LastOrdinal \in Nat
    BY RemoteAssumption
  <2>. QED  BY <1>3, <2>1 DEF Requests
<1>5. row \in RowSet /\ row.kind = "reserve" /\ row.ordinal = n + 1
  BY <1>1, <1>4, AtRequest
<1>6. made' = made /\ sent' = sent /\ accepted' = accepted
      /\ accepted \in [Outputs -> SUBSET Requests]
  BY DEF Reserve, diskRest, historyRest, Evidence, Counts
<1>. HIDE DEF row
<1>7. CASE Raises(r, row) /\ Ends(r)
  BY <1>1, <1>5, <1>6, <1>7, RequestEnds
<1>8. CASE Appends(r, row) /\ GoesTo(r, "send") /\ at' = at /\ file' = file
  <2>1. /\ files' = [files EXCEPT ![o]["journal"] = Added(@, row)]
        /\ rows' = [rows EXCEPT ![r] = Append(@, row)]
    BY <1>2, <1>8 DEF Appends
  <2>2. /\ rows'[r] = Append(rows[r], row) /\ DOMAIN rows' = Processes
        /\ \A q \in Runs \ {r} : rows'[q] = rows[q]
    BY <1>2, <2>1 DEF Processes
  <2>3. /\ Counts' /\ Backed'
        /\ Journal(o)' = Added(Journal(o), row)
        /\ \A x \in Outputs \ {o} : Journal(x)' = Journal(x)
    <3>1. \A x \in Outputs : accepted[x] \subseteq accepted'[x]
      BY <1>6
    <3>2. row.kind \notin {"settle", "over"}
      BY <1>5
    <3>3. accepted' \in [Outputs -> SUBSET Requests]
      BY <1>6
    <3>. QED  BY <1>2, <1>5, <1>6, <2>1, <2>2, <3>1, <3>2, <3>3, JournalGrows
  <2>4. Added(Journal(o), row) = Append(rows[r], row)
    <3>1. Absent \notin Seq(RowSet)
      BY RemoteAssumption
    <3>2. CASE Journal(o) = rows[r]
      BY <1>2, <3>1, <3>2 DEF Added
    <3>3. CASE Journal(o) = Absent /\ rows[r] = <<>>
      BY <1>5, <3>3 DEF Added
    <3>. QED  BY <1>3, <3>2, <3>3
  <2>5. /\ rows'[r] \in Seq(RowSet) /\ Ordinals(rows'[r]) = 1..(n + 1)
    <3>1. Ordinals(rows'[r]) = 1..n \cup {n + 1} /\ rows'[r] \in Seq(RowSet)
      BY <1>2, <1>3, <1>5, <2>2, AppendRow
    <3>2. 1..n \cup {n + 1} = 1..(n + 1)
      BY <1>2
    <3>. QED  BY <3>1, <3>2
  <2>6. Ordinal(r)' = n + 1
    <3>1. Ordinal(r)' = Cardinality(Ordinals(rows'[r]))
      BY DEF Ordinal, Ordinals
    <3>. QED  BY <1>4, <2>5, <3>1, CountOfRequests
  <2>7. sent'[o][n + 1] = 0
    <3>1. sent[o][n + 1] \in Nat
      BY <1>2, <1>4 DEF Evidence, Counts
    <3>2. sent[o][n + 1] > 0 => /\ Journal(o) # Absent
                                /\ n + 1 \in Ordinals(Journal(o))
      BY <1>2, <1>4 DEF Evidence, Backed
    <3>. QED  BY <1>2, <1>3, <1>6, <3>1, <3>2
  <2>8. phase'[r] = "send"
    BY <1>2, <1>8 DEF GoesTo, Seals, Types
  <2>9. InHand(r)'
    <3>1. at'[r] = o /\ n + 1 \in 0..LastOrdinal /\ n + 1 > 0
          /\ Journal(at[r])' = rows'[r]
      BY <1>2, <1>4, <1>8, <2>2, <2>3, <2>4 DEF Requests, Journal
    <3>2. Ordinals(rows[r])' = 1..(n + 1)
      BY <2>5 DEF Ordinals
    <3>. QED  BY <2>5, <2>6, <2>7, <2>8, <3>1, <3>2 DEF InHand
  <2>. QED  BY <1>1, <1>2, <1>6, <1>8, <2>2, <2>3, <2>9, RequestGoes
<1>. QED  BY <1>2, <1>7, <1>8 DEF Reserve, row

LEMMA SendEvidence ==
    ASSUME Seals, Evidence, NEW r \in Runs, Send(r)
    PROVE  Evidence'
<1>. DEFINE o == at[r]
            n == Ordinal(r)
<1>1. Writing(r) /\ phase[r] = "send"
  BY DEF Send, Writing
<1>2. /\ r \in Processes /\ o \in Outputs /\ InHand(r)
      /\ n \in 0..LastOrdinal /\ rows[r] \in Seq(RowSet)
  BY <1>1, AtRequest
<1>3. /\ n > 0 /\ Ordinals(rows[r]) = 1..n /\ Journal(o) = rows[r]
      /\ sent[o][n] = 0
  BY <1>1, <1>2 DEF InHand
<1>4. n \in Requests
  BY <1>2, <1>3 DEF Requests
<1>5. /\ sent' = [sent EXCEPT ![o][n] = @ + 1] /\ accepted' = accepted
      /\ files' = files /\ made' = made /\ at' = at /\ file' = file
      /\ rows' = rows /\ GoesTo(r, "await")
  BY DEF Send, diskVars, localVars
<1>6. /\ sent' \in [Outputs -> [Requests -> Nat]]
      /\ sent'[o][n] = 1
      /\ \A m \in Requests \ {n} : sent'[o][m] = sent[o][m]
      /\ \A x \in Outputs \ {o} : sent'[x] = sent[x]
  BY <1>2, <1>3, <1>4, <1>5 DEF Evidence, Counts
<1>7. Counts'
  BY <1>5, <1>6 DEF Evidence, Counts, Journal
<1>8. ASSUME NEW x \in Outputs
      PROVE  /\ Journal(x)' = Journal(x)
             /\ \A i \in DOMAIN Journal(x) :
                   Journal(x) # Absent => Backs(x, Journal(x)[i])'
             /\ \A m \in Requests : sent'[x][m] > 0 =>
                   Journal(x) # Absent /\ m \in Ordinals(Journal(x))
  <2>1. Journal(x)' = Journal(x)
    BY <1>5 DEF Journal
  <2>2. ASSUME NEW i \in DOMAIN Journal(x), Journal(x) # Absent
        PROVE  Backs(x, Journal(x)[i])'
    <3>1. Backs(x, Journal(x)[i])
      BY <2>2 DEF Evidence, Backed
    <3>. QED  BY <1>3, <1>5, <1>6, <2>1, <3>1 DEF Backs
  <2>3. ASSUME NEW m \in Requests, sent'[x][m] > 0
        PROVE  Journal(x) # Absent /\ m \in Ordinals(Journal(x))
    <3>1. CASE x = o /\ m = n
      BY <1>2, <1>3, <3>1, RemoteAssumption
    <3>2. CASE sent[x][m] > 0
      BY <3>2 DEF Evidence, Backed
    <3>. QED  BY <1>6, <2>3, <3>1, <3>2
  <2>. QED  BY <2>1, <2>2, <2>3
<1>9. Backed'
  BY <1>8 DEF Backed, Ordinals
<1>10. InHand(r)'
  <2>1. phase'[r] = "await"
    BY <1>2, <1>5 DEF GoesTo, Seals, Types
  <2>2. /\ Ordinal(r)' = n /\ Ordinals(rows[r])' = Ordinals(rows[r])
        /\ Journal(at[r])' = rows'[r] /\ rows'[r] = rows[r] /\ at'[r] = o
    BY <1>3, <1>5 DEF Ordinal, Ordinals, Journal
  <2>. QED  BY <1>2, <1>3, <1>6, <2>1, <2>2 DEF InHand
<1>11. DOMAIN rows' = Processes
  BY <1>7 DEF Counts
<1>. QED  BY <1>1, <1>5, <1>6, <1>7, <1>8, <1>9, <1>10, <1>11, RequestGoes

LEMMA SettleEvidence ==
    ASSUME Seals, Evidence, NEW r \in Runs, NEW kind \in {"settle", "over"},
           Settle(r, kind)
    PROVE  Evidence'
<1>1. Writing(r) /\ phase[r] = "await"
  BY DEF Settle, Writing
<1>2. PICK o \in Outputs, n \in 0..LastOrdinal :
        /\ r \in Processes /\ o = at[r] /\ InHand(r)
        /\ n = Ordinal(r) /\ DOMAIN rows = Processes
        /\ rows[r] \in Seq(RowSet)
  BY <1>1, AtRequest
<1>. DEFINE row == Row(r, kind, n)
<1>3. /\ n > 0 /\ Ordinals(rows[r]) = 1..n /\ Journal(o) = rows[r]
      /\ sent[o][n] = 1
  BY <1>1, <1>2 DEF InHand
<1>4. n \in Requests /\ n \in Nat
  BY <1>3 DEF Requests
<1>5. row \in RowSet /\ row.kind = kind /\ row.ordinal = n
  BY <1>1, <1>4, AtRequest
<1>6. made' = made /\ sent' = sent
      /\ accepted' = [accepted EXCEPT ![o] =
                         IF kind = "settle" THEN @ \cup {n} ELSE @]
  BY <1>2 DEF Settle, diskRest
<1>7. /\ accepted' \in [Outputs -> SUBSET Requests]
      /\ \A x \in Outputs : accepted[x] \subseteq accepted'[x]
      /\ kind = "settle" => n \in accepted'[o]
  BY <1>2, <1>4, <1>6 DEF Evidence, Counts
<1>. HIDE DEF row
<1>8. CASE Raises(r, row) /\ GoesTo(r, "fail") /\ UNCHANGED localVars
  <2>1. at' = at /\ file' = file /\ rows' = rows
    BY <1>8 DEF localVars
  <2>2. /\ Counts' /\ Backed'
        /\ \A x \in Outputs \ {at[r]} : Journal(x)' = Journal(x)
    BY <1>2, <1>3, <1>4, <1>5, <1>6, <1>7, <1>8, <2>1, RaisesGrows
  <2>3. phase'[r] = "fail"
    BY <1>2, <1>8 DEF GoesTo, Seals, Types
  <2>4. InHand(r)'
    <3>1. /\ Ordinal(r)' = n /\ Ordinals(rows[r])' = 1..n
          /\ rows'[r] = rows[r] /\ at'[r] = o
      BY <1>2, <1>3, <2>1 DEF Ordinal, Ordinals
    <3>. QED  BY <1>2, <1>3, <1>6, <2>3, <3>1 DEF InHand
  <2>. QED  BY <1>1, <1>2, <1>6, <1>8, <2>1, <2>2, <2>4, RequestGoes
<1>9. CASE /\ Appends(r, row) /\ at' = at /\ file' = file
           /\ GoesTo(r, IF kind = "over" \/ n = LastOrdinal
                         THEN "clear" ELSE "reserve")
  <2>1. /\ files' = [files EXCEPT ![o]["journal"] = Added(@, row)]
        /\ rows' = [rows EXCEPT ![r] = Append(@, row)]
    BY <1>2, <1>9 DEF Appends
  <2>2. /\ rows'[r] = Append(rows[r], row) /\ DOMAIN rows' = Processes
        /\ \A q \in Runs \ {r} : rows'[q] = rows[q]
    BY <1>2, <2>1 DEF Processes
  <2>3. /\ Counts' /\ Backed'
        /\ Journal(o)' = Added(Journal(o), row)
        /\ \A x \in Outputs \ {o} : Journal(x)' = Journal(x)
    BY <1>2, <1>3, <1>4, <1>5, <1>6, <1>7, <2>1, <2>2, JournalGrows
  <2>4. Added(Journal(o), row) = Append(rows[r], row)
    BY <1>2, <1>3, RemoteAssumption DEF Added
  <2>5. rows'[r] \in Seq(RowSet) /\ Ordinals(rows'[r]) = 1..n
    <3>1. Ordinals(rows'[r]) = 1..n \cup {n} /\ rows'[r] \in Seq(RowSet)
      BY <1>2, <1>3, <1>5, <2>2, AppendRow
    <3>2. 1..n \cup {n} = 1..n
      BY <1>3, <1>4
    <3>. QED  BY <3>1, <3>2
  <2>6. Ordinal(r)' = n
    <3>1. Ordinal(r)' = Cardinality(Ordinals(rows'[r]))
      BY DEF Ordinal, Ordinals
    <3>. QED  BY <1>4, <2>5, <3>1, CountOfRequests
  <2>7. CASE kind = "over" \/ n = LastOrdinal
    <3>1. GoesTo(r, "clear")
      BY <1>9, <2>7
    <3>. QED  BY <1>1, <1>2, <1>6, <1>9, <2>2, <2>3, <3>1, RequestGoes
  <2>8. CASE ~(kind = "over" \/ n = LastOrdinal)
    <3>1. GoesTo(r, "reserve")
      BY <1>9, <2>8
    <3>2. phase'[r] = "reserve"
      BY <1>2, <3>1 DEF GoesTo, Seals, Types
    <3>3. at'[r] = o /\ n < LastOrdinal /\ Journal(at[r])' = rows'[r]
      <4>1. LastOrdinal \in Nat
        BY RemoteAssumption
      <4>. QED  BY <1>2, <1>9, <2>2, <2>3, <2>4, <2>8, <4>1 DEF Journal
    <3>4. Ordinals(rows[r])' = 1..n
      BY <2>5 DEF Ordinals
    <3>5. InHand(r)'
      BY <2>5, <2>6, <3>2, <3>3, <3>4 DEF InHand
    <3>. QED  BY <1>1, <1>2, <1>6, <1>9, <2>2, <2>3, <3>1, <3>5, RequestGoes
  <2>. QED  BY <2>7, <2>8
<1>. QED  BY <1>2, <1>8, <1>9 DEF Settle, row

LEMMA FailEvidence ==
    ASSUME Seals, Evidence, NEW r \in Runs, Fail(r)
    PROVE  Evidence'
<1>1. Writing(r) /\ phase[r] # "reserve"
  BY DEF Fail, Writing
<1>2. PICK o \in Outputs, n \in 0..LastOrdinal :
        /\ r \in Processes /\ o = at[r] /\ n = Ordinal(r)
        /\ DOMAIN rows = Processes
  BY <1>1, AtRequest
<1>. DEFINE row == Row(r, "failure", n)
<1>3. row \in RowSet /\ row.kind = "failure"
  BY <1>1, AtRequest
<1>4. /\ made' = made /\ sent' = sent /\ accepted' = accepted
      /\ accepted \in [Outputs -> SUBSET Requests]
  BY DEF Fail, diskRest, historyRest, Evidence, Counts
<1>. HIDE DEF row
<1>5. CASE Raises(r, row) /\ Ends(r)
  BY <1>1, <1>3, <1>4, <1>5, RequestEnds
<1>6. CASE Appends(r, row) /\ GoesTo(r, "clear") /\ at' = at /\ file' = file
  <2>1. /\ files' = [files EXCEPT ![o]["journal"] = Added(@, row)]
        /\ rows' = [rows EXCEPT ![r] = Append(@, row)]
    BY <1>2, <1>6 DEF Appends
  <2>2. /\ DOMAIN rows' = Processes
        /\ \A q \in Runs \ {r} : rows'[q] = rows[q]
    BY <1>2, <2>1 DEF Processes
  <2>3. /\ row.kind \notin {"settle", "over"}
        /\ \A x \in Outputs : accepted[x] \subseteq accepted'[x]
    BY <1>3, <1>4
  <2>4. /\ Counts' /\ Backed'
        /\ \A x \in Outputs \ {o} : Journal(x)' = Journal(x)
    BY <1>2, <1>3, <1>4, <2>1, <2>2, <2>3, JournalGrows
  <2>. QED  BY <1>1, <1>2, <1>4, <1>6, <2>2, <2>4, RequestGoes
<1>. QED  BY <1>2, <1>5, <1>6 DEF Fail, row

-----------------------------------------------------------------------------

LEMMA NextEvidence == Seals /\ Evidence /\ [Next]_vars => Evidence'
<1> SUFFICES ASSUME Seals, Evidence, [Next]_vars PROVE Evidence'
  OBVIOUS
<1>1. ASSUME NEW r \in Runs, NEW o \in Outputs, Begin(r, o) PROVE Evidence'
  BY <1>1, BeginEvidence
<1>2. ASSUME NEW r \in Runs, RunSteps(r) PROVE Evidence'
  <2>1. CASE LookAgain(r) \/ Take(r)
    BY <2>1, LoadEvidence, LookForClaimEvidence
  <2>2. CASE LookForClaim(r) \/ Cleanup(r)
    BY <2>2, LookForClaimEvidence
  <2>3. CASE RemoveDirectory(r)
    BY <2>3, RemoveDirectoryEvidence
  <2>4. CASE Reserve(r) \/ Send(r) \/ Fail(r)
    BY <2>4, ReserveEvidence, SendEvidence, FailEvidence
  <2>5. ASSUME NEW kind \in {"settle", "over"}, Settle(r, kind) PROVE Evidence'
    BY <2>5, SettleEvidence
  <2>. QED  BY <1>2, <2>1, <2>2, <2>3, <2>4, <2>5 DEF RunSteps
<1>3. ASSUME NEW s \in Sealers, NEW o \in Outputs, Seal(s, o) PROVE Evidence'
  BY <1>3, SealEvidence DEF Processes
<1>4. ASSUME NEW p \in Processes, Steps(p) \/ Kill(p) PROVE Evidence'
  BY <1>4, PublicationEvidence, SealEvidence DEF Steps
<1>5. CASE UNCHANGED vars
  <2>1. /\ sent' = sent /\ accepted' = accepted /\ files' = files
        /\ rows' = rows /\ made' = made /\ at' = at /\ phase' = phase
        /\ file' = file
    BY <1>5 DEF vars, diskVars, localVars, historyVars
  <2>2. Silent
    BY <2>1 DEF Silent, Evidence, Counts, Early, Unsent, Journal, GoesOn, Writing
  <2>. QED  BY <2>2, SilentStep
<1>. QED  BY <1>1, <1>2, <1>3, <1>4, <1>5 DEF Next

\* The inductive invariant of the journals: what was sent has been reserved,
\* and what is settled was sent once and answered (append, run_prevalidated).
THEOREM EvidenceHolds == Spec => []Evidence
<1>. QED  BY InitEvidence, NextEvidence, SealsHold, PTL DEF Spec

\* A sealed result charges every request that may have reached the provider,
\* counts none as completed without an answer, and is complete only if all
\* were answered within the contract (reconstruct, charged).
THEOREM ResultIsHonest == Spec => []ResultHonest
<1>1. Seals /\ Evidence => ResultHonest
  <2> SUFFICES ASSUME Seals, Evidence, NEW o \in sealed \ premature
               PROVE  LET r == files[o]["result"] IN
          /\ {n \in 1..LastOrdinal : sent[o][n] > 0} \subseteq DOMAIN r.charge
          /\ \A n \in r.completed : sent[o][n] = 1
          /\ r.status = "complete" => accepted[o] = 1..LastOrdinal
    BY DEF ResultHonest
  <2>. DEFINE j == Journal(o)
  <2>1. /\ o \in Outputs /\ j # Absent
        /\ files[o]["result"] = Result(j)
    BY DEF Seals, Types, Lasting, Validates, Names, Journal
  <2>2. /\ \A i \in DOMAIN j : Backs(o, j[i])
        /\ \A n \in Requests : sent[o][n] > 0 => n \in Ordinals(j)
        /\ accepted[o] \subseteq Requests
    BY <2>1 DEF Evidence, Backed, Counts
  <2>. HIDE DEF j
  <2>3. DOMAIN Result(j).charge = Ordinals(j)
    BY DEF Result, Charge, Ordinals
  <2>4. Result(j).completed = Settled(j)
    BY DEF Result
  <2>5. \A n \in Settled(j) : sent[o][n] = 1
    BY <2>2 DEF Settled, Backs
  <2>6. Result(j).status = "complete" =>
           ~Terminal(j) /\ Settled(j) = Requests
    BY DEF Result, Requests
  <2>7. ~Terminal(j) => Settled(j) \subseteq accepted[o]
    BY <2>2 DEF Terminal, Final, Settled, Backs
  <2>. QED  BY <2>1, <2>2, <2>3, <2>4, <2>5, <2>6, <2>7 DEF Requests
<1>. QED  BY <1>1, SealsHold, EvidenceHolds, PTL
=============================================================================
