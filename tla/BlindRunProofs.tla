--------------------------- MODULE BlindRunProofs ---------------------------
(***************************************************************************)
(* Theorems about BlindRun: what was finalized stays, whatever losses of   *)
(* power come after it, and the registry is a register of one exposure,    *)
(* for any number of commands, candidates, faults and losses.              *)
(***************************************************************************)
EXTENDS BlindRun, TLAPS

Steps == {"idle", "claim", "publish", "registry", "continue", "verify", "make",
          "directory", "open", "rename"}

\* The names that come before one in the order of the run.
Before ==
    [precommitted |-> {},
     running |-> {"precommitted"},
     report |-> {"precommitted", "running"},
     candidate |-> {"precommitted", "running", "report"},
     sealed |-> {"precommitted", "running", "report", "candidate"},
     descriptor |-> Names \ {"descriptor"}]

\* The types of all variables.
Types ==
    /\ place \in Places /\ named \in Places
    /\ files \in [Names ->
         [fit : Fits, run : Nat, whole : BOOLEAN] \cup {Absent}]
    /\ kept \subseteq Present
    /\ lock \in Processes \cup {Nobody}
    /\ at \in [Processes -> Steps]
    /\ work \in [Processes -> Names]
    /\ fit \in [Processes -> Fits \cup {Absent}]
    /\ initial \in [Processes -> SUBSET Names]
    /\ made \in Nat /\ faults \in Nat /\ losses \in Nat
    /\ exposed \subseteq Fits

\* A command has a candidate, and the lock from its claim or its first look on.
Control ==
    \A p \in Processes :
        /\ lock = p <=> at[p] \notin {"idle", "claim"}
        /\ at[p] # "idle" => fit[p] \in Fits

\* What a loss of power finds: the commitment lasts as long as the name, and a
\* directory is renamed when it has all its files for good.
Lasting ==
    /\ place = "none" => named = "none" /\ files = NoFiles /\ kept = {}
    /\ place # "none" => "precommitted" \in kept
    /\ place = "active" => named # "sealed"
    /\ place = "sealed" => named # "none" /\ kept = Names

\* A step of the run that follows the claim or the first look.
Running == {"make", "open", "directory", "registry", "rename"}

\* Names that the command at this step has made, or compared with its own.
Checked(p) ==
    IF at[p] = "make" THEN Before[work[p]]
    ELSE IF work[p] = "sealed" THEN Names ELSE Before[work[p]] \cup {work[p]}

\* The step of a command and the place of the directory.
StepPlace(p) ==
    /\ at[p] \in {"idle", "claim", "publish"} => work[p] = "precommitted"
    /\ at[p] = "publish" => place = "none"
    /\ at[p] \in {"continue", "verify"} \cup Running =>
         place = IF at[p] = "registry" /\ work[p] = "sealed"
                 THEN "sealed" ELSE "active"
    /\ at[p] = "make" => work[p] # "precommitted"
    /\ at[p] = "open" => work[p] = "running"
    /\ at[p] = "directory" => work[p] \notin {"precommitted", "sealed"}
    /\ at[p] = "rename" => work[p] = "descriptor" /\ named = "active"

\* The step of a command and the files: it has found a partial set, or all of
\* them, and has made or compared those before the one it works on.
StepFiles(p) ==
    /\ at[p] = "continue" => Present = initial[p] /\ initial[p] \in Partial
    /\ at[p] = "verify" => Present = Names
    /\ at[p] \in Running =>
         /\ initial[p] \in Partial \/ Checked(p) = Names
         /\ Present = initial[p] \cup Checked(p)
         /\ files["precommitted"] = Entry(fit[p], 0)
         /\ \A name \in Checked(p) : files[name] = Expected(name)
    /\ at[p] = "rename" => kept = Names
    /\ at[p] = "registry" /\ work[p] = "descriptor" => kept = Names
    /\ at[p] = "make" /\ work[p] = "report" => fit[p] \in exposed

AtWork == \A p \in Processes : StepPlace(p) /\ StepFiles(p)

\* There is a report of a candidate only if it was shown the view.
Reported == files["report"] # Absent => files["precommitted"].fit \in exposed

\* What was finalized lasts, name and files.
Standing ==
    \A c \in finalized :
        /\ place # "none" /\ named # "none" /\ kept = Names
        /\ Complete /\ files["candidate"] = c

IInv == Types /\ Control /\ Lasting /\ AtWork /\ Reported /\ Standing

-----------------------------------------------------------------------------
(* Frames *)

\* What is written into a file is a value, and not its absence.
LEMMA EntryIsContent ==
    ASSUME NEW f \in Fits, NEW run \in Nat
    PROVE  /\ Entry(f, run) \in [fit : Fits, run : Nat, whole : {TRUE}]
           /\ Entry(f, run) \in [fit : Fits, run : Nat, whole : BOOLEAN]
           /\ Entry(f, run) # Absent
           /\ Entry(f, run).fit = f /\ Entry(f, run).run = run
<1>1. /\ Entry(f, run) \in [fit : Fits, run : Nat, whole : {TRUE}]
      /\ Entry(f, run) \in [fit : Fits, run : Nat, whole : BOOLEAN]
      /\ Entry(f, run).fit = f /\ Entry(f, run).run = run
  BY DEF Entry
<1>2. Entry(f, run) # Absent
  BY <1>1, BlindAssumption
<1>. QED  BY <1>1, <1>2

LEMMA CutIsContent ==
    ASSUME NEW f \in Fits
    PROVE  LET cut == [Entry(f, 0) EXCEPT !.whole = FALSE] IN
             /\ cut \in [fit : Fits, run : Nat, whole : BOOLEAN]
             /\ cut # Absent
<1>. DEFINE cut == [Entry(f, 0) EXCEPT !.whole = FALSE]
<1>1. cut \in [fit : Fits, run : Nat, whole : BOOLEAN]
  BY DEF Entry
<1>. HIDE DEF cut
<1>2. cut # Absent
  BY <1>1, BlindAssumption
<1>. QED  BY <1>1, <1>2 DEF cut

\* Whoever has no lock has nothing to say about the disk.
LEMMA AtRest ==
    ASSUME NEW q \in Processes, at'[q] \in {"idle", "claim"},
           work'[q] = "precommitted"
    PROVE  StepPlace(q)' /\ StepFiles(q)'
BY DEF StepPlace, StepFiles, Running

\* While one command has the lock all others are at rest.
LEMMA Alone ==
    ASSUME Types, Control, AtWork,
           NEW p \in Processes, at[p] \notin {"idle", "claim"},
           NEW q \in Processes, q # p
    PROVE  at[q] \in {"idle", "claim"} /\ work[q] = "precommitted"
BY DEF Types, Control, AtWork, StepPlace

\* A step that leaves the disk alone changes nothing for a command that it
\* leaves alone.
LEMMA Bystander ==
    ASSUME NEW q \in Processes, StepPlace(q), StepFiles(q),
           at'[q] = at[q], work'[q] = work[q], fit'[q] = fit[q],
           initial'[q] = initial[q],
           UNCHANGED diskVars, exposed \subseteq exposed'
    PROVE  StepPlace(q)' /\ StepFiles(q)'
<1>1. Present' = Present /\ Checked(q)' = Checked(q)
  BY DEF diskVars, Present, Checked
<1>2. \A name \in Names : Expected(name)' = Expected(name)
  BY DEF diskVars, Expected, Run, Entry
<1>3. Checked(q) \subseteq Names \/ ~(at[q] \in Running)
  BY DEF StepFiles, Present, Checked
<1>4. StepPlace(q)'
  BY DEF StepPlace, diskVars, Running
<1>5. StepFiles(q)'
  BY <1>1, <1>2, <1>3 DEF StepFiles, diskVars, Running, Entry
<1>. QED  BY <1>4, <1>5

\* ... nor for what is on the disk.
LEMMA DiskStays ==
    ASSUME Lasting, Reported, Standing,
           UNCHANGED <<diskVars, finalized>>, exposed \subseteq exposed'
    PROVE  Lasting' /\ Reported' /\ Standing'
<1>1. Complete => Complete'
  BY DEF Complete, Expected, Run, Entry, diskVars
<1>. QED  BY <1>1 DEF Lasting, Reported, Standing, diskVars

-----------------------------------------------------------------------------
(* Steps that leave the disk alone *)

\* The claim, the first look and the comparison, an end, and the opening of the
\* view.
Local(p) ==
    \/ \E f \in Fits : Begin(p, f) \/ Resume(p, f)
    \/ Claim(p) \/ Continue(p) \/ Verify(p) \/ Open(p) \/ Stop(p)

LEMMA LocalFrame ==
    ASSUME IInv, NEW p \in Processes, Local(p)
    PROVE  /\ UNCHANGED <<diskVars, finalized>>
           /\ exposed \subseteq exposed'
           /\ \A q \in Processes \ {p} :
                /\ at'[q] = at[q] /\ work'[q] = work[q]
                /\ fit'[q] = fit[q] /\ initial'[q] = initial[q]
<1>. USE DEF IInv, Types
<1>1. CASE \E f \in Fits : Begin(p, f)
  BY <1>1 DEF Begin, GoesTo, historyVars
<1>2. CASE \E f \in Fits : Resume(p, f)
  BY <1>2 DEF Resume, GoesTo, historyVars
<1>3. CASE Claim(p)
  BY <1>3 DEF Claim, GoesTo, Ends, processVars, historyVars
<1>4. CASE Continue(p)
  BY <1>4 DEF Continue, GoesTo, Makes, Ends, historyVars
<1>5. CASE Verify(p)
  BY <1>5 DEF Verify, GoesTo, Ends, historyVars
<1>6. CASE Open(p)
  BY <1>6 DEF Open, GoesTo, Makes
<1>7. CASE Stop(p)
  BY <1>7 DEF Stop, GoesTo, Ends, historyVars
<1>. QED  BY <1>1, <1>2, <1>3, <1>4, <1>5, <1>6, <1>7 DEF Local

LEMMA LocalTypes ==
    ASSUME IInv, NEW p \in Processes, Local(p)
    PROVE  Types' /\ Control'
<1>. USE BlindAssumption DEF IInv, Types, Control, Steps, Names, diskVars,
         boundVars, historyVars, Present
<1>1. CASE \E f \in Fits : Begin(p, f)
  BY <1>1 DEF Begin, GoesTo
<1>2. CASE \E f \in Fits : Resume(p, f)
  BY <1>2 DEF Resume, GoesTo
<1>3. CASE Claim(p)
  BY <1>3 DEF Claim, GoesTo, Ends, processVars
<1>4. CASE Continue(p)
  BY <1>4 DEF Continue, GoesTo, Makes, Ends
<1>5. CASE Verify(p)
  BY <1>5 DEF Verify, GoesTo, Ends
<1>6. CASE Open(p)
  BY <1>6 DEF Open, GoesTo, Makes
<1>7. CASE Stop(p)
  BY <1>7 DEF Stop, GoesTo, Ends
<1>. QED  BY <1>1, <1>2, <1>3, <1>4, <1>5, <1>6, <1>7 DEF Local

\* Where a local step leads.
LEMMA LocalWork ==
    ASSUME IInv, NEW p \in Processes, Local(p)
    PROVE  StepPlace(p)' /\ StepFiles(p)'
<1>. USE DEF IInv, Types, Control
<1>. SUFFICES ASSUME ~(at'[p] \in {"idle", "claim"} /\ work'[p] = "precommitted")
     PROVE  StepPlace(p)' /\ StepFiles(p)'
  BY AtRest
<1>0. StepPlace(p) /\ StepFiles(p)
  BY DEF AtWork
<1>1. CASE \E f \in Fits : Begin(p, f)
  BY <1>0, <1>1 DEF Begin, GoesTo, StepPlace
<1>2. CASE \E f \in Fits : Resume(p, f)
  <2>1. PICK f \in Fits : Resume(p, f)
    BY <1>2
  <2>2. work'[p] = "precommitted" /\ place' = "active" /\ Present' = Present
        /\ initial'[p] = Present /\ Present \in Partial \cup {Names}
        /\ at'[p] = IF Present = Names THEN "verify" ELSE "continue"
    BY <2>1, <1>0 DEF Resume, GoesTo, diskVars, Present, StepPlace
  <2>. QED  BY <2>2 DEF StepPlace, StepFiles, Running
<1>3. CASE Claim(p)
  BY <1>0, <1>3 DEF Claim, GoesTo, Ends, processVars, diskVars, StepPlace,
     StepFiles, Running
<1>4. CASE Continue(p)
  <2>1. /\ Matches(p) /\ at'[p] = "make" /\ work'[p] = "running"
        /\ initial'[p] = initial[p] /\ fit'[p] = fit[p]
        /\ UNCHANGED diskVars
    BY <1>4 DEF Continue, Makes, GoesTo, Ends
  <2>2. at[p] = "continue"
    BY <1>4 DEF Continue
  <2>3. Checked(p)' = {"precommitted"}
    BY <2>1 DEF Checked, Before
  <2>4. Present' = initial[p] /\ initial[p] \in Partial
        /\ "precommitted" \in initial[p]
    BY <1>0, <2>1, <2>2 DEF StepFiles, Present, diskVars, Partial
  <2>5. files'["precommitted"] = Entry(fit[p], 0)
        /\ files'["precommitted"] = Expected("precommitted")'
    <3>1. files["precommitted"] = Entry(fit[p], 0)
      BY <2>1 DEF Matches
    <3>2. files'["precommitted"] = Entry(fit[p], 0)
      BY <2>1, <3>1 DEF diskVars
    <3>3. Expected("precommitted")' = Entry(fit[p], 0)
      BY <3>2 DEF Expected, Entry
    <3>. QED  BY <3>2, <3>3
  <2>6. StepPlace(p)'
    BY <1>0, <2>1, <2>2 DEF StepPlace, diskVars, Running
  <2>7. StepFiles(p)'
    BY <2>1, <2>3, <2>4, <2>5 DEF StepFiles, Running, Entry
  <2>. QED  BY <2>6, <2>7
<1>5. CASE Verify(p)
  <2>1. /\ Matches(p) /\ Complete /\ at'[p] = "directory"
        /\ work'[p] = "descriptor" /\ initial'[p] = initial[p]
        /\ fit'[p] = fit[p] /\ UNCHANGED diskVars
    BY <1>5 DEF Verify, GoesTo, Ends
  <2>2. at[p] = "verify"
    BY <1>5 DEF Verify
  <2>3. Checked(p)' = Names
    BY <2>1 DEF Checked, Before, Names
  <2>4. Present' = Names /\ initial[p] \subseteq Names
    BY <1>0, <2>1, <2>2 DEF StepFiles, Present, diskVars
  <2>5. \A name \in Names : files'[name] = Expected(name)'
    BY <2>1 DEF Complete, diskVars, Expected, Run, Entry
  <2>6. StepPlace(p)'
    BY <1>0, <2>1, <2>2 DEF StepPlace, diskVars, Running
  <2>7. files'["precommitted"] = Entry(fit'[p], 0)
    BY <2>1 DEF Matches, diskVars, Entry
  <2>8. StepFiles(p)'
    BY <2>1, <2>3, <2>4, <2>5, <2>7 DEF StepFiles, Running
  <2>. QED  BY <2>6, <2>8
<1>6. CASE Open(p)
  <2>1. /\ at[p] = "open" /\ at'[p] = "make" /\ work'[p] = "report"
        /\ initial'[p] = initial[p] /\ fit'[p] = fit[p]
        /\ UNCHANGED diskVars /\ fit[p] \in exposed'
    BY <1>6 DEF Open, Makes, GoesTo
  <2>2. work[p] = "running" /\ place = "active"
    BY <1>0, <2>1 DEF StepPlace, Running
  <2>3. Checked(p)' = Checked(p) /\ Checked(p) = {"precommitted", "running"}
    BY <2>1, <2>2 DEF Checked, Before
  <2>4. \A name \in Checked(p) : files'[name] = Expected(name)'
    BY <1>0, <2>1 DEF StepFiles, Running, Expected, Run, Entry, diskVars
  <2>5. StepPlace(p)'
    BY <2>1, <2>2 DEF StepPlace, diskVars, Running
  <2>6. initial[p] \in Partial \/ Checked(p) = Names
    BY <1>0, <2>1 DEF StepFiles, Running
  <2>7. Present' = initial'[p] \cup Checked(p)'
    BY <1>0, <2>1, <2>3 DEF StepFiles, Running, Present, diskVars
  <2>8. files'["precommitted"] = Entry(fit'[p], 0)
    BY <1>0, <2>1 DEF StepFiles, Running, diskVars, Entry
  <2>9. StepFiles(p)'
    BY <2>1, <2>3, <2>4, <2>6, <2>7, <2>8 DEF StepFiles, Running
  <2>. QED  BY <2>5, <2>9
<1>7. CASE Stop(p)
  BY <1>7 DEF Stop, Ends, GoesTo
<1>. QED  BY <1>1, <1>2, <1>3, <1>4, <1>5, <1>6, <1>7 DEF Local

LEMMA LocalStep ==
    ASSUME IInv, NEW p \in Processes, Local(p)
    PROVE  IInv'
<1>1. Types' /\ Control'
  BY LocalTypes
<1>2. Lasting' /\ Reported' /\ Standing'
  BY LocalFrame, DiskStays DEF IInv
<1>3. ASSUME NEW q \in Processes
      PROVE  StepPlace(q)' /\ StepFiles(q)'
  <2>1. CASE q = p
    BY <2>1, LocalWork
  <2>2. CASE q # p
    BY <2>2, LocalFrame, Bystander DEF IInv, AtWork
  <2>. QED  BY <2>1, <2>2
<1>4. AtWork'
  BY <1>3 DEF AtWork
<1>. QED  BY <1>1, <1>2, <1>4 DEF IInv

-----------------------------------------------------------------------------
(* Steps that write *)

\* They are of the command with the lock, beside which all others are at rest.
LEMMA Others ==
    ASSUME Types, Control, AtWork,
           NEW p \in Processes, at[p] \notin {"idle", "claim"},
           \A q \in Processes \ {p} : at'[q] = at[q] /\ work'[q] = work[q],
           StepPlace(p)', StepFiles(p)'
    PROVE  AtWork'
<1>1. ASSUME NEW q \in Processes, q # p
      PROVE  StepPlace(q)' /\ StepFiles(q)'
  BY <1>1, Alone, AtRest
<1>. QED  BY <1>1 DEF AtWork

LEMMA PublishStep ==
    ASSUME IInv, NEW p \in Processes, Publish(p)
    PROVE  IInv'
<1>. DEFINE first == Entry(fit[p], 0)
<1>1. /\ at[p] = "publish" /\ place = "none" /\ place' = "active"
      /\ files' = [NoFiles EXCEPT !["precommitted"] = first]
      /\ kept' = {"precommitted"}
      /\ initial' = [initial EXCEPT ![p] = {"precommitted"}]
      /\ at' = [at EXCEPT ![p] = "registry"]
      /\ UNCHANGED <<named, lock, work, fit, made, boundVars, historyVars>>
  BY DEF Publish, GoesTo
<1>2. fit[p] \in Fits /\ work[p] = "precommitted" /\ named = "none"
  BY <1>1 DEF IInv, Control, AtWork, StepPlace, Lasting
<1>3. /\ first \in [fit : Fits, run : Nat, whole : BOOLEAN]
      /\ first # Absent /\ first.fit = fit[p]
  BY <1>2, EntryIsContent
<1>4. /\ files' \in [Names -> [fit : Fits, run : Nat, whole : BOOLEAN]
                               \cup {Absent}]
      /\ files'["precommitted"] = first
      /\ \A name \in Names \ {"precommitted"} : files'[name] = Absent
  BY <1>1, <1>3 DEF NoFiles, Names
<1>5. Present' = {"precommitted"}
  BY <1>3, <1>4 DEF Present, Names
<1>6. Types'
  BY <1>1, <1>4, <1>5 DEF IInv, Types, Places, Steps, Names, boundVars,
     historyVars
<1>7. Control'
  BY <1>1, <1>2 DEF IInv, Types, Control
<1>8. Lasting'
  BY <1>1, <1>2 DEF Lasting
<1>9. Expected("precommitted")' = first
  BY <1>3, <1>4 DEF Expected, Entry
<1>10. /\ at'[p] = "registry" /\ work'[p] = "precommitted"
       /\ initial'[p] = {"precommitted"} /\ fit'[p] = fit[p]
  BY <1>1, <1>2 DEF IInv, Types
<1>11. Checked(p)' = {"precommitted"}
  BY <1>10 DEF Checked, Before
<1>12. StepPlace(p)' /\ StepFiles(p)'
  <2>1. StepPlace(p)'
    BY <1>1, <1>10 DEF StepPlace, Running
  <2>2. files'["precommitted"] = Entry(fit'[p], 0)
    BY <1>4, <1>10
  <2>3. \A name \in Checked(p)' : files'[name] = Expected(name)'
    BY <1>4, <1>9, <1>11
  <2>4. StepFiles(p)'
    BY <1>5, <1>10, <1>11, <2>2, <2>3 DEF StepFiles, Running, Partial
  <2>. QED  BY <2>1, <2>4
<1>13. AtWork'
  BY <1>1, <1>12, Others DEF IInv, Types
<1>14. Reported'
  BY <1>4 DEF Reported, Names
<1>15. Standing'
  BY <1>1 DEF IInv, Standing, historyVars
<1>. QED  BY <1>6, <1>7, <1>8, <1>13, <1>14, <1>15 DEF IInv

LEMMA SyncDirectoryStep ==
    ASSUME IInv, NEW p \in Processes, SyncDirectory(p)
    PROVE  IInv'
<1>1. /\ at[p] = "directory" /\ kept' = Present
      /\ at' = [at EXCEPT ![p] = "registry"]
      /\ UNCHANGED <<place, files, named, lock, processVars, made, boundVars,
                     historyVars>>
  BY DEF SyncDirectory, GoesTo
<1>2. StepPlace(p) /\ StepFiles(p)
  BY DEF IInv, AtWork
<1>3. /\ Present' = Present /\ Run' = Run
      /\ \A name \in Names : Expected(name)' = Expected(name)
      /\ Complete' = Complete
  BY <1>1 DEF Present, Expected, Run, Entry, Complete
<1>4. at'[p] = "registry" /\ UNCHANGED <<work, fit, initial>>
  BY <1>1 DEF IInv, Types, processVars
<1>5. Checked(p)' = Checked(p) /\ Checked(p) \subseteq Present
  BY <1>1, <1>2, <1>4 DEF Checked, StepFiles, Running
<1>6. "precommitted" \in Present /\ Present \subseteq Names
  BY <1>1, <1>2 DEF IInv, Types, Lasting, Present, StepPlace, Running
<1>7. Types'
  BY <1>1, <1>3, <1>4 DEF IInv, Types, Steps, boundVars, historyVars
<1>8. Control'
  BY <1>1, <1>4 DEF IInv, Types, Control
<1>9. place = "active"
  BY <1>1, <1>2 DEF StepPlace, Running
<1>10. Lasting'
  BY <1>1, <1>6, <1>9 DEF IInv, Lasting
<1>11. StepPlace(p)'
  BY <1>1, <1>2, <1>4, <1>9 DEF StepPlace, Running
<1>12. work[p] = "descriptor" => Checked(p) = Names
  BY <1>1 DEF Checked, Before, Names
<1>13. StepFiles(p)'
  <2>1. /\ initial[p] \in Partial \/ Checked(p) = Names
        /\ Present = initial[p] \cup Checked(p)
        /\ files["precommitted"] = Entry(fit[p], 0)
        /\ \A name \in Checked(p) : files[name] = Expected(name)
    BY <1>1, <1>2 DEF StepFiles, Running
  <2>2. files'["precommitted"] = Entry(fit'[p], 0)
    BY <1>1, <1>4, <2>1
  <2>3. \A name \in Checked(p)' : files'[name] = Expected(name)'
    BY <1>1, <1>3, <1>5, <1>6, <2>1
  <2>4. work'[p] = "descriptor" => kept' = Names
    BY <1>1, <1>4, <1>5, <1>6, <1>12
  <2>. QED  BY <1>3, <1>4, <1>5, <2>1, <2>2, <2>3, <2>4 DEF StepFiles, Running
<1>14. AtWork'
  BY <1>1, <1>4, <1>11, <1>13, Others DEF IInv, Types
<1>15. Reported'
  BY <1>1 DEF IInv, Reported, historyVars
<1>16. Standing'
  BY <1>1, <1>3, <1>6 DEF IInv, Standing, Types, historyVars
<1>. QED  BY <1>7, <1>8, <1>10, <1>14, <1>15, <1>16 DEF IInv

\* Where a command goes on when the registry was synced.
LEMMA GoesOnStep ==
    ASSUME IInv, NEW p \in Processes, at[p] = "registry", GoesOn(p),
           UNCHANGED <<place, files, kept, exposed>>, named' = place
    PROVE  StepPlace(p)' /\ StepFiles(p)'
<1>. USE DEF IInv, Types, Names
<1>1. StepPlace(p) /\ StepFiles(p)
  BY DEF AtWork
<1>2. CASE work[p] = "sealed"
  BY <1>2, AtRest DEF GoesOn, Ends, GoesTo
<1>3. CASE work[p] # "sealed"
  <2>1. /\ UNCHANGED <<fit, initial>>
        /\ \/ /\ work[p] = "precommitted"
              /\ at'[p] = "make" /\ work'[p] = "running"
           \/ /\ work[p] = "running"
              /\ at'[p] = "open" /\ work'[p] = "running"
           \/ /\ work[p] = "report"
              /\ at'[p] = "make" /\ work'[p] = "candidate"
           \/ /\ work[p] = "candidate"
              /\ at'[p] = "make" /\ work'[p] = "sealed"
           \/ /\ work[p] = "descriptor"
              /\ at'[p] = "rename" /\ work'[p] = "descriptor"
    <3>1. CASE work[p] = "precommitted"
      BY <3>1 DEF GoesOn, Makes, GoesTo
    <3>2. CASE work[p] = "running"
      BY <3>2 DEF GoesOn, GoesTo, processVars
    <3>3. CASE work[p] = "report"
      BY <3>3 DEF GoesOn, Makes, GoesTo, Following
    <3>4. CASE work[p] = "candidate"
      BY <3>4 DEF GoesOn, Makes, GoesTo, Following
    <3>5. CASE work[p] = "descriptor"
      BY <3>5 DEF GoesOn, GoesTo, processVars
    <3>. QED  BY <1>3, <3>1, <3>2, <3>3, <3>4, <3>5
  <2>2. Checked(p)' = Checked(p)
    <3>1. CASE work[p] = "precommitted"
      BY <2>1, <3>1 DEF Checked, Before
    <3>2. CASE work[p] = "running"
      BY <2>1, <3>2 DEF Checked, Before
    <3>3. CASE work[p] = "report"
      BY <2>1, <3>3 DEF Checked, Before
    <3>4. CASE work[p] = "candidate"
      BY <2>1, <3>4 DEF Checked, Before
    <3>5. CASE work[p] = "descriptor"
      BY <2>1, <3>5 DEF Checked, Before
    <3>. QED  BY <1>3, <3>1, <3>2, <3>3, <3>4, <3>5
  <2>3. Present' = Present /\ \A name \in Names : Expected(name)' = Expected(name)
    BY DEF Present, Expected, Run, Entry
  <2>4. place = "active" /\ place' = "active" /\ named' = "active"
    BY <1>1, <1>3 DEF StepPlace, Running
  <2>5. StepPlace(p)'
    BY <2>1, <2>4 DEF StepPlace
  <2>6. /\ initial[p] \in Partial \/ Checked(p) = Names
        /\ Present = initial[p] \cup Checked(p)
        /\ files["precommitted"] = Entry(fit[p], 0)
        /\ \A name \in Checked(p) : files[name] = Expected(name)
    BY <1>1 DEF StepFiles, Running
  <2>7. files'["precommitted"] = Entry(fit'[p], 0)
    BY <2>1, <2>6
  <2>8. \A name \in Checked(p)' : files'[name] = Expected(name)'
    BY <2>2, <2>3, <2>6 DEF Present
  <2>9. at'[p] = "rename" => kept' = Names
    BY <1>1, <2>1 DEF StepFiles
  <2>10. at'[p] \in {"make", "open", "rename"}
         /\ (at'[p] = "make" => work'[p] # "report")
    BY <2>1
  <2>11. initial' = initial
    BY <2>1
  <2>. QED  BY <2>2, <2>3, <2>5, <2>6, <2>7, <2>8, <2>9, <2>10, <2>11
            DEF StepFiles, Running
<1>. QED  BY <1>2, <1>3

LEMMA SyncRegistryStep ==
    ASSUME IInv, NEW p \in Processes, SyncRegistry(p)
    PROVE  IInv'
<1>1. /\ at[p] = "registry" /\ named' = place /\ GoesOn(p)
      /\ UNCHANGED <<place, files, kept, made, boundVars, historyVars>>
  BY DEF SyncRegistry
<1>2. place \in {"active", "sealed"}
  BY <1>1 DEF IInv, AtWork, StepPlace, Running
<1>3. /\ at' \in [Processes -> Steps] /\ work' \in [Processes -> Names]
      /\ fit' \in [Processes -> Fits \cup {Absent}]
      /\ initial' \in [Processes -> SUBSET Names]
      /\ \A q \in Processes \ {p} : at'[q] = at[q] /\ work'[q] = work[q]
                                     /\ fit'[q] = fit[q]
      /\ \/ at'[p] = "idle" /\ lock' = IF lock = p THEN Nobody ELSE lock
         \/ at'[p] \in {"make", "open", "rename"} /\ fit' = fit /\ lock' = lock
  <2>. USE <1>1 DEF IInv, Types, Steps, Names
  <2>1. CASE work[p] = "sealed"
    BY <2>1 DEF GoesOn, Ends, GoesTo
  <2>2. CASE work[p] = "precommitted"
    BY <2>2 DEF GoesOn, Makes, GoesTo
  <2>3. CASE work[p] = "report"
    BY <2>3 DEF GoesOn, Makes, GoesTo, Following
  <2>4. CASE work[p] = "candidate"
    BY <2>4 DEF GoesOn, Makes, GoesTo, Following
  <2>5. CASE work[p] = "running"
    BY <2>5 DEF GoesOn, GoesTo, processVars
  <2>6. CASE work[p] = "descriptor"
    BY <2>6 DEF GoesOn, GoesTo, processVars
  <2>. QED  BY <2>1, <2>2, <2>3, <2>4, <2>5, <2>6
<1>4. Types'
  BY <1>1, <1>2, <1>3 DEF IInv, Types, Present, Places, boundVars, historyVars
<1>5. Control'
  BY <1>1, <1>3, BlindAssumption DEF IInv, Types, Control
<1>6. Lasting'
  BY <1>1, <1>2 DEF IInv, Lasting
<1>7. AtWork'
  BY <1>1, <1>3, GoesOnStep, Others DEF IInv, historyVars
<1>8. Reported'
  BY <1>1 DEF IInv, Reported, historyVars
<1>9. Complete' = Complete
  BY <1>1 DEF Complete, Expected, Run, Entry
<1>10. Standing'
  BY <1>1, <1>2, <1>9 DEF IInv, Standing, historyVars
<1>. QED  BY <1>4, <1>5, <1>6, <1>7, <1>8, <1>10 DEF IInv

LEMMA RenameStep ==
    ASSUME IInv, NEW p \in Processes, Rename(p)
    PROVE  IInv'
<1>1. /\ at[p] = "rename" /\ place = "active" /\ place' = "sealed"
      /\ at' = [at EXCEPT ![p] = "registry"]
      /\ work' = [work EXCEPT ![p] = "sealed"]
      /\ UNCHANGED <<files, named, kept, lock, fit, initial, made, boundVars,
                     historyVars>>
  BY DEF Rename, GoesTo
<1>2. StepPlace(p) /\ StepFiles(p)
  BY DEF IInv, AtWork
<1>3. work[p] = "descriptor" /\ named = "active" /\ kept = Names
  BY <1>1, <1>2 DEF StepPlace, StepFiles
<1>4. Types'
  BY <1>1 DEF IInv, Types, Places, Steps, Names, Present, boundVars, historyVars
<1>5. Control'
  BY <1>1 DEF IInv, Types, Control
<1>6. Lasting'
  BY <1>1, <1>3 DEF Lasting, Names
<1>7. at'[p] = "registry" /\ work'[p] = "sealed"
  BY <1>1 DEF IInv, Types
<1>8. /\ Checked(p) = Names /\ Checked(p)' = Names
  BY <1>1, <1>3, <1>7 DEF Checked, Before, Names
<1>9. /\ Present = Names /\ Present' = Names /\ initial[p] \subseteq Names
      /\ \A name \in Names : Expected(name)' = Expected(name)
  BY <1>1, <1>2, <1>8 DEF IInv, Types, StepFiles, Running, Present, Expected,
     Run, Entry
<1>10. StepPlace(p)'
  BY <1>1, <1>7 DEF StepPlace, Running
<1>11. StepFiles(p)'
  <2>1. /\ files["precommitted"] = Entry(fit[p], 0)
        /\ \A name \in Names : files[name] = Expected(name)
    BY <1>1, <1>2, <1>8 DEF StepFiles, Running
  <2>2. files'["precommitted"] = Entry(fit'[p], 0)
    BY <1>1, <2>1
  <2>3. \A name \in Names : files'[name] = Expected(name)'
    BY <1>1, <1>9, <2>1
  <2>4. Present' = initial'[p] \cup Checked(p)'
    BY <1>1, <1>8, <1>9
  <2>. QED  BY <1>7, <1>8, <2>2, <2>3, <2>4 DEF StepFiles, Running
<1>12. AtWork'
  BY <1>1, <1>10, <1>11, Others DEF IInv, Types
<1>13. Reported'
  BY <1>1 DEF IInv, Reported, historyVars
<1>14. Complete' = Complete
  BY <1>1 DEF Complete, Expected, Run, Entry
<1>15. Standing'
  BY <1>1, <1>14 DEF IInv, Standing, historyVars
<1>. QED  BY <1>4, <1>5, <1>6, <1>12, <1>13, <1>15 DEF IInv

\* A command that makes a file has those before it, and none that it has not
\* found or made.
LEMMA AtMake ==
    ASSUME IInv, NEW p \in Processes, at[p] = "make"
    PROVE  /\ work[p] \in Names \ {"precommitted"}
           /\ place = "active" /\ lock = p /\ fit[p] \in Fits
           /\ files["precommitted"] = Entry(fit[p], 0)
           /\ initial[p] \in Partial
           /\ Present = initial[p] \cup Before[work[p]]
           /\ \A name \in Before[work[p]] : files[name] = Expected(name)
           /\ work[p] \notin initial[p] => files[work[p]] = Absent
           /\ work[p] = "report" => fit[p] \in exposed
<1>1. StepPlace(p) /\ StepFiles(p)
  BY DEF IInv, AtWork
<1>2. /\ work[p] \in Names \ {"precommitted"} /\ place = "active"
      /\ lock = p /\ fit[p] \in Fits
  BY <1>1 DEF IInv, Types, Control, StepPlace, Running
<1>3. Checked(p) = Before[work[p]]
  BY DEF Checked
<1>4. Before[work[p]] # Names /\ work[p] \notin Before[work[p]]
  BY <1>2 DEF Before, Names
<1>5. /\ files["precommitted"] = Entry(fit[p], 0)
      /\ initial[p] \in Partial
      /\ Present = initial[p] \cup Before[work[p]]
      /\ \A name \in Before[work[p]] : files[name] = Expected(name)
      /\ work[p] = "report" => fit[p] \in exposed
  BY <1>1, <1>3, <1>4 DEF StepFiles, Running
<1>6. work[p] \notin initial[p] => files[work[p]] = Absent
  BY <1>2, <1>4, <1>5 DEF Present
<1>. QED  BY <1>2, <1>5, <1>6

\* ... and goes on to the next one when it has this one.
LEMMA NextName ==
    ASSUME NEW name \in {"report", "candidate", "sealed"}
    PROVE  /\ Following[name] \in Names \ {"precommitted", "report"}
           /\ Before[Following[name]] = Before[name] \cup {name}
<1>1. CASE name = "report"
  BY <1>1 DEF Following, Before, Names
<1>2. CASE name = "candidate"
  BY <1>2 DEF Following, Before, Names
<1>3. CASE name = "sealed"
  BY <1>3 DEF Following, Before, Names
<1>. QED  BY <1>1, <1>2, <1>3

\* A file that was found is the one the command would make.
LEMMA FoundStep ==
    ASSUME IInv, NEW p \in Processes, Make(p), work[p] \in initial[p]
    PROVE  IInv'
<1>. DEFINE name == work[p]
<1>1. /\ at[p] = "make"
      /\ IF files[name] # Expected(name) THEN Ends(p)
         ELSE /\ IF name = "running"
                 THEN GoesTo(p, "open") /\ UNCHANGED work
                 ELSE Makes(p, Following[name])
              /\ UNCHANGED <<lock, fit, initial>>
      /\ UNCHANGED <<files, made>>
      /\ UNCHANGED <<place, named, kept, boundVars, historyVars>>
  BY DEF Make
<1>2. /\ name \in Names \ {"precommitted"}
      /\ place = "active" /\ lock = p /\ fit[p] \in Fits
      /\ files["precommitted"] = Entry(fit[p], 0)
      /\ initial[p] \in Partial
      /\ Present = initial[p] \cup Before[name]
      /\ \A other \in Before[name] : files[other] = Expected(other)
  BY <1>1, AtMake
<1>3. name \in {"running", "report", "candidate"}
  BY <1>2 DEF Partial
<1>4. CASE files[name] # Expected(name)
  <2>1. Ends(p) /\ UNCHANGED <<diskVars, made, boundVars, historyVars>>
    BY <1>1, <1>4 DEF diskVars
  <2>2. Types' /\ Control'
    BY <2>1, BlindAssumption DEF Ends, GoesTo, IInv, Types, Control, Steps,
       Names, Present, diskVars, boundVars, historyVars
  <2>3. Lasting' /\ Reported' /\ Standing'
    BY <2>1, DiskStays DEF IInv, historyVars
  <2>4. /\ at'[p] = "idle" /\ work'[p] = "precommitted"
        /\ \A q \in Processes \ {p} : at'[q] = at[q] /\ work'[q] = work[q]
    BY <2>1 DEF Ends, GoesTo, IInv, Types
  <2>5. AtWork'
    BY <1>1, <2>4, AtRest, Others DEF IInv
  <2>. QED  BY <2>2, <2>3, <2>5 DEF IInv
<1>5. CASE files[name] = Expected(name)
  <2>1. /\ UNCHANGED <<diskVars, lock, fit, initial, made, boundVars, historyVars>>
        /\ \/ /\ name = "running" /\ at' = [at EXCEPT ![p] = "open"]
              /\ work' = work
           \/ /\ name \in {"report", "candidate"} /\ at' = [at EXCEPT ![p] = "make"]
              /\ work' = [work EXCEPT ![p] = Following[name]]
    BY <1>1, <1>3, <1>5 DEF GoesTo, Makes, diskVars
  <2>2. /\ name \in {"report", "candidate"} =>
             /\ Following[name] \in Names \ {"precommitted", "report"}
             /\ Before[Following[name]] = Before[name] \cup {name}
    BY NextName
  <2>3. Types' /\ Control'
    <3>1. work' \in [Processes -> Names] /\ at' \in [Processes -> Steps]
      BY <2>1, <2>2 DEF IInv, Types, Steps
    <3>2. Control'
      BY <1>1, <2>1 DEF IInv, Types, Control
    <3>. QED  BY <2>1, <3>1, <3>2 DEF IInv, Types, Present, diskVars,
              boundVars, historyVars
  <2>4. Lasting' /\ Reported' /\ Standing'
    BY <2>1, DiskStays DEF IInv, historyVars
  <2>5. /\ at'[p] = IF name = "running" THEN "open" ELSE "make"
        /\ work'[p] = IF name = "running" THEN name ELSE Following[name]
        /\ \A q \in Processes \ {p} : at'[q] = at[q] /\ work'[q] = work[q]
    BY <1>3, <2>1 DEF IInv, Types
  <2>6. Checked(p)' = Before[name] \cup {name}
    BY <1>3, <2>2, <2>5 DEF Checked
  <2>7. /\ Present' = Present
        /\ \A other \in Names : Expected(other)' = Expected(other)
    BY <2>1 DEF Present, Expected, Run, Entry, diskVars
  <2>8. Before[name] \subseteq Names
    BY <1>3 DEF Before, Names
  <2>9. StepPlace(p)'
    BY <1>2, <1>3, <2>1, <2>2, <2>5 DEF StepPlace, Running, diskVars
  <2>10. StepFiles(p)'
    <3>1. Present' = initial'[p] \cup Checked(p)'
      BY <1>2, <2>1, <2>6, <2>7
    <3>2. files'["precommitted"] = Entry(fit'[p], 0)
      BY <1>2, <2>1 DEF diskVars
    <3>3. \A other \in Checked(p)' : files'[other] = Expected(other)'
      BY <1>2, <1>5, <2>1, <2>6, <2>7, <2>8 DEF diskVars
    <3>4. at'[p] \in {"open", "make"} /\ work'[p] # "report"
      BY <1>3, <2>2, <2>5
    <3>. QED  BY <1>2, <2>1, <3>1, <3>2, <3>3, <3>4 DEF StepFiles, Running
  <2>11. AtWork'
    BY <1>1, <2>5, <2>9, <2>10, Others DEF IInv
  <2>. QED  BY <2>3, <2>4, <2>11 DEF IInv
<1>. QED  BY <1>4, <1>5

\* A file that was not found is created, of the candidate and its run.
LEMMA CreateStep ==
    ASSUME IInv, NEW p \in Processes, Make(p), work[p] \notin initial[p]
    PROVE  IInv'
<1>a. PICK name : name = work[p]
  OBVIOUS
<1>b. PICK f : f = fit[p]
  OBVIOUS
<1>c. PICK run : run = IF name = "running" THEN made + 1 ELSE Run
  OBVIOUS
<1>. DEFINE new == Entry(f, run)
<1>1. /\ at[p] = "make" /\ files[name] = Absent
      /\ files' = [files EXCEPT ![name] = new]
      /\ made' = IF name = "running" THEN made + 1 ELSE made
      /\ IF name = "sealed" THEN Makes(p, "descriptor")
         ELSE GoesTo(p, "directory") /\ UNCHANGED work
      /\ UNCHANGED <<lock, fit, initial>>
      /\ UNCHANGED <<place, named, kept, boundVars, historyVars>>
  BY <1>a, <1>b, <1>c DEF Make
<1>2. /\ name \in Names \ {"precommitted"}
      /\ place = "active" /\ lock = p /\ f \in Fits
      /\ files["precommitted"] = Entry(f, 0)
      /\ initial[p] \in Partial
      /\ Present = initial[p] \cup Before[name]
      /\ \A other \in Before[name] : files[other] = Expected(other)
      /\ name = "report" => f \in exposed
  BY <1>1, <1>a, <1>b, AtMake
<1>3. Before[name] \subseteq Names \ {name} /\ "precommitted" \in Before[name]
      /\ (name # "running" => "running" \in Before[name])
      /\ (name = "running" => Before[name] = {"precommitted"})
  BY <1>2 DEF Before, Names
<1>4. run \in Nat /\ (name # "running" => run = Run)
  <2>1. CASE name = "running"
    BY <1>c, <2>1 DEF IInv, Types
  <2>2. CASE name # "running"
    <3>1. "running" \in Present
      BY <1>2, <1>3, <2>2
    <3>2. files["running"] \in [fit : Fits, run : Nat, whole : BOOLEAN]
      BY <3>1 DEF Present, IInv, Types
    <3>. QED  BY <1>c, <2>2, <3>2 DEF Run
  <2>. QED  BY <1>c, <2>1, <2>2
<1>5. /\ new \in [fit : Fits, run : Nat, whole : BOOLEAN]
      /\ new # Absent /\ new.run = run
  BY <1>2, <1>4, EntryIsContent
<1>6. /\ files' \in [Names -> [fit : Fits, run : Nat, whole : BOOLEAN]
                               \cup {Absent}]
      /\ files'[name] = new
      /\ \A other \in Names \ {name} : files'[other] = files[other]
  BY <1>1, <1>2, <1>5 DEF IInv, Types
<1>7. Present' = Present \cup {name}
  BY <1>2, <1>5, <1>6 DEF Present
<1>8. files'["precommitted"] = Entry(f, 0)
  BY <1>2, <1>6 DEF Names
<1>9. Run' = run
  <2>1. CASE name = "running"
    BY <1>5, <1>6, <2>1 DEF Run
  <2>2. CASE name # "running"
    BY <1>4, <1>6, <2>2 DEF Run, Names
  <2>. QED  BY <2>1, <2>2
<1>10. Entry(f, 0).fit = f
  BY DEF Entry
<1>11. Expected(name)' = new
  BY <1>2, <1>8, <1>9, <1>10 DEF Expected, Names
<1>12. \A other \in Before[name] : Expected(other)' = Expected(other)
  <2>1. CASE name = "running"
    BY <1>2, <1>3, <1>8, <2>1 DEF Expected
  <2>2. CASE name # "running"
    BY <1>2, <1>4, <1>8, <1>9, <2>2 DEF Expected
  <2>. QED  BY <2>1, <2>2
<1>13. \/ /\ name = "sealed" /\ at' = [at EXCEPT ![p] = "make"]
          /\ work' = [work EXCEPT ![p] = "descriptor"]
       \/ /\ name # "sealed" /\ at' = [at EXCEPT ![p] = "directory"]
          /\ work' = work
  BY <1>1 DEF Makes, GoesTo
<1>14. /\ at'[p] = IF name = "sealed" THEN "make" ELSE "directory"
       /\ work'[p] = IF name = "sealed" THEN "descriptor" ELSE name
       /\ \A q \in Processes \ {p} : at'[q] = at[q] /\ work'[q] = work[q]
  BY <1>13, <1>a DEF IInv, Types
<1>15. Checked(p)' = Before[name] \cup {name}
  <2>1. CASE name = "sealed"
    BY <1>14, <2>1 DEF Checked, Before, Names
  <2>2. CASE name # "sealed"
    BY <1>14, <2>2 DEF Checked
  <2>. QED  BY <2>1, <2>2
<1>16. Types'
  <2>1. at' \in [Processes -> Steps] /\ work' \in [Processes -> Names]
    BY <1>13 DEF IInv, Types, Steps, Names
  <2>2. kept' \subseteq Present' /\ made' \in Nat
    BY <1>1, <1>7 DEF IInv, Types
  <2>. QED  BY <1>1, <1>6, <2>1, <2>2 DEF IInv, Types, boundVars, historyVars
<1>17. Control'
  BY <1>1, <1>13 DEF IInv, Types, Control
<1>18. Lasting'
  BY <1>1, <1>2 DEF IInv, Lasting
<1>19. StepPlace(p)'
  BY <1>1, <1>2, <1>14 DEF StepPlace, Running
<1>20. StepFiles(p)'
  <2>1. Present' = initial'[p] \cup Checked(p)'
    BY <1>1, <1>2, <1>7, <1>15
  <2>2. files'["precommitted"] = Entry(fit'[p], 0)
    BY <1>1, <1>b, <1>8
  <2>3. \A other \in Checked(p)' : files'[other] = Expected(other)'
    <3>1. files'[name] = Expected(name)'
      BY <1>6, <1>11
    <3>2. \A other \in Before[name] : files'[other] = Expected(other)'
      BY <1>2, <1>3, <1>6, <1>12
    <3>. QED  BY <1>15, <3>1, <3>2
  <2>4. /\ at'[p] \in {"make", "directory"}
        /\ at'[p] = "make" => work'[p] # "report"
    BY <1>14
  <2>. QED  BY <1>1, <1>2, <2>1, <2>2, <2>3, <2>4 DEF StepFiles, Running
<1>21. AtWork'
  BY <1>1, <1>14, <1>19, <1>20, Others DEF IInv
<1>22. Reported'
  <2>1. files'["precommitted"].fit = f /\ files["precommitted"].fit = f
    BY <1>2, <1>8, <1>10
  <2>2. CASE name = "report"
    BY <1>1, <1>2, <2>1, <2>2 DEF Reported, historyVars
  <2>3. CASE name # "report"
    BY <1>1, <1>6, <2>1, <2>3 DEF IInv, Reported, Names, historyVars
  <2>. QED  BY <2>2, <2>3
<1>23. Standing'
  BY <1>1, <1>2 DEF IInv, Standing, Complete, historyVars
<1>. QED  BY <1>16, <1>17, <1>18, <1>21, <1>22, <1>23 DEF IInv

LEMMA CutStep ==
    ASSUME IInv, NEW p \in Processes, Cut(p)
    PROVE  IInv'
<1>. DEFINE name == work[p]
            cut == [Entry(fit[p], 0) EXCEPT !.whole = FALSE]
<1>1. /\ at[p] = "make" /\ name \notin initial[p]
      /\ faults' = faults + 1
      /\ files' = [files EXCEPT ![name] = cut]
      /\ Ends(p)
      /\ UNCHANGED <<place, named, kept, made, losses, historyVars>>
  BY DEF Cut
<1>2. /\ name \in Names \ {"precommitted"} /\ files[name] = Absent
      /\ place = "active" /\ lock = p /\ fit[p] \in Fits
      /\ files["precommitted"] = Entry(fit[p], 0)
      /\ name = "report" => fit[p] \in exposed
  BY <1>1, AtMake
<1>3. cut \in [fit : Fits, run : Nat, whole : BOOLEAN] /\ cut # Absent
  BY <1>2, CutIsContent
<1>4. /\ files' \in [Names -> [fit : Fits, run : Nat, whole : BOOLEAN]
                               \cup {Absent}]
      /\ files'[name] = cut
      /\ \A other \in Names \ {name} : files'[other] = files[other]
  BY <1>1, <1>2, <1>3 DEF IInv, Types
<1>5. Present' = Present \cup {name}
  BY <1>2, <1>3, <1>4 DEF Present
<1>6. Types'
  BY <1>1, <1>4, <1>5, BlindAssumption DEF IInv, Types, Ends, GoesTo, Steps,
     Names, historyVars
<1>7. Control'
  BY <1>1, BlindAssumption DEF IInv, Types, Control, Ends, GoesTo
<1>8. Lasting'
  BY <1>1, <1>2 DEF IInv, Lasting
<1>9. /\ at'[p] = "idle" /\ work'[p] = "precommitted"
      /\ \A q \in Processes \ {p} : at'[q] = at[q] /\ work'[q] = work[q]
  BY <1>1 DEF Ends, GoesTo, IInv, Types
<1>10. AtWork'
  BY <1>1, <1>9, AtRest, Others DEF IInv
<1>11. Reported'
  <2>1. /\ files'["precommitted"] = Entry(fit[p], 0)
        /\ Entry(fit[p], 0).fit = fit[p]
    BY <1>2, <1>4 DEF Names, Entry
  <2>2. CASE name = "report"
    BY <1>1, <1>2, <2>1, <2>2 DEF Reported, historyVars
  <2>3. CASE name # "report"
    BY <1>1, <1>2, <1>4, <2>1, <2>3 DEF IInv, Reported, Names, historyVars
  <2>. QED  BY <2>2, <2>3
<1>12. Standing'
  BY <1>1, <1>2 DEF IInv, Standing, Complete, historyVars
<1>. QED  BY <1>6, <1>7, <1>8, <1>10, <1>11, <1>12 DEF IInv

-----------------------------------------------------------------------------
(* The rest of the world *)

\* A sealed directory has all its files, and its name, for good.
LEMMA FinalizeStep ==
    ASSUME IInv, Finalize
    PROVE  IInv'
<1>1. /\ place = "sealed" /\ Complete
      /\ finalized' = finalized \cup {files["candidate"]}
      /\ UNCHANGED <<diskVars, lock, at, processVars, made, boundVars, exposed>>
  BY DEF Finalize
<1>2. Types' /\ Control' /\ Lasting' /\ Reported'
  BY <1>1 DEF IInv, Types, Control, Lasting, Reported, Present, diskVars,
     processVars, boundVars
<1>3. AtWork'
  BY <1>1, Bystander DEF IInv, AtWork, processVars
<1>4. named # "none" /\ kept = Names
  BY <1>1 DEF IInv, Lasting
<1>5. Complete'
  BY <1>1 DEF Complete, Expected, Run, Entry, diskVars
<1>6. Standing'
  BY <1>1, <1>4, <1>5 DEF IInv, Standing, diskVars
<1>. QED  BY <1>2, <1>3, <1>6 DEF IInv

LEMMA PowerLossStep ==
    ASSUME IInv, PowerLoss
    PROVE  IInv'
<1>1. /\ losses' = losses + 1
      /\ place' \in {place, named} /\ named' = place'
      /\ lock' = Nobody
      /\ at' = [p \in Processes |-> "idle"]
      /\ work' = [p \in Processes |-> "precommitted"]
      /\ fit' = [p \in Processes |-> Absent]
      /\ initial' = [p \in Processes |-> {}]
      /\ UNCHANGED <<made, faults, historyVars>>
  BY DEF PowerLoss
<1>2. PICK left \in SUBSET Present :
         /\ kept \subseteq left
         /\ kept' = IF place' = "none" THEN {} ELSE left
         /\ files' = [name \in Names |->
                        IF name \in kept' THEN files[name] ELSE Absent]
  BY DEF PowerLoss
<1>3. Present \subseteq Names /\ \A name \in Present : files[name] # Absent
  BY DEF Present
<1>4. kept' \subseteq Present
  BY <1>2
<1>5. /\ \A name \in kept' : files'[name] = files[name]
      /\ \A name \in Names \ kept' : files'[name] = Absent
  BY <1>2, <1>3, <1>4
<1>6. Present' = kept'
  BY <1>3, <1>4, <1>5 DEF Present
<1>7. files' \in [Names -> [fit : Fits, run : Nat, whole : BOOLEAN]
                           \cup {Absent}]
  BY <1>2 DEF IInv, Types
<1>8. Types'
  BY <1>1, <1>6, <1>7 DEF IInv, Types, Places, Steps, Names, historyVars
<1>9. Control'
  BY <1>1, BlindAssumption DEF Control
<1>10. place' # "none" => place # "none" /\ "precommitted" \in kept'
  BY <1>1, <1>2 DEF IInv, Lasting
<1>11. Lasting'
  <2>1. CASE place' = "none"
    <3>1. files' = NoFiles
      BY <1>2, <2>1 DEF NoFiles
    <3>. QED  BY <1>1, <1>2, <2>1, <3>1 DEF Lasting
  <2>2. CASE place' = "active"
    BY <1>1, <1>10, <2>2 DEF Lasting
  <2>3. CASE place' = "sealed"
    <3>1. kept = Names
      BY <1>1, <2>3 DEF IInv, Lasting, Types, Places
    <3>. QED  BY <1>1, <1>2, <1>3, <2>3, <3>1 DEF Lasting, Names
  <2>. QED  BY <1>8, <2>1, <2>2, <2>3 DEF Types, Places
<1>12. AtWork'
  BY <1>1, AtRest DEF AtWork
<1>13. Reported'
  <2>1. SUFFICES ASSUME files'["report"] # Absent
                 PROVE  files'["precommitted"].fit \in exposed'
    BY DEF Reported
  <2>2. "report" \in kept'
    BY <1>5, <2>1 DEF Names
  <2>3. place' # "none"
    BY <1>2, <2>2
  <2>4. files["report"] # Absent /\ files'["precommitted"] = files["precommitted"]
    BY <1>3, <1>4, <1>5, <1>10, <2>2, <2>3
  <2>. QED  BY <1>1, <2>4 DEF IInv, Reported, historyVars
<1>14. Standing'
  <2>1. SUFFICES ASSUME NEW c \in finalized
                 PROVE  /\ place' # "none" /\ named' # "none" /\ kept' = Names
                        /\ Complete' /\ files'["candidate"] = c
    BY <1>1 DEF Standing, historyVars
  <2>2. /\ place # "none" /\ named # "none" /\ kept = Names
        /\ Complete /\ files["candidate"] = c
    BY DEF IInv, Standing
  <2>3. place' # "none" /\ named' # "none"
    BY <1>1, <2>2
  <2>4. kept' = Names
    BY <1>2, <1>3, <2>2, <2>3
  <2>5. \A name \in Names : files'[name] = files[name]
    BY <1>5, <2>4
  <2>6. \A name \in Names : Expected(name)' = Expected(name)
    BY <2>5 DEF Expected, Run, Names
  <2>7. Complete'
    BY <2>2, <2>5, <2>6 DEF Complete
  <2>. QED  BY <2>2, <2>3, <2>4, <2>5, <2>7 DEF Names
<1>. QED  BY <1>8, <1>9, <1>11, <1>12, <1>13, <1>14 DEF IInv

-----------------------------------------------------------------------------
(* The invariant *)

LEMMA InitHolds == Init => IInv
<1>. SUFFICES ASSUME Init PROVE IInv
  OBVIOUS
<1>1. Types
  BY BlindAssumption DEF Init, Types, Places, Steps, Names, NoFiles, Present
<1>2. Control
  BY BlindAssumption DEF Init, Control
<1>3. Lasting
  BY DEF Init, Lasting
<1>4. AtWork
  BY DEF Init, AtWork, StepPlace, StepFiles, Running
<1>5. Reported /\ Standing
  BY DEF Init, Reported, Standing, NoFiles, Names
<1>. QED  BY <1>1, <1>2, <1>3, <1>4, <1>5 DEF IInv

LEMMA Inductive == IInv /\ [Next]_vars => IInv'
<1>. SUFFICES ASSUME IInv, [Next]_vars PROVE IInv'
  OBVIOUS
<1>1. ASSUME NEW p \in Processes, Advance(p) \/ Stop(p) \/ Cut(p)
      PROVE  IInv'
  <2>1. CASE Local(p)
    BY <2>1, LocalStep
  <2>2. CASE Publish(p)
    BY <2>2, PublishStep
  <2>3. CASE Make(p)
    BY <2>3, FoundStep, CreateStep
  <2>4. CASE SyncDirectory(p)
    BY <2>4, SyncDirectoryStep
  <2>5. CASE SyncRegistry(p)
    BY <2>5, SyncRegistryStep
  <2>6. CASE Rename(p)
    BY <2>6, RenameStep
  <2>7. CASE Cut(p)
    BY <2>7, CutStep
  <2>. QED  BY <1>1, <2>1, <2>2, <2>3, <2>4, <2>5, <2>6, <2>7
            DEF Advance, Local
<1>2. ASSUME NEW p \in Processes, NEW f \in Fits, Begin(p, f) \/ Resume(p, f)
      PROVE  IInv'
  BY <1>2, LocalStep DEF Local
<1>3. CASE UNCHANGED vars
  <2>1. Types' /\ Control' /\ Reported' /\ Lasting' /\ Standing'
    <3>1. UNCHANGED <<diskVars, finalized>> /\ exposed' = exposed
      BY <1>3 DEF vars, historyVars
    <3>2. Lasting' /\ Reported' /\ Standing'
      BY <3>1, DiskStays DEF IInv
    <3>3. Types' /\ Control'
      BY <1>3 DEF IInv, Types, Control, Present, vars, diskVars, processVars,
         boundVars, historyVars
    <3>. QED  BY <3>2, <3>3
  <2>2. AtWork'
    BY <1>3, Bystander DEF IInv, AtWork, vars, processVars, historyVars
  <2>. QED  BY <2>1, <2>2 DEF IInv
<1>. QED  BY <1>1, <1>2, <1>3, FinalizeStep, PowerLossStep DEF Next

\* The inductive invariant: what a command has found, made and compared at its
\* step, and what of the registered run a loss of power may take back
\* (_continue_blind_run, _finalize_calibration_at).
THEOREM InvariantHolds == Spec => []IInv
BY InitHolds, Inductive, PTL DEF Spec

\* The type invariant of the blind runs.
THEOREM TypeCorrect == Spec => []TypeOK
<1>1. IInv => TypeOK
  BY DEF IInv, Types, TypeOK
<1>. QED  BY <1>1, InvariantHolds, PTL

\* A calibration that was finalized stays the one of the registered run, which
\* stays complete, through any later kill, resume, begin or loss of power
\* (_finalize_calibration_at, _fsync, _rename_no_replace).
THEOREM FinalizedIsForGood == Spec => []FinalizedStands
<1>1. IInv => FinalizedStands
  BY DEF IInv, Standing, FinalizedStands
<1>. QED  BY <1>1, InvariantHolds, PTL

-----------------------------------------------------------------------------
(* Refinement *)

\* Until a loss of power, a step keeps the commitment and shows or concludes
\* nothing, except the three that the promise names.
LEMMA Keeps ==
    ASSUME UNCHANGED <<exposed, losses>>, place' = place,
           files'["precommitted"] = files["precommitted"],
           place = "sealed" => files' = files
    PROVE  UNCHANGED Exposure!vars
BY DEF Exposure!vars

LEMMA StepRefines ==
    IInv /\ [Next]_vars => [Exposure!Next]_(Exposure!vars)
<1>. SUFFICES ASSUME IInv, [Next]_vars
              PROVE  Exposure!Next \/ UNCHANGED Exposure!vars
  OBVIOUS
<1>1. ASSUME NEW p \in Processes, Local(p), ~Open(p)
      PROVE  UNCHANGED Exposure!vars
  <2>1. UNCHANGED <<diskVars, exposed, losses>>
    BY <1>1 DEF Local, Begin, Resume, Claim, Continue, Verify, Stop, boundVars,
       historyVars
  <2>. QED  BY <2>1, Keeps DEF diskVars
<1>2. ASSUME NEW p \in Processes, Open(p)
      PROVE  Exposure!Next
  <2>1. /\ at[p] = "open" /\ exposed' = exposed \cup {fit[p]}
        /\ UNCHANGED <<diskVars, boundVars>>
    BY <1>2 DEF Open
  <2>2. /\ place = "active" /\ files["precommitted"] = Entry(fit[p], 0)
        /\ fit[p] \in Fits
    BY <2>1 DEF IInv, Control, AtWork, StepPlace, StepFiles, Running
  <2>3. files["precommitted"].fit = fit[p] /\ fit[p] # Absent
    BY <2>2, BlindAssumption DEF Entry
  <2>4. Exposure!Expose
    BY <2>1, <2>2, <2>3 DEF Exposure!Expose, diskVars, boundVars
  <2>. QED  BY <2>4 DEF Exposure!Next
<1>3. ASSUME NEW p \in Processes, Publish(p)
      PROVE  Exposure!Next
  <2>1. /\ at[p] = "publish" /\ place = "none" /\ place' = "active"
        /\ files' = [NoFiles EXCEPT !["precommitted"] = Entry(fit[p], 0)]
        /\ UNCHANGED <<exposed, losses>>
    BY <1>3 DEF Publish, boundVars, historyVars
  <2>2. fit[p] \in Fits
    BY <2>1 DEF IInv, Control
  <2>3. files'["precommitted"].fit = fit[p]
    BY <2>1 DEF NoFiles, Names, Entry
  <2>4. Exposure!Commit(fit[p])
    BY <2>1, <2>3 DEF Exposure!Commit
  <2>. QED  BY <2>2, <2>4 DEF Exposure!Next
<1>4. ASSUME NEW p \in Processes, Make(p) \/ Cut(p)
      PROVE  UNCHANGED Exposure!vars
  <2>1. at[p] = "make" /\ UNCHANGED <<place, exposed, losses>>
    BY <1>4 DEF Make, Cut, boundVars, historyVars
  <2>2. place = "active" /\ work[p] # "precommitted"
    BY <2>1, AtMake
  <2>3. files'["precommitted"] = files["precommitted"]
    BY <1>4, <2>2 DEF Make, Cut, IInv, Types, Names
  <2>. QED  BY <2>1, <2>2, <2>3, Keeps
<1>5. ASSUME NEW p \in Processes, SyncDirectory(p) \/ SyncRegistry(p)
      PROVE  UNCHANGED Exposure!vars
  <2>1. UNCHANGED <<place, files, exposed, losses>>
    BY <1>5 DEF SyncDirectory, SyncRegistry, boundVars, historyVars
  <2>. QED  BY <2>1, Keeps
<1>6. ASSUME NEW p \in Processes, Rename(p)
      PROVE  Exposure!Next
  <2>1. /\ at[p] = "rename" /\ place = "active" /\ place' = "sealed"
        /\ UNCHANGED <<files, exposed, losses>>
    BY <1>6 DEF Rename, boundVars, historyVars
  <2>2. StepPlace(p) /\ StepFiles(p) /\ fit[p] \in Fits
    BY <2>1 DEF IInv, AtWork, Control
  <2>3. Checked(p) = Names
    BY <2>1, <2>2 DEF StepPlace, Checked, Before, Names
  <2>4. /\ files["precommitted"] = Entry(fit[p], 0)
        /\ Present = Names
        /\ \A name \in Names : files[name] = Expected(name)
    BY <2>1, <2>2, <2>3 DEF StepFiles, Running, Present
  <2>5. files["precommitted"].fit = fit[p] /\ fit[p] # Absent
    BY <2>2, <2>4, BlindAssumption DEF Entry
  <2>6. fit[p] \in exposed
    BY <2>4, <2>5 DEF IInv, Reported, Present, Names
  <2>7. files["candidate"] = Entry(fit[p], Run)
    BY <2>4, <2>5 DEF Expected, Names
  <2>8. files["running"] \in [fit : Fits, run : Nat, whole : BOOLEAN]
    BY <2>4 DEF IInv, Types, Present, Names
  <2>9. files["candidate"] \in [fit : Fits, run : Nat, whole : {TRUE}]
        /\ files["candidate"].fit = fit[p]
    <3>1. Run \in Nat
      BY <2>8 DEF Run
    <3>2. /\ Entry(fit[p], Run) \in [fit : Fits, run : Nat, whole : {TRUE}]
          /\ Entry(fit[p], Run).fit = fit[p]
      BY <2>2, <3>1, EntryIsContent
    <3>. QED  BY <2>7, <3>2
  <2>10. Exposure!Conclude
    BY <2>1, <2>5, <2>6, <2>9 DEF Exposure!Conclude
  <2>. QED  BY <2>10 DEF Exposure!Next
<1>7. ASSUME Finalize
      PROVE  UNCHANGED Exposure!vars
  <2>1. UNCHANGED <<diskVars, exposed, losses>>
    BY <1>7 DEF Finalize, boundVars
  <2>. QED  BY <2>1, Keeps DEF diskVars
<1>8. ASSUME PowerLoss
      PROVE  Exposure!Next
  <2>1. /\ losses' = losses + 1 /\ exposed' = exposed
        /\ place' \in {place, named}
    BY <1>8 DEF PowerLoss, historyVars
  <2>2. PICK left \in SUBSET Present :
           /\ kept \subseteq left
           /\ kept' = IF place' = "none" THEN {} ELSE left
           /\ files' = [name \in Names |->
                          IF name \in kept' THEN files[name] ELSE Absent]
    BY <1>8 DEF PowerLoss
  <2>3. place' # "none" =>
          place # "none" /\ files'["precommitted"] = files["precommitted"]
    BY <2>1, <2>2 DEF IInv, Lasting, Names
  <2>4. place' = "sealed" =>
          place = "sealed" /\ files'["candidate"] \in {files["candidate"], Absent}
    BY <2>1, <2>2 DEF IInv, Lasting, Types, Places, Names
  <2>5. place # "none" => files["precommitted"].fit # Absent
    <3>1. SUFFICES ASSUME place # "none"
                   PROVE  files["precommitted"].fit \in Fits
      BY BlindAssumption
    <3>2. "precommitted" \in Present
      BY <3>1 DEF IInv, Types, Lasting
    <3>. QED  BY <3>2 DEF IInv, Types, Present
  <2>6. Exposure!Lose
    BY <2>1, <2>3, <2>4, <2>5 DEF Exposure!Lose
  <2>. QED  BY <2>6 DEF Exposure!Next
<1>9. CASE UNCHANGED vars
  BY <1>9, Keeps DEF vars, diskVars, boundVars, historyVars
<1>10. ASSUME NEW p \in Processes, Advance(p) \/ Stop(p) \/ Cut(p)
       PROVE  Exposure!Next \/ UNCHANGED Exposure!vars
  BY <1>1, <1>2, <1>3, <1>4, <1>5, <1>6, <1>10 DEF Advance, Local
<1>11. ASSUME NEW p \in Processes, NEW f \in Fits, Begin(p, f) \/ Resume(p, f)
       PROVE  Exposure!Next \/ UNCHANGED Exposure!vars
  BY <1>1, <1>2, <1>11 DEF Local
<1>. QED  BY <1>7, <1>8, <1>9, <1>10, <1>11 DEF Next

\* The registry implements a register of one exposure: only the candidate
\* committed is shown the view and concluded, and only a loss of power takes
\* anything back (_publish_blind_precommit, _continue_blind_run, resume_blind).
THEOREM RegistryRefines == Spec => ImplementsExposure
<1>1. Init => Exposure!Init
  BY DEF Init, Exposure!Init
<1>2. Spec => []IInv
  BY InvariantHolds
<1>. QED  BY <1>1, <1>2, StepRefines, PTL DEF Spec, ImplementsExposure,
          Exposure!Spec
=============================================================================
