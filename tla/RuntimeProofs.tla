---------------------------- MODULE RuntimeProofs ----------------------------
(***************************************************************************)
(* Proofs about the scoring runtime.  About ModelResidency, for any number *)
(* of threads, backends and calls: what a backend's attributes say follows *)
(* from where the thread inside its lock stands, and from that both        *)
(* resident slots are accounted for and a spent snapshot path has a        *)
(* reason.  About the decisions of DecideCommands and ShadowMode, for any  *)
(* number of callers, requests and batches: what a call holds of its       *)
(* request follows from its step, and from that what commands print and    *)
(* what batches write.                                                     *)
(***************************************************************************)
EXTENDS ModelResidency, ShadowMode, SequenceTheorems, FiniteSetTheorems, WellFoundedInduction,
        TLAPS

-----------------------------------------------------------------------------
(* Resident backends.                                                      *)


InLock(t) == at[t] \in SaracuraSteps \cup LayaSteps

\* Where the thread inside the lock of a backend stands.
Where(b) == IF holder[b] = Nobody THEN "rest" ELSE at[holder[b]]

\* ... and in which call.
Doing(b) == IF holder[b] = Nobody THEN "rest" ELSE op[holder[b]]

\* The types of what all calls share.
CallsTypeOK ==
    /\ at \in [Threads ->
         {"idle", "enter", "score"} \cup SaracuraSteps \cup LayaSteps]
    /\ on \in [Threads -> Backends \cup {Nobody}]
    /\ op \in [Threads -> Operations]
    /\ left \in [Threads -> Nat]
    /\ holder \in [Backends -> Threads \cup {Nobody}]

CountsTypeOK ==
    /\ kept \in [Threads -> Nat \cup {Unset}]
    /\ cpu \in Nat
    /\ defect \in Defects

\* A thread is inside the lock of the backend it calls and of no other one.
Control ==
    /\ \A t \in Threads :
         /\ at[t] # "idle" => on[t] \in Backends
         /\ at[t] \in SaracuraSteps \cup {"score"} => on[t] \in Saracura
         /\ at[t] \in LayaSteps => on[t] \in Laya
         /\ at[t] = "score" => op[t] = "score"
         /\ InLock(t) => holder[on[t]] = t
    /\ \A b \in Backends :
         holder[b] # Nobody => InLock(holder[b]) /\ on[holder[b]] = b

Calls == CallsTypeOK /\ Control

Loading == {"runtime", "setThreads", "encoder", "ranker"}
Preparing == {"capsule", "snapshot", "takeSlot"} \cup Loading

Excused(b) == b \in refused \/ defect[b] \in {"runtime", "encoder", "ranker"}

\* What a Saracura backend holds wherever its call stands.
SaracuraOK(b) ==
    /\ sar[b].prepared => sar[b].owns
    /\ Where(b) \in {"rest", "tokenize", "infer"} => sar[b].owns = sar[b].prepared
    /\ Where(b) \in {"capsule", "snapshot", "takeSlot", "restore"} => ~sar[b].owns
    /\ Where(b) \in Loading => sar[b].owns /\ ~sar[b].prepared
    /\ Where(b) \in Preparing => ~sar[b].closed /\ Doing(b) # "close"
    /\ Where(b) \in {"freeSlot", "restore"} =>
          sar[b].closed \/ (~sar[b].prepared /\ Doing(b) # "close")
    /\ Where(b) \in {"snapshot", "takeSlot"} \cup Loading => sar[b].capsule
    /\ Where(b) \in {"takeSlot"} \cup Loading => sar[b].snapshot
    /\ Where(b) \in {"setThreads", "encoder", "ranker"} => sar[b].torch
    /\ Where(b) \in {"tokenize", "infer"} => sar[b].prepared /\ ~sar[b].closed
    /\ Where(b) = "rest" => (sar[b].torch => sar[b].prepared /\ ~sar[b].closed)
    /\ Where(b) = "restore" => ~sar[b].torch
    /\ Where(b) \in {"capsule", "snapshot", "takeSlot", "runtime"} => ~sar[b].torch
    /\ ~sar[b].closed /\ ~sar[b].prepared /\ ~sar[b].path =>
          Excused(b) \/ Where(b) \in {"takeSlot"} \cup Loading

SaracuraSlot ==
    /\ \A b, c \in Saracura : sar[b].owns /\ sar[c].owns => b = c
    /\ sarSlot <=> \E b \in Saracura : sar[b].owns

SaracuraInv ==
    SaracuraTypeOK /\ SaracuraSlot /\ \A b \in Saracura : SaracuraOK(b)

\* A Laya model is resident, being loaded or just dropped.
Holding(b) ==
    laya[b].loaded \/ Where(b) \in {"layaThreads", "weights", "giveBack"}

LayaOK(b) ==
    /\ Where(b) \in {"tokenizer", "layaSlot", "layaThreads", "weights", "giveBack"}
        => ~laya[b].loaded
    /\ Where(b) \in {"layaSlot", "layaThreads", "weights"} => laya[b].receipt
    /\ laya[b].loaded => laya[b].receipt /\ ~laya[b].closed
    /\ Where(b) \in {"tokenizer", "layaSlot", "layaThreads", "weights"} => ~laya[b].closed
    /\ Where(b) = "layaInfer" => laya[b].loaded

LayaSlot ==
    /\ \A b, c \in Laya : Holding(b) /\ Holding(c) => b = c
    /\ (\E b \in Laya : Holding(b)) => layaSlot
    /\ layaSlot => (\E b \in Laya : Holding(b)) \/ lost

LayaInv == LayaTypeOK /\ LayaSlot /\ \A b \in Laya : LayaOK(b)

IInv == Calls /\ CountsTypeOK /\ SaracuraInv /\ LayaInv

-----------------------------------------------------------------------------
(* How a thread enters, goes through and leaves a lock.                    *)

\* The call of t has brought the thread in the lock of its backend to s.
Moved(t, s) ==
    \A b \in Backends :
      /\ Where(b)' = IF b = on[t] THEN s ELSE Where(b)
      /\ b # on[t] => Doing(b)' = Doing(b)

\* No thread in a lock has moved.
Stayed == \A b \in Backends : Where(b)' = Where(b) /\ Doing(b)' = Doing(b)

Fits(t, s) ==
    \/ s \in SaracuraSteps /\ on[t] \in Saracura
    \/ s \in LayaSteps /\ on[t] \in Laya

LEMMA CallFacts ==
    ASSUME Calls, NEW t \in Threads, NEW b \in Backends, NEW m \in Operations,
           Call(t, b, m)
    PROVE  Calls' /\ Stayed
  BY CallsAssumption
  DEF Calls, CallsTypeOK, Control, Call, Stayed, Where, Doing, InLock, SaracuraSteps,
      LayaSteps

LEMMA LockFacts ==
    ASSUME Calls, NEW t \in Threads, NEW s, Fits(t, s), ~InLock(t), at[t] # "idle",
           Lock(t, s)
    PROVE  Calls' /\ Moved(t, s) /\ Where(on[t]) = "rest" /\ on' = on
           /\ \A b \in Backends : b = on[t] => Doing(b)' = op[t]
  BY CallsAssumption, SaracuraAssumption, LayaAssumption, ClassesAssumption
  DEF Calls, CallsTypeOK, Control, Lock, Moved, Where, Doing, InLock, Fits,
      SaracuraSteps, LayaSteps

LEMMA GotoFacts ==
    ASSUME Calls, NEW t \in Threads, NEW s, Fits(t, s), InLock(t), Goto(t, s)
    PROVE  Calls' /\ Moved(t, s) /\ Where(on[t]) = at[t] /\ on' = on
           /\ \A b \in Backends : b = on[t] => Doing(b) = op[t] /\ Doing(b)' = op[t]
  BY CallsAssumption, SaracuraAssumption, LayaAssumption, ClassesAssumption
  DEF Calls, CallsTypeOK, Control, Goto, Moved, Where, Doing, InLock, Fits,
      SaracuraSteps, LayaSteps

LEMMA ScoreFacts ==
    ASSUME Calls, NEW t \in Threads, at[t] = "enter", on[t] \in Saracura,
           op[t] = "score", Goto(t, "score")
    PROVE  Calls' /\ Stayed
  BY CallsAssumption, SaracuraAssumption, ClassesAssumption
  DEF Calls, CallsTypeOK, Control, Goto, Stayed, Where, Doing, InLock, SaracuraSteps,
      LayaSteps

LEMMA UnlockFacts ==
    ASSUME Calls, NEW t \in Threads, NEW s, InLock(t), Unlock(t, s),
           s = "idle" \/ (s = "score" /\ op[t] = "score" /\ on[t] \in Saracura)
    PROVE  Calls' /\ Moved(t, "rest") /\ Where(on[t]) = at[t]
           /\ \A b \in Backends : b = on[t] => Doing(b) = op[t]
  BY CallsAssumption, SaracuraAssumption, ClassesAssumption
  DEF Calls, CallsTypeOK, Control, Unlock, Leave, Moved, Where, Doing, InLock,
      Operations, SaracuraSteps, LayaSteps

LEMMA BounceFacts ==
    ASSUME Calls, NEW t \in Threads, ~InLock(t), at[t] # "idle", Bounce(t)
    PROVE  Calls' /\ Stayed /\ Moved(t, "rest")
  BY CallsAssumption
  DEF Calls, CallsTypeOK, Control, Bounce, Leave, Stayed, Moved, Where, Doing, InLock,
      Operations, SaracuraSteps, LayaSteps

-----------------------------------------------------------------------------
(* What a step that is not theirs leaves alone.                            *)

\* A Saracura step moves no Laya backend, and the other way round.
LEMMA LayaStays ==
    ASSUME IInv, NEW t \in Threads, on[t] \in Saracura, NEW s,
           Moved(t, s) \/ Stayed, UNCHANGED layaVars
    PROVE  LayaInv'
<1>1. \A b \in Laya : Where(b)' = Where(b)
  BY ClassesAssumption DEF Moved, Stayed
<1>2. laya' = laya /\ layaSlot' = layaSlot /\ lost' = lost
  BY DEF layaVars
<1>3. \A b \in Laya : Holding(b)' = Holding(b)
  BY <1>1, <1>2 DEF Holding
<1>4. LayaTypeOK' /\ \A b \in Laya : LayaOK(b)'
  BY <1>1, <1>2 DEF IInv, LayaInv, LayaTypeOK, LayaOK
<1>5. LayaSlot'
  BY <1>2, <1>3 DEF IInv, LayaInv, LayaSlot
<1> QED BY <1>4, <1>5 DEF LayaInv

LEMMA SaracuraStays ==
    ASSUME IInv, NEW t \in Threads, on[t] \in Laya, NEW s,
           Moved(t, s) \/ Stayed, UNCHANGED sarVars, defect' = defect
    PROVE  SaracuraInv'
<1>1. \A b \in Saracura : Where(b)' = Where(b) /\ Doing(b)' = Doing(b)
  BY ClassesAssumption DEF Moved, Stayed
<1>2. sar' = sar /\ sarSlot' = sarSlot /\ refused' = refused
  BY DEF sarVars
<1>3. SaracuraTypeOK' /\ SaracuraSlot'
  BY <1>2 DEF IInv, SaracuraInv, SaracuraTypeOK, SaracuraSlot
<1>4. \A b \in Saracura : SaracuraOK(b)'
  BY <1>1, <1>2 DEF IInv, SaracuraInv, SaracuraOK, Excused
<1> QED BY <1>3, <1>4 DEF SaracuraInv

\* A Saracura step that moves its own backend and leaves new in it.
LEMMA SaracuraMove ==
    ASSUME IInv, NEW t \in Threads, NEW b \in Saracura, on[t] = b, NEW s, Moved(t, s),
           Calls', CountsTypeOK', defect' = defect, UNCHANGED layaVars,
           NEW new \in Attributes, sar' = [sar EXCEPT ![b] = new],
           refused \subseteq refused', refused' \subseteq Saracura,
           \/ new.owns = sar[b].owns /\ sarSlot' = sarSlot
           \/ new.owns /\ ~sarSlot /\ sarSlot' = TRUE
           \/ ~new.owns /\ sarSlot' = (sarSlot /\ ~sar[b].owns),
           SaracuraOK(b)'
    PROVE  IInv'
<1>1. SaracuraTypeOK'
  BY DEF IInv, SaracuraInv, SaracuraTypeOK
<1>2. SaracuraSlot'
  <2>1. /\ sar'[b].owns = new.owns
        /\ \A c \in Saracura \ {b} : sar'[c].owns = sar[c].owns
        /\ new.owns \in BOOLEAN /\ sarSlot \in BOOLEAN
        /\ \A c \in Saracura : sar[c].owns \in BOOLEAN
    BY DEF IInv, SaracuraInv, SaracuraTypeOK, Attributes
  <2>2. SaracuraSlot
    BY DEF IInv, SaracuraInv
  <2>3. CASE new.owns = sar[b].owns /\ sarSlot' = sarSlot
    BY <2>1, <2>2, <2>3 DEF SaracuraSlot
  <2>4. CASE new.owns /\ ~sarSlot /\ sarSlot' = TRUE
    BY <2>1, <2>2, <2>4 DEF SaracuraSlot
  <2>5. CASE ~new.owns /\ sarSlot' = (sarSlot /\ ~sar[b].owns)
    BY <2>1, <2>2, <2>5 DEF SaracuraSlot
  <2> QED BY <2>3, <2>4, <2>5
<1>3. ASSUME NEW c \in Saracura PROVE SaracuraOK(c)'
  <2>1. CASE c = b
    BY <2>1
  <2>2. CASE c # b
    <3>1. Where(c)' = Where(c) /\ Doing(c)' = Doing(c)
      BY <2>2, ClassesAssumption DEF Moved
    <3>2. sar'[c] = sar[c]
      BY <2>2 DEF IInv, SaracuraInv, SaracuraTypeOK
    <3> QED BY <3>1, <3>2 DEF IInv, SaracuraInv, SaracuraOK, Excused
  <2> QED BY <2>1, <2>2
<1> QED BY <1>1, <1>2, <1>3, LayaStays DEF IInv, SaracuraInv

\* A Saracura step that changes the attributes of no backend.
LEMMA SaracuraPass ==
    ASSUME IInv, NEW t \in Threads, NEW b \in Saracura, on[t] = b, NEW s, Moved(t, s),
           Calls', CountsTypeOK', defect' = defect, UNCHANGED <<sar, sarSlot>>,
           UNCHANGED layaVars,
           refused \subseteq refused', refused' \subseteq Saracura,
           SaracuraOK(b)'
    PROVE  IInv'
<1>1. sar[b] \in Attributes /\ sar' = [sar EXCEPT ![b] = sar[b]]
  BY DEF IInv, SaracuraInv, SaracuraTypeOK
<1> QED BY <1>1, SaracuraMove

\* A step of a call in the lock of no backend.
LEMMA NobodyMoved ==
    ASSUME IInv, Stayed, Calls',
           UNCHANGED <<kept, cpu, defect>>, UNCHANGED <<sarVars, layaVars>>
    PROVE  IInv'
<1>1. CountsTypeOK'
  BY DEF IInv, CountsTypeOK
<1>2. SaracuraInv'
  <2>1. SaracuraTypeOK' /\ SaracuraSlot'
    BY DEF IInv, SaracuraInv, SaracuraTypeOK, SaracuraSlot, sarVars
  <2>2. ASSUME NEW b \in Saracura PROVE SaracuraOK(b)'
    <3>1. Where(b)' = Where(b) /\ Doing(b)' = Doing(b)
      BY ClassesAssumption DEF Stayed
    <3> QED BY <3>1 DEF IInv, SaracuraInv, SaracuraOK, Excused, sarVars
  <2> QED BY <2>1, <2>2 DEF SaracuraInv
<1>3. LayaInv'
  <2>1. \A b \in Laya : Where(b)' = Where(b) /\ Holding(b)' = Holding(b)
    BY ClassesAssumption DEF Stayed, Holding, layaVars
  <2> QED BY <2>1 DEF IInv, LayaInv, LayaTypeOK, LayaSlot, LayaOK, layaVars
<1> QED BY <1>1, <1>2, <1>3 DEF IInv

-----------------------------------------------------------------------------
(* One lemma per action of a Saracura call.                                *)

\* What the lemmas of this section use of the invariant.
LEMMA SaracuraMeans ==
    ASSUME IInv, NEW t \in Threads, on[t] \in Saracura
    PROVE  /\ Calls /\ CountsTypeOK /\ SaracuraOK(on[t])
           /\ sar[on[t]] \in Attributes /\ sar \in [Saracura -> Attributes]
           /\ refused \subseteq Saracura /\ sarSlot \in BOOLEAN
           /\ on[t] \in Backends
  BY ClassesAssumption
  DEF IInv, SaracuraInv, SaracuraTypeOK

LEMMA EnterPrepareInv ==
    ASSUME IInv, NEW t \in Threads, NEW b \in Saracura, on[t] = b,
           EnterPrepare(t), UNCHANGED layaVars
    PROVE  IInv'
<1>1. at[t] = "enter" /\ ~InLock(t)
  BY DEF EnterPrepare, SaracuraAt, InLock, SaracuraSteps, LayaSteps
<1>2. UNCHANGED <<kept, cpu, defect>> /\ UNCHANGED <<sarVars, layaVars>>
  BY DEF EnterPrepare
<1>3. CASE Bounce(t)
  BY <1>1, <1>2, <1>3, SaracuraMeans, BounceFacts, NobodyMoved
<1>4. CASE op[t] = "score" /\ Goto(t, "score")
  BY <1>1, <1>2, <1>4, SaracuraMeans, ScoreFacts, NobodyMoved
<1>5. CASE ~Mine(t).closed /\ ~Mine(t).prepared /\ Lock(t, "capsule")
  <2>1. Calls' /\ Moved(t, "capsule") /\ Where(b) = "rest" /\ Doing(b)' = op[t]
    BY <1>1, <1>5, SaracuraMeans, LockFacts DEF Fits, SaracuraSteps
  <2>2. Where(b)' = "capsule" /\ op[t] # "close"
    BY <2>1, SaracuraMeans DEF Moved, EnterPrepare
  <2>3. SaracuraOK(b)'
    BY <1>2, <1>5, <2>1, <2>2, SaracuraMeans
    DEF SaracuraOK, Excused, Mine, sarVars, Preparing, Loading
  <2> QED BY <1>2, <2>1, <2>3, SaracuraMeans, SaracuraPass
          DEF CountsTypeOK, sarVars
<1> QED BY <1>3, <1>4, <1>5 DEF EnterPrepare
\* A step at s inside the lock of b goes on to the next one.
LEMMA SaracuraGoes ==
    ASSUME IInv, NEW t \in Threads, NEW b \in Saracura, on[t] = b,
           at[t] \in SaracuraSteps, NEW next \in SaracuraSteps, Goto(t, next)
    PROVE  /\ Calls' /\ Moved(t, next)
           /\ Where(b) = at[t] /\ Where(b)' = next
           /\ Doing(b) = op[t] /\ Doing(b)' = op[t]
<1>1. /\ Calls' /\ Moved(t, next) /\ Where(b) = at[t]
      /\ Doing(b) = op[t] /\ Doing(b)' = op[t]
  BY SaracuraMeans, GotoFacts DEF Fits, InLock
<1> QED BY <1>1, SaracuraMeans DEF Moved

\* ... or leaves the lock.
LEMMA SaracuraLeaves ==
    ASSUME IInv, NEW t \in Threads, NEW b \in Saracura, on[t] = b,
           at[t] \in SaracuraSteps, NEW next, Unlock(t, next),
           next = "idle" \/ next = AfterPrepare(t)
    PROVE  /\ Calls' /\ Moved(t, "rest")
           /\ Where(b) = at[t] /\ Where(b)' = "rest" /\ Doing(b) = op[t]
<1>1. next = "idle" \/ (next = "score" /\ op[t] = "score")
  BY DEF AfterPrepare
<1>2. Calls' /\ Moved(t, "rest") /\ Where(b) = at[t] /\ Doing(b) = op[t]
  BY <1>1, SaracuraMeans, UnlockFacts DEF InLock
<1> QED BY <1>2, SaracuraMeans DEF Moved

LEMMA VerifyCapsuleInv ==
    ASSUME IInv, NEW t \in Threads, NEW b \in Saracura, on[t] = b,
           VerifyCapsule(t), UNCHANGED layaVars
    PROVE  IInv'
<1>1. at[t] = "capsule" /\ at[t] \in SaracuraSteps
  BY DEF VerifyCapsule, SaracuraAt, SaracuraSteps
<1>2. CountsTypeOK' /\ defect' = defect
  BY SaracuraMeans DEF VerifyCapsule, CountsTypeOK
<1>3. CASE Goto(t, "freeSlot") /\ UNCHANGED sar
  <2>1. /\ Calls' /\ Moved(t, "freeSlot") /\ Where(b) = at[t] /\ Where(b)' = "freeSlot"
        /\ Doing(b) = op[t] /\ Doing(b)' = op[t]
    BY <1>1, <1>3, SaracuraGoes DEF SaracuraSteps
  <2>2. sar' = sar /\ sarSlot' = sarSlot /\ refused \subseteq refused' /\ refused' \subseteq Saracura
    BY <1>1, <1>3, SaracuraMeans DEF VerifyCapsule, sarVars
  <2>3. SaracuraOK(b)'
    BY <1>1, <1>2, <1>3, <2>1, <2>2, SaracuraMeans
    DEF SaracuraOK, Excused, Mine, Preparing, Loading
  <2> QED BY <1>1, <1>2, <2>1, <2>2, <2>3, SaracuraMeans, SaracuraPass
<1>4. CASE Goto(t, "snapshot") /\ Set(t, [Mine(t) EXCEPT !.capsule = TRUE])
  <2>1. /\ Calls' /\ Moved(t, "snapshot") /\ Where(b) = at[t] /\ Where(b)' = "snapshot"
        /\ Doing(b) = op[t] /\ Doing(b)' = op[t]
    BY <1>1, <1>4, SaracuraGoes DEF SaracuraSteps
  <2> DEFINE new == [sar[b] EXCEPT !.capsule = TRUE]
  <2>2. new \in Attributes /\ sar' = [sar EXCEPT ![b] = new]
    BY <1>1, <1>2, <1>4, SaracuraMeans DEF Set, Mine, Attributes, CountsTypeOK
  <2>3. refused \subseteq refused' /\ refused' \subseteq Saracura
    BY <1>1, <1>4, SaracuraMeans DEF VerifyCapsule
  <2>4. sar'[b] = new /\ new.owns = sar[b].owns /\ sarSlot' = sarSlot
    BY <1>1, <1>4, <2>2, SaracuraMeans DEF VerifyCapsule, Mine, Attributes
  <2>5. SaracuraOK(b)'
    BY <1>1, <1>2, <1>4, <2>1, <2>3, <2>4, SaracuraMeans
    DEF SaracuraOK, Excused, Mine, Preparing, Loading, Attributes
  <2> HIDE DEF new
  <2> QED BY <1>1, <1>2, <2>1, <2>2, <2>3, <2>4, <2>5, SaracuraMeans, SaracuraMove
<1> QED BY <1>3, <1>4 DEF VerifyCapsule

LEMMA VerifySnapshotInv ==
    ASSUME IInv, NEW t \in Threads, NEW b \in Saracura, on[t] = b,
           VerifySnapshot(t), UNCHANGED layaVars
    PROVE  IInv'
<1>1. at[t] = "snapshot" /\ at[t] \in SaracuraSteps
  BY DEF VerifySnapshot, SaracuraAt, SaracuraSteps
<1>2. CountsTypeOK' /\ defect' = defect
  BY SaracuraMeans DEF VerifySnapshot, CountsTypeOK
<1>3. CASE /\ ~Mine(t).path \/ defect[on[t]] = "snapshot"
           /\ Goto(t, "freeSlot") /\ UNCHANGED sar
  <2>1. /\ Calls' /\ Moved(t, "freeSlot") /\ Where(b) = at[t] /\ Where(b)' = "freeSlot"
        /\ Doing(b) = op[t] /\ Doing(b)' = op[t]
    BY <1>1, <1>3, SaracuraGoes DEF SaracuraSteps
  <2>2. sar' = sar /\ sarSlot' = sarSlot /\ refused \subseteq refused' /\ refused' \subseteq Saracura
    BY <1>1, <1>3, SaracuraMeans DEF VerifySnapshot, sarVars
  <2>3. SaracuraOK(b)'
    BY <1>1, <1>2, <1>3, <2>1, <2>2, SaracuraMeans
    DEF SaracuraOK, Excused, Mine, Preparing, Loading
  <2> QED BY <1>1, <1>2, <2>1, <2>2, <2>3, SaracuraMeans, SaracuraPass
<1>4. CASE /\ Goto(t, "takeSlot")
           /\ Set(t, [Mine(t) EXCEPT !.snapshot = TRUE, !.path = FALSE])
  <2>1. /\ Calls' /\ Moved(t, "takeSlot") /\ Where(b) = at[t] /\ Where(b)' = "takeSlot"
        /\ Doing(b) = op[t] /\ Doing(b)' = op[t]
    BY <1>1, <1>4, SaracuraGoes DEF SaracuraSteps
  <2> DEFINE new == [sar[b] EXCEPT !.snapshot = TRUE, !.path = FALSE]
  <2>2. new \in Attributes /\ sar' = [sar EXCEPT ![b] = new]
    BY <1>1, <1>2, <1>4, SaracuraMeans DEF Set, Mine, Attributes, CountsTypeOK
  <2>3. refused \subseteq refused' /\ refused' \subseteq Saracura
    BY <1>1, <1>4, SaracuraMeans DEF VerifySnapshot
  <2>4. sar'[b] = new /\ new.owns = sar[b].owns /\ sarSlot' = sarSlot
    BY <1>1, <1>4, <2>2, SaracuraMeans DEF VerifySnapshot, Mine, Attributes
  <2>5. SaracuraOK(b)'
    BY <1>1, <1>2, <1>4, <2>1, <2>3, <2>4, SaracuraMeans
    DEF SaracuraOK, Excused, Mine, Preparing, Loading, Attributes
  <2> HIDE DEF new
  <2> QED BY <1>1, <1>2, <2>1, <2>2, <2>3, <2>4, <2>5, SaracuraMeans, SaracuraMove
<1> QED BY <1>3, <1>4 DEF VerifySnapshot

LEMMA TakeSlotInv ==
    ASSUME IInv, NEW t \in Threads, NEW b \in Saracura, on[t] = b,
           TakeSlot(t), UNCHANGED layaVars
    PROVE  IInv'
<1>1. at[t] = "takeSlot" /\ at[t] \in SaracuraSteps
  BY DEF TakeSlot, SaracuraAt, SaracuraSteps
<1>2. CountsTypeOK' /\ defect' = defect
  BY SaracuraMeans DEF TakeSlot, CountsTypeOK
<1>3. CASE /\ refused' = refused \cup {on[t]}
           /\ Goto(t, "freeSlot") /\ UNCHANGED <<sar, sarSlot>>
  <2>1. /\ Calls' /\ Moved(t, "freeSlot") /\ Where(b) = at[t] /\ Where(b)' = "freeSlot"
        /\ Doing(b) = op[t] /\ Doing(b)' = op[t]
    BY <1>1, <1>3, SaracuraGoes DEF SaracuraSteps
  <2>2. sar' = sar /\ sarSlot' = sarSlot /\ refused \subseteq refused' /\ refused' \subseteq Saracura
    BY <1>1, <1>3, SaracuraMeans DEF TakeSlot, sarVars
  <2>3. SaracuraOK(b)'
    BY <1>1, <1>2, <1>3, <2>1, <2>2, SaracuraMeans
    DEF SaracuraOK, Excused, Mine, Preparing, Loading
  <2> QED BY <1>1, <1>2, <2>1, <2>2, <2>3, SaracuraMeans, SaracuraPass
<1>4. CASE /\ ~sarSlot /\ sarSlot' = TRUE /\ UNCHANGED refused
           /\ Set(t, [Mine(t) EXCEPT !.owns = TRUE]) /\ Goto(t, "runtime")
  <2>1. /\ Calls' /\ Moved(t, "runtime") /\ Where(b) = at[t] /\ Where(b)' = "runtime"
        /\ Doing(b) = op[t] /\ Doing(b)' = op[t]
    BY <1>1, <1>4, SaracuraGoes DEF SaracuraSteps
  <2> DEFINE new == [sar[b] EXCEPT !.owns = TRUE]
  <2>2. new \in Attributes /\ sar' = [sar EXCEPT ![b] = new]
    BY <1>1, <1>2, <1>4, SaracuraMeans DEF Set, Mine, Attributes, CountsTypeOK
  <2>3. refused \subseteq refused' /\ refused' \subseteq Saracura
    BY <1>1, <1>4, SaracuraMeans DEF TakeSlot
  <2>4. sar'[b] = new /\ new.owns /\ ~sarSlot /\ sarSlot' = TRUE
    BY <1>1, <1>4, <2>2, SaracuraMeans DEF TakeSlot, Mine, Attributes
  <2>5. SaracuraOK(b)'
    BY <1>1, <1>2, <1>4, <2>1, <2>3, <2>4, SaracuraMeans
    DEF SaracuraOK, Excused, Mine, Preparing, Loading, Attributes
  <2> HIDE DEF new
  <2> QED BY <1>1, <1>2, <2>1, <2>2, <2>3, <2>4, <2>5, SaracuraMeans, SaracuraMove
<1> QED BY <1>3, <1>4 DEF TakeSlot

LEMMA LoadRuntimeInv ==
    ASSUME IInv, NEW t \in Threads, NEW b \in Saracura, on[t] = b,
           LoadRuntime(t), UNCHANGED layaVars
    PROVE  IInv'
<1>1. at[t] = "runtime" /\ at[t] \in SaracuraSteps
  BY DEF LoadRuntime, SaracuraAt, SaracuraSteps
<1>2. CountsTypeOK' /\ defect' = defect
  BY SaracuraMeans DEF LoadRuntime, CountsTypeOK
<1>3. CASE defect[on[t]] = "runtime" /\ Goto(t, "freeSlot") /\ UNCHANGED sar
  <2>1. /\ Calls' /\ Moved(t, "freeSlot") /\ Where(b) = at[t] /\ Where(b)' = "freeSlot"
        /\ Doing(b) = op[t] /\ Doing(b)' = op[t]
    BY <1>1, <1>3, SaracuraGoes DEF SaracuraSteps
  <2>2. sar' = sar /\ sarSlot' = sarSlot /\ refused \subseteq refused' /\ refused' \subseteq Saracura
    BY <1>1, <1>3, SaracuraMeans DEF LoadRuntime, sarVars
  <2>3. SaracuraOK(b)'
    BY <1>1, <1>2, <1>3, <2>1, <2>2, SaracuraMeans
    DEF SaracuraOK, Excused, Mine, Preparing, Loading
  <2> QED BY <1>1, <1>2, <2>1, <2>2, <2>3, SaracuraMeans, SaracuraPass
<1>4. CASE /\ Goto(t, "setThreads")
           /\ Set(t, [Mine(t) EXCEPT !.torch = TRUE, !.prior = cpu])
  <2>1. /\ Calls' /\ Moved(t, "setThreads") /\ Where(b) = at[t] /\ Where(b)' = "setThreads"
        /\ Doing(b) = op[t] /\ Doing(b)' = op[t]
    BY <1>1, <1>4, SaracuraGoes DEF SaracuraSteps
  <2> DEFINE new == [sar[b] EXCEPT !.torch = TRUE, !.prior = cpu]
  <2>2. new \in Attributes /\ sar' = [sar EXCEPT ![b] = new]
    BY <1>1, <1>2, <1>4, SaracuraMeans DEF Set, Mine, Attributes, CountsTypeOK
  <2>3. refused \subseteq refused' /\ refused' \subseteq Saracura
    BY <1>1, <1>4, SaracuraMeans DEF LoadRuntime
  <2>4. sar'[b] = new /\ new.owns = sar[b].owns /\ sarSlot' = sarSlot
    BY <1>1, <1>4, <2>2, SaracuraMeans DEF LoadRuntime, Mine, Attributes
  <2>5. SaracuraOK(b)'
    BY <1>1, <1>2, <1>4, <2>1, <2>3, <2>4, SaracuraMeans
    DEF SaracuraOK, Excused, Mine, Preparing, Loading, Attributes
  <2> HIDE DEF new
  <2> QED BY <1>1, <1>2, <2>1, <2>2, <2>3, <2>4, <2>5, SaracuraMeans, SaracuraMove
<1> QED BY <1>3, <1>4 DEF LoadRuntime

LEMMA SetThreadsInv ==
    ASSUME IInv, NEW t \in Threads, NEW b \in Saracura, on[t] = b,
           SetThreads(t), UNCHANGED layaVars
    PROVE  IInv'
<1>1. at[t] = "setThreads" /\ at[t] \in SaracuraSteps
  BY DEF SetThreads, SaracuraAt, SaracuraSteps
<1>2. CountsTypeOK' /\ defect' = defect
  BY SaracuraMeans, CallsAssumption DEF SetThreads, CountsTypeOK
<1>3. CASE Goto(t, "encoder")
  <2>1. /\ Calls' /\ Moved(t, "encoder") /\ Where(b) = at[t] /\ Where(b)' = "encoder"
        /\ Doing(b) = op[t] /\ Doing(b)' = op[t]
    BY <1>1, <1>3, SaracuraGoes DEF SaracuraSteps
  <2>2. sar' = sar /\ sarSlot' = sarSlot /\ refused \subseteq refused' /\ refused' \subseteq Saracura
    BY <1>1, <1>3, SaracuraMeans DEF SetThreads, sarVars
  <2>3. SaracuraOK(b)'
    BY <1>1, <1>2, <1>3, <2>1, <2>2, SaracuraMeans
    DEF SaracuraOK, Excused, Mine, Preparing, Loading
  <2> QED BY <1>1, <1>2, <2>1, <2>2, <2>3, SaracuraMeans, SaracuraPass
<1> QED BY <1>3 DEF SetThreads

LEMMA LoadEncoderInv ==
    ASSUME IInv, NEW t \in Threads, NEW b \in Saracura, on[t] = b,
           LoadEncoder(t), UNCHANGED layaVars
    PROVE  IInv'
<1>1. at[t] = "encoder" /\ at[t] \in SaracuraSteps
  BY DEF LoadEncoder, SaracuraAt, SaracuraSteps
<1>2. CountsTypeOK' /\ defect' = defect
  BY SaracuraMeans DEF LoadEncoder, CountsTypeOK
<1>3. CASE /\ ~Mine(t).snapshot \/ ~EncoderFits(on[t])
           /\ Goto(t, "freeSlot") /\ UNCHANGED sar
  <2>1. /\ Calls' /\ Moved(t, "freeSlot") /\ Where(b) = at[t] /\ Where(b)' = "freeSlot"
        /\ Doing(b) = op[t] /\ Doing(b)' = op[t]
    BY <1>1, <1>3, SaracuraGoes DEF SaracuraSteps
  <2>2. sar' = sar /\ sarSlot' = sarSlot /\ refused \subseteq refused' /\ refused' \subseteq Saracura
    BY <1>1, <1>3, SaracuraMeans DEF LoadEncoder, sarVars
  <2>3. SaracuraOK(b)'
    BY <1>1, <1>2, <1>3, <2>1, <2>2, SaracuraMeans
    DEF SaracuraOK, Excused, Mine, Preparing, Loading, EncoderFits
  <2> QED BY <1>1, <1>2, <2>1, <2>2, <2>3, SaracuraMeans, SaracuraPass
<1>4. CASE Goto(t, "ranker") /\ Set(t, [Mine(t) EXCEPT !.encoder = TRUE])
  <2>1. /\ Calls' /\ Moved(t, "ranker") /\ Where(b) = at[t] /\ Where(b)' = "ranker"
        /\ Doing(b) = op[t] /\ Doing(b)' = op[t]
    BY <1>1, <1>4, SaracuraGoes DEF SaracuraSteps
  <2> DEFINE new == [sar[b] EXCEPT !.encoder = TRUE]
  <2>2. new \in Attributes /\ sar' = [sar EXCEPT ![b] = new]
    BY <1>1, <1>2, <1>4, SaracuraMeans DEF Set, Mine, Attributes, CountsTypeOK
  <2>3. refused \subseteq refused' /\ refused' \subseteq Saracura
    BY <1>1, <1>4, SaracuraMeans DEF LoadEncoder
  <2>4. sar'[b] = new /\ new.owns = sar[b].owns /\ sarSlot' = sarSlot
    BY <1>1, <1>4, <2>2, SaracuraMeans DEF LoadEncoder, Mine, Attributes
  <2>5. SaracuraOK(b)'
    BY <1>1, <1>2, <1>4, <2>1, <2>3, <2>4, SaracuraMeans
    DEF SaracuraOK, Excused, Mine, Preparing, Loading, Attributes
  <2> HIDE DEF new
  <2> QED BY <1>1, <1>2, <2>1, <2>2, <2>3, <2>4, <2>5, SaracuraMeans, SaracuraMove
<1> QED BY <1>3, <1>4 DEF LoadEncoder

LEMMA LoadRankerInv ==
    ASSUME IInv, NEW t \in Threads, NEW b \in Saracura, on[t] = b,
           LoadRanker(t), UNCHANGED layaVars
    PROVE  IInv'
<1>1. at[t] = "ranker" /\ at[t] \in SaracuraSteps
  BY DEF LoadRanker, SaracuraAt, SaracuraSteps
<1>2. CountsTypeOK' /\ defect' = defect
  BY SaracuraMeans DEF LoadRanker, CountsTypeOK
<1>3. CASE /\ ~Mine(t).capsule \/ ~Mine(t).torch \/ ~RankerConforms(on[t])
           /\ Goto(t, "freeSlot") /\ Set(t, [Mine(t) EXCEPT !.ranker = TRUE])
  <2>1. /\ Calls' /\ Moved(t, "freeSlot") /\ Where(b) = at[t] /\ Where(b)' = "freeSlot"
        /\ Doing(b) = op[t] /\ Doing(b)' = op[t]
    BY <1>1, <1>3, SaracuraGoes DEF SaracuraSteps
  <2> DEFINE new == [sar[b] EXCEPT !.ranker = TRUE]
  <2>2. new \in Attributes /\ sar' = [sar EXCEPT ![b] = new]
    BY <1>1, <1>2, <1>3, SaracuraMeans DEF Set, Mine, Attributes, CountsTypeOK
  <2>3. refused \subseteq refused' /\ refused' \subseteq Saracura
    BY <1>1, <1>3, SaracuraMeans DEF LoadRanker
  <2>4. sar'[b] = new /\ new.owns = sar[b].owns /\ sarSlot' = sarSlot
    BY <1>1, <1>3, <2>2, SaracuraMeans DEF LoadRanker, Mine, Attributes
  <2>5. SaracuraOK(b)'
    BY <1>1, <1>2, <1>3, <2>1, <2>3, <2>4, SaracuraMeans
    DEF SaracuraOK, Excused, Mine, Preparing, Loading, Attributes, RankerConforms
  <2> HIDE DEF new
  <2> QED BY <1>1, <1>2, <2>1, <2>2, <2>3, <2>4, <2>5, SaracuraMeans, SaracuraMove
<1>4. CASE /\ Unlock(t, AfterPrepare(t))
           /\ Set(t, [Mine(t) EXCEPT !.ranker = TRUE, !.prepared = TRUE])
  <2>1. /\ Calls' /\ Moved(t, "rest") /\ Where(b) = at[t] /\ Where(b)' = "rest"
        /\ Doing(b) = op[t]
    BY <1>1, <1>4, SaracuraLeaves DEF SaracuraSteps
  <2> DEFINE new == [sar[b] EXCEPT !.ranker = TRUE, !.prepared = TRUE]
  <2>2. new \in Attributes /\ sar' = [sar EXCEPT ![b] = new]
    BY <1>1, <1>2, <1>4, SaracuraMeans DEF Set, Mine, Attributes, CountsTypeOK
  <2>3. refused \subseteq refused' /\ refused' \subseteq Saracura
    BY <1>1, <1>4, SaracuraMeans DEF LoadRanker
  <2>4. sar'[b] = new /\ new.owns = sar[b].owns /\ sarSlot' = sarSlot
    BY <1>1, <1>4, <2>2, SaracuraMeans DEF LoadRanker, Mine, Attributes
  <2>5. SaracuraOK(b)'
    BY <1>1, <1>2, <1>4, <2>1, <2>3, <2>4, SaracuraMeans
    DEF SaracuraOK, Excused, Mine, Preparing, Loading, Attributes
  <2> HIDE DEF new
  <2> QED BY <1>1, <1>2, <2>1, <2>2, <2>3, <2>4, <2>5, SaracuraMeans, SaracuraMove
<1> QED BY <1>3, <1>4 DEF LoadRanker

LEMMA FreeSlotInv ==
    ASSUME IInv, NEW t \in Threads, NEW b \in Saracura, on[t] = b,
           FreeSlot(t), UNCHANGED layaVars
    PROVE  IInv'
<1>1. at[t] = "freeSlot" /\ at[t] \in SaracuraSteps
  BY DEF FreeSlot, SaracuraAt, SaracuraSteps
<1>2. CountsTypeOK' /\ defect' = defect
  BY SaracuraMeans, CallsAssumption DEF FreeSlot, CountsTypeOK, Mine, Attributes
<1>3. CASE Goto(t, "restore") /\ Set(t, Released(Mine(t)))
  <2>1. /\ Calls' /\ Moved(t, "restore") /\ Where(b) = at[t] /\ Where(b)' = "restore"
        /\ Doing(b) = op[t] /\ Doing(b)' = op[t]
    BY <1>1, <1>3, SaracuraGoes DEF SaracuraSteps
  <2> DEFINE new == Released(sar[b])
  <2>2. new \in Attributes /\ sar' = [sar EXCEPT ![b] = new]
    BY <1>1, <1>2, <1>3, SaracuraMeans DEF Set, Mine, Attributes, CountsTypeOK, Released
  <2>3. refused \subseteq refused' /\ refused' \subseteq Saracura
    BY <1>1, <1>3, SaracuraMeans DEF FreeSlot
  <2>4. sar'[b] = new /\ ~new.owns /\ sarSlot' = (sarSlot /\ ~sar[b].owns)
    BY <1>1, <1>3, <2>2, SaracuraMeans DEF FreeSlot, Mine, Attributes, Released
  <2>5. SaracuraOK(b)'
    BY <1>1, <1>2, <1>3, <2>1, <2>3, <2>4, SaracuraMeans
    DEF SaracuraOK, Excused, Mine, Preparing, Loading, Attributes, Released
  <2> HIDE DEF new
  <2> QED BY <1>1, <1>2, <2>1, <2>2, <2>3, <2>4, <2>5, SaracuraMeans, SaracuraMove
<1> QED BY <1>3 DEF FreeSlot

LEMMA RestoreThreadsInv ==
    ASSUME IInv, NEW t \in Threads, NEW b \in Saracura, on[t] = b,
           RestoreThreads(t), UNCHANGED layaVars
    PROVE  IInv'
<1>1. at[t] = "restore" /\ at[t] \in SaracuraSteps
  BY DEF RestoreThreads, SaracuraAt, SaracuraSteps
<1>2. CountsTypeOK' /\ defect' = defect
  BY SaracuraMeans, CallsAssumption DEF RestoreThreads, CountsTypeOK
<1>3. CASE op[t] # "close" /\ Unlock(t, "idle") /\ sar' = sar
  <2>1. /\ Calls' /\ Moved(t, "rest") /\ Where(b) = at[t] /\ Where(b)' = "rest"
        /\ Doing(b) = op[t]
    BY <1>1, <1>3, SaracuraLeaves DEF SaracuraSteps
  <2>2. sar' = sar /\ sarSlot' = sarSlot /\ refused \subseteq refused' /\ refused' \subseteq Saracura
    BY <1>1, <1>3, SaracuraMeans DEF RestoreThreads, sarVars
  <2>3. SaracuraOK(b)'
    BY <1>1, <1>2, <1>3, <2>1, <2>2, SaracuraMeans
    DEF SaracuraOK, Excused, Mine, Preparing, Loading, Attributes
  <2> QED BY <1>1, <1>2, <2>1, <2>2, <2>3, SaracuraMeans, SaracuraPass
<1>4. CASE op[t] = "close" /\ Unlock(t, "idle") /\ Set(t, Emptied(Mine(t)))
  <2>1. /\ Calls' /\ Moved(t, "rest") /\ Where(b) = at[t] /\ Where(b)' = "rest"
        /\ Doing(b) = op[t]
    BY <1>1, <1>4, SaracuraLeaves DEF SaracuraSteps
  <2> DEFINE new == Emptied(sar[b])
  <2>2. new \in Attributes /\ sar' = [sar EXCEPT ![b] = new]
    BY <1>1, <1>2, <1>4, SaracuraMeans DEF Set, Mine, Attributes, CountsTypeOK, Emptied
  <2>3. refused \subseteq refused' /\ refused' \subseteq Saracura
    BY <1>1, <1>4, SaracuraMeans DEF RestoreThreads
  <2>4. sar'[b] = new /\ new.owns = sar[b].owns /\ sarSlot' = sarSlot
    BY <1>1, <1>4, <2>2, SaracuraMeans DEF RestoreThreads, Mine, Attributes, Emptied
  <2>5. SaracuraOK(b)'
    BY <1>1, <1>2, <1>4, <2>1, <2>3, <2>4, SaracuraMeans
    DEF SaracuraOK, Excused, Mine, Preparing, Loading, Attributes, Emptied
  <2> HIDE DEF new
  <2> QED BY <1>1, <1>2, <2>1, <2>2, <2>3, <2>4, <2>5, SaracuraMeans, SaracuraMove
<1> QED BY <1>3, <1>4 DEF RestoreThreads, Set, Mine

LEMMA TokenizeJointInv ==
    ASSUME IInv, NEW t \in Threads, NEW b \in Saracura, on[t] = b,
           TokenizeJoint(t), UNCHANGED layaVars
    PROVE  IInv'
<1>1. at[t] = "tokenize" /\ at[t] \in SaracuraSteps
  BY DEF TokenizeJoint, SaracuraAt, SaracuraSteps
<1>2. CountsTypeOK' /\ defect' = defect
  BY SaracuraMeans DEF TokenizeJoint, CountsTypeOK
<1>3. CASE Goto(t, "infer")
  <2>1. /\ Calls' /\ Moved(t, "infer") /\ Where(b) = at[t] /\ Where(b)' = "infer"
        /\ Doing(b) = op[t] /\ Doing(b)' = op[t]
    BY <1>1, <1>3, SaracuraGoes DEF SaracuraSteps
  <2>2. sar' = sar /\ sarSlot' = sarSlot /\ refused \subseteq refused' /\ refused' \subseteq Saracura
    BY <1>1, <1>3, SaracuraMeans DEF TokenizeJoint, sarVars
  <2>3. SaracuraOK(b)'
    BY <1>1, <1>2, <1>3, <2>1, <2>2, SaracuraMeans
    DEF SaracuraOK, Excused, Mine, Preparing, Loading
  <2> QED BY <1>1, <1>2, <2>1, <2>2, <2>3, SaracuraMeans, SaracuraPass
<1>4. CASE Unlock(t, "idle")
  <2>1. /\ Calls' /\ Moved(t, "rest") /\ Where(b) = at[t] /\ Where(b)' = "rest"
        /\ Doing(b) = op[t]
    BY <1>1, <1>4, SaracuraLeaves DEF SaracuraSteps
  <2>2. sar' = sar /\ sarSlot' = sarSlot /\ refused \subseteq refused' /\ refused' \subseteq Saracura
    BY <1>1, <1>4, SaracuraMeans DEF TokenizeJoint, sarVars
  <2>3. SaracuraOK(b)'
    BY <1>1, <1>2, <1>4, <2>1, <2>2, SaracuraMeans
    DEF SaracuraOK, Excused, Mine, Preparing, Loading
  <2> QED BY <1>1, <1>2, <2>1, <2>2, <2>3, SaracuraMeans, SaracuraPass
<1> QED BY <1>3, <1>4 DEF TokenizeJoint

LEMMA InferInv ==
    ASSUME IInv, NEW t \in Threads, NEW b \in Saracura, on[t] = b,
           Infer(t), UNCHANGED layaVars
    PROVE  IInv'
<1>1. at[t] = "infer" /\ at[t] \in SaracuraSteps
  BY DEF Infer, SaracuraAt, SaracuraSteps
<1>2. CountsTypeOK' /\ defect' = defect
  BY SaracuraMeans DEF Infer, CountsTypeOK
<1>3. CASE Unlock(t, "idle")
  <2>1. /\ Calls' /\ Moved(t, "rest") /\ Where(b) = at[t] /\ Where(b)' = "rest"
        /\ Doing(b) = op[t]
    BY <1>1, <1>3, SaracuraLeaves DEF SaracuraSteps
  <2>2. sar' = sar /\ sarSlot' = sarSlot /\ refused \subseteq refused' /\ refused' \subseteq Saracura
    BY <1>1, <1>3, SaracuraMeans DEF Infer, sarVars
  <2>3. SaracuraOK(b)'
    BY <1>1, <1>2, <1>3, <2>1, <2>2, SaracuraMeans
    DEF SaracuraOK, Excused, Mine, Preparing, Loading
  <2> QED BY <1>1, <1>2, <2>1, <2>2, <2>3, SaracuraMeans, SaracuraPass
<1> QED BY <1>3 DEF Infer

LEMMA EnterCloseInv ==
    ASSUME IInv, NEW t \in Threads, NEW b \in Saracura, on[t] = b,
           EnterClose(t), UNCHANGED layaVars
    PROVE  IInv'
<1>1. at[t] = "enter" /\ ~InLock(t) /\ op[t] = "close"
  BY DEF EnterClose, SaracuraAt, InLock, SaracuraSteps, LayaSteps
<1>2. CASE Bounce(t) /\ UNCHANGED sar
  BY <1>1, <1>2, SaracuraMeans, BounceFacts, NobodyMoved DEF EnterClose, sarVars
<1>3. CASE Lock(t, "freeSlot") /\ Set(t, [Mine(t) EXCEPT !.closed = TRUE])
  <2> DEFINE new == [sar[b] EXCEPT !.closed = TRUE]
  <2>1. Calls' /\ Moved(t, "freeSlot") /\ Where(b) = "rest"
    BY <1>1, <1>3, SaracuraMeans, LockFacts DEF Fits, SaracuraSteps
  <2>2. Where(b)' = "freeSlot"
    BY <2>1, SaracuraMeans DEF Moved
  <2>3. new \in Attributes /\ sar' = [sar EXCEPT ![b] = new]
    BY <1>3, SaracuraMeans DEF Set, Mine, Attributes
  <2>4. /\ CountsTypeOK' /\ defect' = defect /\ refused' = refused
        /\ sar'[b] = new /\ new.owns = sar[b].owns /\ sarSlot' = sarSlot
    BY <2>3, SaracuraMeans DEF EnterClose, CountsTypeOK, Attributes
  <2>5. SaracuraOK(b)'
    BY <2>1, <2>2, <2>4, SaracuraMeans
    DEF SaracuraOK, Excused, Preparing, Loading, Attributes
  <2> HIDE DEF new
  <2> QED BY <2>1, <2>3, <2>4, <2>5, SaracuraMeans, SaracuraMove
<1> QED BY <1>2, <1>3 DEF EnterClose

LEMMA EnterScoreInv ==
    ASSUME IInv, NEW t \in Threads, NEW b \in Saracura, on[t] = b,
           EnterScore(t), UNCHANGED layaVars
    PROVE  IInv'
<1>1. at[t] = "score" /\ ~InLock(t) /\ op[t] = "score"
  BY DEF EnterScore, SaracuraAt, InLock, SaracuraSteps, LayaSteps, IInv, Calls, Control
<1>2. UNCHANGED <<kept, cpu, defect>> /\ UNCHANGED sarVars
  BY DEF EnterScore
<1>3. CASE Bounce(t)
  BY <1>1, <1>2, <1>3, SaracuraMeans, BounceFacts, NobodyMoved
<1>4. CASE Mine(t).torch /\ Lock(t, "tokenize")
  <2>1. Calls' /\ Moved(t, "tokenize") /\ Where(b) = "rest"
    BY <1>1, <1>4, SaracuraMeans, LockFacts DEF Fits, SaracuraSteps
  <2>2. Where(b)' = "tokenize"
    BY <2>1, SaracuraMeans DEF Moved
  <2>3. SaracuraOK(b)'
    BY <1>2, <1>4, <2>1, <2>2, SaracuraMeans
    DEF SaracuraOK, Excused, sarVars, Preparing, Loading, Mine
  <2> QED BY <1>2, <2>1, <2>3, SaracuraMeans, SaracuraPass
          DEF CountsTypeOK, sarVars
<1> QED BY <1>3, <1>4 DEF EnterScore

LEMMA SaracuraStepInv ==
    ASSUME IInv, NEW t \in Threads, SaracuraStep(t), UNCHANGED layaVars
    PROVE  IInv'
<1>1. on[t] \in Saracura
  BY DEF SaracuraStep, SaracuraAt, EnterPrepare, VerifyCapsule, VerifySnapshot,
         TakeSlot, LoadRuntime, SetThreads, LoadEncoder, LoadRanker, EnterClose,
         FreeSlot, RestoreThreads, EnterScore, TokenizeJoint, Infer
<1> QED BY <1>1, EnterPrepareInv, VerifyCapsuleInv, VerifySnapshotInv,
           TakeSlotInv, LoadRuntimeInv, SetThreadsInv, LoadEncoderInv,
           LoadRankerInv, EnterCloseInv, FreeSlotInv, RestoreThreadsInv,
           EnterScoreInv, TokenizeJointInv, InferInv
        DEF SaracuraStep
-----------------------------------------------------------------------------
(* One lemma per action of a Laya call.                                    *)

LayaAttributes == [closed : BOOLEAN, receipt : BOOLEAN, loaded : BOOLEAN]

LEMMA LayaMeans ==
    ASSUME IInv, NEW t \in Threads, on[t] \in Laya
    PROVE  /\ Calls /\ CountsTypeOK /\ LayaOK(on[t])
           /\ laya[on[t]] \in LayaAttributes
           /\ laya \in [Laya -> LayaAttributes]
           /\ layaSlot \in BOOLEAN /\ lost \in BOOLEAN
           /\ on[t] \in Backends
  BY ClassesAssumption DEF IInv, LayaInv, LayaTypeOK, LayaAttributes

\* A Laya step that moves its own backend and leaves new in it.
LEMMA LayaMove ==
    ASSUME IInv, NEW t \in Threads, NEW b \in Laya, on[t] = b, NEW s, Moved(t, s),
           Calls', CountsTypeOK', defect' = defect, UNCHANGED sarVars,
           NEW new \in LayaAttributes, laya' = [laya EXCEPT ![b] = new],
           layaSlot' \in BOOLEAN, lost' \in BOOLEAN, lost => lost',
           \/ (Holding(b)' <=> Holding(b)) /\ layaSlot' = layaSlot
           \/ Holding(b)' /\ ~layaSlot /\ layaSlot'
           \/ Holding(b) /\ ~Holding(b)' /\ ~layaSlot'
           \/ ~Holding(b)' /\ layaSlot' = layaSlot /\ lost',
           LayaOK(b)'
    PROVE  IInv'
<1>1. /\ LayaTypeOK'
      /\ \A c \in Laya \ {b} : laya'[c] = laya[c]
  BY DEF IInv, LayaInv, LayaTypeOK, LayaAttributes
<1>2. \A c \in Laya \ {b} : Where(c)' = Where(c)
  BY ClassesAssumption DEF Moved
<1>3. \A c \in Laya \ {b} : Holding(c)' <=> Holding(c)
  BY <1>1, <1>2 DEF Holding
<1>4. \A c \in Laya : LayaOK(c)'
  BY <1>1, <1>2 DEF IInv, LayaInv, LayaOK
<1>5. LayaSlot'
  <2> HIDE DEF Holding
  <2>1. LayaSlot
    BY DEF IInv, LayaInv
  <2>2. CASE (Holding(b)' <=> Holding(b)) /\ layaSlot' = layaSlot
    BY <1>3, <2>1, <2>2 DEF LayaSlot
  <2>3. CASE Holding(b)' /\ ~layaSlot /\ layaSlot'
    BY <1>3, <2>1, <2>3 DEF LayaSlot
  <2>4. CASE Holding(b) /\ ~Holding(b)' /\ ~layaSlot'
    BY <1>3, <2>1, <2>4 DEF LayaSlot
  <2>5. CASE ~Holding(b)' /\ layaSlot' = layaSlot /\ lost'
    BY <1>3, <2>1, <2>5 DEF LayaSlot
  <2> QED BY <2>2, <2>3, <2>4, <2>5
<1> QED BY <1>1, <1>4, <1>5, SaracuraStays DEF IInv, LayaInv

\* A step at s inside the lock of b goes on to the next one, or leaves it.
LEMMA LayaGoes ==
    ASSUME IInv, NEW t \in Threads, NEW b \in Laya, on[t] = b,
           at[t] \in LayaSteps, NEW next \in LayaSteps, Goto(t, next)
    PROVE  /\ Calls' /\ Moved(t, next)
           /\ Where(b) = at[t] /\ Where(b)' = next
<1>1. Calls' /\ Moved(t, next) /\ Where(b) = at[t]
  BY LayaMeans, GotoFacts DEF Fits, InLock
<1> QED BY <1>1, LayaMeans DEF Moved

LEMMA LayaLeaves ==
    ASSUME IInv, NEW t \in Threads, NEW b \in Laya, on[t] = b,
           at[t] \in LayaSteps, Unlock(t, "idle")
    PROVE  /\ Calls' /\ Moved(t, "rest")
           /\ Where(b) = at[t] /\ Where(b)' = "rest"
<1>1. Calls' /\ Moved(t, "rest") /\ Where(b) = at[t]
  BY LayaMeans, UnlockFacts DEF InLock
<1> QED BY <1>1, LayaMeans DEF Moved

\* A call enters the lock at s.
LEMMA LayaEnters ==
    ASSUME IInv, NEW t \in Threads, NEW b \in Laya, on[t] = b, at[t] = "enter",
           NEW s \in LayaSteps, Lock(t, s)
    PROVE  /\ Calls' /\ Moved(t, s) /\ Where(b) = "rest" /\ Where(b)' = s
<1>1. Calls' /\ Moved(t, s) /\ Where(b) = "rest"
  BY LayaMeans, LockFacts DEF Fits, InLock, SaracuraSteps, LayaSteps
<1> QED BY <1>1, LayaMeans DEF Moved

\* A call that does nothing inside the lock.
LEMMA LayaBounces ==
    ASSUME IInv, NEW t \in Threads, NEW b \in Laya, on[t] = b, at[t] = "enter",
           Bounce(t)
    PROVE  Calls' /\ Stayed /\ Moved(t, "rest") /\ Where(b) = "rest" /\ Where(b)' = "rest"
<1>1. Calls' /\ Stayed /\ Moved(t, "rest")
  BY LayaMeans, BounceFacts DEF InLock, SaracuraSteps, LayaSteps
<1>2. Where(b) = "rest"
  BY DEF Bounce, Where
<1> QED BY <1>1, <1>2, LayaMeans DEF Moved

LEMMA EnterLayaInv ==
    ASSUME IInv, NEW t \in Threads, NEW b \in Laya, on[t] = b,
           EnterLaya(t), UNCHANGED sarVars
    PROVE  IInv'
<1>1. at[t] = "enter"
  BY DEF EnterLaya, LayaAt, LayaSteps
<1>2. CountsTypeOK' /\ defect' = defect
  BY LayaMeans DEF EnterLaya, CountsTypeOK
<1>3. CASE Bounce(t)
  <2> DEFINE new == laya[b]
  <2>1. Calls' /\ Moved(t, "rest") /\ Where(b) = "rest" /\ Where(b)' = "rest"
    BY <1>1, <1>3, LayaBounces DEF LayaSteps
  <2>2. /\ new \in LayaAttributes /\ laya' = [laya EXCEPT ![b] = new]
        /\ laya'[b] = new /\ layaSlot' \in BOOLEAN /\ lost' \in BOOLEAN
        /\ lost => lost'
    BY <1>1, <1>3, LayaMeans DEF EnterLaya, LayaAttributes, layaVars
  <2>3. (Holding(b)' <=> Holding(b)) /\ layaSlot' = layaSlot
    BY <1>1, <1>3, <2>1, <2>2, LayaMeans
    DEF EnterLaya, Holding, LayaAttributes, layaVars, LayaOK, Its
  <2>4. LayaOK(b)'
    BY <1>1, <1>3, <2>1, <2>2, LayaMeans DEF LayaOK, LayaAttributes, Its
  <2> HIDE DEF new
  <2> QED BY <1>1, <1>2, <2>1, <2>2, <2>3, <2>4, LayaMove
<1>4. CASE ~Its(t).closed /\ ~Its(t).receipt /\ Lock(t, "tokenizer")
  <2> DEFINE new == laya[b]
  <2>1. Calls' /\ Moved(t, "tokenizer") /\ Where(b) = "rest" /\ Where(b)' = "tokenizer"
    BY <1>1, <1>4, LayaEnters DEF LayaSteps
  <2>2. /\ new \in LayaAttributes /\ laya' = [laya EXCEPT ![b] = new]
        /\ laya'[b] = new /\ layaSlot' \in BOOLEAN /\ lost' \in BOOLEAN
        /\ lost => lost'
    BY <1>1, <1>4, LayaMeans DEF EnterLaya, LayaAttributes, layaVars
  <2>3. (Holding(b)' <=> Holding(b)) /\ layaSlot' = layaSlot
    BY <1>1, <1>4, <2>1, <2>2, LayaMeans
    DEF EnterLaya, Holding, LayaAttributes, layaVars, LayaOK, Its
  <2>4. LayaOK(b)'
    BY <1>1, <1>4, <2>1, <2>2, LayaMeans DEF LayaOK, LayaAttributes, Its
  <2> HIDE DEF new
  <2> QED BY <1>1, <1>2, <2>1, <2>2, <2>3, <2>4, LayaMove
<1>5. CASE ~Its(t).closed /\ Its(t).receipt /\ ~Its(t).loaded /\ Lock(t, "layaSlot")
  <2> DEFINE new == laya[b]
  <2>1. Calls' /\ Moved(t, "layaSlot") /\ Where(b) = "rest" /\ Where(b)' = "layaSlot"
    BY <1>1, <1>5, LayaEnters DEF LayaSteps
  <2>2. /\ new \in LayaAttributes /\ laya' = [laya EXCEPT ![b] = new]
        /\ laya'[b] = new /\ layaSlot' \in BOOLEAN /\ lost' \in BOOLEAN
        /\ lost => lost'
    BY <1>1, <1>5, LayaMeans DEF EnterLaya, LayaAttributes, layaVars
  <2>3. (Holding(b)' <=> Holding(b)) /\ layaSlot' = layaSlot
    BY <1>1, <1>5, <2>1, <2>2, LayaMeans
    DEF EnterLaya, Holding, LayaAttributes, layaVars, LayaOK, Its
  <2>4. LayaOK(b)'
    BY <1>1, <1>5, <2>1, <2>2, LayaMeans DEF LayaOK, LayaAttributes, Its
  <2> HIDE DEF new
  <2> QED BY <1>1, <1>2, <2>1, <2>2, <2>3, <2>4, LayaMove
<1>6. CASE Its(t).loaded /\ Lock(t, "layaInfer")
  <2> DEFINE new == laya[b]
  <2>1. Calls' /\ Moved(t, "layaInfer") /\ Where(b) = "rest" /\ Where(b)' = "layaInfer"
    BY <1>1, <1>6, LayaEnters DEF LayaSteps
  <2>2. /\ new \in LayaAttributes /\ laya' = [laya EXCEPT ![b] = new]
        /\ laya'[b] = new /\ layaSlot' \in BOOLEAN /\ lost' \in BOOLEAN
        /\ lost => lost'
    BY <1>1, <1>6, LayaMeans DEF EnterLaya, LayaAttributes, layaVars
  <2>3. (Holding(b)' <=> Holding(b)) /\ layaSlot' = layaSlot
    BY <1>1, <1>6, <2>1, <2>2, LayaMeans
    DEF EnterLaya, Holding, LayaAttributes, layaVars, LayaOK, Its
  <2>4. LayaOK(b)'
    BY <1>1, <1>6, <2>1, <2>2, LayaMeans DEF LayaOK, LayaAttributes, Its
  <2> HIDE DEF new
  <2> QED BY <1>1, <1>2, <2>1, <2>2, <2>3, <2>4, LayaMove
<1> QED BY <1>3, <1>4, <1>5, <1>6 DEF EnterLaya

LEMMA LoadTokenizerInv ==
    ASSUME IInv, NEW t \in Threads, NEW b \in Laya, on[t] = b,
           LoadTokenizer(t), UNCHANGED sarVars
    PROVE  IInv'
<1>1. at[t] = "tokenizer" /\ at[t] \in LayaSteps
  BY DEF LoadTokenizer, LayaAt, LayaSteps
<1>2. CountsTypeOK' /\ defect' = defect
  BY LayaMeans DEF LoadTokenizer, CountsTypeOK
<1>3. CASE Unlock(t, "idle") /\ UNCHANGED laya
  <2> DEFINE new == laya[b]
  <2>1. Calls' /\ Moved(t, "rest") /\ Where(b) = at[t] /\ Where(b)' = "rest"
    BY <1>1, <1>3, LayaLeaves DEF LayaSteps
  <2>2. /\ new \in LayaAttributes /\ laya' = [laya EXCEPT ![b] = new]
        /\ laya'[b] = new /\ layaSlot' \in BOOLEAN /\ lost' \in BOOLEAN
        /\ lost => lost'
    BY <1>1, <1>3, LayaMeans DEF LoadTokenizer, LayaAttributes, layaVars
  <2>3. (Holding(b)' <=> Holding(b)) /\ layaSlot' = layaSlot
    BY <1>1, <1>3, <2>1, <2>2, LayaMeans
    DEF LoadTokenizer, Holding, LayaAttributes, layaVars, LayaOK, Its
  <2>4. LayaOK(b)'
    BY <1>1, <1>3, <2>1, <2>2, LayaMeans DEF LayaOK, LayaAttributes, Its
  <2> HIDE DEF new
  <2> QED BY <1>1, <1>2, <2>1, <2>2, <2>3, <2>4, LayaMove
<1>4. CASE /\ Goto(t, "layaSlot")
           /\ laya' = [laya EXCEPT ![on[t]].receipt = TRUE]
  <2> DEFINE new == [laya[b] EXCEPT !.receipt = TRUE]
  <2>1. Calls' /\ Moved(t, "layaSlot") /\ Where(b) = at[t] /\ Where(b)' = "layaSlot"
    BY <1>1, <1>4, LayaGoes DEF LayaSteps
  <2>2. /\ new \in LayaAttributes /\ laya' = [laya EXCEPT ![b] = new]
        /\ laya'[b] = new /\ layaSlot' \in BOOLEAN /\ lost' \in BOOLEAN
        /\ lost => lost'
    BY <1>1, <1>4, LayaMeans DEF LoadTokenizer, LayaAttributes, layaVars
  <2>3. (Holding(b)' <=> Holding(b)) /\ layaSlot' = layaSlot
    BY <1>1, <1>4, <2>1, <2>2, LayaMeans
    DEF LoadTokenizer, Holding, LayaAttributes, layaVars, LayaOK, Its
  <2>4. LayaOK(b)'
    BY <1>1, <1>4, <2>1, <2>2, LayaMeans DEF LayaOK, LayaAttributes, Its
  <2> HIDE DEF new
  <2> QED BY <1>1, <1>2, <2>1, <2>2, <2>3, <2>4, LayaMove
<1> QED BY <1>3, <1>4 DEF LoadTokenizer

LEMMA TakeLayaSlotInv ==
    ASSUME IInv, NEW t \in Threads, NEW b \in Laya, on[t] = b,
           TakeLayaSlot(t), UNCHANGED sarVars
    PROVE  IInv'
<1>1. at[t] = "layaSlot" /\ at[t] \in LayaSteps
  BY DEF TakeLayaSlot, LayaAt, LayaSteps
<1>2. CountsTypeOK' /\ defect' = defect
  BY LayaMeans DEF TakeLayaSlot, CountsTypeOK
<1>3. CASE Unlock(t, "idle") /\ UNCHANGED layaSlot
  <2> DEFINE new == laya[b]
  <2>1. Calls' /\ Moved(t, "rest") /\ Where(b) = at[t] /\ Where(b)' = "rest"
    BY <1>1, <1>3, LayaLeaves DEF LayaSteps
  <2>2. /\ new \in LayaAttributes /\ laya' = [laya EXCEPT ![b] = new]
        /\ laya'[b] = new /\ layaSlot' \in BOOLEAN /\ lost' \in BOOLEAN
        /\ lost => lost'
    BY <1>1, <1>3, LayaMeans DEF TakeLayaSlot, LayaAttributes, layaVars
  <2>3. (Holding(b)' <=> Holding(b)) /\ layaSlot' = layaSlot
    BY <1>1, <1>3, <2>1, <2>2, LayaMeans
    DEF TakeLayaSlot, Holding, LayaAttributes, layaVars, LayaOK, Its
  <2>4. LayaOK(b)'
    BY <1>1, <1>3, <2>1, <2>2, LayaMeans DEF LayaOK, LayaAttributes, Its
  <2> HIDE DEF new
  <2> QED BY <1>1, <1>2, <2>1, <2>2, <2>3, <2>4, LayaMove
<1>4. CASE ~layaSlot /\ Goto(t, "layaThreads") /\ layaSlot' = TRUE
  <2> DEFINE new == laya[b]
  <2>1. Calls' /\ Moved(t, "layaThreads") /\ Where(b) = at[t] /\ Where(b)' = "layaThreads"
    BY <1>1, <1>4, LayaGoes DEF LayaSteps
  <2>2. /\ new \in LayaAttributes /\ laya' = [laya EXCEPT ![b] = new]
        /\ laya'[b] = new /\ layaSlot' \in BOOLEAN /\ lost' \in BOOLEAN
        /\ lost => lost'
    BY <1>1, <1>4, LayaMeans DEF TakeLayaSlot, LayaAttributes, layaVars
  <2>3. Holding(b)' /\ ~layaSlot /\ layaSlot'
    BY <1>1, <1>4, <2>1, <2>2, LayaMeans
    DEF TakeLayaSlot, Holding, LayaAttributes, layaVars, LayaOK, Its
  <2>4. LayaOK(b)'
    BY <1>1, <1>4, <2>1, <2>2, LayaMeans DEF LayaOK, LayaAttributes, Its
  <2> HIDE DEF new
  <2> QED BY <1>1, <1>2, <2>1, <2>2, <2>3, <2>4, LayaMove
<1> QED BY <1>3, <1>4 DEF TakeLayaSlot

LEMMA RefuseRenderingInv ==
    ASSUME IInv, NEW t \in Threads, NEW b \in Laya, on[t] = b,
           RefuseRendering(t), UNCHANGED sarVars
    PROVE  IInv'
<1>1. at[t] = "layaSlot" /\ at[t] \in LayaSteps
  BY DEF RefuseRendering, LayaAt, LayaSteps
<1>2. CountsTypeOK' /\ defect' = defect
  BY LayaMeans DEF RefuseRendering, CountsTypeOK
<1>3. CASE Unlock(t, "idle")
  <2> DEFINE new == laya[b]
  <2>1. Calls' /\ Moved(t, "rest") /\ Where(b) = at[t] /\ Where(b)' = "rest"
    BY <1>1, <1>3, LayaLeaves DEF LayaSteps
  <2>2. /\ new \in LayaAttributes /\ laya' = [laya EXCEPT ![b] = new]
        /\ laya'[b] = new /\ layaSlot' \in BOOLEAN /\ lost' \in BOOLEAN
        /\ lost => lost'
    BY <1>1, <1>3, LayaMeans DEF RefuseRendering, LayaAttributes, layaVars
  <2>3. (Holding(b)' <=> Holding(b)) /\ layaSlot' = layaSlot
    BY <1>1, <1>3, <2>1, <2>2, LayaMeans
    DEF RefuseRendering, Holding, LayaAttributes, layaVars, LayaOK, Its
  <2>4. LayaOK(b)'
    BY <1>1, <1>3, <2>1, <2>2, LayaMeans DEF LayaOK, LayaAttributes, Its
  <2> HIDE DEF new
  <2> QED BY <1>1, <1>2, <2>1, <2>2, <2>3, <2>4, LayaMove
<1> QED BY <1>3 DEF RefuseRendering

LEMMA PreflightInv ==
    ASSUME IInv, NEW t \in Threads, NEW b \in Laya, on[t] = b,
           Preflight(t), UNCHANGED sarVars
    PROVE  IInv'
<1>1. at[t] = "layaThreads" /\ at[t] \in LayaSteps
  BY DEF Preflight, LayaAt, LayaSteps
<1>2. CountsTypeOK' /\ defect' = defect
  BY LayaMeans, CallsAssumption DEF Preflight, CountsTypeOK
<1>3. CASE Goto(t, "giveBack")
  <2> DEFINE new == laya[b]
  <2>1. Calls' /\ Moved(t, "giveBack") /\ Where(b) = at[t] /\ Where(b)' = "giveBack"
    BY <1>1, <1>3, LayaGoes DEF LayaSteps
  <2>2. /\ new \in LayaAttributes /\ laya' = [laya EXCEPT ![b] = new]
        /\ laya'[b] = new /\ layaSlot' \in BOOLEAN /\ lost' \in BOOLEAN
        /\ lost => lost'
    BY <1>1, <1>3, LayaMeans DEF Preflight, LayaAttributes, layaVars
  <2>3. (Holding(b)' <=> Holding(b)) /\ layaSlot' = layaSlot
    BY <1>1, <1>3, <2>1, <2>2, LayaMeans
    DEF Preflight, Holding, LayaAttributes, layaVars, LayaOK, Its
  <2>4. LayaOK(b)'
    BY <1>1, <1>3, <2>1, <2>2, LayaMeans DEF LayaOK, LayaAttributes, Its
  <2> HIDE DEF new
  <2> QED BY <1>1, <1>2, <2>1, <2>2, <2>3, <2>4, LayaMove
<1>4. CASE Goto(t, "weights")
  <2> DEFINE new == laya[b]
  <2>1. Calls' /\ Moved(t, "weights") /\ Where(b) = at[t] /\ Where(b)' = "weights"
    BY <1>1, <1>4, LayaGoes DEF LayaSteps
  <2>2. /\ new \in LayaAttributes /\ laya' = [laya EXCEPT ![b] = new]
        /\ laya'[b] = new /\ layaSlot' \in BOOLEAN /\ lost' \in BOOLEAN
        /\ lost => lost'
    BY <1>1, <1>4, LayaMeans DEF Preflight, LayaAttributes, layaVars
  <2>3. (Holding(b)' <=> Holding(b)) /\ layaSlot' = layaSlot
    BY <1>1, <1>4, <2>1, <2>2, LayaMeans
    DEF Preflight, Holding, LayaAttributes, layaVars, LayaOK, Its
  <2>4. LayaOK(b)'
    BY <1>1, <1>4, <2>1, <2>2, LayaMeans DEF LayaOK, LayaAttributes, Its
  <2> HIDE DEF new
  <2> QED BY <1>1, <1>2, <2>1, <2>2, <2>3, <2>4, LayaMove
<1> QED BY <1>3, <1>4 DEF Preflight

LEMMA LoadWeightsInv ==
    ASSUME IInv, NEW t \in Threads, NEW b \in Laya, on[t] = b,
           LoadWeights(t), UNCHANGED sarVars
    PROVE  IInv'
<1>1. at[t] = "weights" /\ at[t] \in LayaSteps
  BY DEF LoadWeights, LayaAt, LayaSteps
<1>2. CountsTypeOK' /\ defect' = defect
  BY LayaMeans DEF LoadWeights, CountsTypeOK
<1>3. CASE Unlock(t, "idle") /\ lost' = TRUE /\ UNCHANGED laya
  <2> DEFINE new == laya[b]
  <2>1. Calls' /\ Moved(t, "rest") /\ Where(b) = at[t] /\ Where(b)' = "rest"
    BY <1>1, <1>3, LayaLeaves DEF LayaSteps
  <2>2. /\ new \in LayaAttributes /\ laya' = [laya EXCEPT ![b] = new]
        /\ laya'[b] = new /\ layaSlot' \in BOOLEAN /\ lost' \in BOOLEAN
        /\ lost => lost'
    BY <1>1, <1>3, LayaMeans DEF LoadWeights, LayaAttributes, layaVars
  <2>3. ~Holding(b)' /\ layaSlot' = layaSlot /\ lost'
    BY <1>1, <1>3, <2>1, <2>2, LayaMeans
    DEF LoadWeights, Holding, LayaAttributes, layaVars, LayaOK, Its
  <2>4. LayaOK(b)'
    BY <1>1, <1>3, <2>1, <2>2, LayaMeans DEF LayaOK, LayaAttributes, Its
  <2> HIDE DEF new
  <2> QED BY <1>1, <1>2, <2>1, <2>2, <2>3, <2>4, LayaMove
<1>4. CASE Goto(t, "giveBack") /\ UNCHANGED <<laya, lost>>
  <2> DEFINE new == laya[b]
  <2>1. Calls' /\ Moved(t, "giveBack") /\ Where(b) = at[t] /\ Where(b)' = "giveBack"
    BY <1>1, <1>4, LayaGoes DEF LayaSteps
  <2>2. /\ new \in LayaAttributes /\ laya' = [laya EXCEPT ![b] = new]
        /\ laya'[b] = new /\ layaSlot' \in BOOLEAN /\ lost' \in BOOLEAN
        /\ lost => lost'
    BY <1>1, <1>4, LayaMeans DEF LoadWeights, LayaAttributes, layaVars
  <2>3. (Holding(b)' <=> Holding(b)) /\ layaSlot' = layaSlot
    BY <1>1, <1>4, <2>1, <2>2, LayaMeans
    DEF LoadWeights, Holding, LayaAttributes, layaVars, LayaOK, Its
  <2>4. LayaOK(b)'
    BY <1>1, <1>4, <2>1, <2>2, LayaMeans DEF LayaOK, LayaAttributes, Its
  <2> HIDE DEF new
  <2> QED BY <1>1, <1>2, <2>1, <2>2, <2>3, <2>4, LayaMove
<1>5. CASE /\ laya' = [laya EXCEPT ![on[t]].loaded = TRUE] /\ UNCHANGED lost
           /\ Goto(t, "layaInfer")
  <2> DEFINE new == [laya[b] EXCEPT !.loaded = TRUE]
  <2>1. Calls' /\ Moved(t, "layaInfer") /\ Where(b) = at[t] /\ Where(b)' = "layaInfer"
    BY <1>1, <1>5, LayaGoes DEF LayaSteps
  <2>2. /\ new \in LayaAttributes /\ laya' = [laya EXCEPT ![b] = new]
        /\ laya'[b] = new /\ layaSlot' \in BOOLEAN /\ lost' \in BOOLEAN
        /\ lost => lost'
    BY <1>1, <1>5, LayaMeans DEF LoadWeights, LayaAttributes, layaVars
  <2>3. (Holding(b)' <=> Holding(b)) /\ layaSlot' = layaSlot
    BY <1>1, <1>5, <2>1, <2>2, LayaMeans
    DEF LoadWeights, Holding, LayaAttributes, layaVars, LayaOK, Its
  <2>4. LayaOK(b)'
    BY <1>1, <1>5, <2>1, <2>2, LayaMeans DEF LayaOK, LayaAttributes, Its
  <2> HIDE DEF new
  <2> QED BY <1>1, <1>2, <2>1, <2>2, <2>3, <2>4, LayaMove
<1>6. CASE /\ laya' = [laya EXCEPT ![on[t]].loaded = TRUE] /\ UNCHANGED lost
           /\ Unlock(t, "idle")
  <2> DEFINE new == [laya[b] EXCEPT !.loaded = TRUE]
  <2>1. Calls' /\ Moved(t, "rest") /\ Where(b) = at[t] /\ Where(b)' = "rest"
    BY <1>1, <1>6, LayaLeaves DEF LayaSteps
  <2>2. /\ new \in LayaAttributes /\ laya' = [laya EXCEPT ![b] = new]
        /\ laya'[b] = new /\ layaSlot' \in BOOLEAN /\ lost' \in BOOLEAN
        /\ lost => lost'
    BY <1>1, <1>6, LayaMeans DEF LoadWeights, LayaAttributes, layaVars
  <2>3. (Holding(b)' <=> Holding(b)) /\ layaSlot' = layaSlot
    BY <1>1, <1>6, <2>1, <2>2, LayaMeans
    DEF LoadWeights, Holding, LayaAttributes, layaVars, LayaOK, Its
  <2>4. LayaOK(b)'
    BY <1>1, <1>6, <2>1, <2>2, LayaMeans DEF LayaOK, LayaAttributes, Its
  <2> HIDE DEF new
  <2> QED BY <1>1, <1>2, <2>1, <2>2, <2>3, <2>4, LayaMove
<1> QED BY <1>3, <1>4, <1>5, <1>6 DEF LoadWeights

LEMMA GiveBackInv ==
    ASSUME IInv, NEW t \in Threads, NEW b \in Laya, on[t] = b,
           GiveBack(t), UNCHANGED sarVars
    PROVE  IInv'
<1>1. at[t] = "giveBack" /\ at[t] \in LayaSteps
  BY DEF GiveBack, LayaAt, LayaSteps
<1>2. CountsTypeOK' /\ defect' = defect
  BY LayaMeans DEF GiveBack, CountsTypeOK
<1>3. CASE Unlock(t, "idle")
  <2> DEFINE new == laya[b]
  <2>1. Calls' /\ Moved(t, "rest") /\ Where(b) = at[t] /\ Where(b)' = "rest"
    BY <1>1, <1>3, LayaLeaves DEF LayaSteps
  <2>2. /\ new \in LayaAttributes /\ laya' = [laya EXCEPT ![b] = new]
        /\ laya'[b] = new /\ layaSlot' \in BOOLEAN /\ lost' \in BOOLEAN
        /\ lost => lost'
    BY <1>1, <1>3, LayaMeans DEF GiveBack, LayaAttributes, layaVars
  <2>3. Holding(b) /\ ~Holding(b)' /\ ~layaSlot'
    BY <1>1, <1>3, <2>1, <2>2, LayaMeans
    DEF GiveBack, Holding, LayaAttributes, layaVars, LayaOK, Its
  <2>4. LayaOK(b)'
    BY <1>1, <1>3, <2>1, <2>2, LayaMeans DEF LayaOK, LayaAttributes, Its
  <2> HIDE DEF new
  <2> QED BY <1>1, <1>2, <2>1, <2>2, <2>3, <2>4, LayaMove
<1> QED BY <1>3 DEF GiveBack

LEMMA InferLayaInv ==
    ASSUME IInv, NEW t \in Threads, NEW b \in Laya, on[t] = b,
           InferLaya(t), UNCHANGED sarVars
    PROVE  IInv'
<1>1. at[t] = "layaInfer" /\ at[t] \in LayaSteps
  BY DEF InferLaya, LayaAt, LayaSteps
<1>2. CountsTypeOK' /\ defect' = defect
  BY LayaMeans DEF InferLaya, CountsTypeOK
<1>3. CASE Unlock(t, "idle")
  <2> DEFINE new == laya[b]
  <2>1. Calls' /\ Moved(t, "rest") /\ Where(b) = at[t] /\ Where(b)' = "rest"
    BY <1>1, <1>3, LayaLeaves DEF LayaSteps
  <2>2. /\ new \in LayaAttributes /\ laya' = [laya EXCEPT ![b] = new]
        /\ laya'[b] = new /\ layaSlot' \in BOOLEAN /\ lost' \in BOOLEAN
        /\ lost => lost'
    BY <1>1, <1>3, LayaMeans DEF InferLaya, LayaAttributes, layaVars
  <2>3. (Holding(b)' <=> Holding(b)) /\ layaSlot' = layaSlot
    BY <1>1, <1>3, <2>1, <2>2, LayaMeans
    DEF InferLaya, Holding, LayaAttributes, layaVars, LayaOK, Its
  <2>4. LayaOK(b)'
    BY <1>1, <1>3, <2>1, <2>2, LayaMeans DEF LayaOK, LayaAttributes, Its
  <2> HIDE DEF new
  <2> QED BY <1>1, <1>2, <2>1, <2>2, <2>3, <2>4, LayaMove
<1> QED BY <1>3 DEF InferLaya

LEMMA CloseLayaInv ==
    ASSUME IInv, NEW t \in Threads, NEW b \in Laya, on[t] = b,
           CloseLaya(t), UNCHANGED sarVars
    PROVE  IInv'
<1>1. at[t] = "enter"
  BY DEF CloseLaya, LayaAt, LayaSteps
<1>2. CountsTypeOK' /\ defect' = defect
  BY LayaMeans DEF CloseLaya, CountsTypeOK
<1>3. CASE Its(t).loaded /\ Lock(t, "giveBack")
  <2> DEFINE new == [closed |-> TRUE, receipt |-> FALSE, loaded |-> FALSE]
  <2>1. Calls' /\ Moved(t, "giveBack") /\ Where(b) = "rest" /\ Where(b)' = "giveBack"
    BY <1>1, <1>3, LayaEnters DEF LayaSteps
  <2>2. /\ new \in LayaAttributes /\ laya' = [laya EXCEPT ![b] = new]
        /\ laya'[b] = new /\ layaSlot' \in BOOLEAN /\ lost' \in BOOLEAN
        /\ lost => lost'
    BY <1>1, <1>3, LayaMeans DEF CloseLaya, LayaAttributes, layaVars
  <2>3. (Holding(b)' <=> Holding(b)) /\ layaSlot' = layaSlot
    BY <1>1, <1>3, <2>1, <2>2, LayaMeans
    DEF CloseLaya, Holding, LayaAttributes, layaVars, LayaOK, Its
  <2>4. LayaOK(b)'
    BY <1>1, <1>3, <2>1, <2>2, LayaMeans DEF LayaOK, LayaAttributes, Its
  <2> HIDE DEF new
  <2> QED BY <1>1, <1>2, <2>1, <2>2, <2>3, <2>4, LayaMove
<1>4. CASE ~Its(t).loaded /\ Bounce(t)
  <2> DEFINE new == [closed |-> TRUE, receipt |-> FALSE, loaded |-> FALSE]
  <2>1. Calls' /\ Moved(t, "rest") /\ Where(b) = "rest" /\ Where(b)' = "rest"
    BY <1>1, <1>4, LayaBounces DEF LayaSteps
  <2>2. /\ new \in LayaAttributes /\ laya' = [laya EXCEPT ![b] = new]
        /\ laya'[b] = new /\ layaSlot' \in BOOLEAN /\ lost' \in BOOLEAN
        /\ lost => lost'
    BY <1>1, <1>4, LayaMeans DEF CloseLaya, LayaAttributes, layaVars
  <2>3. (Holding(b)' <=> Holding(b)) /\ layaSlot' = layaSlot
    BY <1>1, <1>4, <2>1, <2>2, LayaMeans
    DEF CloseLaya, Holding, LayaAttributes, layaVars, LayaOK, Its
  <2>4. LayaOK(b)'
    BY <1>1, <1>4, <2>1, <2>2, LayaMeans DEF LayaOK, LayaAttributes, Its
  <2> HIDE DEF new
  <2> QED BY <1>1, <1>2, <2>1, <2>2, <2>3, <2>4, LayaMove
<1> QED BY <1>3, <1>4 DEF CloseLaya

LEMMA LayaStepInv ==
    ASSUME IInv, NEW t \in Threads, LayaStep(t), UNCHANGED sarVars
    PROVE  IInv'
<1>1. on[t] \in Laya
  BY DEF LayaStep, LayaAt, EnterLaya, LoadTokenizer, TakeLayaSlot,
         RefuseRendering, Preflight, LoadWeights, GiveBack, InferLaya, CloseLaya
<1> QED BY <1>1, EnterLayaInv, LoadTokenizerInv, TakeLayaSlotInv,
           RefuseRenderingInv, PreflightInv, LoadWeightsInv, GiveBackInv,
           InferLayaInv, CloseLayaInv
        DEF LayaStep

-----------------------------------------------------------------------------
(* The invariant, and what follows from it.                                *)

LEMMA InitInv == Init => IInv
<1> SUFFICES ASSUME Init PROVE IInv
  OBVIOUS
<1> USE CallsAssumption, ClassesAssumption DEF Init
<1>1. Calls /\ \A b \in Backends : Where(b) = "rest"
  BY DEF InitCalls, Calls, CallsTypeOK, Control, Where, InLock, Operations,
         SaracuraSteps, LayaSteps
<1>2. CountsTypeOK
  BY DEF InitCalls, CountsTypeOK
<1>3. SaracuraInv
  BY <1>1 DEF InitSaracura, Constructed, SaracuraInv, SaracuraTypeOK, Attributes,
              SaracuraSlot, SaracuraOK, Preparing, Loading
<1>4. LayaInv
  BY <1>1 DEF InitLaya, LayaInv, LayaTypeOK, LayaSlot, LayaOK, Holding
<1> QED BY <1>1, <1>2, <1>3, <1>4 DEF IInv

LEMMA StartCallInv ==
    ASSUME IInv, NEW t \in Threads, StartCall(t)
    PROVE  IInv'
<1>1. PICK b \in Backends, m \in Operations : Call(t, b, m)
  BY DEF StartCall
<1>2. Calls' /\ Stayed
  BY <1>1, CallFacts DEF IInv
<1> QED BY <1>1, <1>2, NobodyMoved DEF StartCall, Call

LEMMA NextInv == IInv /\ [Next]_vars => IInv'
<1> SUFFICES ASSUME IInv, [Next]_vars PROVE IInv'
  OBVIOUS
<1>1. CASE UNCHANGED vars
  <2>1. Calls' /\ Stayed
    BY <1>1 DEF vars, callVars, IInv, Calls, CallsTypeOK, Control, InLock, Stayed,
                Where, Doing
  <2> QED BY <1>1, <2>1, NobodyMoved DEF vars, callVars
<1>2. ASSUME NEW t \in Threads, StartCall(t) PROVE IInv'
  BY <1>2, StartCallInv
<1>3. ASSUME NEW t \in Threads, Advance(t) PROVE IInv'
  BY <1>3, SaracuraStepInv, LayaStepInv DEF Advance
<1> QED BY <1>1, <1>2, <1>3 DEF Next

\* The types, for any number of threads and calls: in particular torch's thread
\* count is set to a number only (saracura_universal.py prepare, close).
THEOREM TypeCorrect == Spec => []TypeOK
<1>1. IInv => TypeOK
  BY DEF IInv, Calls, CallsTypeOK, CountsTypeOK, SaracuraInv, LayaInv, TypeOK
<1> QED BY <1>1, InitInv, NextInv, PTL DEF Spec

\* One model per class is resident at most, each slot knows it, and only an
\* error that laya.py does not list loses a slot.
THEOREM SlotsHold == Spec => []SlotsAccounted
<1>1. ASSUME IInv PROVE SlotsAccounted
  <2>1. \A b \in Laya : b \in LayaHolders <=> Holding(b)
    BY <1>1, ClassesAssumption, CallsAssumption
    DEF IInv, Calls, CallsTypeOK, Control, LayaHolders, Holding, Where, InLock,
        LayaSteps, SaracuraSteps
  <2>2. LayaHolders \subseteq Laya
    BY DEF LayaHolders
  <2>3. /\ \A b, c \in LayaHolders : b = c
        /\ LayaHolders # {} => layaSlot
        /\ layaSlot => LayaHolders # {} \/ lost
    BY <1>1, <2>1, <2>2 DEF IInv, LayaInv, LayaSlot
  <2> QED BY <1>1, <2>3 DEF IInv, SaracuraInv, SaracuraSlot, SaracuraOK, SlotsAccounted
<1> QED BY <1>1, InitInv, NextInv, PTL DEF Spec

\* Only a backend that found the slot taken is spent with sound inputs
\* (_verify_snapshot consumes its path before _load_runtime asks for the slot).
THEOREM SpentHasReason == Spec => []SpentOnlyAfterRefusal
<1>1. IInv => SpentOnlyAfterRefusal
  BY ClassesAssumption
  DEF IInv, SaracuraInv, SaracuraOK, Excused, Where, Loading, SpentOnlyAfterRefusal
<1> QED BY <1>1, InitInv, NextInv, PTL DEF Spec

\* A call that scores finds its model resident until its pass is over, however
\* closes and loads of other threads fall (score_universal_choice takes the
\* lock a second time, and holds it through the pass).
THEOREM ScoresAreResident == Spec => []ScoredWhileResident
<1>1. ASSUME IInv, NEW t \in Threads
      PROVE  /\ at[t] \in {"tokenize", "infer"} =>
                   /\ sarSlot
                   /\ sar[on[t]].prepared /\ sar[on[t]].owns /\ ~sar[on[t]].closed
             /\ at[t] = "layaInfer" =>
                   layaSlot /\ laya[on[t]].loaded /\ ~laya[on[t]].closed
  <2>1. ASSUME at[t] \in SaracuraSteps
        PROVE  on[t] \in Saracura /\ Where(on[t]) = at[t]
    BY <1>1, <2>1, CallsAssumption, ClassesAssumption
    DEF IInv, Calls, CallsTypeOK, Control, InLock, Where
  <2>2. ASSUME at[t] \in LayaSteps
        PROVE  on[t] \in Laya /\ Where(on[t]) = at[t]
    BY <1>1, <2>2, CallsAssumption, ClassesAssumption
    DEF IInv, Calls, CallsTypeOK, Control, InLock, Where
  <2>3. at[t] \in {"tokenize", "infer"} =>
           /\ sarSlot
           /\ sar[on[t]].prepared /\ sar[on[t]].owns /\ ~sar[on[t]].closed
    BY <1>1, <2>1 DEF IInv, SaracuraInv, SaracuraSlot, SaracuraOK, SaracuraSteps
  <2>4. at[t] = "layaInfer" =>
           layaSlot /\ laya[on[t]].loaded /\ ~laya[on[t]].closed
    BY <1>1, <2>2 DEF IInv, LayaInv, LayaSlot, LayaOK, LayaSteps, Holding
  <2> QED BY <2>3, <2>4
<1>2. IInv => ScoredWhileResident
  BY <1>1 DEF ScoredWhileResident
<1> QED BY <1>2, InitInv, NextInv, PTL DEF Spec

-----------------------------------------------------------------------------
(* Sequences, finite sets and orders.                                      *)

LEMMA SequenceFacts ==
    ASSUME NEW s, Sequence(s)
    PROVE  Len(s) \in Nat /\ DOMAIN s = 1 .. Len(s) /\ s \in Seq(Items(s))
  BY LenProperties DEF Sequence

LEMMA EmptySequence ==
    /\ Sequence(<<>>) /\ Len(<<>>) = 0 /\ DOMAIN <<>> = {}
    /\ \A s : Sequence(s) /\ Len(s) = 0 => s = <<>>
<1>1. Sequence(<<>>) /\ Len(<<>>) = 0
  BY EmptySeq DEF Sequence
<1>2. ASSUME NEW s, Sequence(s), Len(s) = 0 PROVE s = <<>>
  <2>1. s \in Seq(Items(s))
    BY <1>2 DEF Sequence
  <2> QED BY <1>2, <2>1, EmptySeq
<1> QED BY <1>1, <1>2, SequenceFacts

LEMMA AppendFacts ==
    ASSUME NEW s, Sequence(s), NEW x
    PROVE  /\ Sequence(Append(s, x))
           /\ Len(Append(s, x)) = Len(s) + 1
           /\ DOMAIN Append(s, x) = 1 .. Len(s) + 1
           /\ \A i \in DOMAIN s : Append(s, x)[i] = s[i]
           /\ Append(s, x)[Len(s) + 1] = x
           /\ Append(s, x) # <<>>
<1> DEFINE S == Items(s) \cup {x}
           t == Append(s, x)
<1>1. s \in Seq(S) /\ x \in S /\ Len(s) \in Nat /\ DOMAIN s = 1 .. Len(s)
  BY SequenceFacts, SeqMonotonic
<1> HIDE DEF S
<1>2. /\ t \in Seq(S) /\ Len(t) = Len(s) + 1
      /\ \A i \in 1 .. Len(s) : t[i] = s[i]
      /\ t[Len(s) + 1] = x
  BY <1>1, AppendProperties
<1> HIDE DEF t
<1>3. Len(t) \in Nat /\ DOMAIN t = 1 .. Len(t)
  BY <1>2, LenProperties
<1>4. \A i \in 1 .. Len(t) : t[i] \in Items(t)
  BY <1>3 DEF Items
<1>5. t \in Seq(Items(t))
  <2>1. t \in [1 .. Len(t) -> S]
    BY <1>2, LenProperties
  <2>2. t \in [1 .. Len(t) -> Items(t)]
    BY <1>4, <2>1
  <2> QED BY <1>3, <2>2, SeqDef
<1>6. t # <<>>
  BY <1>1, <1>2, EmptySequence
<1> QED BY <1>1, <1>2, <1>3, <1>5, <1>6 DEF Sequence, t

LEMMA ItemsFinite ==
    ASSUME NEW s, Sequence(s)
    PROVE  /\ IsFiniteSet(Items(s))
           /\ Len(s) > 0 => Items(s) # {}
<1>1. Len(s) \in Nat /\ DOMAIN s = 1 .. Len(s)
  BY SequenceFacts
<1>2. IsFiniteSet(DOMAIN s)
  BY <1>1, FS_Interval
<1>3. s \in Surjection(DOMAIN s, Items(s))
  <2>1. s \in [DOMAIN s -> Items(s)]
    <3>1. s \in [1 .. Len(s) -> Items(s)]
      BY SequenceFacts, LenProperties
    <3> QED BY <1>1, <3>1
  <2> QED BY <2>1 DEF Surjection, Items
<1>4. IsFiniteSet(Items(s))
  BY <1>2, <1>3, FS_Surjection
<1>5. ASSUME Len(s) > 0 PROVE Items(s) # {}
  <2>1. 1 \in DOMAIN s
    BY <1>1, <1>5
  <2> QED BY <2>1 DEF Items
<1> QED BY <1>4, <1>5

\* Of sets of which some are bad, one is bad and none of its proper subsets.
LEMMA LeastBad ==
    ASSUME NEW S, IsFiniteSet(S), NEW Bad \in SUBSET SUBSET S, Bad # {}
    PROVE  \E T \in Bad : \A U \in Bad : U \subseteq T => U = T
<1> DEFINE R == StrictSubsetOrdering(S)
<1>1. IsWellFoundedOn(R, SUBSET S)
  BY FS_StrictSubsetOrderingWellFounded, FS_FiniteSubsetsOfFinite
<1>2. \A T, U \in SUBSET S : U \subseteq T /\ U # T => <<U, T>> \in R
  BY DEF StrictSubsetOrdering
<1> HIDE DEF R
<1>3. PICK T \in Bad : \A U \in Bad : ~(<<U, T>> \in R)
  BY <1>1, WFMin
<1> QED BY <1>2, <1>3

LEMMA GreatestWeight ==
    ASSUME NEW D, IsFiniteSet(D), D # {}, NEW w, DOMAIN w = D, \A l \in D : w[l] \in Nat
    PROVE  Best(w) # {}
<1> DEFINE Has(S) == \E l \in S : \A m \in S : w[m] <= w[l]
           Bad == {S \in SUBSET D : S # {} /\ ~Has(S)}
<1>1. SUFFICES Bad = {}
  <2>1. Has(D)
    BY <1>1
  <2> QED BY <2>1 DEF Best
<1>2. SUFFICES ASSUME Bad # {} PROVE FALSE
  OBVIOUS
<1>3. PICK T \in Bad : \A U \in Bad : U \subseteq T => U = T
  <2>1. Bad \in SUBSET SUBSET D
    OBVIOUS
  <2> HIDE DEF Bad
  <2> QED BY <1>2, <2>1, LeastBad
<1>4. PICK x \in T : TRUE
  BY <1>3
<1>5. T \ {x} \notin Bad
  BY <1>3, <1>4
<1>6. CASE T \ {x} = {}
  <2>1. \A m \in T : m = x
    BY <1>6
  <2>2. w[x] \in Nat
    BY <1>3, <1>4
  <2>3. Has(T)
    BY <1>4, <2>1, <2>2
  <2> QED BY <1>3, <2>3
<1>7. CASE T \ {x} # {}
  <2>1. PICK l \in T \ {x} : \A m \in T \ {x} : w[m] <= w[l]
    BY <1>3, <1>5, <1>7
  <2>2. w[l] \in Nat /\ w[x] \in Nat /\ \A m \in T : w[m] \in Nat
    BY <1>3, <1>4, <2>1
  <2>3. CASE w[x] <= w[l]
    <3>1. \A m \in T : w[m] <= w[l]
      BY <2>1, <2>3
    <3> QED BY <1>3, <2>1, <3>1
  <2>4. CASE w[l] <= w[x]
    <3>1. \A m \in T : w[m] <= w[x]
      <4> TAKE m \in T
      <4>1. CASE m = x
        BY <2>2, <4>1
      <4>2. CASE m # x
        <5>1. w[m] <= w[l]
          BY <2>1, <4>2
        <5> QED BY <2>2, <2>4, <5>1
      <4> QED BY <4>1, <4>2
    <3> QED BY <1>3, <1>4, <3>1
  <2> QED BY <2>2, <2>3, <2>4
<1> QED BY <1>6, <1>7

\* The first of the criteria of greatest weight is one of them.
LEMMA FirstBestFacts ==
    ASSUME NEW q, Sequence(q.criteria), Len(q.criteria) > 0,
           NEW w, DOMAIN w = Items(q.criteria), \A l \in DOMAIN w : w[l] \in Nat
    PROVE  FirstBest(q, w) \in Best(w)
<1> DEFINE best == {i \in DOMAIN q.criteria : q.criteria[i] \in Best(w)}
<1>1. Best(w) # {} /\ Best(w) \subseteq Items(q.criteria)
  <2>1. Best(w) # {}
    BY ItemsFinite, GreatestWeight
  <2> QED BY <2>1 DEF Best
<1>2. best \in SUBSET Nat /\ best # {}
  <2>1. DOMAIN q.criteria \subseteq Nat
    BY SequenceFacts
  <2> QED BY <1>1, <2>1 DEF Items
<1>3. \E i \in best : \A j \in best : i <= j
  <2> DEFINE R == OpToRel(<, Nat)
  <2>1. IsWellFoundedOn(R, Nat)
    BY NatLessThanWellFounded
  <2>2. \A x, m \in Nat : x < m => <<x, m>> \in R
    BY DEF OpToRel
  <2> HIDE DEF R, best
  <2>3. PICK m \in best : \A x \in best : ~(<<x, m>> \in R)
    BY <1>2, <2>1, WFMin
  <2>4. \A x \in best : m <= x
    <3> TAKE x \in best
    <3>1. x \in Nat /\ m \in Nat /\ ~(x < m)
      BY <1>2, <2>2, <2>3
    <3> QED BY <3>1
  <2> QED BY <2>4
<1>4. FirstBest(q, w) = q.criteria[CHOOSE i \in best : \A j \in best : i <= j]
  BY DEF FirstBest
<1>5. (CHOOSE i \in best : \A j \in best : i <= j) \in best
  <2> HIDE DEF best
  <2> QED BY <1>3
<1> QED BY <1>4, <1>5

-----------------------------------------------------------------------------
(* Rankings.                                                               *)

LEMMA HeavierOrders ==
    ASSUME NEW p, NEW w, Sequence(p.question.criteria),
           DOMAIN w = Items(p.question.criteria), \A l \in DOMAIN w : w[l] \in Nat
    PROVE  /\ \A l \in DOMAIN w : ~Heavier(p, w, l, l)
           /\ \A l, m \in DOMAIN w : l # m => Heavier(p, w, l, m) \/ Heavier(p, w, m, l)
           /\ \A l, m, n \in DOMAIN w :
                Heavier(p, w, l, m) /\ Heavier(p, w, m, n) => Heavier(p, w, l, n)
<1> DEFINE cs == p.question.criteria
<1>1. \A l \in DOMAIN w : Place(p, l) \in DOMAIN cs /\ cs[Place(p, l)] = l
  <2> TAKE l \in DOMAIN w
  <2>1. \E i \in DOMAIN cs : cs[i] = l
    BY DEF Items
  <2> QED BY <2>1 DEF Place
<1>2. DOMAIN cs \subseteq Nat
  BY SequenceFacts
<1>3. \A l \in DOMAIN w : Place(p, l) \in Nat
  BY <1>1, <1>2
<1>4. \A l, m \in DOMAIN w : Place(p, l) = Place(p, m) => l = m
  BY <1>1
<1> QED BY <1>3, <1>4 DEF Heavier

\* Any labels can be put in order.
LEMMA OrderExists ==
    ASSUME NEW p, NEW w, Sequence(p.question.criteria),
           DOMAIN w = Items(p.question.criteria), \A l \in DOMAIN w : w[l] \in Nat
    PROVE  \E s \in [1 .. Cardinality(DOMAIN w) -> DOMAIN w] : Sorted(p, w, s)
<1> DEFINE D == DOMAIN w
           Order(S) == \E s \in [1 .. Cardinality(S) -> S] : Sorted(p, w, s)
           Bad == {S \in SUBSET D : ~Order(S)}
<1>0. IsFiniteSet(D)
  BY ItemsFinite
<1>1. SUFFICES ASSUME Bad # {} PROVE FALSE
  OBVIOUS
<1>2. PICK T \in Bad : \A U \in Bad : U \subseteq T => U = T
  <2>1. Bad \in SUBSET SUBSET D
    OBVIOUS
  <2> HIDE DEF Bad
  <2> QED BY <1>0, <1>1, <2>1, LeastBad
<1>3. T \subseteq D /\ ~Order(T) /\ IsFiniteSet(T) /\ Cardinality(T) \in Nat
  <2>1. T \subseteq D /\ ~Order(T)
    BY <1>2
  <2> QED BY <1>0, <2>1, FS_Subset, FS_CardinalityType
<1>4. T # {}
  <2>1. SUFFICES ASSUME T = {} PROVE Order(T)
    BY <1>3
  <2>2. Cardinality(T) = 0
    BY <2>1, FS_EmptySet
  <2>3. [i \in 1 .. 0 |-> i] \in [1 .. Cardinality(T) -> T]
    BY <2>2
  <2>4. Sorted(p, w, [i \in 1 .. 0 |-> i])
    BY DEF Sorted
  <2> QED BY <2>3, <2>4
\* The last of them goes behind the others.
<1>5. PICK x \in T : \A y \in T : y # x => Heavier(p, w, y, x)
  <2> DEFINE Last(S) == \E l \in S : \A y \in S : y # l => Heavier(p, w, y, l)
             None == {S \in SUBSET T : S # {} /\ ~Last(S)}
  <2>1. SUFFICES ASSUME None # {} PROVE FALSE
    BY <1>4
  <2>2. PICK S \in None : \A U \in None : U \subseteq S => U = S
    <3>1. None \in SUBSET SUBSET T
      OBVIOUS
    <3> HIDE DEF None
    <3> QED BY <1>3, <2>1, <3>1, LeastBad
  <2>3. PICK z \in S : TRUE
    BY <2>2
  <2>4. S \subseteq D
    BY <1>3, <2>2
  <2>5. CASE S \ {z} = {}
    <3>1. Last(S)
      BY <2>3, <2>5
    <3> QED BY <2>2, <3>1
  <2>6. CASE S \ {z} # {}
    <3>1. Last(S \ {z})
      <4>1. S \ {z} \in SUBSET T /\ S \ {z} # S
        BY <2>2, <2>3
      <4>2. S \ {z} \notin None
        <5> HIDE DEF None
        <5> QED BY <2>2, <4>1
      <4> QED BY <2>6, <4>1, <4>2
    <3>2. PICK l \in S \ {z} : \A y \in S \ {z} : y # l => Heavier(p, w, y, l)
      BY <3>1
    <3>3. l \in D /\ z \in D /\ l # z /\ \A y \in S : y \in D
      BY <2>3, <2>4, <3>2
    <3>4. CASE Heavier(p, w, z, l)
      <4>1. \A y \in S : y # l => Heavier(p, w, y, l)
        BY <3>2, <3>4
      <4> QED BY <2>2, <3>2, <4>1
    <3>5. CASE Heavier(p, w, l, z)
      <4>1. \A y \in S : y # z => Heavier(p, w, y, z)
        <5> SUFFICES ASSUME NEW y \in S, y # z PROVE Heavier(p, w, y, z)
          OBVIOUS
        <5>1. CASE y = l
          BY <3>5, <5>1
        <5>2. CASE y # l
          <6>1. Heavier(p, w, y, l)
            BY <3>2, <5>2
          <6> QED BY <3>3, <3>5, <6>1, HeavierOrders
        <5> QED BY <5>1, <5>2
      <4> QED BY <2>2, <2>3, <4>1
    <3> QED BY <3>3, <3>4, <3>5, HeavierOrders
  <2> QED BY <2>5, <2>6
<1> DEFINE U == T \ {x}
           n == Cardinality(U)
<1>6. IsFiniteSet(U) /\ n \in Nat /\ Cardinality(T) = n + 1
  <2>1. IsFiniteSet(U) /\ n = Cardinality(T) - 1
    BY <1>3, <1>5, FS_RemoveElement
  <2>2. n \in Nat
    BY <2>1, FS_CardinalityType
  <2> HIDE DEF n
  <2> QED BY <1>3, <2>1, <2>2
<1>7. PICK s \in [1 .. n -> U] : Sorted(p, w, s)
  <2>1. U \in SUBSET D /\ U # T /\ U \subseteq T
    BY <1>3, <1>5
  <2>2. U \notin Bad
    <3> HIDE DEF Bad, U
    <3> QED BY <1>2, <2>1
  <2>3. Order(U)
    BY <2>1, <2>2
  <2> QED BY <2>3
<1> DEFINE t == [i \in 1 .. n + 1 |-> IF i = n + 1 THEN x ELSE s[i]]
<1> HIDE DEF n
<1>8. t \in [1 .. Cardinality(T) -> T]
  <2>1. ASSUME NEW i \in 1 .. n + 1, i # n + 1 PROVE s[i] \in T
    <3>1. i \in 1 .. n
      BY <1>6, <2>1
    <3> QED BY <1>7, <3>1
  <2> QED BY <1>5, <1>6, <2>1
<1>9. Sorted(p, w, t)
  <2> SUFFICES ASSUME NEW i \in 1 .. n + 1, NEW j \in 1 .. n + 1, i < j
               PROVE  Heavier(p, w, t[i], t[j])
    BY DEF Sorted
  <2>1. i \in 1 .. n /\ t[i] = s[i] /\ s[i] \in U
    <3>1. i \in 1 .. n
      BY <1>6
    <3> QED BY <1>6, <1>7, <3>1
  <2>2. CASE j = n + 1
    <3>1. t[j] = x /\ s[i] # x /\ s[i] \in T
      BY <2>1, <2>2
    <3> QED BY <1>5, <2>1, <3>1
  <2>3. CASE j # n + 1
    <3>1. j \in 1 .. n /\ t[j] = s[j]
      BY <1>6, <2>3
    <3> QED BY <1>7, <2>1, <3>1 DEF Sorted
  <2> QED BY <2>2, <2>3
<1> QED BY <1>3, <1>8, <1>9

LEMMA RankingFacts ==
    ASSUME NEW p, NEW w, Sequence(p.question.criteria),
           DOMAIN w = Items(p.question.criteria), \A l \in DOMAIN w : w[l] \in Nat
    PROVE  /\ Sorted(p, w, Ranking(p, w))
           /\ Items(Ranking(p, w)) = DOMAIN w
           /\ Len(Ranking(p, w)) = Cardinality(DOMAIN w)
<1> DEFINE D == DOMAIN w
           n == Cardinality(D)
           s == Ranking(p, w)
<1>1. IsFiniteSet(D) /\ n \in Nat
  BY ItemsFinite, FS_CardinalityType
<1>2. s \in [1 .. n -> D] /\ Sorted(p, w, s)
  BY OrderExists DEF Ranking
<1> HIDE DEF s
<1>3. s \in Injection(1 .. n, D)
  <2>1. ASSUME NEW i \in 1 .. n, NEW j \in 1 .. n, s[i] = s[j] PROVE i = j
    <3>1. ~(i < j) /\ ~(j < i)
      <4>1. s[i] \in D
        BY <1>2
      <4> QED BY <1>2, <2>1, <4>1, HeavierOrders DEF Sorted
    <3> HIDE DEF n
    <3> QED BY <1>1, <3>1
  <2>2. DOMAIN s = 1 .. n
    BY <1>2
  <2> QED BY <1>2, <2>1, <2>2 DEF Injection, IsInjective
<1>4. Cardinality(1 .. n) = n
  <2> HIDE DEF n
  <2>1. Cardinality(1 .. n) = IF 1 > n THEN 0 ELSE n - 1 + 1
    BY <1>1, FS_Interval
  <2> QED BY <1>1, <2>1
<1>5. s \in Surjection(1 .. n, D)
  BY <1>1, <1>3, <1>4, FS_Injection
<1>6. Items(s) = D
  BY <1>2, <1>5 DEF Surjection, Items
<1>7. Len(s) = n
  <2>1. s \in Seq(D) /\ DOMAIN s = 1 .. n
    BY <1>1, <1>2, SeqDef
  <2>2. Len(s) \in Nat /\ DOMAIN s = 1 .. Len(s)
    BY <2>1, LenProperties
  <2> HIDE DEF n
  <2> QED BY <1>1, <2>1, <2>2
<1> QED BY <1>2, <1>6, <1>7 DEF s

-----------------------------------------------------------------------------
(* The inductive invariant, caller by caller.  k is the call a caller is   *)
(* in, b its backend, m a command and g a runner.                          *)

ProfileIn(k, kind) ==
    IF k.profile # Nothing THEN k.profile
    ELSE IF kind = "fixture" THEN "fixture" ELSE Nothing

\* A calibration that was resolved is the one given for its question, has the
\* context of the question and verified at some time of the call.
Genuine(k, artifacts, kind, now, i) ==
    LET q == k.request.questions[i]
        a == k.resolved[i]
    IN  /\ a = artifacts[q.id]
        /\ a.schema = 2 => \E time \in k.entered .. now : ResearchVerifies(a, time)
        /\ a.context = ContextOf(k.request, q, Models[kind], ProfileIn(k, kind))

\* What is true of an answer to question q by a backend of a kind.
AnswerEarned(q, kind, a) ==
    /\ a.question = q.id
    /\ DOMAIN a.raw = Items(q.criteria)
    /\ kind # "custom" => DOMAIN a.weights = DOMAIN a.raw
    /\ kind = "saracura" => \A l \in DOMAIN a.weights : a.weights[l] \in Nat
    /\ a.value \in Best(a.weights)
    /\ kind \in {"systemone"} \cup JuliaKinds => a.scale.made
    /\ a.scale.made => IsDistribution(a.weights, a.scale.of)
    /\ kind \notin Compiled =>
          a.abstained /\ a.calibration = Nothing /\ a.status = "uncalibrated"

Calibrated(kind, a, artifact) ==
    kind \in Compiled =>
        /\ a.calibration.id = artifact.id
        /\ a.status = "calibrated" => artifact.schema = 2

CallFields == {"at", "request", "profile", "entered", "resolved", "encoded", "answers"}
CallSteps == {"idle", "gates", "resolve", "encode", "score", "answered", "refused"}

CallOk(k, artifacts, kind, now) ==
    /\ k.at \in CallSteps
    /\ k.at = "idle" => k.answers = <<>>
    /\ k.at # "idle" =>
         /\ Listed(k.request) /\ RequestClosed(k.request)
         /\ k.entered \in Nat /\ k.entered <= now
         /\ Sequence(k.resolved) /\ Len(k.resolved) <= Len(k.request.questions)
         /\ k.at = "gates" => k.resolved = <<>>
         /\ k.at = "resolve" => Len(k.resolved) < Len(k.request.questions)
         /\ k.at = "encode" \/ (k.at \in {"score", "answered"} /\ kind \in Compiled) =>
               Len(k.resolved) = Len(k.request.questions)
         /\ Sequence(k.answers) /\ Len(k.answers) <= Len(k.request.questions)
         /\ k.at \in {"gates", "resolve", "encode"} => k.answers = <<>>
         /\ k.at = "score" => Len(k.answers) < Len(k.request.questions)
         /\ k.at = "answered" => Len(k.answers) = Len(k.request.questions)
         /\ \A i \in DOMAIN k.resolved : Genuine(k, artifacts, kind, now, i)
         /\ \A i \in DOMAIN k.answers :
              /\ AnswerEarned(k.request.questions[i], kind, k.answers[i])
              /\ Calibrated(kind, k.answers[i], k.resolved[i])

\* What a backend has loaded.
LoadedOk(b, k) ==
    /\ b.open => b.verified = "pinned"
    /\ b.kind \notin JuliaKinds =>
         /\ b.loaded \in {Nothing, "pinned"}
         /\ k.answers # <<>> => b.loaded = "pinned"

CommandSteps ==
    {"request", "envelope", "capsule", "construct", "context", "decide", "deciding",
     "close", "closeFailed", "embed", "describe", "describing", "identity", "done", "failed"}

CommandOk(m, k, b, answers) ==
    /\ m.lane \in Kinds
    /\ m.step \in CommandSteps
    /\ m.step \notin {"deciding", "close", "closeFailed", "done", "failed"} => k.at = "idle"
    /\ m.step \in {"request", "envelope", "capsule", "construct", "context", "embed", "decide"} =>
          Listed(m.request)
    /\ m.step \in {"envelope", "capsule", "context", "embed", "decide"}
          \/ (m.step = "construct" /\ m.lane # "systemone") => RequestClosed(m.request)
    /\ m.step \in {"context", "decide"} \/ (m.step = "request" /\ m.lane = "systemone") =>
          b.kind = m.lane
    /\ m.step = "describing" => b.open
    /\ k.at # "idle" => k.request = m.request /\ b.kind = m.lane
    /\ answers # Nothing => k.at = "answered" /\ answers = k.answers

\* Record r is what the item says under the policy.
Proper(p, item, r) ==
    /\ r.ref = item.ref
    /\ r.policy = PolicyDigest(p)
    /\ r.model = Models["saracura"] /\ r.model.revision = p.model
    /\ RecordClosed(r)
    /\ Items(r.ranking) = Items(p.question.criteria)
    /\ Len(r.ranking) = Cardinality(Items(p.question.criteria))
    /\ Sorted(p, r.weights, r.ranking)

\* A batch: its items are the first lines of the input, and its records are
\* those of its first items.
BatchOk(g, b, written) ==
    /\ b.opened > 0 => g.items = g.input
    /\ g.step \in {"capsule", "enter", "preparing", "open", "asking", "closing",
                   "output", "written", "evaluated"} => g.items = g.input
    /\ g.step \in {"policy", "items", "capsule", "enter", "preparing"} => g.records = <<>>
    /\ g.step \in {"capsule", "enter", "preparing"} => Len(g.items) > 0
    /\ g.step \in {"open", "asking"} => Len(g.records) < Len(g.items)
    /\ g.step = "asking" => g.asked = g.items[Len(g.records) + 1]
    /\ g.step = "closing" => g.failedAt > 0 \/ Len(g.records) = Len(g.items)
    /\ g.step \in {"output", "written", "evaluated"} => Len(g.records) = Len(g.items)
    /\ Len(g.records) <= Len(g.items)
    /\ \A i \in DOMAIN g.records : Proper(g.policy, g.items[i], g.records[i])
    /\ written # Nothing => g.step \in {"written", "evaluated"} /\ written = g.records

RunnerSteps ==
    {"policy", "items", "capsule", "enter", "preparing", "open", "asking", "closing",
     "closed", "failed", "output", "written", "evaluated"}

RunnerOk(g, k, b, written) ==
    /\ g.source \in {"command", "library"} /\ g.step \in RunnerSteps
    /\ Sequence(g.policy.question.criteria) /\ Sequence(g.input)
    /\ Sequence(g.items) /\ Sequence(g.records)
    /\ g.step # "asking" => k.at = "idle"
    /\ g.step = "asking" => k.at # "idle" /\ k.request = ShadowRequest(g.policy, g.asked)
    /\ g.step = "preparing" => b.verified = "pinned" /\ b.kind = "saracura"
    /\ g.step \in {"open", "asking"} => b.loaded = "pinned" /\ b.kind = "saracura"
    /\ Len(g.items) <= Len(g.input)
    /\ \A i \in DOMAIN g.items : g.items[i] = g.input[i]
    /\ \A i, j \in DOMAIN g.items : g.items[i].ref = g.items[j].ref => i = j
    /\ g.source = "command" => BatchOk(g, b, written)

BackendFields == {"kind", "verified", "loaded", "open", "opened", "closed"}
CommandFields == {"lane", "step", "args", "request", "envelope", "made"}
RunnerFields ==
    {"source", "active", "policy", "input", "args", "step", "items", "asked", "records",
     "tries", "failedAt"}

Shape ==
    /\ DOMAIN call = Callers /\ DOMAIN registry = Callers /\ DOMAIN backend = Callers
    /\ DOMAIN command = Commands /\ DOMAIN printed = Commands
    /\ DOMAIN runner = Runners /\ DOMAIN output = Runners
    /\ \A c \in Callers :
         /\ DOMAIN call[c] = CallFields
         /\ DOMAIN backend[c] = BackendFields
    /\ \A c \in Commands :
         DOMAIN command[c] = CommandFields
    /\ \A c \in Runners :
         DOMAIN runner[c] = RunnerFields
    /\ clock \in Nat

CallerOk(c) ==
    /\ CallOk(call[c], registry[c], backend[c].kind, clock)
    /\ LoadedOk(backend[c], call[c])
    /\ c \in Commands => CommandOk(command[c], call[c], backend[c], printed[c])
    /\ c \in Runners => RunnerOk(runner[c], call[c], backend[c], output[c])

DecisionInv == Shape /\ \A c \in Callers : CallerOk(c)


-----------------------------------------------------------------------------
(* What a call makes of its request.                                       *)

LEMMA QuestionFacts ==
    ASSUME NEW r, Listed(r), RequestClosed(r), NEW i \in DOMAIN r.questions
    PROVE  Sequence(r.questions[i].criteria) /\ Len(r.questions[i].criteria) > 0
<1>1. Sequence(r.questions[i].criteria)
  BY DEF Listed
<1>2. Len(r.questions[i].criteria) \in 2 .. Limits.criteria
  BY DEF RequestClosed, QuestionClosed
<1> QED BY <1>1, <1>2, SequenceFacts

\* The answer to a score that the engine takes is earned.
LEMMA AnswersEarn ==
    ASSUME NEW c, NEW q, Sequence(q.criteria), Len(q.criteria) > 0, NEW replies,
           NEW s \in ScoresOf(KindOf(c), q, replies), Takes(c, q, s)
    PROVE  /\ AnswerEarned(q, KindOf(c), AnswerOf(c, q, s))
           /\ Calibrated(KindOf(c), AnswerOf(c, q, s),
                         call[c].resolved[Len(call[c].answers) + 1])
<1> DEFINE kind == KindOf(c)
           a == AnswerOf(c, q, s)
           D == Items(q.criteria)
           raw == [l \in D |-> s.raw[l]]
<1>1. IsFiniteSet(D) /\ D # {}
  BY ItemsFinite
<1>2. DOMAIN s.raw = D /\ \A l \in D : s.raw[l] \in Nat
  BY DEF Takes, ScoreLegal
<1>3. CASE kind \in Compiled
  <2> DEFINE artifact == call[c].resolved[Len(call[c].answers) + 1]
  <2>1. a = CompiledAnswer(q, s, artifact)
    BY <1>3 DEF AnswerOf
  <2>2. /\ a.question = q.id /\ a.raw = s.raw /\ a.weights = s.raw
        /\ ~a.scale.made
        /\ a.value = CHOOSE l \in Best(s.raw) : TRUE
        /\ a.status = IF artifact.schema = 2 THEN "calibrated" ELSE "fixture_only"
        /\ a.calibration.id = artifact.id
    BY <2>1 DEF CompiledAnswer, Raw
  <2>3. Best(s.raw) # {}
    BY <1>1, <1>2, GreatestWeight
  <2>4. a.value \in Best(s.raw)
    BY <2>2, <2>3
  <2>5. AnswerEarned(q, kind, a)
    BY <1>2, <1>3, <2>2, <2>4 DEF AnswerEarned, Compiled, JuliaKinds
  <2>6. Calibrated(kind, a, artifact)
    BY <2>2 DEF Calibrated
  <2> QED BY <2>5, <2>6
<1>4. CASE kind \notin Compiled
  <2>1. a = UniversalAnswer(q, s)
    BY <1>4 DEF AnswerOf
  <2>2. /\ a.question = q.id /\ a.raw = raw
        /\ a.weights = IF s.normalized.made THEN s.normalized.parts ELSE raw
        /\ a.value = IF s.normalized.made THEN s.choice ELSE FirstBest(q, raw)
        /\ a.scale = s.normalized
        /\ a.status = "uncalibrated" /\ a.abstained /\ a.calibration = Nothing
    BY <2>1 DEF UniversalAnswer
  <2>3. DOMAIN raw = D /\ \A l \in D : raw[l] \in Nat
    BY <1>2
  <2>4. a.value \in Best(a.weights)
    <3>1. CASE ~s.normalized.made
      <4>1. FirstBest(q, raw) \in Best(raw)
        <5> HIDE DEF raw
        <5> QED BY <2>3, FirstBestFacts
      <4> QED BY <2>2, <3>1, <4>1
    <3>2. CASE s.normalized.made
      <4>1. s.choice \in Best(s.normalized.parts)
        BY <3>2 DEF Takes, DistributionLegal
      <4> QED BY <2>2, <3>2, <4>1
    <3> QED BY <3>1, <3>2
  <2>5. /\ kind # "custom" => ~s.normalized.made \/ DOMAIN s.normalized.parts = D
        /\ kind \in {"systemone"} \cup JuliaKinds => s.normalized.made
    <3> DEFINE w == replies[1]
    <3>1. CASE kind = "systemone"
      BY <3>1 DEF ScoresOf, When, Scored, Over, SystemOneAnswers, JuliaKinds
    <3>2. CASE kind = "julia"
      BY <3>2 DEF ScoresOf, When, Scored, Over, JuliaAnswers, JuliaKinds
    <3>3. CASE kind = "julia-ensemble"
      <4> DEFINE sums == CyclicTotal(replies, q)
      <4>1. DOMAIN sums = D
        BY DEF CyclicTotal
      <4> HIDE DEF sums
      <4>2. ScoresOf(kind, q, replies) =
              When(CyclicAnswers(replies, q),
                   {Scored(q, sums, Over(sums, Total(sums)), FirstBest(q, sums))})
        BY <3>3 DEF ScoresOf, sums
      <4>3. s = Scored(q, sums, Over(sums, Total(sums)), FirstBest(q, sums))
        BY <4>2 DEF When
      <4> QED BY <3>3, <4>1, <4>3 DEF Scored, Over, JuliaKinds
    <3>4. CASE kind \notin {"systemone", "julia", "julia-ensemble", "custom"}
      BY <3>4 DEF ScoresOf, When, Scored, Raw, JuliaKinds
    <3>5. CASE kind = "custom"
      BY <3>5 DEF JuliaKinds
    <3> QED BY <3>1, <3>2, <3>3, <3>4, <3>5
  <2>6. kind = "saracura" => ~s.normalized.made
    BY DEF ScoresOf, When, Scored, Raw
  <2> HIDE DEF a, kind
  <2>7. AnswerEarned(q, kind, a)
    <3>1. DOMAIN a.raw = D
      BY <2>2
    <3>2. kind # "custom" => DOMAIN a.weights = DOMAIN a.raw
      BY <2>2, <2>3, <2>5
    <3>3. kind = "saracura" => \A l \in DOMAIN a.weights : a.weights[l] \in Nat
      BY <2>2, <2>3, <2>6
    <3>4. a.scale.made => IsDistribution(a.weights, a.scale.of)
      BY <2>2 DEF Takes, DistributionLegal
    <3> QED BY <2>2, <2>4, <2>5, <3>1, <3>2, <3>3, <3>4 DEF AnswerEarned
  <2>8. Calibrated(kind, a, call[c].resolved[Len(call[c].answers) + 1])
    BY <1>4 DEF Calibrated, kind
  <2> QED BY <2>7, <2>8 DEF a, kind
<1> QED BY <1>3, <1>4

-----------------------------------------------------------------------------
(* The steps of a call, each as the value it gives the call.               *)

LEMMA CallRefused ==
    ASSUME NEW k, NEW artifacts, NEW kind, NEW now, DOMAIN k = CallFields,
           CallOk(k, artifacts, kind, now), k.at # "idle"
    PROVE  CallOk([k EXCEPT !.at = "refused"], artifacts, kind, now)
<1> DEFINE n == [k EXCEPT !.at = "refused"]
<1>1. /\ n.at = "refused" /\ n.request = k.request /\ n.profile = k.profile
      /\ n.entered = k.entered /\ n.resolved = k.resolved /\ n.answers = k.answers
  BY DEF CallFields
<1> HIDE DEF n
<1> QED BY <1>1 DEF CallOk, CallSteps, Genuine, ProfileIn

LEMMA CallLater ==
    ASSUME NEW k, NEW artifacts, NEW kind, NEW now \in Nat, NEW later \in Nat, now <= later,
           CallOk(k, artifacts, kind, now)
    PROVE  CallOk(k, artifacts, kind, later)
<1>1. CASE k.at = "idle"
  BY <1>1 DEF CallOk, CallSteps
<1>2. CASE k.at # "idle"
  <2>1. k.entered \in Nat /\ k.entered <= now /\ now <= later
    BY <1>2 DEF CallOk
  <2>2. k.entered .. now \subseteq k.entered .. later
    BY <2>1
  <2>3. ASSUME NEW i, Genuine(k, artifacts, kind, now, i)
        PROVE  Genuine(k, artifacts, kind, later, i)
    BY <2>2, <2>3 DEF Genuine
  <2>4. k.entered <= later
    BY <2>1
  <2> QED BY <1>2, <2>3, <2>4 DEF CallOk
<1> QED BY <1>1, <1>2

LEMMA CallEntered ==
    ASSUME NEW r, Listed(r), RequestClosed(r), NEW profile, NEW artifacts, NEW kind,
           NEW now \in Nat
    PROVE  CallOk([NoCall EXCEPT !.at = "gates", !.request = r, !.profile = profile,
                                 !.entered = now], artifacts, kind, now)
<1> DEFINE n == [NoCall EXCEPT !.at = "gates", !.request = r, !.profile = profile,
                               !.entered = now]
<1>1. n.at = "gates" /\ n.request = r /\ n.entered = now /\ n.resolved = <<>> /\ n.answers = <<>>
  BY DEF NoCall
<1> HIDE DEF n
<1>2. Sequence(<<>>) /\ Len(<<>>) = 0 /\ DOMAIN <<>> = {}
  BY EmptySequence
<1>3. Len(r.questions) \in Nat
  BY SequenceFacts DEF Listed
<1>4. Len(n.resolved) <= Len(n.request.questions) /\ Len(n.answers) <= Len(n.request.questions)
  BY <1>1, <1>2, <1>3
<1>5. n.at # "idle" /\ n.at # "resolve" /\ n.at # "encode" /\ n.at # "score" /\ n.at # "answered"
  BY <1>1
<1>6. Sequence(n.resolved) /\ Sequence(n.answers) /\ DOMAIN n.resolved = {} /\ DOMAIN n.answers = {}
  BY <1>1, <1>2
<1>7. CallOk(n, artifacts, kind, now)
  <2>1. n.entered \in Nat /\ n.entered <= now /\ n.at \in CallSteps
        /\ n.resolved = <<>> /\ n.answers = <<>> /\ n.request = r
    BY <1>1 DEF CallSteps
  <2> QED BY <2>1, <1>4, <1>5, <1>6 DEF CallOk
<1> QED BY <1>7 DEF n

LEMMA QuestionCount ==
    ASSUME NEW r, Listed(r), RequestClosed(r)
    PROVE  Len(r.questions) \in Nat /\ Len(r.questions) > 0
              /\ DOMAIN r.questions = 1 .. Len(r.questions)
<1>1. Len(r.questions) \in Nat /\ DOMAIN r.questions = 1 .. Len(r.questions)
  BY SequenceFacts DEF Listed
<1>2. Len(r.questions) \in 1 .. Limits.questions
  BY DEF RequestClosed
<1> QED BY <1>1, <1>2

LEMMA CallAdmitted ==
    ASSUME NEW k, NEW artifacts, NEW kind, NEW now, DOMAIN k = CallFields,
           CallOk(k, artifacts, kind, now), k.at = "gates"
    PROVE  CallOk([k EXCEPT !.at = IF kind \in Compiled THEN "resolve" ELSE "score"],
                  artifacts, kind, now)
<1> DEFINE step == IF kind \in Compiled THEN "resolve" ELSE "score"
           n == [k EXCEPT !.at = step]
<1>1. /\ n.at = step /\ n.request = k.request /\ n.profile = k.profile
      /\ n.entered = k.entered /\ n.resolved = k.resolved /\ n.answers = k.answers
  BY DEF CallFields
<1>2. step \in {"resolve", "score"} /\ (step = "score" => kind \notin Compiled)
  OBVIOUS
<1>3. k.resolved = <<>> /\ k.answers = <<>> /\ Len(k.request.questions) > 0
  BY QuestionCount DEF CallOk
<1> HIDE DEF n, step
<1>4. Len(<<>>) = 0 /\ DOMAIN <<>> = {}
  BY EmptySequence
<1> QED BY <1>1, <1>2, <1>3, <1>4 DEF CallOk, CallSteps

LEMMA CallResolved ==
    ASSUME NEW k, NEW artifacts, NEW kind, NEW now \in Nat, DOMAIN k = CallFields,
           CallOk(k, artifacts, kind, now), k.at = "resolve",
           LET q == k.request.questions[Len(k.resolved) + 1] IN
             /\ artifacts[q.id].schema = 2 => ResearchVerifies(artifacts[q.id], now)
             /\ Compatible(artifacts[q.id],
                           ContextOf(k.request, q, Models[kind], ProfileIn(k, kind)))
    PROVE  LET q == k.request.questions[Len(k.resolved) + 1]
               last == Len(k.resolved) + 1 = Len(k.request.questions)
           IN  CallOk([k EXCEPT !.resolved = Append(@, artifacts[q.id]),
                                !.at = IF last THEN "encode" ELSE "resolve"],
                      artifacts, kind, now)
<1> DEFINE m == Len(k.resolved)
           q == k.request.questions[m + 1]
           last == m + 1 = Len(k.request.questions)
           step == IF last THEN "encode" ELSE "resolve"
           more == Append(k.resolved, artifacts[q.id])
           n == [k EXCEPT !.resolved = more, !.at = step]
<1>1. /\ n.at = step /\ n.request = k.request /\ n.profile = k.profile
      /\ n.entered = k.entered /\ n.resolved = more /\ n.answers = k.answers
  BY DEF CallFields
<1>2. /\ Sequence(k.resolved) /\ m \in Nat /\ DOMAIN k.resolved = 1 .. m
      /\ Len(k.request.questions) \in Nat /\ m < Len(k.request.questions)
      /\ k.entered \in Nat /\ k.entered <= now /\ k.answers = <<>>
  BY QuestionCount, SequenceFacts DEF CallOk
<1>3. /\ Sequence(more) /\ Len(more) = m + 1 /\ DOMAIN more = 1 .. m + 1
      /\ \A i \in 1 .. m : more[i] = k.resolved[i]
      /\ more[m + 1] = artifacts[q.id] /\ more # <<>>
  <2> DEFINE x == artifacts[q.id]
  <2>1. /\ Sequence(Append(k.resolved, x)) /\ Len(Append(k.resolved, x)) = m + 1
        /\ DOMAIN Append(k.resolved, x) = 1 .. m + 1
        /\ \A i \in DOMAIN k.resolved : Append(k.resolved, x)[i] = k.resolved[i]
        /\ Append(k.resolved, x)[m + 1] = x /\ Append(k.resolved, x) # <<>>
    <3>1. Sequence(k.resolved)
      BY <1>2
    <3>2. \A s, y : Sequence(s) =>
             /\ Sequence(Append(s, y)) /\ Len(Append(s, y)) = Len(s) + 1
             /\ DOMAIN Append(s, y) = 1 .. Len(s) + 1
             /\ \A i \in DOMAIN s : Append(s, y)[i] = s[i]
             /\ Append(s, y)[Len(s) + 1] = y /\ Append(s, y) # <<>>
      BY AppendFacts
    <3> HIDE DEF x
    <3> QED BY <3>1, <3>2
  <2> QED BY <1>2, <2>1
<1>4. /\ step \in {"encode", "resolve"}
      /\ step = "encode" => m + 1 = Len(k.request.questions)
      /\ step = "resolve" => m + 1 < Len(k.request.questions)
  BY <1>2
<1>5. Len(<<>>) = 0 /\ DOMAIN <<>> = {}
  BY EmptySequence
<1>6. \A i \in 1 .. m + 1 : Genuine(n, artifacts, kind, now, i)
  <2> TAKE i \in 1 .. m + 1
  <2> DEFINE a == artifacts[q.id]
  <2>1. CASE i = m + 1
    <3>1. now \in k.entered .. now
      BY <1>2
    <3>2. a.schema = 2 => \E time \in k.entered .. now : ResearchVerifies(a, time)
      BY <3>1
    <3>3. a.context = ContextOf(k.request, q, Models[kind], ProfileIn(k, kind))
      BY DEF Compatible
    <3>4. ProfileIn(n, kind) = ProfileIn(k, kind)
      BY <1>1 DEF ProfileIn
    <3>5. n.resolved[i] = a /\ n.request.questions[i] = q
      BY <1>1, <1>3, <2>1
    <3> HIDE DEF n, q, a
    <3> QED BY <1>1, <3>2, <3>3, <3>4, <3>5, a = artifacts[q.id] DEF Genuine, a
  <2>2. CASE i # m + 1
    <3>1. i \in DOMAIN k.resolved /\ n.resolved[i] = k.resolved[i]
      <4>1. i \in 1 .. m
        <5> HIDE DEF m, more, n
        <5> QED BY <1>2, <2>2
      <4> HIDE DEF m, more, n
      <4> QED BY <1>1, <1>2, <1>3, <4>1
    <3>2. Genuine(k, artifacts, kind, now, i)
      BY <3>1 DEF CallOk
    <3> HIDE DEF n
    <3> QED BY <1>1, <3>1, <3>2 DEF Genuine, ProfileIn
  <2> QED BY <2>1, <2>2
<1>7. CallOk(n, artifacts, kind, now)
  <2>1. Listed(k.request) /\ RequestClosed(k.request) /\ Sequence(k.answers)
    BY DEF CallOk
  <2> HIDE DEF n, more, step, m, last, q
  <2> QED BY <1>1, <1>2, <1>3, <1>4, <1>5, <1>6, <2>1 DEF CallOk, CallSteps
<1> QED BY <1>7

LEMMA CallEncoded ==
    ASSUME NEW k, NEW artifacts, NEW kind, NEW now, DOMAIN k = CallFields,
           CallOk(k, artifacts, kind, now), k.at = "encode"
    PROVE  CallOk([k EXCEPT !.at = "score", !.encoded = @ + 1], artifacts, kind, now)
<1> DEFINE n == [k EXCEPT !.at = "score", !.encoded = @ + 1]
<1>1. /\ n.at = "score" /\ n.request = k.request /\ n.profile = k.profile
      /\ n.entered = k.entered /\ n.resolved = k.resolved /\ n.answers = k.answers
  BY DEF CallFields
<1>2. k.answers = <<>> /\ Len(k.request.questions) > 0
      /\ Len(k.resolved) = Len(k.request.questions)
  BY QuestionCount DEF CallOk
<1> HIDE DEF n
<1>3. Len(<<>>) = 0 /\ DOMAIN <<>> = {}
  BY EmptySequence
<1> QED BY <1>1, <1>2, <1>3 DEF CallOk, CallSteps, Genuine, ProfileIn

LEMMA CallAnswered ==
    ASSUME NEW k, NEW artifacts, NEW kind, NEW now, DOMAIN k = CallFields,
           CallOk(k, artifacts, kind, now), k.at = "score", NEW a,
           AnswerEarned(k.request.questions[Len(k.answers) + 1], kind, a),
           Calibrated(kind, a, k.resolved[Len(k.answers) + 1])
    PROVE  LET last == Len(k.answers) + 1 = Len(k.request.questions) IN
           CallOk([k EXCEPT !.answers = Append(@, a),
                            !.at = IF last THEN "answered" ELSE "score"],
                  artifacts, kind, now)
<1> DEFINE m == Len(k.answers)
           last == m + 1 = Len(k.request.questions)
           step == IF last THEN "answered" ELSE "score"
           more == Append(k.answers, a)
           n == [k EXCEPT !.answers = more, !.at = step]
<1>1. /\ n.at = step /\ n.request = k.request /\ n.profile = k.profile
      /\ n.entered = k.entered /\ n.answers = more /\ n.resolved = k.resolved
  BY DEF CallFields
<1>2. /\ Sequence(k.answers) /\ m \in Nat /\ DOMAIN k.answers = 1 .. m
      /\ Len(k.request.questions) \in Nat /\ m < Len(k.request.questions)
  BY QuestionCount, SequenceFacts DEF CallOk
<1>3. /\ Sequence(more) /\ Len(more) = m + 1 /\ DOMAIN more = 1 .. m + 1
      /\ \A i \in 1 .. m : more[i] = k.answers[i]
      /\ more[m + 1] = a /\ more # <<>>
  BY <1>2, AppendFacts
<1>4. /\ step \in {"answered", "score"}
      /\ step = "answered" => m + 1 = Len(k.request.questions)
      /\ step = "score" => m + 1 < Len(k.request.questions)
  BY <1>2
<1>5. \A i \in 1 .. m + 1 :
        /\ AnswerEarned(n.request.questions[i], kind, n.answers[i])
        /\ Calibrated(kind, n.answers[i], n.resolved[i])
  <2> TAKE i \in 1 .. m + 1
  <2>1. CASE i = m + 1
    BY <1>1, <1>3, <2>1
  <2>2. CASE i # m + 1
    <3>1. i \in DOMAIN k.answers /\ n.answers[i] = k.answers[i]
      BY <1>1, <1>2, <1>3, <2>2
    <3> QED BY <1>1, <3>1 DEF CallOk
  <2> QED BY <2>1, <2>2
<1>6. CallOk(n, artifacts, kind, now)
  <2>1. /\ Listed(k.request) /\ RequestClosed(k.request)
        /\ k.entered \in Nat /\ k.entered <= now
        /\ Sequence(k.resolved) /\ Len(k.resolved) <= Len(k.request.questions)
        /\ kind \in Compiled => Len(k.resolved) = Len(k.request.questions)
        /\ \A i \in DOMAIN k.resolved : Genuine(k, artifacts, kind, now, i)
    BY DEF CallOk
  <2> HIDE DEF n, more, step, m, last
  <2>2. \A i \in DOMAIN n.resolved : Genuine(n, artifacts, kind, now, i)
    BY <1>1, <2>1 DEF Genuine, ProfileIn
  <2>3. n.at \notin {"idle", "gates", "resolve", "encode"} /\ n.at \in CallSteps
    BY <1>1, <1>4 DEF CallSteps
  <2>4. /\ n.at = "score" => Len(n.answers) < Len(n.request.questions)
        /\ n.at = "answered" => Len(n.answers) = Len(n.request.questions)
        /\ Len(n.answers) <= Len(n.request.questions)
    BY <1>1, <1>2, <1>3, <1>4
  <2>5. \A i \in DOMAIN n.answers :
          /\ AnswerEarned(n.request.questions[i], kind, n.answers[i])
          /\ Calibrated(kind, n.answers[i], n.resolved[i])
    BY <1>1, <1>3, <1>5
  <2>6. Sequence(n.answers)
    BY <1>1, <1>3
  <2> QED BY <1>1, <2>1, <2>2, <2>3, <2>4, <2>5, <2>6 DEF CallOk
<1> QED BY <1>6

-----------------------------------------------------------------------------
(* Who a step leaves alone keeps what is true of it.                       *)

Still(d) ==
    /\ call'[d] = call[d] /\ registry'[d] = registry[d] /\ backend'[d] = backend[d]
    /\ d \in Commands => command'[d] = command[d] /\ printed'[d] = printed[d]
    /\ d \in Runners => runner'[d] = runner[d] /\ output'[d] = output[d]

LEMMA StillOk ==
    ASSUME NEW d \in Callers, CallerOk(d), Still(d), clock \in Nat, clock' \in Nat,
           clock <= clock'
    PROVE  CallerOk(d)'
<1>1. CallOk(call[d], registry[d], backend[d].kind, clock')
  BY CallLater DEF CallerOk
<1>2. CallOk(call'[d], registry'[d], backend'[d].kind, clock')
  BY <1>1 DEF Still
<1>3. LoadedOk(backend'[d], call'[d])
  BY DEF CallerOk, Still
<1>4. d \in Commands => CommandOk(command'[d], call'[d], backend'[d], printed'[d])
  BY DEF CallerOk, Still
<1>5. d \in Runners => RunnerOk(runner'[d], call'[d], backend'[d], output'[d])
  BY DEF CallerOk, Still
<1> QED BY <1>2, <1>3, <1>4, <1>5 DEF CallerOk

\* What a step of the decide call of a caller does to its call and backend.
Moves(c, content) ==
    /\ DOMAIN call' = Callers /\ DOMAIN backend' = Callers
    /\ registry' = registry /\ clock' = clock
    /\ DOMAIN call'[c] = CallFields /\ DOMAIN backend'[c] = BackendFields
    /\ \A d \in Callers : d # c => call'[d] = call[d] /\ backend'[d] = backend[d]
    /\ call[c].at \notin {"idle", "answered", "refused"}
    /\ call'[c].request = call[c].request /\ call'[c].at # "idle"
    /\ backend'[c].kind = backend[c].kind /\ backend'[c].verified = backend[c].verified
    /\ backend'[c].open = backend[c].open /\ backend'[c].opened = backend[c].opened
    /\ backend'[c].loaded \in {backend[c].loaded, content}
    /\ CallOk(call'[c], registry'[c], backend'[c].kind, clock')
    /\ LoadedOk(backend'[c], call'[c])

LEMMA ReturnsMove ==
    ASSUME Shape, NEW c \in Callers, CallerOk(c), NEW k, DOMAIN k = CallFields,
           call' = [call EXCEPT ![c] = k], UNCHANGED <<registry, backend, clock>>,
           call[c].at \notin {"idle", "answered", "refused"}, k.at # "idle",
           k.request = call[c].request, k.answers = call[c].answers,
           CallOk(k, registry[c], backend[c].kind, clock), NEW content
    PROVE  Moves(c, content)
<1>1. DOMAIN call = Callers /\ DOMAIN backend = Callers /\ DOMAIN backend[c] = BackendFields
  BY DEF Shape
<1>2. DOMAIN call' = Callers /\ call'[c] = k /\ \A d \in Callers : d # c => call'[d] = call[d]
  BY <1>1
<1>3. registry' = registry /\ backend' = backend /\ clock' = clock
  OBVIOUS
<1>4. LoadedOk(backend[c], k)
  BY DEF CallerOk, LoadedOk
<1> QED BY <1>1, <1>2, <1>3, <1>4 DEF Moves

LEMMA RefuseMoves ==
    ASSUME Shape, NEW c \in Callers, CallerOk(c), Refuse(c),
           UNCHANGED <<registry, backend, clock>>,
           call[c].at \notin {"idle", "answered", "refused"}, NEW content
    PROVE  Moves(c, content)
<1> DEFINE k == [call[c] EXCEPT !.at = "refused"]
<1>1. DOMAIN call[c] = CallFields
  BY DEF Shape
<1>2. /\ DOMAIN k = CallFields /\ k.at = "refused" /\ k.request = call[c].request
      /\ k.answers = call[c].answers
  BY <1>1 DEF CallFields
<1>3. CallOk(k, registry[c], backend[c].kind, clock)
  BY <1>1, CallRefused DEF CallerOk
<1>4. call' = [call EXCEPT ![c] = k]
  BY DEF Refuse, Go
<1> HIDE DEF k
<1> QED BY <1>2, <1>3, <1>4, ReturnsMove

LEMMA CheckMoves ==
    ASSUME Shape, NEW c \in Callers, CallerOk(c), Check(c), NEW content
    PROVE  Moves(c, content)
<1>1. CASE ~Admits(c)
  BY <1>1, RefuseMoves DEF Check
<1>2. CASE Admits(c)
  <2> DEFINE step == IF KindOf(c) \in Compiled THEN "resolve" ELSE "score"
             k == [call[c] EXCEPT !.at = step]
  <2>1. DOMAIN call[c] = CallFields /\ call[c].at = "gates"
    BY DEF Shape, Check
  <2>2. /\ DOMAIN k = CallFields /\ k.at # "idle" /\ k.request = call[c].request
        /\ k.answers = call[c].answers
    BY <2>1 DEF CallFields
  <2>3. CallOk(k, registry[c], backend[c].kind, clock)
    BY <2>1, CallAdmitted DEF CallerOk, KindOf
  <2>4. call' = [call EXCEPT ![c] = k]
    BY <1>2 DEF Check, Go
  <2>5. UNCHANGED <<registry, backend, clock>>
    BY DEF Check
  <2> HIDE DEF k
  <2> QED BY <2>1, <2>2, <2>3, <2>4, <2>5, ReturnsMove
<1> QED BY <1>1, <1>2

LEMMA ResolveMoves ==
    ASSUME Shape, NEW c \in Callers, CallerOk(c), Resolve(c), NEW content
    PROVE  Moves(c, content)
<1> DEFINE q == Current(c, call[c].resolved)
<1>0. UNCHANGED <<registry, backend, clock>> /\ call[c].at = "resolve" /\ DOMAIN call[c] = CallFields
  BY DEF Resolve, Shape
<1>1. CASE ~Resolves(c, q)
  <2>1. Refuse(c)
    BY <1>1 DEF Resolve
  <2> QED BY <1>0, <2>1, RefuseMoves
<1>2. CASE Resolves(c, q)
  <2> DEFINE last == Len(call[c].resolved) + 1 = Len(call[c].request.questions)
             step == IF last THEN "encode" ELSE "resolve"
             k == [call[c] EXCEPT !.resolved = Append(@, registry[c][q.id]), !.at = step]
  <2>1. /\ DOMAIN k = CallFields /\ k.at # "idle" /\ k.request = call[c].request
        /\ k.answers = call[c].answers
    BY <1>0 DEF CallFields
  <2>2. CallOk(k, registry[c], backend[c].kind, clock)
    <3>1. q = call[c].request.questions[Len(call[c].resolved) + 1]
      BY DEF Current, Asked
    <3>2. ProfileOf(c) = ProfileIn(call[c], backend[c].kind)
      BY DEF ProfileOf, ProfileIn, KindOf
    <3>3. /\ registry[c][q.id].schema = 2 => ResearchVerifies(registry[c][q.id], clock)
          /\ Compatible(registry[c][q.id],
                        ContextOf(call[c].request, q, Models[backend[c].kind],
                                  ProfileIn(call[c], backend[c].kind)))
      BY <1>2, <3>2 DEF Resolves, Asked, ModelOf, KindOf
    <3>4. clock \in Nat /\ CallOk(call[c], registry[c], backend[c].kind, clock)
      BY DEF Shape, CallerOk
    <3> HIDE DEF k, q
    <3>5. CallOk([call[c] EXCEPT !.resolved =
                     Append(@, registry[c][call[c].request.questions[Len(call[c].resolved) + 1].id]),
                                 !.at = step], registry[c], backend[c].kind, clock)
      BY <1>0, <3>1, <3>3, <3>4, CallResolved
    <3> QED BY <3>1, <3>5 DEF k
  <2>3. call' = [call EXCEPT ![c] = k]
    BY <1>2 DEF Resolve, Finished, Asked
  <2> HIDE DEF k, q
  <2> QED BY <1>0, <2>1, <2>2, <2>3, ReturnsMove
<1> QED BY <1>1, <1>2

LEMMA EncodeMoves ==
    ASSUME Shape, NEW c \in Callers, CallerOk(c), Encode(c), NEW content
    PROVE  Moves(c, content)
<1>0. UNCHANGED <<registry, backend, clock>> /\ call[c].at = "encode" /\ DOMAIN call[c] = CallFields
  BY DEF Encode, Shape
<1>1. CASE ~Encodes(KindOf(c), Asked(c))
  BY <1>0, <1>1, RefuseMoves DEF Encode
<1>2. CASE Encodes(KindOf(c), Asked(c))
  <2> DEFINE k == [call[c] EXCEPT !.at = "score", !.encoded = @ + 1]
  <2>1. /\ DOMAIN k = CallFields /\ k.at # "idle" /\ k.request = call[c].request
        /\ k.answers = call[c].answers
    BY <1>0 DEF CallFields
  <2>2. CallOk(k, registry[c], backend[c].kind, clock)
    BY <1>0, CallEncoded DEF CallerOk
  <2>3. call' = [call EXCEPT ![c] = k]
    BY <1>2 DEF Encode
  <2> HIDE DEF k
  <2> QED BY <1>0, <2>1, <2>2, <2>3, ReturnsMove
<1> QED BY <1>1, <1>2

\* A backend loads what content says, and the call goes on as k.
LEMMA LoadsMove ==
    ASSUME Shape, NEW c \in Callers, CallerOk(c), NEW k, DOMAIN k = CallFields, NEW content,
           call' = [call EXCEPT ![c] = k], UNCHANGED <<registry, clock>>,
           backend' = [backend EXCEPT ![c].loaded = content],
           call[c].at = "score", k.at # "idle", k.request = call[c].request,
           KindOf(c) \notin JuliaKinds => content = "pinned",
           CallOk(k, registry[c], backend[c].kind, clock)
    PROVE  Moves(c, content)
<1>1. DOMAIN call = Callers /\ DOMAIN backend = Callers /\ DOMAIN backend[c] = BackendFields
  BY DEF Shape
<1>2. DOMAIN call' = Callers /\ call'[c] = k /\ \A d \in Callers : d # c => call'[d] = call[d]
  BY <1>1
<1>3. registry' = registry /\ clock' = clock
  OBVIOUS
<1>4. /\ DOMAIN backend' = Callers /\ DOMAIN backend'[c] = BackendFields
      /\ \A d \in Callers : d # c => backend'[d] = backend[d]
      /\ backend'[c].kind = backend[c].kind /\ backend'[c].verified = backend[c].verified
      /\ backend'[c].open = backend[c].open /\ backend'[c].opened = backend[c].opened
      /\ backend'[c].loaded = content
  BY <1>1 DEF BackendFields
<1>5. LoadedOk(backend'[c], k)
  BY <1>4 DEF CallerOk, LoadedOk, KindOf
<1> QED BY <1>1, <1>2, <1>3, <1>4, <1>5 DEF Moves

LEMMA ScoreMoves ==
    ASSUME Shape, NEW c \in Callers, CallerOk(c), NEW content, Score(c, content),
           KindOf(c) \notin JuliaKinds => content = "pinned"
    PROVE  Moves(c, content)
<1> DEFINE q == Current(c, call[c].answers)
           scores(replies) == {s \in ScoresOf(KindOf(c), q, replies) : Takes(c, q, s)}
<1>0. /\ UNCHANGED <<registry, clock>> /\ call[c].at = "score" /\ DOMAIN call[c] = CallFields
      /\ backend' = [backend EXCEPT ![c].loaded = content]
      /\ CallOk(call[c], registry[c], backend[c].kind, clock)
  BY DEF Score, Shape, CallerOk
<1>1. CASE Refuse(c)
  <2> DEFINE k == [call[c] EXCEPT !.at = "refused"]
  <2>1. DOMAIN k = CallFields /\ k.at = "refused" /\ k.request = call[c].request
    BY <1>0 DEF CallFields
  <2>2. CallOk(k, registry[c], backend[c].kind, clock)
    BY <1>0, CallRefused
  <2>3. call' = [call EXCEPT ![c] = k]
    BY <1>1 DEF Refuse, Go
  <2> HIDE DEF k
  <2> QED BY <1>0, <2>1, <2>2, <2>3, LoadsMove
<1> DEFINE last == Len(call[c].answers) + 1 = Len(call[c].request.questions)
           step == IF last THEN "answered" ELSE "score"
           next(s) == [call[c] EXCEPT !.answers = Append(@, AnswerOf(c, q, s)), !.at = step]
<1>2. ASSUME NEW replies, NEW s \in scores(replies), call' = [call EXCEPT ![c] = next(s)]
      PROVE  Moves(c, content)
  <2> DEFINE a == AnswerOf(c, q, s)
             k == [call[c] EXCEPT !.answers = Append(@, a), !.at = step]
  <2>1. DOMAIN k = CallFields /\ k.at # "idle" /\ k.request = call[c].request
    BY <1>0 DEF CallFields
  <2>2. q = call[c].request.questions[Len(call[c].answers) + 1]
    BY DEF Current, Asked
  <2>3. Sequence(q.criteria) /\ Len(q.criteria) > 0
    <3>1. Listed(call[c].request) /\ RequestClosed(call[c].request)
          /\ Sequence(call[c].answers) /\ Len(call[c].answers) < Len(call[c].request.questions)
      BY <1>0 DEF CallOk
    <3>2. Len(call[c].answers) + 1 \in DOMAIN call[c].request.questions
      BY <3>1, QuestionCount, SequenceFacts
    <3> QED BY <2>2, <3>1, <3>2, QuestionFacts
  <2>4. s \in ScoresOf(KindOf(c), q, replies) /\ Takes(c, q, s)
    OBVIOUS
  <2>5. /\ AnswerEarned(q, backend[c].kind, a)
        /\ Calibrated(backend[c].kind, a, call[c].resolved[Len(call[c].answers) + 1])
    <3> HIDE DEF q
    <3>1. /\ AnswerEarned(q, KindOf(c), AnswerOf(c, q, s))
          /\ Calibrated(KindOf(c), AnswerOf(c, q, s),
                        call[c].resolved[Len(call[c].answers) + 1])
      BY <2>3, <2>4, AnswersEarn
    <3> QED BY <3>1 DEF KindOf
  <2>6. CallOk(k, registry[c], backend[c].kind, clock)
    <3> HIDE DEF a, q
    <3> QED BY <1>0, <2>2, <2>5, CallAnswered
  <2>7. call' = [call EXCEPT ![c] = k]
    BY <1>2
  <2> HIDE DEF k
  <2> QED BY <1>0, <2>1, <2>6, <2>7, LoadsMove
<1>3. Refuse(c) \/ \E replies : \E s \in scores(replies) : call' = [call EXCEPT ![c] = next(s)]
  BY DEF Score, Finished, Asked
<1> QED BY <1>1, <1>2, <1>3

LEMMA UnavailableMoves ==
    ASSUME Shape, NEW c \in Callers, CallerOk(c), NEW content, Unavailable(c, content),
           KindOf(c) \notin JuliaKinds => content = "pinned"
    PROVE  Moves(c, content)
<1> DEFINE k == [call[c] EXCEPT !.at = "refused"]
<1>0. /\ UNCHANGED <<registry, clock>> /\ call[c].at = "score" /\ DOMAIN call[c] = CallFields
      /\ backend' = [backend EXCEPT ![c].loaded = content]
      /\ CallOk(call[c], registry[c], backend[c].kind, clock)
      /\ call' = [call EXCEPT ![c] = k]
  BY DEF Unavailable, Refuse, Go, Shape, CallerOk
<1>1. DOMAIN k = CallFields /\ k.at = "refused" /\ k.request = call[c].request
  BY <1>0 DEF CallFields
<1>2. CallOk(k, registry[c], backend[c].kind, clock)
  BY <1>0, CallRefused
<1> HIDE DEF k
<1> QED BY <1>0, <1>1, <1>2, LoadsMove

-----------------------------------------------------------------------------
(* A step of one caller.                                                   *)

\* new is old with v in the place of c.
Puts(old, new, c, v) ==
    /\ DOMAIN new = DOMAIN old /\ new[c] = v
    /\ \A d \in DOMAIN old : d # c => new[d] = old[d]

LEMMA PutsFacts ==
    /\ \A old, c : Puts(old, old, c, old[c])
    /\ \A old, c, v : c \in DOMAIN old => Puts(old, [old EXCEPT ![c] = v], c, v)
  BY DEF Puts

LEMMA CommandStepOk ==
    ASSUME DecisionInv, NEW c \in Commands, UNCHANGED <<runner, output, clock>>,
           NEW m, DOMAIN m = CommandFields, Puts(command, command', c, m),
           NEW k, DOMAIN k = CallFields, Puts(call, call', c, k),
           NEW b, DOMAIN b = BackendFields, Puts(backend, backend', c, b),
           NEW g, Puts(registry, registry', c, g),
           NEW o, Puts(printed, printed', c, o),
           CallOk(k, g, b.kind, clock), LoadedOk(b, k), CommandOk(m, k, b, o)
    PROVE  DecisionInv'
<1>1. Shape /\ c \in Callers /\ c \notin Runners
  BY CommandsAssumption, ShadowAssumption DEF DecisionInv
<1>2. Shape'
  BY <1>1 DEF Shape, Puts
<1>3. ASSUME NEW d \in Callers, d # c PROVE CallerOk(d)'
  <2>1. Still(d)
    BY <1>1, <1>3 DEF Still, Puts, Shape
  <2>2. CallerOk(d) /\ clock \in Nat /\ clock' \in Nat /\ clock <= clock'
    BY <1>1, <1>3 DEF DecisionInv, Shape
  <2> QED BY <2>1, <2>2, StillOk
<1>4. CallerOk(c)'
  BY <1>1 DEF CallerOk, Puts
<1> QED BY <1>2, <1>3, <1>4 DEF DecisionInv

\* A step that only a command itself shows.
LEMMA CommandGoes ==
    ASSUME DecisionInv, NEW c \in Commands, UNCHANGED <<engineVars, printed, shadowVars>>,
           NEW m, DOMAIN m = CommandFields, command' = [command EXCEPT ![c] = m],
           CommandOk(m, call[c], backend[c], printed[c])
    PROVE  DecisionInv'
<1>1. Shape /\ c \in Callers /\ CallerOk(c)
  BY CommandsAssumption DEF DecisionInv
<1>2. /\ DOMAIN call[c] = CallFields /\ DOMAIN backend[c] = BackendFields
      /\ c \in DOMAIN command
  BY <1>1 DEF Shape
<1>3. /\ Puts(call, call', c, call[c]) /\ Puts(backend, backend', c, backend[c])
      /\ Puts(registry, registry', c, registry[c]) /\ Puts(printed, printed', c, printed[c])
  BY PutsFacts DEF engineVars
<1>4. Puts(command, command', c, m)
  BY <1>2, PutsFacts
<1>5. UNCHANGED <<runner, output, clock>>
  BY DEF engineVars, shadowVars
<1>6. CallOk(call[c], registry[c], backend[c].kind, clock) /\ LoadedOk(backend[c], call[c])
  BY <1>1 DEF CallerOk
<1> QED BY <1>2, <1>3, <1>4, <1>5, <1>6, CommandStepOk

LEMMA StepFields ==
    ASSUME NEW m, DOMAIN m = CommandFields, NEW step
    PROVE  LET n == [m EXCEPT !.step = step] IN
           /\ DOMAIN n = CommandFields /\ n.step = step /\ n.lane = m.lane
           /\ n.args = m.args /\ n.request = m.request /\ n.envelope = m.envelope
           /\ n.made = m.made
  BY DEF CommandFields

\* What holds of a command in any state.
LEMMA CommandFacts ==
    ASSUME DecisionInv, NEW c \in Commands
    PROVE  /\ Shape /\ c \in Callers /\ CallerOk(c)
           /\ c \in DOMAIN command /\ c \in DOMAIN call /\ c \in DOMAIN backend
           /\ c \in DOMAIN registry /\ c \in DOMAIN printed
           /\ DOMAIN command[c] = CommandFields /\ DOMAIN call[c] = CallFields
           /\ DOMAIN backend[c] = BackendFields
           /\ CallOk(call[c], registry[c], backend[c].kind, clock)
           /\ LoadedOk(backend[c], call[c])
           /\ CommandOk(command[c], call[c], backend[c], printed[c])
  BY CommandsAssumption DEF DecisionInv, Shape, CallerOk

LEMMA FailOk ==
    ASSUME DecisionInv, NEW c \in Commands, Fail(c), UNCHANGED <<engineVars, printed, shadowVars>>
    PROVE  DecisionInv'
<1> DEFINE m == [command[c] EXCEPT !.step = "failed"]
<1>1. /\ DOMAIN m = CommandFields /\ m.step = "failed" /\ m.lane = command[c].lane
      /\ m.request = command[c].request
  BY CommandFacts, StepFields
<1>2. command' = [command EXCEPT ![c] = m]
  BY DEF Fail, To
<1> HIDE DEF m
<1>3. CommandOk(m, call[c], backend[c], printed[c])
  BY <1>1, CommandFacts DEF CommandOk, CommandSteps
<1> QED BY <1>1, <1>2, <1>3, CommandGoes

-----------------------------------------------------------------------------
(* The steps of commands that touch nothing else.                          *)

LEMMA ReadRequestOk ==
    ASSUME DecisionInv, NEW c \in Commands, ReadRequest(c), UNCHANGED shadowVars
    PROVE  DecisionInv'
<1>0. UNCHANGED <<engineVars, printed, shadowVars>> /\ At(c, "request")
  BY DEF ReadRequest
<1>1. CASE ~Prevalid(Lane(c), command[c].request)
  BY <1>0, <1>1, FailOk DEF ReadRequest
<1>2. CASE Prevalid(Lane(c), command[c].request)
  <2> DEFINE step == AfterRequest(Lane(c))
             m == [command[c] EXCEPT !.step = step]
  <2>1. /\ DOMAIN m = CommandFields /\ m.step = step /\ m.lane = command[c].lane
        /\ m.request = command[c].request
    BY CommandFacts, StepFields
  <2>2. command' = [command EXCEPT ![c] = m]
    BY <1>2 DEF ReadRequest, To
  <2>3. RequestClosed(m.request)
    BY <1>2, <2>1 DEF Prevalid, Parses
  <2>4. /\ step \in {"envelope", "capsule", "decide", "construct"}
        /\ step = "decide" <=> command[c].lane = "systemone"
    BY DEF AfterRequest, Lane, Compiled
  <2> HIDE DEF m, step
  <2>5. CommandOk(command[c], call[c], backend[c], printed[c])
    BY CommandFacts
  <2>6. CommandOk(m, call[c], backend[c], printed[c])
    BY <1>0, <2>1, <2>3, <2>4, <2>5 DEF CommandOk, CommandSteps, At
  <2> QED BY <1>0, <2>1, <2>2, <2>6, CommandGoes
<1> QED BY <1>1, <1>2

LEMMA VerifyTrainingCapsuleOk ==
    ASSUME DecisionInv, NEW c \in Commands, VerifyTrainingCapsule(c), UNCHANGED shadowVars
    PROVE  DecisionInv'
<1>0. UNCHANGED <<engineVars, printed, shadowVars>> /\ At(c, "capsule")
  BY DEF VerifyTrainingCapsule
<1>1. CASE Fail(c)
  BY <1>0, <1>1, FailOk
<1>2. CASE ~Fail(c)
  <2> DEFINE m == [command[c] EXCEPT !.step = "construct", !.made = disk["capsule"]]
  <2>1. command' = [command EXCEPT ![c] = m]
    BY <1>2 DEF VerifyTrainingCapsule
  <2>2. /\ DOMAIN m = CommandFields /\ m.step = "construct" /\ m.lane = command[c].lane
        /\ m.request = command[c].request
    BY CommandFacts DEF CommandFields
  <2> HIDE DEF m
  <2>3. CommandOk(command[c], call[c], backend[c], printed[c])
    BY CommandFacts
  <2>4. CommandOk(m, call[c], backend[c], printed[c])
    BY <1>0, <2>2, <2>3 DEF CommandOk, CommandSteps, At
  <2> QED BY <1>0, <2>1, <2>2, <2>4, CommandGoes
<1> QED BY <1>1, <1>2

LEMMA CheckContextOk ==
    ASSUME DecisionInv, NEW c \in Commands, CheckContext(c), UNCHANGED shadowVars
    PROVE  DecisionInv'
<1>0. UNCHANGED <<engineVars, printed, shadowVars>> /\ At(c, "context")
  BY DEF CheckContext
<1>1. CASE Fail(c)
  BY <1>0, <1>1, FailOk
<1>2. CASE ~Fail(c)
  <2> DEFINE m == [command[c] EXCEPT !.step = "decide"]
  <2>1. command' = [command EXCEPT ![c] = m]
    BY <1>2 DEF CheckContext, To
  <2>2. /\ DOMAIN m = CommandFields /\ m.step = "decide" /\ m.lane = command[c].lane
        /\ m.request = command[c].request
    BY CommandFacts, StepFields
  <2> HIDE DEF m
  <2>3. CommandOk(command[c], call[c], backend[c], printed[c])
    BY CommandFacts
  <2>4. CommandOk(m, call[c], backend[c], printed[c])
    BY <1>0, <2>2, <2>3 DEF CommandOk, CommandSteps, At
  <2> QED BY <1>0, <2>1, <2>2, <2>4, CommandGoes
<1> QED BY <1>1, <1>2

LEMMA CreateIdentityOk ==
    ASSUME DecisionInv, NEW c \in Commands, CreateIdentity(c), UNCHANGED shadowVars
    PROVE  DecisionInv'
<1>0. UNCHANGED <<engineVars, printed, shadowVars>> /\ At(c, "identity")
  BY DEF CreateIdentity
<1>1. CASE Fail(c)
  BY <1>0, <1>1, FailOk
<1>2. CASE ~Fail(c)
  <2> DEFINE file == IdentityFor(command[c].request, Models["minilm"])
             m == [command[c] EXCEPT !.step = "done", !.envelope = file]
  <2>1. command' = [command EXCEPT ![c] = m]
    BY <1>2 DEF CreateIdentity
  <2> HIDE DEF file
  <2>2. /\ DOMAIN m = CommandFields /\ m.step = "done" /\ m.lane = command[c].lane
        /\ m.request = command[c].request
    BY CommandFacts DEF CommandFields
  <2> HIDE DEF m
  <2>3. CommandOk(command[c], call[c], backend[c], printed[c])
    BY CommandFacts
  <2>4. CommandOk(m, call[c], backend[c], printed[c])
    BY <1>0, <2>2, <2>3 DEF CommandOk, CommandSteps, At
  <2> QED BY <1>0, <2>1, <2>2, <2>4, CommandGoes
<1> QED BY <1>1, <1>2

LEMMA GiveUpOk ==
    ASSUME DecisionInv, NEW c \in Commands, GiveUp(c), UNCHANGED shadowVars
    PROVE  DecisionInv'
<1>0. UNCHANGED <<engineVars, printed, shadowVars>> /\ At(c, "deciding")
  BY DEF GiveUp
<1>1. CASE Fail(c)
  BY <1>0, <1>1, FailOk
<1>2. CASE ~Fail(c)
  <2> DEFINE m == [command[c] EXCEPT !.step = "closeFailed"]
  <2>1. command' = [command EXCEPT ![c] = m]
    BY <1>2 DEF GiveUp, To
  <2>2. /\ DOMAIN m = CommandFields /\ m.step = "closeFailed" /\ m.lane = command[c].lane
        /\ m.request = command[c].request
    BY CommandFacts, StepFields
  <2> HIDE DEF m
  <2>3. CommandOk(command[c], call[c], backend[c], printed[c])
    BY CommandFacts
  <2>4. CommandOk(m, call[c], backend[c], printed[c])
    BY <1>0, <2>2, <2>3 DEF CommandOk, CommandSteps, At
  <2> QED BY <1>0, <2>1, <2>2, <2>4, CommandGoes
<1> QED BY <1>1, <1>2

-----------------------------------------------------------------------------
(* The steps of commands that open, use and close a backend.               *)

\* A caller that is in no call is well whatever its artifacts are.
LEMMA IdleOk ==
    ASSUME NEW k, NEW artifacts, NEW kind, NEW now, CallOk(k, artifacts, kind, now), k.at = "idle"
    PROVE  /\ k.answers = <<>>
           /\ \A others, other : CallOk(k, others, other, now)
  BY DEF CallOk

\* An idle command that changes its backend, its artifacts or neither.
LEMMA IdleCommandOk ==
    ASSUME DecisionInv, NEW c \in Commands, UNCHANGED <<call, clock, printed, shadowVars>>,
           call[c].at = "idle",
           NEW m, DOMAIN m = CommandFields, command' = [command EXCEPT ![c] = m],
           NEW b, DOMAIN b = BackendFields, Puts(backend, backend', c, b),
           NEW g, Puts(registry, registry', c, g),
           b.open => b.verified = "pinned",
           b.kind \notin JuliaKinds => b.loaded \in {Nothing, "pinned"},
           CommandOk(m, call[c], b, printed[c])
    PROVE  DecisionInv'
<1> DEFINE k == call[c]
<1>1. DOMAIN k = CallFields /\ k.answers = <<>> /\ CallOk(k, g, b.kind, clock)
  BY CommandFacts, IdleOk
<1>2. LoadedOk(b, k)
  BY <1>1 DEF LoadedOk
<1>3. Puts(call, call', c, k) /\ Puts(printed, printed', c, printed[c])
  BY PutsFacts
<1>4. Puts(command, command', c, m)
  BY CommandFacts, PutsFacts
<1>5. UNCHANGED <<runner, output, clock>>
  BY DEF shadowVars
<1> HIDE DEF k
<1>6. CommandOk(m, k, b, printed[c])
  BY DEF k
<1> QED BY <1>1, <1>2, <1>3, <1>4, <1>5, <1>6, CommandStepOk

LEMMA ReadEnvelopeOk ==
    ASSUME DecisionInv, NEW c \in Commands, ReadEnvelope(c), UNCHANGED shadowVars
    PROVE  DecisionInv'
<1>0. UNCHANGED <<call, backend, clock, printed, shadowVars>> /\ At(c, "envelope")
  BY DEF ReadEnvelope
<1>1. CASE Fail(c) /\ UNCHANGED registry
  BY <1>0, <1>1, FailOk DEF engineVars
<1>2. CASE ~(Fail(c) /\ UNCHANGED registry)
  <2> DEFINE m == [command[c] EXCEPT !.step = "construct"]
             g == [id \in Ids(command[c].request.questions) |-> command[c].envelope]
  <2>1. command' = [command EXCEPT ![c] = m] /\ registry' = [registry EXCEPT ![c] = g]
    BY <1>2 DEF ReadEnvelope, To
  <2>2. /\ DOMAIN m = CommandFields /\ m.step = "construct" /\ m.lane = command[c].lane
        /\ m.request = command[c].request
    BY CommandFacts, StepFields
  <2> HIDE DEF m, g
  <2>3. Puts(registry, registry', c, g)
    BY <2>1, CommandFacts, PutsFacts
  <2>4. Puts(backend, backend', c, backend[c]) /\ DOMAIN backend[c] = BackendFields
    BY <1>0, CommandFacts, PutsFacts
  <2>5. CommandOk(command[c], call[c], backend[c], printed[c]) /\ LoadedOk(backend[c], call[c])
    BY CommandFacts
  <2>6. CommandOk(m, call[c], backend[c], printed[c]) /\ call[c].at = "idle"
    BY <1>0, <2>2, <2>5 DEF CommandOk, CommandSteps, At
  <2> QED BY <1>0, <2>1, <2>2, <2>3, <2>4, <2>5, <2>6, IdleCommandOk DEF LoadedOk
<1> QED BY <1>1, <1>2

\* The backend that Open makes.
Opened(c, content) ==
    [kind |-> command[c].lane, verified |-> content, loaded |-> Nothing,
     open |-> TRUE, opened |-> backend[c].opened + 1, closed |-> backend[c].closed]

LEMMA OpenFacts ==
    ASSUME DecisionInv, NEW c \in Commands, NEW content, Open(c, content)
    PROVE  Puts(backend, backend', c, Opened(c, content)) /\ DOMAIN Opened(c, content) = BackendFields
<1>1. backend' = [backend EXCEPT ![c] = Opened(c, content)]
  BY DEF Open, Opened, Lane
<1>2. DOMAIN Opened(c, content) = BackendFields
  BY DEF Opened, BackendFields
<1> QED BY <1>1, <1>2, CommandFacts, PutsFacts

LEMMA ConstructOk ==
    ASSUME DecisionInv, NEW c \in Commands, Construct(c), UNCHANGED shadowVars
    PROVE  DecisionInv'
<1>0. UNCHANGED <<call, registry, clock, printed, shadowVars>> /\ At(c, "construct")
  BY DEF Construct
<1>1. CASE Fail(c) /\ UNCHANGED backend
  BY <1>0, <1>1, FailOk DEF engineVars
<1>2. CASE ~(Fail(c) /\ UNCHANGED backend)
  <2> DEFINE step == CASE Lane(c) = "systemone" -> "request"
                       [] Lane(c) \in Compiled -> "context"
                       [] OTHER -> "decide"
             m == [command[c] EXCEPT !.step = step]
             b == Opened(c, "pinned")
  <2>1. command' = [command EXCEPT ![c] = m] /\ Open(c, "pinned")
    BY <1>2 DEF Construct, To, Conforms
  <2>2. /\ DOMAIN m = CommandFields /\ m.step = step /\ m.lane = command[c].lane
        /\ m.request = command[c].request
    BY CommandFacts, StepFields
  <2>3. /\ step \in {"request", "context", "decide"}
        /\ step = "request" <=> command[c].lane = "systemone"
    BY DEF Lane, Compiled
  <2>4. Puts(backend, backend', c, b) /\ DOMAIN b = BackendFields
    BY <2>1, OpenFacts
  <2>5. b.kind = command[c].lane /\ b.verified = "pinned" /\ b.loaded = Nothing
    BY DEF Opened
  <2> HIDE DEF m, b, step
  <2>6. CommandOk(command[c], call[c], backend[c], printed[c])
    BY CommandFacts
  <2>7. CommandOk(m, call[c], b, printed[c]) /\ call[c].at = "idle"
    BY <1>0, <2>2, <2>3, <2>5, <2>6 DEF CommandOk, CommandSteps, At
  <2>8. Puts(registry, registry', c, registry[c])
    BY <1>0, PutsFacts
  <2> QED BY <1>0, <2>1, <2>2, <2>4, <2>5, <2>7, <2>8, IdleCommandOk
<1> QED BY <1>1, <1>2

LEMMA EmbedOk ==
    ASSUME DecisionInv, NEW c \in Commands, Embed(c), UNCHANGED shadowVars
    PROVE  DecisionInv'
<1>0. /\ UNCHANGED <<call, clock, printed, shadowVars>> /\ At(c, "embed") /\ Open(c, "pinned")
      /\ registry' = [registry EXCEPT ![c] = command[c].envelope]
  BY DEF Embed
<1> DEFINE m == [command[c] EXCEPT !.step = "decide"]
           b == Opened(c, "pinned")
           g == command[c].envelope
<1>1. command' = [command EXCEPT ![c] = m]
  BY DEF Embed, To
<1>2. /\ DOMAIN m = CommandFields /\ m.step = "decide" /\ m.lane = command[c].lane
      /\ m.request = command[c].request
  BY CommandFacts, StepFields
<1>3. Puts(backend, backend', c, b) /\ DOMAIN b = BackendFields
  BY <1>0, OpenFacts
<1>4. b.kind = command[c].lane /\ b.verified = "pinned" /\ b.loaded = Nothing
  BY DEF Opened
<1> HIDE DEF m, b
<1>5. CommandOk(command[c], call[c], backend[c], printed[c])
  BY CommandFacts
<1>6. CommandOk(m, call[c], b, printed[c]) /\ call[c].at = "idle"
  BY <1>0, <1>2, <1>4, <1>5 DEF CommandOk, CommandSteps, At
<1>7. Puts(registry, registry', c, g)
  BY <1>0, CommandFacts, PutsFacts
<1> QED BY <1>0, <1>1, <1>2, <1>3, <1>4, <1>6, <1>7, IdleCommandOk

LEMMA DescribeOk ==
    ASSUME DecisionInv, NEW c \in Commands, Describe(c), UNCHANGED shadowVars
    PROVE  DecisionInv'
<1>0. UNCHANGED <<call, registry, clock, printed, shadowVars>> /\ At(c, "describe")
  BY DEF Describe
<1>1. CASE Fail(c) /\ UNCHANGED backend
  BY <1>0, <1>1, FailOk DEF engineVars
<1>2. CASE ~(Fail(c) /\ UNCHANGED backend)
  <2> DEFINE step == IF Closes(Lane(c)) THEN "describing" ELSE "done"
             m == [command[c] EXCEPT !.step = step]
             b == Opened(c, "pinned")
  <2>1. command' = [command EXCEPT ![c] = m] /\ Open(c, "pinned")
    BY <1>2 DEF Describe, To
  <2>2. /\ DOMAIN m = CommandFields /\ m.step = step /\ m.lane = command[c].lane
        /\ m.request = command[c].request
    BY CommandFacts, StepFields
  <2>3. step \in {"describing", "done"}
    OBVIOUS
  <2>4. Puts(backend, backend', c, b) /\ DOMAIN b = BackendFields
    BY <2>1, OpenFacts
  <2>5. b.kind = command[c].lane /\ b.verified = "pinned" /\ b.loaded = Nothing /\ b.open = TRUE
    BY DEF Opened
  <2> HIDE DEF m, b, step
  <2>6. CommandOk(command[c], call[c], backend[c], printed[c])
    BY CommandFacts
  <2>7. CommandOk(m, call[c], b, printed[c]) /\ call[c].at = "idle"
    BY <1>0, <2>2, <2>3, <2>5, <2>6 DEF CommandOk, CommandSteps, At
  <2>8. Puts(registry, registry', c, registry[c])
    BY <1>0, PutsFacts
  <2> QED BY <1>0, <2>1, <2>2, <2>4, <2>5, <2>7, <2>8, IdleCommandOk
<1> QED BY <1>1, <1>2

\* What does not fail to load was verified, but for Julia.
LEMMA LoadsVerified ==
    ASSUME NEW c, LoadedOk(backend[c], call[c]), backend[c].open, ~LoadFails(c),
           KindOf(c) \notin JuliaKinds
    PROVE  Loads(c) = "pinned"
<1>1. CASE KindOf(c) \in {"laya", "saracura"}
  BY <1>1 DEF LoadFails
<1>2. CASE backend[c].loaded # Nothing
  BY <1>2 DEF Loads, LoadedOk, KindOf
<1>3. CASE KindOf(c) \notin {"laya", "saracura"} /\ backend[c].loaded = Nothing
  BY <1>3 DEF Loads, LoadedOk
<1> QED BY <1>1, <1>2, <1>3

LEMMA PrepareOk ==
    ASSUME DecisionInv, NEW c \in Commands, Prepare(c), UNCHANGED shadowVars
    PROVE  DecisionInv'
<1> DEFINE fails == LoadFails(c) \/ (Lane(c) = "saracura" /\ disk["capsule"] # "pinned")
           step == IF fails THEN "closeFailed" ELSE "close"
           content == IF fails THEN Nothing ELSE Loads(c)
           m == [command[c] EXCEPT !.step = step]
           b == [backend[c] EXCEPT !.loaded = content]
<1>0. UNCHANGED <<call, registry, clock, printed, shadowVars>> /\ At(c, "describing")
  BY DEF Prepare
<1>1. command' = [command EXCEPT ![c] = m] /\ backend' = [backend EXCEPT ![c] = b]
  BY DEF Prepare, To
<1>2. /\ DOMAIN m = CommandFields /\ m.step = step /\ m.lane = command[c].lane
      /\ m.request = command[c].request
  BY CommandFacts, StepFields
<1>3. /\ DOMAIN b = BackendFields /\ b.kind = backend[c].kind /\ b.verified = backend[c].verified
      /\ b.open = backend[c].open /\ b.loaded = content
  BY CommandFacts DEF BackendFields
<1>4. CommandOk(command[c], call[c], backend[c], printed[c]) /\ LoadedOk(backend[c], call[c])
  BY CommandFacts
<1>5. backend[c].open /\ call[c].at = "idle"
  BY <1>0, <1>4 DEF CommandOk, At
<1>6. b.kind \notin JuliaKinds => b.loaded \in {Nothing, "pinned"}
  BY <1>3, <1>4, <1>5, LoadsVerified DEF KindOf
<1>7. step \in {"closeFailed", "close"}
  OBVIOUS
<1>8. Puts(backend, backend', c, b) /\ Puts(registry, registry', c, registry[c])
  BY <1>0, <1>1, CommandFacts, PutsFacts
<1>9. b.open => b.verified = "pinned"
  BY <1>3, <1>4 DEF LoadedOk
<1> HIDE DEF m, b, step, content
<1>10. CommandOk(m, call[c], b, printed[c])
  BY <1>2, <1>3, <1>4, <1>5, <1>7 DEF CommandOk, CommandSteps
<1> QED BY <1>0, <1>1, <1>2, <1>3, <1>5, <1>6, <1>8, <1>9, <1>10, IdleCommandOk

LEMMA DecideOk ==
    ASSUME DecisionInv, NEW c \in Commands, Decide(c), UNCHANGED shadowVars
    PROVE  DecisionInv'
<1> DEFINE m == [command[c] EXCEPT !.step = "deciding"]
           k == [NoCall EXCEPT !.at = "gates", !.request = command[c].request,
                               !.profile = ProfileFor(c), !.entered = clock]
<1>0. /\ UNCHANGED <<registry, backend, clock, printed, shadowVars>>
      /\ At(c, "decide") /\ call[c].at = "idle"
  BY DEF Decide
<1>1. command' = [command EXCEPT ![c] = m] /\ call' = [call EXCEPT ![c] = k]
  BY DEF Decide, To, Enter
<1>2. /\ DOMAIN m = CommandFields /\ m.step = "deciding" /\ m.lane = command[c].lane
      /\ m.request = command[c].request
  BY CommandFacts, StepFields
<1>3. CommandOk(command[c], call[c], backend[c], printed[c]) /\ LoadedOk(backend[c], call[c])
  BY CommandFacts
<1>4. /\ Listed(command[c].request) /\ RequestClosed(command[c].request)
      /\ backend[c].kind = command[c].lane /\ printed[c] = Nothing
  BY <1>0, <1>3 DEF CommandOk, At
<1>5. CallOk(k, registry[c], backend[c].kind, clock)
  BY <1>4, CallEntered, CommandFacts DEF Shape
<1>6. DOMAIN k = CallFields /\ k.at = "gates" /\ k.request = command[c].request /\ k.answers = <<>>
  BY DEF NoCall, CallFields
<1> HIDE DEF m, k
<1>7. CommandOk(m, k, backend[c], printed[c])
  BY <1>2, <1>3, <1>4, <1>6 DEF CommandOk, CommandSteps
<1>8. LoadedOk(backend[c], k)
  BY <1>3, <1>6 DEF LoadedOk
<1>9. /\ Puts(backend, backend', c, backend[c]) /\ Puts(registry, registry', c, registry[c])
      /\ Puts(printed, printed', c, printed[c]) /\ Puts(call, call', c, k)
      /\ Puts(command, command', c, m) /\ DOMAIN backend[c] = BackendFields
  BY <1>0, <1>1, CommandFacts, PutsFacts
<1>10. UNCHANGED <<runner, output, clock>>
  BY <1>0 DEF shadowVars
<1> QED BY <1>2, <1>5, <1>6, <1>7, <1>8, <1>9, <1>10, CommandStepOk

LEMMA RespondOk ==
    ASSUME DecisionInv, NEW c \in Commands, Respond(c), UNCHANGED shadowVars
    PROVE  DecisionInv'
<1> DEFINE step == IF Closes(Lane(c)) THEN "close" ELSE "done"
           m == [command[c] EXCEPT !.step = step]
<1>0. /\ UNCHANGED <<call, registry, backend, clock, shadowVars>>
      /\ At(c, "deciding") /\ call[c].at = "answered"
  BY DEF Respond, engineVars
<1>1. command' = [command EXCEPT ![c] = m] /\ printed' = [printed EXCEPT ![c] = call[c].answers]
  BY DEF Respond, To
<1>2. /\ DOMAIN m = CommandFields /\ m.step = step /\ m.lane = command[c].lane
      /\ m.request = command[c].request
  BY CommandFacts, StepFields
<1>3. step \in {"close", "done"}
  OBVIOUS
<1>4. CommandOk(command[c], call[c], backend[c], printed[c])
  BY CommandFacts
<1> HIDE DEF m, step
<1>5. CommandOk(m, call[c], backend[c], call[c].answers)
  BY <1>0, <1>2, <1>3, <1>4 DEF CommandOk, CommandSteps
<1>6. /\ Puts(backend, backend', c, backend[c]) /\ Puts(registry, registry', c, registry[c])
      /\ Puts(printed, printed', c, call[c].answers) /\ Puts(call, call', c, call[c])
      /\ Puts(command, command', c, m)
  BY <1>0, <1>1, CommandFacts, PutsFacts
<1>7. UNCHANGED <<runner, output, clock>>
  BY <1>0 DEF shadowVars
<1> QED BY <1>2, <1>5, <1>6, <1>7, CommandFacts, CommandStepOk

LEMMA CloseOk ==
    ASSUME DecisionInv, NEW c \in Commands, Close(c), UNCHANGED shadowVars
    PROVE  DecisionInv'
<1> DEFINE step == IF At(c, "close") THEN "done" ELSE "failed"
           m == [command[c] EXCEPT !.step = step]
           b == [backend[c] EXCEPT !.open = FALSE, !.closed = @ + 1]
<1>0. UNCHANGED <<call, registry, clock, printed, shadowVars>>
  BY DEF Close
<1>1. command' = [command EXCEPT ![c] = m] /\ backend' = [backend EXCEPT ![c] = b]
      /\ command[c].step \in {"close", "closeFailed"}
  BY DEF Close, To, Fail, At
<1>2. /\ DOMAIN m = CommandFields /\ m.step = step /\ m.lane = command[c].lane
      /\ m.request = command[c].request
  BY CommandFacts, StepFields
<1>3. /\ DOMAIN b = BackendFields /\ b.kind = backend[c].kind /\ b.open = FALSE
      /\ b.loaded = backend[c].loaded
  BY CommandFacts DEF BackendFields
<1>4. step \in {"done", "failed"}
  OBVIOUS
<1>5. /\ CommandOk(command[c], call[c], backend[c], printed[c]) /\ LoadedOk(backend[c], call[c])
      /\ CallOk(call[c], registry[c], backend[c].kind, clock) /\ DOMAIN call[c] = CallFields
  BY CommandFacts
<1> HIDE DEF m, step, b
<1>6. CommandOk(m, call[c], b, printed[c])
  BY <1>1, <1>2, <1>3, <1>4, <1>5 DEF CommandOk, CommandSteps
<1>7. LoadedOk(b, call[c])
  BY <1>3, <1>5 DEF LoadedOk
<1>8. /\ Puts(backend, backend', c, b) /\ Puts(registry, registry', c, registry[c])
      /\ Puts(printed, printed', c, printed[c]) /\ Puts(call, call', c, call[c])
      /\ Puts(command, command', c, m)
  BY <1>0, <1>1, CommandFacts, PutsFacts
<1>9. UNCHANGED <<runner, output, clock>>
  BY <1>0 DEF shadowVars
<1>10. CallOk(call[c], registry[c], b.kind, clock)
  BY <1>3, <1>5
<1> QED BY <1>2, <1>3, <1>5, <1>6, <1>7, <1>8, <1>9, <1>10, CommandStepOk

LEMMA DecidingOk ==
    ASSUME DecisionInv, NEW c \in Commands, Deciding(c), UNCHANGED shadowVars
    PROVE  DecisionInv'
<1>0. UNCHANGED <<command, printed, shadowVars>> /\ At(c, "deciding") /\ DecideStep(c)
  BY DEF Deciding, commandVars
<1>1. /\ Shape /\ c \in Callers /\ CallerOk(c)
      /\ CommandOk(command[c], call[c], backend[c], printed[c]) /\ LoadedOk(backend[c], call[c])
  BY CommandFacts
<1>2. PICK content : Moves(c, content)
  <2>1. CASE Check(c)
    BY <1>1, <2>1, CheckMoves
  <2>2. CASE Resolve(c)
    BY <1>1, <2>2, ResolveMoves
  <2>3. CASE Encode(c)
    BY <1>1, <2>3, EncodeMoves
  <2>4. CASE ~LoadFails(c) /\ Score(c, Loads(c))
    <3>1. KindOf(c) \notin JuliaKinds => Loads(c) = "pinned"
      BY <1>1, <2>4, LoadsVerified DEF Score
    <3> QED BY <1>1, <2>4, <3>1, ScoreMoves
  <2>5. CASE call[c].at = "score" /\ Refuse(c) /\ UNCHANGED <<registry, backend, clock>>
    BY <1>1, <2>5, RefuseMoves
  <2> QED BY <1>0, <2>1, <2>2, <2>3, <2>4, <2>5 DEF DecideStep
<1>3. /\ Puts(backend, backend', c, backend'[c]) /\ Puts(call, call', c, call'[c])
      /\ Puts(registry, registry', c, registry[c]) /\ Puts(printed, printed', c, printed[c])
      /\ Puts(command, command', c, command[c])
  BY <1>0, <1>1, <1>2 DEF Moves, Puts, Shape
<1>4. printed[c] = Nothing
  BY <1>1, <1>2 DEF Moves, CommandOk
<1>5. CommandOk(command[c], call'[c], backend'[c], printed[c])
  BY <1>0, <1>1, <1>2, <1>4 DEF Moves, CommandOk, At
<1>6. CallOk(call'[c], registry[c], backend'[c].kind, clock) /\ LoadedOk(backend'[c], call'[c])
      /\ DOMAIN call'[c] = CallFields /\ DOMAIN backend'[c] = BackendFields
  BY <1>2 DEF Moves
<1>7. UNCHANGED <<runner, output, clock>>
  BY <1>0, <1>2 DEF shadowVars, Moves
<1> QED BY <1>3, <1>5, <1>6, <1>7, CommandFacts, CommandStepOk

LEMMA CommandStepsOk ==
    ASSUME DecisionInv, NEW c \in Commands, CommandStep(c), UNCHANGED shadowVars
    PROVE  DecisionInv'
  BY ReadRequestOk, ReadEnvelopeOk, VerifyTrainingCapsuleOk, ConstructOk, CheckContextOk,
     DecideOk, DecidingOk, RespondOk, GiveUpOk, CloseOk, EmbedOk, DescribeOk, PrepareOk,
     CreateIdentityOk DEF CommandStep

-----------------------------------------------------------------------------
(* Steps of runners.                                                       *)

LEMMA RunnerStepOk ==
    ASSUME DecisionInv, NEW c \in Runners, UNCHANGED <<command, printed, registry, clock>>,
           NEW g, DOMAIN g = RunnerFields, Puts(runner, runner', c, g),
           NEW k, DOMAIN k = CallFields, Puts(call, call', c, k),
           NEW b, DOMAIN b = BackendFields, Puts(backend, backend', c, b),
           NEW o, Puts(output, output', c, o),
           CallOk(k, registry[c], b.kind, clock), LoadedOk(b, k), RunnerOk(g, k, b, o)
    PROVE  DecisionInv'
<1>1. Shape /\ c \in Callers /\ c \notin Commands
  BY ShadowAssumption DEF DecisionInv
<1>2. Shape'
  BY <1>1 DEF Shape, Puts
<1>3. ASSUME NEW d \in Callers, d # c PROVE CallerOk(d)'
  <2>1. Still(d)
    BY <1>1, <1>3 DEF Still, Puts, Shape
  <2>2. CallerOk(d) /\ clock \in Nat /\ clock' \in Nat /\ clock <= clock'
    BY <1>1, <1>3 DEF DecisionInv, Shape
  <2> QED BY <2>1, <2>2, StillOk
<1>4. CallerOk(c)'
  BY <1>1 DEF CallerOk, Puts
<1> QED BY <1>2, <1>3, <1>4 DEF DecisionInv

LEMMA RunnerFacts ==
    ASSUME DecisionInv, NEW c \in Runners
    PROVE  /\ Shape /\ c \in Callers /\ CallerOk(c)
           /\ c \in DOMAIN runner /\ c \in DOMAIN call /\ c \in DOMAIN backend
           /\ c \in DOMAIN output
           /\ DOMAIN runner[c] = RunnerFields /\ DOMAIN call[c] = CallFields
           /\ DOMAIN backend[c] = BackendFields
           /\ CallOk(call[c], registry[c], backend[c].kind, clock)
           /\ LoadedOk(backend[c], call[c])
           /\ RunnerOk(runner[c], call[c], backend[c], output[c])
  BY ShadowAssumption DEF DecisionInv, Shape, CallerOk

\* A step that only a runner itself shows.
LEMMA RunnerGoes ==
    ASSUME DecisionInv, NEW c \in Runners, UNCHANGED <<engineVars, commandVars, output>>,
           NEW g, DOMAIN g = RunnerFields, runner' = [runner EXCEPT ![c] = g],
           RunnerOk(g, call[c], backend[c], output[c])
    PROVE  DecisionInv'
<1>1. /\ Puts(call, call', c, call[c]) /\ Puts(backend, backend', c, backend[c])
      /\ Puts(output, output', c, output[c])
  BY PutsFacts DEF engineVars
<1>2. Puts(runner, runner', c, g)
  BY RunnerFacts, PutsFacts
<1>3. UNCHANGED <<command, printed, registry, clock>>
  BY DEF engineVars, commandVars
<1> QED BY <1>1, <1>2, <1>3, RunnerFacts, RunnerStepOk

\* A record of a runner of which only the step and the failure differ.
Alike(g, h) ==
    /\ h.source = g.source /\ h.policy = g.policy /\ h.input = g.input
    /\ h.items = g.items /\ h.records = g.records /\ h.asked = g.asked

LEMMA IntoFields ==
    ASSUME NEW g, DOMAIN g = RunnerFields, NEW step
    PROVE  LET h == [g EXCEPT !.step = step] IN
           DOMAIN h = RunnerFields /\ h.step = step /\ h.failedAt = g.failedAt /\ Alike(g, h)
  BY DEF RunnerFields, Alike

\* Before anything was decided a runner may fail.
LEMMA FailedOk ==
    ASSUME DecisionInv, NEW c \in Runners, UNCHANGED <<engineVars, commandVars, output>>,
           NEW step \in {"failed", "closed"},
           Into(c, step) \/ \E index : FailAt(c, index, step),
           runner[c].step \in {"policy", "items", "capsule", "enter"},
           step = "closed" => runner[c].source = "library"
    PROVE  DecisionInv'
<1>1. PICK g : /\ runner' = [runner EXCEPT ![c] = g] /\ DOMAIN g = RunnerFields
               /\ g.step = step /\ Alike(runner[c], g)
  <2>1. CASE Into(c, step)
    <3> DEFINE h == [runner[c] EXCEPT !.step = step]
    <3>1. runner' = [runner EXCEPT ![c] = h]
      BY <2>1 DEF Into
    <3>2. DOMAIN h = RunnerFields /\ h.step = step /\ Alike(runner[c], h)
      BY RunnerFacts, IntoFields
    <3> HIDE DEF h
    <3> QED BY <3>1, <3>2
  <2>2. CASE \E index : FailAt(c, index, step)
    <3>1. PICK index : FailAt(c, index, step)
      BY <2>2
    <3> DEFINE h == [runner[c] EXCEPT !.step = step, !.failedAt = index]
    <3>2. runner' = [runner EXCEPT ![c] = h]
      BY <3>1 DEF FailAt
    <3>3. DOMAIN h = RunnerFields /\ h.step = step /\ Alike(runner[c], h)
      <4>1. DOMAIN runner[c] = RunnerFields
        BY RunnerFacts
      <4> QED BY <4>1 DEF RunnerFields, Alike
    <3> HIDE DEF h
    <3> QED BY <3>2, <3>3
  <2> QED BY <2>1, <2>2
<1>2. RunnerOk(runner[c], call[c], backend[c], output[c])
  BY RunnerFacts
<1>3. g.source = "command" => BatchOk(g, backend[c], output[c])
  BY <1>1, <1>2 DEF RunnerOk, BatchOk, Alike
<1>4. RunnerOk(g, call[c], backend[c], output[c])
  BY <1>1, <1>2, <1>3 DEF RunnerOk, RunnerSteps, Alike
<1> QED BY <1>1, <1>4, RunnerGoes

LEMMA LoadPolicyOk ==
    ASSUME DecisionInv, NEW c \in Runners, LoadPolicy(c)
    PROVE  DecisionInv'
<1>0. UNCHANGED <<engineVars, commandVars, output>> /\ runner[c].step = "policy"
  BY DEF LoadPolicy, Is
<1>1. CASE Into(c, "failed")
  BY <1>0, <1>1, FailedOk
<1>2. CASE Into(c, "items")
  <2> DEFINE g == [runner[c] EXCEPT !.step = "items"]
  <2>1. runner' = [runner EXCEPT ![c] = g]
    BY <1>2 DEF Into
  <2>2. DOMAIN g = RunnerFields /\ g.step = "items" /\ Alike(runner[c], g)
    BY RunnerFacts, IntoFields
  <2>3. RunnerOk(runner[c], call[c], backend[c], output[c])
    BY RunnerFacts
  <2> HIDE DEF g
  <2>4. g.source = "command" => BatchOk(g, backend[c], output[c])
    BY <1>0, <2>2, <2>3 DEF RunnerOk, BatchOk, Alike
  <2>5. RunnerOk(g, call[c], backend[c], output[c])
    BY <1>0, <2>2, <2>3, <2>4 DEF RunnerOk, RunnerSteps, Alike
  <2> QED BY <1>0, <2>1, <2>2, <2>5, RunnerGoes
<1> QED BY <1>1, <1>2 DEF LoadPolicy

LEMMA SameSequence ==
    ASSUME NEW s, Sequence(s), NEW t, Sequence(t), Len(s) = Len(t), \A i \in DOMAIN s : s[i] = t[i]
    PROVE  s = t
<1>1. DOMAIN s = 1 .. Len(s) /\ DOMAIN t = 1 .. Len(s)
  BY SequenceFacts
<1>2. s \in [1 .. Len(s) -> Items(s)] /\ t \in [1 .. Len(s) -> Items(t)]
  BY SequenceFacts, LenProperties
<1> QED BY <1>1, <1>2

LEMMA ReadItemOk ==
    ASSUME DecisionInv, NEW c \in Runners, ReadItem(c)
    PROVE  DecisionInv'
<1> DEFINE n == Len(runner[c].items) + 1
           h == runner[c]
<1>0. UNCHANGED <<engineVars, commandVars, output>> /\ h.step = "items"
  BY DEF ReadItem, Is
<1>1. RunnerOk(h, call[c], backend[c], output[c]) /\ DOMAIN h = RunnerFields
  BY RunnerFacts
<1>2. /\ Sequence(h.items) /\ Sequence(h.input) /\ Len(h.items) \in Nat /\ Len(h.input) \in Nat
      /\ DOMAIN h.items = 1 .. Len(h.items) /\ DOMAIN h.input = 1 .. Len(h.input)
      /\ Len(h.items) <= Len(h.input) /\ \A i \in DOMAIN h.items : h.items[i] = h.input[i]
  BY <1>1, SequenceFacts DEF RunnerOk
<1>3. CASE FailAt(c, 1, "failed") \/ FailAt(c, n, "failed")
  BY <1>0, <1>3, FailedOk
<1>4. CASE n > Len(h.input) /\ n # 1 /\ Into(c, "capsule")
  <2> DEFINE g == [h EXCEPT !.step = "capsule"]
  <2>1. runner' = [runner EXCEPT ![c] = g]
    BY <1>4 DEF Into
  <2>2. DOMAIN g = RunnerFields /\ g.step = "capsule" /\ Alike(h, g)
    BY <1>1, IntoFields
  <2>3. h.items = h.input /\ Len(h.items) > 0
    <3>1. Len(h.items) = Len(h.input) /\ Len(h.items) > 0
      BY <1>2, <1>4
    <3> QED BY <1>2, <3>1, SameSequence
  <2> HIDE DEF g
  <2>4. g.source = "command" => BatchOk(g, backend[c], output[c])
    BY <1>0, <1>1, <2>2, <2>3 DEF RunnerOk, BatchOk, Alike
  <2>5. RunnerOk(g, call[c], backend[c], output[c])
    BY <1>0, <1>1, <2>2, <2>4 DEF RunnerOk, RunnerSteps, Alike
  <2> QED BY <1>0, <2>1, <2>2, <2>5, RunnerGoes
<1>5. CASE /\ n <= Len(h.input) /\ Admitted(c, n)
           /\ runner' = [runner EXCEPT ![c].items = Append(@, runner[c].input[n])]
  <2> DEFINE more == Append(h.items, h.input[n])
             g == [h EXCEPT !.items = more]
  <2>1. runner' = [runner EXCEPT ![c] = g]
    BY <1>5
  <2>2. /\ DOMAIN g = RunnerFields /\ g.step = "items" /\ g.source = h.source /\ g.items = more
        /\ g.policy = h.policy /\ g.input = h.input /\ g.records = h.records
    BY <1>0, <1>1 DEF RunnerFields
  <2>3. /\ Sequence(more) /\ Len(more) = n /\ DOMAIN more = 1 .. n
        /\ \A i \in DOMAIN h.items : more[i] = h.items[i]
        /\ more[n] = h.input[n]
    <3>1. \A s, y : Sequence(s) =>
             /\ Sequence(Append(s, y)) /\ Len(Append(s, y)) = Len(s) + 1
             /\ DOMAIN Append(s, y) = 1 .. Len(s) + 1
             /\ \A i \in DOMAIN s : Append(s, y)[i] = s[i]
             /\ Append(s, y)[Len(s) + 1] = y /\ Append(s, y) # <<>>
      BY AppendFacts
    <3> QED BY <1>2, <3>1
  <2> HIDE DEF g, more
  <2>4. \A i \in 1 .. n : i = n \/ (i \in DOMAIN h.items /\ more[i] = h.items[i])
    BY <1>2, <2>3
  <2>5. \A i \in 1 .. n : more[i] = h.input[i]
    BY <1>2, <2>3, <2>4
  <2>6. h.input[n].ref \notin References(h.items)
    BY <1>5 DEF Admitted
  <2>7. \A i, j \in 1 .. n : more[i].ref = more[j].ref => i = j
    <3> SUFFICES ASSUME NEW i \in 1 .. n, NEW j \in 1 .. n, more[i].ref = more[j].ref PROVE i = j
      OBVIOUS
    <3>1. \A e \in DOMAIN h.items : h.items[e].ref # h.input[n].ref
      BY <2>6 DEF References
    <3>2. CASE i = n
      BY <2>3, <2>4, <3>1, <3>2
    <3>3. CASE j = n
      BY <2>3, <2>4, <3>1, <3>3
    <3>4. CASE i # n /\ j # n
      BY <1>1, <2>4, <3>4 DEF RunnerOk
    <3> QED BY <3>2, <3>3, <3>4
  <2>8. h.source = "command" => ~(backend[c].opened > 0) /\ h.records = <<>> /\ output[c] = Nothing
    <3>1. h.items # h.input
      BY <1>2, <1>5
    <3> QED BY <1>0, <1>1, <3>1 DEF RunnerOk, BatchOk
  <2>9. g.source = "command" => BatchOk(g, backend[c], output[c])
    <3>1. Len(<<>>) = 0 /\ DOMAIN <<>> = {}
      BY EmptySequence
    <3>2. Len(more) \in Nat
      BY <1>2, <2>3
    <3> QED BY <2>2, <2>8, <3>1, <3>2 DEF BatchOk
  <2>10. RunnerOk(g, call[c], backend[c], output[c])
    <3>1. /\ g.source \in {"command", "library"} /\ Sequence(g.policy.question.criteria)
          /\ Sequence(g.input) /\ Sequence(g.records) /\ call[c].at = "idle"
      BY <1>0, <1>1, <2>2 DEF RunnerOk
    <3>2. Sequence(g.items) /\ Len(g.items) <= Len(g.input)
      BY <1>5, <2>2, <2>3
    <3>3. \A i \in DOMAIN g.items : g.items[i] = g.input[i]
      BY <2>2, <2>3, <2>5
    <3>4. \A i, j \in DOMAIN g.items : g.items[i].ref = g.items[j].ref => i = j
      BY <2>2, <2>3, <2>7
    <3> QED BY <2>2, <2>9, <3>1, <3>2, <3>3, <3>4 DEF RunnerOk, RunnerSteps
  <2> QED BY <1>0, <2>1, <2>2, <2>10, RunnerGoes
<1> QED BY <1>2, <1>3, <1>4, <1>5 DEF ReadItem

LEMMA VerifyBindingOk ==
    ASSUME DecisionInv, NEW c \in Runners, VerifyBinding(c)
    PROVE  DecisionInv'
<1>0. UNCHANGED <<engineVars, commandVars, output>> /\ runner[c].step = "capsule"
  BY DEF VerifyBinding, Is
<1>1. CASE Into(c, "failed")
  BY <1>0, <1>1, FailedOk
<1>2. CASE Into(c, "enter")
  <2> DEFINE g == [runner[c] EXCEPT !.step = "enter"]
  <2>1. runner' = [runner EXCEPT ![c] = g]
    BY <1>2 DEF Into
  <2>2. DOMAIN g = RunnerFields /\ g.step = "enter" /\ Alike(runner[c], g)
    BY RunnerFacts, IntoFields
  <2>3. RunnerOk(runner[c], call[c], backend[c], output[c])
    BY RunnerFacts
  <2> HIDE DEF g
  <2>4. g.source = "command" => BatchOk(g, backend[c], output[c])
    BY <1>0, <2>2, <2>3 DEF RunnerOk, BatchOk, Alike
  <2>5. RunnerOk(g, call[c], backend[c], output[c])
    BY <1>0, <2>2, <2>3, <2>4 DEF RunnerOk, RunnerSteps, Alike
  <2> QED BY <1>0, <2>1, <2>2, <2>5, RunnerGoes
<1> QED BY <1>1, <1>2 DEF VerifyBinding

LEMMA WriteOk ==
    ASSUME DecisionInv, NEW c \in Runners, Write(c)
    PROVE  DecisionInv'
<1> DEFINE g == [runner[c] EXCEPT !.step = "written"]
<1>0. UNCHANGED <<engineVars, commandVars>> /\ runner[c].step = "output"
  BY DEF Write, Is
<1>1. runner' = [runner EXCEPT ![c] = g] /\ output' = [output EXCEPT ![c] = runner[c].records]
  BY DEF Write, Into
<1>2. DOMAIN g = RunnerFields /\ g.step = "written" /\ Alike(runner[c], g)
  BY RunnerFacts, IntoFields
<1>3. RunnerOk(runner[c], call[c], backend[c], output[c])
  BY RunnerFacts
<1> HIDE DEF g
<1>4. g.source = "command" => BatchOk(g, backend[c], runner[c].records)
  BY <1>0, <1>2, <1>3 DEF RunnerOk, BatchOk, Alike
<1>5. RunnerOk(g, call[c], backend[c], runner[c].records)
  BY <1>0, <1>2, <1>3, <1>4 DEF RunnerOk, RunnerSteps, Alike
<1>6. /\ Puts(call, call', c, call[c]) /\ Puts(backend, backend', c, backend[c])
      /\ Puts(runner, runner', c, g) /\ Puts(output, output', c, runner[c].records)
  BY <1>0, <1>1, RunnerFacts, PutsFacts DEF engineVars
<1>7. UNCHANGED <<command, printed, registry, clock>>
  BY <1>0 DEF engineVars, commandVars
<1> QED BY <1>2, <1>5, <1>6, <1>7, RunnerFacts, RunnerStepOk

LEMMA EvaluateOk ==
    ASSUME DecisionInv, NEW c \in Runners, Evaluate(c)
    PROVE  DecisionInv'
<1> DEFINE g == [runner[c] EXCEPT !.step = "evaluated"]
<1>0. UNCHANGED <<engineVars, commandVars, output>> /\ runner[c].step = "written"
  BY DEF Evaluate, Is
<1>1. runner' = [runner EXCEPT ![c] = g]
  BY DEF Evaluate, Into
<1>2. DOMAIN g = RunnerFields /\ g.step = "evaluated" /\ Alike(runner[c], g)
  BY RunnerFacts, IntoFields
<1>3. RunnerOk(runner[c], call[c], backend[c], output[c])
  BY RunnerFacts
<1> HIDE DEF g
<1>4. g.source = "command" => BatchOk(g, backend[c], output[c])
  BY <1>0, <1>2, <1>3 DEF RunnerOk, BatchOk, Alike
<1>5. RunnerOk(g, call[c], backend[c], output[c])
  BY <1>0, <1>2, <1>3, <1>4 DEF RunnerOk, RunnerSteps, Alike
<1> QED BY <1>0, <1>1, <1>2, <1>5, RunnerGoes

-----------------------------------------------------------------------------
(* Runners that open, ask and close a backend.                             *)

LEMMA OpenBackendOk ==
    ASSUME DecisionInv, NEW c \in Runners, OpenBackend(c)
    PROVE  DecisionInv'
<1>0. UNCHANGED <<call, registry, clock, commandVars, output>> /\ runner[c].step = "enter"
  BY DEF OpenBackend, Is
<1>1. RunnerOk(runner[c], call[c], backend[c], output[c]) /\ LoadedOk(backend[c], call[c])
      /\ CallOk(call[c], registry[c], backend[c].kind, clock) /\ call[c].at = "idle"
      /\ DOMAIN call[c] = CallFields
  BY <1>0, RunnerFacts DEF RunnerOk
<1>2. CASE UNCHANGED backend /\ FailAt(c, 1, IF Source(c) = "library" THEN "closed" ELSE "failed")
  <2> DEFINE step == IF Source(c) = "library" THEN "closed" ELSE "failed"
  <2>1. FailAt(c, 1, step) /\ step \in {"failed", "closed"}
        /\ (step = "closed" => runner[c].source = "library")
    BY <1>2 DEF Source
  <2> HIDE DEF step
  <2> QED BY <1>0, <1>2, <2>1, FailedOk DEF engineVars
<1>3. CASE runner[c].args /\ PolicyClosed(Policy(c))
  <2> DEFINE g == [runner[c] EXCEPT !.step = "preparing"]
             b == [kind |-> "saracura", verified |-> "pinned", loaded |-> Nothing, open |-> TRUE,
                   opened |-> backend[c].opened + 1, closed |-> backend[c].closed]
  <2>1. runner' = [runner EXCEPT ![c] = g] /\ backend' = [backend EXCEPT ![c] = b]
    BY <1>3 DEF OpenBackend, Into
  <2>2. DOMAIN g = RunnerFields /\ g.step = "preparing" /\ Alike(runner[c], g)
    BY RunnerFacts, IntoFields
  <2>3. /\ DOMAIN b = BackendFields /\ b.kind = "saracura" /\ b.verified = "pinned"
        /\ b.loaded = Nothing
    BY DEF BackendFields
  <2> HIDE DEF g, b
  <2>4. g.source = "command" => BatchOk(g, b, output[c])
    BY <1>0, <1>1, <2>2, <2>3 DEF RunnerOk, BatchOk, Alike
  <2>5. RunnerOk(g, call[c], b, output[c])
    BY <1>0, <1>1, <2>2, <2>3, <2>4 DEF RunnerOk, RunnerSteps, Alike
  <2>6. CallOk(call[c], registry[c], b.kind, clock) /\ call[c].answers = <<>>
    BY <1>1, IdleOk
  <2>7. LoadedOk(b, call[c])
    BY <2>3, <2>6 DEF LoadedOk
  <2>8. /\ Puts(call, call', c, call[c]) /\ Puts(backend, backend', c, b)
        /\ Puts(runner, runner', c, g) /\ Puts(output, output', c, output[c])
    BY <1>0, <2>1, RunnerFacts, PutsFacts
  <2>9. UNCHANGED <<command, printed, registry, clock>>
    BY <1>0 DEF commandVars
  <2> QED BY <1>1, <2>2, <2>3, <2>5, <2>6, <2>7, <2>8, <2>9, RunnerStepOk
<1>4. (UNCHANGED backend /\ FailAt(c, 1, IF Source(c) = "library" THEN "closed" ELSE "failed"))
         \/ (runner[c].args /\ PolicyClosed(Policy(c)))
  BY DEF OpenBackend
<1> QED BY <1>2, <1>3, <1>4

LEMMA PrepareBackendOk ==
    ASSUME DecisionInv, NEW c \in Runners, PrepareBackend(c)
    PROVE  DecisionInv'
<1> DEFINE prepared == Preparable(c)
           content == IF prepared THEN backend[c].verified ELSE Nothing
           opens == prepared /\ ModelOf(c).revision = Policy(c).model
           b == [backend[c] EXCEPT !.loaded = content]
<1>0. /\ UNCHANGED <<call, registry, clock, commandVars, output>> /\ runner[c].step = "preparing"
      /\ backend' = [backend EXCEPT ![c] = b]
  BY DEF PrepareBackend, Is
<1>1. RunnerOk(runner[c], call[c], backend[c], output[c]) /\ LoadedOk(backend[c], call[c])
      /\ CallOk(call[c], registry[c], backend[c].kind, clock) /\ call[c].at = "idle"
      /\ DOMAIN call[c] = CallFields
  BY <1>0, RunnerFacts DEF RunnerOk
<1>2. /\ DOMAIN b = BackendFields /\ b.kind = "saracura" /\ b.verified = "pinned"
      /\ b.loaded = content /\ b.opened = backend[c].opened
  <2>1. DOMAIN backend[c] = BackendFields /\ backend[c].kind = "saracura"
        /\ backend[c].verified = "pinned"
    BY <1>0, <1>1, RunnerFacts DEF RunnerOk
  <2> QED BY <2>1 DEF BackendFields
<1>3. content \in {Nothing, "pinned"} /\ (opens => content = "pinned")
  BY <1>0, <1>1 DEF RunnerOk
<1>4. PICK g : /\ runner' = [runner EXCEPT ![c] = g] /\ DOMAIN g = RunnerFields
               /\ Alike(runner[c], g)
               /\ \/ g.step = "open" /\ opens
                  \/ g.step = "closing" /\ g.failedAt = 1
  <2>1. CASE opens
    <3> DEFINE h == [runner[c] EXCEPT !.step = "open"]
    <3>1. runner' = [runner EXCEPT ![c] = h]
      BY <2>1 DEF PrepareBackend, Into
    <3>2. DOMAIN h = RunnerFields /\ h.step = "open" /\ Alike(runner[c], h)
      BY RunnerFacts, IntoFields
    <3> HIDE DEF h
    <3> QED BY <2>1, <3>1, <3>2
  <2>2. CASE ~opens
    <3> DEFINE h == [runner[c] EXCEPT !.step = "closing", !.failedAt = 1]
    <3>1. runner' = [runner EXCEPT ![c] = h]
      BY <2>2 DEF PrepareBackend, FailAt
    <3>2. DOMAIN h = RunnerFields /\ h.step = "closing" /\ h.failedAt = 1 /\ Alike(runner[c], h)
      <4>1. DOMAIN runner[c] = RunnerFields
        BY RunnerFacts
      <4> QED BY <4>1 DEF RunnerFields, Alike
    <3> HIDE DEF h
    <3> QED BY <3>1, <3>2
  <2> QED BY <2>1, <2>2
<1> HIDE DEF b, opens, content
<1>5. g.source = "command" => BatchOk(g, b, output[c])
  <2>1. Len(<<>>) = 0
    BY EmptySequence
  <2>2. Sequence(runner[c].items)
    BY <1>1 DEF RunnerOk
  <2> QED BY <1>0, <1>1, <1>2, <1>4, <2>1, <2>2 DEF RunnerOk, BatchOk, Alike
<1>6. RunnerOk(g, call[c], b, output[c])
  BY <1>0, <1>1, <1>2, <1>3, <1>4, <1>5 DEF RunnerOk, RunnerSteps, Alike
<1>7. CallOk(call[c], registry[c], b.kind, clock) /\ call[c].answers = <<>>
  BY <1>1, IdleOk
<1>8. LoadedOk(b, call[c])
  BY <1>2, <1>3, <1>7 DEF LoadedOk
<1>9. /\ Puts(call, call', c, call[c]) /\ Puts(backend, backend', c, b)
      /\ Puts(runner, runner', c, g) /\ Puts(output, output', c, output[c])
  BY <1>0, <1>4, RunnerFacts, PutsFacts
<1>10. UNCHANGED <<command, printed, registry, clock>>
  BY <1>0 DEF commandVars
<1> QED BY <1>1, <1>2, <1>4, <1>6, <1>7, <1>8, <1>9, <1>10, RunnerStepOk

LEMMA DecideItemOk ==
    ASSUME DecisionInv, NEW c \in Runners, DecideItem(c)
    PROVE  DecisionInv'
<1>0. /\ UNCHANGED <<registry, backend, clock, commandVars, output>> /\ runner[c].step = "open"
  BY DEF DecideItem, Is
<1>1. RunnerOk(runner[c], call[c], backend[c], output[c]) /\ LoadedOk(backend[c], call[c])
      /\ DOMAIN backend[c] = BackendFields /\ DOMAIN runner[c] = RunnerFields
  BY RunnerFacts
<1>2. PICK item \in NextItems(c) :
          /\ Builds(Policy(c), item)
          /\ Enter(c, ShadowRequest(Policy(c), item), Nothing)
          /\ runner' = [runner EXCEPT ![c].step = "asking", ![c].tries = @ + 1, ![c].asked = item]
  BY DEF DecideItem
<1> DEFINE r == ShadowRequest(Policy(c), item)
           k == [NoCall EXCEPT !.at = "gates", !.request = r, !.profile = Nothing,
                               !.entered = clock]
           g == [runner[c] EXCEPT !.step = "asking", !.tries = @ + 1, !.asked = item]
<1>3. call' = [call EXCEPT ![c] = k] /\ runner' = [runner EXCEPT ![c] = g]
  BY <1>2 DEF Enter
<1>4. /\ DOMAIN g = RunnerFields /\ g.step = "asking" /\ g.asked = item
      /\ g.source = runner[c].source /\ g.policy = runner[c].policy /\ g.input = runner[c].input
      /\ g.items = runner[c].items /\ g.records = runner[c].records
  BY <1>1 DEF RunnerFields
<1>5. RequestClosed(r) /\ Listed(r)
  <2>1. RequestClosed(r)
    BY <1>2 DEF Builds
  <2>2. r.questions = <<runner[c].policy.question>>
    BY DEF ShadowRequest, Policy
  <2>3. Sequence(runner[c].policy.question.criteria)
    BY <1>1 DEF RunnerOk
  <2> HIDE DEF r
  <2>4. DOMAIN r.questions = {1} /\ r.questions[1] = runner[c].policy.question
    BY <2>2
  <2>5. r.questions \in Seq(Items(r.questions))
    <3>1. runner[c].policy.question \in Items(r.questions)
      BY <2>4 DEF Items
    <3> QED BY <2>2, <3>1
  <2> QED BY <2>1, <2>3, <2>4, <2>5 DEF Listed, Sequence
<1>6. CallOk(k, registry[c], backend[c].kind, clock)
  <2>1. clock \in Nat
    BY RunnerFacts DEF Shape
  <2> HIDE DEF r
  <2> QED BY <1>5, <2>1, CallEntered
<1>7. /\ DOMAIN k = CallFields /\ k.at = "gates" /\ k.answers = <<>>
      /\ k.request = ShadowRequest(g.policy, g.asked)
  BY <1>4 DEF NoCall, CallFields, Policy
<1>8. g.source = "command" => item = g.items[Len(g.records) + 1]
  BY <1>2, <1>4 DEF NextItems, Source
<1> HIDE DEF g, k, r
<1>9. g.source = "command" => BatchOk(g, backend[c], output[c])
  BY <1>0, <1>1, <1>4, <1>8 DEF RunnerOk, BatchOk
<1>10. RunnerOk(g, k, backend[c], output[c])
  BY <1>0, <1>1, <1>4, <1>7, <1>9 DEF RunnerOk, RunnerSteps
<1>11. LoadedOk(backend[c], k)
  BY <1>1, <1>7 DEF LoadedOk
<1>12. /\ Puts(call, call', c, k) /\ Puts(backend, backend', c, backend[c])
       /\ Puts(runner, runner', c, g) /\ Puts(output, output', c, output[c])
  BY <1>0, <1>3, RunnerFacts, PutsFacts
<1>13. UNCHANGED <<command, printed, registry, clock>>
  BY <1>0 DEF commandVars
<1> QED BY <1>1, <1>4, <1>6, <1>7, <1>10, <1>11, <1>12, <1>13, RunnerStepOk

LEMMA AskingOk ==
    ASSUME DecisionInv, NEW c \in Runners, Asking(c)
    PROVE  DecisionInv'
<1>0. UNCHANGED <<commandVars, shadowVars>> /\ runner[c].step = "asking"
  BY DEF Asking, Is
<1>1. /\ Shape /\ c \in Callers /\ CallerOk(c) /\ DOMAIN runner[c] = RunnerFields
      /\ RunnerOk(runner[c], call[c], backend[c], output[c])
  BY RunnerFacts
<1>2. backend[c].loaded = "pinned" /\ backend[c].kind = "saracura"
  BY <1>0, <1>1 DEF RunnerOk
<1>3. Moves(c, backend[c].loaded)
  BY <1>1, <1>2, CheckMoves, ScoreMoves, UnavailableMoves DEF Asking
<1>4. /\ Puts(backend, backend', c, backend'[c]) /\ Puts(call, call', c, call'[c])
      /\ Puts(runner, runner', c, runner[c]) /\ Puts(output, output', c, output[c])
  BY <1>0, <1>1, <1>3 DEF Moves, Puts, Shape, shadowVars
<1>5. /\ CallOk(call'[c], registry[c], backend'[c].kind, clock) /\ LoadedOk(backend'[c], call'[c])
      /\ DOMAIN call'[c] = CallFields /\ DOMAIN backend'[c] = BackendFields
      /\ backend'[c].kind = "saracura" /\ backend'[c].loaded = "pinned"
      /\ backend'[c].opened = backend[c].opened
      /\ call'[c].at # "idle" /\ call'[c].request = call[c].request
  BY <1>2, <1>3 DEF Moves
<1>6. RunnerOk(runner[c], call'[c], backend'[c], output[c])
  BY <1>0, <1>1, <1>5 DEF RunnerOk, BatchOk
<1>7. UNCHANGED <<command, printed, registry, clock>>
  BY <1>0, <1>3 DEF commandVars, Moves
<1> QED BY <1>1, <1>4, <1>5, <1>6, <1>7, RunnerStepOk

\* What a runner makes of an answer is a record in its own order.
LEMMA RecordsProper ==
    ASSUME NEW c, NEW p, p = Policy(c), Sequence(p.question.criteria), KindOf(c) = "saracura",
           NEW item, NEW answers, NEW q, AnswerEarned(q, "saracura", answers[1]),
           Projects(c, answers), RecordClosed(RecordOf(c, item, answers[1]))
    PROVE  Proper(p, item, RecordOf(c, item, answers[1]))
<1> DEFINE a == answers[1]
           w == a.weights
           r == RecordOf(c, item, a)
<1>1. /\ DOMAIN w = Items(p.question.criteria) /\ \A l \in DOMAIN w : w[l] \in Nat
      /\ Models["saracura"].revision = p.model
  BY DEF Projects, AnswerEarned, ModelOf
<1>2. /\ r.ref = item.ref /\ r.policy = PolicyDigest(p) /\ r.model = Models["saracura"]
      /\ r.ranking = Ranking(p, w) /\ r.weights = w
  BY DEF RecordOf, ModelOf
<1>3. RecordClosed(r)
  OBVIOUS
<1> HIDE DEF r, w, a
<1>4. /\ Sorted(p, w, r.ranking) /\ Items(r.ranking) = DOMAIN w
      /\ Len(r.ranking) = Cardinality(DOMAIN w)
  BY <1>1, <1>2, RankingFacts
<1>5. Proper(p, item, r)
  BY <1>1, <1>2, <1>3, <1>4 DEF Proper
<1> QED BY <1>5 DEF r, a

LEMMA ProjectOk ==
    ASSUME DecisionInv, NEW c \in Runners, Project(c)
    PROVE  DecisionInv'
<1> DEFINE h == runner[c]
           p == h.policy
           answers == call[c].answers
           made == RecordOf(c, h.asked, answers[1])
           takes == /\ call[c].at = "answered"
                    /\ Projects(c, answers)
                    /\ RecordClosed(made)
<1>0. /\ UNCHANGED <<registry, backend, clock, commandVars, output>> /\ h.step = "asking"
      /\ call' = [call EXCEPT ![c] = NoCall]
  BY DEF Project, Is
<1>1. /\ RunnerOk(h, call[c], backend[c], output[c]) /\ LoadedOk(backend[c], call[c])
      /\ DOMAIN backend[c] = BackendFields /\ DOMAIN h = RunnerFields
      /\ CallOk(call[c], registry[c], backend[c].kind, clock)
  BY RunnerFacts
<1>2. /\ backend[c].loaded = "pinned" /\ backend[c].kind = "saracura"
      /\ Sequence(h.records) /\ Sequence(h.items) /\ Len(h.records) \in Nat /\ Len(h.items) \in Nat
      /\ DOMAIN h.records = 1 .. Len(h.records)
      /\ h.source = "command" =>
            Len(h.records) < Len(h.items) /\ h.asked = h.items[Len(h.records) + 1]
  BY <1>0, <1>1, SequenceFacts DEF RunnerOk, BatchOk
<1>3. /\ DOMAIN NoCall = CallFields /\ NoCall.at = "idle" /\ NoCall.answers = <<>>
      /\ CallOk(NoCall, registry[c], backend[c].kind, clock)
  BY DEF NoCall, CallFields, CallOk, CallSteps
<1>4. LoadedOk(backend[c], NoCall)
  BY <1>1, <1>3 DEF LoadedOk
<1>5. UNCHANGED <<command, printed, registry, clock>>
  BY <1>0 DEF commandVars
<1>6. ASSUME NEW g, runner' = [runner EXCEPT ![c] = g], DOMAIN g = RunnerFields,
             RunnerOk(g, NoCall, backend[c], output[c])
      PROVE  DecisionInv'
  <2>1. /\ Puts(call, call', c, NoCall) /\ Puts(backend, backend', c, backend[c])
        /\ Puts(runner, runner', c, g) /\ Puts(output, output', c, output[c])
    BY <1>0, <1>6, RunnerFacts, PutsFacts
  <2> QED BY <1>1, <1>3, <1>4, <1>5, <1>6, <2>1, RunnerStepOk
<1>7. CASE ~takes /\ Fails(c)
  <2>1. PICK g : /\ runner' = [runner EXCEPT ![c] = g] /\ DOMAIN g = RunnerFields /\ Alike(h, g)
                 /\ \/ g.step = "open" /\ h.source = "library"
                    \/ g.step = "closing" /\ g.failedAt = Len(h.records) + 1
    <3>1. CASE h.source = "library"
      <4> DEFINE n == [h EXCEPT !.step = "open"]
      <4>1. runner' = [runner EXCEPT ![c] = n]
        BY <1>7, <3>1 DEF Fails, Into, Source
      <4>2. DOMAIN n = RunnerFields /\ n.step = "open" /\ Alike(h, n)
        BY RunnerFacts, IntoFields
      <4> HIDE DEF n
      <4> QED BY <3>1, <4>1, <4>2
    <3>2. CASE h.source # "library"
      <4> DEFINE n == [h EXCEPT !.step = "closing", !.failedAt = Len(h.records) + 1]
      <4>1. runner' = [runner EXCEPT ![c] = n]
        BY <1>7, <3>2 DEF Fails, FailAt, Source
      <4>2. /\ DOMAIN n = RunnerFields /\ n.step = "closing" /\ Alike(h, n)
            /\ n.failedAt = Len(h.records) + 1
        <5>1. DOMAIN h = RunnerFields
          BY RunnerFacts
        <5> QED BY <5>1 DEF RunnerFields, Alike
      <4> HIDE DEF n
      <4> QED BY <4>1, <4>2
    <3> QED BY <3>1, <3>2
  <2>2. g.source = "command" => BatchOk(g, backend[c], output[c])
    BY <1>0, <1>1, <1>2, <2>1 DEF RunnerOk, BatchOk, Alike
  <2>3. RunnerOk(g, NoCall, backend[c], output[c])
    BY <1>0, <1>1, <1>2, <1>3, <2>1, <2>2 DEF RunnerOk, RunnerSteps, Alike
  <2> QED BY <1>6, <2>1, <2>3
<1>8. CASE takes
  <2> DEFINE done == Len(h.records) + 1 = Len(h.items)
             step == IF h.source = "command" /\ done THEN "closing" ELSE "open"
             more == Append(h.records, made)
             g == [h EXCEPT !.records = more, !.step = step]
  <2>1. runner' = [runner EXCEPT ![c] = g]
    BY <1>8 DEF Project, Source
  <2>2. /\ DOMAIN g = RunnerFields /\ g.step = step /\ g.source = h.source /\ g.items = h.items
        /\ g.policy = h.policy /\ g.input = h.input /\ g.records = more
    BY <1>1 DEF RunnerFields
  <2>3. Proper(p, h.asked, made)
    <3>1. call[c].request = ShadowRequest(p, h.asked)
      BY <1>0, <1>1 DEF RunnerOk
    <3>2. Len(call[c].request.questions) = 1
      BY <3>1 DEF ShadowRequest
    <3>3. 1 \in DOMAIN answers
      <4>1. Sequence(answers) /\ Len(answers) = 1
        BY <1>1, <1>8, <3>2 DEF CallOk
      <4> QED BY <4>1, SequenceFacts
    <3>4. AnswerEarned(call[c].request.questions[1], "saracura", answers[1])
      BY <1>1, <1>2, <1>8, <3>3 DEF CallOk
    <3>5. p = Policy(c) /\ KindOf(c) = "saracura" /\ Sequence(p.question.criteria)
      BY <1>1, <1>2 DEF Policy, KindOf, RunnerOk
    <3> HIDE DEF p, answers, h
    <3> QED BY <1>8, <3>4, <3>5, RecordsProper
  <2> HIDE DEF made
  <2>4. /\ Sequence(more) /\ Len(more) = Len(h.records) + 1 /\ DOMAIN more = 1 .. Len(h.records) + 1
        /\ \A i \in DOMAIN h.records : more[i] = h.records[i]
        /\ more[Len(h.records) + 1] = made
    <3>1. Sequence(h.records)
      BY <1>2
    <3> QED BY <3>1, AppendFacts
  <2>5. /\ step \in {"closing", "open"}
        /\ step = "closing" => Len(more) = Len(h.items)
        /\ step = "open" /\ h.source = "command" => Len(more) < Len(h.items)
    BY <1>2, <2>4
  <2> HIDE DEF g, more, step
  <2>6. h.source = "command" =>
           \A i \in DOMAIN more : Proper(p, h.items[i], more[i])
    <3> SUFFICES ASSUME h.source = "command", NEW i \in DOMAIN more
                 PROVE  Proper(p, h.items[i], more[i])
      OBVIOUS
    <3>1. CASE i = Len(h.records) + 1
      BY <1>2, <2>3, <2>4, <3>1
    <3>2. CASE i # Len(h.records) + 1
      <4>1. i \in DOMAIN h.records /\ more[i] = h.records[i]
        BY <1>2, <2>4, <3>2
      <4> QED BY <1>1, <4>1 DEF RunnerOk, BatchOk
    <3> QED BY <3>1, <3>2
  <2>7. g.source = "command" => BatchOk(g, backend[c], output[c])
    <3> SUFFICES ASSUME g.source = "command" PROVE BatchOk(g, backend[c], output[c])
      OBVIOUS
    <3>1. BatchOk(h, backend[c], output[c])
      BY <1>1, <2>2 DEF RunnerOk
    <3>2. output[c] = Nothing /\ h.items = h.input
      BY <1>0, <3>1 DEF BatchOk
    <3>3. Len(more) <= Len(h.items)
      BY <1>2, <2>2, <2>4
    <3> QED BY <2>2, <2>5, <2>6, <3>2, <3>3 DEF BatchOk
  <2>8. RunnerOk(g, NoCall, backend[c], output[c])
    <3>1. /\ g.source \in {"command", "library"} /\ Sequence(g.policy.question.criteria)
          /\ Sequence(g.input) /\ Sequence(g.items) /\ Sequence(g.records)
          /\ Len(g.items) <= Len(g.input)
          /\ \A i \in DOMAIN g.items : g.items[i] = g.input[i]
          /\ \A i, j \in DOMAIN g.items : g.items[i].ref = g.items[j].ref => i = j
      BY <1>1, <2>2, <2>4 DEF RunnerOk
    <3> QED BY <1>2, <1>3, <2>2, <2>5, <2>7, <3>1 DEF RunnerOk, RunnerSteps
  <2> QED BY <1>6, <2>1, <2>2, <2>8
<1> QED BY <1>7, <1>8 DEF Project

LEMMA CloseRunnerOk ==
    ASSUME DecisionInv, NEW c \in Runners, CloseRunner(c)
    PROVE  DecisionInv'
<1> DEFINE h == runner[c]
           b == [backend[c] EXCEPT !.open = FALSE, !.closed = @ + 1, !.loaded = Nothing]
           g == [h EXCEPT !.step = Ended(c)]
<1>0. /\ UNCHANGED <<call, registry, clock, commandVars, output>>
      /\ h.step = "closing" \/ (h.source = "library" /\ h.step = "open")
      /\ backend' = [backend EXCEPT ![c] = b] /\ runner' = [runner EXCEPT ![c] = g]
  BY DEF CloseRunner, Is, Source, Into
<1>1. /\ RunnerOk(h, call[c], backend[c], output[c]) /\ call[c].at = "idle"
      /\ CallOk(call[c], registry[c], backend[c].kind, clock) /\ DOMAIN call[c] = CallFields
  BY <1>0, RunnerFacts DEF RunnerOk
<1>2. /\ DOMAIN b = BackendFields /\ b.kind = backend[c].kind /\ b.open = FALSE
      /\ b.loaded = Nothing /\ b.opened = backend[c].opened
  BY RunnerFacts DEF BackendFields
<1>3. DOMAIN g = RunnerFields /\ g.step = Ended(c) /\ g.failedAt = h.failedAt /\ Alike(h, g)
  BY RunnerFacts, IntoFields
<1>4. /\ Ended(c) \in {"closed", "failed", "output"}
      /\ h.source = "command" /\ Ended(c) = "output" => h.step = "closing" /\ ~(h.failedAt > 0)
      /\ h.source = "command" => h.step = "closing" /\ Ended(c) # "closed"
  BY <1>0, <1>1 DEF Ended, Source, RunnerOk
<1> HIDE DEF b, g
<1>5. g.source = "command" => BatchOk(g, b, output[c])
  BY <1>1, <1>2, <1>3, <1>4 DEF RunnerOk, BatchOk, Alike
<1>6. RunnerOk(g, call[c], b, output[c])
  BY <1>1, <1>2, <1>3, <1>4, <1>5 DEF RunnerOk, RunnerSteps, Alike
<1>7. CallOk(call[c], registry[c], b.kind, clock) /\ call[c].answers = <<>>
  BY <1>1, IdleOk
<1>8. LoadedOk(b, call[c])
  BY <1>2, <1>7 DEF LoadedOk
<1>9. /\ Puts(call, call', c, call[c]) /\ Puts(backend, backend', c, b)
      /\ Puts(runner, runner', c, g) /\ Puts(output, output', c, output[c])
  BY <1>0, RunnerFacts, PutsFacts
<1>10. UNCHANGED <<command, printed, registry, clock>>
  BY <1>0 DEF commandVars
<1> QED BY <1>1, <1>2, <1>3, <1>6, <1>7, <1>8, <1>9, <1>10, RunnerStepOk

LEMMA RunnerStepsOk ==
    ASSUME DecisionInv, NEW c \in Runners, RunnerStep(c)
    PROVE  DecisionInv'
  BY LoadPolicyOk, ReadItemOk, VerifyBindingOk, OpenBackendOk, PrepareBackendOk, DecideItemOk,
     AskingOk, ProjectOk, CloseRunnerOk, WriteOk, EvaluateOk DEF RunnerStep

-----------------------------------------------------------------------------
(* The invariant.                                                          *)

LEMMA DecisionStarts == DecisionInit => DecisionInv
<1> SUFFICES ASSUME NEW s \in Scenarios,
                    InitEngine([c \in Callers |-> <<>>]),
                    InitCommands(s.commands, [path \in Artifacts |-> "pinned"]),
                    InitShadow(s.runners)
             PROVE  DecisionInv
  BY DEF DecisionInit
<1>0. Sequence(<<>>) /\ Len(<<>>) = 0 /\ DOMAIN <<>> = {}
  BY EmptySequence
<1>1. Shape
  BY CommandsAssumption, ShadowAssumption
     DEF Shape, InitEngine, InitCommands, InitShadow, NoCall, NoBackend, CallFields,
         BackendFields, CommandFields, RunnerFields
<1>2. ASSUME NEW c \in Callers
      PROVE  /\ call[c] = NoCall /\ backend[c] = NoBackend
             /\ CallOk(call[c], registry[c], backend[c].kind, clock)
             /\ LoadedOk(backend[c], call[c])
  BY <1>2 DEF InitEngine, NoCall, NoBackend, CallOk, CallSteps, LoadedOk
<1>3. ASSUME NEW c \in Commands
      PROVE  CommandOk(command[c], call[c], backend[c], printed[c])
  <2> DEFINE k == s.commands[c]
             m == command[c]
  <2>1. m.lane = k.lane /\ m.step = k.step /\ m.request = k.request /\ printed[c] = Nothing
    BY DEF InitCommands
  <2>2. call[c].at = "idle"
    BY <1>2, CommandsAssumption DEF NoCall
  <2>3. /\ k.lane \in Kinds
        /\ k.step \in {FirstStep(k.lane), "describe", "identity", "embed", "done"}
        /\ k.step \in {FirstStep(k.lane), "embed"} => Listed(k.request)
        /\ k.step = "embed" => RequestClosed(k.request)
    BY ShadowAssumption
  <2>4. FirstStep(k.lane) = IF k.lane = "systemone" THEN "construct" ELSE "request"
    BY DEF FirstStep
  <2> HIDE DEF k, m
  <2>5. CommandOk(m, call[c], backend[c], printed[c])
    BY <2>1, <2>2, <2>3, <2>4 DEF CommandOk, CommandSteps
  <2> QED BY <2>5 DEF m
<1>4. ASSUME NEW c \in Runners
      PROVE  RunnerOk(runner[c], call[c], backend[c], output[c])
  <2> DEFINE k == s.runners[c]
             g == runner[c]
  <2>1. /\ g.source = k.source /\ g.policy = k.policy /\ g.input = k.input
        /\ g.step = IF k.source = "library" THEN "enter" ELSE "policy"
        /\ g.items = <<>> /\ g.records = <<>> /\ output[c] = Nothing
    BY DEF InitShadow
  <2>2. call[c].at = "idle" /\ backend[c].opened = 0
    BY <1>2, ShadowAssumption DEF NoCall, NoBackend
  <2>3. /\ k.source \in {"command", "library"}
        /\ Sequence(k.policy.question.criteria) /\ Sequence(k.input)
    BY ShadowAssumption
  <2>4. Len(k.input) \in Nat
    BY <2>3, SequenceFacts
  <2> HIDE DEF k, g
  <2>5. g.source = "command" => BatchOk(g, backend[c], output[c])
    BY <1>0, <2>1, <2>2, <2>3 DEF BatchOk
  <2>6. RunnerOk(g, call[c], backend[c], output[c])
    BY <1>0, <2>1, <2>2, <2>3, <2>4, <2>5 DEF RunnerOk, RunnerSteps
  <2> QED BY <2>6 DEF g
<1> QED BY <1>1, <1>2, <1>3, <1>4 DEF DecisionInv, CallerOk

LEMMA ReplaceFileOk ==
    ASSUME DecisionInv, ReplaceFile, UNCHANGED shadowVars
    PROVE  DecisionInv'
<1>1. UNCHANGED <<call, registry, backend, clock, command, printed, runner, output>>
  BY DEF ReplaceFile, engineVars, shadowVars
<1> QED BY <1>1 DEF DecisionInv, Shape, CallerOk

LEMMA TickOk ==
    ASSUME DecisionInv, Tick, UNCHANGED <<commandVars, shadowVars>>
    PROVE  DecisionInv'
<1>1. /\ UNCHANGED <<call, registry, backend, command, printed, runner, output>>
      /\ clock \in Nat /\ clock' = clock + 1
  BY DEF Tick, commandVars, shadowVars, DecisionInv, Shape
<1>2. clock' \in Nat /\ clock <= clock'
  BY <1>1
<1>3. Shape'
  BY <1>1, <1>2 DEF DecisionInv, Shape
<1>4. ASSUME NEW d \in Callers PROVE CallerOk(d)'
  <2>1. Still(d)
    BY <1>1 DEF Still
  <2> QED BY <1>1, <1>2, <2>1, StillOk DEF DecisionInv
<1> QED BY <1>3, <1>4 DEF DecisionInv

LEMMA DecisionKept == DecisionInv /\ [DecisionNext]_decisionVars => DecisionInv'
<1> SUFFICES ASSUME DecisionInv, [DecisionNext]_decisionVars PROVE DecisionInv'
  OBVIOUS
<1>1. CASE CommandNext
  BY <1>1, CommandStepsOk DEF CommandNext
<1>2. CASE RunnerNext
  BY <1>2, RunnerStepsOk DEF RunnerNext
<1>3. CASE World
  BY <1>3, ReplaceFileOk, TickOk DEF World
<1>4. CASE UNCHANGED decisionVars
  <2>1. UNCHANGED <<call, registry, backend, clock, command, printed, runner, output>>
    BY <1>4 DEF decisionVars, engineVars, commandVars, shadowVars
  <2> QED BY <2>1 DEF DecisionInv, Shape, CallerOk
<1> QED BY <1>1, <1>2, <1>3, <1>4 DEF DecisionNext

\* Every caller is always where its step says it is.
THEOREM DecisionsInvariant == DecisionSpec => []DecisionInv
<1> QED BY DecisionStarts, DecisionKept, PTL DEF DecisionSpec

-----------------------------------------------------------------------------
(* What commands print.                                                    *)

LEMMA PrintedFacts ==
    ASSUME DecisionInv, NEW c \in Commands, printed[c] # Nothing
    PROVE  LET k == call[c] IN
           /\ printed[c] = k.answers /\ k.request = command[c].request
           /\ backend[c].kind = command[c].lane /\ command[c].lane \in Kinds
           /\ Len(k.answers) = Len(k.request.questions)
           /\ DOMAIN k.answers = DOMAIN k.request.questions
           /\ \A i \in DOMAIN k.answers :
                /\ AnswerEarned(k.request.questions[i], command[c].lane, k.answers[i])
                /\ command[c].lane \in Compiled =>
                     /\ Calibrated(command[c].lane, k.answers[i], k.resolved[i])
                     /\ Genuine(k, registry[c], command[c].lane, clock, i)
<1> DEFINE k == call[c]
           lane == command[c].lane
<1>1. /\ CallOk(k, registry[c], backend[c].kind, clock)
      /\ CommandOk(command[c], k, backend[c], printed[c])
  BY CommandFacts
<1>2. /\ k.at = "answered" /\ printed[c] = k.answers /\ k.request = command[c].request
      /\ backend[c].kind = lane /\ lane \in Kinds
  BY <1>1 DEF CommandOk
<1>3. /\ Sequence(k.answers) /\ Sequence(k.request.questions) /\ Sequence(k.resolved)
      /\ Len(k.answers) = Len(k.request.questions)
      /\ lane \in Compiled => Len(k.resolved) = Len(k.request.questions)
      /\ \A i \in DOMAIN k.resolved : Genuine(k, registry[c], lane, clock, i)
      /\ \A i \in DOMAIN k.answers :
           /\ AnswerEarned(k.request.questions[i], lane, k.answers[i])
           /\ Calibrated(lane, k.answers[i], k.resolved[i])
  BY <1>1, <1>2 DEF CallOk, Listed
<1>4. DOMAIN k.answers = DOMAIN k.request.questions
      /\ (lane \in Compiled => DOMAIN k.resolved = DOMAIN k.answers)
  BY <1>3, SequenceFacts
<1> QED BY <1>2, <1>3, <1>4

\* What a command prints answers each question of its request once and in order
\* by a greatest weight of a distribution, and is calibrated only by the artifact of its question.
THEOREM AnswersAreEarned == DecisionSpec => []AnswersEarned
<1>1. DecisionInv => AnswersEarned
  <2> SUFFICES ASSUME DecisionInv, NEW c \in Commands, printed[c] # Nothing,
                      NEW i \in DOMAIN command[c].request.questions
               PROVE  LET a == printed[c][i]
                          q == command[c].request.questions[i]
                      IN  /\ a.question = q.id
                          /\ DOMAIN a.raw = Items(q.criteria)
                          /\ Lane(c) # "custom" => DOMAIN a.weights = DOMAIN a.raw
                          /\ a.value \in Best(a.weights)
                          /\ Lane(c) \in {"systemone"} \cup JuliaKinds => a.scale.made
                          /\ a.scale.made => IsDistribution(a.weights, a.scale.of)
                          /\ IF Lane(c) \in Universal
                             THEN a.abstained /\ a.calibration = Nothing
                             ELSE a.calibration.id = registry[c][q.id].id
    BY PrintedFacts DEF AnswersEarned
  <2> DEFINE a == printed[c][i]
             q == command[c].request.questions[i]
             lane == command[c].lane
  <2>1. /\ AnswerEarned(q, lane, a) /\ lane \in Kinds
        /\ lane \in Compiled =>
             /\ Calibrated(lane, a, call[c].resolved[i])
             /\ Genuine(call[c], registry[c], lane, clock, i)
        /\ q = call[c].request.questions[i]
    BY PrintedFacts
  <2>2. lane \in Universal <=> lane \notin Compiled
    BY <2>1 DEF Kinds, Universal, Compiled, JuliaKinds
  <2>3. lane \in Compiled => a.calibration.id = registry[c][q.id].id
    BY <2>1 DEF Calibrated, Genuine
  <2> HIDE DEF a, q
  <2>4. /\ a.question = q.id
        /\ DOMAIN a.raw = Items(q.criteria)
        /\ lane # "custom" => DOMAIN a.weights = DOMAIN a.raw
        /\ a.value \in Best(a.weights)
        /\ lane \in {"systemone"} \cup JuliaKinds => a.scale.made
        /\ a.scale.made => IsDistribution(a.weights, a.scale.of)
        /\ lane \notin Compiled => a.abstained /\ a.calibration = Nothing
    BY <2>1 DEF AnswerEarned
  <2> QED BY <2>2, <2>3, <2>4 DEF a, q, Lane
<1> QED BY <1>1, DecisionsInvariant, PTL

\* What is printed as calibrated was verified at some time of its decide call,
\* for the context of its request and model.
THEOREM CalibratedWasLive == DecisionSpec => []CalibratedWhileLive
<1>1. DecisionInv => CalibratedWhileLive
  <2> SUFFICES ASSUME DecisionInv, NEW c \in Commands, printed[c] # Nothing,
                      NEW i \in DOMAIN printed[c], printed[c][i].status = "calibrated"
               PROVE  LET r == command[c].request
                          a == registry[c][r.questions[i].id]
                      IN  /\ \E time \in call[c].entered .. clock : ResearchVerifies(a, time)
                          /\ a.context = ContextOf(r, r.questions[i], ModelOf(c), ProfileOf(c))
    BY DEF CalibratedWhileLive
  <2> DEFINE lane == command[c].lane
             k == call[c]
             q == k.request.questions[i]
  <2>1. /\ k.request = command[c].request /\ backend[c].kind = lane
        /\ AnswerEarned(q, lane, printed[c][i])
        /\ lane \in Compiled =>
             /\ Calibrated(lane, printed[c][i], k.resolved[i])
             /\ Genuine(k, registry[c], lane, clock, i)
    BY PrintedFacts
  <2>2. lane \in Compiled
    BY <2>1 DEF AnswerEarned
  <2>3. k.resolved[i].schema = 2 /\ k.resolved[i] = registry[c][q.id]
    BY <2>1, <2>2 DEF Calibrated, Genuine
  <2>4. ProfileIn(k, lane) = ProfileOf(c) /\ Models[lane] = ModelOf(c)
    BY <2>1 DEF ProfileIn, ProfileOf, ModelOf, KindOf
  <2>5. /\ \E time \in k.entered .. clock : ResearchVerifies(registry[c][q.id], time)
        /\ registry[c][q.id].context = ContextOf(k.request, q, Models[lane], ProfileIn(k, lane))
    BY <2>1, <2>2, <2>3 DEF Genuine
  <2> HIDE DEF lane
  <2> QED BY <2>1, <2>4, <2>5
<1> QED BY <1>1, DecisionsInvariant, PTL

\* Every backend but Julia answers from the bytes that were verified.
THEOREM VerifiedBytesScore == DecisionSpec => []ScoredByVerified
<1>1. DecisionInv => ScoredByVerified
  BY DEF DecisionInv, CallerOk, LoadedOk, ScoredByVerified, KindOf
<1> QED BY <1>1, DecisionsInvariant, PTL

-----------------------------------------------------------------------------
(* Backends of runners, and the slot of the resident model.                *)

InUse == {"open", "asking", "closing"}

\* The backend of a runner whose step this is.
Own(step, b) ==
    /\ step \in {"policy", "items", "capsule", "enter"} => b.opened = 0 /\ b.closed = 0
    /\ step \in {"preparing"} \cup InUse => b.opened = 1 /\ b.closed = 0
    /\ step \in Closed => b.closed = b.opened

HeldOk ==
    \A c \in Runners :
        /\ Own(runner[c].step, backend[c])
        /\ slot = c => runner[c].step \in InUse

\* Runner c goes to a step, and no other runner goes anywhere.
Steps(c, step) ==
    /\ runner'[c].step = step
    /\ \A d \in Runners : d # c => runner'[d].step = runner[d].step

LEMMA HeldStep ==
    ASSUME HeldOk, NEW c \in Runners, NEW step, Steps(c, step),
           NEW b, Puts(backend, backend', c, b), Runners \subseteq DOMAIN backend,
           Own(step, b), slot' \in {slot, c, Nothing}, slot' = c => step \in InUse
    PROVE  HeldOk'
<1> SUFFICES ASSUME NEW d \in Runners
             PROVE  Own(runner'[d].step, backend'[d]) /\ (slot' = d => runner'[d].step \in InUse)
  BY DEF HeldOk, Own
<1>1. CASE d = c
  BY <1>1 DEF Steps, Puts
<1>2. CASE d # c
  <2>1. runner'[d].step = runner[d].step /\ backend'[d] = backend[d]
    BY <1>2 DEF Steps, Puts
  <2>2. slot' = d => slot = d
    BY <1>2, ShadowAssumption
  <2> QED BY <2>1, <2>2 DEF HeldOk
<1> QED BY <1>1, <1>2

LEMMA StepFacts ==
    ASSUME DecisionInv, NEW c \in Runners, NEW step,
           Into(c, step) \/ \E index : FailAt(c, index, step)
    PROVE  Steps(c, step)
<1>1. DOMAIN runner = Runners /\ DOMAIN runner[c] = RunnerFields
  BY RunnerFacts DEF Shape
<1>2. CASE Into(c, step)
  BY <1>1, <1>2 DEF Into, Steps, RunnerFields
<1>3. ASSUME NEW index, FailAt(c, index, step)
      PROVE  Steps(c, step)
  BY <1>1, <1>3 DEF FailAt, Steps, RunnerFields
<1> QED BY <1>2, <1>3

\* A runner that goes on with the backend it has.
LEMMA HeldGoes ==
    ASSUME DecisionInv, HeldOk, NEW c \in Runners, NEW step, Steps(c, step),
           UNCHANGED <<backend, slot>>, Own(step, backend[c]),
           slot = c => step \in InUse
    PROVE  HeldOk'
<1>1. Puts(backend, backend', c, backend[c]) /\ Runners \subseteq DOMAIN backend
  BY PutsFacts, ShadowAssumption DEF DecisionInv, Shape
<1> QED BY <1>1, HeldStep

LEMMA RunnersHold ==
    ASSUME DecisionInv, HeldOk, NEW c \in Runners, RunnerStep(c)
    PROVE  HeldOk'
<1>1. /\ DOMAIN backend = Callers /\ c \in DOMAIN backend /\ Runners \subseteq DOMAIN backend
      /\ DOMAIN backend[c] = BackendFields
      /\ DOMAIN runner = Runners /\ DOMAIN runner[c] = RunnerFields
      /\ Own(runner[c].step, backend[c]) /\ (slot = c => runner[c].step \in InUse)
  BY RunnerFacts, ShadowAssumption DEF Shape, HeldOk
<1>2. CASE LoadPolicy(c) \/ VerifyBinding(c)
  <2>1. PICK step \in {"items", "enter", "failed"} : Into(c, step)
    BY <1>2 DEF LoadPolicy, VerifyBinding
  <2>2. UNCHANGED <<backend, slot>> /\ runner[c].step \in {"policy", "capsule"}
    BY <1>2 DEF LoadPolicy, VerifyBinding, Is, engineVars
  <2>3. Own(step, backend[c]) /\ slot # c
    BY <1>1, <2>2 DEF Own, Closed, InUse
  <2> QED BY <2>1, <2>2, <2>3, StepFacts, HeldGoes
<1>3. CASE ReadItem(c)
  <2>1. UNCHANGED <<backend, slot>> /\ runner[c].step = "items"
    BY <1>3 DEF ReadItem, Is, engineVars
  <2>2. \E step \in {"items", "capsule", "failed"} : Steps(c, step)
    <3>1. CASE \E step \in {"capsule", "failed"} :
                  Into(c, step) \/ \E index : FailAt(c, index, step)
      BY <3>1, StepFacts
    <3>2. CASE \E more : runner' = [runner EXCEPT ![c].items = more]
      BY <1>1, <2>1, <3>2 DEF Steps, RunnerFields
    <3> QED BY <1>3, <3>1, <3>2 DEF ReadItem
  <2>3. PICK step \in {"items", "capsule", "failed"} : Steps(c, step)
    BY <2>2
  <2>4. Own(step, backend[c]) /\ slot # c
    BY <1>1, <2>1 DEF Own, Closed, InUse
  <2> QED BY <2>1, <2>3, <2>4, HeldGoes
<1>4. CASE OpenBackend(c)
  <2>1. runner[c].step = "enter" /\ slot' = slot /\ slot # c
        /\ backend[c].opened = 0 /\ backend[c].closed = 0
    BY <1>1, <1>4 DEF OpenBackend, Is, Own, InUse
  <2>2. CASE runner[c].args /\ PolicyClosed(Policy(c))
    <3> DEFINE b == [kind |-> "saracura", verified |-> "pinned", loaded |-> Nothing,
                     open |-> TRUE, opened |-> backend[c].opened + 1,
                     closed |-> backend[c].closed]
    <3>1. backend' = [backend EXCEPT ![c] = b] /\ Into(c, "preparing")
      BY <1>4, <2>2 DEF OpenBackend
    <3>2. Own("preparing", b)
      BY <2>1 DEF Own, Closed, InUse
    <3> HIDE DEF b
    <3>3. Puts(backend, backend', c, b) /\ Steps(c, "preparing")
      BY <1>1, <3>1, PutsFacts, StepFacts
    <3> QED BY <1>1, <2>1, <3>2, <3>3, HeldStep
  <2>3. CASE ~(runner[c].args /\ PolicyClosed(Policy(c)))
    <3> DEFINE step == IF Source(c) = "library" THEN "closed" ELSE "failed"
    <3>1. backend' = backend /\ FailAt(c, 1, step)
      BY <1>4, <2>3 DEF OpenBackend
    <3>2. Own(step, backend[c])
      BY <2>1 DEF Own, Closed, InUse
    <3> HIDE DEF step
    <3> QED BY <2>1, <3>1, <3>2, StepFacts, HeldGoes
  <2> QED BY <2>2, <2>3
<1>5. CASE PrepareBackend(c)
  <2> DEFINE content == IF Preparable(c) THEN backend[c].verified ELSE Nothing
             b == [backend[c] EXCEPT !.loaded = content]
  <2>1. /\ runner[c].step = "preparing" /\ slot # c
        /\ slot' \in {slot, c} /\ backend' = [backend EXCEPT ![c] = b]
    BY <1>1, <1>5 DEF PrepareBackend, Is, InUse
  <2>2. PICK step \in {"open", "closing"} : Steps(c, step)
    BY <1>5, StepFacts DEF PrepareBackend
  <2>3. b.opened = backend[c].opened /\ b.closed = backend[c].closed
    BY <1>1 DEF BackendFields
  <2> HIDE DEF b
  <2>4. Own(step, b) /\ step \in InUse
    BY <1>1, <2>1, <2>3 DEF Own, Closed, InUse
  <2>5. Puts(backend, backend', c, b)
    BY <1>1, <2>1, PutsFacts
  <2> QED BY <1>1, <2>1, <2>2, <2>4, <2>5, HeldStep
<1>6. CASE DecideItem(c)
  <2>1. UNCHANGED <<backend, slot>> /\ runner[c].step = "open"
    BY <1>6 DEF DecideItem, Is
  <2>2. Steps(c, "asking")
    BY <1>1, <1>6 DEF DecideItem, Steps, RunnerFields
  <2>3. Own("asking", backend[c]) /\ "asking" \in InUse
    BY <1>1, <2>1 DEF Own, Closed, InUse
  <2> QED BY <2>1, <2>2, <2>3, HeldGoes
<1>7. CASE Asking(c)
  <2>1. runner' = runner /\ slot' = slot
    BY <1>7 DEF Asking, shadowVars
  <2>2. Steps(c, runner[c].step)
    BY <2>1 DEF Steps
  <2>3. CASE backend' = backend
    BY <1>1, <2>1, <2>2, <2>3, HeldGoes
  <2>4. CASE backend' = [backend EXCEPT ![c].loaded = backend[c].loaded]
    <3> DEFINE b == [backend[c] EXCEPT !.loaded = backend[c].loaded]
    <3>1. backend' = [backend EXCEPT ![c] = b]
      BY <2>4
    <3>2. b.opened = backend[c].opened /\ b.closed = backend[c].closed
      BY <1>1 DEF BackendFields
    <3> HIDE DEF b
    <3>3. Own(runner[c].step, b) /\ Puts(backend, backend', c, b)
      BY <1>1, <3>1, <3>2, PutsFacts DEF Own
    <3> QED BY <1>1, <2>1, <2>2, <3>3, HeldStep
  <2> QED BY <1>7, <2>3, <2>4 DEF Asking, Check, Score, Unavailable
<1>8. CASE Project(c)
  <2>1. UNCHANGED <<backend, slot>> /\ runner[c].step = "asking"
    BY <1>8 DEF Project, Is
  <2>2. \E step \in {"open", "closing"} : Steps(c, step)
    <3>1. CASE \E more : \E step \in {"open", "closing"} :
                  runner' = [runner EXCEPT ![c].records = more, ![c].step = step]
      BY <1>1, <3>1 DEF Steps, RunnerFields
    <3>2. CASE Fails(c)
      BY <3>2, StepFacts DEF Fails
    <3> QED BY <1>8, <3>1, <3>2 DEF Project
  <2>3. PICK step \in {"open", "closing"} : Steps(c, step)
    BY <2>2
  <2>4. Own(step, backend[c]) /\ step \in InUse
    BY <1>1, <2>1 DEF Own, Closed, InUse
  <2> QED BY <2>1, <2>3, <2>4, HeldGoes
<1>9. CASE CloseRunner(c)
  <2> DEFINE b == [backend[c] EXCEPT !.open = FALSE, !.closed = @ + 1, !.loaded = Nothing]
  <2>1. /\ runner[c].step \in {"closing", "open"} /\ slot' \in {slot, Nothing}
        /\ slot' # c /\ backend' = [backend EXCEPT ![c] = b]
    BY <1>9, ShadowAssumption DEF CloseRunner, Is
  <2>2. Steps(c, Ended(c)) /\ Ended(c) \in Closed
    BY <1>9, StepFacts DEF CloseRunner, Ended, Closed
  <2>3. b.opened = backend[c].opened /\ b.closed = backend[c].closed + 1
    BY <1>1 DEF BackendFields
  <2> HIDE DEF b
  <2>4. b.closed = b.opened
    BY <1>1, <2>1, <2>3 DEF Own, InUse
  <2>5. Own(Ended(c), b)
    BY <2>2, <2>4 DEF Own, Closed, InUse
  <2>6. Puts(backend, backend', c, b)
    BY <1>1, <2>1, PutsFacts
  <2> QED BY <1>1, <2>1, <2>2, <2>5, <2>6, HeldStep
<1>10. CASE Write(c) \/ Evaluate(c)
  <2>1. /\ UNCHANGED <<backend, slot>> /\ runner[c].step \in {"output", "written"}
    BY <1>10 DEF Write, Evaluate, Is, engineVars
  <2>2. PICK step \in {"written", "evaluated"} : Into(c, step)
    BY <1>10 DEF Write, Evaluate
  <2>3. Own(step, backend[c]) /\ slot # c
    BY <1>1, <2>1 DEF Own, Closed, InUse
  <2> QED BY <2>1, <2>2, <2>3, StepFacts, HeldGoes
<1> QED BY <1>2, <1>3, <1>4, <1>5, <1>6, <1>7, <1>8, <1>9, <1>10 DEF RunnerStep

\* The backend of a caller is its own.
LEMMA CommandsLeave ==
    ASSUME DOMAIN backend = Callers, NEW c \in Commands, CommandStep(c)
    PROVE  \A d \in Callers : d # c => backend'[d] = backend[d]
<1>1. CASE ReadRequest(c) \/ VerifyTrainingCapsule(c) \/ CheckContext(c) \/ Respond(c)
           \/ GiveUp(c) \/ CreateIdentity(c)
  BY <1>1 DEF ReadRequest, VerifyTrainingCapsule, CheckContext, Respond, GiveUp, CreateIdentity,
              engineVars
<1>2. CASE ReadEnvelope(c) \/ Decide(c)
  BY <1>2 DEF ReadEnvelope, Decide
<1>3. CASE Construct(c) \/ Embed(c) \/ Describe(c)
  BY <1>3 DEF Construct, Embed, Describe, Open
<1>4. CASE Close(c) \/ Prepare(c)
  BY <1>4 DEF Close, Prepare
<1>5. CASE Deciding(c)
  BY <1>5 DEF Deciding, DecideStep, Check, Resolve, Encode, Score
<1> QED BY <1>1, <1>2, <1>3, <1>4, <1>5 DEF CommandStep

LEMMA HeldKept == DecisionInv /\ HeldOk /\ [DecisionNext]_decisionVars => HeldOk'
<1> SUFFICES ASSUME DecisionInv, HeldOk, [DecisionNext]_decisionVars PROVE HeldOk'
  OBVIOUS
<1>1. CASE RunnerNext
  BY <1>1, RunnersHold DEF RunnerNext
<1>2. CASE CommandNext
  <2>1. PICK c \in Commands : CommandStep(c) /\ UNCHANGED shadowVars
    BY <1>2 DEF CommandNext
  <2>2. \A d \in Runners : backend'[d] = backend[d] /\ runner' = runner /\ slot' = slot
    BY <2>1, CommandsLeave, ShadowAssumption DEF DecisionInv, Shape, shadowVars
  <2> QED BY <2>2 DEF HeldOk, Own
<1>3. CASE World \/ UNCHANGED decisionVars
  <2>1. UNCHANGED <<backend, runner, slot>>
    BY <1>3 DEF World, ReplaceFile, Tick, decisionVars, engineVars, shadowVars
  <2> QED BY <2>1 DEF HeldOk, Own
<1> QED BY <1>1, <1>2, <1>3 DEF DecisionNext

LEMMA HeldStarts == DecisionInit => HeldOk
<1> SUFFICES ASSUME NEW s \in Scenarios,
                    InitEngine([c \in Callers |-> <<>>]), InitShadow(s.runners),
                    NEW c \in Runners
             PROVE  Own(runner[c].step, backend[c]) /\ slot # c
  BY DEF DecisionInit, HeldOk
<1>1. backend[c].opened = 0 /\ backend[c].closed = 0
  BY ShadowAssumption DEF InitEngine, NoBackend
<1>2. runner[c].step \in {"enter", "policy"} /\ slot # c
  BY ShadowAssumption DEF InitShadow
<1> QED BY <1>1, <1>2 DEF Own, Closed, InUse

LEMMA BackendsHeld == DecisionSpec => []HeldOk
<1> QED BY HeldStarts, HeldKept, DecisionsInvariant, PTL DEF DecisionSpec

\* A batch of shadow-decide is written whole or not at all, after all of its
\* input was validated, what it wrote is fit for evaluation, and a runner that
\* ended has closed the backend it opened and given the slot back.
THEOREM BatchesWhole == DecisionSpec => []ShadowWhole
<1>1. HeldOk => \A c \in Runners :
                   /\ runner[c].step \in Closed => backend[c].closed = backend[c].opened
                   /\ slot = c => runner[c].step \in {"open", "asking", "closing"}
  BY DEF HeldOk, Own, InUse
<1>2. DecisionInv => \A c \in Runners : Source(c) = "command" =>
        /\ backend[c].opened > 0 => runner[c].items = runner[c].input
        /\ output[c] # Nothing =>
              /\ [i \in DOMAIN output[c] |-> output[c][i].ref]
                    = [i \in DOMAIN runner[c].input |-> runner[c].input[i].ref]
              /\ DecisionsLegal(Policy(c), output[c])
        /\ Is(c, "failed") => output[c] = Nothing
  <2> SUFFICES ASSUME DecisionInv, NEW c \in Runners, Source(c) = "command"
               PROVE  /\ backend[c].opened > 0 => runner[c].items = runner[c].input
                      /\ output[c] # Nothing =>
                            /\ [i \in DOMAIN output[c] |-> output[c][i].ref]
                                  = [i \in DOMAIN runner[c].input |-> runner[c].input[i].ref]
                            /\ DecisionsLegal(Policy(c), output[c])
                      /\ Is(c, "failed") => output[c] = Nothing
    OBVIOUS
  <2> DEFINE g == runner[c]
             p == g.policy
             ds == g.records
  <2>1. RunnerOk(g, call[c], backend[c], output[c]) /\ BatchOk(g, backend[c], output[c])
    BY RunnerFacts DEF RunnerOk, Source
  <2>2. /\ backend[c].opened > 0 => g.items = g.input
        /\ Is(c, "failed") => output[c] = Nothing
    BY <2>1 DEF BatchOk, Is
  <2>3. ASSUME output[c] # Nothing
        PROVE  /\ [i \in DOMAIN output[c] |-> output[c][i].ref]
                     = [i \in DOMAIN g.input |-> g.input[i].ref]
               /\ DecisionsLegal(p, output[c])
    <3>1. output[c] = ds /\ g.items = g.input /\ Len(ds) = Len(g.items)
          /\ \A i \in DOMAIN ds : Proper(p, g.items[i], ds[i])
      BY <2>1, <2>3 DEF BatchOk
    <3>2. /\ DOMAIN ds = DOMAIN g.items /\ DOMAIN ds = 1 .. Len(ds) /\ Len(ds) \in Nat
          /\ \A i, j \in DOMAIN g.items : g.items[i].ref = g.items[j].ref => i = j
      BY <2>1, <3>1, SequenceFacts DEF RunnerOk
    <3> HIDE DEF p, ds, g
    <3>3. \A i \in DOMAIN ds :
             /\ ds[i].ref = g.items[i].ref
             /\ ds[i].policy = PolicyDigest(p)
             /\ ds[i].model = Models["saracura"] /\ ds[i].model.revision = p.model
             /\ RecordClosed(ds[i])
             /\ Items(ds[i].ranking) = Items(p.question.criteria)
             /\ Len(ds[i].ranking) = Cardinality(Items(p.question.criteria))
             /\ Sorted(p, ds[i].weights, ds[i].ranking)
      BY <3>1 DEF Proper
    <3>4. [i \in DOMAIN ds |-> ds[i].ref] = [i \in DOMAIN g.input |-> g.input[i].ref]
      BY <3>1, <3>2, <3>3
    <3>5. \A i \in DOMAIN ds : ds[i].model = ds[1].model
      <4> TAKE i \in DOMAIN ds
      <4>1. 1 \in DOMAIN ds
        BY <3>2
      <4> QED BY <3>3, <4>1
    <3>6. DecisionsLegal(p, ds)
      BY <3>2, <3>3, <3>5 DEF DecisionsLegal
    <3> QED BY <3>1, <3>4, <3>6
  <2> QED BY <2>2, <2>3 DEF Policy
<1>3. DecisionInv /\ HeldOk => ShadowWhole
  BY <1>1, <1>2 DEF ShadowWhole
<1> QED BY <1>3, DecisionsInvariant, BackendsHeld, PTL
=============================================================================
