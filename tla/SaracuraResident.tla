-------------------------- MODULE SaracuraResident --------------------------
(***************************************************************************)
(* SaracuraUniversalBackend: prepare, score_universal_choice and close of  *)
(* its instances, which share one resident slot per process and restore    *)
(* torch's thread count when they release their model.                     *)
(***************************************************************************)
EXTENDS BackendCalls

CONSTANT Saracura       \* the SaracuraUniversalBackend instances

ASSUME SaracuraAssumption == Saracura \subseteq Backends

VARIABLES
    sar,            \* the attributes of each instance
    sarSlot,        \* _MODEL_RESIDENT of saracura_universal.py
    refused         \* history: the instances that found the slot taken

sarVars == <<sar, sarSlot, refused>>

\* What _initialize leaves: nothing read, both paths known.
Constructed ==
    [closed |-> FALSE, prepared |-> FALSE, owns |-> FALSE, prior |-> Unset,
     torch |-> FALSE, encoder |-> FALSE, ranker |-> FALSE,
     capsule |-> FALSE, path |-> TRUE, snapshot |-> FALSE]

InitSaracura ==
    /\ sar = [b \in Saracura |-> Constructed]
    /\ sarSlot = FALSE
    /\ refused = {}

\* The thread is at step s of a call on a Saracura backend.
SaracuraAt(t, s) == at[t] = s /\ on[t] \in Saracura

Mine(t) == sar[on[t]]

Set(t, new) == sar' = [sar EXCEPT ![on[t]] = new]

\* The capsule's files are the approved candidate's.
CapsuleVerifies(b) == defect[b] # "capsule"

\* Configuration, special tokens, tensors and tokenizer are the reviewed ones.
EncoderFits(b) == defect[b] # "encoder"

\* The conformance vectors are well formed and the ranker reproduces them.
RankerConforms(b) == defect[b] # "ranker"

\* Where a prepared backend takes the call: prepare returns, score goes on.
AfterPrepare(t) == IF op[t] = "score" THEN "score" ELSE "idle"

-----------------------------------------------------------------------------

\* prepare: a closed backend refuses, a prepared one has nothing to do.
EnterPrepare(t) ==
    /\ SaracuraAt(t, "enter") /\ op[t] # "close"
    /\ \/ Mine(t).closed /\ Bounce(t)
       \/ /\ ~Mine(t).closed /\ Mine(t).prepared
          /\ IF op[t] = "score"
             THEN /\ holder[on[t]] = Nobody
                  /\ Goto(t, "score")
             ELSE Bounce(t)
       \/ ~Mine(t).closed /\ ~Mine(t).prepared /\ Lock(t, "capsule")
    /\ UNCHANGED <<sarVars, kept, cpu, defect>>

\* The capsule is read once and kept as verified bytes, also for a retry.
VerifyCapsule(t) ==
    /\ SaracuraAt(t, "capsule")
    /\ IF ~Mine(t).capsule /\ ~CapsuleVerifies(on[t])
       THEN Goto(t, "freeSlot") /\ UNCHANGED sar
       ELSE Goto(t, "snapshot") /\ Set(t, [Mine(t) EXCEPT !.capsule = TRUE])
    /\ UNCHANGED <<sarSlot, refused, kept, cpu, defect>>

\* A verified encoder snapshot consumes its path.
VerifySnapshot(t) ==
    /\ SaracuraAt(t, "snapshot")
    /\ IF ~Mine(t).path \/ defect[on[t]] = "snapshot"
       THEN Goto(t, "freeSlot") /\ UNCHANGED sar
       ELSE /\ Goto(t, "takeSlot")
            /\ Set(t, [Mine(t) EXCEPT !.snapshot = TRUE, !.path = FALSE])
    /\ UNCHANGED <<sarSlot, refused, kept, cpu, defect>>

\* One model per process: the slot is taken under its own lock, or refused.
TakeSlot(t) ==
    /\ SaracuraAt(t, "takeSlot")
    /\ \/ /\ sarSlot
          /\ refused' = refused \cup {on[t]}
          /\ Goto(t, "freeSlot")
          /\ UNCHANGED <<sar, sarSlot>>
       \/ /\ ~sarSlot
          /\ sarSlot' = TRUE
          /\ Set(t, [Mine(t) EXCEPT !.owns = TRUE])
          /\ Goto(t, "runtime")
          /\ UNCHANGED refused
    /\ UNCHANGED <<kept, cpu, defect>>

\* torch is imported, the device is there; the prior thread count is read ...
LoadRuntime(t) ==
    /\ SaracuraAt(t, "runtime")
    /\ IF defect[on[t]] = "runtime"
       THEN Goto(t, "freeSlot") /\ UNCHANGED sar
       ELSE /\ Goto(t, "setThreads")
            /\ Set(t, [Mine(t) EXCEPT !.torch = TRUE, !.prior = cpu])
    /\ UNCHANGED <<sarSlot, refused, kept, cpu, defect>>

\* ... and the backend's own count set.
SetThreads(t) ==
    /\ SaracuraAt(t, "setThreads")
    /\ cpu' = CpuThreads[on[t]]
    /\ Goto(t, "encoder")
    /\ UNCHANGED <<sarVars, kept, defect>>

\* Configuration, weights and tokenizer are built from the snapshot's bytes.
LoadEncoder(t) ==
    /\ SaracuraAt(t, "encoder")
    /\ IF ~Mine(t).snapshot \/ ~EncoderFits(on[t])
       THEN Goto(t, "freeSlot") /\ UNCHANGED sar
       ELSE Goto(t, "ranker") /\ Set(t, [Mine(t) EXCEPT !.encoder = TRUE])
    /\ UNCHANGED <<sarSlot, refused, kept, cpu, defect>>

\* The ranker is built and reproduces the conformance vectors: prepared.
LoadRanker(t) ==
    /\ SaracuraAt(t, "ranker")
    /\ IF ~Mine(t).capsule \/ ~Mine(t).torch \/ ~RankerConforms(on[t])
       THEN /\ Goto(t, "freeSlot")
            /\ Set(t, [Mine(t) EXCEPT !.ranker = TRUE])
       ELSE /\ Unlock(t, AfterPrepare(t))
            /\ Set(t, [Mine(t) EXCEPT !.ranker = TRUE, !.prepared = TRUE])
    /\ UNCHANGED <<sarSlot, refused, kept, cpu, defect>>

\* close: only the first call does anything.
EnterClose(t) ==
    /\ SaracuraAt(t, "enter") /\ op[t] = "close"
    /\ \/ Mine(t).closed /\ Bounce(t) /\ UNCHANGED sar
       \/ /\ ~Mine(t).closed
          /\ Lock(t, "freeSlot")
          /\ Set(t, [Mine(t) EXCEPT !.closed = TRUE])
    /\ UNCHANGED <<sarSlot, refused, kept, cpu, defect>>

Released(state) ==
    [state EXCEPT !.encoder = FALSE, !.ranker = FALSE, !.torch = FALSE,
                  !.prepared = FALSE, !.prior = Unset, !.owns = FALSE]

\* (mutant) the slot is given back without asking whose it is
FreeSlotUnowned(t) ==
    /\ SaracuraAt(t, "freeSlot")
    /\ kept' = [kept EXCEPT ![t] = IF Mine(t).torch THEN Mine(t).prior ELSE Unset]
    /\ Set(t, Released(Mine(t)))
    /\ sarSlot' = FALSE
    /\ Goto(t, "restore")
    /\ UNCHANGED <<refused, cpu, defect>>

\* _release_loaded_state drops the components and frees the slot it owns ...
FreeSlot(t) ==
    /\ SaracuraAt(t, "freeSlot")
    /\ kept' = [kept EXCEPT ![t] = IF Mine(t).torch THEN Mine(t).prior ELSE Unset]
    /\ Set(t, Released(Mine(t)))
    /\ sarSlot' = (sarSlot /\ ~Mine(t).owns)
    /\ Goto(t, "restore")
    /\ UNCHANGED <<refused, cpu, defect>>

\* What close forgets besides the loaded state.
Emptied(state) ==
    [state EXCEPT !.capsule = FALSE, !.snapshot = FALSE, !.path = FALSE]

\* ... and only then restores the thread count it found; the call returns or
\* raises.
RestoreThreads(t) ==
    /\ SaracuraAt(t, "restore")
    /\ cpu' = IF kept[t] # Unset THEN kept[t] ELSE cpu
    /\ kept' = [kept EXCEPT ![t] = Unset]
    /\ sar' = IF op[t] = "close"
              THEN [sar EXCEPT ![on[t]] = Emptied(@)] ELSE sar
    /\ Unlock(t, "idle")
    /\ UNCHANGED <<sarSlot, refused, defect>>

\* (mutant) what prepare left is taken to be there still
EnterScoreUnlooked(t) ==
    /\ SaracuraAt(t, "score")
    /\ Lock(t, "tokenize")
    /\ UNCHANGED <<sarVars, kept, cpu, defect>>

\* score_universal_choice: the lock is taken again, and the backend may have
\* been closed since it was prepared.
EnterScore(t) ==
    /\ SaracuraAt(t, "score")
    /\ IF Mine(t).ranker /\ Mine(t).torch /\ Mine(t).encoder
       THEN Lock(t, "tokenize")
       ELSE Bounce(t)
    /\ UNCHANGED <<sarVars, kept, cpu, defect>>

\* The rendered context and criteria are tokenized together; what exceeds the
\* capacity is refused.
TokenizeJoint(t) ==
    /\ SaracuraAt(t, "tokenize")
    /\ Goto(t, "infer") \/ Unlock(t, "idle")
    /\ UNCHANGED <<sarVars, kept, cpu, defect>>

\* One forward pass; a non-finite or misshapen output raises.
Infer(t) ==
    /\ SaracuraAt(t, "infer")
    /\ Unlock(t, "idle")
    /\ UNCHANGED <<sarVars, kept, cpu, defect>>

SaracuraStep(t) ==
    \/ EnterPrepare(t) \/ VerifyCapsule(t) \/ VerifySnapshot(t)
    \/ TakeSlot(t) \/ LoadRuntime(t) \/ SetThreads(t) \/ LoadEncoder(t)
    \/ LoadRanker(t) \/ EnterClose(t) \/ FreeSlot(t) \/ RestoreThreads(t)
    \/ EnterScore(t) \/ TokenizeJoint(t) \/ Infer(t)

-----------------------------------------------------------------------------

SaracuraSteps ==
    {"capsule", "snapshot", "takeSlot", "runtime", "setThreads", "encoder",
     "ranker", "freeSlot", "restore", "tokenize", "infer"}

Attributes ==
    [closed : BOOLEAN, prepared : BOOLEAN, owns : BOOLEAN,
     prior : Nat \cup {Unset}, torch : BOOLEAN, encoder : BOOLEAN,
     ranker : BOOLEAN, capsule : BOOLEAN, path : BOOLEAN, snapshot : BOOLEAN]

SaracuraTypeOK ==
    /\ sar \in [Saracura -> Attributes]
    /\ sarSlot \in BOOLEAN
    /\ refused \subseteq Saracura
=============================================================================
