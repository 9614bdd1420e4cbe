---------------------------- MODULE LayaResident ----------------------------
(***************************************************************************)
(* LayaUniversalBackend: prepare, score_universal_choice and close of its  *)
(* instances.  The verified snapshot and tokenizer are kept apart from the *)
(* resident model, so that a refused load may be tried again.              *)
(***************************************************************************)
EXTENDS BackendCalls

CONSTANT Laya           \* the LayaUniversalBackend instances

ASSUME LayaAssumption == Laya \subseteq Backends

VARIABLES
    laya,           \* the attributes of each instance
    layaSlot,       \* _MODEL_RESIDENT of laya.py
    lost            \* history: a load ended in an error that is not listed

layaVars == <<laya, layaSlot, lost>>

InitLaya ==
    /\ laya = [b \in Laya |-> [closed |-> FALSE, receipt |-> FALSE, loaded |-> FALSE]]
    /\ layaSlot = FALSE
    /\ lost = FALSE

LayaAt(t, s) == at[t] = s /\ on[t] \in Laya

Its(t) == laya[on[t]]

\* The verified tokenizer graph has the structural tokens.
TokenizerFits(b) == defect[b] # "tokenizer"

\* The tensors of the open descriptor are those of the model.
WeightsFit(b) == defect[b] # "weights"

\* The installed libraries build the module from the closed configuration.
ModelBuilds(b) == defect[b] # "unlisted"

-----------------------------------------------------------------------------

\* prepare and score under one lock: a closed backend refuses; what is loaded
\* already is not loaded again.
EnterLaya(t) ==
    /\ LayaAt(t, "enter") /\ op[t] # "close"
    /\ \/ Its(t).closed /\ Bounce(t)
       \/ /\ ~Its(t).closed
          /\ \/ ~Its(t).receipt /\ Lock(t, "tokenizer")
             \/ Its(t).receipt /\ ~Its(t).loaded /\ Lock(t, "layaSlot")
             \/ Its(t).loaded /\ op[t] = "score" /\ Lock(t, "layaInfer")
             \/ Its(t).loaded /\ op[t] = "prepare" /\ Bounce(t)
    /\ UNCHANGED <<layaVars, kept, cpu, defect>>

\* (mutant) a snapshot that fails verification leaves the lock held
LoadTokenizerStuck(t) ==
    /\ LayaAt(t, "tokenizer")
    /\ IF ~TokenizerFits(on[t])
       THEN /\ at' = [at EXCEPT ![t] = "idle"]
            /\ Leave(t)
            /\ UNCHANGED <<left, holder, laya>>
       ELSE /\ Goto(t, "layaSlot")
            /\ laya' = [laya EXCEPT ![on[t]].receipt = TRUE]
    /\ UNCHANGED <<layaSlot, lost, kept, cpu, defect>>

\* The snapshot is verified and its tokenizer built; the receipt keeps its
\* descriptors open, and is closed when that fails.
LoadTokenizer(t) ==
    /\ LayaAt(t, "tokenizer")
    /\ IF ~TokenizerFits(on[t])
       THEN Unlock(t, "idle") /\ UNCHANGED laya
       ELSE /\ Goto(t, "layaSlot")
            /\ laya' = [laya EXCEPT ![on[t]].receipt = TRUE]
    /\ UNCHANGED <<layaSlot, lost, kept, cpu, defect>>

TakeLayaSlot(t) ==
    /\ LayaAt(t, "layaSlot")
    /\ IF layaSlot
       THEN Unlock(t, "idle") /\ UNCHANGED layaSlot
       ELSE Goto(t, "layaThreads") /\ layaSlot' = TRUE
    /\ UNCHANGED <<laya, lost, kept, cpu, defect>>

\* The rendered question does not fit: a score call ends before any load.
RefuseRendering(t) ==
    /\ LayaAt(t, "layaSlot") /\ op[t] = "score"
    /\ Unlock(t, "idle")
    /\ UNCHANGED <<layaVars, kept, cpu, defect>>

\* The device, memory and disk suffice, or the load is refused; the thread
\* count is set, and never restored.
Preflight(t) ==
    /\ LayaAt(t, "layaThreads")
    /\ \/ Goto(t, "giveBack") /\ UNCHANGED cpu
       \/ Goto(t, "weights") /\ cpu' = CpuThreads[on[t]]
    /\ UNCHANGED <<layaVars, kept, defect>>

\* The module is built and its weights copied from the open descriptor.  Four
\* kinds of error give the slot back; any other one leaves it taken.
LoadWeights(t) ==
    /\ LayaAt(t, "weights")
    /\ \/ /\ ~ModelBuilds(on[t])
          /\ Unlock(t, "idle")
          /\ lost' = TRUE
          /\ UNCHANGED laya
       \/ /\ ModelBuilds(on[t]) /\ ~WeightsFit(on[t])
          /\ Goto(t, "giveBack")
          /\ UNCHANGED <<laya, lost>>
       \/ /\ ModelBuilds(on[t]) /\ WeightsFit(on[t])
          /\ laya' = [laya EXCEPT ![on[t]].loaded = TRUE]
          /\ IF op[t] = "score" THEN Goto(t, "layaInfer") ELSE Unlock(t, "idle")
          /\ UNCHANGED lost
    /\ UNCHANGED <<layaSlot, kept, cpu, defect>>

\* The slot is free again.
GiveBack(t) ==
    /\ LayaAt(t, "giveBack")
    /\ layaSlot' = FALSE
    /\ Unlock(t, "idle")
    /\ UNCHANGED <<laya, lost, kept, cpu, defect>>

\* The descriptors are live before and after one forward pass.
InferLaya(t) ==
    /\ LayaAt(t, "layaInfer")
    /\ Unlock(t, "idle")
    /\ UNCHANGED <<layaVars, kept, cpu, defect>>

\* close: the receipt and the model are dropped, then the slot of a loaded
\* model is given back.
CloseLaya(t) ==
    /\ LayaAt(t, "enter") /\ op[t] = "close"
    /\ laya' = [laya EXCEPT ![on[t]] =
                  [closed |-> TRUE, receipt |-> FALSE, loaded |-> FALSE]]
    /\ IF Its(t).loaded THEN Lock(t, "giveBack") ELSE Bounce(t)
    /\ UNCHANGED <<layaSlot, lost, kept, cpu, defect>>

LayaStep(t) ==
    \/ EnterLaya(t) \/ LoadTokenizer(t) \/ TakeLayaSlot(t)
    \/ RefuseRendering(t) \/ Preflight(t) \/ LoadWeights(t) \/ GiveBack(t) \/ InferLaya(t) \/ CloseLaya(t)

-----------------------------------------------------------------------------

LayaSteps ==
    {"tokenizer", "layaSlot", "layaThreads", "weights", "giveBack", "layaInfer"}

LayaTypeOK ==
    /\ laya \in [Laya -> [closed : BOOLEAN, receipt : BOOLEAN, loaded : BOOLEAN]]
    /\ layaSlot \in BOOLEAN
    /\ lost \in BOOLEAN
=============================================================================
