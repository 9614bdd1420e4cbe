--------------------------- MODULE ModelResidency ---------------------------
(***************************************************************************)
(* A process whose threads call Saracura and Laya backends: each class     *)
(* lets one model be resident, and both set torch's thread count.          *)
(***************************************************************************)
EXTENDS SaracuraResident, LayaResident

ASSUME ClassesAssumption ==
    Backends = Saracura \cup Laya /\ Saracura \cap Laya = {}

vars == <<callVars, holder, cpu, defect, sarVars, layaVars>>

Init == InitCalls /\ InitSaracura /\ InitLaya

StartCall(t) ==
    /\ \E b \in Backends, m \in Operations : Call(t, b, m)
    /\ UNCHANGED <<sarVars, layaVars>>

Advance(t) ==
    \/ SaracuraStep(t) /\ UNCHANGED layaVars
    \/ LayaStep(t) /\ UNCHANGED sarVars

Next == \E t \in Threads : StartCall(t) \/ Advance(t)

Spec == Init /\ [][Next]_vars

\* A thread inside a call keeps running.
FairSpec == Spec /\ \A t \in Threads : WF_vars(Advance(t))

-----------------------------------------------------------------------------

\* Types.  The thread count and every saved one are numbers, never None.
TypeOK ==
    /\ at \in [Threads ->
         {"idle", "enter", "score"} \cup SaracuraSteps \cup LayaSteps]
    /\ on \in [Threads -> Backends \cup {Nobody}]
    /\ op \in [Threads -> Operations]
    /\ kept \in [Threads -> Nat \cup {Unset}]
    /\ left \in [Threads -> Nat]
    /\ holder \in [Backends -> Threads \cup {Nobody}]
    /\ cpu \in Nat
    /\ defect \in Defects
    /\ SaracuraTypeOK
    /\ LayaTypeOK

\* The Laya backends whose model is resident, being loaded or just dropped.
LayaHolders ==
    {b \in Laya :
       \/ laya[b].loaded
       \/ \E t \in Threads :
            on[t] = b /\ at[t] \in {"layaThreads", "weights", "giveBack"}}

\* One model per class: a slot that is taken has exactly one holder, a slot
\* that is free has none, and only an unlisted load error loses a Laya slot
\* (the _MODEL_RESIDENT flags of both backends, their lazy loads and closes).
SlotsAccounted ==
    /\ \A b, c \in Saracura : sar[b].owns /\ sar[c].owns => b = c
    /\ sarSlot <=> \E b \in Saracura : sar[b].owns
    /\ \A b \in Saracura : sar[b].prepared => sar[b].owns
    /\ \A b, c \in LayaHolders : b = c
    /\ LayaHolders # {} => layaSlot
    /\ layaSlot => LayaHolders # {} \/ lost

\* A backend whose inputs are sound can be prepared until it is closed, except
\* that one that found the slot taken has consumed its snapshot path and never
\* can again (the assignment that ends _verify_snapshot).
SpentOnlyAfterRefusal ==
    \A b \in Saracura :
        holder[b] = Nobody /\ ~sar[b].closed /\ ~sar[b].prepared /\ ~sar[b].path
            => b \in refused \/ defect[b] \in {"runtime", "encoder", "ranker"}

\* Whoever scores, scores a model that is resident, prepared and not closed,
\* and the slot is its own, until the pass is over: a close of another thread
\* between prepare and the second taking of the lock by
\* score_universal_choice, or during the pass, takes nothing from under it.
ScoredWhileResident ==
    \A t \in Threads :
        /\ at[t] \in {"tokenize", "infer"} =>
              /\ sarSlot
              /\ sar[on[t]].prepared /\ sar[on[t]].owns /\ ~sar[on[t]].closed
        /\ at[t] = "layaInfer" =>
              layaSlot /\ laya[on[t]].loaded /\ ~laya[on[t]].closed

\* Every call returns or raises: no thread waits for ever for a backend's lock.
CallsReturn == \A t \in Threads : at[t] # "idle" ~> at[t] = "idle"

-----------------------------------------------------------------------------
(* What the documents say and the code does not keep (README, section 3.3) *)

\* SaracuraUniversalBackend promises that cpu_threads "changes torch's
\* process-global CPU setting while this backend is prepared and restores the
\* prior setting on close": with every one closed, the setting is the first.
ClosedRestoresThreads ==
    (\A b \in Saracura : sar[b].closed /\ holder[b] = Nobody) => cpu = StartThreads
=============================================================================
