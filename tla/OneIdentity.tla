---------------------------- MODULE OneIdentity ----------------------------
(***************************************************************************)
(* What the private workflow promises of its one identity: it is claimed   *)
(* once, for one work path and one binding; optimization advances boundary *)
(* by boundary and never goes back; the weights of the complete run are    *)
(* exported once; every final checkpoint holds exactly those weights.      *)
(* Nothing that was published changes again.                               *)
(***************************************************************************)
EXTENDS Integers

CONSTANTS Works, Finals, Bindings, Steps, None

VARIABLES
    claimed,    \* [work, binding] of the claim, or None
    progress,   \* durable optimizer boundaries
    exported,   \* the exported weights, or None
    published   \* final path -> its weights, or None

vars == <<claimed, progress, exported, published>>

Init ==
    /\ claimed = None
    /\ progress = 0
    /\ exported = None
    /\ published = [f \in Finals |-> None]

Claim ==
    /\ claimed = None
    /\ claimed' \in [work : Works, binding : Bindings]
    /\ UNCHANGED <<progress, exported, published>>

Advance ==
    /\ claimed # None
    /\ progress < Steps
    /\ progress' = progress + 1
    /\ UNCHANGED <<claimed, exported, published>>

Export ==
    /\ progress = Steps
    /\ exported = None
    /\ exported' = [binding |-> claimed.binding, steps |-> Steps]
    /\ UNCHANGED <<claimed, progress, published>>

Publish ==
    /\ exported # None
    /\ \E f \in Finals :
         /\ published[f] = None
         /\ published' = [published EXCEPT ![f] = exported]
    /\ UNCHANGED <<claimed, progress, exported>>

Next == Claim \/ Advance \/ Export \/ Publish

Spec == Init /\ [][Next]_vars
=============================================================================
