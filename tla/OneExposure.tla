---------------------------- MODULE OneExposure ----------------------------
(***************************************************************************)
(* What the registry of blind runs promises of one released blind view:    *)
(* one candidate is committed, only it is ever shown the view, and there   *)
(* is one result, of that candidate.  A loss of power may take a           *)
(* commitment or a result back, and changes neither.                       *)
(***************************************************************************)
EXTENDS Naturals

CONSTANTS
    Fits,       \* candidates
    Results,    \* what may come of one, with its candidate as "fit"
    Absent

VARIABLES committed, exposed, result, losses

vars == <<committed, exposed, result, losses>>

Init == committed = Absent /\ exposed = {} /\ result = Absent /\ losses = 0

Commit(f) ==
    /\ committed = Absent
    /\ committed' = f
    /\ UNCHANGED <<exposed, result, losses>>

Expose ==
    /\ committed # Absent
    /\ exposed' = exposed \cup {committed}
    /\ UNCHANGED <<committed, result, losses>>

Conclude ==
    /\ committed \in exposed
    /\ result = Absent
    /\ result' \in Results
    /\ result'.fit = committed
    /\ UNCHANGED <<committed, exposed, losses>>

Lose ==
    /\ losses' = losses + 1
    /\ committed' \in {committed, Absent}
    /\ result' \in {result, Absent}
    /\ committed' = Absent => result' = Absent
    /\ UNCHANGED exposed

Next == (\E f \in Fits : Commit(f)) \/ Expose \/ Conclude \/ Lose

Spec == Init /\ [][Next]_vars
=============================================================================
