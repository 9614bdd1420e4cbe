----------------------------- MODULE WriteOnce -----------------------------
(***************************************************************************)
(* What publishing one immutable artifact promises: nothing replaces it    *)
(* once it is there; a power loss may take it back only before it was made *)
(* durable; whoever is told that it was created is told so of the value    *)
(* that stays.                                                             *)
(***************************************************************************)
CONSTANTS Values, Nothing

VARIABLES
    value,          \* the artifact under its name, or Nothing
    durable,        \* whether a power loss would keep it
    acknowledged    \* the values reported as created

vars == <<value, durable, acknowledged>>

Init ==
    /\ value = Nothing
    /\ durable = FALSE
    /\ acknowledged = {}

Put ==
    /\ value = Nothing
    /\ value' \in Values
    /\ UNCHANGED <<durable, acknowledged>>

Settle ==
    /\ value # Nothing
    /\ durable' = TRUE
    /\ UNCHANGED <<value, acknowledged>>

Lose ==
    /\ ~durable
    /\ value' = Nothing
    /\ UNCHANGED <<durable, acknowledged>>

Acknowledge ==
    /\ durable
    /\ acknowledged' = acknowledged \cup {value}
    /\ UNCHANGED <<value, durable>>

Next == Put \/ Settle \/ Lose \/ Acknowledge

Spec == Init /\ [][Next]_vars
=============================================================================
