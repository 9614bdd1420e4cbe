---------------------------- MODULE MCPrivateRun ----------------------------
(* Small instances of PrivateRun. *)
EXTENDS PrivateRun, TLC

CONSTANTS p1, p2, d1, d2, w1, w2

MCDurations == {0, 1}

\* Processes and process ids are interchangeable.
Symmetric == Permutations({p1, p2}) \cup Permutations({d1, d2})
=============================================================================
