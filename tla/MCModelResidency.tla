-------------------------- MODULE MCModelResidency --------------------------
(* Small instances of ModelResidency: the defects of the inputs are those  *)
(* of at most one backend.                                                 *)
EXTENDS ModelResidency

CONSTANTS s1, s2, l1, l2, t1, t2

MCThree == [t \in Threads |-> IF t = t1 THEN 2 ELSE 1]

MCCpuThreads == [b \in Backends |-> 1]

Sound == [b \in Backends |-> "none"]

MCDefects ==
    {Sound}
    \cup {[Sound EXCEPT ![s1] = d] :
            d \in {"snapshot", "runtime", "ranker"}}
    \cup {[Sound EXCEPT ![l1] = d] : d \in {"tokenizer", "weights", "unlisted"}}
=============================================================================
