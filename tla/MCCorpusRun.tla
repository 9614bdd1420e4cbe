---------------------------- MODULE MCCorpusRun ----------------------------
(* Small instances of CorpusRun: the plans and policies of a few work        *)
(* directories, small enough to be explored together.                        *)
EXTENDS CorpusRun

CONSTANTS p1, p2

MCWorst == [author |-> 1, reviewer |-> 1]

Responses == {"good", "malformed", "lost"}
NoCap == [author |-> 0, reviewer |-> 0]

\* One command without a hard cap, and a death at any step: two batches of two
\* rows without retries, one batch with three attempts, two batches with two.
Uncapped(batches, rows, attempts, deathsAllowed) ==
    [procs |-> {p1}, capped |-> FALSE, costs |-> {2}, kinds |-> Responses,
     limit |-> NoCap, total |-> 0, batches |-> batches, rows |-> rows,
     attempts |-> attempts, minimum |-> 1, deaths |-> deathsAllowed]
Recovering == {Uncapped(2, 2, 1, 1), Uncapped(1, 2, 3, 1), Uncapped(2, 1, 2, 2)}

\* The hard caps: with costs below and above what is reserved, and with the
\* rows of a batch failing one after the other.
HardCapped ==
    {[procs |-> {p1}, capped |-> TRUE, costs |-> {0, 2}, kinds |-> Responses,
      limit |-> [author |-> 3, reviewer |-> 3], total |-> 5, batches |-> 2, rows |-> 1,
      attempts |-> 1, minimum |-> 2, deaths |-> 1],
     [procs |-> {p1}, capped |-> TRUE, costs |-> {2}, kinds |-> Responses,
      limit |-> [author |-> 4, reviewer |-> 6], total |-> 9, batches |-> 2, rows |-> 2,
      attempts |-> 1, minimum |-> 2, deaths |-> 1]}

\* Two commands on one work directory, also with costs that are not accepted.
TwoAtOnce ==
    {[procs |-> {p1, p2}, capped |-> FALSE, costs |-> {2},
      kinds |-> Responses \cup {"invalid"},
      limit |-> NoCap, total |-> 0, batches |-> 1, rows |-> 1,
      attempts |-> 2, minimum |-> 1, deaths |-> 0],
     [procs |-> {p1, p2}, capped |-> TRUE, costs |-> {1}, kinds |-> {"good", "lost"},
      limit |-> [author |-> 2, reviewer |-> 2], total |-> 3, batches |-> 1, rows |-> 1,
      attempts |-> 1, minimum |-> 1, deaths |-> 0]}

MCPlans == Recovering \cup HardCapped \cup TwoAtOnce
=============================================================================
