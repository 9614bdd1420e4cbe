------------------------- MODULE MCCalibrationStore -------------------------
(* Instances of CalibrationStore: which files there are and what is read. *)
EXTENDS CalibrationStore

MCNames == Writers \cup {Target, First, Second, Stray}
MCInodes == Writers \cup Spare \cup {First, Second}
MCVersions == Writers \cup {Old, New}

\* Whole, cut short and too long.
MCDrafts == {<<New, New>>, <<Old, Old>>, <<New>>, <<New, New, New>>}

Plan(kind, names, mode, parent, writers, present, changes, losses) ==
    [kind |-> kind, names |-> names, mode |-> mode, parent |-> parent,
     writers |-> writers, present |-> present, edits |-> changes,
     losses |-> losses]

MCPlans ==
    \* Two writers, a reader and a power loss.
    {Plan("calibration", <<Target>>, "0600", "private", Writers, {}, 0, 1)}
    \cup
    \* Files that are there already, and two changes while they are read.
    {Plan("calibration", <<First>>, mode, "readable", {}, {First}, 2, 0) :
       mode \in {"0644", "0755"}}
    \cup
    {Plan(kind, <<First, Second>>, "0600", parent, {}, {First, Second}, 2, 0) :
       kind \in {"pair", "capsule", "snapshot"}, parent \in {"private", "readable"}}
=============================================================================
