-------------------------- MODULE MCRoleExecution --------------------------
(* A small plan of each lane, with floors that some histories meet.         *)
EXTENDS RoleExecution

A(value, gates) == [value |-> value, gates |-> gates]
F(group, minimum) == [group |-> group, minimum |-> minimum]

MCIdentities == 1..4

MCPlan ==
    [training |->
        [all |-> 1..4, micro |-> {1, 2}, pilot |-> 1..3,
         microFloors |-> {F({1, 2}, 1)}, pilotFloors |-> {F(1..3, 2)},
         fullFloors |-> {F(1..4, 2)},
         pilotDirect |-> 0, fullDirect |-> 0,
         pilotAdjudicated |-> 3, fullAdjudicated |-> 4,
         pairs |-> {{1, 3}, {2, 4}}, pairMinimum |-> 1,
         shares |-> {[group |-> {1, 3}, percent |-> 60]}, base |-> 2],
     sealed |->
        [all |-> 1..3, micro |-> {}, pilot |-> {1, 2},
         microFloors |-> {}, pilotFloors |-> {F({1, 2}, 2)},
         fullFloors |-> {F(1..3, 2)},
         pilotDirect |-> 1, fullDirect |-> 2,
         pilotAdjudicated |-> 1, fullAdjudicated |-> 1,
         pairs |-> {}, pairMinimum |-> 0, shares |-> {}, base |-> 0]]

MCAnswers ==
    [training |->
        [author |-> {A(1, "all"), A(2, "all"), A(1, "local")},
         reviewer |-> {A(1, "all"), A(1, "some")}],
     sealed |->
        [author |-> {A(1, "all")},
         annotator_a |-> {A(1, "all"), A(2, "all")},
         annotator_b |-> {A(1, "all"), A(2, "all")},
         adjudicator |-> {A(1, "all"), A(2, "all")}]]

MCEvidence == [grant : {"g1", "g2"}, runtime : {"r"}]
============================================================================
