--------------------------- MODULE MCEvaluatorRun ---------------------------
(* A small instance of EvaluatorRun: two tasks of a row each, one bridge and *)
(* another client of it, or a foreign server.                              *)
EXTENDS EvaluatorRun

Choice == [json |-> TRUE, texts |-> TRUE, type |-> "choice", gold |-> "x",
           keys |-> <<"x", "y">>]
Noul == [json |-> TRUE, texts |-> TRUE, type |-> "noul", gold |-> "no",
         keys |-> <<>>]

MCTasks == <<"camara", "faq">>

MCPublished == << <<Choice>>, <<Noul>> >>

Edited == <<[Choice EXCEPT !.gold = "y"]>>

MCVariants == << {MCPublished[1], Edited}, {MCPublished[2]} >>

Full == [limit |-> 0, checkpoint |-> TRUE, model |-> "served",
         foreign |-> FALSE, cache |-> MCPublished]
Foreign == [Full EXCEPT !.foreign = TRUE]

MCArguments ==
    {Full,
     Foreign, [Foreign EXCEPT !.limit = 1],
     [Foreign EXCEPT !.checkpoint = FALSE]}
    \cup {[Foreign EXCEPT !.cache[1] = v] :
             v \in {Missing, Edited, <<[Choice EXCEPT !.gold = "z"]>>}}

Kwargs == [json |-> TRUE, names |-> <<"thinking">>, values |-> TRUE]

Legacy == [protocol |-> "legacy", readout |-> "strict", kwargs |-> Kwargs,
           device |-> TRUE, dtype |-> TRUE, template |-> "clock",
           frozen |-> TRUE, letters |-> 0, writes |-> TRUE]
V3 == [Legacy EXCEPT !.protocol = "v3", !.readout = "constrained",
                     !.letters = 32, !.writes = FALSE]

MCConfigs == {Legacy, V3, [V3 EXCEPT !.letters = 26],
              [Legacy EXCEPT !.kwargs.names = <<"thinking", "tools">>]}

MCOutputs == {1, 2}

MCCeiling == [legacy |-> 26, v3 |-> 32]
MCOutputBudget == [strict |-> 2, constrained |-> 1]

Ask1 == [name |-> 1, type |-> "noul", texts |-> TRUE, keys |-> <<>>,
         fields |-> {"type", "instructions"}, tokens |-> 2]

Two == [size |-> "ok", json |-> TRUE, model |-> "served",
        fields |-> {"model", "state", "questions"},
        questions |-> <<Ask1, Ask1>>]

Many == [Ask1 EXCEPT !.type = "choice", !.fields = @ \cup {"criteria"},
                     !.keys = [i \in 1..27 |-> "x"]]

MCOtherBodies ==
    {[Two EXCEPT !.questions[2].tokens = 4],
     [Two EXCEPT !.questions[2] = Many]}

Plain(kind, value) ==
    [status |-> 200, form |-> "ok",
     answer |-> [kind |-> kind, value |-> value]]

MCForeignReplies ==
    {Plain("noul", "yes"), Plain("noul", "nan"), Plain("choice", "x"),
     Plain("probabilities", "z"), Plain("none", "-")}
    \cup {[Plain("none", "-") EXCEPT !.form = f] :
             f \in {"large", "no_answers"}}
    \cup {[Plain("none", "-") EXCEPT !.status = s] : s \in {404, 503}}
=============================================================================
