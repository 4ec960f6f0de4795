----------------------------- MODULE MCEvalRun -----------------------------
(* Two designs, one with a routing self-test of two queries and a page of its
   own, one parameterized without a parameter's name and with negative queries
   alone; four pages, of which three are used; a reference with two slides of
   one name. *)
EXTENDS EvalRun

Good == [id |-> 1, parameterized |-> FALSE, named |-> FALSE, positive |-> 1, negative |-> 1]
Nameless == [id |-> 2, parameterized |-> TRUE, named |-> FALSE, positive |-> 0, negative |-> 1]

MCDrafts == {Good, Nameless}
MCCanon == [t \in {"Risks", "Risk register", "Status"} |->
              IF t = "Status" THEN "status" ELSE "risks"]
MCReference == <<[title |-> "Risks", words |-> 8], [title |-> "Risk register", words |-> 2]>>
Thinner == <<[title |-> "Risk register", words |-> 3], [title |-> "Status", words |-> 1]>>
MCOutputs == {MCReference, Thinner, <<>>}
=============================================================================
