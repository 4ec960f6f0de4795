---------------------------- MODULE MCOperations ----------------------------
(* A failing call, a report of it or of the review, a request for a connector and a
   review of a skill that may have up to two bugs. *)
EXTENDS Operations

CONSTANTS c1, r1, q1, v1, k1, k2

MCFlaws == {[gold |-> 0, name |-> 0, refs |-> 0, scope |-> 0]}
MCReadOrder == <<"eval_extraction", "workflow_skill", "extraction_schema",
                 "persona_builder_delta", "eval_workflow">>
MCSymmetry == Permutations({k1, k2})
=============================================================================
