---------------------------- MODULE SkillPublish ---------------------------
(***************************************************************************)
(* The second half of the authoring conversation: from the commit at       *)
(* PREVIEW_EXTRACTION through validation, ingestion, evaluation and the    *)
(* routing loop to promotion, together with the rows it leaves in the      *)
(* skill store and the knowledge-base card it registers.  The authoring    *)
(* half (SkillDesign) appears here as one action, Author.                  *)
(*                                                                         *)
(* One step is one request.  A handler that raises saves no session, but   *)
(* what it already wrote to the store stays: those outcomes are here as    *)
(* steps that change the store and leave the session alone.                *)
(***************************************************************************)
EXTENDS AuthorSession

CONSTANTS
  FieldDesigns,     \* designs with at least one field: a KB card is synthesised
  RoutedDesigns,    \* designs whose skill card carries routing queries
  FailureClasses,   \* the classes the failure classifier may answer with
  CallCosts,        \* what one classifier call may cost
  MaxIterations,    \* _EVAL_MAX_ITERATIONS
  CostCeiling       \* _EVAL_COST_CEILING_USD

ASSUME DesignKindsAssumption ==
  FieldDesigns \subseteq Designs /\ RoutedDesigns \subseteq Designs
ASSUME LoopAssumption ==
  MaxIterations \in Nat /\ CostCeiling \in Nat /\ CallCosts \subseteq Nat

VARIABLES
  workflow,     \* the workflow_skill row: [of, status]
  delta,        \* the design in the persona_builder_delta row, or NoDesign
  kbCard,       \* the design of the production KB card, or NoDesign
  validation,   \* self._data.validation_result: [of, passed]
  ingest,       \* self._data.ingest_result: [of, status]
  eval,         \* self._data.eval_result: [of, routing, mark]
  iterations,   \* self._data.eval_iteration_count
  cost,         \* self._data.eval_cumulative_cost_usd
  lastClass     \* self._data.last_eval_failure_class, or "none"

store == <<workflow, delta, kbCard>>
loop == <<iterations, cost, lastClass>>
results == <<validation, ingest, eval>>
vars == <<state, turn, design, workflow, delta, kbCard, validation, ingest,
          eval, iterations, cost, lastClass>>

\* _ROUTING_MAP: the class the classifier names decides where the loop restarts.
RoutingMap ==
  [MISSING_FIELDS  |-> "REVIEW_DESIGN",
   THIN_FIELDS     |-> "REVIEW_DESIGN",
   WRONG_LAYOUT    |-> "REVIEW_DESIGN",
   SOURCE_COVERAGE |-> "CONFIGURE_SOURCES",
   WRONG_SOURCE    |-> "INSPECT_SOURCES",
   UNSUPPORTABLE   |-> "DONE_DRAFT"]

NoValidation == [of |-> NoDesign, passed |-> FALSE]
NoIngest == [of |-> NoDesign, status |-> "none"]
NoEval == [of |-> NoDesign, routing |-> "unrun", mark |-> "none"]

\* _SessionData() of a fresh session; nothing is known of the skill's rows.
FreshResults ==
  /\ validation' = NoValidation
  /\ ingest' = NoIngest
  /\ eval' = NoEval
  /\ iterations' = 0
  /\ cost' = 0
  /\ lastClass' = "none"

Init ==
  /\ state = "IDENTIFY_PERSONA"
  /\ turn = Turn("plain")
  /\ design = NoDesign
  /\ workflow = [of |-> NoDesign, status |-> "absent"]
  /\ delta = NoDesign
  /\ kbCard = NoDesign
  /\ validation = NoValidation
  /\ ingest = NoIngest
  /\ eval = NoEval
  /\ iterations = 0
  /\ cost = 0
  /\ lastClass = "none"

Moves(to, t) == state' = to /\ turn' = t
Stays(t) == Moves(state, t)

----------------------------------------------------------------------------
(* The authoring half and the sessions before and after this one. *)

\* Any request of the authoring half: SkillDesign models what it does.
Author ==
  /\ state \in AuthorStates
  /\ state' \in AuthorStates
  /\ design' \in Designs \cup {NoDesign}
  /\ state' = "PREVIEW_EXTRACTION" => design' # NoDesign
  /\ turn' \in {Turn("plain"), Turn("filtered"), Closing("plain")}
  /\ UNCHANGED <<store, results, loop>>

\* The author leaves the session and starts a new one for the same skill.
StartAgain ==
  /\ Moves("IDENTIFY_PERSONA", Turn("plain"))
  /\ design' = NoDesign
  /\ FreshResults
  /\ UNCHANGED store

\* DONE answers every message with a closing turn.
Closed ==
  /\ state = "DONE"
  /\ Stays(Closing("plain"))
  /\ UNCHANGED <<design, store, results, loop>>

----------------------------------------------------------------------------
(* Commit. *)

\* write_artifacts: every row written goes back to 'draft'; a design without
\* fields writes no persona_builder_delta and leaves an older one in place.
\* The mutant rewrites the content and keeps the status.
WriteArtifactsInPlace ==
  /\ workflow' = [of |-> design,
                  status |-> IF workflow.status = "absent" THEN "draft" ELSE workflow.status]
  /\ delta' = IF design \in FieldDesigns THEN design ELSE delta
  /\ UNCHANGED kbCard

WriteArtifacts ==
  /\ workflow' = [of |-> design, status |-> "draft"]
  /\ delta' = IF design \in FieldDesigns THEN design ELSE delta
  /\ UNCHANGED kbCard

\* The rows are written and the session moves on; or the store raises, with or
\* without the rows written, and the session stays; or the rows are written and
\* the request dies before the session is saved.
Commit(ans) ==
  /\ state = "PREVIEW_EXTRACTION"
  /\ CommitAsked(ans)
  /\ \/ WriteArtifacts /\ Moves("COMMITTED", Turn("plain"))
     \/ (WriteArtifacts \/ UNCHANGED store) /\ Stays(Turn("not saved"))
     \/ WriteArtifacts /\ UNCHANGED <<state, turn>>
  /\ UNCHANGED <<design, results, loop>>

----------------------------------------------------------------------------
(* Validation and ingestion. *)

RunValidate ==
  /\ Moves("VALIDATE", Turn("plain"))
  /\ validation' \in [of : {workflow.of}, passed : BOOLEAN]
  /\ UNCHANGED <<design, store, ingest, eval, loop>>

\* Any source that fails makes the whole run fail.  The state is INGEST either way.
RunIngest ==
  /\ Moves("INGEST", Turn("plain"))
  /\ ingest' \in [of : {design}, status : {"completed", "failed"}]
  /\ UNCHANGED <<design, store, validation, eval, loop>>

Pause(claim) ==
  /\ Moves("DONE", Closing(claim))
  /\ UNCHANGED <<design, store, results, loop>>

AnswerCommitted(ans) ==
  /\ state = "COMMITTED"
  /\ IF Has(ans, {"stop", "later", "no", "done", "exit"})
     THEN Pause("draft")
     ELSE RunValidate

\* 'skip to eval' calls _run_eval, which raises when it is entered from
\* VALIDATE: no step.  Every other answer ingests, whatever validation said.
AnswerValidate(ans) ==
  /\ state = "VALIDATE"
  /\ \/ "retry" \in ans /\ RunValidate
     \/ "retry" \notin ans /\ Has(ans, {"stop", "done", "exit"}) /\ Pause("plain")
     \/ /\ ~Has(ans, {"retry", "stop", "done", "exit"})
        /\ ~({"skip", "eval"} \subseteq ans)
        /\ RunIngest

----------------------------------------------------------------------------
(* Evaluation. *)

\* The routing self-test runs when the skill card has queries to test.  An
\* extraction the provider's content filter blocks ends the run early, with
\* the state already EVAL and the previous result still in place.
RunEval ==
  /\ \/ /\ eval' \in [of : {design},
                      routing : IF design \in RoutedDesigns
                                THEN {"passed", "failed"} ELSE {"unrun"},
                      mark : {"none"}]
        /\ Moves("EVAL", Turn("plain"))
     \/ Moves("EVAL", Turn("filtered")) /\ UNCHANGED eval
  /\ UNCHANGED <<design, store, validation, ingest, loop>>

\* Mutant: evaluates after an ingestion that failed.
AnswerIngestUnchecked(ans) ==
  /\ state = "INGEST"
  /\ IF Has(ans, {"stop", "done", "exit"}) THEN Pause("plain") ELSE RunEval

AnswerIngest(ans) ==
  /\ state = "INGEST"
  /\ \/ Has(ans, {"stop", "done", "exit"}) /\ Pause("plain")
     \/ /\ ~Has(ans, {"stop", "done", "exit"})
        /\ ingest.status = "failed"
        /\ IF Has(ans, {"retry", "again"})
           THEN RunIngest
           ELSE Stays(Turn("plain")) /\ UNCHANGED <<design, store, results, loop>>
     \/ /\ ~Has(ans, {"stop", "done", "exit"})
        /\ ingest.status # "failed"
        /\ RunEval

\* Mutant: no decision is recorded.
RunPromoteUnstamped(mark) ==
  /\ Moves(IF ingest.status = "failed" THEN "INGEST" ELSE "PROMOTE", Turn("plain"))
  /\ UNCHANGED <<design, store, validation, ingest, eval, loop>>

\* _run_promote, after the decision is stamped into the result if there is one.
RunPromote(mark) ==
  /\ eval' = IF eval = NoEval THEN eval ELSE [eval EXCEPT !.mark = mark]
  /\ Moves(IF ingest.status = "failed" THEN "INGEST" ELSE "PROMOTE", Turn("plain"))
  /\ UNCHANGED <<design, store, validation, ingest, loop>>

Ships(ans) == {"ship", "draft"} \subseteq ans
Forces(ans) == {"force", "promote"} \subseteq ans
Accepts(ans) == Has(ans, {"accept", "looks good", "promote"})

EvalChangeSource(ans) ==
  /\ state = "EVAL"
  /\ AsksSources(ans)
  /\ Moves("CONFIGURE_SOURCES", Turn("plain"))
  /\ UNCHANGED <<design, store, results, loop>>

\* Stop and 'ship as draft' close the session from EVAL and from the routing turn.
EvalClose(ans) ==
  /\ \/ state = "EVAL" /\ ~AsksSources(ans)
     \/ state = "EVAL_ROUTE_PENDING"
  /\ \/ Stops(ans) /\ Pause("plain")
     \/ ~Stops(ans) /\ Ships(ans) /\ Pause("draft")

EvalForce(ans) ==
  /\ state = "EVAL"
  /\ ~AsksSources(ans) /\ ~Stops(ans) /\ ~Ships(ans)
  /\ Forces(ans)
  /\ RunPromote("forced")

EvalAccept(ans) ==
  /\ state = "EVAL"
  /\ ~AsksSources(ans) /\ ~Stops(ans) /\ ~Ships(ans) /\ ~Forces(ans)
  /\ Accepts(ans)
  /\ IF eval.routing = "failed"
     THEN Stays(Turn("blocked")) /\ UNCHANGED <<design, store, results, loop>>
     ELSE RunPromote("accepted")

----------------------------------------------------------------------------
(* The routing loop: _classify_and_route. *)

Rejects(ans) ==
  ~AsksSources(ans) /\ ~Stops(ans) /\ ~Ships(ans) /\ ~Forces(ans) /\ ~Accepts(ans)

\* The mutant lets one iteration too many through.
LoopExhaustedLate == iterations > MaxIterations \/ cost > CostCeiling

LoopExhausted == iterations >= MaxIterations \/ cost > CostCeiling

RouteOf(class, confident) ==
  IF confident /\ class \in DOMAIN RoutingMap THEN RoutingMap[class]
  ELSE "REVIEW_DESIGN"

\* Mutant: UNSUPPORTABLE is routed like any other class.
ClassifyRoutesAll(class, confident, price) ==
  /\ iterations' = iterations + 1
  /\ cost' = cost + price
  /\ Moves("EVAL_ROUTE_PENDING",
           [Turn("routing") EXCEPT !.target = RouteOf(class, confident)])
  /\ lastClass' = class
  /\ UNCHANGED <<design, store, results>>

\* One classifier call.  A class nobody can fix, or the same class twice in a
\* row, closes the session; any other class waits for the author to confirm.
Classify(class, confident, price) ==
  /\ iterations' = iterations + 1
  /\ cost' = cost + price
  /\ IF class = "UNSUPPORTABLE" \/ class = lastClass
     THEN Moves("DONE", Closing("draft"))
     ELSE Moves("EVAL_ROUTE_PENDING",
                [Turn("routing") EXCEPT !.target = RouteOf(class, confident)])
  /\ lastClass' = class
  /\ UNCHANGED <<design, store, results>>

\* Without a language model the request changes nothing.
EvalReject(ans) ==
  /\ state = "EVAL"
  /\ Rejects(ans)
  /\ \/ Stays(Turn("plain")) /\ UNCHANGED <<design, store, results, loop>>
     \/ LoopExhausted /\ Pause("draft")
     \/ /\ ~LoopExhausted
        /\ \E class \in FailureClasses, confident \in BOOLEAN, price \in CallCosts :
              Classify(class, confident, price)

\* The route the author was shown is not part of the saved row: when the next
\* request loads the session it finds the field's default.
LoadedRoute == "REVIEW_DESIGN"

RouteAccept(ans) ==
  /\ state = "EVAL_ROUTE_PENDING"
  /\ ~Stops(ans) /\ ~Ships(ans)
  /\ Accepts(ans)
  /\ RunPromote("accepted")

RouteConfirm(ans) ==
  /\ state = "EVAL_ROUTE_PENDING"
  /\ ~Stops(ans) /\ ~Ships(ans) /\ ~Accepts(ans)
  /\ IF Has(ans, {"confirm", "review design"})
     THEN Moves(LoadedRoute, Turn("plain"))
     ELSE Stays([Turn("routing") EXCEPT !.target = LoadedRoute])
  /\ UNCHANGED <<design, store, results, loop>>

----------------------------------------------------------------------------
(* Promotion. *)

\* Mutants: an UPDATE that matches no row; a missing delta that is no error.
PromoteRowsNone == UNCHANGED workflow
RegisterCardAnyway == kbCard' = delta

PromoteRows == workflow' = [workflow EXCEPT !.status = "promoted"]
RegisterCard == delta # NoDesign /\ kbCard' = delta

\* The three writes of a 'yes', each of which may be the last to succeed:
\* promote the rows, read the delta, upsert the card.  A failure says that the
\* skill is not live and undoes nothing; a request that dies says nothing.
PromoteYes(ans) ==
  /\ state = "PROMOTE"
  /\ Has(ans, {"yes", "promote", "ok", "go"})
  /\ \/ PromoteRows /\ RegisterCard /\ Moves("DONE", Closing("live"))
     \/ /\ \/ PromoteRows /\ (RegisterCard \/ UNCHANGED kbCard)
           \/ UNCHANGED <<workflow, kbCard>>
        /\ Stays(Turn("not live")) \/ UNCHANGED <<state, turn>>
  /\ UNCHANGED <<design, delta, results, loop>>

PromoteNo(ans) ==
  /\ state = "PROMOTE"
  /\ ~Has(ans, {"yes", "promote", "ok", "go"})
  /\ Pause("draft")

----------------------------------------------------------------------------
Publish(ans) ==
  \/ Commit(ans)
  \/ AnswerCommitted(ans)
  \/ AnswerValidate(ans)
  \/ AnswerIngest(ans)
  \/ EvalChangeSource(ans)
  \/ EvalClose(ans)
  \/ EvalForce(ans)
  \/ EvalAccept(ans)
  \/ EvalReject(ans)
  \/ RouteAccept(ans)
  \/ RouteConfirm(ans)
  \/ PromoteYes(ans)
  \/ PromoteNo(ans)

Next ==
  \/ Author
  \/ StartAgain
  \/ Closed
  \/ \E ans \in Answers : Publish(ans)

Spec == Init /\ [][Next]_vars

----------------------------------------------------------------------------
(* Properties. *)

DesignsOrNone == Designs \cup {NoDesign}

(* Every variable has its type. *)
TypeOK ==
  /\ SessionTypeOK
  /\ workflow \in [of : DesignsOrNone, status : {"absent", "draft", "promoted"}]
  /\ delta \in DesignsOrNone
  /\ kbCard \in DesignsOrNone
  /\ validation \in [of : DesignsOrNone, passed : BOOLEAN]
  /\ ingest \in [of : DesignsOrNone, status : {"none", "completed", "failed"}]
  /\ eval \in [of : DesignsOrNone,
               routing : {"unrun", "passed", "failed"},
               mark : {"none", "accepted", "forced"}]
  /\ iterations \in Nat
  /\ cost \in Nat
  /\ lastClass \in FailureClasses \cup {"none"}

(***************************************************************************)
(* A session at EVAL, at its routing turn or at PROMOTE has ingested the   *)
(* very content the workflow row holds, and that ingestion succeeded: no   *)
(* loop through the authoring half, no re-commit and no lost save lets an  *)
(* older ingestion stand in for it.                                        *)
(***************************************************************************)
IngestedContent ==
  state \in {"EVAL", "EVAL_ROUTE_PENDING", "PROMOTE"} =>
    /\ ingest.status = "completed"
    /\ ingest.of = workflow.of

(***************************************************************************)
(* "promoted to production" is only said when routing lists the workflow   *)
(* row and the knowledge base behind it has a card, made from the same     *)
(* design whenever that design has fields.                                 *)
(***************************************************************************)
LiveClaimTrue ==
  turn.says = "live" =>
    /\ workflow.status = "promoted"
    /\ kbCard # NoDesign
    /\ workflow.of \in FieldDesigns => kbCard = workflow.of

(***************************************************************************)
(* The routing loop never runs the classifier more than MaxIterations      *)
(* times in a session, however often the author goes back to the authoring *)
(* half, and overshoots the cost ceiling by one call at most, which is     *)
(* what a check before the call can promise.                               *)
(***************************************************************************)
LoopBounded ==
  /\ iterations <= MaxIterations
  /\ \A price \in CallCosts :
       (\A other \in CallCosts : other <= price) => cost <= CostCeiling + price

(***************************************************************************)
(* Every promotion that follows an evaluation carries the decision that    *)
(* allowed it, an acceptance or a forced promotion: the audit trail has no *)
(* silent entry, whichever turn the author answered.                       *)
(***************************************************************************)
PromotionAudited ==
  state = "PROMOTE" => eval = NoEval \/ eval.mark # "none"

(***************************************************************************)
(* The rows go live before the card: a request that dies half way, or a    *)
(* card the store refuses, never leaves a production card for a workflow   *)
(* routing does not know, made from something else than the delta.         *)
(***************************************************************************)
CardFollowsRows ==
  [][kbCard' # kbCard => workflow'.status = "promoted" /\ kbCard' = delta]_vars

(***************************************************************************)
(* The half implements the promise about one skill (SkillLifecycle): live  *)
(* is what list_promoted_workflow_skills returns, and an ingestion counts  *)
(* when the session's last one succeeded.                                  *)
(***************************************************************************)
Lifecycle ==
  INSTANCE SkillLifecycle WITH
    phase <- IF workflow.status = "promoted" THEN "live" ELSE workflow.status,
    content <- workflow.of,
    filled <- IF ingest.status = "completed" THEN ingest.of ELSE NoDesign

ImplementsLifecycle == Lifecycle!Spec

----------------------------------------------------------------------------
(* What the code's own texts say of it, and a run refutes. *)

(* "PROMOTE is refused" to an author who accepts after a failed routing
   self-test; only the operator's 'force promote' is meant to get past it. *)
RoutingGate ==
  state = "PROMOTE" /\ eval.mark = "accepted" => eval.routing # "failed"
=============================================================================
