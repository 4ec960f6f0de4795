------------------------- MODULE SkillPublish_proof ------------------------
(***************************************************************************)
(* Proofs about SkillPublish for any set of answers, designs and failure   *)
(* classes and any bounds of the routing loop: type correctness, and the   *)
(* safety properties the model-checking runs check on a small instance.    *)
(*                                                                         *)
(* IngestedContent is not inductive: it speaks of the workflow row, while  *)
(* an ingestion reads the session.  What links them is that no request     *)
(* after the commit changes either the design or the row (CommittedDesign) *)
(* and that INGEST is always entered by a run (IngestRan).                 *)
(***************************************************************************)
EXTENDS SkillPublish, TLAPS

\* The design that is about to be committed exists.
PreviewHasDesign == state = "PREVIEW_EXTRACTION" => design # NoDesign

\* After the commit the workflow row holds the session's design.
CommittedDesign ==
  state \in PublishStates => /\ design # NoDesign
                             /\ workflow.of = design
                             /\ workflow.status # "absent"

\* At INGEST a run over the session's sources has just ended, well or not.
IngestRan ==
  state = "INGEST" => ingest.status # "none" /\ ingest.of = design

\* Beyond INGEST that run succeeded.
IngestDone ==
  state \in {"EVAL", "EVAL_ROUTE_PENDING", "PROMOTE"} =>
    ingest.status = "completed" /\ ingest.of = design

\* The delta row is written with the workflow row it belongs to.
DeltaMatches == workflow.of \in FieldDesigns => delta = workflow.of

\* "live" is only said on the way to DONE, where nothing touches the store.
LiveSaidAtDone == turn.says = "live" => state = "DONE" /\ LiveClaimTrue

Links ==
  /\ PreviewHasDesign
  /\ CommittedDesign
  /\ IngestRan
  /\ IngestDone
  /\ DeltaMatches
  /\ LiveSaidAtDone

IndInv == TypeOK /\ Links

----------------------------------------------------------------------------
(* Type correctness. *)

\* The turns the handlers return are turns.
LEMMA TurnType ==
  ASSUME NEW claim \in Claims
  PROVE  Turn(claim) \in Turns /\ Closing(claim) \in Turns
BY DEF Turn, Closing, Turns, Claims

\* A request that changes only the state and the turn.
LEMMA MovesType ==
  ASSUME TypeOK, state' \in States, turn' \in Turns,
         UNCHANGED <<design, store, results, loop>>
  PROVE  TypeOK'
BY DEF TypeOK, SessionTypeOK, DesignsOrNone, store, results, loop

\* Pausing a session leaves everything but the state and the turn alone.
LEMMA PauseType ==
  ASSUME NEW claim \in Claims, TypeOK, Pause(claim)
  PROVE  TypeOK'
BY TurnType, MovesType DEF Pause, Moves, States

\* A validation run keeps the types: it names the content the row holds.
LEMMA RunValidateType == TypeOK /\ RunValidate => TypeOK'
BY TurnType DEF RunValidate, Moves, TypeOK, SessionTypeOK, DesignsOrNone,
                store, loop, States, PublishStates, Claims

\* An ingestion run, completed or failed, keeps the types.
LEMMA RunIngestType == TypeOK /\ RunIngest => TypeOK'
BY TurnType DEF RunIngest, Moves, TypeOK, SessionTypeOK, DesignsOrNone,
                store, loop, States, PublishStates, Claims

\* An evaluation, run through or blocked by the content filter, keeps the types.
LEMMA RunEvalType == TypeOK /\ RunEval => TypeOK'
BY TurnType DEF RunEval, Moves, TypeOK, SessionTypeOK, DesignsOrNone,
                store, loop, States, PublishStates, Claims

\* Stamping the decision and opening the promotion turn keeps the types.
LEMMA RunPromoteType ==
  ASSUME NEW mark \in {"accepted", "forced"}, TypeOK, RunPromote(mark)
  PROVE  TypeOK'
<1>1. eval' \in [of : DesignsOrNone, routing : {"unrun", "passed", "failed"},
                 mark : {"none", "accepted", "forced"}]
  BY DEF RunPromote, TypeOK
<1>2. state' \in States
  BY DEF RunPromote, Moves, States, PublishStates
<1>3. turn' \in Turns
  BY TurnType DEF RunPromote, Moves, Claims
<1> QED
  BY <1>1, <1>2, <1>3 DEF RunPromote, TypeOK, SessionTypeOK, DesignsOrNone,
                          store, loop

\* Requests that leave the session where it is and change nothing.
LEMMA StaysType ==
  ASSUME NEW claim \in Claims, TypeOK,
         Stays(Turn(claim)) \/ Stays(Closing(claim)),
         UNCHANGED <<design, store, results, loop>>
  PROVE  TypeOK'
BY TurnType, MovesType DEF Stays, Moves, TypeOK, SessionTypeOK

\* The initial state has the right types.
LEMMA TypeInit == Init => TypeOK
<1> SUFFICES ASSUME Init PROVE TypeOK
  OBVIOUS
<1>1. SessionTypeOK
  BY TurnType DEF Init, SessionTypeOK, States, AuthorStates, Claims
<1>2. /\ validation \in [of : DesignsOrNone, passed : BOOLEAN]
      /\ ingest \in [of : DesignsOrNone, status : {"none", "completed", "failed"}]
      /\ eval \in [of : DesignsOrNone, routing : {"unrun", "passed", "failed"},
                   mark : {"none", "accepted", "forced"}]
  BY DEF Init, NoValidation, NoIngest, NoEval, DesignsOrNone
<1> QED
  BY <1>1, <1>2 DEF Init, TypeOK, DesignsOrNone

\* A request of the authoring half keeps the types.
LEMMA AuthorType == TypeOK /\ Author => TypeOK'
BY TurnType DEF Author, TypeOK, SessionTypeOK, DesignsOrNone, store, results,
                loop, States, Claims

\* A fresh session for the same skill has the right types.
LEMMA StartAgainType == TypeOK /\ StartAgain => TypeOK'
<1> SUFFICES ASSUME TypeOK, StartAgain PROVE TypeOK'
  OBVIOUS
<1>1. SessionTypeOK'
  BY TurnType DEF StartAgain, Moves, SessionTypeOK, States, AuthorStates, Claims
<1>2. /\ validation' \in [of : DesignsOrNone, passed : BOOLEAN]
      /\ ingest' \in [of : DesignsOrNone, status : {"none", "completed", "failed"}]
      /\ eval' \in [of : DesignsOrNone, routing : {"unrun", "passed", "failed"},
                    mark : {"none", "accepted", "forced"}]
  BY DEF StartAgain, FreshResults, NoValidation, NoIngest, NoEval, DesignsOrNone
<1> QED
  BY <1>1, <1>2 DEF StartAgain, FreshResults, TypeOK, DesignsOrNone, store

\* A commit keeps the types, however far the store got with the rows.
LEMMA CommitType ==
  ASSUME NEW ans \in Answers, TypeOK, Commit(ans)
  PROVE  TypeOK'
<1>1. /\ workflow' \in [of : DesignsOrNone, status : {"absent", "draft", "promoted"}]
      /\ delta' \in DesignsOrNone
      /\ kbCard' \in DesignsOrNone
  <2>1. CASE WriteArtifacts
    BY <2>1 DEF WriteArtifacts, TypeOK, SessionTypeOK, DesignsOrNone
  <2>2. CASE UNCHANGED store
    BY <2>2 DEF store, TypeOK
  <2> QED
    BY <2>1, <2>2 DEF Commit
<1>2. state' \in States /\ turn' \in Turns
  BY TurnType DEF Commit, Stays, Moves, TypeOK, SessionTypeOK, States,
                  PublishStates, Claims
<1> QED
  BY <1>1, <1>2 DEF Commit, TypeOK, SessionTypeOK, DesignsOrNone, results, loop

\* A classifier call keeps the types: the route it names is a state.
LEMMA ClassifyType ==
  ASSUME NEW class \in FailureClasses, NEW confident \in BOOLEAN,
         NEW price \in CallCosts, TypeOK, Classify(class, confident, price)
  PROVE  TypeOK'
<1>1. class # "UNSUPPORTABLE" => RouteOf(class, confident) \in AuthorStates
  BY DEF RouteOf, RoutingMap, AuthorStates
<1>2. iterations' \in Nat /\ cost' \in Nat
  BY LoopAssumption DEF Classify, TypeOK
<1>3. state' \in States
  BY DEF Classify, Moves, States, PublishStates
<1>4. turn' \in Turns
  <2>1. CASE class = "UNSUPPORTABLE" \/ class = lastClass
    BY <2>1, TurnType DEF Classify, Moves, Claims
  <2>2. CASE ~(class = "UNSUPPORTABLE" \/ class = lastClass)
    BY <2>2, <1>1 DEF Classify, Moves, Turns, Turn, Claims
  <2> QED
    BY <2>1, <2>2
<1> QED
  BY <1>2, <1>3, <1>4 DEF Classify, TypeOK, SessionTypeOK, DesignsOrNone,
                          store, results

\* Going back to the sources keeps the types.
LEMMA EvalChangeSourceType ==
  ASSUME NEW ans \in Answers, TypeOK, EvalChangeSource(ans)
  PROVE  TypeOK'
<1>1. state' \in States /\ turn' \in Turns
  BY TurnType DEF EvalChangeSource, Moves, States, AuthorStates, Claims
<1> QED
  BY <1>1, MovesType DEF EvalChangeSource

\* Confirming a route, or asking again, keeps the types.
LEMMA RouteConfirmType ==
  ASSUME NEW ans \in Answers, TypeOK, RouteConfirm(ans)
  PROVE  TypeOK'
<1>1. [Turn("routing") EXCEPT !.target = LoadedRoute] \in Turns
  BY DEF Turn, Turns, Claims, LoadedRoute, AuthorStates
<1>2. LoadedRoute \in States /\ state \in States
  BY DEF LoadedRoute, States, AuthorStates, TypeOK, SessionTypeOK
<1>3. Turn("plain") \in Turns
  BY TurnType DEF Claims
<1>4. CASE Has(ans, {"confirm", "review design"})
  BY <1>2, <1>3, <1>4, MovesType DEF RouteConfirm, Moves
<1>5. CASE ~Has(ans, {"confirm", "review design"})
  BY <1>1, <1>2, <1>5, MovesType DEF RouteConfirm, Stays, Moves
<1> QED
  BY <1>4, <1>5

\* A promotion keeps the types, whichever of its writes was the last.
LEMMA PromoteYesType ==
  ASSUME NEW ans \in Answers, TypeOK, PromoteYes(ans)
  PROVE  TypeOK'
<1>1. workflow' \in [of : DesignsOrNone, status : {"absent", "draft", "promoted"}]
      /\ kbCard' \in DesignsOrNone
  BY DEF PromoteYes, PromoteRows, RegisterCard, TypeOK
<1>2. state' \in States /\ turn' \in Turns
  BY TurnType DEF PromoteYes, Stays, Moves, TypeOK, SessionTypeOK, States, Claims
<1> QED
  BY <1>1, <1>2 DEF PromoteYes, TypeOK, SessionTypeOK, DesignsOrNone, results,
                    loop

\* An answer in the publishing half.
LEMMA PublishType ==
  ASSUME NEW ans \in Answers, TypeOK, Publish(ans)
  PROVE  TypeOK'
<1>1. CASE AnswerCommitted(ans)
  BY <1>1, PauseType, RunValidateType DEF AnswerCommitted, Claims
<1>2. CASE AnswerValidate(ans)
  BY <1>2, PauseType, RunValidateType, RunIngestType DEF AnswerValidate, Claims
<1>3. CASE AnswerIngest(ans)
  BY <1>3, PauseType, StaysType, RunIngestType, RunEvalType
  DEF AnswerIngest, Claims
<1>4. CASE EvalClose(ans)
  BY <1>4, PauseType DEF EvalClose, Claims
<1>5. CASE EvalForce(ans)
  BY <1>5, RunPromoteType DEF EvalForce
<1>6. CASE EvalAccept(ans)
  BY <1>6, StaysType, RunPromoteType DEF EvalAccept, Claims
<1>7. CASE EvalReject(ans)
  BY <1>7, StaysType, PauseType, ClassifyType DEF EvalReject, Claims
<1>8. CASE RouteAccept(ans)
  BY <1>8, RunPromoteType DEF RouteAccept
<1>9. CASE PromoteNo(ans)
  BY <1>9, PauseType DEF PromoteNo, Claims
<1> QED
  BY <1>1, <1>2, <1>3, <1>4, <1>5, <1>6, <1>7, <1>8, <1>9, CommitType,
     EvalChangeSourceType, RouteConfirmType, PromoteYesType DEF Publish

\* So does the state after any request.
LEMMA TypeStep == TypeOK /\ [Next]_vars => TypeOK'
<1>1. TypeOK /\ Closed => TypeOK'
  BY StaysType DEF Closed, Claims
<1>2. TypeOK /\ UNCHANGED vars => TypeOK'
  BY DEF vars, TypeOK, SessionTypeOK, DesignsOrNone
<1> QED
  BY <1>1, <1>2, AuthorType, StartAgainType, PublishType DEF Next

(* Every variable keeps its type, whatever the author answers. *)
THEOREM TypeCorrect == Spec => []TypeOK
BY TypeInit, TypeStep, PTL DEF Spec

----------------------------------------------------------------------------
(* The links between the session and the store are inductive. *)

\* A fresh session of an absent skill has the links.
LEMMA LinksInit == Init => Links
BY DEF Init, Links, PreviewHasDesign, CommittedDesign, IngestRan, IngestDone,
       DeltaMatches, LiveSaidAtDone, Turn, Closing,
       PublishStates, DesignKindsAssumption

\* The authoring half does not touch the store or the results.
LEMMA AuthorLinks == TypeOK /\ Links /\ Author => Links'
BY DEF Author, Links, PreviewHasDesign, CommittedDesign, IngestRan, IngestDone,
       DeltaMatches, LiveSaidAtDone, Turn, Closing,
       PublishStates, AuthorStates, store, results

\* A fresh session starts before the commit, where the links ask nothing.
LEMMA StartAgainLinks == TypeOK /\ Links /\ StartAgain => Links'
BY DEF StartAgain, Moves, Links, PreviewHasDesign, CommittedDesign, IngestRan,
       IngestDone, DeltaMatches, LiveSaidAtDone, Turn, Closing,
       PublishStates, store

\* A session that closes without promoting keeps the links.
LEMMA PauseLinks ==
  ASSUME NEW claim \in Claims \ {"live"}, TypeOK, Links, Pause(claim)
  PROVE  Links'
BY DEF Pause, Moves, Links, PreviewHasDesign, CommittedDesign, IngestRan,
       IngestDone, DeltaMatches, LiveSaidAtDone, Turn, Closing,
       PublishStates, store, results

\* A request that changes nothing keeps the links.
LEMMA StaysLinks ==
  ASSUME NEW claim \in Claims \ {"live"}, TypeOK, Links,
         Stays(Turn(claim)) \/ Stays(Closing(claim)),
         UNCHANGED <<design, store, results, loop>>
  PROVE  Links'
BY DEF Stays, Moves, Links, PreviewHasDesign, CommittedDesign, IngestRan,
       IngestDone, DeltaMatches, LiveSaidAtDone, Turn, Closing,
       PublishStates, store, results

\* A commit makes the rows and the design equal, or leaves both.
LEMMA CommitLinks ==
  ASSUME NEW ans \in Answers, TypeOK, Links, Commit(ans)
  PROVE  Links'
<1>1. CASE WriteArtifacts
  <2>1. workflow'.of = design /\ workflow'.status = "draft" /\ design # NoDesign
    BY <1>1 DEF WriteArtifacts, Commit, Links, PreviewHasDesign
  <2>2. DeltaMatches'
    BY <1>1 DEF WriteArtifacts, DeltaMatches
  <2>3. turn'.says # "live"
    <3>1. turn' = Turn("plain") \/ turn' = Turn("not saved") \/ turn' = turn
      BY DEF Commit, Stays, Moves
    <3>2. turn.says # "live"
      BY DEF Commit, Links, LiveSaidAtDone
    <3>3. Turn("plain").says # "live" /\ Turn("not saved").says # "live"
      BY DEF Turn
    <3> QED
      BY <3>1, <3>2, <3>3
  <2> QED
    BY <2>1, <2>2, <2>3
    DEF Commit, Stays, Moves, Links, PreviewHasDesign, CommittedDesign,
        IngestRan, IngestDone, LiveSaidAtDone, PublishStates
<1>2. CASE UNCHANGED store /\ Stays(Turn("not saved"))
  BY <1>2 DEF Commit, Stays, Moves, Turn, Links, PreviewHasDesign,
              CommittedDesign, IngestRan, IngestDone, DeltaMatches,
              LiveSaidAtDone, PublishStates, store, results
<1> QED
  BY <1>1, <1>2 DEF Commit

\* A validation changes neither the design nor the rows.
LEMMA RunValidateLinks ==
  TypeOK /\ Links /\ state \in PublishStates /\ RunValidate => Links'
BY DEF RunValidate, Moves, Links, PreviewHasDesign, CommittedDesign, IngestRan,
       IngestDone, DeltaMatches, LiveSaidAtDone, Turn, Closing,
       PublishStates, store

\* An ingestion reads the design the commit wrote.
LEMMA RunIngestLinks ==
  TypeOK /\ Links /\ state \in PublishStates /\ RunIngest => Links'
BY DEF RunIngest, Moves, Links, PreviewHasDesign, CommittedDesign, IngestRan,
       IngestDone, DeltaMatches, LiveSaidAtDone, Turn, Closing,
       PublishStates, store

\* An evaluation follows an ingestion that completed.
LEMMA RunEvalLinks ==
  TypeOK /\ Links /\ state = "INGEST" /\ ingest.status # "failed" /\ RunEval
    => Links'
BY DEF RunEval, Moves, Links, PreviewHasDesign, CommittedDesign, IngestRan,
       IngestDone, DeltaMatches, LiveSaidAtDone, Turn, Closing,
       PublishStates, store, TypeOK

\* The promotion turn keeps the ingestion the evaluation relied on.
LEMMA RunPromoteLinks ==
  ASSUME NEW mark \in {"accepted", "forced"}, TypeOK, Links, RunPromote(mark),
         state \in {"EVAL", "EVAL_ROUTE_PENDING"}
  PROVE  Links'
BY DEF RunPromote, Moves, Links, PreviewHasDesign, CommittedDesign, IngestRan,
       IngestDone, DeltaMatches, LiveSaidAtDone, Turn, Closing,
       PublishStates, store

\* A classifier call changes nothing the links speak of.
LEMMA ClassifyLinks ==
  ASSUME NEW class, NEW confident, NEW price, TypeOK, Links, state = "EVAL",
         Classify(class, confident, price)
  PROVE  Links'
BY DEF Classify, Moves, Links, PreviewHasDesign, CommittedDesign, IngestRan,
       IngestDone, DeltaMatches, LiveSaidAtDone, Turn, Closing,
       PublishStates, store, results

\* Going back to the authoring half.
LEMMA BackLinks ==
  ASSUME Links, UNCHANGED <<design, store, results, loop>>,
         state' \in AuthorStates \ {"PREVIEW_EXTRACTION"}, turn' = Turn("plain")
  PROVE  Links'
BY DEF Turn, Links, PreviewHasDesign, CommittedDesign, IngestRan, IngestDone,
       DeltaMatches, LiveSaidAtDone, AuthorStates, PublishStates, store, results

\* Confirming a route leaves the rows and the results.
LEMMA RouteConfirmLinks ==
  ASSUME NEW ans \in Answers, TypeOK, Links, RouteConfirm(ans)
  PROVE  Links'
<1>1. CASE Has(ans, {"confirm", "review design"})
  BY <1>1, BackLinks DEF RouteConfirm, Moves, LoadedRoute, AuthorStates
<1>2. CASE ~Has(ans, {"confirm", "review design"})
  <2>1. state' = state /\ turn'.says = "routing"
    BY <1>2 DEF RouteConfirm, Stays, Moves, Turn
  <2>2. UNCHANGED <<design, store, results, loop>>
    BY DEF RouteConfirm
  <2> QED
    BY <2>1, <2>2 DEF Links, PreviewHasDesign, CommittedDesign, IngestRan,
                      IngestDone, DeltaMatches, LiveSaidAtDone, PublishStates,
                      store, results
<1> QED
  BY <1>1, <1>2

\* A promotion says that the skill is live only after all its writes.
LEMMA PromoteYesLinks ==
  ASSUME NEW ans \in Answers, TypeOK, Links, PromoteYes(ans)
  PROVE  Links'
<1>1. /\ workflow'.of = workflow.of
      /\ workflow'.status \in {workflow.status, "promoted"}
  BY DEF PromoteYes, PromoteRows, TypeOK
<1>2. PreviewHasDesign' /\ CommittedDesign' /\ IngestRan' /\ IngestDone'
  BY <1>1 DEF PromoteYes, Stays, Moves, Links, PreviewHasDesign,
              CommittedDesign, IngestRan, IngestDone, PublishStates, results
<1>3. DeltaMatches'
  BY <1>1 DEF PromoteYes, Links, DeltaMatches
<1>4. LiveSaidAtDone'
  <2>1. CASE PromoteRows /\ RegisterCard /\ Moves("DONE", Closing("live"))
    <3>1. workflow'.status = "promoted"
      BY <2>1 DEF PromoteRows, TypeOK
    <3>2. kbCard' # NoDesign /\ (workflow'.of \in FieldDesigns => kbCard' = workflow'.of)
      BY <1>1, <2>1 DEF RegisterCard, Links, DeltaMatches
    <3> QED
      BY <2>1, <3>1, <3>2 DEF Moves, LiveSaidAtDone, LiveClaimTrue, Closing, Turn
  <2>2. CASE Stays(Turn("not live"))
    BY <2>2 DEF Stays, Moves, LiveSaidAtDone, Turn
  <2>3. CASE UNCHANGED <<state, turn>>
    BY <2>3 DEF PromoteYes, Links, LiveSaidAtDone
  <2> QED
    BY <2>1, <2>2, <2>3 DEF PromoteYes
<1> QED
  BY <1>2, <1>3, <1>4 DEF Links

\* Every answer of the publish half keeps the links.
LEMMA PublishLinks ==
  ASSUME NEW ans \in Answers, TypeOK, Links, Publish(ans)
  PROVE  Links'
<1>1. CASE AnswerCommitted(ans)
  BY <1>1, PauseLinks, RunValidateLinks DEF AnswerCommitted, Claims, PublishStates
<1>2. CASE AnswerValidate(ans)
  BY <1>2, PauseLinks, RunValidateLinks, RunIngestLinks
  DEF AnswerValidate, Claims, PublishStates
<1>3. CASE AnswerIngest(ans)
  BY <1>3, PauseLinks, StaysLinks, RunIngestLinks, RunEvalLinks
  DEF AnswerIngest, Claims, PublishStates
<1>4. CASE EvalClose(ans)
  BY <1>4, PauseLinks DEF EvalClose, Claims
<1>5. CASE EvalForce(ans)
  BY <1>5, RunPromoteLinks DEF EvalForce
<1>6. CASE EvalAccept(ans)
  BY <1>6, StaysLinks, RunPromoteLinks DEF EvalAccept, Claims
<1>7. CASE EvalReject(ans)
  BY <1>7, StaysLinks, PauseLinks, ClassifyLinks DEF EvalReject, Claims
<1>8. CASE RouteAccept(ans)
  BY <1>8, RunPromoteLinks DEF RouteAccept
<1>9. CASE PromoteNo(ans)
  BY <1>9, PauseLinks DEF PromoteNo, Claims
<1>10. CASE EvalChangeSource(ans)
  BY <1>10, BackLinks DEF EvalChangeSource, Moves, AuthorStates
<1> QED
  BY <1>1, <1>2, <1>3, <1>4, <1>5, <1>6, <1>7, <1>8, <1>9, CommitLinks,
     RouteConfirmLinks, PromoteYesLinks, <1>10 DEF Publish

\* So does every request.
LEMMA LinksStep == TypeOK /\ Links /\ [Next]_vars => Links'
<1>1. TypeOK /\ Links /\ Closed => Links'
  BY StaysLinks DEF Closed, Claims
<1>2. Links /\ UNCHANGED vars => Links'
  BY DEF vars, Links, PreviewHasDesign, CommittedDesign, IngestRan, IngestDone,
         DeltaMatches, LiveSaidAtDone, LiveClaimTrue
<1> QED
  BY <1>1, <1>2, AuthorLinks, StartAgainLinks, PublishLinks DEF Next

\* The types and the links hold in every reachable state.
LEMMA Invariance == Spec => []IndInv
<1>1. Init => IndInv
  BY TypeInit, LinksInit DEF IndInv
<1>2. IndInv /\ [Next]_vars => IndInv'
  BY TypeStep, LinksStep DEF IndInv
<1> QED
  BY <1>1, <1>2, PTL DEF Spec

(* What is evaluated, routed or promoted has been ingested, successfully and
   from the content the store holds. *)
THEOREM IngestedContentHolds == Spec => []IngestedContent
<1>1. IndInv => IngestedContent
  BY DEF IndInv, Links, CommittedDesign, IngestDone, IngestedContent, PublishStates
<1> QED
  BY <1>1, Invariance, PTL

(* A skill said to be live is listed by routing and has its own card. *)
THEOREM LiveClaimTrueHolds == Spec => []LiveClaimTrue
<1>1. IndInv => LiveClaimTrue
  BY DEF IndInv, Links, LiveSaidAtDone, LiveClaimTrue
<1> QED
  BY <1>1, Invariance, PTL

----------------------------------------------------------------------------
(* The routing loop, the audit trail and the card. *)

\* Requests that touch neither the loop nor what PROMOTE shows of the evaluation.
Calm == UNCHANGED loop /\ (state' # "PROMOTE" \/ UNCHANGED <<state, eval>>)

\* The bounds and the audit trail survive such a request.
LEMMA CalmKeeps ==
  ASSUME LoopBounded, PromotionAudited, Calm
  PROVE  LoopBounded' /\ PromotionAudited'
BY DEF Calm, LoopBounded, PromotionAudited, loop, NoEval

\* Stamping the decision leaves no unmarked evaluation at PROMOTE.
LEMMA RunPromoteAudited ==
  ASSUME NEW mark \in {"accepted", "forced"}, TypeOK, LoopBounded, RunPromote(mark)
  PROVE  LoopBounded' /\ PromotionAudited'
<1>1. CASE eval = NoEval
  BY <1>1 DEF RunPromote, LoopBounded, PromotionAudited, loop, NoEval
<1>2. CASE eval # NoEval
  <2>1. eval' = [eval EXCEPT !.mark = mark]
    BY <1>2 DEF RunPromote
  <2>2. eval'.mark = mark
    BY <2>1 DEF TypeOK
  <2> QED
    BY <2>2 DEF RunPromote, LoopBounded, PromotionAudited, loop
<1> QED
  BY <1>1, <1>2

\* One classifier call, made only while neither limit is reached.
LEMMA ClassifyBounded ==
  ASSUME NEW class \in FailureClasses, NEW confident \in BOOLEAN,
         NEW price \in CallCosts, TypeOK, ~LoopExhausted,
         Classify(class, confident, price)
  PROVE  LoopBounded' /\ PromotionAudited'
<1>1. iterations' <= MaxIterations
  BY LoopAssumption DEF Classify, LoopExhausted, TypeOK
<1>2. ASSUME NEW most \in CallCosts, \A other \in CallCosts : other <= most
      PROVE  cost' <= CostCeiling + most
  <2>1. price <= most
    BY <1>2
  <2> QED
    BY <2>1, LoopAssumption DEF Classify, LoopExhausted, TypeOK
<1>3. state' # "PROMOTE"
  BY DEF Classify, Moves
<1> QED
  BY <1>1, <1>2, <1>3 DEF LoopBounded, PromotionAudited

\* Every answer of the publish half keeps both.
LEMMA PublishKeeps ==
  ASSUME NEW ans \in Answers, TypeOK, LoopBounded, PromotionAudited, Publish(ans)
  PROVE  LoopBounded' /\ PromotionAudited'
<1>1. CASE Commit(ans)
  BY <1>1, CalmKeeps DEF Commit, Stays, Moves, Calm, loop
<1>2. CASE AnswerCommitted(ans)
  BY <1>2, CalmKeeps DEF AnswerCommitted, Pause, RunValidate, Moves, Calm
<1>3. CASE AnswerValidate(ans)
  BY <1>3, CalmKeeps DEF AnswerValidate, Pause, RunValidate, RunIngest, Moves, Calm
<1>4. CASE AnswerIngest(ans)
  BY <1>4, CalmKeeps
  DEF AnswerIngest, Pause, RunIngest, RunEval, Stays, Moves, Calm
<1>5. CASE EvalChangeSource(ans)
  BY <1>5, CalmKeeps DEF EvalChangeSource, Moves, Calm
<1>6. CASE EvalClose(ans)
  BY <1>6, CalmKeeps DEF EvalClose, Pause, Moves, Calm
<1>7. CASE EvalForce(ans)
  BY <1>7, RunPromoteAudited DEF EvalForce
<1>8. CASE EvalAccept(ans)
  BY <1>8, CalmKeeps, RunPromoteAudited DEF EvalAccept, Stays, Moves, Calm
<1>9. CASE EvalReject(ans)
  BY <1>9, CalmKeeps, ClassifyBounded DEF EvalReject, Pause, Stays, Moves, Calm
<1>10. CASE RouteAccept(ans)
  BY <1>10, RunPromoteAudited DEF RouteAccept
<1>11. CASE RouteConfirm(ans)
  BY <1>11, CalmKeeps DEF RouteConfirm, LoadedRoute, Stays, Moves, Calm
<1>12. CASE PromoteYes(ans)
  BY <1>12, CalmKeeps DEF PromoteYes, Stays, Moves, Calm, results
<1>13. CASE PromoteNo(ans)
  BY <1>13, CalmKeeps DEF PromoteNo, Pause, Moves, Calm
<1> QED
  BY <1>1, <1>2, <1>3, <1>4, <1>5, <1>6, <1>7, <1>8, <1>9, <1>10, <1>11, <1>12,
     <1>13 DEF Publish

\* A new session starts the counters again; the authoring half leaves them.
LEMMA LoopAuditStep ==
  TypeOK /\ LoopBounded /\ PromotionAudited /\ [Next]_vars
    => LoopBounded' /\ PromotionAudited'
<1>1. LoopBounded /\ PromotionAudited /\ Author => LoopBounded' /\ PromotionAudited'
  BY CalmKeeps DEF Author, AuthorStates, Calm
<1>2. StartAgain => LoopBounded' /\ PromotionAudited'
  BY LoopAssumption
  DEF StartAgain, FreshResults, Moves, LoopBounded, PromotionAudited
<1>3. LoopBounded /\ PromotionAudited /\ Closed => LoopBounded' /\ PromotionAudited'
  BY CalmKeeps DEF Closed, Stays, Moves, Calm
<1>4. LoopBounded /\ PromotionAudited /\ UNCHANGED vars
        => LoopBounded' /\ PromotionAudited'
  BY CalmKeeps DEF vars, Calm, loop
<1> QED
  BY <1>1, <1>2, <1>3, <1>4, PublishKeeps DEF Next

(* The failure classifier is called at most MaxIterations times in a session,
   and at most one call goes past the cost ceiling. *)
THEOREM LoopBoundedHolds == Spec => []LoopBounded
<1>1. Init => LoopBounded /\ PromotionAudited
  BY LoopAssumption DEF Init, LoopBounded, PromotionAudited
<1>2. TypeOK /\ (LoopBounded /\ PromotionAudited) /\ [Next]_vars
        => (LoopBounded /\ PromotionAudited)'
  BY LoopAuditStep
<1> QED
  BY <1>1, <1>2, TypeCorrect, PTL DEF Spec

(* A session at PROMOTE that evaluated anything carries the decision. *)
THEOREM PromotionAuditedHolds == Spec => []PromotionAudited
<1>1. Init => LoopBounded /\ PromotionAudited
  BY LoopAssumption DEF Init, LoopBounded, PromotionAudited
<1>2. TypeOK /\ (LoopBounded /\ PromotionAudited) /\ [Next]_vars
        => (LoopBounded /\ PromotionAudited)'
  BY LoopAuditStep
<1> QED
  BY <1>1, <1>2, TypeCorrect, PTL DEF Spec

\* The one request that writes a card has promoted the rows before.
LEMMA CardStep ==
  TypeOK /\ [Next]_vars
    => (kbCard' # kbCard => workflow'.status = "promoted" /\ kbCard' = delta)
<1>1. ASSUME TypeOK, NEW ans \in Answers, PromoteYes(ans), kbCard' # kbCard
      PROVE  workflow'.status = "promoted" /\ kbCard' = delta
  BY <1>1 DEF PromoteYes, PromoteRows, RegisterCard, TypeOK
<1>2. ASSUME NEW ans \in Answers, Publish(ans), ~PromoteYes(ans)
      PROVE  UNCHANGED kbCard
  BY <1>2 DEF Publish, Commit, WriteArtifacts, AnswerCommitted, AnswerValidate,
     AnswerIngest, EvalChangeSource, EvalClose, EvalForce, EvalAccept, EvalReject,
     RouteAccept, RouteConfirm, PromoteNo, Pause, RunValidate, RunIngest, RunEval,
     RunPromote, Classify, store
<1>3. Author \/ StartAgain \/ Closed \/ UNCHANGED vars => UNCHANGED kbCard
  BY DEF Author, StartAgain, Closed, vars, store
<1> QED
  BY <1>1, <1>2, <1>3 DEF Next

(* Whatever dies half way, a card is only written for rows that are live, and
   from the delta of the store. *)
THEOREM CardFollowsRowsHolds == Spec => CardFollowsRows
<1>1. TypeOK /\ [Next]_vars
        => [kbCard' # kbCard => workflow'.status = "promoted" /\ kbCard' = delta]_vars
  BY CardStep
<1> QED
  BY <1>1, TypeCorrect, PTL DEF Spec, CardFollowsRows
----------------------------------------------------------------------------
(***************************************************************************)
(* SkillPublish implements SkillLifecycle.  Under the refinement mapping   *)
(* Lifecycle a commit drafts the session's design, an ingestion fills the  *)
(* stored content, a fresh session forgets it and the first promotion of   *)
(* the rows publishes them; every other request stutters.  The inductive   *)
(* invariant gives the abstract guards: what is committed is a design,     *)
(* what is ingested is the stored content, and what is promoted was        *)
(* ingested.                                                               *)
(***************************************************************************)

\* One step of the promise, or none.
Promised == [Lifecycle!Next]_(Lifecycle!vars)

\* The promise speaks of the workflow row and the ingestion only.
LEMMA QuietStep ==
  ASSUME UNCHANGED <<workflow, ingest>>
  PROVE  Promised
BY DEF Promised, Lifecycle!vars

\* A fresh session of an absent skill starts the promise.
LEMMA PromiseInit == Init => Lifecycle!Init
BY DEF Init, NoIngest, Lifecycle!Init

\* Writing the rows drafts the design of the session.
LEMMA CommitPromised ==
  ASSUME NEW ans \in Answers, IndInv, Commit(ans)
  PROVE  Promised
<1>1. CASE WriteArtifacts
  <2>1. design \in Designs
    BY DEF Commit, IndInv, TypeOK, SessionTypeOK, Links, PreviewHasDesign
  <2>2. Lifecycle!Draft(design)
    BY <1>1 DEF WriteArtifacts, Commit, results, Lifecycle!Draft
  <2> QED
    BY <2>1, <2>2 DEF Promised, Lifecycle!Next
<1>2. CASE UNCHANGED store
  BY <1>2, QuietStep DEF Commit, store, results
<1> QED
  BY <1>1, <1>2 DEF Commit

\* An ingestion fills the content the rows hold, or nothing.
LEMMA RunIngestPromised ==
  ASSUME IndInv, state \in PublishStates, RunIngest
  PROVE  Promised
<1>1. workflow.of = design /\ workflow.status # "absent"
  BY DEF IndInv, Links, CommittedDesign
<1>2. ingest' \in [of : {design}, status : {"completed", "failed"}]
      /\ UNCHANGED workflow
  BY DEF RunIngest, store
<1>3. Lifecycle!Fill
  BY <1>1, <1>2 DEF Lifecycle!Fill
<1> QED
  BY <1>3 DEF Promised, Lifecycle!Next

\* A first promotion publishes what was ingested; a repeated one stutters.
LEMMA PromoteYesPromised ==
  ASSUME NEW ans \in Answers, IndInv, PromoteYes(ans)
  PROVE  Promised
<1>1. UNCHANGED ingest /\ state = "PROMOTE"
  BY DEF PromoteYes, results
<1>2. CASE UNCHANGED workflow
  BY <1>1, <1>2, QuietStep
<1>3. CASE PromoteRows
  <2>1. /\ workflow' = [workflow EXCEPT !.status = "promoted"]
        /\ workflow'.of = workflow.of /\ workflow'.status = "promoted"
    BY <1>3 DEF PromoteRows, IndInv, TypeOK
  <2>2. CASE workflow.status = "promoted"
    <3>1. workflow' = workflow
      BY <2>1, <2>2 DEF IndInv, TypeOK
    <3> QED
      BY <3>1, <1>1, QuietStep
  <2>3. CASE workflow.status = "draft"
    <3>1. ingest.status = "completed" /\ ingest.of = workflow.of
      BY <1>1 DEF IndInv, Links, IngestDone, CommittedDesign, PublishStates
    <3>2. Lifecycle!Publish
      BY <1>1, <2>1, <2>3, <3>1 DEF Lifecycle!Publish
    <3> QED
      BY <3>2 DEF Promised, Lifecycle!Next
  <2>4. workflow.status \in {"draft", "promoted"}
    BY <1>1 DEF IndInv, TypeOK, Links, CommittedDesign, PublishStates
  <2> QED
    BY <2>2, <2>3, <2>4
<1> QED
  BY <1>2, <1>3 DEF PromoteYes

\* Every answer of the publish half keeps the promise.
LEMMA PublishPromised ==
  ASSUME NEW ans \in Answers, IndInv, Publish(ans)
  PROVE  Promised
<1>1. CASE AnswerCommitted(ans)
  BY <1>1, QuietStep DEF AnswerCommitted, Pause, RunValidate, store, results
<1>2. CASE AnswerValidate(ans)
  BY <1>2, QuietStep, RunIngestPromised
  DEF AnswerValidate, Pause, RunValidate, PublishStates, store, results
<1>3. CASE AnswerIngest(ans)
  BY <1>3, QuietStep, RunIngestPromised
  DEF AnswerIngest, Pause, RunEval, PublishStates, store, results
<1>4. CASE EvalChangeSource(ans) \/ EvalClose(ans) \/ PromoteNo(ans)
  BY <1>4, QuietStep
  DEF EvalChangeSource, EvalClose, PromoteNo, Pause, store, results
<1>5. CASE EvalForce(ans) \/ EvalAccept(ans) \/ RouteAccept(ans)
  BY <1>5, QuietStep DEF EvalForce, EvalAccept, RouteAccept, RunPromote, store, results
<1>6. CASE EvalReject(ans)
  BY <1>6, QuietStep DEF EvalReject, Classify, Pause, store, results
<1>7. CASE RouteConfirm(ans)
  BY <1>7, QuietStep DEF RouteConfirm, store, results
<1> QED
  BY <1>1, <1>2, <1>3, <1>4, <1>5, <1>6, <1>7, CommitPromised, PromoteYesPromised
  DEF Publish

\* So does every request.
LEMMA StepPromised == IndInv /\ [Next]_vars => Promised
<1>1. Author => Promised
  BY QuietStep DEF Author, store, results
<1>2. StartAgain => Promised
  <2>1. StartAgain => Lifecycle!Forget
    BY DEF StartAgain, FreshResults, NoIngest, store, Lifecycle!Forget
  <2> QED
    BY <2>1 DEF Promised, Lifecycle!Next
<1>3. Closed => Promised
  BY QuietStep DEF Closed, store, results
<1>4. UNCHANGED vars => Promised
  BY QuietStep DEF vars
<1> QED
  BY <1>1, <1>2, <1>3, <1>4, PublishPromised DEF Next

(* The publish half of the conversation, with the rows and the card it leaves
   behind, keeps the promise about one skill: nothing goes live but content
   whose own ingestion completed, and replacing live content takes the skill
   back to draft. *)
THEOREM LifecycleImplemented == Spec => ImplementsLifecycle
<1>1. IndInv /\ [Next]_vars => [Lifecycle!Next]_(Lifecycle!vars)
  BY StepPromised DEF Promised
<1> QED
  BY <1>1, PromiseInit, Invariance, PTL DEF Spec, ImplementsLifecycle, Lifecycle!Spec
=============================================================================
