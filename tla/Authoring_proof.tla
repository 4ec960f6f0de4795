-------------------------- MODULE Authoring_proof --------------------------
(***************************************************************************)
(* Proofs about the two halves of an authoring session before it publishes *)
(* anything: SkillDesign, the questions and the design, and EvalRun, the   *)
(* evaluation and its gate.                                                *)
(*                                                                         *)
(* SkillDesign, for any sources, artifacts, designs, answers and numbers   *)
(* of questions: types, QuestionsAnswered, DesignGrounded and              *)
(* RequiredReference.  Two facts make them inductive: no question has been *)
(* asked before the intent is settled, so that none is answered by an      *)
(* older one's mode (Asked); and between the inspection and the design the *)
(* samples are those of the sources (Sampled).                             *)
(*                                                                         *)
(* EvalRun, for any designs, queries, samples, fields, artifacts and any   *)
(* threshold: types, GateHolds, ScoresSound and, for any reference,        *)
(* SameHasNoGaps.  GateHolds looks at a promoted session; what makes it    *)
(* inductive is that the verdict, of the run as of the saved result, tells *)
(* whether an assertion failed (Fair), also that none fails without a      *)
(* query of the design, which the gate takes as its sign that the test     *)
(* ran.  SameHasNoGaps needs that the words counted under a name are no    *)
(* fewer than those of one slide of it (WordsAtLeast), for any number of   *)
(* slides: an induction over sets, made here from the least number for     *)
(* which the statement fails.                                              *)
(***************************************************************************)
EXTENDS SkillDesign, EvalRun, FiniteSetTheorems, WellFoundedInduction, TLAPS

References == Artifacts \cup {NoArtifact}
Questions == [asks : Kinds, resolved : BOOLEAN]

(* Every variable has its type. *)
TypeOK ==
  /\ SessionTypeOK
  /\ mode \in Modes /\ templated \in BOOLEAN
  /\ questions \in Seq(Questions)
  /\ clarifyNext \in {"CONFIGURE_SOURCES", "REVIEW_DESIGN"}
  /\ sources \subseteq Sources /\ samples \subseteq Inspectable
  /\ {artifact, stash} \subseteq References
  /\ required \in BOOLEAN /\ format \in Formats
  /\ basis \in [samples : SUBSET Inspectable, artifact : References]

Asked ==
  /\ QuestionsAnswered
  /\ state \in {"IDENTIFY_PERSONA", "CAPTURE_INTENT"} => questions = << >>

Sampled ==
  state \in {"INSPECT_SOURCES", "UPLOAD_ARTIFACT_EXAMPLE"}
    => samples # {} /\ samples = sources \cap Inspectable

IndInv == TypeOK /\ Asked /\ Sampled /\ DesignGrounded /\ RequiredReference

----------------------------------------------------------------------------
(* Turns, questions, sources. *)

LEMMA TurnTypes ==
  ASSUME NEW c \in Claims
  PROVE  Turn(c) \in Turns /\ Closing(c) \in Turns
BY DEF Turn, Closing, Turns

LEMMA MovesTyped ==
  ASSUME NEW to \in States, Moves(to)
  PROVE  state' = to /\ turn' \in Turns
BY TurnTypes DEF Moves, Claims

\* A list of questions, just asked: there are some, and none has its answer.
LEMMA AskedAll ==
  ASSUME NEW kinds \in KindLists
  PROVE  /\ AskAll(kinds) \in Seq(Questions) /\ Open(AskAll(kinds)) # {}
         /\ \A i \in DOMAIN AskAll(kinds) : ~AskAll(kinds)[i].resolved
<1>1. PICK n \in 1..MaxQuestions : kinds \in [1..n -> Kinds]
  BY DEF KindLists
<1>2. n \in Nat /\ 1 \in 1..n
  BY QuestionsAssumption
<1> DEFINE qs == AskAll(kinds)
<1>3. DOMAIN qs = 1..n /\ \A i \in 1..n : qs[i] = [asks |-> kinds[i], resolved |-> FALSE]
  BY <1>1 DEF AskAll
<1>4. qs \in [1..n -> Questions]
  BY <1>1 DEF AskAll, Questions
<1>5. qs \in Seq(Questions)
  BY <1>2, <1>4
<1>6. \A i \in DOMAIN qs : ~qs[i].resolved
  BY <1>3
<1>7. 1 \in Open(qs)
  BY <1>2, <1>3, <1>6 DEF Open
<1> QED
  BY <1>5, <1>6, <1>7

LEMMA EnterClarifyAsked ==
  ASSUME NEW kinds \in KindLists, NEW next, EnterClarify(kinds, next)
  PROVE  /\ state' = "CLARIFY" /\ turn' \in Turns /\ clarifyNext' = next
         /\ questions' \in Seq(Questions) /\ Asked'
<1>1. state' = "CLARIFY" /\ turn' \in Turns
  BY MovesTyped DEF EnterClarify, States, AuthorStates
<1>2. questions' = AskAll(kinds) /\ clarifyNext' = next
  BY DEF EnterClarify
<1> QED
  BY <1>1, <1>2, AskedAll DEF Asked, QuestionsAnswered

\* Outside CLARIFY, steps that do not ask leave the questions as they were.
LEMMA NothingAsked ==
  ASSUME Asked, UNCHANGED <<mode, questions>>, state # "CLARIFY", state' # "CLARIFY",
         state' \in {"IDENTIFY_PERSONA", "CAPTURE_INTENT"}
           => state \in {"IDENTIFY_PERSONA", "CAPTURE_INTENT"}
  PROVE  Asked'
BY DEF Asked, QuestionsAnswered

LEMMA Proposed ==
  ASSUME ProposeSources, TypeOK
  PROVE  state' = "CONFIGURE_SOURCES" /\ turn' \in Turns /\ sources' \subseteq Sources
BY MovesTyped DEF ProposeSources, TypeOK, States, AuthorStates

\* A state in which no design is held to anything.
Undesigned == state \notin {"CLARIFY", "INSPECT_SOURCES", "UPLOAD_ARTIFACT_EXAMPLE",
  "DESIGN_SKILL", "REVIEW_DESIGN", "CONFIGURE_TRIGGERS", "PREVIEW_EXTRACTION"} \cup PublishStates

LEMMA UndesignedInv ==
  ASSUME Undesigned
  PROVE  Sampled /\ DesignGrounded /\ RequiredReference
BY DEF Undesigned, Sampled, DesignGrounded, RequiredReference, Designed

----------------------------------------------------------------------------
(* Persona, intent, sources, clarification. *)

LEMMA CaptureInv ==
  ASSUME IndInv, state \in {"IDENTIFY_PERSONA", "CAPTURE_INTENT"}, CaptureIntent
  PROVE  IndInv'
<1>1. TypeOK /\ Asked /\ mode' \in Modes /\ templated' \in BOOLEAN
      /\ UNCHANGED <<samples, reference, result>>
  BY DEF IndInv, CaptureIntent, ReadIntent
<1>2. ASSUME NEW kinds \in KindLists, EnterClarify(kinds, "CONFIGURE_SOURCES"), UNCHANGED sources
      PROVE  IndInv'
  <2>1. /\ state' = "CLARIFY" /\ turn' \in Turns /\ clarifyNext' = "CONFIGURE_SOURCES"
        /\ questions' \in Seq(Questions) /\ Asked'
    BY <1>2, EnterClarifyAsked
  <2>2. TypeOK'
    BY <1>1, <1>2, <2>1 DEF TypeOK, SessionTypeOK, States, AuthorStates, reference, result
  <2>3. (Sampled /\ DesignGrounded /\ RequiredReference)'
    BY <2>1 DEF Sampled, DesignGrounded, RequiredReference, Designed, PublishStates
  <2> QED
    BY <2>1, <2>2, <2>3 DEF IndInv
<1>3. ASSUME state' \in {"CONFIGURE_SOURCES", "CAPTURE_INTENT"}, turn' \in Turns,
             sources' \subseteq Sources, UNCHANGED clarify
      PROVE  IndInv'
  <2>1. TypeOK'
    BY <1>1, <1>3 DEF TypeOK, SessionTypeOK, States, AuthorStates, reference, result, clarify
  <2>2. Asked'
    BY <1>1, <1>3 DEF Asked, QuestionsAnswered, clarify
  <2>3. Undesigned'
    BY <1>3 DEF Undesigned, PublishStates
  <2> QED
    BY <2>1, <2>2, <2>3, UndesignedInv, PTL DEF IndInv
<1>4. CASE ProposeSources /\ UNCHANGED clarify
  BY <1>1, <1>3, <1>4, Proposed
<1>5. CASE Moves("CAPTURE_INTENT") /\ UNCHANGED <<clarify, sources>>
  BY <1>1, <1>3, <1>5, MovesTyped DEF States, AuthorStates, TypeOK
<1> QED
  BY <1>2, <1>4, <1>5 DEF CaptureIntent

\* What a step that leaves the sources, the questions and the reference alone may do.
LEMMA OnwardInv ==
  ASSUME IndInv, UNCHANGED <<intent, clarify, inputs, artifact, required, basis>>,
         stash' \in References, format' \in Formats, state' \in States, turn' \in Turns,
         design' = design \/ design' \in Designs,
         state' = state \/ "CLARIFY" \notin {state, state'},
         state' \in {"IDENTIFY_PERSONA", "CAPTURE_INTENT", "INSPECT_SOURCES", "UPLOAD_ARTIFACT_EXAMPLE"}
           => state' = state,
         Designed' => Designed
  PROVE  IndInv'
<1>1. TypeOK'
  BY DEF IndInv, TypeOK, SessionTypeOK, intent, clarify, inputs
<1>2. Asked'
  BY DEF IndInv, Asked, QuestionsAnswered, intent, clarify
<1>3. Sampled'
  BY DEF IndInv, Sampled, inputs
<1>4. DesignGrounded' /\ RequiredReference'
  BY NoDesignAssumption DEF IndInv, DesignGrounded, RequiredReference, inputs
<1> QED
  BY <1>1, <1>2, <1>3, <1>4 DEF IndInv

\* The way to, or within, CONFIGURE_SOURCES.
LEMMA SourcesInv ==
  ASSUME IndInv, state # "CLARIFY", state' = "CONFIGURE_SOURCES", turn' \in Turns,
         sources' \subseteq Sources,
         UNCHANGED <<intent, clarify, samples, reference, result>>
  PROVE  IndInv'
<1>1. TypeOK'
  BY DEF IndInv, TypeOK, SessionTypeOK, States, AuthorStates, intent, clarify, reference, result
<1>2. Asked'
  BY NothingAsked DEF IndInv, intent, clarify
<1>3. Undesigned'
  BY DEF Undesigned, PublishStates
<1>4. (Sampled /\ DesignGrounded /\ RequiredReference)'
  BY <1>3, UndesignedInv, PTL
<1> QED
  BY <1>1, <1>2, <1>4 DEF IndInv

LEMMA IdentifyInv ==
  ASSUME IndInv, IdentifyPersona
  PROVE  IndInv'
<1>1. CASE CaptureIntent
  BY <1>1, CaptureInv DEF IdentifyPersona
<1>2. CASE Stays /\ UNCHANGED <<intent, clarify, inputs, reference, result>>
  <2>1. state' = state /\ turn' \in Turns /\ state' \in States
    BY <1>2, MovesTyped DEF Stays, IndInv, TypeOK, SessionTypeOK
  <2>2. stash' \in References /\ format' \in Formats
        /\ UNCHANGED <<intent, clarify, inputs, artifact, required, basis, design>>
    BY <1>2 DEF IndInv, TypeOK, reference, result
  <2>3. Designed' => Designed
    BY <2>1, <2>2 DEF Designed, clarify
  <2> QED
    BY <2>1, <2>2, <2>3, OnwardInv
<1> QED
  BY <1>1, <1>2 DEF IdentifyPersona

LEMMA IntentInv ==
  ASSUME NEW ans \in Answers, IndInv, AnswerIntent(ans)
  PROVE  IndInv'
<1>1. CASE ProposeSources /\ UNCHANGED <<intent, clarify, samples, reference, result>>
  BY <1>1, Proposed, SourcesInv DEF IndInv, AnswerIntent
<1> QED
  BY <1>1, CaptureInv DEF AnswerIntent

LEMMA AddSourceInv ==
  ASSUME NEW ans \in Answers, IndInv, AddSource(ans)
  PROVE  IndInv'
<1>1. state = "CONFIGURE_SOURCES" /\ state' = "CONFIGURE_SOURCES" /\ turn' \in Turns
  BY MovesTyped DEF AddSource, Stays, States, AuthorStates
<1>2. sources' \subseteq Sources
  BY DEF IndInv, TypeOK, AddSource
<1> QED
  BY <1>1, <1>2, SourcesInv DEF AddSource

LEMMA SetAsideInv ==
  ASSUME NEW ans \in Answers, IndInv, SetAside(ans)
  PROVE  IndInv'
<1>1. state' = state /\ turn' \in Turns /\ state' \in States
  BY MovesTyped DEF SetAside, Stays, IndInv, TypeOK, SessionTypeOK
<1>2. /\ stash' \in References /\ format' \in Formats
      /\ UNCHANGED <<intent, clarify, inputs, artifact, required, basis, design>>
  BY DEF SetAside, IndInv, TypeOK, References, result
<1>3. Designed' => Designed
  BY <1>1, <1>2 DEF Designed, clarify
<1> QED
  BY <1>1, <1>2, <1>3, OnwardInv

LEMMA QuestionInv ==
  ASSUME NEW ans \in Answers, IndInv, AnswerQuestion(ans)
  PROVE  IndInv'
<1>1. /\ state = "CLARIFY" /\ TypeOK /\ QuestionsAnswered
      /\ UNCHANGED <<templated, clarifyNext, samples, reference, result>>
  BY DEF IndInv, Asked, AnswerQuestion
<1>2. PICK i \in DOMAIN questions :
        /\ FirstOpen(i)
        /\ questions' = [questions EXCEPT ![i].resolved = TRUE]
        /\ mode' = IF questions[i].asks = "binding" THEN AnsweredMode(ans) ELSE mode
  BY DEF AnswerQuestion
<1> DEFINE x == [questions[i] EXCEPT !.resolved = TRUE]
<1>3. questions[i] \in Questions /\ questions \in [1..Len(questions) -> Questions]
  BY <1>1 DEF TypeOK
<1>4. x \in Questions /\ x.resolved /\ x.asks = questions[i].asks
  BY <1>3 DEF Questions
<1>5. questions' = [questions EXCEPT ![i] = x]
  BY <1>2
<1> HIDE DEF x
<1>6. /\ questions' \in Seq(Questions) /\ DOMAIN questions' = DOMAIN questions
      /\ questions'[i] = x /\ \A j \in DOMAIN questions : j # i => questions'[j] = questions[j]
  BY <1>1, <1>3, <1>4, <1>5 DEF TypeOK
<1>7. AnsweredMode(ans) \in Modes /\ AnsweredMode(ans) # "ambiguous"
  BY DEF AnsweredMode, Modes
<1>8. mode' \in Modes
  BY <1>1, <1>2, <1>7 DEF TypeOK
<1>9. \A j \in DOMAIN questions' :
        questions'[j].asks = "binding" /\ questions'[j].resolved => mode' # "ambiguous"
  BY <1>1, <1>2, <1>4, <1>6, <1>7 DEF QuestionsAnswered
<1>10. CASE Open(questions') # {} /\ Stays /\ UNCHANGED sources
  <2>1. state' = "CLARIFY" /\ turn' \in Turns
    BY <1>1, <1>10, MovesTyped DEF Stays, States, AuthorStates
  <2>2. TypeOK'
    BY <1>1, <1>6, <1>8, <1>10, <2>1
       DEF TypeOK, SessionTypeOK, States, AuthorStates, reference, result
  <2>3. Asked'
    BY <1>9, <1>10, <2>1 DEF Asked, QuestionsAnswered
  <2>4. Sampled' /\ DesignGrounded' /\ RequiredReference'
    BY <1>1, <1>10, <2>1
       DEF IndInv, Sampled, DesignGrounded, RequiredReference, Designed, PublishStates, reference, result
  <2> QED
    BY <2>2, <2>3, <2>4 DEF IndInv
<1>11. CASE Open(questions') = {} /\ clarifyNext = "REVIEW_DESIGN"
            /\ Moves("REVIEW_DESIGN") /\ UNCHANGED sources
  <2>1. state' = "REVIEW_DESIGN" /\ turn' \in Turns
    BY <1>11, MovesTyped DEF States, AuthorStates
  <2>2. TypeOK'
    BY <1>1, <1>6, <1>8, <1>11, <2>1
       DEF TypeOK, SessionTypeOK, States, AuthorStates, reference, result
  <2>3. Asked'
    BY <1>9, <1>11, <2>1 DEF Asked, QuestionsAnswered
  <2>4. Designed
    BY <1>1, <1>11 DEF Designed
  <2>5. Sampled' /\ DesignGrounded' /\ RequiredReference'
    BY <1>1, <1>11, <2>1, <2>4
       DEF IndInv, Sampled, DesignGrounded, RequiredReference, reference, result
  <2> QED
    BY <2>2, <2>3, <2>5 DEF IndInv
<1>12. CASE Open(questions') = {} /\ ProposeSources
  <2>1. state' = "CONFIGURE_SOURCES" /\ turn' \in Turns /\ sources' \subseteq Sources
    BY <1>1, <1>12, Proposed
  <2>2. TypeOK'
    BY <1>1, <1>6, <1>8, <2>1
       DEF TypeOK, SessionTypeOK, States, AuthorStates, reference, result
  <2>3. Asked'
    BY <1>9, <1>12, <2>1 DEF Asked, QuestionsAnswered
  <2>4. Undesigned'
    BY <2>1 DEF Undesigned, PublishStates
  <2>5. (Sampled /\ DesignGrounded /\ RequiredReference)'
    BY <2>4, UndesignedInv, PTL
  <2> QED
    BY <2>2, <2>3, <2>5 DEF IndInv
<1> QED
  BY <1>10, <1>11, <1>12 DEF AnswerQuestion

----------------------------------------------------------------------------
(* The inspection and the reference artifact. *)

LEMMA InspectInv ==
  ASSUME NEW ans \in Answers, IndInv, InspectSources(ans)
  PROVE  IndInv'
<1>1. /\ state' = "INSPECT_SOURCES" /\ turn' \in Turns /\ state = "CONFIGURE_SOURCES"
      /\ UNCHANGED <<intent, clarify, sources, reference, result>>
      /\ samples' = sources \cap Inspectable /\ samples' # {}
  BY MovesTyped DEF InspectSources, Inspected, States, AuthorStates
<1>2. TypeOK'
  BY <1>1 DEF IndInv, TypeOK, SessionTypeOK, States, AuthorStates, intent, clarify, reference, result
<1>3. Asked'
  BY <1>1, NothingAsked DEF IndInv, intent, clarify
<1>4. Sampled' /\ ~Designed'
  BY <1>1 DEF Sampled, Designed, PublishStates
<1> QED
  BY <1>2, <1>3, <1>4 DEF IndInv, DesignGrounded, RequiredReference

\* Between the inspection and the design, "required" may be settled again and an
\* artifact bound or set aside.
LEMMA WaitingInv ==
  ASSUME IndInv, state \in {"INSPECT_SOURCES", "UPLOAD_ARTIFACT_EXAMPLE"},
         state' \in {"INSPECT_SOURCES", "UPLOAD_ARTIFACT_EXAMPLE"}, turn' \in Turns,
         UNCHANGED <<intent, clarify, inputs, result>>,
         required' \in BOOLEAN, {artifact', stash'} \subseteq References
  PROVE  IndInv'
<1>1. TypeOK'
  BY DEF IndInv, TypeOK, SessionTypeOK, States, AuthorStates, intent, clarify, inputs, result
<1>2. Asked'
  BY NothingAsked DEF IndInv, intent, clarify
<1>3. Sampled' /\ ~Designed'
  BY DEF IndInv, Sampled, Designed, PublishStates, inputs
<1> QED
  BY <1>1, <1>2, <1>3 DEF IndInv, DesignGrounded, RequiredReference

LEMMA ConfirmInv ==
  ASSUME NEW ans \in Answers, IndInv, ConfirmInspection(ans)
  PROVE  IndInv'
<1>1. /\ state = "INSPECT_SOURCES" /\ TypeOK
      /\ state' \in {"INSPECT_SOURCES", "UPLOAD_ARTIFACT_EXAMPLE"} /\ turn' \in Turns
      /\ UNCHANGED <<intent, clarify, inputs, artifact, stash, result>>
  BY MovesTyped DEF IndInv, ConfirmInspection, Stays, States, AuthorStates
<1>2. required' \in BOOLEAN
  BY <1>1 DEF ConfirmInspection, Required, TypeOK
<1>3. {artifact', stash'} \subseteq References
  BY <1>1 DEF TypeOK
<1> QED
  BY <1>1, <1>2, <1>3, WaitingInv

\* The design call, on the samples and on the reference there is now.
LEMMA DesignInv ==
  ASSUME IndInv, state = "UPLOAD_ARTIFACT_EXAMPLE", RunDesign,
         UNCHANGED <<intent, inputs>>, required' \in BOOLEAN,
         {artifact', stash'} \subseteq References, required' => artifact' # NoArtifact
  PROVE  IndInv'
<1>1. /\ TypeOK /\ Asked /\ samples # {} /\ samples = sources \cap Inspectable
      /\ design' \in Designs /\ format' \in Formats
      /\ basis' = [samples |-> samples, artifact |-> artifact']
  BY DEF IndInv, Sampled, RunDesign, Plan, Formats
<1>2. basis' \in [samples : SUBSET Inspectable, artifact : References]
  BY <1>1 DEF TypeOK
<1>3. DesignGrounded' /\ RequiredReference'
  BY <1>1, NoDesignAssumption DEF DesignGrounded, RequiredReference, inputs
<1>4. CASE Moves("DESIGN_SKILL") /\ UNCHANGED clarify
  <2>1. state' = "DESIGN_SKILL" /\ turn' \in Turns
    BY <1>4, MovesTyped DEF States, AuthorStates
  <2>2. TypeOK'
    BY <1>1, <1>2, <1>4, <2>1
       DEF TypeOK, SessionTypeOK, States, AuthorStates, intent, clarify, inputs
  <2>3. Asked'
    BY <1>1, <1>4, <2>1, NothingAsked DEF intent, clarify
  <2>4. Sampled'
    BY <2>1 DEF Sampled
  <2> QED
    BY <1>3, <2>2, <2>3, <2>4 DEF IndInv
<1>5. ASSUME NEW n \in 1..MaxQuestions, EnterClarify([i \in 1..n |-> "other"], "REVIEW_DESIGN")
      PROVE  IndInv'
  <2>1. [i \in 1..n |-> "other"] \in KindLists
    BY DEF KindLists, Kinds
  <2>2. /\ state' = "CLARIFY" /\ turn' \in Turns /\ clarifyNext' = "REVIEW_DESIGN"
        /\ questions' \in Seq(Questions) /\ Asked'
    BY <1>5, <2>1, EnterClarifyAsked
  <2>3. TypeOK'
    BY <1>1, <1>2, <2>2 DEF TypeOK, SessionTypeOK, States, AuthorStates, intent, inputs
  <2>4. Sampled'
    BY <2>2 DEF Sampled
  <2> QED
    BY <1>3, <2>2, <2>3, <2>4 DEF IndInv
<1> QED
  BY <1>4, <1>5 DEF RunDesign

LEMMA UploadInv ==
  ASSUME NEW ans \in Answers, IndInv, AnswerUpload(ans)
  PROVE  IndInv'
<1>1. /\ state = "UPLOAD_ARTIFACT_EXAMPLE" /\ TypeOK /\ UNCHANGED <<intent, inputs>>
      /\ required' = Required /\ Required \in BOOLEAN
  BY DEF IndInv, AnswerUpload, Required, TypeOK
<1>2. {artifact, stash, NoArtifact} \subseteq References /\ Artifacts \subseteq References
  BY <1>1 DEF TypeOK, References
<1>3. stash' \in References
  BY <1>2 DEF AnswerUpload
<1>4. ASSUME NEW kept \in References, StayUploading(kept) PROVE IndInv'
  <2>1. state' = "UPLOAD_ARTIFACT_EXAMPLE" /\ turn' \in Turns
    BY <1>1, <1>4, MovesTyped DEF StayUploading, Stays, States, AuthorStates
  <2> QED
    BY <1>1, <1>3, <1>4, <2>1, WaitingInv DEF StayUploading
<1>5. ASSUME NEW ref \in References, artifact' = ref, RunDesign, Required => ref # NoArtifact
      PROVE  IndInv'
  BY <1>1, <1>3, <1>5, DesignInv
<1>6. ASSUME LoseReference PROVE IndInv'
  BY <1>2, <1>4, <1>5, <1>6 DEF LoseReference
<1>7. ASSUME NEW ref \in Artifacts, TakeReference(ref) PROVE IndInv'
  <2>1. ref \in References /\ ref # NoArtifact
    BY <1>2, ArtifactsAssumption
  <2>2. (IF Required THEN artifact ELSE NoArtifact) \in References
    BY <1>2
  <2> QED
    BY <1>2, <1>4, <1>5, <1>6, <1>7, <2>1, <2>2 DEF TakeReference
<1>8. CASE Is(ans, SkipWords) /\ stash # NoArtifact /\ TakeReference(stash)
  BY <1>2, <1>7, <1>8 DEF References
<1>9. CASE IF artifact = NoArtifact /\ Required
           THEN StayUploading(artifact)
           ELSE artifact' = artifact /\ RunDesign
  BY <1>2, <1>4, <1>5, <1>9
<1> QED
  BY <1>6, <1>7, <1>8, <1>9 DEF AnswerUpload

----------------------------------------------------------------------------
(* The review, the preview, and what comes back from the publish half. *)

LEMMA ReviewInv ==
  ASSUME NEW ans \in Answers, IndInv, AnswerCard(ans) \/ AnswerDesign(ans)
  PROVE  IndInv'
<1>1. /\ state \in {"DESIGN_SKILL", "REVIEW_DESIGN"}
      /\ state' \in {"DESIGN_SKILL", "REVIEW_DESIGN", "CONFIGURE_TRIGGERS"} /\ turn' \in Turns
      /\ UNCHANGED <<intent, clarify, inputs, reference, format, basis>>
  BY MovesTyped DEF AnswerCard, AnswerDesign, Stays, States, AuthorStates
<1>2. design' = design \/ design' \in Designs
  BY DEF AnswerCard, AnswerDesign
<1>3. Designed
  BY <1>1 DEF Designed
<1>4. stash' \in References /\ format' \in Formats /\ UNCHANGED <<artifact, required, basis>>
  BY <1>1 DEF IndInv, TypeOK, reference
<1> QED
  BY <1>1, <1>2, <1>3, <1>4, OnwardInv DEF States, AuthorStates

LEMMA TriggersInv ==
  ASSUME NEW ans \in Answers, IndInv, AnswerTriggers(ans)
  PROVE  IndInv'
<1>1. /\ state = "CONFIGURE_TRIGGERS" /\ state' = "PREVIEW_EXTRACTION" /\ turn' \in Turns
      /\ UNCHANGED <<design, intent, clarify, inputs, reference, basis>>
      /\ format' \in Formats
  BY TurnTypes DEF AnswerTriggers, Preview, Formats, Claims
<1>2. stash' \in References /\ UNCHANGED <<artifact, required>>
  BY <1>1 DEF IndInv, TypeOK, reference
<1>3. Designed
  BY <1>1 DEF Designed
<1> QED
  BY <1>1, <1>2, <1>3, OnwardInv DEF States, AuthorStates

\* The rest moves between states in which there is a design, ends, or goes back to
\* the sources.
LEMMA LateInv ==
  ASSUME NEW ans \in Answers, IndInv, AnswerPreview(ans) \/ Publish(ans)
  PROVE  IndInv'
<1> DEFINE Later == {"PREVIEW_EXTRACTION", "REVIEW_DESIGN"} \cup PublishStates \cup {"DONE"}
<1>1. state \in Later /\ UNCHANGED <<intent, clarify, samples, reference, result>> /\ TypeOK
  BY DEF IndInv, AnswerPreview, Publish, PublishStates
<1>2. ASSUME ProposeSources PROVE IndInv'
  <2>1. state # "CLARIFY"
    BY <1>1 DEF PublishStates
  <2> QED
    BY <1>1, <1>2, <2>1, Proposed, SourcesInv
<1>3. ASSUME state' \in Later, turn' \in Turns, UNCHANGED sources,
             state = "DONE" => state' = "DONE"
      PROVE  IndInv'
  <2>1. Designed' => Designed
    BY <1>1, <1>3 DEF Designed, PublishStates
  <2>2. state' \in States /\ "CLARIFY" \notin {state, state'}
        /\ state' \notin {"IDENTIFY_PERSONA", "CAPTURE_INTENT", "INSPECT_SOURCES", "UPLOAD_ARTIFACT_EXAMPLE"}
    BY <1>1, <1>3 DEF States, AuthorStates, PublishStates
  <2>3. stash' \in References /\ format' \in Formats
        /\ UNCHANGED <<inputs, artifact, required, basis, design>>
    BY <1>1, <1>3 DEF TypeOK, reference, result, inputs
  <2> QED
    BY <1>1, <1>3, <2>1, <2>2, <2>3, OnwardInv
<1>4. ASSUME NEW to \in Later, Moves(to) PROVE state' \in Later /\ turn' \in Turns
  BY <1>4, MovesTyped DEF States, AuthorStates, PublishStates
<1>5. Closing("plain") \in Turns
  BY TurnTypes DEF Claims
<1>6. {"PREVIEW_EXTRACTION", "REVIEW_DESIGN", "COMMITTED", "EVAL", "EVAL_ROUTE_PENDING", "DONE"}
        \subseteq Later
  BY DEF PublishStates
<1>7. CASE AnswerPreview(ans)
  <2>1. CASE AsksSources(ans) /\ ProposeSources
    BY <1>2, <2>1
  <2>2. CASE state' = state /\ turn' = Closing("plain") /\ UNCHANGED sources
    BY <1>1, <1>3, <1>5, <2>2
  <2>3. CASE Moves(IF Has(ans, {"back", "design"}) THEN "REVIEW_DESIGN" ELSE state)
             /\ UNCHANGED sources
    <3>1. state = "PREVIEW_EXTRACTION"
      BY <1>7 DEF AnswerPreview
    <3>2. (IF Has(ans, {"back", "design"}) THEN "REVIEW_DESIGN" ELSE state) \in Later
      BY <1>1, <1>6
    <3> QED
      BY <1>3, <1>4, <2>3, <3>1, <3>2
  <2> QED
    BY <1>7, <2>1, <2>2, <2>3 DEF AnswerPreview
<1>8. CASE Publish(ans)
  <2>1. CASE ProposeSources
    BY <1>2, <2>1
  <2>2. ASSUME NEW to \in Later, Moves(to), UNCHANGED sources, state # "DONE" PROVE IndInv'
    BY <1>3, <1>4, <2>2
  <2>3. CASE state' = "DONE" /\ turn' = Closing("plain") /\ UNCHANGED sources
    BY <1>3, <1>5, <1>6, <2>3
  <2> HIDE DEF Later
  <2> QED
    BY <1>1, <1>6, <1>8, <2>1, <2>2, <2>3 DEF Publish, Stays
<1> QED
  BY <1>7, <1>8

----------------------------------------------------------------------------
LEMMA InitInv ==
  ASSUME Init
  PROVE  IndInv
<1>1. turn \in Turns /\ state \in States
  BY TurnTypes DEF Init, States, AuthorStates, Claims
<1>2. questions \in Seq(Questions)
  BY DEF Init
<1>3. basis \in [samples : SUBSET Inspectable, artifact : References]
  BY DEF Init, References
<1>4. TypeOK
  BY <1>1, <1>2, <1>3 DEF Init, TypeOK, SessionTypeOK, Modes, Formats, References
<1>5. Open(questions) = {}
  BY DEF Init, Open
<1>6. Asked
  BY <1>5 DEF Init, Asked, QuestionsAnswered
<1>7. Undesigned
  BY DEF Init, Undesigned, PublishStates
<1> QED
  BY <1>4, <1>6, <1>7, UndesignedInv DEF IndInv

LEMMA NextInv ==
  ASSUME IndInv, [Next]_vars
  PROVE  IndInv'
<1>1. CASE UNCHANGED vars
  BY <1>1 DEF vars, IndInv, TypeOK, SessionTypeOK, Asked, QuestionsAnswered, Sampled,
              DesignGrounded, RequiredReference, Designed
<1>2. ASSUME NEW ans \in Answers, Authoring(ans) PROVE IndInv'
  BY <1>2, IntentInv, SetAsideInv, QuestionInv, AddSourceInv, InspectInv, ConfirmInv,
     UploadInv, ReviewInv, TriggersInv, LateInv DEF Authoring
<1>3. ASSUME NEW ans \in Answers, Publish(ans) PROVE IndInv'
  BY <1>3, LateInv
<1> QED
  BY <1>1, <1>2, <1>3, IdentifyInv DEF Next

----------------------------------------------------------------------------
(* The inductive invariant holds in every reachable state of the dialogue. *)
THEOREM Inductive == Spec => []IndInv
BY InitInv, NextInv, PTL DEF Spec

(* What a session of the design half saves has its type, whatever the model
   and the author say. *)
THEOREM TypeCorrect == Spec => []TypeOK
<1>1. IndInv => TypeOK
  BY DEF IndInv
<1> QED
  BY <1>1, Inductive, PTL

(* CLARIFY is left exactly when the last of any number of questions has its
   answer, and an answered binding question has settled the mode. *)
THEOREM Answered == Spec => []QuestionsAnswered
<1>1. IndInv => QuestionsAnswered
  BY DEF IndInv, Asked
<1> QED
  BY <1>1, Inductive, PTL

(* A design under review, preview or publication was made from the sources,
   the samples and the reference the session holds. *)
THEOREM Grounded == Spec => []DesignGrounded
<1>1. IndInv => DesignGrounded
  BY DEF IndInv
<1> QED
  BY <1>1, Inductive, PTL

(* A design that was held to need a reference artifact has one. *)
THEOREM Referenced == Spec => []RequiredReference
<1>1. IndInv => RequiredReference
  BY DEF IndInv
<1> QED
  BY <1>1, Inductive, PTL

----------------------------------------------------------------------------
(* The evaluation. *)

MaybeDrafts == Drafts \cup {NoDraft}
Statuses == {"not_run", "success", "failure"}
Results == [design : MaybeDrafts, status : Statuses, failed : Nat, verdict : BOOLEAN]
Scores == [hits : Nat, expected : Nat, faithful : Nat, judged : Nat]
Comparisons ==
  {[ran |-> FALSE]}
    \cup [ran : {TRUE}, missing : SUBSET DOMAIN Reference, thin : SUBSET DOMAIN Reference]
Steps == {"schema", "extract", "routing", "config", "execute", "gold", "criteria", "compare",
          "result"}
Produced == Outputs \cup {Unbound}
RunStates ==
  [pc : Steps, left : Nat, pages : Nat, schema : MaybeDrafts, scores : Scores, tojudge : Nat,
   positive : Nat, negative : Nat, failed : Nat, verdict : BOOLEAN, config : MaybeDrafts,
   status : Statuses, produced : Produced, passed : BOOLEAN, compared : Comparisons]
Rows == [design : MaybeDrafts, gold : MaybeDrafts]
Stages == {"DESIGN", "INGEST", "EVAL", "PROMOTE"}
Promoters == {"nobody", "accept", "force"}
Sessions ==
  [state : Stages, design : MaybeDrafts, cached : Nat, result : Results \cup {NoResult},
   by : Promoters]

EvalTypeOK ==
  /\ rows \in Rows /\ session \in Sessions
  /\ run = NoRun \/ run \in RunStates
  /\ rival \in BOOLEAN /\ commits \in Nat

\* A verdict agrees with the assertions that failed, and none fails without a query to
\* ask.
Fair(verdict, failed, d) ==
  /\ verdict => failed = 0
  /\ failed # 0 => d \in Drafts /\ d.positive > 0

\* The session waits at INGEST while a run works on its design.
SessionOK ==
  /\ session.state = "INGEST" => session.design \in Drafts
  /\ Running => session.state = "INGEST"
  /\ HasResult => Fair(session.result.verdict, session.result.failed, session.result.design)

\* What is known of a run: its scores, and how its self-test went so far.
Fine(x) ==
  /\ x.scores.hits <= x.scores.expected /\ x.scores.faithful <= x.scores.judged
  /\ x.passed => x.scores.hits > 0 /\ x.scores.faithful > 0
  /\ Fair(x.verdict, x.failed, session.design)
  /\ x.pc = "routing" => session.design.positive > 0

EvalInv == EvalTypeOK /\ SessionOK /\ (Running => Fine(run)) /\ GateHolds

----------------------------------------------------------------------------
(* The records that the steps of an evaluation write. *)

LEMMA StepNames ==
  /\ {"schema", "extract", "routing", "config", "execute", "gold", "criteria", "compare",
      "result"} \subseteq Steps
  /\ {"not_run", "success", "failure"} \subseteq Statuses
  /\ "none" \notin Steps
  /\ {"DESIGN", "INGEST", "EVAL", "PROMOTE"} \subseteq Stages
  /\ {"nobody", "accept", "force"} \subseteq Promoters
BY DEF Steps, Statuses, Stages, Promoters

LEMMA RunShape ==
  ASSUME EvalInv, Running
  PROVE  /\ run \in RunStates /\ Fine(run) /\ session.state = "INGEST"
         /\ session.design \in Drafts
BY DEF EvalInv, EvalTypeOK, SessionOK, Running, NoRun

LEMMA DesignFields ==
  ASSUME NEW d \in Drafts
  PROVE  d.positive \in Nat /\ d.negative \in Nat /\ d \in MaybeDrafts
BY DraftsAssumption DEF DesignShape, MaybeDrafts

LEMMA Stepped ==
  ASSUME NEW x \in RunStates, NEW pc \in Steps
  PROVE  [x EXCEPT !.pc = pc] \in RunStates
BY DEF RunStates

LEMMA SchemaTaken ==
  ASSUME NEW x \in RunStates, NEW pc \in Steps, NEW d \in MaybeDrafts
  PROVE  /\ [x EXCEPT !.pc = pc, !.schema = d] \in RunStates
         /\ [x EXCEPT !.pc = pc, !.config = d] \in RunStates
BY DEF RunStates

LEMMA Scored ==
  ASSUME NEW x \in RunStates, NEW k \in Nat, NEW n \in Nat, NEW w \in Scores
  PROVE  /\ [x EXCEPT !.left = k, !.tojudge = n, !.scores = w] \in RunStates
         /\ [x EXCEPT !.tojudge = n, !.scores = w] \in RunStates
BY DEF RunStates

LEMMA SelfTest ==
  ASSUME NEW x \in RunStates, NEW pc \in Steps, NEW k \in Nat, NEW n \in Nat
  PROVE  [x EXCEPT !.pc = pc, !.positive = k, !.negative = n] \in RunStates
BY DEF RunStates

LEMMA Made ==
  ASSUME NEW x \in RunStates, NEW pc \in Steps, NEW s \in Statuses, NEW a \in Produced
  PROVE  /\ [x EXCEPT !.pc = pc, !.status = s, !.produced = a] \in RunStates
         /\ [x EXCEPT !.pc = pc, !.status = s] \in RunStates
BY DEF RunStates

LEMMA ComparedTo ==
  ASSUME NEW x \in RunStates, NEW pc \in Steps, NEW c \in Comparisons
  PROVE  [x EXCEPT !.pc = pc, !.compared = c] \in RunStates
BY DEF RunStates

----------------------------------------------------------------------------
(* The kinds of steps. *)

\* A run goes on.
LEMMA GoesOn ==
  ASSUME EvalInv, Running, NEW x \in RunStates, run' = x, Fine(x),
         UNCHANGED <<session, others>>, rows' \in Rows
  PROVE  EvalInv'
<1>1. EvalTypeOK'
  BY DEF EvalInv, EvalTypeOK, others
<1>2. Fine(run)' /\ Running'
  BY StepNames DEF Fine, Running, RunStates
<1>3. SessionOK' /\ GateHolds'
  BY RunShape DEF EvalInv, SessionOK, GateHolds, HasResult
<1> QED
  BY <1>1, <1>2, <1>3 DEF EvalInv

\* A run starts, or ends without an answer; or nothing happens.
LEMMA RunEnds ==
  ASSUME EvalInv, Raise, UNCHANGED <<session, others>>, rows' \in Rows
  PROVE  EvalInv'
<1>1. ~Running'
  BY DEF Raise, NoRun, Running
<1>2. EvalTypeOK'
  BY DEF EvalInv, EvalTypeOK, others, Raise
<1>3. SessionOK' /\ GateHolds'
  BY <1>1 DEF EvalInv, SessionOK, GateHolds, HasResult
<1> QED
  BY <1>1, <1>2, <1>3 DEF EvalInv

\* The session is saved while no run is in progress any more.
LEMMA Saves ==
  ASSUME EvalInv, ~Running', run' = NoRun \/ run' = run,
         session' \in Sessions, session'.state = "INGEST" => session'.design \in Drafts,
         HasResult' => Fair(session'.result.verdict, session'.result.failed,
                            session'.result.design),
         rows' \in Rows, rival' \in BOOLEAN, commits' \in Nat, GateHolds'
  PROVE  EvalInv'
BY DEF EvalInv, EvalTypeOK, SessionOK

----------------------------------------------------------------------------
(* The steps of a run. *)

LEMMA EnterInv ==
  ASSUME EvalInv, Enter
  PROVE  EvalInv'
<1>1. CASE Raise
  BY <1>1, RunEnds DEF Enter, EvalInv, EvalTypeOK
<1>2. CASE ~Raise
  <2>1. PICK n \in (IF session.cached > 0 THEN {session.cached} ELSE PageCounts \ {0}) :
          run' = [pc |-> "schema", left |-> IF n < 3 THEN n ELSE 3, pages |-> n,
                  schema |-> NoDraft, scores |-> NoScores, tojudge |-> 0,
                  positive |-> 0, negative |-> 0, failed |-> 0, verdict |-> TRUE,
                  config |-> NoDraft, status |-> "not_run", produced |-> Unbound,
                  passed |-> FALSE, compared |-> [ran |-> FALSE]]
    BY <1>2 DEF Enter
  <2>2. n \in Nat /\ (IF n < 3 THEN n ELSE 3) \in Nat
    BY <2>1, DraftsAssumption DEF EvalInv, EvalTypeOK, Sessions
  <2>3. NoScores \in Scores /\ [ran |-> FALSE] \in Comparisons /\ NoDraft \in MaybeDrafts
        /\ Unbound \in Produced
    BY DEF NoScores, Scores, Comparisons, MaybeDrafts, Produced
  <2>4. run' \in RunStates
    BY <2>1, <2>2, <2>3, StepNames DEF RunStates
  <2>5. Fine(run)'
    BY <2>1 DEF Fine, Fair, NoScores
  <2>6. UNCHANGED <<rows, session, others>> /\ session.state = "INGEST"
    BY DEF Enter
  <2>7. EvalTypeOK'
    BY <2>4, <2>6 DEF EvalInv, EvalTypeOK, others
  <2> QED
    BY <2>5, <2>6, <2>7 DEF EvalInv, SessionOK, GateHolds, HasResult
<1> QED
  BY <1>1, <1>2

LEMMA ReadSchemaInv ==
  ASSUME EvalInv, ReadSchema
  PROVE  EvalInv'
<1>1. Running /\ UNCHANGED <<rows, session, others>> /\ rows \in Rows
  BY DEF ReadSchema, At, Running, EvalInv, EvalTypeOK
<1>2. PICK d \in SchemaRead : run' = [run EXCEPT !.pc = "extract", !.schema = d]
  BY DEF ReadSchema
<1> DEFINE x == [run EXCEPT !.pc = "extract", !.schema = d]
<1>3. d \in MaybeDrafts
  BY <1>1, RunShape, DesignFields DEF SchemaRead, Rows
<1>4. x \in RunStates
  BY <1>1, <1>3, RunShape, SchemaTaken, StepNames
<1>5. Fine(x)
  BY <1>1, RunShape DEF Fine, RunStates
<1> HIDE DEF x
<1> QED
  BY <1>1, <1>2, <1>4, <1>5, GoesOn DEF x

\* A gold row: what was found and what was expected.
LEMMA ExtractInv ==
  ASSUME EvalInv, Extract
  PROVE  EvalInv'
<1>1. /\ Running /\ UNCHANGED <<rows, others>> /\ rows \in Rows
      /\ run \in RunStates /\ Fine(run) /\ run.left \in Nat /\ run.left > 0
      /\ run.tojudge \in Nat /\ run.pages \in Nat /\ run.scores \in Scores
      /\ run.pc = "extract"
  BY RunShape DEF Extract, At, Running, EvalInv, EvalTypeOK, RunStates
<1>2. CASE Raise /\ UNCHANGED session
  BY <1>1, <1>2, RunEnds
<1>3. CASE session' = [session EXCEPT !.state = "EVAL", !.cached = run.pages] /\ run' = NoRun
  <2>1. session \in Sessions /\ rival \in BOOLEAN /\ commits \in Nat
    BY DEF EvalInv, EvalTypeOK
  <2>2. /\ session' \in Sessions /\ session'.state = "EVAL"
        /\ session'.result = session.result
    BY <1>1, <1>3, <2>1, StepNames DEF Sessions
  <2>3. ~Running' /\ rival' \in BOOLEAN /\ commits' \in Nat
    BY <1>1, <1>3, <2>1 DEF Running, NoRun, others
  <2> QED
    BY <1>1, <1>3, <2>2, <2>3, Saves DEF GateHolds, EvalInv, SessionOK, HasResult
<1>4. ASSUME NEW hits \in 0..FieldCount,
             run' = [run EXCEPT !.left = @ - 1, !.tojudge = @ + hits,
                       !.scores.hits = @ + hits, !.scores.expected = @ + FieldCount],
             UNCHANGED session
      PROVE  EvalInv'
  <2> DEFINE k == run.scores.hits + hits
             n == run.scores.expected + FieldCount
             w == [run.scores EXCEPT !.hits = k, !.expected = n]
             x == [run EXCEPT !.left = run.left - 1, !.tojudge = run.tojudge + hits,
                              !.scores = w]
  <2>1. /\ hits \in Nat /\ FieldCount \in Nat /\ hits <= FieldCount
        /\ k \in Nat /\ n \in Nat
        /\ run.left - 1 \in Nat /\ run.tojudge + hits \in Nat
    BY <1>1, DraftsAssumption DEF Scores
  <2>2. run' = x
    BY <1>1, <1>4 DEF RunStates, Scores
  <2>3. k <= n /\ k >= run.scores.hits
    BY <1>1, <2>1 DEF Fine, Scores
  <2> HIDE DEF k, n
  <2>4. /\ w \in Scores /\ w.hits = k /\ w.expected = n
        /\ w.faithful = run.scores.faithful /\ w.judged = run.scores.judged
    BY <1>1, <2>1 DEF Scores
  <2>5. w.hits <= w.expected /\ w.hits >= run.scores.hits
    BY <2>4, <2>3
  <2> HIDE DEF w
  <2>6. x \in RunStates
    BY <1>1, <2>1, <2>4, Scored
  <2>7. /\ x.scores = w /\ x.passed = run.passed /\ x.verdict = run.verdict
        /\ x.failed = run.failed /\ x.pc = run.pc
    BY <1>1 DEF RunStates
  <2> HIDE DEF x
  <2>8. Fine(x)
    BY <1>1, <2>1, <2>4, <2>5, <2>7 DEF Fine, Scores
  <2> QED
    BY <1>1, <1>4, <2>2, <2>6, <2>8, GoesOn
<1> QED
  BY <1>2, <1>3, <1>4 DEF Extract

LEMMA JudgeInv ==
  ASSUME EvalInv, Judge
  PROVE  EvalInv'
<1>1. /\ Running /\ UNCHANGED <<rows, session, others>> /\ rows \in Rows
      /\ run \in RunStates /\ Fine(run)
      /\ run.tojudge \in Nat /\ run.tojudge > 0 /\ run.scores \in Scores /\ run.pc = "extract"
  BY RunShape DEF Judge, At, Running, EvalInv, EvalTypeOK, RunStates
<1>2. ASSUME NEW f \in Nat, NEW j \in Nat, f <= j, run' = Counted(f, j)
      PROVE  EvalInv'
  <2> DEFINE k == run.scores.faithful + f
             n == run.scores.judged + j
             w == [run.scores EXCEPT !.faithful = k, !.judged = n]
             x == [run EXCEPT !.tojudge = run.tojudge - 1, !.scores = w]
  <2>1. /\ run.tojudge - 1 \in Nat
        /\ k \in Nat /\ n \in Nat /\ k <= n /\ k >= run.scores.faithful
    BY <1>1, <1>2 DEF Scores, Fine
  <2>2. run' = x
    BY <1>1, <1>2 DEF Counted, RunStates, Scores
  <2> HIDE DEF k, n
  <2>3. /\ w \in Scores /\ w.hits = run.scores.hits /\ w.expected = run.scores.expected
        /\ w.faithful = k /\ w.judged = n
    BY <1>1, <2>1 DEF Scores
  <2>4. w.faithful <= w.judged /\ w.faithful >= run.scores.faithful
    BY <2>3, <2>1
  <2> HIDE DEF w
  <2>5. x \in RunStates
    BY <1>1, <2>3, <2>1, Scored
  <2>6. /\ x.scores = w /\ x.passed = run.passed /\ x.verdict = run.verdict
        /\ x.failed = run.failed /\ x.pc = run.pc
    BY <1>1 DEF RunStates
  <2> HIDE DEF x
  <2>7. Fine(x)
    BY <1>1, <2>3, <2>4, <2>6 DEF Fine, Scores
  <2> QED
    BY <1>1, <2>2, <2>5, <2>7, GoesOn
<1>3. PICK verdict \in {"faithful", "unfaithful", "failed"} : run' = Judged(verdict)
  BY DEF Judge
<1>4. \E f, j \in Nat : f <= j /\ run' = Counted(f, j)
  BY <1>3 DEF Judged
<1> QED
  BY <1>2, <1>4

LEMMA StartRoutingInv ==
  ASSUME EvalInv, StartRouting
  PROVE  EvalInv'
<1>1. /\ Running /\ UNCHANGED <<rows, session, others>> /\ rows \in Rows
      /\ run \in RunStates /\ Fine(run) /\ session.design \in Drafts
  BY RunShape DEF StartRouting, At, Running, EvalInv, EvalTypeOK
<1>2. CASE To("config")
  <2> DEFINE x == [run EXCEPT !.pc = "config"]
  <2>1. x \in RunStates /\ run' = x
    BY <1>1, <1>2, Stepped, StepNames DEF To
  <2>2. Fine(x)
    BY <1>1 DEF Fine, RunStates
  <2> HIDE DEF x
  <2> QED
    BY <1>1, <2>1, <2>2, GoesOn
<1>3. CASE /\ session.design.positive > 0
           /\ run' = [run EXCEPT !.pc = "routing", !.positive = session.design.positive,
                        !.negative = session.design.negative]
  <2> DEFINE x == [run EXCEPT !.pc = "routing", !.positive = session.design.positive,
                              !.negative = session.design.negative]
  <2>1. session.design.positive \in Nat /\ session.design.negative \in Nat
    BY <1>1, DesignFields
  <2>2. x \in RunStates
    BY <1>1, <2>1, SelfTest, StepNames
  <2>3. Fine(x)
    BY <1>1, <1>3 DEF Fine, RunStates
  <2>4. run' = x
    BY <1>3
  <2> HIDE DEF x
  <2> QED
    BY <1>1, <2>2, <2>3, <2>4, GoesOn
<1> QED
  BY <1>2, <1>3 DEF StartRouting

\* An assertion that fails leaves a failed verdict, whatever comes after it.
LEMMA RouteInv ==
  ASSUME EvalInv, NEW kind \in {"positive", "negative"}, Route(kind)
  PROVE  EvalInv'
<1>1. /\ Running /\ UNCHANGED <<rows, session, others>> /\ rows \in Rows
      /\ run \in RunStates /\ Fine(run) /\ session.design \in Drafts
      /\ run.pc = "routing" /\ run[kind] > 0
  BY RunShape DEF Route, At, Running, EvalInv, EvalTypeOK
<1>2. CASE Raise
  BY <1>1, <1>2, RunEnds
<1>3. ASSUME NEW here \in BOOLEAN,
             run' = [run EXCEPT ![kind] = @ - 1,
                       !.verdict = Assertion(here = (kind = "positive")),
                       !.failed = IF here = (kind = "positive") THEN @ ELSE @ + 1]
      PROVE  EvalInv'
  <2>1. run.verdict \in BOOLEAN /\ run.failed \in Nat /\ run[kind] \in Nat
    BY <1>1 DEF RunStates
  <2> DEFINE v == Assertion(here = (kind = "positive"))
             f == IF here = (kind = "positive") THEN run.failed ELSE run.failed + 1
             k == run[kind] - 1
  <2>2. /\ v \in BOOLEAN /\ f \in Nat /\ k \in Nat
        /\ v => run.verdict /\ f = run.failed
        /\ run' = [run EXCEPT ![kind] = k, !.verdict = v, !.failed = f]
    <3>1. v \in BOOLEAN
      BY <2>1 DEF Assertion
    <3>2. v => run.verdict /\ here = (kind = "positive")
      BY DEF Assertion
    <3>3. f \in Nat /\ k \in Nat
      BY <1>1, <2>1
    <3>4. run' = [run EXCEPT ![kind] = k, !.verdict = v, !.failed = f]
      BY <1>1, <1>3 DEF RunStates
    <3> QED
      BY <3>1, <3>2, <3>3, <3>4
  <2> HIDE DEF v, f, k
  <2>3. run' \in RunStates
    <3>1. CASE kind = "positive"
      BY <1>1, <2>2, <3>1 DEF RunStates
    <3>2. CASE kind = "negative"
      BY <1>1, <2>2, <3>2 DEF RunStates
    <3> QED
      BY <3>1, <3>2
  <2>4. /\ run'.scores = run.scores /\ run'.passed = run.passed /\ run'.pc = run.pc
        /\ run'.verdict = v /\ run'.failed = f
    BY <1>1, <2>2 DEF RunStates
  <2>5. Fine(run')
    BY <1>1, <2>2, <2>4 DEF Fine, Fair
  <2> QED
    BY <1>1, <2>3, <2>5, GoesOn
<1> QED
  BY <1>2, <1>3 DEF Route

\* A step on which a run only goes on to what is next.
LEMMA PassesOn ==
  ASSUME EvalInv, Running, UNCHANGED <<rows, session, others>>,
         NEW pc \in {"config", "result"}, To(pc)
  PROVE  EvalInv'
<1>1. rows \in Rows /\ run \in RunStates /\ Fine(run)
  BY RunShape DEF EvalInv, EvalTypeOK
<1> DEFINE x == [run EXCEPT !.pc = pc]
<1>2. x \in RunStates /\ run' = x
  BY <1>1, Stepped, StepNames DEF To
<1>3. Fine(x)
  BY <1>1 DEF Fine, RunStates
<1> HIDE DEF x
<1> QED
  BY <1>1, <1>2, <1>3, GoesOn

LEMMA RoutingDoneInv ==
  ASSUME EvalInv, RoutingDone
  PROVE  EvalInv'
BY PassesOn DEF RoutingDone, At, Running

LEMMA ReadConfigInv ==
  ASSUME EvalInv, ReadConfig
  PROVE  EvalInv'
<1>1. /\ Running /\ UNCHANGED <<rows, session, others>> /\ rows \in Rows
      /\ run \in RunStates /\ Fine(run)
  BY RunShape DEF ReadConfig, At, Running, EvalInv, EvalTypeOK
<1>2. CASE Raise
  BY <1>1, <1>2, RunEnds
<1>3. CASE run' = [run EXCEPT !.pc = "execute", !.config = rows.design]
  <2> DEFINE x == [run EXCEPT !.pc = "execute", !.config = rows.design]
  <2>1. rows.design \in MaybeDrafts
    BY <1>1 DEF Rows
  <2>2. x \in RunStates
    BY <1>1, <2>1, SchemaTaken, StepNames
  <2>3. Fine(x)
    BY <1>1 DEF Fine, RunStates
  <2> HIDE DEF x
  <2> QED
    BY <1>1, <1>3, <2>2, <2>3, GoesOn DEF x
<1>4. CASE run' = [run EXCEPT !.pc = "gold", !.status = "failure"]
  <2> DEFINE x == [run EXCEPT !.pc = "gold", !.status = "failure"]
  <2>1. x \in RunStates
    BY <1>1, StepNames DEF RunStates
  <2>2. Fine(x)
    BY <1>1 DEF Fine, RunStates
  <2> HIDE DEF x
  <2> QED
    BY <1>1, <1>4, <2>1, <2>2, GoesOn DEF x
<1> QED
  BY <1>2, <1>3, <1>4 DEF ReadConfig

LEMMA ExecuteInv ==
  ASSUME EvalInv, Execute
  PROVE  EvalInv'
<1>1. /\ Running /\ UNCHANGED <<rows, session, others>> /\ rows \in Rows
      /\ run \in RunStates /\ Fine(run)
  BY RunShape DEF Execute, At, Running, EvalInv, EvalTypeOK
<1>2. ASSUME NEW made \in Outputs \cup {Unbound},
             run' = [run EXCEPT !.pc = "gold", !.status = "success", !.produced = made]
      PROVE  EvalInv'
  <2> DEFINE x == [run EXCEPT !.pc = "gold", !.status = "success", !.produced = made]
  <2>1. made \in Produced
    BY DEF Produced
  <2>2. x \in RunStates
    BY <1>1, <2>1, StepNames DEF RunStates
  <2>3. Fine(x)
    BY <1>1 DEF Fine, RunStates
  <2> HIDE DEF x
  <2> QED
    BY <1>1, <1>2, <2>2, <2>3, GoesOn DEF x
<1>3. CASE run' = [run EXCEPT !.pc = "gold", !.status = "failure"]
  <2> DEFINE x == [run EXCEPT !.pc = "gold", !.status = "failure"]
  <2>1. x \in RunStates
    BY <1>1, StepNames DEF RunStates
  <2>2. Fine(x)
    BY <1>1 DEF Fine, RunStates
  <2> HIDE DEF x
  <2> QED
    BY <1>1, <1>3, <2>1, <2>2, GoesOn DEF x
<1> QED
  BY <1>2, <1>3 DEF Execute

LEMMA WriteGoldInv ==
  ASSUME EvalInv, WriteGold
  PROVE  EvalInv'
<1>1. /\ Running /\ UNCHANGED <<session, others>> /\ rows \in Rows
      /\ run \in RunStates /\ Fine(run) /\ session.design \in Drafts
  BY RunShape DEF WriteGold, At, Running, EvalInv, EvalTypeOK
<1> DEFINE x == [run EXCEPT !.pc = "criteria"]
<1>2. x \in RunStates /\ run' = x
  BY <1>1, Stepped, StepNames DEF WriteGold, To
<1>3. Fine(x)
  BY <1>1 DEF Fine, RunStates
<1>4. rows' \in Rows
  BY <1>1, DesignFields DEF WriteGold, GoldRows, Rows
<1> HIDE DEF x
<1> QED
  BY <1>1, <1>2, <1>3, <1>4, GoesOn

\* Nothing found reaches no threshold.
LEMMA ReachesSome ==
  ASSUME NEW part \in Nat, NEW whole \in Nat, Reaches(part, whole)
  PROVE  part > 0
<1> DEFINE m == Max({whole, 1})
<1>1. \E y \in {whole, 1} : \A z \in {whole, 1} : y >= z
  <2>1. CASE whole >= 1
    BY <2>1
  <2>2. CASE whole = 0
    BY <2>2
  <2> QED
    BY <2>1, <2>2
<1>2. m \in Nat /\ m >= 1
  BY <1>1 DEF Max
<1> HIDE DEF m
<1>3. \A a, b \in Nat : a >= 1 /\ b >= 1 => a * b >= 1
  OBVIOUS
<1>4. Threshold * m >= 1
  BY <1>2, <1>3, DraftsAssumption
<1> QED
  BY <1>4, <1>2, DraftsAssumption DEF Reaches, m

LEMMA CriteriaInv ==
  ASSUME EvalInv, Criteria
  PROVE  EvalInv'
<1>1. /\ Running /\ UNCHANGED <<rows, session, others>> /\ rows \in Rows
      /\ run \in RunStates /\ Fine(run) /\ run.scores \in Scores
  BY RunShape DEF Criteria, At, Running, EvalInv, EvalTypeOK, RunStates
<1> DEFINE met == /\ Reaches(run.scores.hits, run.scores.expected)
                  /\ Reaches(run.scores.faithful, run.scores.judged)
           x == [run EXCEPT !.pc = "compare", !.passed = met]
<1>2. met => run.scores.hits > 0 /\ run.scores.faithful > 0
  BY <1>1, ReachesSome DEF Scores
<1>3. run' = x /\ met \in BOOLEAN
  BY DEF Criteria
<1> HIDE DEF met
<1>4. x \in RunStates /\ x.passed = met
  BY <1>1, <1>3, StepNames DEF RunStates
<1>5. Fine(x)
  BY <1>1, <1>2, <1>4 DEF Fine, RunStates
<1> HIDE DEF x
<1> QED
  BY <1>1, <1>3, <1>4, <1>5, GoesOn

LEMMA CompareInv ==
  ASSUME EvalInv, CompareStep
  PROVE  EvalInv'
<1>1. /\ Running /\ UNCHANGED <<rows, session, others>> /\ rows \in Rows
      /\ run \in RunStates /\ Fine(run)
  BY RunShape DEF CompareStep, At, Running, EvalInv, EvalTypeOK
<1>2. CASE run' = [run EXCEPT !.pc = "result", !.compared = Compare(Reference, run.produced)]
  <2> DEFINE c == Compare(Reference, run.produced)
             x == [run EXCEPT !.pc = "result", !.compared = c]
  <2>1. c \in Comparisons
    BY DEF Compare, Comparisons, Missing, Thin
  <2> HIDE DEF c
  <2>2. x \in RunStates
    BY <1>1, <2>1, StepNames, ComparedTo
  <2>3. Fine(x)
    BY <1>1 DEF Fine, RunStates
  <2> HIDE DEF x
  <2> QED
    BY <1>1, <1>2, <2>2, <2>3, GoesOn DEF x, c
<1>3. CASE To("result")
  BY <1>1, <1>3, PassesOn
<1> QED
  BY <1>2, <1>3 DEF CompareStep

\* The result that the session saves agrees with its own assertions.
LEMMA AnswerInv ==
  ASSUME EvalInv, Answer
  PROVE  EvalInv'
<1>1. /\ Running /\ UNCHANGED <<rows, others>> /\ rows \in Rows /\ run' = NoRun
      /\ run \in RunStates /\ Fine(run) /\ session.design \in Drafts
      /\ session \in Sessions /\ rival \in BOOLEAN /\ commits \in Nat
  BY RunShape DEF Answer, At, Running, EvalInv, EvalTypeOK
<1> DEFINE r == [design |-> session.design, status |-> run.status, failed |-> run.failed,
                 verdict |-> run.verdict]
<1>2. r \in Results
  BY <1>1, DesignFields DEF Results, RunStates
<1>3. Fair(r.verdict, r.failed, r.design)
  BY <1>1 DEF Fine
<1>4. session' = [session EXCEPT !.state = "EVAL", !.cached = run.pages, !.result = r]
  BY DEF Answer
<1>5. run.pages \in Nat
  BY <1>1 DEF RunStates
<1> HIDE DEF r
<1>6. session' \in Sessions /\ session'.state = "EVAL" /\ session'.result = r
  BY <1>1, <1>2, <1>4, <1>5, StepNames DEF Sessions
<1>7. ~Running' /\ GateHolds'
  BY <1>1, <1>6 DEF Running, NoRun, GateHolds
<1> QED
  BY <1>1, <1>3, <1>6, <1>7, Saves DEF others

----------------------------------------------------------------------------
(* Between the runs. *)

LEMMA PromoteInv ==
  ASSUME EvalInv, Accept \/ ForcePromote
  PROVE  EvalInv'
<1>1. /\ ~Running /\ session \in Sessions /\ UNCHANGED <<rows, run, others>>
      /\ rows \in Rows /\ rival \in BOOLEAN /\ commits \in Nat
  BY DEF Accept, ForcePromote, Promote, EvalInv, EvalTypeOK
<1>2. PICK by \in {"accept", "force"} :
        /\ session' = [session EXCEPT !.state = "PROMOTE", !.by = by]
        /\ by = "accept" => ~(TestRan /\ ~session.result.verdict)
  BY DEF Accept, ForcePromote, Promote
<1>3. /\ session' \in Sessions /\ session'.state = "PROMOTE" /\ session'.by = by
      /\ session'.result = session.result
  BY <1>1, <1>2, StepNames DEF Sessions
<1>4. HasResult => Fair(session.result.verdict, session.result.failed, session.result.design)
  BY DEF EvalInv, SessionOK
<1>5. GateHolds'
  <2>1. SUFFICES ASSUME by = "accept", HasResult PROVE session.result.failed = 0
    BY <1>3 DEF GateHolds, HasResult
  <2>2. CASE session.result.verdict
    BY <1>4, <2>1, <2>2 DEF Fair
  <2>3. CASE ~session.result.verdict /\ session.result.failed # 0
    <3>1. session.result.design \in Drafts /\ session.result.design.positive > 0
      BY <1>4, <2>1, <2>3 DEF Fair
    <3>2. session.result.design.positive + session.result.design.negative > 0
      BY <3>1, DesignFields
    <3> QED
      BY <1>2, <2>1, <2>3, <3>2 DEF TestRan
  <2> QED
    BY <2>2, <2>3
<1>6. ~Running' /\ (HasResult' <=> HasResult)
  BY <1>1, <1>3 DEF Running, HasResult
<1> QED
  BY <1>1, <1>3, <1>4, <1>5, <1>6, Saves DEF others

LEMMA RedesignInv ==
  ASSUME EvalInv, Redesign
  PROVE  EvalInv'
<1>1. /\ ~Running /\ session \in Sessions /\ UNCHANGED <<rows, run, others>>
      /\ rows \in Rows /\ rival \in BOOLEAN /\ commits \in Nat
      /\ session' = [session EXCEPT !.state = "DESIGN"]
  BY DEF Redesign, EvalInv, EvalTypeOK
<1>2. session' \in Sessions /\ session'.state = "DESIGN" /\ session'.result = session.result
  BY <1>1, StepNames DEF Sessions
<1>3. ~Running' /\ (HasResult' <=> HasResult) /\ GateHolds'
  BY <1>1, <1>2 DEF Running, HasResult, GateHolds
<1> QED
  BY <1>1, <1>2, <1>3, Saves DEF EvalInv, SessionOK, others

LEMMA CommitInv ==
  ASSUME EvalInv, NEW d \in Drafts, Commit(d)
  PROVE  EvalInv'
<1>1. /\ ~Running /\ session \in Sessions /\ UNCHANGED <<run, rival>>
      /\ rows \in Rows /\ rival \in BOOLEAN /\ commits' \in Nat
      /\ rows' = [rows EXCEPT !.design = d]
  BY DEF Commit, EvalInv, EvalTypeOK
<1>2. PICK n \in PageCounts :
        session' = [session EXCEPT !.state = "INGEST", !.design = d,
                      !.cached = IF @ > 0 THEN @ ELSE n]
  BY DEF Commit
<1> DEFINE k == IF session.cached > 0 THEN session.cached ELSE n
<1>3. k \in Nat /\ d \in MaybeDrafts
  BY <1>1, DraftsAssumption DEF Sessions, MaybeDrafts
<1>4. session' = [session EXCEPT !.state = "INGEST", !.design = d, !.cached = k]
  BY <1>1, <1>2 DEF Sessions
<1> HIDE DEF k
<1>5. /\ session' \in Sessions /\ session'.state = "INGEST" /\ session'.design = d
      /\ session'.result = session.result
  BY <1>1, <1>3, <1>4, StepNames DEF Sessions
<1>6. ~Running' /\ (HasResult' <=> HasResult) /\ GateHolds' /\ rows' \in Rows
  BY <1>1, <1>3, <1>5 DEF Running, HasResult, GateHolds, Rows
<1> QED
  BY <1>1, <1>5, <1>6, Saves DEF EvalInv, SessionOK

LEMMA RivalInv ==
  ASSUME EvalInv, NEW d \in Drafts \cup {NoDraft}, Rival(d)
  PROVE  EvalInv'
<1>1. UNCHANGED <<session, run>> /\ rows' \in Rows /\ rival' \in BOOLEAN /\ commits' \in Nat
  BY DEF Rival, EvalInv, EvalTypeOK, Rows, MaybeDrafts
<1>2. EvalTypeOK'
  BY <1>1 DEF EvalInv, EvalTypeOK
<1>3. SessionOK' /\ (Running => Fine(run))' /\ GateHolds'
  BY <1>1 DEF EvalInv, SessionOK, GateHolds, HasResult, Running, Fine
<1> QED
  BY <1>2, <1>3 DEF EvalInv

----------------------------------------------------------------------------
(* The specification. *)

LEMMA EvalInitInv == EvalInit => EvalInv
<1> SUFFICES ASSUME EvalInit PROVE EvalInv
  OBVIOUS
<1>1. EvalTypeOK
  BY StepNames DEF EvalInit, EvalTypeOK, Rows, Sessions, MaybeDrafts
<1> QED
  BY <1>1 DEF EvalInit, EvalInv, SessionOK, GateHolds, HasResult, Running, NoRun

LEMMA EvalNextInv == EvalInv /\ [EvalNext]_evalVars => EvalInv'
<1> SUFFICES ASSUME EvalInv, [EvalNext]_evalVars PROVE EvalInv'
  OBVIOUS
<1>1. CASE Enter \/ ReadSchema \/ Extract \/ Judge \/ StartRouting
  BY <1>1, EnterInv, ReadSchemaInv, ExtractInv, JudgeInv, StartRoutingInv
<1>2. ASSUME NEW kind \in {"positive", "negative"}, Route(kind) PROVE EvalInv'
  BY <1>2, RouteInv
<1>3. CASE RoutingDone \/ ReadConfig \/ Execute \/ WriteGold
  BY <1>3, RoutingDoneInv, ReadConfigInv, ExecuteInv, WriteGoldInv
<1>4. CASE Criteria \/ CompareStep \/ Answer
  BY <1>4, CriteriaInv, CompareInv, AnswerInv
<1>5. CASE Restart
  BY <1>5, RunEnds DEF Restart, EvalInv, EvalTypeOK
<1>6. CASE Accept \/ ForcePromote \/ Redesign
  BY <1>6, PromoteInv, RedesignInv
<1>7. ASSUME NEW d \in Drafts, Commit(d) PROVE EvalInv'
  BY <1>7, CommitInv
<1>8. ASSUME NEW d \in Drafts \cup {NoDraft}, Rival(d) PROVE EvalInv'
  BY <1>8, RivalInv
<1>9. CASE UNCHANGED evalVars
  <2>1. EvalTypeOK'
    BY <1>9 DEF EvalInv, EvalTypeOK, evalVars
  <2> QED
    BY <1>9, <2>1 DEF EvalInv, evalVars, SessionOK, GateHolds, HasResult, Running, Fine
<1> QED
  BY <1>1, <1>2, <1>3, <1>4, <1>5, <1>6, <1>7, <1>8, <1>9 DEF EvalNext, EvalStep

\* What a session saved of its evaluation and what a run counts agree always.
THEOREM EvalInductive == EvalSpec => []EvalInv
<1> QED
  BY EvalInitInv, EvalNextInv, PTL DEF EvalSpec

\* Rows, session and run keep their types, whatever judge, classifier and executor answer.
THEOREM EvalTypeCorrect == EvalSpec => []EvalTypeOK
<1>1. EvalInv => EvalTypeOK
  BY DEF EvalInv
<1> QED
  BY <1>1, EvalInductive, PTL

\* However many queries the self-test has and whatever the last one did, no acceptance
\* promotes after a failed assertion (_handle_eval_response, ADR-038 F).
THEOREM Gate == EvalSpec => []GateHolds
<1>1. EvalInv => GateHolds
  BY DEF EvalInv
<1> QED
  BY <1>1, EvalInductive, PTL

\* The scores of a run are ratios at most 1 for any number of samples and fields, and a
\* run that found nothing, or nothing faithful, meets no threshold (_run_eval).
THEOREM Scoring == EvalSpec => []ScoresSound
<1>1. EvalInv => ScoresSound
  BY RunShape DEF ScoresSound, Fine, At, Running
<1> QED
  BY <1>1, EvalInductive, PTL
----------------------------------------------------------------------------
(* Sums over sets of slides.  The induction is over the least number that fails. *)

\* < is contained in a well-founded relation; LeastNumber needs no more of it.
LEMMA Below ==
  \E R : IsWellFoundedOn(R, Nat) /\ \A m, n \in Nat : m < n => <<m, n>> \in R
<1>1. \A m, n \in Nat : m < n => <<m, n>> \in OpToRel(<, Nat)
  BY DEF OpToRel
<1>2. IsWellFoundedOn(OpToRel(<, Nat), Nat)
  BY NatLessThanWellFounded, Zenon
<1> QED
  BY <1>1, <1>2, Zenon

\* Every set of numbers has a least one.
LEMMA LeastNumber ==
  ASSUME NEW T, T \subseteq Nat, T # {}
  PROVE  \E n \in T : \A m \in T : n <= m
<1>1. PICK R : IsWellFoundedOn(R, Nat) /\ \A m, n \in Nat : m < n => <<m, n>> \in R
  BY Below
<1>2. IsWellFoundedOn(R, Nat)
  BY <1>1
<1>3. PICK n \in T : \A m \in T : ~(<<m, n>> \in R)
  BY <1>2, WFMin, Zenon
<1>4. n \in Nat /\ \A m \in T : m \in Nat /\ ~(m < n)
  BY <1>1, <1>3
<1> QED
  BY <1>4

Sections == Seq([title : DOMAIN Canon, words : Nat])

\* The words of a set of slides as Words sums them: those of one slide, and the rest.
One(s) == CHOOSE i \in s : TRUE
Sum(sections, g, s) == IF s = {} THEN 0 ELSE sections[One(s)].words + g[s \ {One(s)}]
IsSum(sections, S, g) == g = [s \in SUBSET S |-> Sum(sections, g, s)]
Total(sections, S) == CHOOSE g : IsSum(sections, S, g)
Named(sections, name) == {i \in DOMAIN sections : Canon[sections[i].title] = name}

LEMMA WordsUnfolded ==
  ASSUME NEW sections, NEW name
  PROVE  Words(sections, name) = Total(sections, Named(sections, name))[Named(sections, name)]
BY DEF Words, MapThenSumSet, MapThenFoldSet, Total, IsSum, Sum, One, Named

LEMMA OneOf ==
  ASSUME NEW s, s # {}
  PROVE  One(s) \in s
BY DEF One

\* The rest is a smaller set.
LEMMA OneLess ==
  ASSUME NEW S, IsFiniteSet(S), NEW s \in SUBSET S, s # {}
  PROVE  /\ s \ {One(s)} \in SUBSET S
         /\ Cardinality(s) \in Nat /\ Cardinality(s \ {One(s)}) \in Nat
         /\ Cardinality(s \ {One(s)}) < Cardinality(s)
<1>1. IsFiniteSet(s) /\ One(s) \in s
  BY FS_Subset, OneOf
<1>2. IsFiniteSet(s \ {One(s)}) /\ Cardinality(s \ {One(s)}) = Cardinality(s) - 1
  BY <1>1, FS_RemoveElement
<1>3. Cardinality(s) \in Nat /\ Cardinality(s \ {One(s)}) \in Nat
  BY <1>1, <1>2, FS_CardinalityType
<1> QED
  BY <1>2, <1>3

\* There is a function that obeys the recursive equation: were it not so for the sets up
\* to some size, then for the least such size there is one after all.
LEMMA TotalExists ==
  ASSUME NEW sections, NEW S, IsFiniteSet(S)
  PROVE  \E g : IsSum(sections, S, g)
<1> DEFINE Upto(n) == {s \in SUBSET S : Cardinality(s) <= n}
           SumTo(g, n) == g = [s \in Upto(n) |-> Sum(sections, g, s)]
           Bad == {n \in Nat : ~ \E g : SumTo(g, n)}
<1>1. \A s \in SUBSET S : Cardinality(s) \in Nat /\ Cardinality(s) <= Cardinality(S)
  BY FS_Subset, FS_CardinalityType
<1>2. Cardinality(S) \in Nat
  BY <1>1
<1>3. Bad = {}
  <2> SUFFICES ASSUME Bad # {} PROVE FALSE
    OBVIOUS
  <2>1. PICK n \in Bad : \A m \in Bad : n <= m
    <3> HIDE DEF Bad
    <3>1. Bad \subseteq Nat
      BY DEF Bad
    <3> QED
      BY <3>1, LeastNumber
  <2>2. n \in Nat
    BY <2>1
  <2>3. CASE n = 0
    <3> DEFINE g == [s \in Upto(0) |-> 0]
    <3>1. \A s \in Upto(0) : s = {}
      <4> TAKE s \in Upto(0)
      <4>1. s \in SUBSET S /\ Cardinality(s) = 0 /\ IsFiniteSet(s)
        BY <1>1, FS_Subset
      <4> QED
        BY <4>1, FS_EmptySet
    <3>2. SumTo(g, 0)
      BY <3>1 DEF Sum
    <3>3. \E h : SumTo(h, 0)
      <4> HIDE DEF SumTo, g
      <4> QED
        BY <3>2
    <3> QED
      BY <2>1, <2>3, <3>3
  <2>4. CASE n # 0
    <3>1. n - 1 \in Nat /\ n - 1 \notin Bad
      <4>1. n - 1 \in Nat /\ n - 1 < n
        BY <2>2, <2>4
      <4> HIDE DEF Bad
      <4> QED
        BY <2>1, <2>2, <4>1
    <3>2. PICK g : SumTo(g, n - 1)
      BY <3>1
    <3> DEFINE h == [s \in Upto(n) |-> IF Cardinality(s) <= n - 1 THEN g[s] ELSE Sum(sections, g, s)]
    <3>3. ASSUME NEW s \in Upto(n)
          PROVE  h[s] = Sum(sections, h, s)
      <4>1. Cardinality(s) \in Nat /\ Cardinality(s) <= n
        BY <1>1
      <4>2. h[s] = Sum(sections, g, s)
        <5>1. CASE Cardinality(s) <= n - 1
          <6>1. s \in Upto(n - 1) /\ h[s] = g[s]
            BY <5>1
          <6>2. g[s] = Sum(sections, g, s)
            BY <3>2, <6>1
          <6> QED
            BY <6>1, <6>2
        <5>2. CASE ~(Cardinality(s) <= n - 1)
          BY <5>2
        <5> QED
          BY <5>1, <5>2
      <4>3. CASE s = {}
        BY <4>2, <4>3 DEF Sum
      <4>4. CASE s # {}
        <5> DEFINE r == s \ {One(s)}
        <5>1. r \in SUBSET S /\ Cardinality(r) \in Nat /\ Cardinality(r) < Cardinality(s)
          BY <4>4, OneLess
        <5>2. Cardinality(r) <= n - 1 /\ Cardinality(r) <= n
          BY <2>2, <4>1, <5>1
        <5>3. h[r] = g[r]
          BY <5>1, <5>2
        <5> QED
          BY <4>2, <4>4, <5>3 DEF Sum
      <4> QED
        BY <4>3, <4>4
    <3>4. SumTo(h, n)
      <4>1. [s \in Upto(n) |-> Sum(sections, h, s)] = [s \in Upto(n) |-> h[s]]
        <5> HIDE DEF h
        <5> QED
          BY <3>3
      <4>2. h = [s \in Upto(n) |-> h[s]]
        OBVIOUS
      <4> HIDE DEF h
      <4> QED
        BY <4>1, <4>2
    <3>5. \E k : SumTo(k, n)
      <4> HIDE DEF SumTo, h
      <4> QED
        BY <3>4
    <3> QED
      BY <2>1, <3>5
  <2> QED
    BY <2>3, <2>4
<1>4. PICK g : SumTo(g, Cardinality(S))
  BY <1>2, <1>3
<1>5. Upto(Cardinality(S)) = SUBSET S
  BY <1>1
<1>6. IsSum(sections, S, g)
  BY <1>4, <1>5 DEF IsSum
<1> QED
  BY <1>6

\* The sum obeys its own recursive equation.
LEMMA TotalStep ==
  ASSUME NEW sections, NEW S, IsFiniteSet(S), NEW s \in SUBSET S
  PROVE  Total(sections, S)[s] = Sum(sections, Total(sections, S), s)
<1>1. IsSum(sections, S, Total(sections, S))
  BY TotalExists DEF Total
<1> HIDE DEF Total
<1> QED
  BY <1>1 DEF IsSum

LEMMA ElementOf ==
  ASSUME NEW A, NEW seq \in Seq(A), NEW j \in DOMAIN seq
  PROVE  seq[j] \in A
OBVIOUS

LEMMA SectionWords ==
  ASSUME NEW sections \in Sections, NEW j \in DOMAIN sections
  PROVE  sections[j].words \in Nat
<1>1. sections[j] \in [title : DOMAIN Canon, words : Nat]
  BY ElementOf DEF Sections
<1> QED
  BY <1>1

\* The sum over a set of slides is a number, and no less than the words of one.
LEMMA TotalBounds ==
  ASSUME NEW sections \in Sections, NEW S \in SUBSET DOMAIN sections, NEW i \in S
  PROVE  Total(sections, S)[S] \in Nat /\ sections[i].words <= Total(sections, S)[S]
<1> DEFINE T == Total(sections, S)
           Good(s) == T[s] \in Nat /\ \A j \in s : sections[j].words <= T[s]
           Bad == {n \in Nat : \E s \in SUBSET S : Cardinality(s) = n /\ ~Good(s)}
<1>1. IsFiniteSet(S)
  <2>1. DOMAIN sections = 1..Len(sections) /\ Len(sections) \in Nat
    BY DEF Sections
  <2>2. IsFiniteSet(1..Len(sections))
    BY <2>1, FS_Interval
  <2> QED
    BY <2>1, <2>2, FS_Subset
<1>2. \A j \in S : sections[j].words \in Nat
  BY SectionWords
<1>3. \A s \in SUBSET S : T[s] = Sum(sections, T, s)
  BY <1>1, TotalStep
<1> HIDE DEF T
<1>4. Bad = {}
  <2> SUFFICES ASSUME Bad # {} PROVE FALSE
    OBVIOUS
  <2>1. PICK n \in Bad : \A m \in Bad : n <= m
    <3> HIDE DEF Bad
    <3>1. Bad \subseteq Nat
      BY DEF Bad
    <3> QED
      BY <3>1, LeastNumber
  <2>2. PICK s \in SUBSET S : Cardinality(s) = n /\ ~Good(s)
    BY <2>1
  <2>3. s # {}
    <3> SUFFICES ASSUME s = {} PROVE Good(s)
      BY <2>2
    <3>1. T[s] = 0
      BY <1>3 DEF Sum
    <3> QED
      BY <3>1
  <2> DEFINE r == s \ {One(s)}
  <2>4. r \in SUBSET S /\ Cardinality(r) \in Nat /\ Cardinality(r) < n /\ n \in Nat
    BY <1>1, <2>1, <2>2, <2>3, OneLess
  <2>5. Good(r)
    <3> HIDE DEF Good, r
    <3> QED
      BY <2>1, <2>4
  <2>6. One(s) \in s /\ One(s) \in S /\ \A j \in s : j = One(s) \/ j \in r
    BY <2>3, OneOf
  <2>7. T[s] = sections[One(s)].words + T[r]
    BY <1>3, <2>3 DEF Sum
  <2>8. sections[One(s)].words \in Nat
    BY <1>2, <2>6
  <2>9. Good(s)
    <3> HIDE DEF r
    <3> QED
      BY <2>5, <2>6, <2>7, <2>8, <1>2
  <2> QED
    BY <2>2, <2>9
<1>5. Cardinality(S) \in Nat
  BY <1>1, FS_CardinalityType
<1>6. Good(S)
  BY <1>4, <1>5
<1> QED
  BY <1>6 DEF T

\* The words under the name of a slide are at least its own.
LEMMA WordsAtLeast ==
  ASSUME NEW sections \in Sections, NEW i \in DOMAIN sections
  PROVE  LET words == Words(sections, Canon[sections[i].title])
         IN  words \in Nat /\ sections[i].words <= words
<1> DEFINE S == Named(sections, Canon[sections[i].title])
<1>1. S \in SUBSET DOMAIN sections /\ i \in S
  BY DEF Named
<1> QED
  BY <1>1, TotalBounds, WordsUnfolded

----------------------------------------------------------------------------
(* What a run compared. *)

NotCompared == [ran |-> FALSE]

\* Until it answers a run has compared nothing; then, if anything, what it made with
\* the reference.
ComparedOK ==
  Running =>
    \/ run.compared = NotCompared
    \/ /\ At("result") /\ Reference # Unbound
       /\ run.compared = Compare(Reference, run.produced)

\* Compared with itself the reference has no gaps.
LEMMA NoGaps ==
  ASSUME Reference # Unbound, Compare(Reference, Reference).ran
  PROVE  /\ Compare(Reference, Reference).missing = {}
         /\ Compare(Reference, Reference).thin = {}
<1>1. Reference \in Sections
  BY ReferenceAssumption DEF Sections
<1>2. Missing(Reference, Reference) = {}
  BY DEF Missing, Names
<1>3. Thin(Reference, Reference) = {}
  <2> SUFFICES ASSUME NEW i \in DOMAIN Reference,
                      2 * Words(Reference, Canon[Reference[i].title]) < Reference[i].words
               PROVE  FALSE
    BY DEF Thin
  <2> DEFINE words == Words(Reference, Canon[Reference[i].title])
  <2>1. words \in Nat /\ Reference[i].words <= words
    BY <1>1, WordsAtLeast
  <2>2. Reference[i].words \in Nat
    BY <1>1, SectionWords
  <2> HIDE DEF words
  <2>3. 2 * words < Reference[i].words
    BY DEF words
  <2> QED
    BY <2>1, <2>2, <2>3
<1> QED
  BY <1>2, <1>3 DEF Compare

LEMMA StillNot ==
  ASSUME run'.compared = NotCompared
  PROVE  ComparedOK'
BY DEF ComparedOK

LEMMA ComparedStep == EvalInv /\ ComparedOK /\ EvalStep => ComparedOK'
<1> SUFFICES ASSUME EvalInv, ComparedOK, EvalStep PROVE ComparedOK'
  OBVIOUS
<1>1. Running
  BY DEF EvalStep, ReadSchema, Extract, Judge, StartRouting, Route, RoutingDone, ReadConfig,
         Execute, WriteGold, Criteria, CompareStep, Answer, At, Running
<1>2. run \in RunStates
  BY <1>1, RunShape
<1>3. ~At("result") => run.compared = NotCompared
  BY <1>1 DEF ComparedOK
<1>4. CASE Raise
  BY <1>4 DEF Raise, ComparedOK, Running, NoRun
<1>5. CASE run' = NoRun
  BY <1>5 DEF ComparedOK, Running, NoRun
<1>6. CASE ReadSchema \/ StartRouting \/ RoutingDone
  <2>1. run'.compared = run.compared /\ ~At("result")
    BY <1>2, <1>6 DEF ReadSchema, StartRouting, RoutingDone, To, At, RunStates
  <2> QED
    BY <1>3, <2>1, StillNot
<1>7. CASE Extract /\ ~Raise /\ run' # NoRun
  <2>1. run'.compared = run.compared /\ ~At("result")
    BY <1>2, <1>7 DEF Extract, At, RunStates
  <2> QED
    BY <1>3, <2>1, StillNot
<1>8. CASE Judge
  <2>1. run'.compared = run.compared /\ ~At("result")
    BY <1>2, <1>8 DEF Judge, Judged, Counted, At, RunStates
  <2> QED
    BY <1>3, <2>1, StillNot
<1>9. ASSUME NEW kind \in {"positive", "negative"}, Route(kind), ~Raise
      PROVE  ComparedOK'
  <2>1. run'.compared = run.compared /\ ~At("result")
    BY <1>2, <1>9 DEF Route, At, RunStates
  <2> QED
    BY <1>3, <2>1, StillNot
<1>10. CASE (ReadConfig /\ ~Raise) \/ Execute \/ WriteGold \/ Criteria
  <2>1. run'.compared = run.compared /\ ~At("result")
    BY <1>2, <1>10 DEF ReadConfig, Execute, WriteGold, Criteria, To, At, RunStates
  <2> QED
    BY <1>3, <2>1, StillNot
<1>11. CASE CompareStep
  <2>1. CASE /\ Reference # Unbound
             /\ run' = [run EXCEPT !.pc = "result",
                          !.compared = Compare(Reference, run.produced)]
    <3>1. /\ run'.pc = "result" /\ run'.produced = run.produced
          /\ run'.compared = Compare(Reference, run.produced)
      BY <1>2, <2>1 DEF RunStates
    <3> QED
      BY <2>1, <3>1 DEF ComparedOK, At
  <2>2. CASE To("result")
    <3>1. run'.compared = run.compared /\ ~At("result")
      BY <1>2, <1>11, <2>2 DEF CompareStep, To, At, RunStates
    <3> QED
      BY <1>3, <3>1, StillNot
  <2> QED
    BY <1>11, <2>1, <2>2 DEF CompareStep
<1>12. CASE Answer
  BY <1>5, <1>12 DEF Answer
<1> QED
  BY <1>4, <1>5, <1>6, <1>7, <1>8, <1>9, <1>10, <1>11, <1>12 DEF EvalStep

LEMMA ComparedNext == EvalInv /\ ComparedOK /\ [EvalNext]_evalVars => ComparedOK'
<1> SUFFICES ASSUME EvalInv, ComparedOK, [EvalNext]_evalVars PROVE ComparedOK'
  OBVIOUS
<1>1. CASE EvalStep
  BY <1>1, ComparedStep
<1>2. CASE Enter
  <2>1. CASE Raise
    BY <2>1 DEF Raise, ComparedOK, Running, NoRun
  <2>2. CASE ~Raise
    <3>1. PICK n \in IF session.cached > 0 THEN {session.cached} ELSE PageCounts \ {0} :
             run' = [pc |-> "schema", left |-> IF n < 3 THEN n ELSE 3, pages |-> n,
                     schema |-> NoDraft, scores |-> NoScores, tojudge |-> 0,
                     positive |-> 0, negative |-> 0, failed |-> 0, verdict |-> TRUE,
                     config |-> NoDraft, status |-> "not_run", produced |-> Unbound,
                     passed |-> FALSE, compared |-> [ran |-> FALSE]]
      BY <1>2, <2>2, Zenon DEF Enter
    <3>2. run'.compared = NotCompared
      BY <3>1, Zenon DEF NotCompared
    <3> QED
      BY <3>2, StillNot
  <2> QED
    BY <2>1, <2>2
<1>3. CASE Restart
  BY <1>3 DEF Restart, Raise, ComparedOK, Running, NoRun
<1>4. CASE UNCHANGED run
  BY <1>4 DEF ComparedOK, Running, At
<1> QED
  BY <1>1, <1>2, <1>3, <1>4
     DEF EvalNext, Accept, ForcePromote, Promote, Redesign, Commit, Rival, others, evalVars

\* However many slides share a name, an artifact with the sections of the reference is
\* told to lack none and to have none too thin (ArtifactComparator.compare).
THEOREM Comparing == EvalSpec => []SameHasNoGaps
<1>1. EvalInit => ComparedOK
  BY DEF EvalInit, ComparedOK, Running, NoRun
<1>2. ComparedOK => SameHasNoGaps
  BY NoGaps DEF ComparedOK, SameHasNoGaps, NotCompared, At, Running
<1> QED
  BY <1>1, <1>2, ComparedNext, EvalInductive, PTL DEF EvalSpec
=============================================================================
