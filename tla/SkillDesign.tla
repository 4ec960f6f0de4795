---------------------------- MODULE SkillDesign ----------------------------
(***************************************************************************)
(* The first half of the authoring conversation: intent, clarification,    *)
(* sources, their inspection, the reference artifact and the design, up to *)
(* the extraction preview.  What follows the commit (SkillPublish) appears *)
(* here as one action, Publish, that may hand the session back.            *)
(*                                                                         *)
(* One step is one request that saves the session.  A handler that raises  *)
(* (a language-model call that fails, a source that cannot be fetched)     *)
(* saves nothing and has written nothing: it is no step at all.            *)
(***************************************************************************)
EXTENDS AuthorSession, Sequences

CONSTANTS
  Sources,            \* source entries an author or the model may name
  Inspectable,        \* those with a Confluence page to fetch
  Artifacts,          \* reference artifacts an author may name
  NoArtifact,
  StructuredDesigns,  \* designs whose output format is pptx or docx
  MaxQuestions        \* how many blocking questions one call may return

ASSUME InspectableAssumption == Inspectable \subseteq Sources
ASSUME ArtifactsAssumption == NoArtifact \notin Artifacts
ASSUME StructuredAssumption == StructuredDesigns \subseteq Designs
ASSUME QuestionsAssumption == MaxQuestions \in Nat

VARIABLES
  mode,         \* self._data.source_binding_mode
  templated,    \* the normalised intent asks for a templated output
  questions,    \* self._data._clarify_questions
  clarifyNext,  \* self._data._clarify_next_state
  sources,      \* self._data.sources
  samples,      \* the sources behind source_samples and source_capability
  artifact,     \* the bound reference artifact
  stash,        \* self._data._pending_artifact_stash
  required,     \* self._data.artifact_required
  format,       \* self._data.output_format
  basis         \* the samples and the artifact the design call was given

intent == <<mode, templated>>
clarify == <<questions, clarifyNext>>
inputs == <<sources, samples>>
reference == <<artifact, stash, required>>
result == <<design, format, basis>>
vars == <<state, turn, design, mode, templated, questions, clarifyNext, sources,
          samples, artifact, stash, required, format, basis>>

Modes == {"author_fixed", "ask_parameterized", "ambiguous"}
Kinds == {"binding", "other"}
Formats == {"plain", "structured"}

OkWords == {"ok", "yes", "looks good", "continue", "proceed"}
NonAnswers == {"ok", "yes", "no", "continue", "proceed", "done"}

\* The whole text is one of the words: lowered in (...).
Is(ans, words) == \E w \in words : ans = {w}

Moves(to) == state' = to /\ turn' = Turn("plain")
Stays == Moves(state)

Init ==
  /\ state = "IDENTIFY_PERSONA"
  /\ turn = Turn("plain")
  /\ design = NoDesign
  /\ mode = "author_fixed"
  /\ templated = FALSE
  /\ questions = << >>
  /\ clarifyNext = "CONFIGURE_SOURCES"
  /\ sources = {}
  /\ samples = {}
  /\ artifact = NoArtifact
  /\ stash = NoArtifact
  /\ required = FALSE
  /\ format = "plain"
  /\ basis = [samples |-> {}, artifact |-> NoArtifact]

----------------------------------------------------------------------------
(* Clarification: the questions of one call, asked one at a time. *)

Open(qs) == {i \in DOMAIN qs : ~qs[i].resolved}
FirstOpen(i) == i \in Open(questions) /\ \A j \in Open(questions) : i <= j

AskAll(kinds) == [i \in DOMAIN kinds |-> [asks |-> kinds[i], resolved |-> FALSE]]

\* Mutants: the questions noted but not asked; the state to go on to forgotten,
\* as by a session restored without it.
EnterClarifyUnasked(kinds, next) ==
  Moves(next) /\ questions' = AskAll(kinds) /\ clarifyNext' = next
EnterClarifyForgets(kinds, next) ==
  /\ Moves("CLARIFY")
  /\ questions' = AskAll(kinds)
  /\ clarifyNext' = "CONFIGURE_SOURCES"

EnterClarify(kinds, next) ==
  /\ Moves("CLARIFY")
  /\ questions' = AskAll(kinds)
  /\ clarifyNext' = next

KindLists == UNION {[1..n -> Kinds] : n \in 1..MaxQuestions}

----------------------------------------------------------------------------
(* Sources. *)

\* Entering CONFIGURE_SOURCES adds what the intent names and the model proposes;
\* nothing ever removes a source.
ProposeSources ==
  /\ Moves("CONFIGURE_SOURCES")
  /\ \E proposed \in SUBSET Sources : sources' = sources \cup proposed

AddSource(ans) ==
  /\ state = "CONFIGURE_SOURCES"
  /\ ~Is(ans, {"done"})
  /\ Stays
  /\ \/ \E src \in Sources : sources' = sources \cup {src}
     \/ UNCHANGED sources                    \* the connector is not registered
  /\ UNCHANGED <<intent, clarify, samples, reference, result>>

\* Mutant: samples kept once there are some.
InspectedOnce == IF samples = {} THEN sources \cap Inspectable ELSE samples

Inspected == sources \cap Inspectable

\* 'done' fetches every inspectable source and replaces the cached samples.
\* A failed fetch, or nothing to inspect, raises.
InspectSources(ans) ==
  /\ state = "CONFIGURE_SOURCES"
  /\ Is(ans, {"done"})
  /\ Inspected # {}
  /\ samples' = Inspected
  /\ Moves("INSPECT_SOURCES")
  /\ UNCHANGED <<intent, clarify, sources, reference, result>>

----------------------------------------------------------------------------
(* Persona and intent. *)

\* One model call tells the binding mode and whether the output is templated.
ReadIntent == mode' \in Modes /\ templated' \in BOOLEAN

\* Then the questions that block.  A fixed binding drops the question about it.
CaptureIntent ==
  /\ ReadIntent
  /\ \/ \E kinds \in KindLists :
          /\ mode' = "author_fixed" => \A i \in DOMAIN kinds : kinds[i] # "binding"
          /\ EnterClarify(kinds, "CONFIGURE_SOURCES")
          /\ UNCHANGED sources
     \/ ProposeSources /\ UNCHANGED clarify            \* advisory notes only
     \/ Moves("CAPTURE_INTENT") /\ UNCHANGED <<clarify, sources>>
  /\ UNCHANGED <<samples, reference, result>>

IdentifyPersona ==
  /\ state = "IDENTIFY_PERSONA"
  /\ \/ CaptureIntent
     \/ Stays /\ UNCHANGED <<intent, clarify, inputs, reference, result>>

AnswerIntent(ans) ==
  /\ state = "CAPTURE_INTENT"
  /\ \/ /\ Is(ans, OkWords)
        /\ ProposeSources
        /\ UNCHANGED <<intent, clarify, samples, reference, result>>
     \/ ~Is(ans, OkWords) /\ CaptureIntent

----------------------------------------------------------------------------
(* Answering a blocking question. *)

\* A word that answers nothing, or an early artifact reference, is set aside.
SetAside(ans) ==
  /\ state = "CLARIFY"
  /\ \/ Is(ans, NonAnswers) /\ UNCHANGED stash
     \/ "artifact" \in ans /\ stash' \in Artifacts
  /\ Stays
  /\ UNCHANGED <<intent, clarify, inputs, artifact, required, result>>

AnsweredMode(ans) ==
  IF Is(ans, {"skip"}) \/ "fixed" \in ans THEN "author_fixed" ELSE "ask_parameterized"

AnswerQuestion(ans) ==
  /\ state = "CLARIFY"
  /\ ~Is(ans, NonAnswers) /\ "artifact" \notin ans
  /\ \E i \in DOMAIN questions :
       /\ FirstOpen(i)
       /\ questions' = [questions EXCEPT ![i].resolved = TRUE]
       /\ mode' = IF questions[i].asks = "binding" THEN AnsweredMode(ans) ELSE mode
  /\ IF Open(questions') # {}
     THEN Stays /\ UNCHANGED sources
     ELSE IF clarifyNext = "REVIEW_DESIGN"
          THEN Moves("REVIEW_DESIGN") /\ UNCHANGED sources
          ELSE ProposeSources
  /\ UNCHANGED <<templated, clarifyNext, samples, reference, result>>

----------------------------------------------------------------------------
(* The design. *)

\* One model call on the samples and the artifact.
Plan ==
  /\ design' \in Designs
  /\ basis' = [samples |-> samples, artifact |-> artifact']

\* Blocking questions go to CLARIFY and from there past the skill-card turn.
RunDesign ==
  /\ Plan
  /\ format' = IF design' \in StructuredDesigns THEN "structured" ELSE "plain"
  /\ \/ Moves("DESIGN_SKILL") /\ UNCHANGED clarify
     \/ \E n \in 1..MaxQuestions :
          EnterClarify([i \in 1..n |-> "other"], "REVIEW_DESIGN")

----------------------------------------------------------------------------
(* The reference artifact. *)

\* A templated output, whether the intent or the last design says so, needs one.
Required == templated \/ format = "structured"

ConfirmInspection(ans) ==
  /\ state = "INSPECT_SOURCES"
  /\ IF Is(ans, OkWords)
     THEN Moves("UPLOAD_ARTIFACT_EXAMPLE") /\ required' = Required
     ELSE Stays /\ UNCHANGED required
  /\ UNCHANGED <<intent, clarify, inputs, artifact, stash, result>>

StayUploading(kept) ==
  /\ artifact' = kept
  /\ Stays
  /\ UNCHANGED <<clarify, result>>

\* A reference nobody can resolve, find or read.  The mutant goes on without it
\* even when one is required.
LoseReferenceAnyway == artifact' = NoArtifact /\ RunDesign

LoseReference ==
  IF Required
  THEN StayUploading(artifact)
  ELSE artifact' = NoArtifact /\ RunDesign

\* The file is lost, is an image or of an unsupported type, cannot be parsed,
\* or is bound.
TakeReference(ref) ==
  \/ LoseReference
  \/ StayUploading(artifact)
  \/ StayUploading(IF Required THEN artifact ELSE NoArtifact)
  \/ artifact' = ref /\ RunDesign

SkipWords == {"skip", "no", "none", "later"}

AnswerUpload(ans) ==
  /\ state = "UPLOAD_ARTIFACT_EXAMPLE"
  /\ required' = Required
  /\ \/ /\ Is(ans, SkipWords) /\ stash # NoArtifact
        /\ TakeReference(stash)
        /\ stash' = NoArtifact
     \/ /\ Is(ans, SkipWords) /\ stash = NoArtifact
        /\ IF artifact = NoArtifact /\ Required
           THEN StayUploading(artifact)
           ELSE artifact' = artifact /\ RunDesign
        /\ UNCHANGED stash
     \/ /\ "artifact" \in ans
        /\ \E ref \in Artifacts : TakeReference(ref)
        /\ stash' = NoArtifact
     \/ /\ "path" \in ans
        /\ \E ref \in Artifacts : TakeReference(ref)
        /\ UNCHANGED stash
     \/ /\ ~Is(ans, SkipWords) /\ ~Has(ans, {"artifact", "path"})
        /\ LoseReference
        /\ UNCHANGED stash
  /\ UNCHANGED <<intent, inputs>>

----------------------------------------------------------------------------
(* Reviewing the design. *)

AnswerCard(ans) ==
  /\ state = "DESIGN_SKILL"
  /\ IF Has(ans, {"ok", "yes", "looks good", "confirm", "proceed"})
     THEN Moves("REVIEW_DESIGN") /\ UNCHANGED design
     ELSE /\ Stays                                       \* edits of the card
          /\ design' \in Designs
          /\ design' \in StructuredDesigns <=> design \in StructuredDesigns
  /\ UNCHANGED <<intent, clarify, inputs, reference, format, basis>>

\* A patch or a re-planned design is shown again; 'ok' moves on.
AnswerDesign(ans) ==
  /\ state = "REVIEW_DESIGN"
  /\ IF Is(ans, OkWords)
     THEN Moves("CONFIGURE_TRIGGERS") /\ UNCHANGED design
     ELSE Stays /\ design' \in Designs
  /\ UNCHANGED <<intent, clarify, inputs, reference, format, basis>>

\* The preview runs on the cached samples; the state moves on even when the
\* provider's content filter blocks it.
Preview ==
  /\ samples # {}
  /\ state' = "PREVIEW_EXTRACTION"
  /\ turn' \in {Turn("plain"), Turn("filtered")}

AnswerTriggers(ans) ==
  /\ state = "CONFIGURE_TRIGGERS"
  /\ IF Is(ans, {"ok", "yes", "continue", "looks good"})
     THEN format' = IF design \in StructuredDesigns THEN "structured" ELSE "plain"
     ELSE format' \in Formats
  /\ Preview
  /\ UNCHANGED <<design, intent, clarify, inputs, reference, basis>>

AnswerPreview(ans) ==
  /\ state = "PREVIEW_EXTRACTION"
  /\ \/ AsksSources(ans) /\ ProposeSources
     \/ /\ ~AsksSources(ans) /\ "stop" \in ans
        /\ state' = state /\ turn' = Closing("plain")
        /\ UNCHANGED sources
     \/ /\ ~AsksSources(ans) /\ "stop" \notin ans /\ ~CommitAsked(ans)
        /\ Moves(IF Has(ans, {"back", "design"}) THEN "REVIEW_DESIGN" ELSE state)
        /\ UNCHANGED sources
  /\ UNCHANGED <<intent, clarify, samples, reference, result>>

----------------------------------------------------------------------------
(* The publish half, as far as it comes back for other sources or another  *)
(* design.  VALIDATE, INGEST and PROMOTE touch nothing of this half and are *)
(* passed over.                                                            *)

Publish(ans) ==
  /\ \/ /\ state = "PREVIEW_EXTRACTION" /\ CommitAsked(ans)
        /\ Moves("COMMITTED") \/ Stays
        /\ UNCHANGED sources
     \/ state = "COMMITTED" /\ Moves("EVAL") /\ UNCHANGED sources
     \/ state = "EVAL" /\ AsksSources(ans) /\ ProposeSources
     \/ state = "EVAL" /\ Moves("EVAL_ROUTE_PENDING") /\ UNCHANGED sources
     \/ state = "EVAL_ROUTE_PENDING" /\ Moves("REVIEW_DESIGN") /\ UNCHANGED sources
     \/ /\ state \in PublishStates \cup {"DONE"}
        /\ state' = "DONE" /\ turn' = Closing("plain")
        /\ UNCHANGED sources
  /\ UNCHANGED <<intent, clarify, samples, reference, result>>

Authoring(ans) ==
  \/ AnswerIntent(ans)
  \/ SetAside(ans)
  \/ AnswerQuestion(ans)
  \/ AddSource(ans)
  \/ InspectSources(ans)
  \/ ConfirmInspection(ans)
  \/ AnswerUpload(ans)
  \/ AnswerCard(ans)
  \/ AnswerDesign(ans)
  \/ AnswerTriggers(ans)
  \/ AnswerPreview(ans)

Next ==
  \/ IdentifyPersona
  \/ \E ans \in Answers : Authoring(ans) \/ Publish(ans)

(***************************************************************************)
(* Nothing makes the conversation move but the author.  Fairness says that *)
(* an author who is asked eventually gives the answer the turn offers (one *)
(* that names a source which can be inspected, if none is there yet), that *)
(* the model, the wiki and the artifact store do not fail every time, and  *)
(* that an author shown a preview again and again ends by committing it.   *)
(***************************************************************************)
Leaves == state' # state

Proceed(ans) ==
  \/ AnswerIntent(ans) /\ Leaves
  \/ AnswerQuestion(ans)
  \/ sources \cap Inspectable = {} /\ AddSource(ans) /\ sources' \cap Inspectable # {}
  \/ InspectSources(ans)
  \/ ConfirmInspection(ans) /\ Leaves
  \/ AnswerUpload(ans) /\ Leaves
  \/ AnswerCard(ans) /\ Leaves
  \/ AnswerDesign(ans) /\ Leaves
  \/ AnswerTriggers(ans)

Fairness ==
  /\ WF_vars(IdentifyPersona /\ Leaves)
  /\ WF_vars(\E ans \in Answers : Proceed(ans))
  /\ SF_vars(\E ans \in Answers : Publish(ans) /\ state' = "COMMITTED")

Spec == Init /\ [][Next]_vars /\ Fairness

----------------------------------------------------------------------------
(* Properties. *)

(***************************************************************************)
(* CLARIFY is left exactly when nothing is left to answer, whichever call  *)
(* asked and through however many requests; and once the question about    *)
(* the source binding has been answered the mode is a definite one.        *)
(***************************************************************************)
QuestionsAnswered ==
  /\ state = "CLARIFY" <=> Open(questions) # {}
  /\ \A i \in DOMAIN questions :
       questions[i].asks = "binding" /\ questions[i].resolved => mode # "ambiguous"

\* Where a design has been made: after the card, and after its own questions.
Designed ==
  \/ state \in {"DESIGN_SKILL", "REVIEW_DESIGN", "CONFIGURE_TRIGGERS",
                "PREVIEW_EXTRACTION"} \cup PublishStates
  \/ state = "CLARIFY" /\ clarifyNext = "REVIEW_DESIGN"

(***************************************************************************)
(* From the design on, the samples the preview extracts from, the sources  *)
(* the workflow will read and the reference EVAL compares against are the  *)
(* ones the design was made from: no way back through the sources or the   *)
(* upload step leaves a design made from something older.                  *)
(***************************************************************************)
DesignGrounded ==
  Designed =>
    /\ design # NoDesign
    /\ samples # {} /\ samples = sources \cap Inspectable
    /\ basis = [samples |-> samples, artifact |-> artifact]

(***************************************************************************)
(* A skill that was held to need a reference artifact has one from the     *)
(* design on: neither a skip, a lost file, nor a second visit of the       *)
(* upload step gets past the gate or drops the binding.                    *)
(***************************************************************************)
RequiredReference == Designed /\ required => artifact # NoArtifact

(***************************************************************************)
(* No answer leads to a state the dialogue cannot leave: an author who     *)
(* follows the options of each turn gets a skill committed.                *)
(***************************************************************************)
ReachesCommit == <>(state = "COMMITTED")

=============================================================================
