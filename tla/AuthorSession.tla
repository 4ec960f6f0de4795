--------------------------- MODULE AuthorSession ---------------------------
(***************************************************************************)
(* What the two halves of the skill-authoring conversation share: the      *)
(* states of the dialogue, the author's answers and the turn the           *)
(* conversation returns (src/framework/skill_builder/conversation.py,      *)
(* class SkillBuilderConversation).                                        *)
(*                                                                         *)
(* A request is one call of respond(): the saved row is loaded, the        *)
(* handler of its state runs and the row is written back.  Here, and in    *)
(* SkillDesign and SkillPublish, one request is one step; SessionStore     *)
(* models what happens when requests overlap or die half way.              *)
(***************************************************************************)
EXTENDS Naturals

CONSTANTS
  Answers,   \* what an author may type: the sets of keywords the text contains
  Designs,   \* what DESIGN_SKILL may produce: fields, layout, skill card
  NoDesign   \* no design (a fresh session, an empty row of the skill store)

\* `lowered in text` is true of no keyword of an empty text, and start()
\* refuses one.
ASSUME AnswersAssumption == \A ans \in Answers : ans # {}
ASSUME NoDesignAssumption == NoDesign \notin Designs

(***************************************************************************)
(* The states up to the commit, the states from the commit on, and DONE.   *)
(* The states of the older ADR-026 dialogue, kept in the code for sessions *)
(* started before the current one, are left out.                           *)
(***************************************************************************)
AuthorStates ==
  {"IDENTIFY_PERSONA", "CAPTURE_INTENT", "CLARIFY", "CONFIGURE_SOURCES",
   "INSPECT_SOURCES", "UPLOAD_ARTIFACT_EXAMPLE", "DESIGN_SKILL",
   "REVIEW_DESIGN", "CONFIGURE_TRIGGERS", "PREVIEW_EXTRACTION"}

PublishStates ==
  {"COMMITTED", "VALIDATE", "INGEST", "EVAL", "EVAL_ROUTE_PENDING", "PROMOTE"}

States == AuthorStates \cup PublishStates \cup {"DONE"}

VARIABLES
  state,    \* self._state
  turn,     \* the ConversationTurn of the last request
  design    \* self._data.design with the fields and the card derived from it

(***************************************************************************)
(* A turn is reduced to what the author is told and to whether it closes   *)
(* the session: "says" is the statement the message makes, "target" the    *)
(* state it names as the next one.                                         *)
(***************************************************************************)
Claims ==
  {"plain", "filtered", "blocked", "routing", "not saved", "draft",
   "not live", "live"}

Turns == [says : Claims, target : AuthorStates \cup {"none"}, done : BOOLEAN]

Turn(claim) == [says |-> claim, target |-> "none", done |-> FALSE]
Closing(claim) == [Turn(claim) EXCEPT !.done = TRUE]

\* any(kw in lowered for kw in words)
Has(ans, words) == ans \cap words # {}

Stops(ans) == Has(ans, {"stop", "exit", "pause"})
AsksSources(ans) == "change source" \in ans

\* What PREVIEW_EXTRACTION takes for a commit.
CommitAsked(ans) ==
  /\ Has(ans, {"ok", "commit", "yes", "looks good", "proceed"})
  /\ ~AsksSources(ans)
  /\ "stop" \notin ans

Session == <<state, turn, design>>

SessionTypeOK ==
  /\ state \in States
  /\ turn \in Turns
  /\ design \in Designs \cup {NoDesign}
=============================================================================
