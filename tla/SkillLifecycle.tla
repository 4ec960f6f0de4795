-------------------------- MODULE SkillLifecycle ---------------------------
(***************************************************************************)
(* What the authoring conversation promises about one skill: it is absent, *)
(* a draft or live; content is never replaced under a live skill without   *)
(* taking it back to draft; and what goes live is content whose knowledge  *)
(* base was filled from that same content.  SkillPublish is checked to     *)
(* implement this specification.                                           *)
(***************************************************************************)
CONSTANTS Designs, NoDesign

VARIABLES
  phase,     \* "absent", "draft" or "live"
  content,   \* the design the stored workflow was made from
  filled     \* the design whose sources were last ingested successfully

vars == <<phase, content, filled>>

Init ==
  /\ phase = "absent"
  /\ content = NoDesign
  /\ filled = NoDesign

Draft(d) ==
  /\ phase' = "draft"
  /\ content' = d
  /\ UNCHANGED filled

\* An ingestion succeeds for the stored content, or leaves nothing to rely on.
Fill ==
  /\ phase # "absent"
  /\ filled' \in {content, NoDesign}
  /\ UNCHANGED <<phase, content>>

\* A new session does not know what an earlier one ingested.
Forget ==
  /\ filled' = NoDesign
  /\ UNCHANGED <<phase, content>>

Publish ==
  /\ phase = "draft"
  /\ filled = content
  /\ phase' = "live"
  /\ UNCHANGED <<content, filled>>

Next ==
  \/ \E d \in Designs : Draft(d)
  \/ Fill
  \/ Forget
  \/ Publish

Spec == Init /\ [][Next]_vars
=============================================================================
