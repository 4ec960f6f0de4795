--------------------------- MODULE MCSkillPublish --------------------------
(* SkillPublish on one skill, a few designs and the answers its turns offer. *)
EXTENDS SkillPublish

CONSTANTS d1, d2

MCDesigns == {d1, d2}
MCFieldDesigns == {d1}
MCRoutedDesigns == {d2}

MCAnswers ==
  {{"ok", "commit"}, {"yes"}, {"no"}, {"stop"}, {"retry"}, {"skip", "eval"},
   {"change source"}, {"ship", "draft"}, {"force", "promote"}, {"accept"},
   {"confirm"}, {"text"}}
=============================================================================
