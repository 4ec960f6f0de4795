--------------------------- MODULE MCSkillDesign ---------------------------
(* SkillDesign with two designs, one of them a templated document, and the
   answers its turns offer. *)
EXTENDS SkillDesign

CONSTANTS d1, d2

MCDesigns == {d1, d2}
MCStructured == {d2}

MCAnswers ==
  {{"ok"}, {"skip"}, {"done"}, {"artifact"}, {"path"}, {"fixed"}, {"text"},
   {"change source"}, {"stop"}, {"back"}}
=============================================================================
