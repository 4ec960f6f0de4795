--------------------------- MODULE MCSkillCatalog --------------------------
(* A skill committed twice and one committed once, one worker, two requests. *)
EXTENDS SkillCatalog, TLC

CONSTANTS s1, s2

MCSkills == {s1, s2}
MCCommits == [s \in MCSkills |-> IF s = s1 THEN 2 ELSE 1]

Interchangeable == Permutations(Workers) \cup Permutations(Tasks)
=============================================================================
