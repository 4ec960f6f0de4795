------------------------ MODULE MCConfluenceAdapter ------------------------
(* Two threads of one runtime beside codex, and two callers of one child process that
   is started twice. *)
EXTENDS ConfluenceAdapter

CONSTANTS c1, c2, r1

MCHome == [c \in {c1, c2} |-> r1]
=============================================================================
