----------------------------- MODULE MCAskPath -----------------------------
(* Two skills that may read the same page on demand with different times to
   live, a page of a known space and one of an unknown space, one question
   and one EVAL, a cache of one page. *)
EXTENDS AskPath

CONSTANTS s1, s2, p1, p2

Param == [mode |-> "param", page |-> NoPage, onDemand |-> TRUE,
          spaces |-> {"FA"}, ttl |-> 1, artifact |-> TRUE]
PinnedHere == [mode |-> "pinned", page |-> p1, onDemand |-> TRUE,
               spaces |-> {}, ttl |-> 0, artifact |-> TRUE]
Lost == [PinnedHere EXCEPT !.page = NoPage]
Free == [mode |-> "generic", page |-> NoPage, onDemand |-> FALSE,
         spaces |-> {}, ttl |-> 0, artifact |-> TRUE]

MCInitial == [s \in {s1, s2} |-> IF s = s1 THEN Param ELSE PinnedHere]
MCDisk == [s \in {s1, s2} |-> IF s = s1 THEN Free ELSE Lost]
MCSpaceOf == [p \in {p1, p2} |-> IF p = p1 THEN "FA" ELSE Unknown]
MCConfigs == {Param, PinnedHere, Free, Lost}
=============================================================================
