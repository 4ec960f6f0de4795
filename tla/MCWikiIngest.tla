---------------------------- MODULE MCWikiIngest ----------------------------
(* A REST session and an MCP session on one host (a worker is an MCP session
   that crawls and has no pinned page): two pages, p2 under a
   URL, p1 stored before canonical references were and edited once.  A job has two
   sources, or one and the pinned p1 that is in it, or the pinned p2 alone. *)
EXTENDS WikiIngest

CONSTANTS p1, p2, rest, mcp

Given(sources, pinned) == [sources |-> sources, pinned |-> pinned]

MCAssignments ==
  {Given({{p1}, {p2}}, NoPage), Given({{p1, p2}}, p1), Given({}, p2)}
=============================================================================
