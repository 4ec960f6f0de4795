-------------------------- MODULE MCSessionStore ---------------------------
(* SessionStore with a few interchangeable requests and session ids. *)
EXTENDS SessionStore, TLC

CONSTANTS i1, i2, i3, r1, r2, r3

MCIds == {i1, i2, i3}
MCRequests == {r1, r2, r3}
MCSymmetry == Permutations(MCIds) \cup Permutations(MCRequests)
=============================================================================
