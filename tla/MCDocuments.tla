---------------------------- MODULE MCDocuments ----------------------------
(* Two documents and two overlapping requests for TLC. *)
EXTENDS Documents, TLC

CONSTANTS d1, d2, r1, r2

MCDocs == {d1, d2}
MCRequests == {r1, r2}

\* Only invariants are checked, and no definition tells two documents or two
\* slots apart.
MCSymmetry == Permutations(MCDocs) \cup Permutations(MCRequests)
=============================================================================
