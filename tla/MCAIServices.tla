---------------------------- MODULE MCAIServices ----------------------------
(* One event whose type has two tasks, and one whose type has none of its own. *)
EXTENDS AIServices

MCKind == <<"earthquake", "network">>
=============================================================================
