----------------------------- MODULE MCWeather -----------------------------
(* A watchlist of one village and another one that only queries ask for. *)
EXTENDS Weather

CONSTANTS q1, q2

MCFixtures == <<"gambir">>
MCQueries == {q1, q2}
=============================================================================
