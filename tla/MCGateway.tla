------------------------------ MODULE MCGateway ------------------------------
(* Small instances of Gateway for TLC.                                     *)
EXTENDS Gateway

CONSTANTS k1, k2   \* k1 is a shared LLM_API_KEY: both pools hold it

MCKeys == {k1, k2}

\* Two models sharing a key around one without a key; no key at all.
MCPoolConfigs == {<< <<k1, k2>>, <<>>, <<k1>> >>, << <<>>, <<>>, <<>> >>}

MCReplies == {"ok", "garbled", "http401", "http429", "http4xx"}
=============================================================================
