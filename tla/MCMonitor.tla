------------------------------ MODULE MCMonitor ------------------------------
(* Instances of Monitor for TLC. *)
EXTENDS Monitor

CONSTANTS h1, h2, t1, t2

MCTargets == {h1}
MCTasks == {t1, t2}
=============================================================================
