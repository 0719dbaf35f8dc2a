------------------------------- MODULE MCAlerts -------------------------------
(* Small instances of Alerts for TLC.                                      *)
EXTENDS Alerts

CONSTANTS n1, q1, q2

MCNews == {n1}
MCQuakes == {q1, q2}
=============================================================================
