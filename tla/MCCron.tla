------------------------------- MODULE MCCron -------------------------------
(* Small instances of Cron for TLC.                                        *)
EXTENDS Cron

CONSTANTS i1, i2, i3, t1, t2

MCIds == {i1, i2, i3}
MCTasks == {t1, t2}
=============================================================================
