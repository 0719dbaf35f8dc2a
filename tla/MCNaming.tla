------------------------------- MODULE MCNaming -------------------------------
EXTENDS Naming

MCTargets == {1, 2}
MCOld == <<2>>
MCNames == {"x"}
MCTasks == {1, 2}

=============================================================================
