------------------------------ MODULE ReplayMC ------------------------------
(***************************************************************************)
(* Instances of ReplayTasks for TLC.                                       *)
(***************************************************************************)
EXTENDS ReplayTasks

CONSTANTS t1, t2, p1, p2

OneTask  == {t1}
TwoTasks == {t1, t2}
OneProc  == {p1}
TwoProcs == {p1, p2}

=============================================================================
