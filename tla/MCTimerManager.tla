--------------------------- MODULE MCTimerManager ---------------------------
(* Instances of the timer manager for model checking.                       *)
EXTENDS TimerManager

CONSTANTS t1, t2, t3

ThreeTasks == {t1, t2, t3}
=============================================================================
