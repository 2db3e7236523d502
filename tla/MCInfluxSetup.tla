----------------------------- MODULE MCInfluxSetup -----------------------------
(***************************************************************************)
(* One unit is ten seconds: three pings of at most 30 s, pauses of 10 s,   *)
(* and 90 s for the setup.  99 stands for a caller that never cancels.     *)
(***************************************************************************)
EXTENDS InfluxSetup

AllDurations   == {0, 1, 2, 6, 20}
AllCancelTimes == {0, 1, 4, 9, 99}
===============================================================================
