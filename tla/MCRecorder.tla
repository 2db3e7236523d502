------------------------------ MODULE MCRecorder ------------------------------
(***************************************************************************)
(* One unit is ten seconds, as in MCInfluxSetup.  The results have statuses *)
(* on either side of the boundary, start times within one millisecond, two *)
(* of them the same, and latencies that repeat.                            *)
(***************************************************************************)
EXTENDS Recorder

AllDurations   == {0, 1, 2, 20}
AllCancelTimes == {0, 1, 4, 99}

R(m, s, t, l) == [method |-> m, status |-> s, start |-> t, latency |-> l]

SomeResults == { R("GET", 399, 5000001, 1), R("GET", 400, 5000001, 4),
                 R("POST", 399, 5000001, 4), R("GET", 399, 5000002, 9),
                 R("GET", 0, 5000003, 9) }
===============================================================================
