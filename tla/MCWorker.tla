------------------------------ MODULE MCWorker ------------------------------
(* Small instances of Worker for TLC.                                        *)
EXTENDS Worker, TLC

CONSTANTS w1, w2, j1, j2

\* One thread with a job on its last attempt, from the start of the clock, and two threads with two
\* jobs at its end, where time stands still and one call may fail.
SomeStarts ==
    {[threads |-> {w1}, att |-> (j1 :> 1 @@ j2 :> MaxAttempts), now |-> 0, faults |-> 0],
     [threads |-> {w1, w2}, att |-> (j1 :> 0 @@ j2 :> 1), now |-> MaxClock, faults |-> MaxFaults - 1]}
=============================================================================
