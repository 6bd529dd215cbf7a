---------------------------- MODULE MCLifecycle ----------------------------
(* Small instances of Lifecycle for TLC.                                    *)
EXTENDS Protocol, TLC

CONSTANTS h1, h2, j1, j2

OneJobAttempts == (j1 :> 2)
TwoJobsAttempts == (j1 :> 1) @@ (j2 :> 1)
HandleSymmetry == Permutations(Handles)
=============================================================================
