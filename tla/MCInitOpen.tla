----------------------------- MODULE MCInitOpen -----------------------------
(***************************************************************************)
(* Two initializers that disagree about the number of shards, one opener,  *)
(* one failing system call, and up to two deaths or power failures.        *)
(***************************************************************************)
EXTENDS InitOpen, TLC

CONSTANTS i1, i2

ShardCounts == (i1 :> 1) @@ (i2 :> 2)

=============================================================================
