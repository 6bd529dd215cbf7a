---------------------------- MODULE MCWatermark ----------------------------
(* Small instances of Watermark for TLC.                                    *)
EXTENDS Watermark, TLC

CONSTANTS h1, h2

HandleSymmetry == Permutations(Handles)
=============================================================================
