--------------------------- MODULE MCPublication ---------------------------
(* Small instances of Publication for TLC.                                   *)
EXTENDS Publication, TLC

PublicationSymmetry == Permutations(Handles) \cup Permutations(Jobs)
=============================================================================
