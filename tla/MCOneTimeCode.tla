---------------------------- MODULE MCOneTimeCode ----------------------------
(***************************************************************************)
(* Instances of OneTimeCode for TLC.                                       *)
(***************************************************************************)
EXTENDS OneTimeCode, TLC

Symmetry == Permutations(Keys) \cup Permutations(RowIds)
                \cup Permutations(Requests)
=============================================================================
