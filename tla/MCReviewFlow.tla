----------------------------- MODULE MCReviewFlow -----------------------------
(***************************************************************************)
(* Instances of ReviewFlow for TLC.                                        *)
(***************************************************************************)
EXTENDS ReviewFlow, TLC

Symmetry == Permutations(Users) \cup Permutations(Companies) \cup Permutations(Requests)
                \cup Permutations(ReviewIds)
=============================================================================
