----------------------------- MODULE MCModeration -----------------------------
(***************************************************************************)
(* Instances of Moderation for TLC.                                        *)
(***************************************************************************)
EXTENDS Moderation, TLC

Symmetry == Permutations(ReviewIds) \cup Permutations(LayoffIds)
                \cup Permutations(Moderators)
=============================================================================
