---------------------------- MODULE MCTierLadder ----------------------------
(***************************************************************************)
(* Instances of TierLadder for TLC.                                        *)
(***************************************************************************)
EXTENDS TierLadder, TLC

Symmetry == Permutations(Users) \cup Permutations(Domains) \cup
                Permutations(Codes) \cup Permutations(Docs) \cup
                Permutations(Requests)
=============================================================================
