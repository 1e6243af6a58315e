----------------------------- MODULE MCRateLimit -----------------------------
(***************************************************************************)
(* Instances of RateLimit for TLC: handlers, keys and row ids are model    *)
(* values that no definition tells apart.                                  *)
(***************************************************************************)
EXTENDS RateLimit, TLC

Symmetry == Permutations(Requests) \cup Permutations(Keys)
                \cup Permutations(RowIds)
=============================================================================
