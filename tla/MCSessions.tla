----------------------------- MODULE MCSessions -----------------------------
(***************************************************************************)
(* A small instance of Sessions.  Accounts of one kind, domains and        *)
(* handlers are interchangeable.                                           *)
(***************************************************************************)
EXTENDS Sessions, TLC

Symmetry == Permutations(Employers) \cup Permutations(Domains) \cup Permutations(Requests)
=============================================================================
