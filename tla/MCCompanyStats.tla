---------------------------- MODULE MCCompanyStats ----------------------------
(***************************************************************************)
(* Instances of CompanyStats for TLC.                                      *)
(***************************************************************************)
EXTENDS CompanyStats, TLC

CONSTANTS rev1, rev2, rev3

\* two columns: the reviews are all different in the first, and two of them
\* agree in the second
TwoColumns == (rev1 :> <<1, 1>>) @@ (rev2 :> <<2, 1>>) @@ (rev3 :> <<3, 2>>)

=============================================================================
