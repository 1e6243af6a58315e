-------------------------- MODULE VerificationLadder --------------------------
(***************************************************************************)
(* The auth ladder as VerificationTier (app/models/enums.py) describes it: *)
(* phone OTP -> corporate email -> document.  A user climbs one rung at a  *)
(* time and never comes down.                                              *)
(***************************************************************************)
EXTENDS Naturals

CONSTANT Users

VARIABLE tier

Tiers == {"none", "phone", "email", "document"}

\* deps.py _TIER_RANK; "none" is a phone number without a user row
Rank == [t \in Tiers |-> CASE t = "none"     -> 0
                           [] t = "phone"    -> 1
                           [] t = "email"    -> 2
                           [] t = "document" -> 3]

Init == tier = [u \in Users |-> "none"]

Climb(u, t) ==
    /\ Rank[t] = Rank[tier[u]] + 1
    /\ tier' = [tier EXCEPT ![u] = t]

Next == \E u \in Users, t \in Tiers : Climb(u, t)

Spec == Init /\ [][Next]_tier

=============================================================================
