------------------------- MODULE PublicationLifecycle -------------------------
(***************************************************************************)
(* What moderation promises about one submission, as the ReviewStatus enum *)
(* (app/models/enums.py) states it: PENDING -> PUBLISHED/REJECTED.  A      *)
(* submission enters as PENDING and is decided once.  RevisableSpec is the *)
(* weaker promise that overlapping decisions leave: a decision may replace *)
(* a decision, and nothing else.                                           *)
(***************************************************************************)
CONSTANT Items

VARIABLE status

Statuses == {"ABSENT", "PENDING", "PUBLISHED", "REJECTED"}
Decided  == {"PUBLISHED", "REJECTED"}

Init == status = [i \in Items |-> "ABSENT"]

Enter(i) ==
    /\ status[i] = "ABSENT"
    /\ status' = [status EXCEPT ![i] = "PENDING"]

Decide(i, s) ==
    /\ status[i] = "PENDING"
    /\ status' = [status EXCEPT ![i] = s]

Next == \E i \in Items : Enter(i) \/ \E s \in Decided : Decide(i, s)

Spec == Init /\ [][Next]_status

Revise(i, s) ==
    /\ status[i] \in Decided
    /\ status' = [status EXCEPT ![i] = s]

RevisableNext == \/ Next
                 \/ \E i \in Items, s \in Decided : Revise(i, s)

RevisableSpec == Init /\ [][RevisableNext]_status

=============================================================================
