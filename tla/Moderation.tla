------------------------------ MODULE Moderation ------------------------------
(***************************************************************************)
(* The review and layoff-event moderation queue of app/routers/admin.py.   *)
(* An approve or reject request loads the item, checks that it is PENDING, *)
(* and commits the new status together with an audit entry.  The load and  *)
(* the commit are separate statements; nothing locks or re-checks the row  *)
(* in between, and the UPDATE is by primary key only.                      *)
(***************************************************************************)
EXTENDS Naturals, Sequences, FiniteSets

CONSTANTS
    ReviewIds,   \* ids of the reviews table
    LayoffIds,   \* ids of the layoff_events table
    Moderators   \* admin requests that can be in flight at once

ASSUME IdsAssumption == ReviewIds \cap LayoffIds = {}
ASSUME ModeratorsAssumption == IsFiniteSet(Moderators)

VARIABLES
    status,  \* per item: ReviewStatus, or ABSENT while there is no row
    audit,   \* moderation_audit_log, in commit order
    desk     \* what each in-flight admin request has loaded

mvars == <<status, audit, desk>>

Items     == ReviewIds \cup LayoffIds
Statuses  == {"ABSENT", "PENDING", "PUBLISHED", "REJECTED"}
ItemTypes == {"REVIEW", "LAYOFF_EVENT", "DOCUMENT"}
Verdicts  == {"APPROVE", "REJECT"}
Entry     == [type : ItemTypes, item : Items, verdict : Verdicts]
Free      == [type |-> "NONE"]

\* _load_item: model = Review if item_type is REVIEW, else LayoffEvent
TableOf(t) == IF t = "REVIEW" THEN ReviewIds ELSE LayoffIds

\* Broken variant, for mutation: the action is stored as the status.
OutcomeRaw(v) == v

Outcome(v) == IF v = "APPROVE" THEN "PUBLISHED" ELSE "REJECTED"

-----------------------------------------------------------------------------
Init ==
    /\ status = [i \in Items |-> "ABSENT"]
    /\ audit = <<>>
    /\ desk = [m \in Moderators |-> Free]

\* the commit of POST /reviews or POST /layoff-events
Submit(i) ==
    /\ status[i] = "ABSENT"
    /\ status' = [status EXCEPT ![i] = "PENDING"]
    /\ UNCHANGED <<audit, desk>>

\* Broken variant, for mutation: the 409 check is dropped.
LoadUnchecked(m) ==
    /\ desk[m] = Free
    /\ \E t \in ItemTypes, v \in Verdicts : \E i \in TableOf(t) :
        /\ status[i] # "ABSENT"
        /\ desk' = [desk EXCEPT ![m] = [type |-> t, item |-> i, verdict |-> v]]
    /\ UNCHANGED <<status, audit>>

\* approve or reject begins: _load_item, with its 404 and its 409
Load(m) ==
    /\ desk[m] = Free
    /\ \E t \in ItemTypes, v \in Verdicts : \E i \in TableOf(t) :
        /\ status[i] = "PENDING"
        /\ desk' = [desk EXCEPT ![m] = [type |-> t, item |-> i, verdict |-> v]]
    /\ UNCHANGED <<status, audit>>

\* Broken variant, for mutation: the status is committed, the entry is not.
CommitUnlogged(m) ==
    /\ desk[m] # Free
    /\ status' = [status EXCEPT ![desk[m].item] = Outcome(desk[m].verdict)]
    /\ desk' = [desk EXCEPT ![m] = Free]
    /\ UNCHANGED audit

\* db.commit: the new status and the audit entry in one transaction
Commit(m) ==
    /\ desk[m] # Free
    /\ status' = [status EXCEPT ![desk[m].item] = Outcome(desk[m].verdict)]
    /\ audit' = Append(audit, desk[m])
    /\ desk' = [desk EXCEPT ![m] = Free]

\* the request dies between the load and the commit: the session rolls back
Abort(m) ==
    /\ desk[m] # Free
    /\ desk' = [desk EXCEPT ![m] = Free]
    /\ UNCHANGED <<status, audit>>

Next ==
    \/ \E i \in Items : Submit(i)
    \/ \E m \in Moderators : Load(m) \/ Commit(m) \/ Abort(m)

Spec == Init /\ [][Next]_mvars

-----------------------------------------------------------------------------
\* Statuses, audit entries and in-flight requests are well formed.
TypeOK ==
    /\ status \in [Items -> Statuses]
    /\ audit \in Seq(Entry)
    /\ desk \in [Moderators -> Entry \cup {Free}]

EntriesOf(i) == {n \in DOMAIN audit : audit[n].item = i}
Holding(i)   == {m \in Moderators : desk[m] # Free /\ desk[m].item = i}

\* The audit log explains every status: an undecided item has no entry, and a
\* decided one has the status its last entry in commit order gives it, even
\* when several moderators raced.
StatusExplainedByAudit ==
    \A i \in Items :
        \/ /\ status[i] \in {"ABSENT", "PENDING"}
           /\ EntriesOf(i) = {}
        \/ \E n \in EntriesOf(i) :
            /\ \A k \in EntriesOf(i) : k <= n
            /\ status[i] = Outcome(audit[n].verdict)

\* An item is decided at most once per moderator request that can hold it at
\* the same time: once one of them has committed nobody can load it again.
DecisionCeiling ==
    \A i \in Items : Cardinality(EntriesOf(i)) <= Cardinality(Moderators)

\* Why: the requests that still hold an item and the entries it already has
\* come from those that loaded it while it was PENDING.
HeldOrDecided ==
    \A i \in Items :
        /\ status[i] = "ABSENT" => Holding(i) = {}
        /\ Cardinality(EntriesOf(i)) + Cardinality(Holding(i))
                <= Cardinality(Moderators)

Lifecycle == INSTANCE PublicationLifecycle

\* The documented lifecycle of a submission.
LifecycleSpec == Lifecycle!Spec

\* The lifecycle the queue keeps whatever races: a submission enters as PENDING
\* and is decided once per moderator that found it so, and never comes back.
RevisableLifecycle == Lifecycle!RevisableSpec

=============================================================================
