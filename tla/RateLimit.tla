------------------------------ MODULE RateLimit ------------------------------
(***************************************************************************)
(* The sliding-window limiter of app/core/rate_limit.py together with the  *)
(* way its four callers use it: /auth/otp/request, /auth/email/request,    *)
(* POST /reviews and POST /grievances.  A caller counts the recent rows of *)
(* its key in the table the flow writes to, refuses when there are         *)
(* MaxRequests or more, and otherwise inserts one row and commits.  The    *)
(* count and the commit are separate statements of one database            *)
(* transaction at READ COMMITTED: nothing locks the rows in between, so    *)
(* any number of requests may be between the two.                          *)
(***************************************************************************)
EXTENDS Naturals, FiniteSets

CONSTANTS
    Requests,     \* the request handlers that can be in flight at once
    Keys,         \* values of key_column: phone hashes, user ids
    RowIds,       \* primary keys of the limited table
    MaxRequests,  \* settings.*_rate_limit_max_requests
    Window,       \* settings.*_rate_limit_window_minutes
    Horizon       \* bound: the clock stops here

ASSUME RequestsAssumption == IsFiniteSet(Requests) /\ Requests # {}
ASSUME MaxAssumption      == MaxRequests \in Nat \ {0}
ASSUME TimeAssumption     == Window \in Nat /\ Horizon \in Nat

VARIABLES
    now,   \* the clock, datetime.now(UTC)
    rows,  \* committed rows of the limited table
    req    \* what each in-flight handler holds in its local variables

vars == <<now, rows, req>>

Row     == [id : RowIds, key : Keys, created : 0..Horizon]
Idle    == [pc |-> "idle"]
Pending == [pc : {"counting", "admitted"}, key : Keys, at : 0..Horizon]

\* key_column == key_value AND created_at >= window_start, the window
\* trailing from the time t
RowsSince(k, t) == {row \in rows : row.key = k /\ row.created + Window >= t}

\* Broken variant, for mutation: the comparison is off by one.
RefusesLate(k, t) == Cardinality(RowsSince(k, t)) > MaxRequests

Refuses(k, t) == Cardinality(RowsSince(k, t)) >= MaxRequests

-----------------------------------------------------------------------------
Init ==
    /\ now = 0
    /\ rows = {}
    /\ req = [r \in Requests |-> Idle]

\* enforce_rate_limit is entered: window_start is computed before the count
Arrive(r) ==
    /\ req[r].pc = "idle"
    /\ \E k \in Keys :
        req' = [req EXCEPT ![r] = [pc |-> "counting", key |-> k, at |-> now]]
    /\ UNCHANGED <<now, rows>>

\* the SELECT count(*) runs; RateLimitExceeded ends the request with a 429
Count(r) ==
    /\ req[r].pc = "counting"
    /\ IF Refuses(req[r].key, req[r].at)
       THEN req' = [req EXCEPT ![r] = Idle]
       ELSE req' = [req EXCEPT ![r] =
                        [pc |-> "admitted", key |-> @.key, at |-> now]]
    /\ UNCHANGED <<now, rows>>

\* the caller's db.add and db.commit: created_at was stamped at some moment
\* between the count and this commit
Insert(r) ==
    /\ req[r].pc = "admitted"
    /\ \E i \in RowIds, c \in req[r].at .. now :
        /\ \A row \in rows : row.id # i
        /\ rows' = rows \cup {[id |-> i, key |-> req[r].key, created |-> c]}
    /\ req' = [req EXCEPT ![r] = Idle]
    /\ UNCHANGED now

\* the request dies, or a check or constraint after the limiter refuses it
Abort(r) ==
    /\ req[r].pc # "idle"
    /\ req' = [req EXCEPT ![r] = Idle]
    /\ UNCHANGED <<now, rows>>

Tick ==
    /\ now < Horizon
    /\ now' = now + 1
    /\ UNCHANGED <<rows, req>>

Next ==
    \/ \E r \in Requests : Arrive(r) \/ Count(r) \/ Insert(r) \/ Abort(r)
    \/ Tick

Spec == Init /\ [][Next]_vars

-----------------------------------------------------------------------------
\* Every row and every handler has the shape the tables and the locals have.
TypeOK ==
    /\ now \in 0..Horizon
    /\ rows \in SUBSET Row
    /\ req \in [Requests -> Pending \cup {Idle}]
    /\ \A r \in Requests : req[r].pc # "idle" => req[r].at <= now

AdmittedFor(k) == {r \in Requests : req[r].pc = "admitted" /\ req[r].key = k}

\* What the limiter guarantees whatever the interleaving: the rows of a key
\* in the trailing window exceed MaxRequests by at most the number of other
\* handlers that can be past the count before this one commits.
BurstCeiling ==
    \A k \in Keys :
        Cardinality(RowsSince(k, now)) < MaxRequests + Cardinality(Requests)

\* Why it holds: a handler past the count has already been charged for.
ChargedCeiling ==
    \A k \in Keys :
        Cardinality(RowsSince(k, now)) + Cardinality(AdmittedFor(k))
            < MaxRequests + Cardinality(Requests)

\* config.py and the docstring of enforce_rate_limit: at most MaxRequests rows
\* of one key within the window.
AtMostMax ==
    \A k \in Keys : Cardinality(RowsSince(k, now)) <= MaxRequests

=============================================================================
