----------------------------- MODULE OneTimeCode -----------------------------
(***************************************************************************)
(* The life of a one-time code: POST /auth/otp/request, /auth/otp/verify   *)
(* and their e-mail twins (app/routers/auth.py, app/models/otp.py).  A     *)
(* verification selects the newest unconsumed row of its key, checks the   *)
(* expiry and the attempt counter it read, and commits either one more     *)
(* attempt or the consumption.  The counter is written as the value read   *)
(* plus one: two verifications in flight may read the same value.          *)
(*                                                                         *)
(* A guess is the code of some row or a wrong one; codes of two rows that  *)
(* coincide by chance are left out, and so is the request limiter          *)
(* (module RateLimit).                                                     *)
(***************************************************************************)
EXTENDS Naturals, FiniteSets

CONSTANTS
    Keys,         \* phone hashes, or pairs of a user and an e-mail hash
    RowIds,       \* ids of otp_codes / email_verification_codes
    Requests,     \* handlers that can be in flight at once
    MaxAttempts,  \* settings.otp_max_attempts
    Lifetime,     \* settings.otp_expire_minutes
    Horizon       \* bound: the clock stops here

ASSUME RequestsAssumption == IsFiniteSet(Requests)
ASSUME AttemptsAssumption == MaxAttempts \in Nat
ASSUME TimeAssumption     == Lifetime \in Nat /\ Horizon \in Nat

VARIABLES
    now,     \* the clock
    rows,    \* the table of codes
    req,     \* what each in-flight handler holds
    missed,  \* history: wrong guesses answered, per row
    passed   \* history: tokens issued against a row

vars == <<now, rows, req, missed, passed>>

Idle    == [pc |-> "idle"]
NoRow   == [exists |-> FALSE]
Wrong   == "wrong"
CodeRow == [exists : {TRUE}, key : Keys, created : 0..Horizon,
            attempts : 0..MaxAttempts, consumed : BOOLEAN]

Issuing == [pc : {"issuing"}, key : Keys, created : 0..Horizon]
Judged  == [pc : {"miss", "hit"}, row : RowIds, attempts : 0..MaxAttempts]

Respond(r) == req' = [req EXCEPT ![r] = Idle]

Unconsumed(k) == {i \in RowIds : rows[i].exists /\ rows[i].key = k
                                    /\ ~rows[i].consumed}

\* order_by(created_at.desc()).limit(1): any of the rows stamped last
NewestOf(k) ==
    {i \in Unconsumed(k) : \A j \in Unconsumed(k) : rows[j].created <= rows[i].created}

Expired(i) == rows[i].created + Lifetime < now

\* Broken variant, for mutation: the cap compared with > instead of >=
ExhaustedLate(i) == rows[i].attempts > MaxAttempts

\* too many attempts, by the counter just read
Exhausted(i) == rows[i].attempts >= MaxAttempts

\* Broken variant, for mutation: the counter is written back as it was read
MissWithoutCount(l) == [rows EXCEPT ![l.row].attempts = l.attempts]

\* otp_row.attempts += 1, from the value in the session
Miss(l) == [rows EXCEPT ![l.row].attempts = l.attempts + 1]

\* Broken variant, for mutation: consumed_at is never set
HitWithoutConsuming(l) == rows

\* otp_row.consumed_at = _now()
Hit(l) == [rows EXCEPT ![l.row].consumed = TRUE]

-----------------------------------------------------------------------------
Init ==
    /\ now = 0
    /\ rows = [i \in RowIds |-> NoRow]
    /\ req = [r \in Requests |-> Idle]
    /\ missed = [i \in RowIds |-> 0]
    /\ passed = [i \in RowIds |-> 0]

\* request_otp builds the row: created_at and expires_at are stamped
Stamp(r) ==
    /\ req[r] = Idle
    /\ \E k \in Keys :
        req' = [req EXCEPT ![r] = [pc |-> "issuing", key |-> k, created |-> now]]
    /\ UNCHANGED <<now, rows, missed, passed>>

\* request_otp commits; the delivery that follows changes no table
Issue(r) ==
    /\ req[r].pc = "issuing"
    /\ \E i \in RowIds :
        /\ rows[i] = NoRow
        /\ rows' = [rows EXCEPT ![i] =
                [exists |-> TRUE, key |-> req[r].key, created |-> req[r].created,
                 attempts |-> 0, consumed |-> FALSE]]
    /\ Respond(r)
    /\ UNCHANGED <<now, missed, passed>>

\* verify_otp reads the row and compares the guess; a missing, expired or
\* exhausted row is refused without a change
Judge(r) ==
    /\ req[r] = Idle
    /\ \E k \in Keys, guess \in RowIds \cup {Wrong} : \E i \in NewestOf(k) :
        /\ ~Expired(i) /\ ~Exhausted(i)
        /\ req' = [req EXCEPT ![r] =
                [pc |-> IF guess = i THEN "hit" ELSE "miss", row |-> i,
                 attempts |-> rows[i].attempts]]
    /\ UNCHANGED <<now, rows, missed, passed>>

\* the incorrect-code branch commits and answers 400
CommitMiss(r) ==
    /\ req[r].pc = "miss"
    /\ rows' = Miss(req[r])
    /\ missed' = [missed EXCEPT ![req[r].row] = @ + 1]
    /\ Respond(r)
    /\ UNCHANGED <<now, passed>>

\* the success branch commits and answers with tokens
CommitHit(r) ==
    /\ req[r].pc = "hit"
    /\ rows' = Hit(req[r])
    /\ passed' = [passed EXCEPT ![req[r].row] = @ + 1]
    /\ Respond(r)
    /\ UNCHANGED <<now, missed>>

\* the request dies, or its commit fails (two first logins race on the unique
\* phone_hash): nothing it wrote survives
Abort(r) ==
    /\ req[r] # Idle
    /\ Respond(r)
    /\ UNCHANGED <<now, rows, missed, passed>>

Tick ==
    /\ now < Horizon
    /\ now' = now + 1
    /\ UNCHANGED <<rows, req, missed, passed>>

Next ==
    \/ \E r \in Requests : \/ Stamp(r) \/ Issue(r) \/ Judge(r)
                           \/ CommitMiss(r) \/ CommitHit(r) \/ Abort(r)
    \/ Tick

Spec == Init /\ [][Next]_vars

-----------------------------------------------------------------------------
\* Rows, handlers and history are well formed; the counter never passes the
\* maximum, although it is written from a value that may be stale.
TypeOK ==
    /\ now \in 0..Horizon
    /\ rows \in [RowIds -> CodeRow \cup {NoRow}]
    /\ req \in [Requests -> Issuing \cup Judged \cup {Idle}]
    /\ missed \in [RowIds -> Nat]
    /\ passed \in [RowIds -> Nat]

Holding(i, pc) == {r \in Requests : req[r].pc = pc /\ req[r].row = i}

\* A code opens no more sessions than there are handlers that can hold it at
\* once: after the first commit nobody selects it again.
PassCeiling ==
    \A i \in RowIds :
        /\ passed[i] + Cardinality(Holding(i, "hit")) <= Cardinality(Requests)
        /\ passed[i] > 0 => rows[i].exists /\ rows[i].consumed

Locked(i) ==
    /\ rows[i].exists /\ rows[i].attempts = MaxAttempts
    /\ Holding(i, "miss") = {} /\ Holding(i, "hit") = {}

\* A code whose counter has reached the maximum, with no verification of it in
\* flight, stays shut: no later request reopens it, uses it up or holds it.
LockedOutForGood ==
    [][\A i \in RowIds : Locked(i) => Locked(i)' /\ rows'[i] = rows[i]]_vars

\* The wrong guesses that h handlers can still place between them on a code
\* that was judged with a tries left: one of them keeps the counter it read
\* while the others place theirs, and then writes that counter back plus one.
GuessTable[p \in (0..Cardinality(Requests)) \X (0..MaxAttempts)] ==
    LET h == p[1]
        a == p[2]
    IN  IF h = 0 \/ a = 0 THEN 0
        ELSE GuessTable[<<h - 1, a>>] + 1 + GuessTable[<<h, a - 1>>]

Guesses(h, a) == GuessTable[<<h, a>>]

\* The wrong guesses answered on one code have a bound, in spite of the lost
\* updates of `otp_row.attempts += 1`: it is the one that the handlers in
\* flight can reach by taking turns at overwriting each other's count.
GuessCeiling ==
    \A i \in RowIds : missed[i] <= Guesses(Cardinality(Requests), MaxAttempts)

\* No code is judged wrong more often than README and models/otp.py allow.
AttemptCap == \A i \in RowIds : missed[i] <= MaxAttempts

\* One code opens one session.
SingleUse == \A i \in RowIds : passed[i] <= 1

=============================================================================
