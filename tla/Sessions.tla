------------------------------ MODULE Sessions ------------------------------
(***************************************************************************)
(* Signed tokens and the accounts behind them: the three logins            *)
(* (app/routers/auth.py, employer.py, admin.py), the tokens they issue     *)
(* (app/core/jwt.py) and the dependencies that turn a token back into an   *)
(* account (get_current_user, get_current_employer_account,                *)
(* get_current_admin in app/core/deps.py).                                 *)
(*                                                                         *)
(* No token is ever stored or revoked: the tokens of the model are those   *)
(* clients hold.  iat and exp are whole seconds, lives are whole minutes   *)
(* and the library compares whole seconds, so a clock of whole seconds     *)
(* loses nothing.                                                          *)
(*                                                                         *)
(* A login reads or creates the account's row and signs with a clock       *)
(* reading of its own, later.  A request decodes its token, then awaits    *)
(* the account's row, then works with that row until it is done.  Employer *)
(* and admin rows are written by hand, at any time.  Tiers are             *)
(* TierLadder's subject and left out here.                                 *)
(***************************************************************************)
EXTENDS Naturals, FiniteSets

CONSTANTS
    Users,       \* rows of users, created by the first login of a phone
    Employers,   \* rows of employer_accounts, one per company
    Admins,      \* rows of admin_users
    Domains,     \* hashed e-mail domains
    Requests,    \* handlers that can be in flight at once
    AccessLife,  \* jwt_access_token_expire_minutes, in ticks
    RefreshLife, \* jwt_refresh_token_expire_minutes, in ticks
    Horizon,     \* bound on the clock
    MaxTokens    \* bound on the tokens issued

ASSUME LivesAssumption == AccessLife \in Nat /\ RefreshLife \in Nat
ASSUME BoundsAssumption == Horizon \in Nat /\ MaxTokens \in Nat
ASSUME RequestsFinite == IsFiniteSet(Requests)

\* ids are UUIDs: no two tables share one
ASSUME AccountsApart ==
    /\ Users \cap Employers = {}
    /\ Users \cap Admins = {}
    /\ Employers \cap Admins = {}

VARIABLES
    now,
    standing, \* of a row: absent, on, or off (verified, is_active)
    domain,   \* employer_accounts.domain_hash
    tokens,   \* every token issued so far
    req,      \* what each in-flight handler holds
    clash,    \* history: when two verified accounts last began to share the domain
    late      \* history: requests completed for an account since it went off

vars == <<now, standing, domain, tokens, req, clash, late>>

Accounts   == Users \cup Employers \cup Admins
TokenTypes == {"access", "refresh", "employer", "admin"}
Doors      == {"user", "employer", "admin"}
Idle       == [stage |-> "idle"]

Token   == [type : TokenTypes, sub : Accounts, iat : Nat, exp : Nat]
Decoded == [stage : {"decoded", "admitted"}, door : Doors, sub : Accounts, at : Nat]
Login   == [stage : {"login"}, door : Doors, sub : Accounts]

\* what a door's dependency expects, what its login issues, and the table both
\* look the subject up in
TypeFor(door) == IF door = "user" THEN "access" ELSE door
TypesSigned(door) == IF door = "user" THEN {"access", "refresh"} ELSE {door}
TableOf(door) == CASE door = "user"     -> Users
                   [] door = "employer" -> Employers
                   [] door = "admin"    -> Admins

Life(type) == IF type = "refresh" THEN RefreshLife ELSE AccessLife

\* _create_token, create_employer_token, create_admin_token
Signed(type, a) == [type |-> type, sub |-> a, iat |-> now, exp |-> now + Life(type)]

AcceptsAnyType(t, door) == now <= t.exp

\* decode_token, decode_employer_token, decode_admin_token: signature, expiry,
\* then the type claim, which also implies the other claims a door needs.  The
\* second in which a token expires is still good.
Accepts(t, door) == now <= t.exp /\ t.type = TypeFor(door)

Holders(d)  == {e \in Employers : domain[e] = d}
Verified(d) == {e \in Holders(d) : standing[e] = "on"}

AnyMatch(d) == Verified(d)

\* employer_login: scalar_one_or_none answers 404 for none and raises for two
LoginMatch(d) == {e \in Verified(d) : \A f \in Verified(d) : f = e}

StandsByClaim(a) == standing[a] # "absent"

\* the row is there, and is verified or active now, whatever the token claims
InGoodStanding(a) == standing[a] = "on"

\* more than one verified account of a domain
Clashing(s, d) ==
    \E e, f \in Employers : /\ e # f
                            /\ s[e] = "on" /\ domain[e] = d
                            /\ s[f] = "on" /\ domain[f] = d

-----------------------------------------------------------------------------
Init ==
    /\ now = 0
    /\ standing = [a \in Accounts |-> "absent"]
    /\ domain \in [Employers -> Domains]
    /\ tokens = {}
    /\ req = [r \in Requests |-> Idle]
    /\ clash = [d \in Domains |-> 0]
    /\ late = [a \in Accounts |-> 0]

Issue(new) ==
    /\ Cardinality(tokens \cup new) <= MaxTokens
    /\ tokens' = tokens \cup new

BeginLogin(r, door, a) ==
    /\ req[r] = Idle
    /\ req' = [req EXCEPT ![r] = [stage |-> "login", door |-> door, sub |-> a]]

UserLoginUncommitted(r, u) ==
    /\ BeginLogin(r, "user", u)
    /\ UNCHANGED <<now, standing, domain, tokens, clash, late>>

\* verify_otp and verify_email commit the user's row, which the first verify_otp
\* creates, refresh it and go on to sign
UserLogin(r, u) ==
    /\ BeginLogin(r, "user", u)
    /\ standing' = [standing EXCEPT ![u] = "on"]
    /\ UNCHANGED <<now, domain, tokens, clash, late>>

\* employer_login selects the account for the domain of the e-mail presented
EmployerLogin(r, d) ==
    /\ \E e \in LoginMatch(d) : BeginLogin(r, "employer", e)
    /\ UNCHANGED <<now, standing, domain, tokens, clash, late>>

\* admin_login selects the account, and the password is the right one
AdminLogin(r, a) ==
    /\ standing[a] = "on" /\ BeginLogin(r, "admin", a)
    /\ UNCHANGED <<now, standing, domain, tokens, clash, late>>

\* a handler is done with an account it read earlier
Finish(r) ==
    /\ req' = [req EXCEPT ![r] = Idle]
    /\ late' = [late EXCEPT ![req[r].sub] =
            IF standing[req[r].sub] = "off" THEN @ + 1 ELSE @]

\* a login signs for the row it read, without another look, and answers
Sign(r) ==
    /\ req[r].stage = "login"
    /\ Issue({Signed(type, req[r].sub) : type \in TypesSigned(req[r].door)})
    /\ Finish(r)
    /\ UNCHANGED <<now, standing, domain, clash>>

\* by hand: a row is seeded, or its verified or is_active column is changed
Switch(a) ==
    /\ \E s \in {"on", "off"} \ {standing[a]} :
        standing' = [standing EXCEPT ![a] = s]
    /\ clash' = [d \in Domains |->
            IF Clashing(standing', d) /\ ~Clashing(standing, d) THEN now ELSE clash[d]]
    /\ late' = [late EXCEPT ![a] = 0]
    /\ UNCHANGED <<now, domain, tokens, req>>

\* the token of a request is decoded; a 401 leaves nothing behind
Present(r) ==
    /\ req[r] = Idle
    /\ \E door \in Doors, t \in tokens :
        /\ Accepts(t, door)
        /\ req' = [req EXCEPT ![r] =
                [stage |-> "decoded", door |-> door, sub |-> t.sub, at |-> now]]
    /\ UNCHANGED <<now, standing, domain, tokens, clash, late>>

\* the row is loaded: 401 if the door's table has none, 403 if it is off
Load(r) ==
    /\ req[r].stage = "decoded"
    /\ LET q == req[r] IN
       req' = [req EXCEPT ![r] =
            IF q.sub \in TableOf(q.door) /\ InGoodStanding(q.sub)
            THEN [stage |-> "admitted", door |-> q.door, sub |-> q.sub, at |-> q.at]
            ELSE Idle]
    /\ UNCHANGED <<now, standing, domain, tokens, clash, late>>

\* the handler finishes its work with the row it loaded, without another look
Serve(r) ==
    /\ req[r].stage = "admitted"
    /\ Finish(r)
    /\ UNCHANGED <<now, standing, domain, tokens, clash>>

\* any later error, or the process dying
Abort(r) ==
    /\ req[r] # Idle
    /\ req' = [req EXCEPT ![r] = Idle]
    /\ UNCHANGED <<now, standing, domain, tokens, clash, late>>

Tick ==
    /\ now < Horizon
    /\ now' = now + 1
    /\ UNCHANGED <<standing, domain, tokens, req, clash, late>>

Next ==
    \/ Tick
    \/ \E a \in Employers \cup Admins : Switch(a)
    \/ \E r \in Requests :
        \/ \E u \in Users : UserLogin(r, u)
        \/ \E d \in Domains : EmployerLogin(r, d)
        \/ \E a \in Admins : AdminLogin(r, a)
        \/ Sign(r) \/ Present(r) \/ Load(r) \/ Serve(r) \/ Abort(r)

Spec == Init /\ [][Next]_vars

-----------------------------------------------------------------------------
\* a request that presented a token
Presented(r) == req[r].stage \in {"decoded", "admitted"}

\* the handlers past their check of an account
Working(a) == {r \in Requests : req[r].stage \in {"login", "admitted"} /\ req[r].sub = a}

\* the logins past their check of a domain, and the employer tokens signed since
\* its verified accounts clash
LoggingIn(d) == {r \in Requests : /\ req[r].stage = "login" /\ req[r].door = "employer"
                                  /\ req[r].sub \in Holders(d)}
Strays(d) == {t \in tokens : /\ t.type = "employer" /\ t.sub \in Holders(d)
                             /\ t.iat > clash[d]}

\* Rows, tokens and handlers are well formed; the holder of a token has a row.
TypeOK ==
    /\ now \in Nat
    /\ standing \in [Accounts -> {"absent", "on", "off"}]
    /\ domain \in [Employers -> Domains]
    /\ tokens \in SUBSET Token
    /\ \A t \in tokens : standing[t.sub] # "absent"
    /\ req \in [Requests -> Decoded \cup Login \cup {Idle}]
    /\ clash \in [Domains -> Nat]
    /\ late \in [Accounts -> Nat]

\* jwt.py:6, a refresh token cannot be replayed as an access token: whatever a
\* client holds, a request is taken up only within an access life of a login of
\* its own account, and its account is of the door's kind once it is admitted.
AccessWindow ==
    \A r \in Requests :
        Presented(r) =>
            /\ req[r].stage = "admitted" => req[r].sub \in TableOf(req[r].door)
            /\ \E t \in tokens : /\ t.sub = req[r].sub
                                 /\ t.iat <= req[r].at
                                 /\ req[r].at <= t.iat + AccessLife

\* deps.py, "currently verified": tokens outlive the account's standing, yet
\* once it is withdrawn only the requests and logins already past the check are
\* completed, at most one per handler.
RevocationCeiling ==
    \A a \in Accounts :
        standing[a] = "off" =>
            late[a] + Cardinality(Working(a)) <= Cardinality(Requests)

\* employer.py: while two verified accounts share a domain only the logins that
\* had selected one of them before still get a token, at most one per handler;
\* one token life after the clash nobody comes in at the employers' door of that
\* domain except with one of these.
ClashLocksOut ==
    \A d \in Domains :
        Clashing(standing, d) =>
            /\ Cardinality(Strays(d)) + Cardinality(LoggingIn(d)) <= Cardinality(Requests)
            /\ \A r \in Requests :
                /\ Presented(r) /\ req[r].door = "employer" /\ req[r].sub \in Holders(d)
                /\ req[r].at > clash[d] + AccessLife
                => \E t \in Strays(d) : /\ t.sub = req[r].sub
                                        /\ t.iat <= req[r].at
                                        /\ req[r].at <= t.iat + AccessLife
=============================================================================
