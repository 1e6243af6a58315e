--------------------------- MODULE SessionsProofs ---------------------------
(***************************************************************************)
(* Theorems about Sessions, for any number of accounts, handlers and       *)
(* domains and any two token lives.                                        *)
(*                                                                         *)
(* A request in flight does not keep its token, so what it relies on must  *)
(* be told from the tokens issued: Backed says that one of the right type  *)
(* is dated right.  The two ceilings need no such help: a handler past the *)
(* check is charged already, whether it goes on to work or to sign.        *)
(***************************************************************************)
EXTENDS Sessions, FiniteSetTheorems, TLAPS

\* A token is not from the future and lives as long as its type does.
Dated ==
    /\ \A t \in tokens : t.iat <= now /\ t.exp = t.iat + Life(t.type)
    /\ \A d \in Domains : clash[d] <= now
    /\ IsFiniteSet(tokens)

Vouches(t, q) == /\ t.type = TypeFor(q.door) /\ t.sub = q.sub
                 /\ t.iat <= q.at /\ q.at <= t.exp

\* A token of the door's own type stands behind every request in flight.
Backed ==
    \A r \in Requests :
        Presented(r) => /\ \E t \in tokens : Vouches(t, req[r])
                        /\ req[r].stage = "admitted" => req[r].sub \in TableOf(req[r].door)

\* A login signs for an account that has a row.
LoginsReady ==
    \A r \in Requests : req[r].stage = "login" => standing[req[r].sub] # "absent"

IInv == TypeOK /\ Dated /\ Backed /\ LoginsReady

LEMMA LifeIsNatural == \A type : Life(type) \in Nat
  BY LivesAssumption DEF Life

LEMMA NatSum == \A x, y \in Nat : x + y \in Nat
  OBVIOUS

\* What is signed is a token of the current second.
LEMMA SignedIsToken ==
  ASSUME now \in Nat, NEW type \in TokenTypes, NEW a \in Accounts
  PROVE  /\ Signed(type, a) \in Token
         /\ Signed(type, a).type = type /\ Signed(type, a).sub = a
         /\ Signed(type, a).iat = now
         /\ Signed(type, a).exp = now + Life(type)
  <1>1. now + Life(type) \in Nat
    BY LifeIsNatural, NatSum
  <1> QED
    BY <1>1 DEF Signed, Token

-----------------------------------------------------------------------------
\* The facts hold initially.
LEMMA InitEstablishes == Init => IInv
  <1> SUFFICES ASSUME Init PROVE IInv
    OBVIOUS
  <1>1. TypeOK
    BY DEF Init, TypeOK
  <1>2. \A r \in Requests : req[r].stage = "idle"
    BY DEF Init, Idle
  <1>3. IsFiniteSet(tokens)
    BY FS_EmptySet DEF Init
  <1> QED
    BY <1>1, <1>2, <1>3 DEF Init, IInv, Dated, Backed, LoginsReady, Presented

\* A step of one handler keeps the facts if the tokens it issues are of this
\* second, no row goes away, and the handler is idle afterwards, or stands on a
\* token, or on a row it is going to sign for.
LEMMA HandlerPreserves ==
  ASSUME IInv, NEW r \in Requests,
         UNCHANGED <<now, domain, clash>>,
         late' \in [Accounts -> Nat],
         standing' \in [Accounts -> {"absent", "on", "off"}],
         \A a \in Accounts : standing[a] # "absent" => standing'[a] # "absent",
         NEW new \in SUBSET Token, IsFiniteSet(new), tokens' = tokens \cup new,
         \A t \in new : /\ standing'[t.sub] # "absent"
                        /\ t.iat = now /\ t.exp = now + Life(t.type),
         NEW q \in Decoded \cup Login \cup {Idle}, req' = [req EXCEPT ![r] = q],
         q \in Decoded => /\ \E t \in tokens : Vouches(t, q)
                          /\ q.stage = "admitted" => q.sub \in TableOf(q.door),
         q \in Login => standing'[q.sub] # "absent"
  PROVE  IInv'
  <1>1. TypeOK'
    <2>1. \A t \in tokens' : standing'[t.sub] # "absent"
      <3> SUFFICES ASSUME NEW t \in tokens' PROVE standing'[t.sub] # "absent"
        OBVIOUS
      <3>1. CASE t \in new
        BY <3>1
      <3>2. CASE t \in tokens
        <4>1. t.sub \in Accounts
          BY <3>2 DEF IInv, TypeOK, Token
        <4> QED
          BY <3>2, <4>1 DEF IInv, TypeOK
      <3> QED
        BY <3>1, <3>2
    <2>2. tokens' \in SUBSET Token /\ req' \in [Requests -> Decoded \cup Login \cup {Idle}]
      BY DEF IInv, TypeOK
    <2> QED
      BY <2>1, <2>2 DEF IInv, TypeOK
  <1>2. Dated'
    <2>1. \A t \in tokens' : t.iat <= now /\ t.exp = t.iat + Life(t.type)
      BY DEF IInv, Dated, TypeOK
    <2>2. IsFiniteSet(tokens')
      BY FS_Union DEF IInv, Dated
    <2> QED
      BY <2>1, <2>2 DEF IInv, Dated
  <1>3. \A s \in Requests : req'[s] = IF s = r THEN q ELSE req[s]
    BY DEF IInv, TypeOK
  <1>4. Backed'
    <2> SUFFICES ASSUME NEW s \in Requests, Presented(s)'
                 PROVE  /\ \E t \in tokens' : Vouches(t, req'[s])
                        /\ req'[s].stage = "admitted" => req'[s].sub \in TableOf(req'[s].door)
      BY DEF Backed, Vouches
    <2>1. CASE s = r
      <3>1. q \in Decoded
        BY <1>3, <2>1 DEF Presented, Login, Idle
      <3> QED
        BY <1>3, <2>1, <3>1
    <2>2. CASE s # r
      BY <1>3, <2>2 DEF IInv, Backed, Presented
    <2> QED
      BY <2>1, <2>2
  <1>5. LoginsReady'
    <2> SUFFICES ASSUME NEW s \in Requests, req'[s].stage = "login"
                 PROVE  standing'[req'[s].sub] # "absent"
      BY DEF LoginsReady
    <2>1. CASE s = r
      BY <1>3, <2>1 DEF Decoded, Idle
    <2>2. CASE s # r
      <3>1. req[s] \in Login
        BY <1>3, <2>2 DEF IInv, TypeOK, Decoded, Idle
      <3>2. req[s].sub \in Accounts
        BY <3>1 DEF Login
      <3> QED
        BY <1>3, <2>2, <3>2 DEF IInv, LoginsReady
    <2> QED
      BY <2>1, <2>2
  <1> QED
    BY <1>1, <1>2, <1>4, <1>5 DEF IInv

\* The same for a step that issues nothing.
LEMMA QuietPreserves ==
  ASSUME IInv, NEW r \in Requests,
         UNCHANGED <<now, domain, tokens, clash>>,
         late' \in [Accounts -> Nat],
         standing' \in [Accounts -> {"absent", "on", "off"}],
         \A a \in Accounts : standing[a] # "absent" => standing'[a] # "absent",
         NEW q \in Decoded \cup Login \cup {Idle}, req' = [req EXCEPT ![r] = q],
         q \in Decoded => /\ \E t \in tokens : Vouches(t, q)
                          /\ q.stage = "admitted" => q.sub \in TableOf(q.door),
         q \in Login => standing'[q.sub] # "absent"
  PROVE  IInv'
  <1> DEFINE new == {}
  <1>1. new \in SUBSET Token /\ IsFiniteSet(new) /\ tokens' = tokens \cup new
    BY FS_EmptySet
  <1>2. \A t \in new : /\ standing'[t.sub] # "absent"
                       /\ t.iat = now /\ t.exp = now + Life(t.type)
    OBVIOUS
  <1> HIDE DEF new
  <1> QED
    BY <1>1, <1>2, HandlerPreserves

LEMMA SwitchPreserves ==
  ASSUME IInv, NEW a \in Employers \cup Admins, Switch(a)
  PROVE  IInv'
  <1>0. a \in Accounts
    BY DEF Accounts
  <1>1. /\ standing' \in [Accounts -> {"absent", "on", "off"}]
        /\ \A b \in Accounts : standing[b] # "absent" => standing'[b] # "absent"
    BY <1>0 DEF Switch, IInv, TypeOK
  <1>2. \A d \in Domains :
            /\ clash'[d] \in Nat /\ clash[d] <= clash'[d] /\ clash'[d] <= now
            /\ Clashing(standing', d) => clash'[d] = now \/ (Clashing(standing, d) /\ clash'[d] = clash[d])
    <2> SUFFICES ASSUME NEW d \in Domains
                 PROVE /\ clash'[d] \in Nat /\ clash[d] <= clash'[d] /\ clash'[d] <= now
                       /\ Clashing(standing', d) =>
                            clash'[d] = now \/ (Clashing(standing, d) /\ clash'[d] = clash[d])
      OBVIOUS
    <2>1. clash'[d] = IF Clashing(standing', d) /\ ~Clashing(standing, d) THEN now ELSE clash[d]
      BY DEF Switch
    <2>2. now \in Nat /\ clash[d] \in Nat /\ clash[d] <= now
      BY DEF IInv, TypeOK, Dated
    <2> QED
      BY <2>1, <2>2
  <1>3. TypeOK'
    <2>1. late' \in [Accounts -> Nat]
      BY <1>0 DEF Switch, IInv, TypeOK
    <2>2. clash' \in [Domains -> Nat]
      BY <1>2 DEF Switch
    <2>3. \A t \in tokens : standing'[t.sub] # "absent"
      BY <1>1 DEF IInv, TypeOK, Token
    <2> QED
      BY <1>1, <2>1, <2>2, <2>3 DEF Switch, IInv, TypeOK
  <1>4. Dated'
    BY <1>2 DEF Switch, IInv, Dated
  <1>5. Backed'
    BY DEF Switch, IInv, Backed, Presented, Vouches
  <1>6. LoginsReady'
    <2> SUFFICES ASSUME NEW r \in Requests, req[r].stage = "login"
                 PROVE  standing'[req[r].sub] # "absent"
      BY DEF LoginsReady, Switch
    <2>1. req[r] \in Login
      BY DEF IInv, TypeOK, Decoded, Idle
    <2> QED
      BY <1>1, <2>1 DEF Login, IInv, LoginsReady
  <1> QED
    BY <1>3, <1>4, <1>5, <1>6 DEF IInv

-----------------------------------------------------------------------------
LEMMA FinishTyped ==
  ASSUME TypeOK, NEW r \in Requests, req[r] # Idle, Finish(r)
  PROVE  /\ req[r].sub \in Accounts
         /\ late' \in [Accounts -> Nat] /\ req' = [req EXCEPT ![r] = Idle]
  <1>1. req[r].sub \in Accounts /\ late \in [Accounts -> Nat]
    BY DEF TypeOK, Decoded, Login
  <1>2. late[req[r].sub] \in Nat /\ late[req[r].sub] + 1 \in Nat
    BY <1>1
  <1> QED
    BY <1>1, <1>2 DEF Finish

LEMMA LoginsPreserve ==
  ASSUME IInv, NEW r \in Requests,
         \/ \E u \in Users : UserLogin(r, u)
         \/ \E d \in Domains : EmployerLogin(r, d)
         \/ \E a \in Admins : AdminLogin(r, a)
  PROVE  IInv'
  <1>0. late \in [Accounts -> Nat] /\ standing \in [Accounts -> {"absent", "on", "off"}]
    BY DEF IInv, TypeOK
  <1>1. ASSUME NEW door \in Doors, NEW a \in Accounts, BeginLogin(r, door, a),
               standing' = standing \/ standing' = [standing EXCEPT ![a] = "on"],
               standing'[a] # "absent", UNCHANGED <<now, domain, tokens, clash, late>>
        PROVE  IInv'
    <2> DEFINE q == [stage |-> "login", door |-> door, sub |-> a]
    <2>1. q \in Login /\ q \notin Decoded /\ req' = [req EXCEPT ![r] = q]
      BY <1>1 DEF Login, Decoded, BeginLogin
    <2>2. q.sub = a
      OBVIOUS
    <2>3. /\ standing' \in [Accounts -> {"absent", "on", "off"}]
          /\ \A b \in Accounts : standing[b] # "absent" => standing'[b] # "absent"
      BY <1>0, <1>1
    <2> HIDE DEF q
    <2> QED
      BY <1>0, <1>1, <2>1, <2>2, <2>3, QuietPreserves
  <1>2. ASSUME NEW u \in Users, UserLogin(r, u) PROVE IInv'
    <2>1. u \in Accounts /\ standing'[u] = "on"
      BY <1>0, <1>2 DEF Accounts, UserLogin
    <2> QED
      BY <1>1, <1>2, <2>1 DEF UserLogin, Doors
  <1>3. ASSUME NEW d \in Domains, EmployerLogin(r, d) PROVE IInv'
    <2> PICK e \in LoginMatch(d) : BeginLogin(r, "employer", e)
      BY <1>3 DEF EmployerLogin
    <2>1. e \in Accounts /\ standing[e] = "on"
      BY DEF LoginMatch, Verified, Holders, Accounts
    <2> QED
      BY <1>1, <1>3, <2>1 DEF EmployerLogin, Doors
  <1>4. ASSUME NEW a \in Admins, AdminLogin(r, a) PROVE IInv'
    <2>1. a \in Accounts
      BY DEF Accounts
    <2> QED
      BY <1>1, <1>4, <2>1 DEF AdminLogin, Doors
  <1> QED
    BY <1>2, <1>3, <1>4

\* What a login signs is of its account, of its door, and of this second.
LEMMA SignIssues ==
  ASSUME IInv, NEW r \in Requests, Sign(r)
  PROVE  \E new \in SUBSET Token :
            /\ IsFiniteSet(new) /\ tokens' = tokens \cup new
            /\ \A t \in new : /\ t.type \in TypesSigned(req[r].door) /\ t.sub = req[r].sub
                              /\ t.iat = now /\ t.exp = now + Life(t.type)
            /\ req[r].door # "user" => new = {Signed(req[r].door, req[r].sub)}
  <1> DEFINE types == TypesSigned(req[r].door)
             new == {Signed(type, req[r].sub) : type \in types}
  <1>1. req[r] \in Login
    BY DEF Sign, IInv, TypeOK, Decoded, Idle
  <1>2. types \in SUBSET TokenTypes /\ now \in Nat /\ req[r].sub \in Accounts
    BY <1>1 DEF TypesSigned, Login, Doors, TokenTypes, IInv, TypeOK
  <1>3. \A t \in new : /\ t \in Token /\ t.type \in types /\ t.sub = req[r].sub
                       /\ t.iat = now /\ t.exp = now + Life(t.type)
    <2> HIDE DEF types
    <2> QED
      BY <1>2, SignedIsToken
  <1>4. CASE req[r].door = "user"
    <2>1. new = {Signed("access", req[r].sub)} \cup {Signed("refresh", req[r].sub)}
      BY <1>4 DEF TypesSigned
    <2>2. IsFiniteSet(new)
      <3> DEFINE x == {Signed("access", req[r].sub)}
                 y == {Signed("refresh", req[r].sub)}
      <3>1. IsFiniteSet(x) /\ IsFiniteSet(y)
        BY FS_Singleton
      <3> HIDE DEF x, y
      <3>2. IsFiniteSet(x \cup y)
        BY <3>1, FS_Union
      <3> QED
        BY <2>1, <3>2 DEF x, y
    <2> QED
      BY <1>3, <1>4, <2>2 DEF Sign, Issue
  <1>5. CASE req[r].door # "user"
    <2>1. new = {Signed(req[r].door, req[r].sub)}
      BY <1>5 DEF TypesSigned
    <2>2. IsFiniteSet(new)
      BY <2>1, FS_Singleton
    <2> QED
      BY <1>3, <2>1, <2>2 DEF Sign, Issue
  <1> QED
    BY <1>4, <1>5

LEMMA HandlersPreserve ==
  ASSUME IInv, NEW r \in Requests, Sign(r) \/ Present(r) \/ Load(r) \/ Serve(r) \/ Abort(r)
  PROVE  IInv'
  <1>0. /\ late \in [Accounts -> Nat] /\ standing \in [Accounts -> {"absent", "on", "off"}]
        /\ Idle \notin Decoded /\ Idle \notin Login
    BY DEF IInv, TypeOK, Idle, Decoded, Login
  <1>1. CASE Present(r)
    <2> PICK door \in Doors, t \in tokens :
            /\ Accepts(t, door)
            /\ req' = [req EXCEPT ![r] =
                 [stage |-> "decoded", door |-> door, sub |-> t.sub, at |-> now]]
      BY <1>1 DEF Present
    <2> DEFINE q == [stage |-> "decoded", door |-> door, sub |-> t.sub, at |-> now]
    <2>1. t \in Token /\ now \in Nat /\ t.iat <= now
      BY DEF IInv, TypeOK, Dated
    <2>2. q \in Decoded /\ q \notin Login /\ q.stage # "admitted"
      BY <2>1 DEF Decoded, Token, Login
    <2>3. Vouches(t, q)
      BY <2>1 DEF Vouches, Accepts
    <2> HIDE DEF q
    <2>4. req' = [req EXCEPT ![r] = q]
      BY DEF q
    <2> QED
      BY <1>0, <1>1, <2>2, <2>3, <2>4, QuietPreserves DEF Present
  <1>2. CASE Load(r)
    <2> DEFINE q == [stage |-> "admitted", door |-> req[r].door, sub |-> req[r].sub, at |-> req[r].at]
    <2>1. req[r] \in Decoded
      BY <1>2 DEF Load, IInv, TypeOK, Login, Idle
    <2>2. q \in Decoded /\ q \notin Login /\ q.sub = req[r].sub /\ q.door = req[r].door
      BY <2>1 DEF Decoded, Login
    <2>3. \E t \in tokens : Vouches(t, q)
      BY <1>2 DEF Load, IInv, Backed, Presented, Vouches
    <2>4. CASE req[r].sub \in TableOf(req[r].door) /\ InGoodStanding(req[r].sub)
      <3>1. req' = [req EXCEPT ![r] = q]
        BY <1>2, <2>4 DEF Load
      <3> HIDE DEF q
      <3> QED
        BY <1>0, <1>2, <2>2, <2>3, <2>4, <3>1, QuietPreserves DEF Load
    <2>5. CASE ~(req[r].sub \in TableOf(req[r].door) /\ InGoodStanding(req[r].sub))
      BY <1>0, <1>2, <2>5, QuietPreserves DEF Load
    <2> QED
      BY <2>4, <2>5
  <1>3. CASE Serve(r)
    <2>1. req[r] # Idle
      BY <1>3 DEF Serve, Idle
    <2> QED
      BY <1>0, <1>3, <2>1, FinishTyped, QuietPreserves DEF Serve, IInv
  <1>4. CASE Abort(r)
    BY <1>0, <1>4, QuietPreserves DEF Abort
  <1>5. CASE Sign(r)
    <2>1. req[r] # Idle
      BY <1>5 DEF Sign, Idle
    <2>2. late' \in [Accounts -> Nat] /\ req' = [req EXCEPT ![r] = Idle]
      BY <1>5, <2>1, FinishTyped DEF Sign, IInv
    <2>3. standing[req[r].sub] # "absent"
      BY <1>5 DEF Sign, IInv, LoginsReady
    <2> PICK new \in SUBSET Token :
            /\ IsFiniteSet(new) /\ tokens' = tokens \cup new
            /\ \A t \in new : /\ t.sub = req[r].sub
                              /\ t.iat = now /\ t.exp = now + Life(t.type)
      BY <1>5, SignIssues
    <2> QED
      BY <1>0, <1>5, <2>2, <2>3, HandlerPreserves DEF Sign
  <1> QED
    BY <1>1, <1>2, <1>3, <1>4, <1>5

\* Every step keeps the facts.
LEMMA StepPreserves == IInv /\ [Next]_vars => IInv'
  <1> SUFFICES ASSUME IInv, [Next]_vars PROVE IInv'
    OBVIOUS
  <1>1. CASE Tick
    <2>1. now \in Nat /\ now' = now + 1 /\ now' \in Nat
      BY <1>1 DEF Tick, IInv, TypeOK
    <2>2. TypeOK'
      BY <1>1, <2>1 DEF Tick, IInv, TypeOK
    <2>3. Dated'
      <3>1. \A t \in tokens : t.iat \in Nat
        BY DEF IInv, TypeOK, Token
      <3>2. \A d \in Domains : clash[d] \in Nat
        BY DEF IInv, TypeOK
      <3> QED
        BY <1>1, <2>1, <3>1, <3>2 DEF Tick, IInv, Dated
    <2>4. Backed' /\ LoginsReady'
      BY <1>1 DEF Tick, IInv, Backed, LoginsReady, Presented, Vouches
    <2> QED
      BY <2>2, <2>3, <2>4 DEF IInv
  <1>2. CASE \E a \in Employers \cup Admins : Switch(a)
    BY <1>2, SwitchPreserves
  <1>3. CASE UNCHANGED vars
    BY <1>3 DEF vars, IInv, TypeOK, Dated, Backed, LoginsReady, Presented, Vouches
  <1> QED
    BY <1>1, <1>2, <1>3, LoginsPreserve, HandlersPreserve DEF Next

THEOREM FactsHold == Spec => []IInv
  <1> QED
    BY InitEstablishes, StepPreserves, PTL DEF Spec

\* Rows, tokens and handlers are well formed, and the holder of a token has a
\* row (verify_otp commits the user before it signs).
THEOREM TypeCorrect == Spec => []TypeOK
  <1>1. IInv => TypeOK
    BY DEF IInv
  <1> QED
    BY <1>1, FactsHold, PTL

\* A request is taken up only within an access life of a login of its own
\* account, for any lives: the type claim keeps refresh tokens out.
THEOREM AccessWindowHolds == Spec => []AccessWindow
  <1>1. IInv => AccessWindow
    <2> SUFFICES ASSUME IInv, NEW r \in Requests, Presented(r)
                 PROVE  /\ req[r].stage = "admitted" => req[r].sub \in TableOf(req[r].door)
                        /\ \E t \in tokens : /\ t.sub = req[r].sub
                                             /\ t.iat <= req[r].at
                                             /\ req[r].at <= t.iat + AccessLife
      BY DEF AccessWindow
    <2>1. req[r] \in Decoded
      BY DEF IInv, TypeOK, Presented, Login, Idle
    <2> PICK t \in tokens : Vouches(t, req[r])
      BY DEF IInv, Backed
    <2>2. t.type # "refresh"
      BY <2>1 DEF Vouches, TypeFor, Decoded, Doors
    <2>3. t.exp = t.iat + AccessLife
      BY <2>2 DEF IInv, Dated, Life
    <2> QED
      BY <2>3 DEF IInv, Backed, Vouches
  <1> QED
    BY <1>1, FactsHold, PTL

-----------------------------------------------------------------------------
LEMMA SomeHandlers ==
  ASSUME NEW S \in SUBSET Requests
  PROVE  /\ IsFiniteSet(S) /\ Cardinality(S) \in Nat
         /\ Cardinality(S) <= Cardinality(Requests) /\ Cardinality(Requests) \in Nat
  BY RequestsFinite, FS_Subset, FS_CardinalityType

\* A handler that stands behind an account before it is done and not after.
LEMMA OneHandlerLess ==
  ASSUME NEW S \in SUBSET Requests, NEW r \in S
  PROVE  Cardinality(S \ {r}) = Cardinality(S) - 1
  BY SomeHandlers, FS_RemoveElement

LEMMA FewerHandlers ==
  ASSUME NEW S \in SUBSET Requests, NEW T \in SUBSET S
  PROVE  Cardinality(T) \in Nat /\ Cardinality(T) <= Cardinality(S) /\ Cardinality(S) \in Nat
  BY SomeHandlers, FS_Subset, FS_CardinalityType

\* A login or a request that is done counts once more for an account that is off,
\* and works for it no longer.
LEMMA FinishKeepsCeiling ==
  ASSUME TypeOK, RevocationCeiling, NEW r \in Requests,
         req[r].stage \in {"login", "admitted"}, Finish(r),
         NEW a \in Accounts, standing[a] = "off"
  PROVE  late'[a] + Cardinality(Working(a)') <= Cardinality(Requests)
  <1>1. req[r] # Idle /\ late[a] \in Nat
    BY DEF Idle, TypeOK
  <1>2. req[r].sub \in Accounts /\ req' = [req EXCEPT ![r] = Idle]
    BY <1>1, FinishTyped
  <1>3. late[a] + Cardinality(Working(a)) <= Cardinality(Requests)
    BY DEF RevocationCeiling
  <1>4. Working(a)' = Working(a) \ {r}
    BY <1>2 DEF Working, TypeOK, Idle
  <1>5. Working(a) \in SUBSET Requests
    BY DEF Working
  <1>6. CASE req[r].sub = a
    <2>1. late'[a] = late[a] + 1
      BY <1>6 DEF Finish, TypeOK
    <2>2. Cardinality(Working(a)') = Cardinality(Working(a)) - 1
      <3>1. r \in Working(a)
        BY <1>6 DEF Working
      <3> QED
        BY <1>4, <1>5, <3>1, OneHandlerLess
    <2> QED
      BY <1>1, <1>3, <1>5, <2>1, <2>2, SomeHandlers
  <1>7. CASE req[r].sub # a
    <2>1. late'[a] = late[a]
      BY <1>7 DEF Finish, TypeOK
    <2>2. Working(a)' = Working(a)
      BY <1>4, <1>7 DEF Working
    <2> QED
      BY <1>3, <2>1, <2>2
  <1> QED
    BY <1>6, <1>7

\* One step of one handler: whoever is off gains no handler past the check, and
\* loses one for each completion charged to it.
LEMMA CeilingStep ==
  ASSUME TypeOK, RevocationCeiling, [Next]_vars
  PROVE  RevocationCeiling'
  <1> SUFFICES ASSUME NEW a \in Accounts, standing'[a] = "off"
               PROVE  late'[a] + Cardinality(Working(a)') <= Cardinality(Requests)
    BY DEF RevocationCeiling
  <1>0. late[a] \in Nat /\ Working(a) \in SUBSET Requests
    BY DEF TypeOK, Working
  <1>1. CASE \E b \in Employers \cup Admins : Switch(b)
    <2> PICK b \in Employers \cup Admins : Switch(b)
      BY <1>1
    <2>1. Working(a)' = Working(a)
      BY DEF Switch, Working
    <2>2. CASE a = b
      <3>1. late'[a] = 0
        BY <2>2 DEF Switch, TypeOK
      <3> QED
        BY <1>0, <2>1, <3>1, SomeHandlers
    <2>3. CASE a # b
      <3>1. late'[a] = late[a] /\ standing[a] = "off"
        BY <2>3 DEF Switch, TypeOK
      <3> QED
        BY <2>1, <3>1 DEF RevocationCeiling
    <2> QED
      BY <2>2, <2>3
  <1>2. CASE \E r \in Requests : Serve(r) \/ Sign(r)
    <2> PICK r \in Requests : Serve(r) \/ Sign(r)
      BY <1>2
    <2>1. /\ req[r].stage \in {"login", "admitted"} /\ Finish(r)
          /\ standing[a] = "off"
      BY DEF Serve, Sign
    <2> QED
      BY <2>1, FinishKeepsCeiling
  <1>3. CASE \E r \in Requests :
                \/ Present(r) \/ Load(r) \/ Abort(r)
                \/ \E u \in Users : UserLogin(r, u)
                \/ \E d \in Domains : EmployerLogin(r, d)
                \/ \E b \in Admins : AdminLogin(r, b)
    <2> PICK r \in Requests : \/ Present(r) \/ Load(r) \/ Abort(r)
                              \/ \E u \in Users : UserLogin(r, u)
                              \/ \E d \in Domains : EmployerLogin(r, d)
                              \/ \E b \in Admins : AdminLogin(r, b)
      BY <1>3
    <2>1. late' = late /\ standing[a] = "off"
      BY DEF Present, Load, Abort, UserLogin, EmployerLogin, AdminLogin, TypeOK
    <2>2. Working(a)' \subseteq Working(a)
      <3> SUFFICES ASSUME NEW s \in Requests, req'[s].stage \in {"login", "admitted"}, req'[s].sub = a
                   PROVE  req[s].stage \in {"login", "admitted"} /\ req[s].sub = a
        BY DEF Working
      <3>1. CASE s # r
        BY <3>1 DEF Present, Load, Abort, UserLogin, EmployerLogin, AdminLogin, BeginLogin, TypeOK
      <3>2. CASE s = r
        <4>1. CASE Present(r)
          BY <3>2, <4>1 DEF Present, TypeOK
        <4>2. CASE Load(r)
          BY <2>1, <3>2, <4>2 DEF Load, InGoodStanding, TypeOK, Idle
        <4>3. CASE Abort(r)
          BY <3>2, <4>3 DEF Abort, TypeOK, Idle
        <4>4. ASSUME NEW u \in Users, UserLogin(r, u) PROVE FALSE
          BY <2>1, <3>2, <4>4 DEF UserLogin, BeginLogin, TypeOK
        <4>5. ASSUME NEW d \in Domains, EmployerLogin(r, d) PROVE FALSE
          BY <2>1, <3>2, <4>5 DEF EmployerLogin, BeginLogin, LoginMatch, Verified, TypeOK
        <4>6. ASSUME NEW b \in Admins, AdminLogin(r, b) PROVE FALSE
          BY <2>1, <3>2, <4>6 DEF AdminLogin, BeginLogin, TypeOK
        <4> QED
          BY <4>1, <4>2, <4>3, <4>4, <4>5, <4>6
      <3> QED
        BY <3>1, <3>2
    <2>3. Cardinality(Working(a)') <= Cardinality(Working(a)) /\ Cardinality(Working(a)') \in Nat
          /\ Cardinality(Working(a)) \in Nat
      BY <1>0, <2>2, FewerHandlers
    <2>4. late[a] + Cardinality(Working(a)) <= Cardinality(Requests)
      BY <2>1 DEF RevocationCeiling
    <2> QED
      BY <1>0, <2>1, <2>3, <2>4, SomeHandlers
  <1>4. CASE Tick \/ UNCHANGED vars
    <2>1. late' = late /\ standing' = standing /\ req' = req
      BY <1>4 DEF Tick, vars
    <2> QED
      BY <2>1 DEF RevocationCeiling, Working
  <1> QED
    BY <1>1, <1>2, <1>3, <1>4 DEF Next

\* An account whose standing is withdrawn has at most the requests and logins
\* already past the check completed in its name, one per handler.
THEOREM RevocationCeilingHolds == Spec => []RevocationCeiling
  <1>1. Init => RevocationCeiling
    <2> SUFFICES ASSUME Init, NEW a \in Accounts, standing[a] = "off" PROVE FALSE
      BY DEF RevocationCeiling
    <2> QED
      BY DEF Init
  <1> QED
    BY <1>1, CeilingStep, TypeCorrect, PTL DEF Spec

-----------------------------------------------------------------------------
(***************************************************************************)
(* Two verified accounts of one domain.  No login selects either of them   *)
(* while they clash, so each token signed late is charged to a login that  *)
(* had selected before, and there is one per handler at most.              *)
(***************************************************************************)
FewStrays ==
    \A d \in Domains :
        Clashing(standing, d) =>
            Cardinality(Strays(d)) + Cardinality(LoggingIn(d)) <= Cardinality(Requests)

LEMMA StraysFinite ==
  ASSUME IInv, NEW d
  PROVE  /\ IsFiniteSet(Strays(d)) /\ Cardinality(Strays(d)) \in Nat
         /\ LoggingIn(d) \in SUBSET Requests
  BY FS_Subset, FS_CardinalityType DEF IInv, Dated, Strays, LoggingIn

\* What happens at a door changes nothing for a domain if it issues nothing and
\* no login selects an account of the domain.
LEMMA NoNewLogin ==
  ASSUME IInv, FewStrays, NEW d \in Domains, Clashing(standing, d),
         UNCHANGED <<tokens, domain, clash>>,
         LoggingIn(d)' \subseteq LoggingIn(d)
  PROVE  Cardinality(Strays(d)') + Cardinality(LoggingIn(d)') <= Cardinality(Requests)
  <1>1. Strays(d)' = Strays(d)
    BY DEF Strays, Holders
  <1>2. /\ Cardinality(LoggingIn(d)') \in Nat /\ Cardinality(LoggingIn(d)) \in Nat
        /\ Cardinality(LoggingIn(d)') <= Cardinality(LoggingIn(d))
    BY StraysFinite, FewerHandlers
  <1>3. Cardinality(Strays(d)) + Cardinality(LoggingIn(d)) <= Cardinality(Requests)
    BY DEF FewStrays
  <1> QED
    BY <1>1, <1>2, <1>3, StraysFinite, SomeHandlers

LEMMA SignKeepsFew ==
  ASSUME IInv, FewStrays, NEW d \in Domains, Clashing(standing, d), NEW r \in Requests, Sign(r)
  PROVE  Cardinality(Strays(d)') + Cardinality(LoggingIn(d)') <= Cardinality(Requests)
  <1>1. req[r] # Idle
    BY DEF Sign, Idle
  <1>2. req' = [req EXCEPT ![r] = Idle] /\ UNCHANGED <<now, standing, domain, clash>>
    BY <1>1, FinishTyped DEF Sign, IInv
  <1>3. LoggingIn(d)' = LoggingIn(d) \ {r}
    BY <1>2 DEF LoggingIn, Holders, IInv, TypeOK, Idle
  <1>4. Cardinality(Strays(d)) + Cardinality(LoggingIn(d)) <= Cardinality(Requests)
    BY DEF FewStrays
  <1> PICK new \in SUBSET Token :
          /\ IsFiniteSet(new) /\ tokens' = tokens \cup new
          /\ \A t \in new : /\ t.type \in TypesSigned(req[r].door) /\ t.sub = req[r].sub
                            /\ t.iat = now /\ t.exp = now + Life(t.type)
          /\ req[r].door # "user" => new = {Signed(req[r].door, req[r].sub)}
    BY SignIssues
  <1>5. CASE r \in LoggingIn(d)
    <2> DEFINE token == Signed("employer", req[r].sub)
    <2>1. new = {token}
      BY <1>5 DEF LoggingIn
    <2> HIDE DEF token
    <2>2. Strays(d)' \subseteq Strays(d) \cup {token}
      BY <1>2, <2>1 DEF Strays, Holders
    <2>3. /\ IsFiniteSet(Strays(d) \cup {token})
          /\ Cardinality(Strays(d) \cup {token}) <= Cardinality(Strays(d)) + 1
      <3> DEFINE S == Strays(d)
      <3>1. IsFiniteSet(S) /\ Cardinality(S) \in Nat
        BY StraysFinite
      <3> HIDE DEF S
      <3>2. /\ IsFiniteSet(S \cup {token})
            /\ Cardinality(S \cup {token}) <= Cardinality(S) + 1
        <4> DEFINE c == Cardinality(S)
                   y == Cardinality(S \cup {token})
        <4>1. IsFiniteSet(S \cup {token}) /\ y = IF token \in S THEN c ELSE c + 1
          BY <3>1, FS_AddElement
        <4>2. c \in Nat
          BY <3>1
        <4> HIDE DEF c, y
        <4>3. y <= c + 1
          BY <4>1, <4>2
        <4> QED
          BY <4>1, <4>3 DEF c, y
      <3> QED
        BY <3>2 DEF S
    <2>4. /\ Cardinality(Strays(d)') <= Cardinality(Strays(d)) + 1
          /\ Cardinality(Strays(d)') \in Nat
      <3>1. Cardinality(Strays(d) \cup {token}) \in Nat
        BY <2>3, FS_CardinalityType
      <3>2. /\ Cardinality(Strays(d)') <= Cardinality(Strays(d) \cup {token})
            /\ Cardinality(Strays(d)') \in Nat
        BY <2>2, <2>3, FS_Subset, FS_CardinalityType
      <3> QED
        BY <2>3, <3>1, <3>2, StraysFinite
    <2>5. Cardinality(LoggingIn(d)') = Cardinality(LoggingIn(d)) - 1
      BY <1>3, <1>5, StraysFinite, OneHandlerLess
    <2> QED
      BY <1>4, <2>4, <2>5, StraysFinite, SomeHandlers
  <1>6. CASE r \notin LoggingIn(d)
    <2>1. LoggingIn(d)' = LoggingIn(d)
      BY <1>3, <1>6
    <2>2. \A t \in new : ~(t.type = "employer" /\ t.sub \in Holders(d))
      <3> SUFFICES ASSUME NEW t \in new, t.type = "employer", t.sub \in Holders(d) PROVE FALSE
        OBVIOUS
      <3>1. req[r].sub \in Holders(d) /\ req[r].door = "employer"
        BY DEF TypesSigned
      <3> QED
        BY <1>6, <3>1 DEF LoggingIn, Sign
    <2>3. Strays(d)' = Strays(d)
      BY <1>2, <2>2 DEF Strays, Holders
    <2> QED
      BY <1>4, <2>1, <2>3
  <1> QED
    BY <1>5, <1>6

\* A clash begins without strays, and no login of the domain comes after.
LEMMA FewStraysStep ==
  ASSUME IInv, FewStrays, [Next]_vars
  PROVE  FewStrays'
  <1> SUFFICES ASSUME NEW d \in Domains, Clashing(standing, d)'
               PROVE  Cardinality(Strays(d)') + Cardinality(LoggingIn(d)') <= Cardinality(Requests)
    BY DEF FewStrays
  <1>1. CASE \E b \in Employers \cup Admins : Switch(b)
    <2> PICK b \in Employers \cup Admins : Switch(b)
      BY <1>1
    <2>1. LoggingIn(d)' = LoggingIn(d) /\ domain' = domain /\ tokens' = tokens
      BY DEF Switch, LoggingIn, Holders
    <2>2. Clashing(standing', d)
      BY <2>1 DEF Clashing
    <2>3. clash'[d] = IF Clashing(standing, d) THEN clash[d] ELSE now
      BY <2>2 DEF Switch
    <2>4. CASE Clashing(standing, d)
      <3>1. Strays(d)' = Strays(d)
        BY <2>1, <2>3, <2>4 DEF Strays, Holders
      <3> QED
        BY <2>1, <2>4, <3>1 DEF FewStrays
    <2>5. CASE ~Clashing(standing, d)
      <3>1. Strays(d)' = {}
        <4>1. \A t \in tokens : ~(t.iat > now)
          <5>1. \A t \in tokens : t.iat <= now /\ t.iat \in Nat /\ now \in Nat
            BY DEF IInv, TypeOK, Dated, Token
          <5> QED
            BY <5>1
        <4> QED
          BY <2>1, <2>3, <2>5, <4>1 DEF Strays, Holders
      <3> QED
        BY <2>1, <3>1, FS_EmptySet, StraysFinite, SomeHandlers
    <2> QED
      BY <2>4, <2>5
  <1>2. CASE ~\E b \in Employers \cup Admins : Switch(b)
    <2>1. domain' = domain /\ clash' = clash
      BY <1>2 DEF Next, Tick, vars, UserLogin, EmployerLogin, AdminLogin, Sign, Present,
                  Load, Serve, Abort
    <2>2. \A e \in Employers : standing'[e] = standing[e]
      <3>1. ASSUME NEW r \in Requests, NEW u \in Users, UserLogin(r, u)
            PROVE  \A e \in Employers : standing'[e] = standing[e]
        BY <3>1, AccountsApart DEF UserLogin, IInv, TypeOK, Accounts
      <3> QED
        BY <1>2, <3>1 DEF Next, Tick, vars, EmployerLogin, AdminLogin, Sign, Present, Load,
                          Serve, Abort
    <2>3. Clashing(standing, d)
      BY <2>1, <2>2 DEF Clashing
    <2>4. CASE Tick \/ UNCHANGED vars
      <3>1. tokens' = tokens /\ req' = req
        BY <2>4 DEF Tick, vars
      <3>2. LoggingIn(d)' = LoggingIn(d)
        BY <2>1, <3>1 DEF LoggingIn, Holders
      <3> QED
        BY <2>1, <2>3, <3>1, <3>2, NoNewLogin
    <2>5. ASSUME NEW r \in Requests, Sign(r)
          PROVE  Cardinality(Strays(d)') + Cardinality(LoggingIn(d)') <= Cardinality(Requests)
      BY <2>3, <2>5, SignKeepsFew
    <2>6. ASSUME NEW r \in Requests,
                 \/ Present(r) \/ Load(r) \/ Serve(r) \/ Abort(r)
                 \/ \E u \in Users : UserLogin(r, u)
                 \/ \E c \in Domains : EmployerLogin(r, c)
                 \/ \E b \in Admins : AdminLogin(r, b)
          PROVE  Cardinality(Strays(d)') + Cardinality(LoggingIn(d)') <= Cardinality(Requests)
      <3>1. tokens' = tokens
        BY <2>6 DEF Present, Load, Serve, Abort, UserLogin, EmployerLogin, AdminLogin
      <3>2. \A s \in Requests \ {r} : req'[s] = req[s]
        BY <2>6 DEF Present, Load, Serve, Abort, Finish, UserLogin, EmployerLogin, AdminLogin,
                    BeginLogin, IInv, TypeOK
      <3>3. ~(req'[r].stage = "login" /\ req'[r].door = "employer" /\ req'[r].sub \in Holders(d))
        <4>1. CASE Present(r) \/ Load(r) \/ Serve(r) \/ Abort(r)
          BY <4>1 DEF Present, Load, Serve, Finish, Abort, Idle, IInv, TypeOK
        <4>2. ASSUME NEW u \in Users, UserLogin(r, u) PROVE req'[r].door # "employer"
          BY <4>2 DEF UserLogin, BeginLogin, IInv, TypeOK
        <4>3. ASSUME NEW b \in Admins, AdminLogin(r, b) PROVE req'[r].door # "employer"
          BY <4>3 DEF AdminLogin, BeginLogin, IInv, TypeOK
        <4>4. ASSUME NEW c \in Domains, EmployerLogin(r, c) PROVE req'[r].sub \notin Holders(d)
          <5> PICK e \in LoginMatch(c) : BeginLogin(r, "employer", e)
            BY <4>4 DEF EmployerLogin
          <5>1. req'[r].sub = e
            BY DEF BeginLogin, IInv, TypeOK
          <5>2. ~Clashing(standing, c) /\ domain[e] = c
            BY DEF Clashing, LoginMatch, Verified, Holders
          <5> QED
            BY <2>3, <5>1, <5>2 DEF Holders
        <4> QED
          BY <2>6, <4>1, <4>2, <4>3, <4>4
      <3>4. LoggingIn(d)' \subseteq LoggingIn(d)
        <4>1. Holders(d)' = Holders(d)
          BY <2>1 DEF Holders
        <4> QED
          BY <3>2, <3>3, <4>1 DEF LoggingIn
      <3> QED
        BY <2>1, <2>3, <3>1, <3>4, NoNewLogin
    <2> QED
      BY <1>2, <2>4, <2>5, <2>6 DEF Next
  <1> QED
    BY <1>1, <1>2

LEMMA FewStraysHolds == Spec => []FewStrays
  <1>1. Init => FewStrays
    <2> SUFFICES ASSUME Init, NEW d \in Domains, Clashing(standing, d) PROVE FALSE
      BY DEF FewStrays
    <2> QED
      BY DEF Init, Clashing, Accounts
  <1> QED
    BY <1>1, FewStraysStep, FactsHold, PTL DEF Spec

\* While verified accounts share a domain (employer.py), each handler can sign at
\* most one more employer token for it, and an access life after the clash began
\* these are the only ones that open its employers' door.
THEOREM ClashLocksOutHolds == Spec => []ClashLocksOut
  <1>1. IInv /\ FewStrays => ClashLocksOut
    <2> SUFFICES ASSUME IInv, FewStrays, NEW d \in Domains, Clashing(standing, d),
                        NEW r \in Requests, Presented(r), req[r].door = "employer",
                        req[r].sub \in Holders(d), req[r].at > clash[d] + AccessLife
                 PROVE  \E t \in Strays(d) : /\ t.sub = req[r].sub
                                             /\ t.iat <= req[r].at
                                             /\ req[r].at <= t.iat + AccessLife
      BY DEF ClashLocksOut, FewStrays
    <2>1. req[r] \in Decoded
      BY DEF IInv, TypeOK, Presented, Login, Idle
    <2> PICK t \in tokens : Vouches(t, req[r])
      BY DEF IInv, Backed
    <2>2. t.type = "employer" /\ t.sub = req[r].sub /\ t.iat <= req[r].at /\ req[r].at <= t.exp
      BY DEF Vouches, TypeFor
    <2>3. t.exp = t.iat + AccessLife
      BY <2>2 DEF IInv, Dated, Life
    <2>4. t.iat \in Nat /\ clash[d] \in Nat /\ req[r].at \in Nat /\ AccessLife \in Nat
      BY <2>1, LivesAssumption DEF IInv, TypeOK, Token, Decoded
    <2>5. t.iat > clash[d]
      BY <2>2, <2>3, <2>4
    <2> QED
      BY <2>2, <2>3, <2>5 DEF Strays
  <1> QED
    BY <1>1, FactsHold, FewStraysHolds, PTL
=============================================================================
