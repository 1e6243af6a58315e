-------------------------- MODULE OneTimeCodeProofs --------------------------
(***************************************************************************)
(* Theorems about OneTimeCode, for every set of keys, rows and handlers    *)
(* and every attempt maximum.                                              *)
(***************************************************************************)
EXTENDS OneTimeCode, Integers, FiniteSetTheorems, TLAPS

(***************************************************************************)
(* The inductive form of TypeOK.  A verification in flight holds a row that *)
(* exists, and one about to count a miss read a counter below the maximum: *)
(* that is why even a stale write never passes it.                         *)
(***************************************************************************)
HoldersAreSound ==
    \A r \in Requests :
        /\ req[r].pc \in {"miss", "hit"} => rows[req[r].row].exists
        /\ req[r].pc = "miss" => req[r].attempts < MaxAttempts

Typed == TypeOK /\ HoldersAreSound

\* A row that exists, with a new counter.
LEMMA CounterWritten ==
  ASSUME NEW x \in CodeRow, NEW n \in 0..MaxAttempts
  PROVE  /\ [x EXCEPT !.attempts = n] \in CodeRow
         /\ [x EXCEPT !.attempts = n].attempts = n
         /\ [x EXCEPT !.attempts = n].exists
         /\ [x EXCEPT !.attempts = n].consumed = x.consumed
         /\ [x EXCEPT !.attempts = n].key = x.key
BY DEF CodeRow

\* A row that exists, consumed.
LEMMA ConsumptionWritten ==
  ASSUME NEW x \in CodeRow
  PROVE  /\ [x EXCEPT !.consumed = TRUE] \in CodeRow
         /\ [x EXCEPT !.consumed = TRUE].attempts = x.attempts
         /\ [x EXCEPT !.consumed = TRUE].exists
         /\ [x EXCEPT !.consumed = TRUE].consumed
BY DEF CodeRow

\* What a verification in flight holds, and what the two commits write.
LEMMA HeldRow ==
  ASSUME Typed, NEW r \in Requests, req[r].pc \in {"miss", "hit"}
  PROVE  /\ req[r] \in Judged
         /\ req[r].row \in RowIds
         /\ req[r].attempts \in 0..MaxAttempts
         /\ rows[req[r].row] \in CodeRow
<1>1. req[r] \in Judged
  BY DEF Typed, TypeOK, Judged, Issuing, Idle
<1>2. req[r].row \in RowIds /\ req[r].attempts \in 0..MaxAttempts
  BY <1>1 DEF Judged
<1>3. rows[req[r].row] \in CodeRow
  BY <1>2 DEF Typed, TypeOK, HoldersAreSound, NoRow
<1> QED BY <1>1, <1>2, <1>3

LEMMA MissWrites ==
  ASSUME Typed, NEW r \in Requests, CommitMiss(r)
  PROVE  /\ req[r].attempts + 1 \in 0..MaxAttempts
         /\ \E x \in CodeRow :
              /\ rows' = [rows EXCEPT ![req[r].row] = x]
              /\ x.attempts = req[r].attempts + 1
              /\ x.exists
              /\ x.consumed = rows[req[r].row].consumed
<1> DEFINE i == req[r].row
           n == req[r].attempts + 1
           x == [rows[i] EXCEPT !.attempts = n]
<1>1. req[r].pc = "miss"
  BY DEF CommitMiss
<1>2. i \in RowIds /\ rows[i] \in CodeRow /\ req[r].attempts \in 0..MaxAttempts
  BY <1>1, HeldRow
<1>3. n \in 0..MaxAttempts
  BY <1>1, <1>2, AttemptsAssumption DEF Typed, HoldersAreSound
<1>4. rows' = [rows EXCEPT ![i] = x]
  BY DEF CommitMiss, Miss
<1>5. /\ x \in CodeRow /\ x.attempts = n /\ x.exists
      /\ x.consumed = rows[i].consumed
  <2> HIDE DEF n, i
  <2> QED BY <1>2, <1>3, CounterWritten
<1> QED BY <1>3, <1>4, <1>5

LEMMA HitWrites ==
  ASSUME Typed, NEW r \in Requests, CommitHit(r)
  PROVE  \E x \in CodeRow :
            /\ rows' = [rows EXCEPT ![req[r].row] = x]
            /\ x.attempts = rows[req[r].row].attempts
            /\ x.exists
            /\ x.consumed
<1> DEFINE i == req[r].row
           x == [rows[i] EXCEPT !.consumed = TRUE]
<1>1. i \in RowIds /\ rows[i] \in CodeRow
  BY HeldRow DEF CommitHit
<1>2. rows' = [rows EXCEPT ![i] = x]
  BY DEF CommitHit, Hit
<1>3. x \in CodeRow /\ x.attempts = rows[i].attempts /\ x.exists /\ x.consumed
  <2> HIDE DEF i
  <2> QED BY <1>1, ConsumptionWritten
<1> QED BY <1>2, <1>3

LEMMA TypedInit == Init => Typed
BY TimeAssumption DEF Init, Typed, TypeOK, HoldersAreSound, Idle

LEMMA TypedStep == Typed /\ [Next]_vars => Typed'
<1> SUFFICES ASSUME Typed, [Next]_vars PROVE Typed'
  OBVIOUS
<1> USE TimeAssumption, AttemptsAssumption
<1>1. ASSUME NEW r \in Requests, Stamp(r) PROVE Typed'
  BY <1>1 DEF Stamp, Typed, TypeOK, HoldersAreSound, Issuing, Idle
<1>2. ASSUME NEW r \in Requests, Issue(r) PROVE Typed'
  <2>1. PICK i \in RowIds :
          /\ rows[i] = NoRow
          /\ rows' = [rows EXCEPT ![i] =
                [exists |-> TRUE, key |-> req[r].key, created |-> req[r].created,
                 attempts |-> 0, consumed |-> FALSE]]
    BY <1>2 DEF Issue
  <2>2. req[r] \in Issuing
    BY <1>2 DEF Issue, Typed, TypeOK, Issuing, Judged, Idle
  <2>3. [exists |-> TRUE, key |-> req[r].key, created |-> req[r].created,
         attempts |-> 0, consumed |-> FALSE] \in CodeRow
    BY <2>2 DEF Issuing, CodeRow
  <2>4. rows' \in [RowIds -> CodeRow \cup {NoRow}]
    BY <2>1, <2>3 DEF Typed, TypeOK
  <2>5. TypeOK'
    BY <1>2, <2>4 DEF Issue, Respond, Typed, TypeOK
  <2>6. HoldersAreSound'
    <3> SUFFICES ASSUME NEW q \in Requests, req'[q].pc \in {"miss", "hit"}
                 PROVE  /\ rows'[req'[q].row].exists
                        /\ req'[q].pc = "miss" => req'[q].attempts < MaxAttempts
      BY DEF HoldersAreSound
    <3>1. req'[q] = req[q]
      BY <1>2 DEF Issue, Respond, Typed, TypeOK, Idle
    <3>2. req[q].row \in RowIds
      BY <3>1, HeldRow
    <3>3. rows'[req[q].row].exists
      BY <2>1, <3>1, <3>2 DEF Typed, TypeOK, HoldersAreSound
    <3> QED BY <3>1, <3>3 DEF Typed, HoldersAreSound
  <2> QED BY <2>5, <2>6 DEF Typed
<1>3. ASSUME NEW r \in Requests, Judge(r) PROVE Typed'
  <2>1. PICK k \in Keys, guess \in RowIds \cup {Wrong} :
          \E i \in NewestOf(k) :
            /\ ~Expired(i) /\ ~Exhausted(i)
            /\ req' = [req EXCEPT ![r] =
                    [pc |-> IF guess = i THEN "hit" ELSE "miss", row |-> i,
                     attempts |-> rows[i].attempts]]
    BY <1>3 DEF Judge
  <2>2. PICK i \in NewestOf(k) :
          /\ ~Exhausted(i)
          /\ req' = [req EXCEPT ![r] =
                    [pc |-> IF guess = i THEN "hit" ELSE "miss", row |-> i,
                     attempts |-> rows[i].attempts]]
    BY <2>1
  <2>3. i \in RowIds /\ rows[i].exists
    BY DEF NewestOf, Unconsumed
  <2>4. rows[i] \in CodeRow
    BY <2>3 DEF Typed, TypeOK, NoRow
  <2>5. rows[i].attempts \in 0..MaxAttempts /\ rows[i].attempts < MaxAttempts
    <3>1. rows[i].attempts \in 0..MaxAttempts
      BY <2>4 DEF CodeRow
    <3>2. ~(rows[i].attempts >= MaxAttempts)
      BY <2>2 DEF Exhausted
    <3> QED BY <3>1, <3>2
  <2>6. [pc |-> IF guess = i THEN "hit" ELSE "miss", row |-> i,
         attempts |-> rows[i].attempts] \in Judged
    BY <2>3, <2>5 DEF Judged
  <2>7. TypeOK'
    BY <1>3, <2>2, <2>6 DEF Judge, Typed, TypeOK
  <2>8. HoldersAreSound'
    BY <1>3, <2>2, <2>3, <2>5 DEF Judge, Typed, TypeOK, HoldersAreSound
  <2> QED BY <2>7, <2>8 DEF Typed
<1>4. ASSUME NEW r \in Requests, CommitMiss(r) PROVE Typed'
  <2>1. PICK x \in CodeRow :
          rows' = [rows EXCEPT ![req[r].row] = x] /\ x.exists
    BY <1>4, MissWrites
  <2>2. req[r].row \in RowIds
    BY <1>4, HeldRow DEF CommitMiss
  <2>3. missed' \in [RowIds -> Nat]
    BY <1>4, <2>2 DEF CommitMiss, Typed, TypeOK
  <2>4. TypeOK'
    BY <1>4, <2>1, <2>3 DEF CommitMiss, Respond, Typed, TypeOK
  <2>5. HoldersAreSound'
    BY <1>4, <2>1, <2>2 DEF CommitMiss, Respond, Typed, TypeOK, HoldersAreSound, Idle
  <2> QED BY <2>4, <2>5 DEF Typed
<1>5. ASSUME NEW r \in Requests, CommitHit(r) PROVE Typed'
  <2>1. PICK x \in CodeRow :
          rows' = [rows EXCEPT ![req[r].row] = x] /\ x.exists
    BY <1>5, HitWrites
  <2>2. req[r].row \in RowIds
    BY <1>5, HeldRow DEF CommitHit
  <2>3. passed' \in [RowIds -> Nat]
    BY <1>5, <2>2 DEF CommitHit, Typed, TypeOK
  <2>4. TypeOK'
    BY <1>5, <2>1, <2>3 DEF CommitHit, Respond, Typed, TypeOK
  <2>5. HoldersAreSound'
    BY <1>5, <2>1, <2>2 DEF CommitHit, Respond, Typed, TypeOK, HoldersAreSound, Idle
  <2> QED BY <2>4, <2>5 DEF Typed
<1>6. ASSUME NEW r \in Requests, Abort(r) PROVE Typed'
  BY <1>6 DEF Abort, Respond, Typed, TypeOK, HoldersAreSound, Idle
<1>7. CASE Tick
  BY <1>7 DEF Tick, Typed, TypeOK, HoldersAreSound
<1>8. CASE UNCHANGED vars
  BY <1>8 DEF vars, Typed, TypeOK, HoldersAreSound
<1> QED BY <1>1, <1>2, <1>3, <1>4, <1>5, <1>6, <1>7, <1>8 DEF Next

LEMMA TypedAlways == Spec => []Typed
BY TypedInit, TypedStep, PTL DEF Spec

\* Type correctness: in particular the stored attempt counter never passes
\* otp_max_attempts, however many verifications read it at once.
THEOREM TypeCorrect == Spec => []TypeOK
<1>1. Typed => TypeOK
  BY DEF Typed
<1> QED BY <1>1, TypedAlways, PTL

-----------------------------------------------------------------------------
(***************************************************************************)
(* How many sessions one code opens.  A commit moves a handler from the     *)
(* holders to the sessions, and consumption keeps new holders away.        *)
(***************************************************************************)
Sessions == Typed /\ PassCeiling

LEMMA HoldersCounted ==
  ASSUME NEW i \in RowIds, NEW pc
  PROVE  /\ IsFiniteSet(Holding(i, pc))
         /\ Cardinality(Holding(i, pc)) \in Nat
         /\ Cardinality(Holding(i, pc)) <= Cardinality(Requests)
         /\ Cardinality(Requests) \in Nat
<1>1. Holding(i, pc) \subseteq Requests
  BY DEF Holding
<1> QED BY <1>1, RequestsAssumption, FS_Subset, FS_CardinalityType

LEMMA HoldersCountedNext ==
  ASSUME NEW i \in RowIds
  PROVE  /\ Cardinality(Holding(i, "hit")') \in Nat
         /\ Cardinality(Holding(i, "hit")') <= Cardinality(Requests)
         /\ Cardinality(Requests) \in Nat
<1>1. Holding(i, "hit")' \subseteq Requests
  BY DEF Holding
<1> QED BY <1>1, RequestsAssumption, FS_Subset, FS_CardinalityType

\* A step that lets nobody new hold a row and leaves rows and sessions alone.
LEMMA FewerHolders ==
  ASSUME Sessions, NEW i \in RowIds,
         Holding(i, "hit")' \subseteq Holding(i, "hit"),
         passed'[i] = passed[i]
  PROVE  passed'[i] + Cardinality(Holding(i, "hit")') <= Cardinality(Requests)
<1>1. /\ Cardinality(Holding(i, "hit")') <= Cardinality(Holding(i, "hit"))
      /\ Cardinality(Holding(i, "hit")) \in Nat
  BY HoldersCounted, FS_Subset
<1>2. passed[i] \in Nat
  BY DEF Sessions, Typed, TypeOK
<1> QED BY <1>1, <1>2, HoldersCounted, HoldersCountedNext DEF Sessions, PassCeiling

LEMMA JudgeKeepsSessions ==
  ASSUME Sessions, NEW r \in Requests, Judge(r)
  PROVE  PassCeiling'
<1>1. PICK k \in Keys, guess \in RowIds \cup {Wrong} :
        \E i \in NewestOf(k) :
          req' = [req EXCEPT ![r] =
                  [pc |-> IF guess = i THEN "hit" ELSE "miss", row |-> i,
                   attempts |-> rows[i].attempts]]
  BY DEF Judge
<1>2. PICK n \in NewestOf(k) :
        req' = [req EXCEPT ![r] =
                [pc |-> IF guess = n THEN "hit" ELSE "miss", row |-> n,
                 attempts |-> rows[n].attempts]]
  BY <1>1
<1>3. n \in RowIds /\ ~rows[n].consumed
  BY DEF NewestOf, Unconsumed
<1>4. rows' = rows /\ passed' = passed
  BY DEF Judge
<1> SUFFICES ASSUME NEW i \in RowIds
             PROVE  passed'[i] + Cardinality(Holding(i, "hit")') <= Cardinality(Requests)
  BY <1>4 DEF Sessions, PassCeiling
<1>5. CASE i = n
  <2>1. passed[i] = 0
    BY <1>3, <1>5 DEF Sessions, PassCeiling, Typed, TypeOK
  <2> QED BY <1>4, <2>1, HoldersCountedNext
<1>6. CASE i # n
  <2>1. Holding(i, "hit")' \subseteq Holding(i, "hit")
    BY <1>2, <1>6 DEF Holding, Sessions, Typed, TypeOK
  <2> QED BY <1>4, <2>1, FewerHolders
<1> QED BY <1>5, <1>6

LEMMA HitKeepsSessions ==
  ASSUME Sessions, NEW r \in Requests, CommitHit(r)
  PROVE  PassCeiling'
<1>1. /\ req[r].pc = "hit" /\ req' = [req EXCEPT ![r] = Idle]
      /\ passed' = [passed EXCEPT ![req[r].row] = @ + 1]
  BY DEF CommitHit, Respond
<1>2. PICK x \in CodeRow :
        rows' = [rows EXCEPT ![req[r].row] = x] /\ x.exists /\ x.consumed
  BY HitWrites DEF Sessions
<1>3. req[r].row \in RowIds
  BY <1>1, HeldRow DEF Sessions
<1> SUFFICES ASSUME NEW i \in RowIds
             PROVE  /\ passed'[i] + Cardinality(Holding(i, "hit")') <= Cardinality(Requests)
                    /\ passed'[i] > 0 => rows'[i].exists /\ rows'[i].consumed
  BY DEF PassCeiling
<1>4. passed[i] \in Nat /\ rows' \in [RowIds -> CodeRow \cup {NoRow}]
  BY <1>2 DEF Sessions, Typed, TypeOK
<1>5. CASE i = req[r].row
  <2>1. rows'[i].exists /\ rows'[i].consumed /\ passed'[i] = passed[i] + 1
    BY <1>1, <1>2, <1>5 DEF Sessions, Typed, TypeOK
  <2>2. r \in Holding(i, "hit") /\ Holding(i, "hit")' = Holding(i, "hit") \ {r}
    BY <1>1, <1>5 DEF Holding, Sessions, Typed, TypeOK, Idle
  <2>3. Cardinality(Holding(i, "hit")') = Cardinality(Holding(i, "hit")) - 1
    BY <2>2, HoldersCounted, FS_RemoveElement
  <2> QED BY <1>4, <2>1, <2>3, HoldersCounted DEF Sessions, PassCeiling
<1>6. CASE i # req[r].row
  <2>1. rows'[i] = rows[i] /\ passed'[i] = passed[i]
    BY <1>1, <1>2, <1>6 DEF Sessions, Typed, TypeOK
  <2>2. Holding(i, "hit")' \subseteq Holding(i, "hit")
    BY <1>1 DEF Holding, Sessions, Typed, TypeOK, Idle
  <2> QED BY <2>1, <2>2, FewerHolders DEF Sessions, PassCeiling
<1> QED BY <1>5, <1>6

LEMMA SessionsStep == Sessions /\ [Next]_vars => Sessions'
<1> SUFFICES ASSUME Sessions, [Next]_vars PROVE PassCeiling'
  BY TypedStep DEF Sessions
<1>1. ASSUME passed' = passed,
             \A i \in RowIds : Holding(i, "hit")' \subseteq Holding(i, "hit"),
             \A i \in RowIds : rows[i].exists /\ rows[i].consumed
                                => rows'[i].exists /\ rows'[i].consumed
      PROVE  PassCeiling'
  BY <1>1, FewerHolders DEF Sessions, PassCeiling
<1>2. ASSUME NEW r \in Requests, Stamp(r) PROVE PassCeiling'
  BY <1>1, <1>2 DEF Stamp, Holding, Sessions, Typed, TypeOK
<1>3. ASSUME NEW r \in Requests, Issue(r) PROVE PassCeiling'
  <2>1. PICK n \in RowIds :
          /\ rows[n] = NoRow
          /\ rows' = [rows EXCEPT ![n] =
                [exists |-> TRUE, key |-> req[r].key, created |-> req[r].created,
                 attempts |-> 0, consumed |-> FALSE]]
    BY <1>3 DEF Issue
  <2>2. passed' = passed /\ \A i \in RowIds : Holding(i, "hit")' \subseteq Holding(i, "hit")
    BY <1>3 DEF Issue, Respond, Holding, Sessions, Typed, TypeOK, Idle
  <2>3. \A i \in RowIds : rows[i].exists => rows'[i] = rows[i]
    BY <2>1 DEF NoRow, Sessions, Typed, TypeOK
  <2> QED BY <1>1, <2>2, <2>3
<1>4. ASSUME NEW r \in Requests, CommitMiss(r) PROVE PassCeiling'
  <2>1. PICK x \in CodeRow :
          /\ rows' = [rows EXCEPT ![req[r].row] = x] /\ x.exists
          /\ x.consumed = rows[req[r].row].consumed
    BY <1>4, MissWrites DEF Sessions
  <2>2. passed' = passed /\ \A i \in RowIds : Holding(i, "hit")' \subseteq Holding(i, "hit")
    BY <1>4 DEF CommitMiss, Respond, Holding, Sessions, Typed, TypeOK, Idle
  <2>3. \A i \in RowIds : rows[i].exists /\ rows[i].consumed
                              => rows'[i].exists /\ rows'[i].consumed
    BY <2>1 DEF Sessions, Typed, TypeOK
  <2> QED BY <1>1, <2>2, <2>3
<1>5. ASSUME NEW r \in Requests, Abort(r) PROVE PassCeiling'
  BY <1>1, <1>5 DEF Abort, Respond, Holding, Sessions, Typed, TypeOK, Idle
<1>6. CASE Tick
  BY <1>1, <1>6 DEF Tick, Holding
<1>7. CASE UNCHANGED vars
  BY <1>1, <1>7 DEF vars, Holding
<1> QED BY <1>2, <1>3, <1>4, <1>5, <1>6, <1>7, JudgeKeepsSessions, HitKeepsSessions
        DEF Next

LEMMA SessionsInit == Init => Sessions
<1> SUFFICES ASSUME Init PROVE PassCeiling
  BY TypedInit DEF Sessions
<1>1. \A i \in RowIds : passed[i] = 0
  BY DEF Init
<1> QED BY <1>1, HoldersCounted DEF PassCeiling

\* A code opens at most as many sessions as there are handlers in flight at
\* once: verify_otp's consumption shuts out everyone who selects later.
THEOREM PassCeilingHolds == Spec => []PassCeiling
<1>1. Sessions => PassCeiling
  BY DEF Sessions
<1> QED BY <1>1, SessionsInit, SessionsStep, PTL DEF Spec

\* When handlers do not overlap, a code opens one session.
THEOREM SerialCodeIsSingleUse ==
  ASSUME Cardinality(Requests) <= 1
  PROVE  Spec => []SingleUse
<1>1. Sessions => SingleUse
  <2> SUFFICES ASSUME Sessions, NEW i \in RowIds PROVE passed[i] <= 1
    BY DEF SingleUse
  <2>1. passed[i] \in Nat
    BY DEF Sessions, Typed, TypeOK
  <2> QED BY <2>1, HoldersCounted DEF Sessions, PassCeiling
<1> QED BY <1>1, SessionsInit, SessionsStep, PTL DEF Spec

-----------------------------------------------------------------------------
(***************************************************************************)
(* Exhausted codes.  The lock needs only that Judge refuses them; the cap   *)
(* on wrong guesses needs, besides, that no commit writes a stale counter. *)
(***************************************************************************)
LEMMA LockStep == Typed /\ [Next]_vars =>
    \A i \in RowIds : Locked(i) => Locked(i)' /\ rows'[i] = rows[i]
<1> SUFFICES ASSUME Typed, [Next]_vars, NEW i \in RowIds, Locked(i)
             PROVE  Locked(i)' /\ rows'[i] = rows[i]
  OBVIOUS
<1> DEFINE Apart(q) == q.pc \in {"miss", "hit"} => q.row # i
<1>1. \A q \in Requests : Apart(req[q])
  BY DEF Locked, Holding
<1>2. ASSUME rows'[i] = rows[i], \A q \in Requests : Apart(req'[q])
      PROVE  Locked(i)' /\ rows'[i] = rows[i]
  BY <1>2 DEF Locked, Holding
<1>3. ASSUME NEW r \in Requests, req' = [req EXCEPT ![r] = Idle]
      PROVE  \A q \in Requests : Apart(req'[q])
  BY <1>1, <1>3 DEF Idle, Typed, TypeOK
<1>4. ASSUME NEW r \in Requests, Stamp(r) PROVE Locked(i)' /\ rows'[i] = rows[i]
  BY <1>1, <1>2, <1>4 DEF Stamp, Typed, TypeOK
<1>5. ASSUME NEW r \in Requests, Issue(r) PROVE Locked(i)' /\ rows'[i] = rows[i]
  <2>1. rows'[i] = rows[i]
    BY <1>5 DEF Issue, Locked, NoRow, Typed, TypeOK
  <2> QED BY <1>2, <1>3, <1>5, <2>1 DEF Issue, Respond
<1>6. ASSUME NEW r \in Requests, Judge(r) PROVE Locked(i)' /\ rows'[i] = rows[i]
  <2>1. PICK k \in Keys, guess \in RowIds \cup {Wrong} :
          \E n \in NewestOf(k) :
            /\ ~Exhausted(n)
            /\ req' = [req EXCEPT ![r] =
                    [pc |-> IF guess = n THEN "hit" ELSE "miss", row |-> n,
                     attempts |-> rows[n].attempts]]
    BY <1>6 DEF Judge
  <2>2. PICK n \in NewestOf(k) :
          /\ ~Exhausted(n)
          /\ req' = [req EXCEPT ![r] =
                    [pc |-> IF guess = n THEN "hit" ELSE "miss", row |-> n,
                     attempts |-> rows[n].attempts]]
    BY <2>1
  <2>3. Exhausted(i)
    BY AttemptsAssumption DEF Locked, Exhausted
  <2>4. n # i
    BY <2>2, <2>3
  <2>5. \A q \in Requests : Apart(req'[q])
    BY <1>1, <2>2, <2>4 DEF Typed, TypeOK
  <2> QED BY <1>2, <1>6, <2>5 DEF Judge
<1>7. ASSUME NEW r \in Requests, CommitMiss(r) PROVE Locked(i)' /\ rows'[i] = rows[i]
  <2>1. req[r].row # i
    BY <1>1, <1>7 DEF CommitMiss
  <2>2. rows'[i] = rows[i]
    BY <1>7, <2>1, MissWrites DEF Typed, TypeOK
  <2> QED BY <1>2, <1>3, <1>7, <2>2 DEF CommitMiss, Respond
<1>8. ASSUME NEW r \in Requests, CommitHit(r) PROVE Locked(i)' /\ rows'[i] = rows[i]
  <2>1. req[r].row # i
    BY <1>1, <1>8 DEF CommitHit
  <2>2. rows'[i] = rows[i]
    BY <1>8, <2>1, HitWrites DEF Typed, TypeOK
  <2> QED BY <1>2, <1>3, <1>8, <2>2 DEF CommitHit, Respond
<1>9. ASSUME NEW r \in Requests, Abort(r) PROVE Locked(i)' /\ rows'[i] = rows[i]
  BY <1>2, <1>3, <1>9 DEF Abort, Respond
<1>10. CASE Tick
  BY <1>1, <1>2, <1>10 DEF Tick
<1>11. CASE UNCHANGED vars
  BY <1>1, <1>2, <1>11 DEF vars
<1> QED BY <1>4, <1>5, <1>6, <1>7, <1>8, <1>9, <1>10, <1>11 DEF Next

\* Once the counter of a code is at the maximum and nobody is verifying it,
\* verify_otp never lets it be guessed at, reopened or consumed again.
THEOREM LockoutIsFinal == Spec => LockedOutForGood
<1>1. Typed /\ [Next]_vars =>
        [\A i \in RowIds : Locked(i) => Locked(i)' /\ rows'[i] = rows[i]]_vars
  BY LockStep
<1> QED BY <1>1, TypedAlways, PTL DEF Spec, LockedOutForGood

\* With one handler the counter is exact: it equals the wrong guesses judged,
\* and the value in the session is the value in the table.
Exact ==
    /\ \A i \in RowIds : missed[i] = IF rows[i].exists THEN rows[i].attempts ELSE 0
    /\ \A r \in Requests :
        req[r].pc = "miss" => req[r].attempts = rows[req[r].row].attempts

LEMMA ExactStep ==
  ASSUME \A r, q \in Requests : r = q, Typed, Exact, [Next]_vars
  PROVE  Exact'
<1>1. ASSUME NEW r \in Requests, Stamp(r) PROVE Exact'
  BY <1>1 DEF Stamp, Exact, Typed, TypeOK
<1>2. ASSUME NEW r \in Requests, Issue(r) PROVE Exact'
  <2>1. PICK n \in RowIds :
          /\ rows[n] = NoRow
          /\ rows' = [rows EXCEPT ![n] =
                [exists |-> TRUE, key |-> req[r].key, created |-> req[r].created,
                 attempts |-> 0, consumed |-> FALSE]]
    BY <1>2 DEF Issue
  <2>2. \A q \in Requests : req'[q].pc = "idle"
    BY <1>2 DEF Issue, Respond, Typed, TypeOK, Idle
  <2>3. missed' = missed
    BY <1>2 DEF Issue
  <2> QED BY <2>1, <2>2, <2>3 DEF Exact, NoRow, Typed, TypeOK
<1>3. ASSUME NEW r \in Requests, Judge(r) PROVE Exact'
  <2>1. PICK k \in Keys, guess \in RowIds \cup {Wrong} :
          \E n \in NewestOf(k) :
            req' = [req EXCEPT ![r] =
                    [pc |-> IF guess = n THEN "hit" ELSE "miss", row |-> n,
                     attempts |-> rows[n].attempts]]
    BY <1>3 DEF Judge
  <2> QED BY <1>3, <2>1 DEF Judge, Exact, Typed, TypeOK
<1>4. ASSUME NEW r \in Requests, CommitMiss(r) PROVE Exact'
  <2>1. PICK x \in CodeRow :
          /\ rows' = [rows EXCEPT ![req[r].row] = x] /\ x.exists
          /\ x.attempts = req[r].attempts + 1
    BY <1>4, MissWrites
  <2>2. /\ req[r].row \in RowIds /\ rows[req[r].row].exists
        /\ req[r].attempts = rows[req[r].row].attempts
    BY <1>4, HeldRow DEF CommitMiss, Typed, HoldersAreSound, Exact
  <2>3. missed[req[r].row] = req[r].attempts
    BY <2>2 DEF Exact
  <2>4. missed' = [missed EXCEPT ![req[r].row] = req[r].attempts + 1]
    BY <1>4, <2>3 DEF CommitMiss
  <2>5. \A q \in Requests : req'[q].pc = "idle"
    BY <1>4 DEF CommitMiss, Respond, Typed, TypeOK, Idle
  <2> QED BY <2>1, <2>2, <2>4, <2>5 DEF Exact, Typed, TypeOK
<1>5. ASSUME NEW r \in Requests, CommitHit(r) PROVE Exact'
  <2>1. PICK x \in CodeRow :
          /\ rows' = [rows EXCEPT ![req[r].row] = x] /\ x.exists
          /\ x.attempts = rows[req[r].row].attempts
    BY <1>5, HitWrites
  <2>2. req[r].row \in RowIds /\ rows[req[r].row].exists
    BY <1>5, HeldRow DEF CommitHit, Typed, HoldersAreSound
  <2>3. missed' = missed /\ \A q \in Requests : req'[q].pc = "idle"
    BY <1>5 DEF CommitHit, Respond, Typed, TypeOK, Idle
  <2> QED BY <2>1, <2>2, <2>3 DEF Exact, Typed, TypeOK
<1>6. ASSUME NEW r \in Requests, Abort(r) PROVE Exact'
  BY <1>6 DEF Abort, Respond, Exact, Typed, TypeOK, Idle
<1>7. CASE Tick
  BY <1>7 DEF Tick, Exact
<1>8. CASE UNCHANGED vars
  BY <1>8 DEF vars, Exact
<1> QED BY <1>1, <1>2, <1>3, <1>4, <1>5, <1>6, <1>7, <1>8 DEF Next

\* When handlers do not overlap, the three-attempt cap of the README holds.
THEOREM SerialCapHolds ==
  ASSUME Cardinality(Requests) <= 1
  PROVE  Spec => []AttemptCap
<1>1. \A r, q \in Requests : r = q
  <2> SUFFICES ASSUME NEW r \in Requests, NEW q \in Requests, r # q PROVE FALSE
    OBVIOUS
  <2>1. {r, q} \subseteq Requests
    OBVIOUS
  <2>2. IsFiniteSet({r, q}) /\ Cardinality({r, q}) <= Cardinality(Requests)
    BY <2>1, RequestsAssumption, FS_Subset
  <2>3. Cardinality({r}) = 1 /\ IsFiniteSet({r})
    BY FS_Singleton
  <2>4. {r, q} = {r} \cup {q}
    OBVIOUS
  <2>5. Cardinality({r} \cup {q}) = Cardinality({r}) + 1
    BY <2>3, FS_AddElement
  <2>6. Cardinality(Requests) \in Nat
    BY RequestsAssumption, FS_CardinalityType
  <2> QED BY <2>2, <2>3, <2>4, <2>5, <2>6
<1>2. Init => Exact
  BY DEF Init, Exact, NoRow, Idle
<1>3. Typed /\ Exact /\ [Next]_vars => Exact'
  BY <1>1, ExactStep
<1>4. Typed /\ Exact => AttemptCap
  <2> SUFFICES ASSUME Typed, Exact, NEW i \in RowIds PROVE missed[i] <= MaxAttempts
    BY DEF AttemptCap
  <2>1. CASE rows[i].exists
    <3>1. rows[i] \in CodeRow
      BY <2>1 DEF Typed, TypeOK, NoRow
    <3>2. rows[i].attempts \in 0..MaxAttempts
      BY <3>1 DEF CodeRow
    <3>3. missed[i] = rows[i].attempts
      BY <2>1 DEF Exact
    <3> QED BY <3>2, <3>3, AttemptsAssumption
  <2>2. CASE ~rows[i].exists
    BY <2>2, AttemptsAssumption DEF Exact
  <2> QED BY <2>1, <2>2
<1> QED BY <1>2, <1>3, <1>4, TypedAlways, PTL DEF Spec

-----------------------------------------------------------------------------
(***************************************************************************)
(* The bound on wrong guesses.  First the table of Guesses: its recursion   *)
(* has a solution, by induction on h + a, with the least element of a set   *)
(* of naturals in the place of an induction scheme.                        *)
(***************************************************************************)

\* A set of naturals that has 0 and is closed under successor is all of them.
LEMMA EveryNat ==
  ASSUME NEW T \in SUBSET Nat, 0 \in T, \A n \in T : n + 1 \in T
  PROVE  T = Nat
<1> SUFFICES ASSUME Nat \ T # {} PROVE FALSE
  OBVIOUS
<1>1. IsWellFoundedOn(OpToRel(<, Nat), Nat)
  BY NatLessThanWellFounded
<1>2. PICK n \in Nat \ T : \A m \in Nat \ T : <<m, n>> \notin OpToRel(<, Nat)
  BY <1>1, WFMin
<1>3. \A m \in Nat : m < n => m \in T
  BY <1>2 DEF OpToRel
<1>4. n - 1 \in Nat /\ n - 1 < n /\ (n - 1) + 1 = n
  OBVIOUS
<1> QED BY <1>2, <1>3, <1>4

Entries == (0..Cardinality(Requests)) \X (0..MaxAttempts)

\* The table filled in for the entries whose coordinates add up to m at most.
FilledUpto(F, m) ==
    F = [p \in Entries |->
            IF p[1] = 0 \/ p[2] = 0 \/ p[1] + p[2] > m THEN 0
            ELSE F[<<p[1] - 1, p[2]>>] + 1 + F[<<p[1], p[2] - 1>>]]

LEMMA Limits == Cardinality(Requests) \in Nat /\ MaxAttempts \in Nat
BY RequestsAssumption, AttemptsAssumption, FS_CardinalityType

LEMMA Neighbours ==
  ASSUME NEW p \in Entries, p[1] # 0, p[2] # 0
  PROVE  /\ p[1] \in Nat /\ p[2] \in Nat
         /\ <<p[1] - 1, p[2]>> \in Entries /\ <<p[1], p[2] - 1>> \in Entries
BY Limits DEF Entries

LEMMA FilledStep ==
  ASSUME NEW m \in Nat, NEW F, FilledUpto(F, m)
  PROVE  \E G : FilledUpto(G, m + 1)
<1> DEFINE G == [p \in Entries |->
                    IF p[1] = 0 \/ p[2] = 0 \/ p[1] + p[2] > m + 1 THEN 0
                    ELSE F[<<p[1] - 1, p[2]>>] + 1 + F[<<p[1], p[2] - 1>>]]
<1>1. ASSUME NEW p \in Entries, p[1] + p[2] <= m PROVE G[p] = F[p]
  <2>1. p[1] \in Nat /\ p[2] \in Nat
    BY Limits DEF Entries
  <2>2. ~(p[1] + p[2] > m) /\ ~(p[1] + p[2] > m + 1)
    BY <1>1, <2>1
  <2>3. F[p] = IF p[1] = 0 \/ p[2] = 0 \/ p[1] + p[2] > m THEN 0
               ELSE F[<<p[1] - 1, p[2]>>] + 1 + F[<<p[1], p[2] - 1>>]
    BY DEF FilledUpto
  <2> QED BY <2>2, <2>3
<1>2. ASSUME NEW p \in Entries
      PROVE  G[p] = IF p[1] = 0 \/ p[2] = 0 \/ p[1] + p[2] > m + 1 THEN 0
                    ELSE G[<<p[1] - 1, p[2]>>] + 1 + G[<<p[1], p[2] - 1>>]
  <2>1. CASE p[1] = 0 \/ p[2] = 0 \/ p[1] + p[2] > m + 1
    BY <2>1
  <2>2. CASE ~(p[1] = 0 \/ p[2] = 0 \/ p[1] + p[2] > m + 1)
    <3> DEFINE below == <<p[1] - 1, p[2]>>
               left  == <<p[1], p[2] - 1>>
    <3>1. /\ p[1] \in Nat /\ p[2] \in Nat /\ below \in Entries /\ left \in Entries
      BY <2>2, Neighbours
    <3>2. below[1] + below[2] <= m /\ left[1] + left[2] <= m
      BY <2>2, <3>1
    <3>3. G[below] = F[below] /\ G[left] = F[left]
      BY <1>1, <3>1, <3>2
    <3>4. G[p] = F[below] + 1 + F[left]
      BY <2>2
    <3> HIDE DEF G
    <3> QED BY <2>2, <3>3, <3>4
  <2> QED BY <2>1, <2>2
<1>3. FilledUpto(G, m + 1)
  <2>1. G = [p \in Entries |-> G[p]]
    OBVIOUS
  <2> HIDE DEF G
  <2> QED BY <1>2, <2>1 DEF FilledUpto
<1> QED BY <1>3

LEMMA TableFilled ==
  GuessTable = [p \in Entries |->
                  IF p[1] = 0 \/ p[2] = 0 THEN 0
                  ELSE GuessTable[<<p[1] - 1, p[2]>>] + 1 + GuessTable[<<p[1], p[2] - 1>>]]
<1> DEFINE T == {m \in Nat : \E F : FilledUpto(F, m)}
           Z == [p \in Entries |-> 0]
<1>1. FilledUpto(Z, 0)
  <2>1. \A p \in Entries : p[1] = 0 \/ p[2] = 0 \/ p[1] + p[2] > 0
    BY Limits DEF Entries
  <2> QED BY <2>1 DEF FilledUpto
<1>2. 0 \in T
  BY <1>1
<1>3. ASSUME NEW m \in T PROVE m + 1 \in T
  BY FilledStep
<1>4. T = Nat
  <2>1. T \in SUBSET Nat
    OBVIOUS
  <2> HIDE DEF T
  <2> QED BY <1>2, <1>3, <2>1, EveryNat
<1>5. PICK F : FilledUpto(F, Cardinality(Requests) + MaxAttempts)
  <2>1. Cardinality(Requests) + MaxAttempts \in Nat
    BY Limits
  <2> QED BY <1>4, <2>1
<1>6. \A p \in Entries : ~(p[1] + p[2] > Cardinality(Requests) + MaxAttempts)
  BY Limits DEF Entries
<1>7. F = [p \in Entries |-> IF p[1] = 0 \/ p[2] = 0 THEN 0
              ELSE F[<<p[1] - 1, p[2]>>] + 1 + F[<<p[1], p[2] - 1>>]]
  BY <1>5, <1>6 DEF FilledUpto
<1> QED BY <1>7, Zenon DEF GuessTable, Entries

LEMMA GuessesUnfold ==
  ASSUME NEW h \in 0..Cardinality(Requests), NEW a \in 0..MaxAttempts
  PROVE  /\ h = 0 \/ a = 0 => Guesses(h, a) = 0
         /\ h # 0 /\ a # 0 => Guesses(h, a) = Guesses(h - 1, a) + 1 + Guesses(h, a - 1)
<1> DEFINE p == <<h, a>>
<1>1. p \in Entries /\ p[1] = h /\ p[2] = a
  BY DEF Entries
<1>2. GuessTable[p] = IF p[1] = 0 \/ p[2] = 0 THEN 0
            ELSE GuessTable[<<p[1] - 1, p[2]>>] + 1 + GuessTable[<<p[1], p[2] - 1>>]
  BY <1>1, TableFilled
<1> QED BY <1>1, <1>2 DEF Guesses

LEMMA GuessesNat ==
  ASSUME NEW h \in 0..Cardinality(Requests), NEW a \in 0..MaxAttempts
  PROVE  Guesses(h, a) \in Nat
<1> DEFINE T == {m \in Nat : \A x \in 0..Cardinality(Requests), y \in 0..MaxAttempts :
                                 x + y <= m => Guesses(x, y) \in Nat}
<1>1. 0 \in T
  <2> SUFFICES ASSUME NEW x \in 0..Cardinality(Requests), NEW y \in 0..MaxAttempts,
                      x + y <= 0
               PROVE  Guesses(x, y) \in Nat
    OBVIOUS
  <2>1. x = 0
    BY Limits
  <2> QED BY <2>1, GuessesUnfold
<1>2. ASSUME NEW m \in T PROVE m + 1 \in T
  <2> SUFFICES ASSUME NEW x \in 0..Cardinality(Requests), NEW y \in 0..MaxAttempts,
                      x + y <= m + 1
               PROVE  Guesses(x, y) \in Nat
    OBVIOUS
  <2>1. CASE x = 0 \/ y = 0
    BY <2>1, GuessesUnfold
  <2>2. CASE x # 0 /\ y # 0
    <3>1. /\ x - 1 \in 0..Cardinality(Requests) /\ y - 1 \in 0..MaxAttempts
          /\ (x - 1) + y <= m /\ x + (y - 1) <= m
      BY <2>2, Limits
    <3>2. Guesses(x - 1, y) \in Nat /\ Guesses(x, y - 1) \in Nat
      BY <3>1
    <3>3. Guesses(x, y) = Guesses(x - 1, y) + 1 + Guesses(x, y - 1)
      BY <2>2, GuessesUnfold
    <3> QED BY <3>2, <3>3
  <2> QED BY <2>1, <2>2
<1>3. T = Nat
  <2>1. T \in SUBSET Nat
    OBVIOUS
  <2> HIDE DEF T
  <2> QED BY <1>1, <1>2, <2>1, EveryNat
<1>4. h + a \in T
  <2>1. h + a \in Nat
    BY Limits
  <2> HIDE DEF T
  <2> QED BY <1>3, <2>1
<1>5. h + a <= h + a
  BY Limits
<1> QED BY <1>4, <1>5

\* More handlers can place more guesses.
LEMMA GuessesGrow ==
  ASSUME NEW h \in 0..Cardinality(Requests), NEW k \in 0..Cardinality(Requests), h <= k,
         NEW a \in 0..MaxAttempts
  PROVE  Guesses(h, a) <= Guesses(k, a)
<1> DEFINE T == {d \in Nat : h + d <= Cardinality(Requests)
                                  => Guesses(h, a) <= Guesses(h + d, a)}
<1>1. 0 \in T
  BY GuessesNat
<1>2. ASSUME NEW d \in T PROVE d + 1 \in T
  <2> SUFFICES ASSUME h + (d + 1) <= Cardinality(Requests)
               PROVE  Guesses(h, a) <= Guesses(h + (d + 1), a)
    OBVIOUS
  <2> DEFINE x == h + (d + 1)
  <2>1. /\ x \in 0..Cardinality(Requests) /\ x # 0 /\ x - 1 = h + d
        /\ h + d \in 0..Cardinality(Requests) /\ h + d <= Cardinality(Requests)
    BY Limits
  <2>2. Guesses(h, a) <= Guesses(h + d, a)
    BY <2>1
  <2>3. Guesses(h + d, a) <= Guesses(x, a)
    <3> HIDE DEF x
    <3>1. CASE a = 0
      BY <2>1, <3>1, GuessesUnfold
    <3>2. CASE a # 0
      <4>1. a - 1 \in 0..MaxAttempts
        BY <3>2, Limits
      <4>2. Guesses(x, a) = Guesses(x - 1, a) + 1 + Guesses(x, a - 1)
        BY <2>1, <3>2, GuessesUnfold
      <4>3. Guesses(x - 1, a) \in Nat /\ Guesses(x, a - 1) \in Nat
        BY <2>1, <4>1, GuessesNat
      <4> QED BY <2>1, <4>2, <4>3
    <3> QED BY <3>1, <3>2
  <2>4. Guesses(h, a) \in Nat /\ Guesses(h + d, a) \in Nat /\ Guesses(x, a) \in Nat
    BY <2>1, GuessesNat
  <2> QED BY <2>2, <2>3, <2>4
<1>3. T = Nat
  <2>1. T \in SUBSET Nat
    OBVIOUS
  <2> HIDE DEF T
  <2> QED BY <1>1, <1>2, <2>1, EveryNat
<1>4. k - h \in Nat /\ h + (k - h) = k /\ k <= Cardinality(Requests)
  BY Limits
<1> QED BY <1>3, <1>4

(***************************************************************************)
(* The guesses placed on a code are paid for by its readings.  A handler    *)
(* about to write back the counter it read leaves the code at that reading  *)
(* plus one; every other handler reads the counter as it stands.  A[d] is   *)
(* the number of handlers whose reading leaves fewer than d tries, and the  *)
(* table gives what each further handler down there has cost.              *)
(***************************************************************************)
Gain(h, d) == Guesses(h, d) - Guesses(h, d - 1)

Profiles == [1..MaxAttempts -> 0..Cardinality(Requests)]

Tally(P, A) ==
    /\ P \in [0..MaxAttempts -> Int]
    /\ P[0] = 0
    /\ \A d \in 1..MaxAttempts : P[d] = P[d - 1] + Gain(A[d], d)

LEMMA GainValues ==
  ASSUME NEW d \in 1..MaxAttempts
  PROVE  /\ d \in 0..MaxAttempts /\ d - 1 \in 0..MaxAttempts
         /\ Gain(0, d) = 0
         /\ \A h \in 0..Cardinality(Requests) : Gain(h, d) \in Int
         /\ \A h \in 1..Cardinality(Requests) :
                /\ h - 1 \in 0..Cardinality(Requests)
                /\ Gain(h, d) = Guesses(h - 1, d) + 1
<1>1. d \in 0..MaxAttempts /\ d - 1 \in 0..MaxAttempts /\ d # 0 /\ 0 \in 0..Cardinality(Requests)
  BY Limits
<1>2. Gain(0, d) = 0
  BY <1>1, GuessesUnfold DEF Gain
<1>3. ASSUME NEW h \in 0..Cardinality(Requests) PROVE Gain(h, d) \in Int
  <2>1. Guesses(h, d) \in Nat /\ Guesses(h, d - 1) \in Nat
    BY <1>1, GuessesNat
  <2> QED BY <2>1 DEF Gain
<1>4. ASSUME NEW h \in 1..Cardinality(Requests)
      PROVE  h - 1 \in 0..Cardinality(Requests) /\ Gain(h, d) = Guesses(h - 1, d) + 1
  <2>1. h \in 0..Cardinality(Requests) /\ h # 0 /\ h - 1 \in 0..Cardinality(Requests)
    BY Limits
  <2>2. Guesses(h, d) = Guesses(h - 1, d) + 1 + Guesses(h, d - 1)
    BY <1>1, <2>1, GuessesUnfold
  <2>3. Guesses(h - 1, d) \in Nat /\ Guesses(h, d - 1) \in Nat
    BY <1>1, <2>1, GuessesNat
  <2> QED BY <2>1, <2>2, <2>3 DEF Gain
<1> QED BY <1>1, <1>2, <1>3, <1>4

LEMMA GainGrows ==
  ASSUME NEW d \in 1..MaxAttempts,
         NEW h \in 0..Cardinality(Requests), NEW k \in 0..Cardinality(Requests), h <= k
  PROVE  /\ 0 <= Gain(h, d)
         /\ Gain(h, d) <= Gain(k, d)
         /\ Gain(h, d) \in Int /\ Gain(k, d) \in Int
<1>1. Gain(h, d) \in Int /\ Gain(k, d) \in Int
  BY GainValues
<1>2. CASE h = 0
  <2>1. Gain(h, d) = 0
    BY <1>2, GainValues
  <2>2. CASE k = 0
    BY <1>1, <1>2, <2>1, <2>2
  <2>3. CASE k # 0
    <3>1. k \in 1..Cardinality(Requests)
      BY <2>3, Limits
    <3>2. Gain(k, d) = Guesses(k - 1, d) + 1 /\ Guesses(k - 1, d) \in Nat
      BY <3>1, GainValues, GuessesNat
    <3> QED BY <1>1, <2>1, <3>2
  <2> QED BY <2>2, <2>3
<1>3. CASE h # 0
  <2>1. h \in 1..Cardinality(Requests) /\ k \in 1..Cardinality(Requests) /\ h - 1 <= k - 1
    BY <1>3, Limits
  <2>2. /\ Gain(h, d) = Guesses(h - 1, d) + 1 /\ Gain(k, d) = Guesses(k - 1, d) + 1
        /\ h - 1 \in 0..Cardinality(Requests) /\ k - 1 \in 0..Cardinality(Requests)
        /\ d \in 0..MaxAttempts
    BY <2>1, GainValues
  <2>3. Guesses(h - 1, d) <= Guesses(k - 1, d)
    BY <2>1, <2>2, GuessesGrow
  <2>4. Guesses(h - 1, d) \in Nat /\ Guesses(k - 1, d) \in Nat
    BY <2>2, GuessesNat
  <2> QED BY <1>1, <2>2, <2>3, <2>4
<1> QED BY <1>1, <1>2, <1>3

\* A tally as far as m.
TallyUpto(P, A, m) ==
    /\ P \in [0..MaxAttempts -> Int]
    /\ P[0] = 0
    /\ \A d \in 1..MaxAttempts : d <= m => P[d] = P[d - 1] + Gain(A[d], d)

\* Every profile has a tally.
LEMMA TallyExists ==
  ASSUME NEW A \in Profiles
  PROVE  \E P : Tally(P, A)
<1> DEFINE T == {m \in Nat : \E P : TallyUpto(P, A, m)}
<1>1. 0 \in T
  <2> DEFINE Z == [d \in 0..MaxAttempts |-> 0]
  <2>1. TallyUpto(Z, A, 0)
    BY Limits DEF TallyUpto
  <2> QED BY <2>1
<1>2. ASSUME NEW m \in T PROVE m + 1 \in T
  <2> SUFFICES \E R : TallyUpto(R, A, m + 1)
    OBVIOUS
  <2>1. PICK P : TallyUpto(P, A, m)
    OBVIOUS
  <2>2. CASE m + 1 \in 1..MaxAttempts
    <3> DEFINE g == Gain(A[m + 1], m + 1)
               R == [P EXCEPT ![m + 1] = P[m] + g]
    <3>1. m \in 0..MaxAttempts /\ A[m + 1] \in 0..Cardinality(Requests)
      BY <2>2, Limits DEF Profiles
    <3>2. Gain(A[m + 1], m + 1) \in Int
      BY <2>2, <3>1, GainValues
    <3>3. R \in [0..MaxAttempts -> Int]
      <4>1. P \in [0..MaxAttempts -> Int] /\ P[m] + g \in Int
        BY <2>1, <3>1, <3>2 DEF TallyUpto
      <4> HIDE DEF g
      <4> QED BY ONLY <4>1
    <3>4. R[0] = 0
      BY <2>1, <3>1, Limits DEF TallyUpto
    <3>5. ASSUME NEW d \in 1..MaxAttempts, d <= m + 1
          PROVE  R[d] = R[d - 1] + Gain(A[d], d)
      <4>1. CASE d = m + 1
        <5>1. R[d] = P[m] + Gain(A[m + 1], m + 1) /\ R[d - 1] = P[m] /\ d - 1 = m
          BY <2>1, <3>1, <4>1 DEF TallyUpto
        <5> QED BY <4>1, <5>1
      <4>2. CASE d # m + 1
        <5>1. d <= m /\ d - 1 \in 0..MaxAttempts /\ d \in 0..MaxAttempts /\ d - 1 # m + 1
          BY <3>5, <4>2, Limits
        <5>2. R[d] = P[d] /\ R[d - 1] = P[d - 1]
          BY <2>1, <4>2, <5>1 DEF TallyUpto
        <5> QED BY <2>1, <5>1, <5>2 DEF TallyUpto
      <4> QED BY <4>1, <4>2
    <3>6. TallyUpto(R, A, m + 1)
      BY <3>3, <3>4, <3>5 DEF TallyUpto
    <3> HIDE DEF R
    <3> QED BY <3>6
  <2>3. CASE m + 1 \notin 1..MaxAttempts
    <3>1. \A d \in 1..MaxAttempts : d <= m
      BY <2>3, Limits
    <3>2. TallyUpto(P, A, m + 1)
      BY <2>1, <3>1 DEF TallyUpto
    <3> QED BY <3>2
  <2> QED BY <2>2, <2>3
<1>3. T = Nat
  <2>1. T \in SUBSET Nat
    OBVIOUS
  <2> HIDE DEF T
  <2> QED BY <1>1, <1>2, <2>1, EveryNat
<1>4. PICK P : TallyUpto(P, A, MaxAttempts)
  BY <1>3, Limits
<1>5. \A d \in 1..MaxAttempts : d <= MaxAttempts
  BY Limits
<1> QED BY <1>4, <1>5 DEF Tally, TallyUpto

\* A tally is never negative, and no more than what the table gives for as many
\* handlers as the profile ever counts.
LEMMA TallyBounded ==
  ASSUME NEW A \in Profiles, NEW P, Tally(P, A),
         NEW k \in 0..Cardinality(Requests), NEW m \in 0..MaxAttempts,
         \A d \in 1..MaxAttempts : d <= m => A[d] <= k
  PROVE  0 <= P[m] /\ P[m] <= Guesses(k, m) /\ P[m] \in Int
<1> DEFINE T == {n \in Nat : n <= m => 0 <= P[n] /\ P[n] <= Guesses(k, n)}
<1>1. 0 \in T
  <2>1. Guesses(k, 0) = 0 /\ P[0] = 0
    BY GuessesUnfold, Limits DEF Tally
  <2> QED BY <2>1
<1>2. ASSUME NEW n \in T PROVE n + 1 \in T
  <2> SUFFICES ASSUME n + 1 <= m
               PROVE  0 <= P[n + 1] /\ P[n + 1] <= Guesses(k, n + 1)
    OBVIOUS
  <2> DEFINE e == n + 1
  <2>1. /\ e \in 1..MaxAttempts /\ e \in 0..MaxAttempts /\ n \in 0..MaxAttempts
        /\ e - 1 = n /\ n <= m
    BY Limits
  <2>2. 0 <= P[n] /\ P[n] <= Guesses(k, n)
    BY <2>1
  <2>3. P[e] = P[n] + Gain(A[e], e) /\ P[e] \in Int /\ P[n] \in Int
    BY <2>1 DEF Tally
  <2>4. A[e] \in 0..Cardinality(Requests) /\ A[e] <= k
    BY <2>1 DEF Profiles
  <2>5. /\ 0 <= Gain(A[e], e) /\ Gain(A[e], e) <= Gain(k, e)
        /\ Gain(A[e], e) \in Int /\ Gain(k, e) \in Int
    <3> HIDE DEF e
    <3> QED BY <2>1, <2>4, GainGrows
  <2>6. Gain(k, e) = Guesses(k, e) - Guesses(k, n)
    BY <2>1 DEF Gain
  <2>7. Guesses(k, e) \in Nat /\ Guesses(k, n) \in Nat
    BY <2>1, GuessesNat
  <2> QED BY <2>2, <2>3, <2>5, <2>6, <2>7
<1>3. T = Nat
  <2>1. T \in SUBSET Nat
    OBVIOUS
  <2> HIDE DEF T
  <2> QED BY <1>1, <1>2, <2>1, EveryNat
<1>4. m \in T /\ m <= m /\ P[m] \in Int
  <2>1. m \in Nat /\ P[m] \in Int /\ m <= m
    BY Limits DEF Tally
  <2> HIDE DEF T
  <2> QED BY <1>3, <2>1
<1> QED BY <1>4

\* Where no fewer handlers are counted above m, the tally keeps the lead it has
\* at m.
LEMMA LeadKept ==
  ASSUME NEW A \in Profiles, NEW B \in Profiles, NEW P, NEW R, Tally(P, A), Tally(R, B),
         NEW m \in 0..MaxAttempts, NEW l \in Nat, P[m] + l <= R[m],
         \A d \in 1..MaxAttempts : m < d => A[d] <= B[d]
  PROVE  P[MaxAttempts] + l <= R[MaxAttempts]
<1> DEFINE T == {n \in Nat : m + n <= MaxAttempts => P[m + n] + l <= R[m + n]}
<1>1. 0 \in T
  BY Limits
<1>2. ASSUME NEW n \in T PROVE n + 1 \in T
  <2> SUFFICES ASSUME m + (n + 1) <= MaxAttempts
               PROVE  P[m + (n + 1)] + l <= R[m + (n + 1)]
    OBVIOUS
  <2> DEFINE e == m + (n + 1)
  <2>1. /\ e \in 1..MaxAttempts /\ m < e /\ e - 1 = m + n /\ m + n <= MaxAttempts
        /\ m + n \in 0..MaxAttempts /\ e \in 0..MaxAttempts
    BY Limits
  <2>2. P[m + n] + l <= R[m + n]
    BY <2>1
  <2>3. P[e] = P[m + n] + Gain(A[e], e) /\ R[e] = R[m + n] + Gain(B[e], e)
    BY <2>1 DEF Tally
  <2>4. A[e] <= B[e] /\ A[e] \in 0..Cardinality(Requests) /\ B[e] \in 0..Cardinality(Requests)
    BY <2>1 DEF Profiles
  <2>5. /\ Gain(A[e], e) <= Gain(B[e], e)
        /\ Gain(A[e], e) \in Int /\ Gain(B[e], e) \in Int
    <3> HIDE DEF e
    <3> QED BY <2>1, <2>4, GainGrows
  <2>6. P[m + n] \in Int /\ R[m + n] \in Int /\ P[e] \in Int /\ R[e] \in Int
    BY <2>1 DEF Tally
  <2> QED BY <2>2, <2>3, <2>5, <2>6
<1>3. T = Nat
  <2>1. T \in SUBSET Nat
    OBVIOUS
  <2> HIDE DEF T
  <2> QED BY <1>1, <1>2, <2>1, EveryNat
<1>4. MaxAttempts - m \in Nat /\ m + (MaxAttempts - m) = MaxAttempts
  BY Limits
<1>5. MaxAttempts <= MaxAttempts
  BY Limits
<1> QED BY <1>3, <1>4, <1>5

\* One more handler at m pays for one more guess.
LEMMA OneMorePaid ==
  ASSUME NEW A \in Profiles, NEW B \in Profiles, NEW P, NEW R, Tally(P, A), Tally(R, B),
         NEW m \in 1..MaxAttempts,
         \A d \in 1..MaxAttempts : d < m => A[d] <= A[m],
         A[m] + 1 <= B[m]
  PROVE  P[m] + 1 <= R[m]
<1>1. /\ m - 1 \in 0..MaxAttempts /\ m \in 0..MaxAttempts
      /\ A[m] \in 0..Cardinality(Requests) /\ B[m] \in 0..Cardinality(Requests)
  BY Limits DEF Profiles
<1>2. P[m] = P[m - 1] + Gain(A[m], m) /\ R[m] = R[m - 1] + Gain(B[m], m)
  BY DEF Tally
<1>3. P[m - 1] <= Guesses(A[m], m - 1) /\ P[m - 1] \in Int
  <2>1. \A d \in 1..MaxAttempts : d <= m - 1 => A[d] <= A[m]
    <3> SUFFICES ASSUME NEW d \in 1..MaxAttempts, d <= m - 1 PROVE d < m
      OBVIOUS
    <3> QED BY Limits
  <2> QED BY <1>1, <2>1, TallyBounded
<1>4. 0 <= R[m - 1] /\ R[m - 1] \in Int
  <2>1. Cardinality(Requests) \in 0..Cardinality(Requests)
    BY Limits
  <2>2. \A d \in 1..MaxAttempts : d <= m - 1 => B[d] <= Cardinality(Requests)
    BY Limits DEF Profiles
  <2> QED BY <1>1, <2>1, <2>2, TallyBounded
<1>5. Gain(B[m], m) >= Guesses(A[m], m) + 1
  <2> DEFINE a == A[m]
             b == B[m]
  <2>1. b \in 1..Cardinality(Requests) /\ b - 1 \in 0..Cardinality(Requests) /\ a <= b - 1
    BY <1>1, Limits
  <2>2. Gain(b, m) = Guesses(b - 1, m) + 1
    <3> HIDE DEF b
    <3> QED BY <2>1, GainValues
  <2>3. Guesses(a, m) <= Guesses(b - 1, m)
    <3> HIDE DEF a, b
    <3>1. a \in 0..Cardinality(Requests)
      BY <1>1 DEF a
    <3> QED BY <1>1, <2>1, <3>1, GuessesGrow
  <2>4. Guesses(a, m) \in Nat /\ Guesses(b - 1, m) \in Nat
    BY <1>1, <2>1, GuessesNat
  <2> QED BY <2>2, <2>3, <2>4
<1>6. Gain(A[m], m) = Guesses(A[m], m) - Guesses(A[m], m - 1)
  BY DEF Gain
<1>7. /\ Guesses(A[m], m) \in Nat /\ Guesses(A[m], m - 1) \in Nat
      /\ Gain(B[m], m) \in Int
  BY <1>1, GuessesNat, GainValues
<1> QED BY <1>2, <1>3, <1>4, <1>5, <1>6, <1>7

-----------------------------------------------------------------------------
\* The readings H of the handlers, as a profile.
Low(H, d) == {r \in Requests : H[r] + d > MaxAttempts}

ProfileOf(H) == [d \in 1..MaxAttempts |-> Cardinality(Low(H, d))]

AllReadings == [Requests -> 0..MaxAttempts]

LEMMA LowCounted ==
  ASSUME NEW H, NEW d
  PROVE  /\ IsFiniteSet(Low(H, d))
         /\ Cardinality(Low(H, d)) \in 0..Cardinality(Requests)
<1>1. Low(H, d) \subseteq Requests
  BY DEF Low
<1>2. /\ IsFiniteSet(Low(H, d)) /\ Cardinality(Low(H, d)) <= Cardinality(Requests)
      /\ Cardinality(Low(H, d)) \in Nat
  BY <1>1, RequestsAssumption, FS_Subset, FS_CardinalityType
<1> QED BY <1>2, Limits

LEMMA ProfileTyped ==
  ASSUME NEW H
  PROVE  ProfileOf(H) \in Profiles
BY LowCounted DEF ProfileOf, Profiles

\* Readings that only grow lose nothing.
LEMMA ReadingsUp ==
  ASSUME NEW H \in AllReadings, NEW K \in AllReadings, \A r \in Requests : H[r] <= K[r],
         NEW P, Tally(P, ProfileOf(H))
  PROVE  \E R : Tally(R, ProfileOf(K)) /\ P[MaxAttempts] <= R[MaxAttempts]
<1> DEFINE A == ProfileOf(H)
           B == ProfileOf(K)
<1>1. ASSUME NEW d \in 1..MaxAttempts PROVE A[d] <= B[d]
  <2>1. Low(H, d) \subseteq Low(K, d)
    <3> SUFFICES ASSUME NEW r \in Requests, H[r] + d > MaxAttempts PROVE K[r] + d > MaxAttempts
      BY DEF Low
    <3>1. H[r] \in 0..MaxAttempts /\ K[r] \in 0..MaxAttempts /\ H[r] <= K[r]
      BY DEF AllReadings
    <3> QED BY <3>1, Limits
  <2>2. Cardinality(Low(H, d)) <= Cardinality(Low(K, d))
    BY <2>1, LowCounted, FS_Subset
  <2> QED BY <2>2 DEF ProfileOf
<1>2. A \in Profiles /\ B \in Profiles
  BY ProfileTyped
<1>3. PICK R : Tally(R, B)
  <2> HIDE DEF B
  <2> QED BY <1>2, TallyExists
<1>4. P[0] + 0 <= R[0] /\ 0 \in 0..MaxAttempts /\ 0 \in Nat
  BY <1>3, Limits DEF Tally
<1>5. P[MaxAttempts] + 0 <= R[MaxAttempts]
  <2>1. Tally(P, A)
    OBVIOUS
  <2>2. \A d \in 1..MaxAttempts : 0 < d => A[d] <= B[d]
    BY <1>1
  <2> HIDE DEF A, B
  <2> QED BY <1>2, <1>3, <1>4, <2>1, <2>2, LeadKept
<1>6. P[MaxAttempts] \in Int
  BY Limits DEF Tally
<1> QED BY <1>3, <1>5, <1>6

\* The commit of a miss read at h: the writer's reading rises to h + 1, and no
\* other falls below what it was but those above h + 1.  One more handler reads
\* past h, and that pays for the guess.
LEMMA MissPaid ==
  ASSUME NEW H \in AllReadings, NEW K \in AllReadings,
         NEW h \in 0..MaxAttempts, h < MaxAttempts,
         NEW r \in Requests, H[r] <= h, K[r] = h + 1,
         \A q \in Requests : H[q] <= K[q] \/ h + 1 <= K[q],
         NEW P, Tally(P, ProfileOf(H))
  PROVE  \E R : Tally(R, ProfileOf(K)) /\ P[MaxAttempts] + 1 <= R[MaxAttempts]
<1> DEFINE A == ProfileOf(H)
           B == ProfileOf(K)
           m == MaxAttempts - h
<1>0. m \in 1..MaxAttempts /\ m \in 0..MaxAttempts
  BY Limits
<1>1. \A q \in Requests : H[q] \in 0..MaxAttempts /\ K[q] \in 0..MaxAttempts
  BY DEF AllReadings
<1>2. ASSUME NEW d \in 1..MaxAttempts, m < d PROVE A[d] <= B[d]
  <2>1. Low(H, d) \subseteq Low(K, d)
    <3> SUFFICES ASSUME NEW q \in Requests, H[q] + d > MaxAttempts PROVE K[q] + d > MaxAttempts
      BY DEF Low
    <3> QED BY <1>1, <1>2, Limits
  <2>2. Cardinality(Low(H, d)) <= Cardinality(Low(K, d))
    BY <2>1, LowCounted, FS_Subset
  <2> QED BY <2>2 DEF ProfileOf
<1>3. A[m] + 1 <= B[m]
  <2>1. r \notin Low(H, m)
    <3> SUFFICES ASSUME H[r] + m > MaxAttempts PROVE FALSE
      BY DEF Low
    <3> QED BY <1>1, Limits
  <2>2. Low(H, m) \cup {r} \subseteq Low(K, m)
    <3>1. r \in Low(K, m)
      <4>1. K[r] + m > MaxAttempts
        BY Limits
      <4> QED BY <4>1 DEF Low
    <3>2. ASSUME NEW q \in Requests, H[q] + m > MaxAttempts PROVE K[q] + m > MaxAttempts
      BY <1>1, <3>2, Limits
    <3>3. Low(H, m) \subseteq Low(K, m)
      BY <3>2 DEF Low
    <3> QED BY <3>1, <3>3
  <2>3. Cardinality(Low(H, m) \cup {r}) = Cardinality(Low(H, m)) + 1
    <3> HIDE DEF m
    <3> QED BY <2>1, LowCounted, FS_AddElement
  <2>4. Cardinality(Low(H, m) \cup {r}) <= Cardinality(Low(K, m))
    <3> HIDE DEF m
    <3> QED BY <2>2, LowCounted, FS_Subset
  <2>5. A[m] = Cardinality(Low(H, m)) /\ B[m] = Cardinality(Low(K, m))
    BY <1>0 DEF ProfileOf
  <2> QED BY <2>3, <2>4, <2>5
<1>4. ASSUME NEW d \in 1..MaxAttempts, d < m PROVE A[d] <= A[m]
  <2>1. Low(H, d) \subseteq Low(H, m)
    <3> SUFFICES ASSUME NEW q \in Requests, H[q] + d > MaxAttempts PROVE H[q] + m > MaxAttempts
      BY DEF Low
    <3> QED BY <1>1, <1>4, Limits
  <2>2. Cardinality(Low(H, d)) <= Cardinality(Low(H, m))
    <3> HIDE DEF m
    <3> QED BY <2>1, LowCounted, FS_Subset
  <2>3. A[d] = Cardinality(Low(H, d)) /\ A[m] = Cardinality(Low(H, m))
    BY <1>0 DEF ProfileOf
  <2> QED BY <2>2, <2>3
<1>5. A \in Profiles /\ B \in Profiles
  BY ProfileTyped
<1>6. PICK R : Tally(R, B)
  <2> HIDE DEF B
  <2> QED BY <1>5, TallyExists
<1>7. Tally(P, A)
  OBVIOUS
<1> HIDE DEF A, B, m
<1>8. P[m] + 1 <= R[m]
  BY <1>0, <1>3, <1>4, <1>5, <1>6, <1>7, OneMorePaid
<1>9. P[MaxAttempts] + 1 <= R[MaxAttempts]
  BY <1>0, <1>2, <1>5, <1>6, <1>7, <1>8, LeadKept
<1> QED BY <1>6, <1>9 DEF B

CounterOf(x) == IF x.exists THEN x.attempts ELSE 0

ReadingOf(l, i, c) ==
    IF l.pc = "miss" /\ l.row = i /\ l.attempts < c THEN l.attempts ELSE c

Readings(i) == [r \in Requests |-> ReadingOf(req[r], i, CounterOf(rows[i]))]

Paid ==
    \A i \in RowIds :
        \E P : Tally(P, ProfileOf(Readings(i))) /\ missed[i] <= P[MaxAttempts]

Charged == Typed /\ Paid

LEMMA CounterValues ==
  ASSUME NEW x \in CodeRow \cup {NoRow}
  PROVE  CounterOf(x) \in 0..MaxAttempts
<1>1. CASE x \in CodeRow
  <2>1. x.attempts \in 0..MaxAttempts
    BY <1>1 DEF CodeRow
  <2> QED BY <2>1, Limits DEF CounterOf
<1>2. CASE x = NoRow
  <2>1. ~x.exists
    BY <1>2 DEF NoRow
  <2> QED BY <2>1, Limits DEF CounterOf
<1> QED BY <1>1, <1>2

LEMMA ReadingValues ==
  ASSUME NEW l \in Issuing \cup Judged \cup {Idle}, NEW i, NEW c \in 0..MaxAttempts
  PROVE  /\ ReadingOf(l, i, c) \in 0..MaxAttempts
         /\ ReadingOf(l, i, c) <= c
<1>1. l.pc = "miss" => l.attempts \in 0..MaxAttempts
  BY DEF Issuing, Judged, Idle
<1> QED BY <1>1, Limits DEF ReadingOf

LEMMA ReadingsTyped ==
  ASSUME Typed, Typed', NEW i \in RowIds
  PROVE  Readings(i) \in AllReadings /\ Readings(i)' \in AllReadings
<1>1. /\ rows[i] \in CodeRow \cup {NoRow} /\ rows'[i] \in CodeRow \cup {NoRow}
      /\ \A r \in Requests : /\ req[r] \in Issuing \cup Judged \cup {Idle}
                             /\ req'[r] \in Issuing \cup Judged \cup {Idle}
  BY DEF Typed, TypeOK
<1>2. CounterOf(rows[i]) \in 0..MaxAttempts /\ CounterOf(rows'[i]) \in 0..MaxAttempts
  BY <1>1, CounterValues
<1> QED BY <1>1, <1>2, ReadingValues DEF Readings, AllReadings

\* A step that counts no miss on a row and lowers nobody's reading of it.
LEMMA NothingSpent ==
  ASSUME Charged, Typed', NEW i \in RowIds, missed'[i] = missed[i],
         \A r \in Requests : Readings(i)[r] <= Readings(i)'[r]
  PROVE  \E P : Tally(P, ProfileOf(Readings(i)')) /\ missed'[i] <= P[MaxAttempts]
<1>1. PICK P : Tally(P, ProfileOf(Readings(i))) /\ missed[i] <= P[MaxAttempts]
  BY DEF Charged, Paid
<1>2. Readings(i) \in AllReadings /\ Readings(i)' \in AllReadings
  BY ReadingsTyped DEF Charged
<1>3. PICK R : Tally(R, ProfileOf(Readings(i)')) /\ P[MaxAttempts] <= R[MaxAttempts]
  <2> DEFINE H == Readings(i)
             K == Readings(i)'
  <2>1. H \in AllReadings /\ K \in AllReadings /\ Tally(P, ProfileOf(H))
    BY <1>1, <1>2
  <2>2. \A r \in Requests : H[r] <= K[r]
    OBVIOUS
  <2>3. \E R : Tally(R, ProfileOf(K)) /\ P[MaxAttempts] <= R[MaxAttempts]
    <3> HIDE DEF H, K
    <3> QED BY <2>1, <2>2, ReadingsUp
  <2> QED BY <2>3
<1>4. P[MaxAttempts] \in Int /\ R[MaxAttempts] \in Int /\ missed[i] \in Int
  BY <1>1, <1>3, Limits DEF Tally, Charged, Typed, TypeOK
<1>5. missed'[i] <= R[MaxAttempts]
  BY <1>1, <1>3, <1>4
<1> QED BY <1>3, <1>5

\* Every handler keeps what it holds, lets it go, or reads the counter anew.
LEMMA ReadingKept ==
  ASSUME NEW l, NEW k \in Issuing \cup Judged \cup {Idle}, NEW i, NEW c \in 0..MaxAttempts,
         l \in Issuing \cup Judged \cup {Idle},
         k = l \/ k.pc # "miss" \/ k.row # i \/ k.attempts = c
  PROVE  ReadingOf(l, i, c) <= ReadingOf(k, i, c)
<1>1. ReadingOf(l, i, c) <= c /\ ReadingOf(l, i, c) \in 0..MaxAttempts
  BY ReadingValues
<1>2. CASE k = l
  BY <1>1, <1>2
<1>3. CASE k.pc # "miss" \/ k.row # i \/ k.attempts = c
  <2>1. ReadingOf(k, i, c) = c
    BY <1>3 DEF ReadingOf
  <2> QED BY <1>1, <2>1
<1> QED BY <1>2, <1>3

LEMMA QuietRow ==
  ASSUME Charged, Typed', NEW i \in RowIds, missed'[i] = missed[i],
         CounterOf(rows'[i]) = CounterOf(rows[i]),
         \A r \in Requests : \/ req'[r] = req[r]
                             \/ req'[r].pc # "miss"
                             \/ req'[r].row # i
                             \/ req'[r].attempts = CounterOf(rows[i])
  PROVE  \E P : Tally(P, ProfileOf(Readings(i)')) /\ missed'[i] <= P[MaxAttempts]
<1>1. ASSUME NEW r \in Requests PROVE Readings(i)[r] <= Readings(i)'[r]
  <2>1. /\ req[r] \in Issuing \cup Judged \cup {Idle}
        /\ req'[r] \in Issuing \cup Judged \cup {Idle}
        /\ CounterOf(rows[i]) \in 0..MaxAttempts
    BY CounterValues DEF Charged, Typed, TypeOK
  <2>2. ReadingOf(req[r], i, CounterOf(rows[i])) <= ReadingOf(req'[r], i, CounterOf(rows[i]))
    BY <2>1, ReadingKept
  <2> QED BY <2>2 DEF Readings
<1> QED BY <1>1, NothingSpent

LEMMA PaidStep == Charged /\ [Next]_vars => Charged'
<1> SUFFICES ASSUME Charged, [Next]_vars PROVE Paid'
  BY TypedStep DEF Charged
<1> DEFINE PaidFor(i) ==
             \E P : Tally(P, ProfileOf(Readings(i)')) /\ missed'[i] <= P[MaxAttempts]
<1>0. Typed /\ Typed' /\ req \in [Requests -> Issuing \cup Judged \cup {Idle}]
  BY TypedStep DEF Charged, Typed, TypeOK
<1> SUFFICES ASSUME NEW i \in RowIds PROVE PaidFor(i)
  BY DEF Paid
<1> HIDE DEF PaidFor
<1>a. ASSUME missed'[i] = missed[i], CounterOf(rows'[i]) = CounterOf(rows[i]),
             \A r \in Requests : \/ req'[r] = req[r]
                                 \/ req'[r].pc # "miss"
                                 \/ req'[r].row # i
                                 \/ req'[r].attempts = CounterOf(rows[i])
      PROVE  PaidFor(i)
  BY <1>0, <1>a, QuietRow DEF PaidFor
<1>1. ASSUME NEW r \in Requests, Stamp(r) PROVE PaidFor(i)
  BY <1>0, <1>a, <1>1 DEF Stamp
<1>2. ASSUME NEW r \in Requests, Issue(r) PROVE PaidFor(i)
  <2>1. PICK n \in RowIds :
          /\ rows[n] = NoRow
          /\ rows' = [rows EXCEPT ![n] =
                [exists |-> TRUE, key |-> req[r].key, created |-> req[r].created,
                 attempts |-> 0, consumed |-> FALSE]]
    BY <1>2 DEF Issue
  <2>2. CounterOf(rows'[i]) = CounterOf(rows[i])
    BY <2>1 DEF CounterOf, NoRow, Charged, Typed, TypeOK
  <2> QED BY <1>0, <1>a, <1>2, <2>2 DEF Issue, Respond, Idle
<1>3. ASSUME NEW r \in Requests, Judge(r) PROVE PaidFor(i)
  <2>1. PICK k \in Keys, guess \in RowIds \cup {Wrong} :
          \E n \in NewestOf(k) :
            req' = [req EXCEPT ![r] =
                    [pc |-> IF guess = n THEN "hit" ELSE "miss", row |-> n,
                     attempts |-> rows[n].attempts]]
    BY <1>3 DEF Judge
  <2>2. PICK n \in NewestOf(k) :
          req' = [req EXCEPT ![r] =
                  [pc |-> IF guess = n THEN "hit" ELSE "miss", row |-> n,
                   attempts |-> rows[n].attempts]]
    BY <2>1
  <2>3. rows[n].exists
    BY DEF NewestOf, Unconsumed
  <2>4. req'[r].row # i \/ req'[r].attempts = CounterOf(rows[i])
    BY <1>0, <2>2, <2>3 DEF CounterOf
  <2>5. \A q \in Requests : q # r => req'[q] = req[q]
    BY <1>0, <2>2
  <2> QED BY <1>a, <1>3, <2>4, <2>5 DEF Judge
<1>4. ASSUME NEW r \in Requests, CommitMiss(r) PROVE PaidFor(i)
  <2>1. /\ req[r].pc = "miss" /\ req' = [req EXCEPT ![r] = Idle]
        /\ missed' = [missed EXCEPT ![req[r].row] = @ + 1]
    BY <1>4 DEF CommitMiss, Respond
  <2>2. PICK x \in CodeRow :
          /\ rows' = [rows EXCEPT ![req[r].row] = x] /\ x.exists
          /\ x.attempts = req[r].attempts + 1
    BY <1>0, <1>4, MissWrites
  <2>3. CASE i # req[r].row
    <3>1. missed'[i] = missed[i] /\ CounterOf(rows'[i]) = CounterOf(rows[i])
      BY <1>0, <2>1, <2>2, <2>3 DEF Typed, TypeOK
    <3> QED BY <1>0, <1>a, <2>1, <3>1 DEF Idle
  <2>4. CASE i = req[r].row
    <3> DEFINE H == Readings(i)
               K == Readings(i)'
               h == req[r].attempts
               c == CounterOf(rows[i])
    <3>1. h \in 0..MaxAttempts /\ h < MaxAttempts
      BY <1>0, <2>1, HeldRow DEF Typed, HoldersAreSound
    <3>2. H \in AllReadings /\ K \in AllReadings
      BY <1>0, ReadingsTyped
    <3>3. CounterOf(rows'[i]) = h + 1
      BY <1>0, <2>2, <2>4 DEF CounterOf, Typed, TypeOK
    <3>4. c \in 0..MaxAttempts
      BY <1>0, CounterValues DEF Typed, TypeOK
    <3>5. H[r] <= h
      <4>1. H[r] = IF h < c THEN h ELSE c
        BY <2>1, <2>4 DEF Readings, ReadingOf
      <4> HIDE DEF h, c, H
      <4> QED BY <3>1, <3>4, <4>1
    <3>6. K[r] = h + 1
      <4>1. req'[r] = Idle
        BY <1>0, <2>1
      <4> QED BY <3>3, <4>1 DEF Readings, ReadingOf, Idle
    <3>7. ASSUME NEW q \in Requests PROVE H[q] <= K[q] \/ h + 1 <= K[q]
      <4>1. CASE q = r
        BY <3>1, <3>6, <4>1
      <4>2. CASE q # r
        <5>1. req'[q] = req[q] /\ req[q] \in Issuing \cup Judged \cup {Idle}
          BY <1>0, <2>1, <4>2
        <5>2. H[q] = ReadingOf(req[q], i, c) /\ K[q] = ReadingOf(req[q], i, h + 1)
          BY <3>3, <5>1 DEF Readings
        <5>3. CASE req[q].pc = "miss" /\ req[q].row = i
          <6> DEFINE g == req[q].attempts
          <6>1. g \in 0..MaxAttempts
            BY <1>0, <5>3, HeldRow
          <6>2. /\ H[q] = IF g < c THEN g ELSE c
                /\ K[q] = IF g < h + 1 THEN g ELSE h + 1
            BY <5>2, <5>3 DEF ReadingOf
          <6> HIDE DEF g, h, c, H, K
          <6> QED BY <3>1, <3>4, <6>1, <6>2
        <5>4. CASE ~(req[q].pc = "miss" /\ req[q].row = i)
          <6>1. K[q] = h + 1
            BY <5>2, <5>4 DEF ReadingOf
          <6> QED BY <3>1, <6>1
        <5> QED BY <5>3, <5>4
      <4> QED BY <4>1, <4>2
    <3>8. PICK P : Tally(P, ProfileOf(H)) /\ missed[i] <= P[MaxAttempts]
      BY DEF Charged, Paid
    <3>9. PICK R : Tally(R, ProfileOf(K)) /\ P[MaxAttempts] + 1 <= R[MaxAttempts]
      <4> HIDE DEF H, K, h
      <4> QED BY <3>1, <3>2, <3>5, <3>6, <3>7, <3>8, MissPaid
    <3>10. missed'[i] = missed[i] + 1 /\ missed[i] \in Nat
      BY <1>0, <2>1, <2>4 DEF Typed, TypeOK
    <3>11. P[MaxAttempts] \in Int /\ R[MaxAttempts] \in Int
      BY <3>8, <3>9, Limits DEF Tally
    <3>12. missed'[i] <= R[MaxAttempts]
      BY <3>8, <3>9, <3>10, <3>11
    <3> QED BY <3>9, <3>12 DEF PaidFor
  <2> QED BY <2>3, <2>4
<1>5. ASSUME NEW r \in Requests, CommitHit(r) PROVE PaidFor(i)
  <2>1. PICK x \in CodeRow :
          /\ rows' = [rows EXCEPT ![req[r].row] = x] /\ x.exists
          /\ x.attempts = rows[req[r].row].attempts
    BY <1>0, <1>5, HitWrites
  <2>2. req[r].row \in RowIds /\ rows[req[r].row].exists
    BY <1>0, <1>5, HeldRow DEF CommitHit, Typed, HoldersAreSound
  <2>3. CounterOf(rows'[i]) = CounterOf(rows[i])
    BY <1>0, <2>1, <2>2 DEF CounterOf, Typed, TypeOK
  <2> QED BY <1>0, <1>a, <1>5, <2>3 DEF CommitHit, Respond, Idle
<1>6. ASSUME NEW r \in Requests, Abort(r) PROVE PaidFor(i)
  BY <1>0, <1>a, <1>6 DEF Abort, Respond, Idle
<1>7. CASE Tick
  BY <1>a, <1>7 DEF Tick
<1>8. CASE UNCHANGED vars
  BY <1>a, <1>8 DEF vars
<1> QED BY <1>1, <1>2, <1>3, <1>4, <1>5, <1>6, <1>7, <1>8 DEF Next

LEMMA PaidInit == Init => Charged
<1> SUFFICES ASSUME Init, NEW i \in RowIds
             PROVE  \E P : Tally(P, ProfileOf(Readings(i))) /\ missed[i] <= P[MaxAttempts]
  BY TypedInit DEF Charged, Paid
<1> DEFINE A == ProfileOf(Readings(i))
<1>1. A \in Profiles
  BY ProfileTyped
<1>2. PICK P : Tally(P, A)
  <2> HIDE DEF A
  <2> QED BY <1>1, TallyExists
<1>3. 0 <= P[MaxAttempts]
  <2>1. /\ Cardinality(Requests) \in 0..Cardinality(Requests)
        /\ MaxAttempts \in 0..MaxAttempts
        /\ \A d \in 1..MaxAttempts : A[d] <= Cardinality(Requests)
    <3> HIDE DEF A
    <3> QED BY <1>1, Limits DEF Profiles
  <2> HIDE DEF A
  <2> QED BY <1>1, <1>2, <2>1, TallyBounded
<1>4. missed[i] = 0
  BY DEF Init
<1> QED BY <1>2, <1>3, <1>4

LEMMA PaidAlways == Spec => []Charged
BY PaidInit, PaidStep, PTL DEF Spec

\* However the handlers of one code overwrite each other's count, verify_otp
\* answers no more wrong guesses on it than Guesses gives for all of them and
\* otp_max_attempts.
THEOREM GuessCeilingHolds == Spec => []GuessCeiling
<1>1. Charged => GuessCeiling
  <2> SUFFICES ASSUME Charged, NEW i \in RowIds
               PROVE  missed[i] <= Guesses(Cardinality(Requests), MaxAttempts)
    BY DEF GuessCeiling
  <2> DEFINE A == ProfileOf(Readings(i))
  <2>1. PICK P : Tally(P, A) /\ missed[i] <= P[MaxAttempts]
    BY DEF Charged, Paid
  <2>2. A \in Profiles
    BY ProfileTyped
  <2>3. /\ Cardinality(Requests) \in 0..Cardinality(Requests)
        /\ MaxAttempts \in 0..MaxAttempts
        /\ \A d \in 1..MaxAttempts : A[d] <= Cardinality(Requests)
    <3> HIDE DEF A
    <3> QED BY <2>2, Limits DEF Profiles
  <2>4. P[MaxAttempts] <= Guesses(Cardinality(Requests), MaxAttempts) /\ P[MaxAttempts] \in Int
    <3> HIDE DEF A
    <3> QED BY <2>1, <2>2, <2>3, TallyBounded
  <2>5. missed[i] \in Nat /\ Guesses(Cardinality(Requests), MaxAttempts) \in Nat
    BY <2>3, GuessesNat DEF Charged, Typed, TypeOK
  <2> QED BY <2>1, <2>4, <2>5
<1> QED BY <1>1, PaidAlways, PTL

\* What the ceiling comes to for few handlers: one is held to the maximum, and
\* two can guess a * (a + 3) / 2 times, nine times where the README says three.
THEOREM GuessesOfFew ==
  ASSUME NEW a \in 0..MaxAttempts
  PROVE  /\ Cardinality(Requests) >= 1 => Guesses(1, a) = a
         /\ Cardinality(Requests) >= 2 => 2 * Guesses(2, a) = a * (a + 3)
<1>1. ASSUME Cardinality(Requests) >= 1, NEW x \in 0..MaxAttempts PROVE Guesses(1, x) = x
  <2> DEFINE T == {n \in Nat : n <= MaxAttempts => Guesses(1, n) = n}
  <2>0. 0 \in 0..Cardinality(Requests) /\ 1 \in 0..Cardinality(Requests)
    BY <1>1, Limits
  <2>1. 0 \in T
    BY <2>0, GuessesUnfold, Limits
  <2>2. ASSUME NEW n \in T PROVE n + 1 \in T
    <3> SUFFICES ASSUME n + 1 <= MaxAttempts PROVE Guesses(1, n + 1) = n + 1
      OBVIOUS
    <3> DEFINE e == n + 1
    <3>1. e \in 0..MaxAttempts /\ e # 0 /\ e - 1 = n /\ n <= MaxAttempts
      BY Limits
    <3>2. Guesses(1, e) = Guesses(1 - 1, e) + 1 + Guesses(1, e - 1) /\ Guesses(0, e) = 0
      <4> HIDE DEF e
      <4> QED BY <2>0, <3>1, GuessesUnfold
    <3>3. Guesses(1, n) = n
      BY <3>1
    <3> QED BY <3>1, <3>2, <3>3
  <2>3. T = Nat
    <3>1. T \in SUBSET Nat
      OBVIOUS
    <3> HIDE DEF T
    <3> QED BY <2>1, <2>2, <3>1, EveryNat
  <2> QED BY <2>3, Limits
<1>2. ASSUME Cardinality(Requests) >= 2, NEW x \in 0..MaxAttempts
      PROVE  2 * Guesses(2, x) = x * (x + 3)
  <2> DEFINE T == {n \in Nat : n <= MaxAttempts => 2 * Guesses(2, n) = n * (n + 3)}
  <2>0. /\ 2 \in 0..Cardinality(Requests) /\ 1 \in 0..Cardinality(Requests)
        /\ Cardinality(Requests) >= 1
    BY <1>2, Limits
  <2>1. 0 \in T
    <3>1. Guesses(2, 0) = 0
      BY <2>0, GuessesUnfold, Limits
    <3> QED BY <3>1
  <2>2. ASSUME NEW n \in T PROVE n + 1 \in T
    <3> SUFFICES ASSUME n + 1 <= MaxAttempts
                 PROVE  2 * Guesses(2, n + 1) = (n + 1) * ((n + 1) + 3)
      OBVIOUS
    <3> DEFINE e == n + 1
    <3>1. e \in 0..MaxAttempts /\ e # 0 /\ e - 1 = n /\ n <= MaxAttempts /\ n \in 0..MaxAttempts
      BY Limits
    <3>2. Guesses(2, e) = Guesses(2 - 1, e) + 1 + Guesses(2, e - 1)
      <4> HIDE DEF e
      <4> QED BY <2>0, <3>1, GuessesUnfold
    <3>3. Guesses(1, e) = e
      <4> HIDE DEF e
      <4> QED BY <1>1, <2>0, <3>1
    <3>4. 2 * Guesses(2, n) = n * (n + 3)
      BY <3>1
    <3>5. Guesses(2, n) \in Nat
      BY <2>0, <3>1, GuessesNat
    <3>6. Guesses(2, e) = (n + 1) + 1 + Guesses(2, n)
      BY <3>1, <3>2, <3>3
    <3>7. 2 * Guesses(2, e) = 2 * Guesses(2, n) + 2 * n + 4
      BY <3>5, <3>6
    <3>8. (n + 1) * ((n + 1) + 3) = n * (n + 3) + 2 * n + 4
      OBVIOUS
    <3> QED BY <3>4, <3>7, <3>8
  <2>3. T = Nat
    <3>1. T \in SUBSET Nat
      OBVIOUS
    <3> HIDE DEF T
    <3> QED BY <2>1, <2>2, <3>1, EveryNat
  <2> QED BY <2>3, Limits
<1> QED BY <1>1, <1>2

=============================================================================
