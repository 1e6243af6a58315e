--------------------------- MODULE RateLimitProofs ---------------------------
(***************************************************************************)
(* Theorems about RateLimit, for every set of handlers, keys and row ids,  *)
(* every limit and every window.                                           *)
(***************************************************************************)
EXTENDS RateLimit, FiniteSetTheorems, TLAPS

(***************************************************************************)
(* Type correctness, and with it that the table never becomes infinite, so *)
(* that the limiter's count is a number.                                   *)
(***************************************************************************)
TypedTable == TypeOK /\ IsFiniteSet(rows)

\* Every reachable state has the declared types and a finite table: the
\* records enforce_rate_limit and its callers keep are well formed.
THEOREM TableIsTyped == Spec => []TypedTable
<1>1. Init => TypedTable
  BY TimeAssumption, FS_EmptySet DEF Init, TypedTable, TypeOK, Idle, Pending, Row
<1>2. TypedTable /\ [Next]_vars => TypedTable'
  <2> SUFFICES ASSUME TypedTable, [Next]_vars PROVE TypedTable'
    OBVIOUS
  <2> USE TimeAssumption DEF TypedTable, TypeOK, Idle, Pending, Row
  <2>1. ASSUME NEW r \in Requests, Arrive(r) PROVE TypedTable'
    BY <2>1 DEF Arrive
  <2>2. ASSUME NEW r \in Requests, Count(r) PROVE TypedTable'
    BY <2>2 DEF Count
  <2>3. ASSUME NEW r \in Requests, Insert(r) PROVE TypedTable'
    <3>1. PICK i \in RowIds, c \in req[r].at .. now :
            rows' = rows \cup {[id |-> i, key |-> req[r].key, created |-> c]}
      BY <2>3 DEF Insert
    <3>2. IsFiniteSet(rows')
      BY <3>1, FS_AddElement
    <3>3. TypeOK'
      BY <2>3, <3>1 DEF Insert
    <3> QED BY <3>2, <3>3
  <2>4. ASSUME NEW r \in Requests, Abort(r) PROVE TypedTable'
    BY <2>4 DEF Abort
  <2>5. ASSUME Tick PROVE TypedTable'
    BY <2>5 DEF Tick
  <2>6. CASE UNCHANGED vars
    BY <2>6 DEF vars
  <2> QED BY <2>1, <2>2, <2>3, <2>4, <2>5, <2>6 DEF Next
<1> QED BY <1>1, <1>2, PTL DEF Spec

\* Type correctness of the limiter.
THEOREM TypeCorrect == Spec => []TypeOK
<1>1. TypedTable => TypeOK
  BY DEF TypedTable
<1> QED BY <1>1, TableIsTyped, PTL

-----------------------------------------------------------------------------
(***************************************************************************)
(* Counting facts about the two sets the ceiling adds up.                  *)
(***************************************************************************)

\* A new row adds at most one to a count.
LEMMA AddingOne ==
  ASSUME NEW S, IsFiniteSet(S), NEW x
  PROVE  /\ IsFiniteSet(S \cup {x})
         /\ Cardinality(S \cup {x}) <= Cardinality(S) + 1
<1>1. Cardinality(S) \in Nat
  BY FS_CardinalityType
<1>2. /\ IsFiniteSet(S \cup {x})
      /\ Cardinality(S \cup {x}) =
            IF x \in S THEN Cardinality(S) ELSE Cardinality(S) + 1
  BY FS_AddElement
<1>3. CASE x \in S
  BY <1>1, <1>2, <1>3
<1>4. CASE x \notin S
  BY <1>1, <1>2, <1>4
<1> QED BY <1>2, <1>3, <1>4

\* Both sets are finite, and admitted handlers are no more than all handlers.
LEMMA Counted ==
  ASSUME TypedTable, NEW k \in Keys, NEW t \in Nat
  PROVE  /\ IsFiniteSet(RowsSince(k, t))
         /\ Cardinality(RowsSince(k, t)) \in Nat
         /\ IsFiniteSet(AdmittedFor(k))
         /\ Cardinality(AdmittedFor(k)) \in Nat
         /\ Cardinality(AdmittedFor(k)) <= Cardinality(Requests)
         /\ Cardinality(Requests) \in Nat
<1>1. RowsSince(k, t) \in SUBSET rows /\ AdmittedFor(k) \in SUBSET Requests
  BY DEF RowsSince, AdmittedFor
<1>2. IsFiniteSet(rows) /\ IsFiniteSet(Requests)
  BY RequestsAssumption DEF TypedTable
<1> QED BY <1>1, <1>2, FS_Subset, FS_CardinalityType

\* A later window holds no more rows than an earlier one.
LEMMA LaterWindowIsSmaller ==
  ASSUME TypedTable, NEW k \in Keys, NEW s \in Nat, NEW t \in Nat, s <= t
  PROVE  Cardinality(RowsSince(k, t)) <= Cardinality(RowsSince(k, s))
<1>1. RowsSince(k, t) \in SUBSET RowsSince(k, s)
  BY TimeAssumption DEF RowsSince, TypedTable, TypeOK, Row
<1> QED BY <1>1, Counted, FS_Subset

-----------------------------------------------------------------------------
Charged == TypedTable /\ ChargedCeiling

\* The step that needs the argument: a handler that passes the count saw
\* fewer than MaxRequests rows, in a window that reaches back at least as far
\* as the one trailing from now.
LEMMA CountKeepsCeiling ==
  ASSUME Charged, TypedTable', NEW r \in Requests, Count(r)
  PROVE  ChargedCeiling'
<1> SUFFICES ASSUME NEW k \in Keys
             PROVE  Cardinality(RowsSince(k, now)') + Cardinality(AdmittedFor(k)')
                        < MaxRequests + Cardinality(Requests)
  BY DEF ChargedCeiling, Count
<1>1. TypedTable /\ now \in Nat /\ now' = now /\ rows' = rows
  BY TimeAssumption DEF Charged, TypedTable, TypeOK, Count
<1>2. RowsSince(k, now)' = RowsSince(k, now)
  BY <1>1 DEF RowsSince
<1>3. CASE req[r].key = k /\ ~Refuses(k, req[r].at)
  <2>1. req[r].at \in Nat /\ req[r].at <= now
    BY <1>1, TimeAssumption DEF TypedTable, TypeOK, Count, Pending, Idle
  <2>2. Cardinality(RowsSince(k, req[r].at)) < MaxRequests
    BY <1>1, <1>3, <2>1, Counted, MaxAssumption DEF Refuses
  <2>3. Cardinality(RowsSince(k, now)) < MaxRequests
    <3>1. Cardinality(RowsSince(k, now)) <= Cardinality(RowsSince(k, req[r].at))
      BY <1>1, <2>1, LaterWindowIsSmaller
    <3> QED BY <1>1, <2>1, <2>2, <3>1, Counted, MaxAssumption
  <2>4. AdmittedFor(k)' \in SUBSET Requests
    BY DEF AdmittedFor
  <2>5. /\ Cardinality(AdmittedFor(k)') <= Cardinality(Requests)
        /\ Cardinality(AdmittedFor(k)') \in Nat
    BY <2>4, RequestsAssumption, FS_Subset, FS_CardinalityType
  <2> QED BY <1>1, <1>2, <2>3, <2>5, Counted, MaxAssumption
<1>4. CASE ~(req[r].key = k /\ ~Refuses(k, req[r].at))
  <2>1. AdmittedFor(k)' = AdmittedFor(k)
    BY <1>1, <1>4 DEF AdmittedFor, Count, TypedTable, TypeOK, Pending, Idle
  <2> QED BY <1>2, <2>1 DEF Charged, ChargedCeiling
<1> QED BY <1>3, <1>4

\* A commit moves one unit of the charge from the handlers to the table.
LEMMA InsertKeepsCeiling ==
  ASSUME Charged, TypedTable', NEW r \in Requests, Insert(r)
  PROVE  ChargedCeiling'
<1> SUFFICES ASSUME NEW k \in Keys
             PROVE  Cardinality(RowsSince(k, now)') + Cardinality(AdmittedFor(k)')
                        < MaxRequests + Cardinality(Requests)
  BY DEF ChargedCeiling, Insert
<1>1. TypedTable /\ now \in Nat /\ now' = now
  BY TimeAssumption DEF Charged, TypedTable, TypeOK, Insert
<1>2. PICK i \in RowIds, c \in req[r].at .. now :
        rows' = rows \cup {[id |-> i, key |-> req[r].key, created |-> c]}
  BY DEF Insert
<1> DEFINE new == [id |-> i, key |-> req[r].key, created |-> c]
<1>3. CASE req[r].key = k
  <2>1. /\ r \in AdmittedFor(k)
        /\ AdmittedFor(k)' = AdmittedFor(k) \ {r}
    BY <1>1, <1>3 DEF AdmittedFor, Insert, TypedTable, TypeOK, Pending, Idle
  <2>2. Cardinality(AdmittedFor(k)') = Cardinality(AdmittedFor(k)) - 1
    BY <1>1, <2>1, Counted, FS_RemoveElement
  <2>3. RowsSince(k, now)' \in SUBSET (RowsSince(k, now) \cup {new})
    BY <1>1, <1>2 DEF RowsSince
  <2>4. IsFiniteSet(RowsSince(k, now)) /\ Cardinality(RowsSince(k, now)) \in Nat
    BY <1>1, Counted
  <2> HIDE DEF new
  <2>5. /\ IsFiniteSet(RowsSince(k, now) \cup {new})
        /\ Cardinality(RowsSince(k, now) \cup {new})
                <= Cardinality(RowsSince(k, now)) + 1
    BY <2>4, AddingOne
  <2>6. /\ Cardinality(RowsSince(k, now)')
                <= Cardinality(RowsSince(k, now) \cup {new})
        /\ Cardinality(RowsSince(k, now)') \in Nat
        /\ Cardinality(RowsSince(k, now) \cup {new}) \in Nat
    BY <2>3, <2>5, FS_Subset, FS_CardinalityType
  <2> QED BY <1>1, <2>2, <2>4, <2>5, <2>6, Counted, MaxAssumption DEF Charged, ChargedCeiling
<1>4. CASE req[r].key # k
  <2>1. RowsSince(k, now)' = RowsSince(k, now)
    BY <1>1, <1>2, <1>4 DEF RowsSince
  <2>2. AdmittedFor(k)' = AdmittedFor(k)
    BY <1>1, <1>4 DEF AdmittedFor, Insert, TypedTable, TypeOK, Pending, Idle
  <2> QED BY <2>1, <2>2 DEF Charged, ChargedCeiling
<1> QED BY <1>3, <1>4

\* Every other step leaves the table alone and charges nobody.
LEMMA OthersKeepCeiling ==
  ASSUME Charged, TypedTable', rows' = rows, now' \in Nat, now <= now',
         \A k \in Keys : AdmittedFor(k)' \in SUBSET AdmittedFor(k)
  PROVE  ChargedCeiling'
<1> SUFFICES ASSUME NEW k \in Keys
             PROVE  Cardinality(RowsSince(k, now)') + Cardinality(AdmittedFor(k)')
                        < MaxRequests + Cardinality(Requests)
  BY DEF ChargedCeiling
<1>1. TypedTable /\ now \in Nat
  BY TimeAssumption DEF Charged, TypedTable, TypeOK
<1>2. RowsSince(k, now)' = RowsSince(k, now')
  BY DEF RowsSince
<1>3. /\ Cardinality(RowsSince(k, now')) <= Cardinality(RowsSince(k, now))
      /\ Cardinality(RowsSince(k, now')) \in Nat
  BY <1>1, LaterWindowIsSmaller, Counted
<1>4. /\ Cardinality(AdmittedFor(k)') <= Cardinality(AdmittedFor(k))
      /\ Cardinality(AdmittedFor(k)') \in Nat
  BY <1>1, Counted, FS_Subset, FS_CardinalityType
<1> QED BY <1>1, <1>2, <1>3, <1>4, Counted, MaxAssumption DEF Charged, ChargedCeiling

-----------------------------------------------------------------------------
\* The inductive invariant behind the ceiling: rows in the trailing window
\* plus handlers past the count stay below MaxRequests plus all handlers.
THEOREM ChargedCeilingHolds == Spec => []ChargedCeiling
<1>1. Init /\ TypedTable => ChargedCeiling
  <2> SUFFICES ASSUME Init, TypedTable, NEW k \in Keys
               PROVE  Cardinality(RowsSince(k, now)) + Cardinality(AdmittedFor(k))
                          < MaxRequests + Cardinality(Requests)
    BY DEF ChargedCeiling
  <2>1. RowsSince(k, now) = {} /\ AdmittedFor(k) = {}
    BY DEF Init, RowsSince, AdmittedFor, Idle
  <2>2. Cardinality(Requests) \in Nat
    BY RequestsAssumption, FS_CardinalityType
  <2> QED BY <2>1, <2>2, FS_EmptySet, MaxAssumption
<1>2. TypedTable /\ TypedTable' /\ ChargedCeiling /\ [Next]_vars => ChargedCeiling'
  <2> SUFFICES ASSUME TypedTable, TypedTable', ChargedCeiling, [Next]_vars
               PROVE  ChargedCeiling'
    OBVIOUS
  <2>0. Charged /\ now \in Nat /\ now' \in Nat
    BY TimeAssumption DEF Charged, TypedTable, TypeOK
  <2>1. ASSUME NEW r \in Requests, Arrive(r) PROVE ChargedCeiling'
    <3>1. \A k \in Keys : AdmittedFor(k)' \in SUBSET AdmittedFor(k)
      BY <2>1 DEF AdmittedFor, Arrive, TypedTable, TypeOK
    <3> QED BY <2>0, <2>1, <3>1, OthersKeepCeiling DEF Arrive
  <2>2. ASSUME NEW r \in Requests, Count(r) PROVE ChargedCeiling'
    BY <2>0, <2>2, CountKeepsCeiling
  <2>3. ASSUME NEW r \in Requests, Insert(r) PROVE ChargedCeiling'
    BY <2>0, <2>3, InsertKeepsCeiling
  <2>4. ASSUME NEW r \in Requests, Abort(r) PROVE ChargedCeiling'
    <3>1. \A k \in Keys : AdmittedFor(k)' \in SUBSET AdmittedFor(k)
      BY <2>4 DEF AdmittedFor, Abort, TypedTable, TypeOK, Idle
    <3> QED BY <2>0, <2>4, <3>1, OthersKeepCeiling DEF Abort
  <2>5. ASSUME Tick PROVE ChargedCeiling'
    <3>1. \A k \in Keys : AdmittedFor(k)' \in SUBSET AdmittedFor(k)
      BY <2>5 DEF AdmittedFor, Tick
    <3> QED BY <2>0, <2>5, <3>1, OthersKeepCeiling DEF Tick
  <2>6. CASE UNCHANGED vars
    BY <2>6 DEF vars, ChargedCeiling, RowsSince, AdmittedFor
  <2> QED BY <2>1, <2>2, <2>3, <2>4, <2>5, <2>6 DEF Next
<1> QED BY <1>1, <1>2, TableIsTyped, PTL DEF Spec

\* However many handlers run at once, the rows of one key in the trailing
\* window stay below MaxRequests plus the number of handlers.
THEOREM BurstCeilingHolds == Spec => []BurstCeiling
<1>1. TypedTable /\ ChargedCeiling => BurstCeiling
  <2> SUFFICES ASSUME TypedTable, ChargedCeiling, NEW k \in Keys
               PROVE  Cardinality(RowsSince(k, now))
                          < MaxRequests + Cardinality(Requests)
    BY DEF BurstCeiling
  <2>1. now \in Nat
    BY TimeAssumption DEF TypedTable, TypeOK
  <2> QED BY <2>1, Counted, MaxAssumption DEF ChargedCeiling
<1> QED BY <1>1, TableIsTyped, ChargedCeilingHolds, PTL

\* When requests are served one at a time the limiter keeps its promise
\* exactly: never more than MaxRequests rows of one key in the window.
THEOREM SerialLimitHolds ==
  ASSUME Cardinality(Requests) = 1
  PROVE  Spec => []AtMostMax
<1>1. TypedTable /\ BurstCeiling => AtMostMax
  <2> SUFFICES ASSUME TypedTable, BurstCeiling, NEW k \in Keys
               PROVE  Cardinality(RowsSince(k, now)) <= MaxRequests
    BY DEF AtMostMax
  <2>1. now \in Nat
    BY TimeAssumption DEF TypedTable, TypeOK
  <2> QED BY <2>1, Counted, MaxAssumption DEF BurstCeiling
<1> QED BY <1>1, TableIsTyped, BurstCeilingHolds, PTL

=============================================================================
