--------------------------- MODULE ModerationProofs ---------------------------
(***************************************************************************)
(* Theorems about Moderation, for any number of items and of moderators.   *)
(***************************************************************************)
EXTENDS Moderation, FiniteSetTheorems, TLAPS

LEMMA FreeIsNoEntry == Free \notin Entry
  BY DEF Free, Entry, ItemTypes

\* Every reachable state is well formed.
THEOREM TypeCorrect == Spec => []TypeOK
<1>1. Init => TypeOK
  BY DEF Init, TypeOK, Statuses
<1>2. TypeOK /\ [Next]_mvars => TypeOK'
  <2> SUFFICES ASSUME TypeOK, [Next]_mvars PROVE TypeOK'
    OBVIOUS
  <2> USE DEF TypeOK
  <2>1. ASSUME NEW i \in Items, Submit(i) PROVE TypeOK'
    BY <2>1 DEF Submit, Statuses
  <2>2. ASSUME NEW m \in Moderators, Load(m) PROVE TypeOK'
    BY <2>2 DEF Load, Entry, TableOf, Items
  <2>3. ASSUME NEW m \in Moderators, Commit(m) PROVE TypeOK'
    <3>1. desk[m] \in Entry
      BY <2>3 DEF Commit
    <3>2. Outcome(desk[m].verdict) \in Statuses
      BY DEF Outcome, Statuses
    <3> QED BY <2>3, <3>1, <3>2 DEF Commit, Entry
  <2>4. ASSUME NEW m \in Moderators, Abort(m) PROVE TypeOK'
    BY <2>4 DEF Abort
  <2>5. CASE UNCHANGED mvars
    BY <2>5 DEF mvars
  <2> QED BY <2>1, <2>2, <2>3, <2>4, <2>5 DEF Next
<1> QED BY <1>1, <1>2, PTL DEF Spec

-----------------------------------------------------------------------------
(***************************************************************************)
(* The audit log explains the status of every item.                        *)
(***************************************************************************)

\* What one committed verdict does to the entries of each item.
LEMMA CommitEntries ==
  ASSUME TypeOK, NEW m \in Moderators, Commit(m), NEW i \in Items
  PROVE  /\ desk[m] \in Entry
         /\ Len(audit) \in Nat
         /\ DOMAIN audit = 1..Len(audit)
         /\ DOMAIN audit' = 1..(Len(audit) + 1)
         /\ audit'[Len(audit) + 1] = desk[m]
         /\ \A n \in DOMAIN audit : audit'[n] = audit[n]
         /\ EntriesOf(i)' = IF desk[m].item = i
                            THEN EntriesOf(i) \cup {Len(audit) + 1}
                            ELSE EntriesOf(i)
<1>1. desk[m] \in Entry
  BY DEF TypeOK, Commit
<1>2. audit \in Seq(Entry) /\ audit' = Append(audit, desk[m])
  BY DEF TypeOK, Commit
<1>3. /\ Len(audit) \in Nat
      /\ DOMAIN audit = 1..Len(audit)
      /\ DOMAIN audit' = 1..(Len(audit) + 1)
      /\ audit'[Len(audit) + 1] = desk[m]
      /\ \A n \in DOMAIN audit : audit'[n] = audit[n]
  BY <1>1, <1>2
<1>4. EntriesOf(i)' = {n \in 1..(Len(audit) + 1) : audit'[n].item = i}
  BY <1>3 DEF EntriesOf
<1>5. EntriesOf(i) = {n \in 1..Len(audit) : audit'[n].item = i}
  BY <1>3 DEF EntriesOf
<1>6. desk[m].item = i => EntriesOf(i)' = EntriesOf(i) \cup {Len(audit) + 1}
  BY <1>3, <1>4, <1>5
<1>7. desk[m].item # i => EntriesOf(i)' = EntriesOf(i)
  BY <1>3, <1>4, <1>5
<1> QED BY <1>1, <1>3, <1>6, <1>7

LEMMA CommitKeepsExplanation ==
  ASSUME TypeOK, StatusExplainedByAudit, NEW m \in Moderators, Commit(m)
  PROVE  StatusExplainedByAudit'
<1> SUFFICES ASSUME NEW i \in Items
             PROVE  (\/ /\ status[i] \in {"ABSENT", "PENDING"}
                        /\ EntriesOf(i) = {}
                     \/ \E n \in EntriesOf(i) :
                         /\ \A k \in EntriesOf(i) : k <= n
                         /\ status[i] = Outcome(audit[n].verdict))'
  BY DEF StatusExplainedByAudit, Commit
<1>1. CASE desk[m].item = i
  <2> DEFINE n == Len(audit) + 1
  <2>1. n \in EntriesOf(i)'
    BY <1>1, CommitEntries
  <2>2. \A k \in EntriesOf(i)' : k <= n
    BY CommitEntries DEF EntriesOf
  <2>3. status'[i] = Outcome(audit'[n].verdict)
    BY <1>1, CommitEntries DEF Commit, TypeOK
  <2> QED BY <2>1, <2>2, <2>3
<1>2. CASE desk[m].item # i
  <2>1. EntriesOf(i)' = EntriesOf(i) /\ status'[i] = status[i]
    BY <1>2, CommitEntries DEF Commit, TypeOK
  <2>2. \A n \in EntriesOf(i) : audit'[n] = audit[n]
    BY CommitEntries DEF EntriesOf
  <2> QED BY <2>1, <2>2 DEF StatusExplainedByAudit
<1> QED BY <1>1, <1>2

\* Whatever the interleaving of moderators, the last audit entry of an item
\* gives its status and an undecided item has none.
THEOREM AuditExplains == Spec => []StatusExplainedByAudit
<1>1. Init => StatusExplainedByAudit
  BY DEF Init, StatusExplainedByAudit, EntriesOf
<1>2. TypeOK /\ StatusExplainedByAudit /\ [Next]_mvars => StatusExplainedByAudit'
  <2> SUFFICES ASSUME TypeOK, StatusExplainedByAudit, [Next]_mvars
               PROVE  StatusExplainedByAudit'
    OBVIOUS
  <2>1. ASSUME NEW i \in Items, Submit(i) PROVE StatusExplainedByAudit'
    <3> SUFFICES ASSUME NEW j \in Items
                 PROVE  (\/ /\ status[j] \in {"ABSENT", "PENDING"}
                            /\ EntriesOf(j) = {}
                         \/ \E n \in EntriesOf(j) :
                             /\ \A k \in EntriesOf(j) : k <= n
                             /\ status[j] = Outcome(audit[n].verdict))'
      BY DEF StatusExplainedByAudit
    <3>1. EntriesOf(j)' = EntriesOf(j) /\ audit' = audit
      BY <2>1 DEF Submit, EntriesOf
    <3>2. CASE j = i
      <4>1. status[i] = "ABSENT" /\ status'[i] = "PENDING"
        BY <2>1 DEF Submit, TypeOK
      <4>2. \A v : Outcome(v) # "ABSENT"
        BY DEF Outcome
      <4> QED BY <3>1, <3>2, <4>1, <4>2 DEF StatusExplainedByAudit
    <3>3. CASE j # i
      <4>1. status'[j] = status[j]
        BY <2>1, <3>3 DEF Submit, TypeOK
      <4> QED BY <3>1, <4>1 DEF StatusExplainedByAudit
    <3> QED BY <3>2, <3>3
  <2>2. ASSUME NEW m \in Moderators, Load(m) PROVE StatusExplainedByAudit'
    BY <2>2 DEF Load, StatusExplainedByAudit, EntriesOf
  <2>3. ASSUME NEW m \in Moderators, Commit(m) PROVE StatusExplainedByAudit'
    BY <2>3, CommitKeepsExplanation
  <2>4. ASSUME NEW m \in Moderators, Abort(m) PROVE StatusExplainedByAudit'
    BY <2>4 DEF Abort, StatusExplainedByAudit, EntriesOf
  <2>5. CASE UNCHANGED mvars
    BY <2>5 DEF mvars, StatusExplainedByAudit, EntriesOf
  <2> QED BY <2>1, <2>2, <2>3, <2>4, <2>5 DEF Next
<1> QED BY <1>1, <1>2, TypeCorrect, PTL DEF Spec

-----------------------------------------------------------------------------
(***************************************************************************)
(* How often one item can be decided.                                      *)
(***************************************************************************)

LEMMA FiniteCounts ==
  ASSUME TypeOK, NEW i
  PROVE  /\ IsFiniteSet(EntriesOf(i)) /\ Cardinality(EntriesOf(i)) \in Nat
         /\ IsFiniteSet(Holding(i))   /\ Cardinality(Holding(i)) \in Nat
         /\ Cardinality(Moderators) \in Nat
<1>1. Len(audit) \in Nat /\ DOMAIN audit = 1..Len(audit)
  BY DEF TypeOK
<1>2. IsFiniteSet(DOMAIN audit)
  BY <1>1, FS_Interval
<1>3. EntriesOf(i) \in SUBSET DOMAIN audit /\ Holding(i) \in SUBSET Moderators
  BY DEF EntriesOf, Holding
<1>4. IsFiniteSet(EntriesOf(i)) /\ IsFiniteSet(Holding(i))
  BY <1>2, <1>3, ModeratorsAssumption, FS_Subset
<1> QED BY <1>4, ModeratorsAssumption, FS_CardinalityType

\* A load can only happen while the item has no entry.
LEMMA LoadKeepsCharge ==
  ASSUME TypeOK, TypeOK', StatusExplainedByAudit, HeldOrDecided,
         NEW m \in Moderators, Load(m)
  PROVE  HeldOrDecided'
<1>0. PICK t \in ItemTypes, v \in Verdicts :
        \E j \in TableOf(t) :
            /\ status[j] = "PENDING"
            /\ desk' = [desk EXCEPT ![m] = [type |-> t, item |-> j, verdict |-> v]]
  BY DEF Load
<1>1. PICK j \in TableOf(t) :
        /\ status[j] = "PENDING"
        /\ desk' = [desk EXCEPT ![m] = [type |-> t, item |-> j, verdict |-> v]]
  BY <1>0
<1>2. /\ \A i \in Items : EntriesOf(i)' = EntriesOf(i)
      /\ status' = status /\ desk[m] = Free
  BY DEF Load, EntriesOf
<1>3. j \in Items
  BY <1>1 DEF TableOf, Items
<1> SUFFICES ASSUME NEW i \in Items
             PROVE  /\ status'[i] = "ABSENT" => Holding(i)' = {}
                    /\ Cardinality(EntriesOf(i)') + Cardinality(Holding(i)')
                            <= Cardinality(Moderators)
  BY DEF HeldOrDecided
<1>4. CASE i = j
  <2>1. EntriesOf(i) = {}
    <3>1. \A x : Outcome(x) # "PENDING"
      BY DEF Outcome
    <3> QED BY <1>1, <1>3, <1>4, <3>1 DEF StatusExplainedByAudit
  <2>2. Holding(i)' \in SUBSET Moderators
    BY DEF Holding
  <2>3. /\ Cardinality(Holding(i)') <= Cardinality(Moderators)
        /\ Cardinality(Holding(i)') \in Nat
    BY <2>2, ModeratorsAssumption, FS_Subset, FS_CardinalityType
  <2>4. Cardinality(EntriesOf(i)') = 0
    BY <1>2, <2>1, FS_EmptySet
  <2> QED BY <1>1, <1>2, <1>4, <2>3, <2>4, FiniteCounts
<1>5. CASE i # j
  <2>1. Holding(i)' = Holding(i)
    BY <1>1, <1>2, <1>5 DEF Holding, TypeOK, Free
  <2> QED BY <1>2, <2>1 DEF HeldOrDecided
<1> QED BY <1>4, <1>5

\* A commit turns one holder into one entry.
LEMMA CommitKeepsCharge ==
  ASSUME TypeOK, TypeOK', HeldOrDecided, NEW m \in Moderators, Commit(m)
  PROVE  HeldOrDecided'
<1> SUFFICES ASSUME NEW i \in Items
             PROVE  /\ status'[i] = "ABSENT" => Holding(i)' = {}
                    /\ Cardinality(EntriesOf(i)') + Cardinality(Holding(i)')
                            <= Cardinality(Moderators)
  BY DEF HeldOrDecided
<1>1. desk[m] # Free /\ desk' = [desk EXCEPT ![m] = Free]
  BY DEF Commit
<1>2. CASE desk[m].item = i
  <2>1. m \in Holding(i) /\ Holding(i)' = Holding(i) \ {m}
    BY <1>1, <1>2 DEF Holding, TypeOK
  <2>2. Cardinality(Holding(i)') = Cardinality(Holding(i)) - 1
    BY <2>1, FiniteCounts, FS_RemoveElement
  <2>3. /\ EntriesOf(i)' = EntriesOf(i) \cup {Len(audit) + 1}
        /\ Len(audit) + 1 \notin EntriesOf(i)
    BY <1>2, CommitEntries DEF EntriesOf
  <2>4. Cardinality(EntriesOf(i)') = Cardinality(EntriesOf(i)) + 1
    BY <2>3, FiniteCounts, FS_AddElement
  <2>5. status'[i] # "ABSENT"
    BY <1>2 DEF Commit, Outcome, TypeOK
  <2> QED BY <2>2, <2>4, <2>5, FiniteCounts DEF HeldOrDecided
<1>3. CASE desk[m].item # i
  <2>1. Holding(i)' = Holding(i)
    BY <1>1, <1>3 DEF Holding, TypeOK
  <2>2. EntriesOf(i)' = EntriesOf(i) /\ status'[i] = status[i]
    BY <1>3, CommitEntries DEF Commit, TypeOK
  <2> QED BY <2>1, <2>2 DEF HeldOrDecided
<1> QED BY <1>2, <1>3

LEMMA AbortKeepsCharge ==
  ASSUME TypeOK, HeldOrDecided, NEW m \in Moderators, Abort(m)
  PROVE  HeldOrDecided'
<1> SUFFICES ASSUME NEW i \in Items
             PROVE  /\ status'[i] = "ABSENT" => Holding(i)' = {}
                    /\ Cardinality(EntriesOf(i)') + Cardinality(Holding(i)')
                            <= Cardinality(Moderators)
  BY DEF HeldOrDecided
<1>1. EntriesOf(i)' = EntriesOf(i) /\ status' = status
  BY DEF Abort, EntriesOf
<1>2. Holding(i)' \in SUBSET Holding(i)
  BY DEF Abort, Holding, TypeOK
<1>3. /\ Cardinality(Holding(i)') <= Cardinality(Holding(i))
      /\ Cardinality(Holding(i)') \in Nat
  BY <1>2, FiniteCounts, FS_Subset, FS_CardinalityType
<1> QED BY <1>1, <1>2, <1>3, FiniteCounts DEF HeldOrDecided

\* Holders and entries of one item never outnumber the moderators.
THEOREM ChargeHolds == Spec => []HeldOrDecided
<1>1. Init /\ TypeOK => HeldOrDecided
  <2> SUFFICES ASSUME Init, TypeOK, NEW i \in Items
               PROVE  /\ status[i] = "ABSENT" => Holding(i) = {}
                      /\ Cardinality(EntriesOf(i)) + Cardinality(Holding(i))
                              <= Cardinality(Moderators)
    BY DEF HeldOrDecided
  <2>1. Holding(i) = {} /\ EntriesOf(i) = {}
    BY DEF Init, Holding, EntriesOf
  <2> QED BY <2>1, FS_EmptySet, FiniteCounts
<1>2. /\ TypeOK /\ TypeOK' /\ StatusExplainedByAudit /\ HeldOrDecided
      /\ [Next]_mvars
      => HeldOrDecided'
  <2> SUFFICES ASSUME TypeOK, TypeOK', StatusExplainedByAudit, HeldOrDecided,
                      [Next]_mvars
               PROVE  HeldOrDecided'
    OBVIOUS
  <2>1. ASSUME NEW i \in Items, Submit(i) PROVE HeldOrDecided'
    BY <2>1 DEF Submit, HeldOrDecided, Holding, EntriesOf, TypeOK
  <2>2. ASSUME NEW m \in Moderators, Load(m) PROVE HeldOrDecided'
    BY <2>2, LoadKeepsCharge
  <2>3. ASSUME NEW m \in Moderators, Commit(m) PROVE HeldOrDecided'
    BY <2>3, CommitKeepsCharge
  <2>4. ASSUME NEW m \in Moderators, Abort(m) PROVE HeldOrDecided'
    BY <2>4, AbortKeepsCharge
  <2>5. CASE UNCHANGED mvars
    BY <2>5 DEF mvars, HeldOrDecided, Holding, EntriesOf
  <2> QED BY <2>1, <2>2, <2>3, <2>4, <2>5 DEF Next
<1> QED BY <1>1, <1>2, TypeCorrect, AuditExplains, PTL DEF Spec

\* One item is decided at most once per moderator request in flight.
THEOREM DecisionCeilingHolds == Spec => []DecisionCeiling
<1>1. TypeOK /\ HeldOrDecided => DecisionCeiling
  BY FiniteCounts DEF HeldOrDecided, DecisionCeiling
<1> QED BY <1>1, TypeCorrect, ChargeHolds, PTL

-----------------------------------------------------------------------------
(***************************************************************************)
(* Whatever races, the queue implements the revisable lifecycle.           *)
(***************************************************************************)

\* Only items that were submitted are held.
LEMMA HeldIsSubmitted ==
  ASSUME TypeOK, HeldOrDecided, NEW m \in Moderators, desk[m] # Free
  PROVE  /\ desk[m].item \in Items
         /\ status[desk[m].item] \in {"PENDING", "PUBLISHED", "REJECTED"}
<1> DEFINE i == desk[m].item
<1>1. i \in Items
  BY DEF TypeOK, Entry
<1>2. m \in Holding(i)
  BY DEF Holding
<1> HIDE DEF i
<1>3. status[i] # "ABSENT"
  BY <1>1, <1>2 DEF HeldOrDecided
<1>4. status[i] \in Statuses
  BY <1>1 DEF TypeOK
<1> QED BY <1>1, <1>3, <1>4 DEF i, Statuses

\* For any number of moderators: an item enters as PENDING, a decision follows
\* only on PENDING or on another decision, and none takes it back.
THEOREM ImplementsRevisableLifecycle == Spec => RevisableLifecycle
<1>1. Init => Lifecycle!Init
  BY DEF Init, Lifecycle!Init
<1>2. /\ TypeOK /\ HeldOrDecided /\ [Next]_mvars
      => [Lifecycle!RevisableNext]_status
  <2> SUFFICES ASSUME TypeOK, HeldOrDecided, [Next]_mvars
               PROVE  [Lifecycle!RevisableNext]_status
    OBVIOUS
  <2>1. ASSUME NEW i \in Items, Submit(i) PROVE Lifecycle!RevisableNext
    BY <2>1 DEF Submit, Lifecycle!RevisableNext, Lifecycle!Next, Lifecycle!Enter
  <2>2. ASSUME NEW m \in Moderators, Commit(m) PROVE Lifecycle!RevisableNext
    <3>1. /\ desk[m].item \in Items
          /\ status[desk[m].item] \in {"PENDING", "PUBLISHED", "REJECTED"}
      BY <2>2, HeldIsSubmitted DEF Commit
    <3>2. Outcome(desk[m].verdict) \in Lifecycle!Decided
      BY DEF Outcome, Lifecycle!Decided
    <3>3. CASE status[desk[m].item] = "PENDING"
      <4>1. Lifecycle!Decide(desk[m].item, Outcome(desk[m].verdict))
        BY <2>2, <3>3 DEF Commit, Lifecycle!Decide
      <4> QED BY <3>1, <3>2, <4>1 DEF Lifecycle!RevisableNext, Lifecycle!Next
    <3>4. CASE status[desk[m].item] \in {"PUBLISHED", "REJECTED"}
      <4>1. Lifecycle!Revise(desk[m].item, Outcome(desk[m].verdict))
        BY <2>2, <3>4 DEF Commit, Lifecycle!Revise, Lifecycle!Decided
      <4> QED BY <3>1, <3>2, <4>1 DEF Lifecycle!RevisableNext
    <3> QED BY <3>1, <3>3, <3>4
  <2>3. ASSUME NEW m \in Moderators, Load(m) \/ Abort(m) PROVE UNCHANGED status
    BY <2>3 DEF Load, Abort
  <2>4. CASE UNCHANGED mvars
    BY <2>4 DEF mvars
  <2> QED BY <2>1, <2>2, <2>3, <2>4 DEF Next
<1> QED BY <1>1, <1>2, TypeCorrect, ChargeHolds, PTL
        DEF Spec, RevisableLifecycle, Lifecycle!RevisableSpec

-----------------------------------------------------------------------------
(***************************************************************************)
(* With admin requests served one at a time the queue implements the       *)
(* lifecycle: PENDING once, then PUBLISHED or REJECTED for good.           *)
(***************************************************************************)

\* A lone moderator still finds the item PENDING when it commits.
LEMMA LoneHolderIsCurrent ==
  ASSUME Cardinality(Moderators) = 1, TypeOK, StatusExplainedByAudit,
         HeldOrDecided, NEW m \in Moderators, desk[m] # Free
  PROVE  /\ desk[m] \in Entry
         /\ desk[m].item \in Items
         /\ status[desk[m].item] = "PENDING"
<1> DEFINE i == desk[m].item
<1>1. desk[m] \in Entry /\ i \in Items
  BY DEF TypeOK, Entry
<1>2. m \in Holding(i)
  BY DEF Holding
<1> HIDE DEF i
<1>3. Cardinality(Holding(i)) # 0
  BY <1>2, FiniteCounts, FS_EmptySet
<1>4. Cardinality(EntriesOf(i)) = 0
  BY <1>1, <1>3, FiniteCounts DEF HeldOrDecided
<1>5. EntriesOf(i) = {}
  BY <1>4, FiniteCounts, FS_EmptySet
<1>6. status[i] = "PENDING"
  BY <1>1, <1>2, <1>5 DEF StatusExplainedByAudit, HeldOrDecided
<1> QED BY <1>1, <1>6 DEF i

\* The queue, with one admin request at a time, implements the lifecycle.
THEOREM SerialImplementsLifecycle ==
  ASSUME Cardinality(Moderators) = 1
  PROVE  Spec => LifecycleSpec
<1>1. Init => Lifecycle!Init
  BY DEF Init, Lifecycle!Init
<1>2. /\ TypeOK /\ StatusExplainedByAudit /\ HeldOrDecided /\ [Next]_mvars
      => [Lifecycle!Next]_status
  <2> SUFFICES ASSUME TypeOK, StatusExplainedByAudit, HeldOrDecided, [Next]_mvars
               PROVE  [Lifecycle!Next]_status
    OBVIOUS
  <2>1. ASSUME NEW i \in Items, Submit(i) PROVE Lifecycle!Next
    BY <2>1 DEF Submit, Lifecycle!Next, Lifecycle!Enter
  <2>2. ASSUME NEW m \in Moderators, Load(m) PROVE UNCHANGED status
    BY <2>2 DEF Load
  <2>3. ASSUME NEW m \in Moderators, Commit(m) PROVE Lifecycle!Next
    <3>1. /\ desk[m].item \in Items
          /\ status[desk[m].item] = "PENDING"
      BY <2>3, LoneHolderIsCurrent DEF Commit
    <3>2. Outcome(desk[m].verdict) \in Lifecycle!Decided
      BY DEF Outcome, Lifecycle!Decided
    <3>3. Lifecycle!Decide(desk[m].item, Outcome(desk[m].verdict))
      BY <2>3, <3>1 DEF Commit, Lifecycle!Decide
    <3> QED BY <3>1, <3>2, <3>3 DEF Lifecycle!Next
  <2>4. ASSUME NEW m \in Moderators, Abort(m) PROVE UNCHANGED status
    BY <2>4 DEF Abort
  <2>5. CASE UNCHANGED mvars
    BY <2>5 DEF mvars
  <2> QED BY <2>1, <2>2, <2>3, <2>4, <2>5 DEF Next
<1> QED BY <1>1, <1>2, TypeCorrect, AuditExplains, ChargeHolds, PTL
        DEF Spec, LifecycleSpec, Lifecycle!Spec

=============================================================================
