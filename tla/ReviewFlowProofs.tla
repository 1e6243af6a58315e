--------------------------- MODULE ReviewFlowProofs ---------------------------
(***************************************************************************)
(* Theorems about ReviewFlow, for every set of users, companies, ids and   *)
(* requests.                                                               *)
(***************************************************************************)
EXTENDS ReviewFlow, TLAPS

Q == INSTANCE ModerationProofs

(***************************************************************************)
(* The flow implements the moderation queue: its submissions are the       *)
(* queue's, and everything else it does leaves the queue alone.            *)
(***************************************************************************)
LEMMA QueueStep == [Next]_vars => [Queue!Next]_Queue!mvars
<1> SUFFICES ASSUME [Next]_vars PROVE [Queue!Next]_Queue!mvars
  OBVIOUS
<1>1. ASSUME NEW r \in Requests, PostCommit(r) PROVE Queue!Next
  BY <1>1 DEF PostCommit, Enqueue, Queue!Next, Queue!Items
<1>2. ASSUME NEW i \in LayoffIds, SubmitLayoff(i) PROVE Queue!Next
  BY <1>2 DEF SubmitLayoff, Enqueue, Queue!Next, Queue!Items
<1>3. ASSUME NEW m \in Moderators, Moderate(m) PROVE Queue!Next
  BY <1>3 DEF Moderate, Queue!Next
<1>4. ASSUME NEW r \in Requests,
             \/ PostBegin(r) \/ CorroborateBegin(r) \/ RespondBegin(r)
             \/ CorroborateCommit(r) \/ RespondCommit(r) \/ Fail(r)
      PROVE  UNCHANGED Queue!mvars
  BY <1>4 DEF PostBegin, CorroborateBegin, RespondBegin, Begin, CorroborateCommit,
              RespondCommit, Fail, Queue!mvars
<1>5. CASE UNCHANGED vars
  BY <1>5 DEF vars, Queue!mvars
<1> QED BY <1>1, <1>2, <1>3, <1>4, <1>5 DEF Next

\* Nothing in the review and layoff routers decides an item, publishes one or
\* writes the audit log.
THEOREM ImplementsQueue == Spec => QueueSpec
<1>1. Init => Queue!Init
  BY DEF Init
<1> QED BY <1>1, QueueStep, PTL DEF Spec, QueueSpec, Queue!Spec

(***************************************************************************)
(* The queue's theorems, taken over: Q names the same formulas as Queue.   *)
(***************************************************************************)
HeldExists ==
  \A m \in Moderators : desk[m] # Queue!Free => status[desk[m].item] # "ABSENT"

LEMMA QueueTheorems ==
  /\ Spec => []Queue!TypeOK
  /\ Spec => []Queue!StatusExplainedByAudit
  /\ Spec => []HeldExists
  /\ Spec => []Queue!DecisionCeiling
  /\ Spec => Q!RevisableLifecycle
<1>1. Q!IdsAssumption /\ Q!ModeratorsAssumption
  <2>1. Q!IdsAssumption
    BY IdsAssumption
  <2>2. Q!ModeratorsAssumption
    BY ModeratorsAssumption DEF IsFiniteSet, Q!IsFiniteSet
  <2> QED BY <2>1, <2>2
<1>2. Q!Spec => []Q!TypeOK
  BY <1>1, Q!TypeCorrect
<1>3. Q!Spec => []Q!StatusExplainedByAudit
  BY <1>1, Q!AuditExplains
<1>4. Queue!Items = Q!Items /\ Queue!Free = Q!Free /\ Queue!Entry = Q!Entry
  BY DEF Queue!Items, Q!Items, Queue!Free, Q!Free, Queue!Entry, Q!Entry,
         Queue!ItemTypes, Q!ItemTypes, Queue!Verdicts, Q!Verdicts
<1>5. \A v : Queue!Outcome(v) = Q!Outcome(v)
  BY DEF Queue!Outcome, Q!Outcome
<1>6. Queue!Init => Q!Init
  BY <1>4 DEF Queue!Init, Q!Init
<1>7. Queue!Next => Q!Next
  <2>1. ASSUME NEW i \in Queue!Items, Queue!Submit(i) PROVE Q!Next
    BY <2>1, <1>4 DEF Queue!Submit, Q!Submit, Q!Next
  <2>2. ASSUME NEW m \in Moderators, Queue!Load(m) PROVE Q!Next
    <3>1. Q!Load(m)
      BY <2>2, <1>4 DEF Queue!Load, Q!Load, Queue!ItemTypes, Q!ItemTypes,
             Queue!Verdicts, Q!Verdicts, Queue!TableOf, Q!TableOf
    <3> QED BY <3>1 DEF Q!Next
  <2>3. ASSUME NEW m \in Moderators, Queue!Commit(m) PROVE Q!Next
    BY <2>3, <1>4, <1>5 DEF Queue!Commit, Q!Commit, Q!Next
  <2>4. ASSUME NEW m \in Moderators, Queue!Abort(m) PROVE Q!Next
    BY <2>4, <1>4 DEF Queue!Abort, Q!Abort, Q!Next
  <2> QED BY <2>1, <2>2, <2>3, <2>4 DEF Queue!Next
<1>8. Q!TypeOK => Queue!TypeOK
  BY <1>4 DEF Q!TypeOK, Queue!TypeOK, Q!Statuses, Queue!Statuses
<1>9. Q!StatusExplainedByAudit => Queue!StatusExplainedByAudit
  BY <1>4, <1>5 DEF Q!StatusExplainedByAudit, Queue!StatusExplainedByAudit,
         Q!EntriesOf, Queue!EntriesOf
<1>10. [Queue!Next]_Queue!mvars => [Q!Next]_Q!mvars
  BY <1>7 DEF Queue!mvars, Q!mvars
<1>11. Queue!Spec => Q!Spec
  BY <1>6, <1>10, PTL DEF Queue!Spec, Q!Spec
<1>12. Spec => Queue!Spec
  BY ImplementsQueue DEF QueueSpec
<1>13. Spec => []Queue!TypeOK
  BY <1>2, <1>8, <1>11, <1>12, PTL
<1>14. Q!TypeOK /\ Q!HeldOrDecided => HeldExists
  <2> SUFFICES ASSUME Q!TypeOK, Q!HeldOrDecided, NEW m \in Moderators,
                      desk[m] # Q!Free
               PROVE  status[desk[m].item] # "ABSENT"
    BY <1>4 DEF HeldExists
  <2>1. status[desk[m].item] \in {"PENDING", "PUBLISHED", "REJECTED"}
    BY <1>1, Q!HeldIsSubmitted
  <2> QED BY <2>1
<1>15. Q!Spec => []Q!HeldOrDecided
  BY <1>1, Q!ChargeHolds
<1>16. Spec => []HeldExists
  BY <1>2, <1>14, <1>15, <1>11, <1>12, PTL
<1>17. Spec => []Queue!StatusExplainedByAudit
  BY <1>3, <1>9, <1>11, <1>12, PTL
<1>18. Q!DecisionCeiling => Queue!DecisionCeiling
  <2>1. \A i : Queue!EntriesOf(i) = Q!EntriesOf(i)
    BY DEF Q!EntriesOf, Queue!EntriesOf
  <2>2. \A S : Queue!Cardinality(S) = Q!Cardinality(S)
    BY DEF Queue!Cardinality, Q!Cardinality
  <2> QED BY <1>4, <2>1, <2>2 DEF Q!DecisionCeiling, Queue!DecisionCeiling
<1>19. Q!Spec => []Q!DecisionCeiling
  BY <1>1, Q!DecisionCeilingHolds
<1>20. Spec => []Queue!DecisionCeiling
  BY <1>11, <1>12, <1>18, <1>19, PTL
<1>21. Q!Spec => Q!RevisableLifecycle
  BY <1>1, Q!ImplementsRevisableLifecycle
<1>22. Spec => Q!RevisableLifecycle
  BY <1>11, <1>12, <1>21, PTL
<1> QED BY <1>13, <1>16, <1>17, <1>20, <1>22

\* Whatever review, corroboration, response and layoff requests are in flight,
\* the audit log still explains the status of every item.
THEOREM FlowIsAudited == Spec => []Queue!StatusExplainedByAudit
  BY QueueTheorems

\* And an item is decided at most once per moderator request in flight.
THEOREM FlowDecisionCeiling == Spec => []Queue!DecisionCeiling
  BY QueueTheorems

(***************************************************************************)
(* The statuses of the reviews alone, without the layoff events that share  *)
(* the queue: what CompanyStats takes moderation to be.                    *)
(***************************************************************************)
ReviewStatus == [i \in ReviewIds |-> status[i]]

Reviews == INSTANCE PublicationLifecycle WITH Items <- ReviewIds, status <- ReviewStatus

LEMMA ReviewStep ==
  ASSUME Queue!TypeOK, [Q!Lifecycle!RevisableNext]_status
  PROVE  [Reviews!RevisableNext]_ReviewStatus
<1> USE DEF Reviews!RevisableNext, Reviews!Next, Reviews!Enter, Reviews!Decide,
            Reviews!Revise, Reviews!Decided, Q!Lifecycle!RevisableNext, Q!Lifecycle!Next,
            Q!Lifecycle!Enter, Q!Lifecycle!Decide, Q!Lifecycle!Revise, Q!Lifecycle!Decided
<1>1. /\ status \in [ReviewIds \cup LayoffIds -> Queue!Statuses]
      /\ Q!Items = ReviewIds \cup LayoffIds
  BY DEF Queue!TypeOK, Queue!Items, Q!Items
<1>2. ASSUME NEW i \in ReviewIds \cup LayoffIds, NEW s, status' = [status EXCEPT ![i] = s]
      PROVE  /\ i \in ReviewIds =>
                  /\ ReviewStatus[i] = status[i]
                  /\ ReviewStatus' = [ReviewStatus EXCEPT ![i] = s]
             /\ i \notin ReviewIds => ReviewStatus' = ReviewStatus
  BY <1>1, <1>2 DEF ReviewStatus
<1>3. CASE status' = status
  BY <1>3 DEF ReviewStatus
<1>4. ASSUME NEW i \in ReviewIds \cup LayoffIds, Q!Lifecycle!Enter(i)
      PROVE  [Reviews!RevisableNext]_ReviewStatus
  BY <1>2, <1>4
<1>5. ASSUME NEW i \in ReviewIds \cup LayoffIds, NEW s \in Q!Lifecycle!Decided,
             Q!Lifecycle!Decide(i, s) \/ Q!Lifecycle!Revise(i, s)
      PROVE  [Reviews!RevisableNext]_ReviewStatus
  BY <1>2, <1>5
<1> QED BY <1>1, <1>3, <1>4, <1>5

\* Among submissions, layoff events and decisions in flight, the reviews of the
\* table keep the lifecycle that the statistics are computed under.
THEOREM ReviewsKeepLifecycle == Spec => Reviews!RevisableSpec
<1>1. Init => Reviews!Init
  BY DEF Init, Queue!Init, Queue!Items, Reviews!Init, ReviewStatus
<1>2. Spec => [][Q!Lifecycle!RevisableNext]_status
  BY QueueTheorems, PTL DEF Q!RevisableLifecycle, Q!Lifecycle!RevisableSpec
<1>3. Queue!TypeOK /\ [Q!Lifecycle!RevisableNext]_status
        => [Reviews!RevisableNext]_ReviewStatus
  BY ReviewStep
<1>4. Spec => Init
  BY DEF Spec
<1> QED BY <1>1, <1>2, <1>3, <1>4, QueueTheorems, PTL DEF Reviews!RevisableSpec

-----------------------------------------------------------------------------
(***************************************************************************)
(* Type correctness.                                                       *)
(***************************************************************************)

Rows == ReviewRow \cup {NoReview}
Kept == Post \cup Corroborate \cup Reply \cup {Idle}

\* TypeOK without the queue's part of it
FlowTypeOK ==
  /\ review \in [ReviewIds -> Rows]
  /\ backing \in [ReviewIds -> Seq(Users)]
  /\ reply \in [ReviewIds -> Seq(Companies)]
  /\ req \in [Requests -> Kept]
  /\ \A i \in ReviewIds : review[i].exists <=> status[i] # "ABSENT"

LEMMA KeptByOp ==
  ASSUME NEW l \in Kept
  PROVE  /\ l.op = "post" => l \in Post
         /\ l.op = "corroborate" => l \in Corroborate
         /\ l.op = "respond" => l \in Reply
  BY DEF Kept, Post, Corroborate, Reply, Idle

\* What a begin stores is one of the three kinds of row.
LEMMA BeginTyped ==
  ASSUME FlowTypeOK, NEW r \in Requests, NEW l \in Kept, Begin(r, l)
  PROVE  FlowTypeOK'
  BY DEF Begin, FlowTypeOK

LEMMA PostTyped ==
  ASSUME Queue!TypeOK, FlowTypeOK, NEW r \in Requests, PostCommit(r)
  PROVE  FlowTypeOK'
<1>1. PICK i \in ReviewIds :
        /\ review[i] = NoReview
        /\ review' = [review EXCEPT ![i] = [exists |-> TRUE, user |-> req[r].user,
                                            company |-> req[r].company]]
        /\ Enqueue(i)
  BY DEF PostCommit
<1>2. req[r] \in Post
  BY KeptByOp DEF PostCommit, FlowTypeOK
<1>3. review' \in [ReviewIds -> Rows]
  BY <1>1, <1>2 DEF FlowTypeOK, Rows, ReviewRow, Post
<1>4. req' \in [Requests -> Kept]
  BY DEF PostCommit, Respond, FlowTypeOK, Kept
<1>5. ASSUME NEW j \in ReviewIds
      PROVE  review'[j].exists <=> status'[j] # "ABSENT"
  <2>1. status \in [Queue!Items -> Queue!Statuses] /\ j \in Queue!Items
    BY DEF Queue!TypeOK, Queue!Items
  <2>2. status' = [status EXCEPT ![i] = "PENDING"]
    BY <1>1 DEF Enqueue, Queue!Submit
  <2>3. CASE j = i
    BY <1>1, <2>1, <2>2, <2>3 DEF FlowTypeOK
  <2>4. CASE j # i
    BY <1>1, <2>1, <2>2, <2>4 DEF FlowTypeOK
  <2> QED BY <2>3, <2>4
<1> QED BY <1>3, <1>4, <1>5 DEF PostCommit, FlowTypeOK

LEMMA ModerateTyped ==
  ASSUME Queue!TypeOK, HeldExists, FlowTypeOK, NEW m \in Moderators, Moderate(m)
  PROVE  FlowTypeOK'
<1>1. ASSUME NEW i \in ReviewIds
      PROVE  status'[i] = "ABSENT" <=> status[i] = "ABSENT"
  <2>1. CASE Queue!Load(m) \/ Queue!Abort(m)
    BY <2>1 DEF Queue!Load, Queue!Abort
  <2>2. CASE Queue!Commit(m)
    <3>1. status \in [Queue!Items -> Queue!Statuses] /\ i \in Queue!Items
      BY DEF Queue!TypeOK, Queue!Items
    <3>2. status[desk[m].item] # "ABSENT"
      BY <2>2 DEF Queue!Commit, HeldExists
    <3>3. Queue!Outcome(desk[m].verdict) # "ABSENT"
      BY DEF Queue!Outcome
    <3> QED BY <2>2, <3>1, <3>2, <3>3 DEF Queue!Commit
  <2> QED BY <2>1, <2>2 DEF Moderate
<1> QED BY <1>1 DEF Moderate, fvars, FlowTypeOK

\* Every reachable state is well formed; a review that exists is in the queue.
THEOREM TypeCorrect == Spec => []TypeOK
<1>1. Init => FlowTypeOK
  BY DEF Init, Queue!Init, Queue!Items, FlowTypeOK, Rows, Kept, NoReview
<1>2. Queue!TypeOK /\ HeldExists /\ FlowTypeOK /\ [Next]_vars => FlowTypeOK'
  <2> SUFFICES ASSUME Queue!TypeOK, HeldExists, FlowTypeOK, [Next]_vars
               PROVE  FlowTypeOK'
    OBVIOUS
  <2>1. ASSUME NEW r \in Requests, PostBegin(r) PROVE FlowTypeOK'
    BY <2>1, BeginTyped DEF PostBegin, Kept, Post
  <2>2. ASSUME NEW r \in Requests, CorroborateBegin(r) PROVE FlowTypeOK'
    BY <2>2, BeginTyped DEF CorroborateBegin, Kept, Corroborate
  <2>3. ASSUME NEW r \in Requests, RespondBegin(r) PROVE FlowTypeOK'
    BY <2>3, BeginTyped DEF RespondBegin, Kept, Reply
  <2>4. ASSUME NEW r \in Requests, PostCommit(r) PROVE FlowTypeOK'
    BY <2>4, PostTyped
  <2>5. ASSUME NEW r \in Requests, CorroborateCommit(r) PROVE FlowTypeOK'
    <3>1. req[r] \in Corroborate
      BY <2>5, KeptByOp DEF CorroborateCommit, FlowTypeOK
    <3> QED BY <2>5, <3>1 DEF CorroborateCommit, Respond, FlowTypeOK, Kept, Corroborate
  <2>6. ASSUME NEW r \in Requests, RespondCommit(r) PROVE FlowTypeOK'
    <3>1. req[r] \in Reply
      BY <2>6, KeptByOp DEF RespondCommit, FlowTypeOK
    <3> QED BY <2>6, <3>1 DEF RespondCommit, Respond, FlowTypeOK, Kept, Reply
  <2>7. ASSUME NEW r \in Requests, Fail(r) PROVE FlowTypeOK'
    BY <2>7 DEF Fail, Respond, FlowTypeOK, Kept
  <2>8. ASSUME NEW i \in LayoffIds, SubmitLayoff(i) PROVE FlowTypeOK'
    BY <2>8, IdsAssumption DEF SubmitLayoff, Enqueue, Queue!Submit, fvars, FlowTypeOK,
       Queue!TypeOK, Queue!Items
  <2>9. ASSUME NEW m \in Moderators, Moderate(m) PROVE FlowTypeOK'
    BY <2>9, ModerateTyped
  <2>10. CASE UNCHANGED vars
    BY <2>10 DEF vars, FlowTypeOK
  <2> QED BY <2>1, <2>2, <2>3, <2>4, <2>5, <2>6, <2>7, <2>8, <2>9, <2>10 DEF Next
<1>3. Queue!TypeOK /\ FlowTypeOK => TypeOK
  BY DEF FlowTypeOK, TypeOK, Rows, Kept
<1> QED BY <1>1, <1>2, <1>3, QueueTheorems, PTL DEF Spec

-----------------------------------------------------------------------------
(***************************************************************************)
(* Reviews.                                                                *)
(***************************************************************************)

\* A review row, once there, stays as it is.
LEMMA RowsAreKept ==
  ASSUME FlowTypeOK, [Next]_vars
  PROVE  \A i \in ReviewIds : review[i].exists => review'[i] = review[i]
<1>1. ASSUME NEW r \in Requests, PostCommit(r), NEW i \in ReviewIds, review[i].exists
      PROVE  review'[i] = review[i]
  BY <1>1 DEF PostCommit, NoReview, FlowTypeOK
<1>2. ASSUME NEW r \in Requests,
             \/ PostBegin(r) \/ CorroborateBegin(r) \/ RespondBegin(r)
             \/ CorroborateCommit(r) \/ RespondCommit(r) \/ Fail(r)
      PROVE  review' = review
  BY <1>2 DEF PostBegin, CorroborateBegin, RespondBegin, Begin, CorroborateCommit,
              RespondCommit, Fail
<1>3. ASSUME NEW i \in LayoffIds, SubmitLayoff(i) PROVE review' = review
  BY <1>3 DEF SubmitLayoff, fvars
<1>4. ASSUME NEW m \in Moderators, Moderate(m) PROVE review' = review
  BY <1>4 DEF Moderate, fvars
<1>5. CASE UNCHANGED vars
  BY <1>5 DEF vars
<1> QED BY <1>1, <1>2, <1>3, <1>4, <1>5 DEF Next

\* A new review has an author and a company that no other review has.
LEMMA PostKeepsUnique ==
  ASSUME FlowTypeOK, OneReviewPerAuthor, NEW r \in Requests, PostCommit(r)
  PROVE  OneReviewPerAuthor'
<1>1. PICK i \in ReviewIds :
        /\ review[i] = NoReview
        /\ review' = [review EXCEPT ![i] = [exists |-> TRUE, user |-> req[r].user,
                                            company |-> req[r].company]]
  BY DEF PostCommit
<1>2. \A j \in ReviewIds :
        ~(/\ review[j].exists /\ review[j].user = req[r].user
          /\ review[j].company = req[r].company)
  BY DEF PostCommit, BreaksConstraint, Existing
<1>3. /\ review'[i].user = req[r].user /\ review'[i].company = req[r].company
      /\ \A j \in ReviewIds \ {i} : review'[j] = review[j]
  BY <1>1 DEF FlowTypeOK
<1> SUFFICES ASSUME NEW j \in ReviewIds, NEW k \in ReviewIds,
                    review'[j].exists, review'[k].exists,
                    review'[j].user = review'[k].user,
                    review'[j].company = review'[k].company
             PROVE  j = k
  BY DEF OneReviewPerAuthor
<1>4. CASE j = i /\ k # i
  BY <1>2, <1>3, <1>4
<1>5. CASE j # i /\ k = i
  BY <1>2, <1>3, <1>5
<1>6. CASE j # i /\ k # i
  BY <1>3, <1>6 DEF OneReviewPerAuthor
<1> QED BY <1>4, <1>5, <1>6

\* However many submissions overlap, a user has one review of a company.
THEOREM OneReviewHolds == Spec => []OneReviewPerAuthor
<1>1. Init => OneReviewPerAuthor
  BY DEF Init, OneReviewPerAuthor, NoReview
<1>2. TypeOK /\ OneReviewPerAuthor /\ [Next]_vars => OneReviewPerAuthor'
  <2> SUFFICES ASSUME TypeOK, OneReviewPerAuthor, [Next]_vars
               PROVE  OneReviewPerAuthor'
    OBVIOUS
  <2>1. FlowTypeOK
    BY DEF TypeOK, FlowTypeOK, Rows, Kept
  <2>2. CASE \E r \in Requests : PostCommit(r)
    BY <2>1, <2>2, PostKeepsUnique
  <2>3. CASE review' = review
    BY <2>3 DEF OneReviewPerAuthor
  <2>4. (\E r \in Requests : PostCommit(r)) \/ review' = review
    BY DEF Next, vars, PostBegin, CorroborateBegin, RespondBegin, Begin,
       CorroborateCommit, RespondCommit, Fail, SubmitLayoff, Moderate, fvars
  <2> QED BY <2>2, <2>3, <2>4
<1> QED BY <1>1, <1>2, TypeCorrect, PTL DEF Spec

-----------------------------------------------------------------------------
(***************************************************************************)
(* What a request checked before its commit.                               *)
(***************************************************************************)

LEMMA ChecksPersist ==
  ASSUME FlowTypeOK, ChecksStillHold, [Next]_vars,
         NEW r \in Requests, req'[r] = req[r]
  PROVE  /\ req'[r].op = "corroborate" =>
              /\ review'[req'[r].review].exists
              /\ review'[req'[r].review].user # req'[r].user
         /\ req'[r].op = "respond" =>
              /\ review'[req'[r].review].exists
              /\ review'[req'[r].review].company = req'[r].company
<1>1. req[r].op = "corroborate" \/ req[r].op = "respond" => req[r].review \in ReviewIds
  BY KeptByOp DEF FlowTypeOK, Corroborate, Reply
<1> QED BY <1>1, RowsAreKept DEF ChecksStillHold

\* Nothing a request has checked of its review can change before it commits.
THEOREM ChecksHold == Spec => []ChecksStillHold
<1>1. Init => ChecksStillHold
  BY DEF Init, ChecksStillHold, Idle
<1>2. TypeOK /\ ChecksStillHold /\ [Next]_vars => ChecksStillHold'
  <2> SUFFICES ASSUME TypeOK, ChecksStillHold, [Next]_vars, NEW r \in Requests
               PROVE  /\ req'[r].op = "corroborate" =>
                           /\ review'[req'[r].review].exists
                           /\ review'[req'[r].review].user # req'[r].user
                      /\ req'[r].op = "respond" =>
                           /\ review'[req'[r].review].exists
                           /\ review'[req'[r].review].company = req'[r].company
    BY DEF ChecksStillHold
  <2>1. FlowTypeOK
    BY DEF TypeOK, FlowTypeOK, Rows, Kept
  <2>2. CASE req'[r] = req[r]
    BY <2>1, <2>2, ChecksPersist
  <2>3. CASE PostBegin(r)
    BY <2>1, <2>3 DEF PostBegin, Begin, FlowTypeOK
  <2>4. CASE CorroborateBegin(r)
    BY <2>1, <2>4 DEF CorroborateBegin, MayBack, Begin, FlowTypeOK
  <2>5. CASE RespondBegin(r)
    BY <2>1, <2>5 DEF RespondBegin, Begin, FlowTypeOK
  <2>6. CASE Respond(r)
    BY <2>1, <2>6 DEF Respond, FlowTypeOK, Idle
  <2>7. \/ req'[r] = req[r]
        \/ PostBegin(r) \/ CorroborateBegin(r) \/ RespondBegin(r) \/ Respond(r)
    <3>1. ASSUME NEW s \in Requests, NEW l, req' = [req EXCEPT ![s] = l], s # r
          PROVE  req'[r] = req[r]
      BY <2>1, <3>1 DEF FlowTypeOK
    <3>2. ASSUME NEW s \in Requests,
                 \/ PostBegin(s) \/ CorroborateBegin(s) \/ RespondBegin(s)
                 \/ PostCommit(s) \/ CorroborateCommit(s) \/ RespondCommit(s)
                 \/ Fail(s)
          PROVE  \/ req'[r] = req[r]
                 \/ PostBegin(r) \/ CorroborateBegin(r) \/ RespondBegin(r)
                 \/ Respond(r)
      <4>1. CASE s = r
        BY <3>2, <4>1 DEF PostCommit, CorroborateCommit, RespondCommit, Fail
      <4>2. CASE s # r
        BY <3>1, <3>2, <4>2 DEF PostBegin, CorroborateBegin, RespondBegin, Begin,
           PostCommit, CorroborateCommit, RespondCommit, Fail, Respond
      <4> QED BY <4>1, <4>2
    <3>3. CASE (\E i \in LayoffIds : SubmitLayoff(i)) \/ (\E m \in Moderators : Moderate(m))
      BY <3>3 DEF SubmitLayoff, Moderate, fvars
    <3>4. CASE UNCHANGED vars
      BY <3>4 DEF vars
    <3> QED BY <3>2, <3>3, <3>4 DEF Next
  <2> QED BY <2>2, <2>3, <2>4, <2>5, <2>6, <2>7
<1> QED BY <1>1, <1>2, TypeCorrect, PTL DEF Spec

-----------------------------------------------------------------------------
(***************************************************************************)
(* Corroborations and responses.                                           *)
(***************************************************************************)

LEMMA CorroborateKeepsOthers ==
  ASSUME FlowTypeOK, ChecksStillHold, BackersAreOthers,
         NEW r \in Requests, CorroborateCommit(r)
  PROVE  BackersAreOthers'
<1>1. PICK k \in ReviewIds, u \in Users : k = req[r].review /\ u = req[r].user
  BY KeptByOp DEF CorroborateCommit, FlowTypeOK, Corroborate
<1>2. u \notin Backers(k)
  BY <1>1 DEF CorroborateCommit, BreaksConstraint, Existing
<1>3. review[k].exists /\ review[k].user # u
  BY <1>1 DEF CorroborateCommit, ChecksStillHold
<1>4. /\ backing' = [backing EXCEPT ![k] = Append(@, u)]
      /\ review' = review
  BY <1>1 DEF CorroborateCommit
<1>5. backing[k] \in Seq(Users)
  BY <1>1 DEF FlowTypeOK
<1>6. /\ \A i \in ReviewIds : i # k => backing'[i] = backing[i]
      /\ backing'[k] = Append(backing[k], u)
  BY <1>1, <1>4 DEF FlowTypeOK
<1>7. Len(backing[k]) \in Nat /\ DOMAIN backing[k] = 1..Len(backing[k])
  BY <1>5
<1>8. /\ DOMAIN backing'[k] = 1..(Len(backing[k]) + 1)
      /\ backing'[k][Len(backing[k]) + 1] = u
      /\ \A n \in 1..Len(backing[k]) : backing'[k][n] = backing[k][n]
  BY <1>1, <1>5, <1>6
<1>9. Backers(k)' = Backers(k) \cup {u}
  <2>1. Backers(k)' = {backing'[k][n] : n \in 1..(Len(backing[k]) + 1)}
    BY <1>8 DEF Backers
  <2>2. Backers(k) = {backing'[k][n] : n \in 1..Len(backing[k])}
    BY <1>7, <1>8 DEF Backers
  <2> HIDE DEF Backers
  <2> QED BY <1>7, <1>8, <2>1, <2>2
<1> SUFFICES ASSUME NEW i \in ReviewIds
             PROVE  /\ \A n, l \in DOMAIN backing'[i] :
                         backing'[i][n] = backing'[i][l] => n = l
                    /\ Backers(i)' # {} =>
                         review'[i].exists /\ review'[i].user \notin Backers(i)'
  BY DEF BackersAreOthers
<1>10. CASE i = k
  <2>1. review[k].user \notin Backers(k)
    BY <1>1 DEF BackersAreOthers
  <2>2. ASSUME NEW n \in 1..Len(backing[k]) PROVE backing[k][n] # u
    BY <1>2, <1>7 DEF Backers
  <2>3. ASSUME NEW n \in DOMAIN backing'[k], NEW l \in DOMAIN backing'[k],
               backing'[k][n] = backing'[k][l]
        PROVE  n = l
    <3>1. CASE n \in 1..Len(backing[k]) /\ l \in 1..Len(backing[k])
      BY <1>1, <1>7, <1>8, <2>3, <3>1 DEF BackersAreOthers
    <3>2. CASE n = Len(backing[k]) + 1 /\ l \in 1..Len(backing[k])
      BY <1>8, <2>2, <2>3, <3>2
    <3>3. CASE n \in 1..Len(backing[k]) /\ l = Len(backing[k]) + 1
      BY <1>8, <2>2, <2>3, <3>3
    <3>4. CASE n = Len(backing[k]) + 1 /\ l = Len(backing[k]) + 1
      BY <3>4
    <3> QED BY <1>7, <1>8, <3>1, <3>2, <3>3, <3>4
  <2> QED BY <1>3, <1>4, <1>9, <1>10, <2>1, <2>3
<1>11. CASE i # k
  <2>1. Backers(i)' = Backers(i) /\ backing'[i] = backing[i] /\ review'[i] = review[i]
    BY <1>4, <1>6, <1>11 DEF Backers
  <2> QED BY <2>1 DEF BackersAreOthers
<1> QED BY <1>10, <1>11

\* A review nobody has backed gets an author; the rest keep theirs.
LEMMA PostKeepsOthers ==
  ASSUME FlowTypeOK, FlowTypeOK', BackersAreOthers, [Next]_vars, backing' = backing
  PROVE  BackersAreOthers'
<1> SUFFICES ASSUME NEW i \in ReviewIds
             PROVE  /\ \A n, l \in DOMAIN backing'[i] :
                         backing'[i][n] = backing'[i][l] => n = l
                    /\ Backers(i)' # {} =>
                         review'[i].exists /\ review'[i].user \notin Backers(i)'
  BY DEF BackersAreOthers
<1>1. Backers(i)' = Backers(i)
  BY DEF Backers
<1>2. Backers(i) # {} => review'[i] = review[i]
  BY RowsAreKept DEF BackersAreOthers
<1> QED BY <1>1, <1>2 DEF BackersAreOthers

\* The people behind a review are distinct and its author is not among them,
\* however corroborations race with each other.
THEOREM BackersAreOthersHolds == Spec => []BackersAreOthers
<1>1. Init => BackersAreOthers
  BY DEF Init, BackersAreOthers, Backers
<1>2. /\ TypeOK /\ TypeOK' /\ ChecksStillHold /\ BackersAreOthers /\ [Next]_vars
      => BackersAreOthers'
  <2> SUFFICES ASSUME TypeOK, TypeOK', ChecksStillHold, BackersAreOthers, [Next]_vars
               PROVE  BackersAreOthers'
    OBVIOUS
  <2>1. FlowTypeOK /\ FlowTypeOK'
    BY DEF TypeOK, FlowTypeOK, Rows, Kept
  <2>2. CASE \E r \in Requests : CorroborateCommit(r)
    BY <2>1, <2>2, CorroborateKeepsOthers
  <2>3. CASE backing' = backing
    BY <2>1, <2>3, PostKeepsOthers
  <2>4. (\E r \in Requests : CorroborateCommit(r)) \/ backing' = backing
    BY DEF Next, vars, PostBegin, CorroborateBegin, RespondBegin, Begin,
       PostCommit, RespondCommit, Fail, SubmitLayoff, Moderate, fvars
  <2> QED BY <2>2, <2>3, <2>4
<1> QED BY <1>1, <1>2, TypeCorrect, ChecksHold, PTL DEF Spec

LEMMA RespondKeepsOfficial ==
  ASSUME FlowTypeOK, ChecksStillHold, OneOfficialReply,
         NEW r \in Requests, RespondCommit(r)
  PROVE  OneOfficialReply'
<1>1. PICK k \in ReviewIds, c \in Companies : k = req[r].review /\ c = req[r].company
  BY KeptByOp DEF RespondCommit, FlowTypeOK, Reply
<1>2. reply[k] = <<>>
  BY <1>1 DEF RespondCommit, BreaksConstraint, Existing
<1>3. review[k].exists /\ review[k].company = c
  BY <1>1 DEF RespondCommit, ChecksStillHold
<1>4. /\ reply' = [reply EXCEPT ![k] = Append(@, c)]
      /\ review' = review
  BY <1>1 DEF RespondCommit
<1>5. reply'[k] = <<c>>
  BY <1>1, <1>2, <1>4 DEF FlowTypeOK
<1>6. \A i \in ReviewIds : i # k => reply'[i] = reply[i]
  BY <1>4 DEF FlowTypeOK
<1> SUFFICES ASSUME NEW i \in ReviewIds
             PROVE  /\ Len(reply'[i]) <= 1
                    /\ \A n \in DOMAIN reply'[i] :
                        review'[i].exists /\ reply'[i][n] = review'[i].company
  BY DEF OneOfficialReply
<1>7. CASE i = k
  <2>1. Len(reply'[k]) = 1 /\ DOMAIN reply'[k] = {1} /\ reply'[k][1] = c
    BY <1>5
  <2>2. Len(reply'[i]) <= 1
    BY <1>7, <2>1
  <2>3. review'[k].exists /\ review'[k].company = c
    BY <1>3, <1>4
  <2>4. ASSUME NEW n \in DOMAIN reply'[k]
        PROVE  review'[k].exists /\ reply'[k][n] = review'[k].company
    BY <2>1, <2>3, <2>4
  <2> QED BY <1>7, <2>2, <2>4
<1>8. CASE i # k
  BY <1>4, <1>6, <1>8 DEF OneOfficialReply
<1> QED BY <1>7, <1>8

\* A review is answered once, and by the company it is about.
THEOREM OneOfficialReplyHolds == Spec => []OneOfficialReply
<1>1. Init => OneOfficialReply
  BY DEF Init, OneOfficialReply
<1>2. /\ TypeOK /\ ChecksStillHold /\ OneOfficialReply /\ [Next]_vars
      => OneOfficialReply'
  <2> SUFFICES ASSUME TypeOK, ChecksStillHold, OneOfficialReply, [Next]_vars
               PROVE  OneOfficialReply'
    OBVIOUS
  <2>1. FlowTypeOK
    BY DEF TypeOK, FlowTypeOK, Rows, Kept
  <2>2. CASE \E r \in Requests : RespondCommit(r)
    BY <2>1, <2>2, RespondKeepsOfficial
  <2>3. CASE reply' = reply
    BY <2>1, <2>3, RowsAreKept DEF OneOfficialReply
  <2>4. (\E r \in Requests : RespondCommit(r)) \/ reply' = reply
    BY DEF Next, vars, PostBegin, CorroborateBegin, RespondBegin, Begin,
       PostCommit, CorroborateCommit, Fail, SubmitLayoff, Moderate, fvars
  <2> QED BY <2>2, <2>3, <2>4
<1> QED BY <1>1, <1>2, TypeCorrect, ChecksHold, PTL DEF Spec

=============================================================================
