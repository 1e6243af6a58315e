------------------------------ MODULE ReviewFlow ------------------------------
(***************************************************************************)
(* Reviews, corroborations and employer responses (app/routers/reviews.py) *)
(* and layoff events (app/routers/layoff_events.py), composed with the     *)
(* moderation queue they feed.                                             *)
(*                                                                         *)
(* Each of the three review endpoints looks for an existing row, then      *)
(* inserts and commits; two requests may both find none, and then the      *)
(* unique constraint of the table decides between them.  The request       *)
(* limiter of POST /reviews is in module RateLimit, the tiers its          *)
(* dependencies demand are in TierLadder.                                  *)
(***************************************************************************)
EXTENDS Naturals, Sequences, FiniteSets

CONSTANTS
    Users,       \* reviewers and corroborators
    Companies,   \* companies, each with one verified employer account
    ReviewIds,   \* ids of the reviews table
    LayoffIds,   \* ids of the layoff_events table
    Moderators,  \* admin requests that can be in flight at once
    Requests     \* other requests that can be in flight at once

ASSUME IdsAssumption == ReviewIds \cap LayoffIds = {}
ASSUME ModeratorsAssumption == IsFiniteSet(Moderators)

VARIABLES
    status, audit, desk,  \* of the moderation queue
    review,               \* reviews: who wrote about which company
    backing,              \* corroborations of a review, in commit order
    reply,                \* employer_responses to a review, in commit order
    req                   \* what each in-flight request is about to insert

fvars == <<review, backing, reply, req>>
vars  == <<status, audit, desk, review, backing, reply, req>>

Queue == INSTANCE Moderation

NoReview  == [exists |-> FALSE]
Idle      == [op |-> "idle"]
ReviewRow == [exists : {TRUE}, user : Users, company : Companies]

Post        == [op : {"post"}, user : Users, company : Companies]
Corroborate == [op : {"corroborate"}, user : Users, review : ReviewIds]
Reply       == [op : {"respond"}, company : Companies, review : ReviewIds]

Backers(i) == {backing[i][n] : n \in DOMAIN backing[i]}

\* the SELECT for a row this request would duplicate; a rejected review counts
Existing(l) ==
    \/ l.op = "post" /\ \E i \in ReviewIds : /\ review[i].exists
                                             /\ review[i].user = l.user
                                             /\ review[i].company = l.company
    \/ l.op = "corroborate" /\ l.user \in Backers(l.review)
    \/ l.op = "respond" /\ reply[l.review] # <<>>

\* Broken variant, for mutation: the table has no unique constraint.
NoConstraint(l) == FALSE

\* uq_reviews_user_company, uq_corroborations_review_user and
\* uq_employer_responses_review_id: the same question, asked by the commit
BreaksConstraint(l) == Existing(l)

\* Broken variant, for mutation: an author may back a review of their own.
AnyBacker(u, i) == TRUE

MayBack(u, i) == review[i].user # u

\* Broken variant, for mutation: a review goes online without moderation.
Publish(i) ==
    /\ status[i] = "ABSENT"
    /\ status' = [status EXCEPT ![i] = "PUBLISHED"]
    /\ UNCHANGED <<audit, desk>>

\* Broken variant, for mutation: a row is stored that no queue knows of.
Forget(i) == status[i] = "ABSENT" /\ UNCHANGED <<status, audit, desk>>

\* every submission is created PENDING
Enqueue(i) == Queue!Submit(i)

Begin(r, l) ==
    /\ req[r] = Idle
    /\ ~Existing(l)
    /\ req' = [req EXCEPT ![r] = l]
    /\ UNCHANGED <<status, audit, desk, review, backing, reply>>

Respond(r) == req' = [req EXCEPT ![r] = Idle]

-----------------------------------------------------------------------------
Init ==
    /\ Queue!Init
    /\ review = [i \in ReviewIds |-> NoReview]
    /\ backing = [i \in ReviewIds |-> <<>>]
    /\ reply = [i \in ReviewIds |-> <<>>]
    /\ req = [r \in Requests |-> Idle]

PostBegin(r) ==
    \E u \in Users, c \in Companies :
        Begin(r, [op |-> "post", user |-> u, company |-> c])

\* any review can be corroborated, whatever its status, but not by its author
CorroborateBegin(r) ==
    \E u \in Users, i \in ReviewIds :
        /\ review[i].exists /\ MayBack(u, i)
        /\ Begin(r, [op |-> "corroborate", user |-> u, review |-> i])

\* an employer answers reviews about its own company, whatever their status
RespondBegin(r) ==
    \E c \in Companies, i \in ReviewIds :
        /\ review[i].exists /\ review[i].company = c
        /\ Begin(r, [op |-> "respond", company |-> c, review |-> i])

PostCommit(r) ==
    /\ req[r].op = "post" /\ ~BreaksConstraint(req[r])
    /\ \E i \in ReviewIds :
        /\ review[i] = NoReview
        /\ review' = [review EXCEPT ![i] = [exists |-> TRUE, user |-> req[r].user,
                                            company |-> req[r].company]]
        /\ Enqueue(i)
    /\ Respond(r)
    /\ UNCHANGED <<backing, reply>>

CorroborateCommit(r) ==
    /\ req[r].op = "corroborate" /\ ~BreaksConstraint(req[r])
    /\ backing' = [backing EXCEPT ![req[r].review] = Append(@, req[r].user)]
    /\ Respond(r)
    /\ UNCHANGED <<status, audit, desk, review, reply>>

RespondCommit(r) ==
    /\ req[r].op = "respond" /\ ~BreaksConstraint(req[r])
    /\ reply' = [reply EXCEPT ![req[r].review] = Append(@, req[r].company)]
    /\ Respond(r)
    /\ UNCHANGED <<status, audit, desk, review, backing>>

\* the commit fails, on a constraint or for any other reason, and is answered
\* as a 409; or the request dies.  The session has rolled back.
Fail(r) ==
    /\ req[r] # Idle
    /\ Respond(r)
    /\ UNCHANGED <<status, audit, desk, review, backing, reply>>

\* POST /layoff-events
SubmitLayoff(i) ==
    /\ Enqueue(i)
    /\ UNCHANGED fvars

\* approve and reject, of module Moderation
Moderate(m) ==
    /\ Queue!Load(m) \/ Queue!Commit(m) \/ Queue!Abort(m)
    /\ UNCHANGED fvars

Next ==
    \/ \E r \in Requests :
        \/ PostBegin(r) \/ CorroborateBegin(r) \/ RespondBegin(r)
        \/ PostCommit(r) \/ CorroborateCommit(r) \/ RespondCommit(r)
        \/ Fail(r)
    \/ \E i \in LayoffIds : SubmitLayoff(i)
    \/ \E m \in Moderators : Moderate(m)

Spec == Init /\ [][Next]_vars

-----------------------------------------------------------------------------
\* The review tables and the requests are well formed, and a review has a
\* moderation status exactly when it has a row.
TypeOK ==
    /\ Queue!TypeOK
    /\ review \in [ReviewIds -> ReviewRow \cup {NoReview}]
    /\ backing \in [ReviewIds -> Seq(Users)]
    /\ reply \in [ReviewIds -> Seq(Companies)]
    /\ req \in [Requests -> Post \cup Corroborate \cup Reply \cup {Idle}]
    /\ \A i \in ReviewIds : review[i].exists <=> status[i] # "ABSENT"

\* A user has one review of a company, published, pending or rejected, however
\* many submissions overlap (README: one review per user per company).
OneReviewPerAuthor ==
    \A i, j \in ReviewIds :
        /\ review[i].exists /\ review[j].exists
        /\ review[i].user = review[j].user /\ review[i].company = review[j].company
        => i = j

\* What corroboration_density counts is people: those behind a review are
\* distinct, none is its author, and the review exists.
BackersAreOthers ==
    \A i \in ReviewIds :
        /\ \A n, k \in DOMAIN backing[i] : backing[i][n] = backing[i][k] => n = k
        /\ Backers(i) # {} => review[i].exists /\ review[i].user \notin Backers(i)

\* A review has at most one response, and it is the reviewed company's.
OneOfficialReply ==
    \A i \in ReviewIds :
        /\ Len(reply[i]) <= 1
        /\ \A n \in DOMAIN reply[i] :
            review[i].exists /\ reply[i][n] = review[i].company

\* Why: what a request has checked of its review still holds when it commits.
\* A review is never deleted and never changes its author or its company.
ChecksStillHold ==
    \A r \in Requests :
        /\ req[r].op = "corroborate" =>
            /\ review[req[r].review].exists
            /\ review[req[r].review].user # req[r].user
        /\ req[r].op = "respond" =>
            /\ review[req[r].review].exists
            /\ review[req[r].review].company = req[r].company

\* The flow keeps the moderation queue's specification: nothing it does decides
\* an item, publishes one, or touches the audit log.
QueueSpec == Queue!Spec

=============================================================================
