------------------------------ MODULE TierLadder ------------------------------
(***************************************************************************)
(* How a user climbs the verification tiers: POST /auth/otp/verify,        *)
(* /auth/email/request, /auth/email/verify, /auth/document/upload          *)
(* (app/routers/auth.py) and the admin's document queue                    *)
(* (app/routers/admin.py).                                                 *)
(*                                                                         *)
(* Each request has one database session at READ COMMITTED.  Rows are read *)
(* at one await and written at a later db.commit(), which sends only the   *)
(* columns whose value differs from the one read, by primary key and with  *)
(* no check that the row is still as it was.  The uploaded file is outside *)
(* the transaction: it is written before the row is committed and removed  *)
(* before the decision is committed.                                       *)
(*                                                                         *)
(* The life of one code (expiry, attempts, which code is newest) is not    *)
(* modelled here: every code is for an e-mail address of its own and a     *)
(* verification presents a right code.                                     *)
(***************************************************************************)
EXTENDS Naturals

CONSTANTS
    Users,    \* phone numbers: a user row exists from the first OTP on
    Domains,  \* hashed e-mail domains
    Codes,    \* ids of email_verification_codes
    Docs,     \* ids of moderation_queue rows; the file of a row is named by it
    Requests  \* handlers that can be in flight at once

ASSUME DomainsAssumption == "NULL" \notin Domains

VARIABLES
    tier,    \* users.verification_tier, "none" while there is no row
    domain,  \* users.email_domain_hash
    code,    \* email_verification_codes
    doc,     \* moderation_queue
    files,   \* ephemeral files on disk
    audit,   \* moderation_audit_log of type DOCUMENT
    req      \* what each in-flight handler has read

vars == <<tier, domain, code, doc, files, audit, req>>

Ladder == INSTANCE VerificationLadder

\* VerificationTier; no code path leaves a row at its default, unverified
Tiers    == Ladder!Tiers
Verdicts == {"approve", "reject"}
NoRow    == [exists |-> FALSE]
NoDomain == "NULL"
Idle     == [op |-> "idle"]

CodeRow == [exists : {TRUE}, user : Users, domain : Domains, consumed : BOOLEAN]
DocRow  == [exists : {TRUE}, user : Users, path : BOOLEAN,
            status : {"pending", "approved", "rejected"}]

\* the user row a dependency read at the start of the request
Seen == [tier : Tiers, domain : Domains \cup {NoDomain}]

\* what a handler of each kind keeps across its awaits
OtpLocals    == [op : {"otp"}, user : Users, tier : Tiers]
EmailLocals  == [op : {"email"}, user : Users, seen : Seen]
CodeLocals   == [op : {"confirm"}, user : Users, seen : Seen, code : Codes]
UploadLocals == [op : {"upload"}, user : Users, doc : Docs]
LoadLocals   == [op : {"review"}, doc : Docs, row : DocRow, verdict : Verdicts]
DecideLocals == [op : {"decide"}, doc : Docs, row : DocRow, verdict : Verdicts,
                 tier : Tiers]

Locals == OtpLocals \cup EmailLocals \cup CodeLocals \cup UploadLocals
            \cup LoadLocals \cup DecideLocals \cup {Idle}

\* deps.py require_tier
AtLeast(t, minimum) == Ladder!Rank[t] >= Ladder!Rank[minimum]

Respond(r) == req' = [req EXCEPT ![r] = Idle]

(***************************************************************************)
(* The tier a commit leaves in the row: seen is the tier the handler read, *)
(* t the one in the row by then.  SQLAlchemy writes the column only when   *)
(* the handler assigned a value other than seen.  The uncommented operator *)
(* before a commented one is a broken variant of it, for mutation.         *)
(***************************************************************************)
OtpTierDefault(seen, t) == IF seen = "none" /\ t = "none" THEN "unverified" ELSE t
OtpTierReset(seen, t) == "phone"

\* verify_otp: a new user gets phone; a user with a tier keeps it; a second
\* insert for the same phone breaks the unique index and changes nothing
OtpTier(seen, t) == IF seen = "none" /\ t = "none" THEN "phone" ELSE t

EmailTierReset(seen, t) == IF seen = "email" THEN t ELSE "email"

\* verify_email: only from phone, by what the dependency read
EmailTier(seen, t) == IF seen = "phone" THEN "email" ELSE t

DecidedTierAlways(v, seen, t) == IF seen # "document" THEN "document" ELSE t

\* approve_document assigns document; reject_document does not touch the user
DecidedTier(v, seen, t) ==
    IF v = "approve" /\ seen # "document" THEN "document" ELSE t

UploadMinimumLowered == "phone"

\* the require_tier dependency of upload_document
UploadMinimum == "email"

ConsumeNothing(c) == code

\* code_row.consumed_at = _now()
Consume(c) == [code EXCEPT ![c].consumed = TRUE]

StatusAfter(v) == IF v = "approve" THEN "approved" ELSE "rejected"

FilesAfterKept(l) == IF l.verdict = "approve" THEN files \ {l.doc} ELSE files

\* delete_ephemeral_file for the path of the loaded row; a file that is gone
\* already is no error
FilesAfter(l) == IF l.row.path THEN files \ {l.doc} ELSE files

-----------------------------------------------------------------------------
Init ==
    /\ tier = [u \in Users |-> "none"]
    /\ domain = [u \in Users |-> NoDomain]
    /\ code = [c \in Codes |-> NoRow]
    /\ doc = [d \in Docs |-> NoRow]
    /\ files = {}
    /\ audit = {}
    /\ req = [r \in Requests |-> Idle]

\* verify_otp, with the right code in hand, selects the user by phone hash
OtpRead(r) ==
    /\ req[r] = Idle
    /\ \E u \in Users :
        req' = [req EXCEPT ![r] = [op |-> "otp", user |-> u, tier |-> tier[u]]]
    /\ UNCHANGED <<tier, domain, code, doc, files, audit>>

\* verify_otp commits, or fails on the unique index of phone_hash
OtpCommit(r) ==
    /\ req[r].op = "otp"
    /\ tier' = [tier EXCEPT ![req[r].user] = OtpTier(req[r].tier, @)]
    /\ Respond(r)
    /\ UNCHANGED <<domain, code, doc, files, audit>>

\* request_email_verification commits a code; a tier never drops below phone,
\* so the check made by its dependency still holds here
RequestEmail(u) ==
    /\ AtLeast(tier[u], "phone")
    /\ \E c \in Codes, d \in Domains :
        /\ code[c] = NoRow
        /\ code' = [code EXCEPT ![c] =
                [exists |-> TRUE, user |-> u, domain |-> d, consumed |-> FALSE]]
    /\ UNCHANGED <<tier, domain, doc, files, audit, req>>

\* verify_email: the require_tier(phone) dependency reads the user row
EmailRead(r) ==
    /\ req[r] = Idle
    /\ \E u \in Users :
        /\ AtLeast(tier[u], "phone")
        /\ req' = [req EXCEPT ![r] =
                [op |-> "email", user |-> u,
                 seen |-> [tier |-> tier[u], domain |-> domain[u]]]]
    /\ UNCHANGED <<tier, domain, code, doc, files, audit>>

\* verify_email: the unconsumed code of this user is selected
EmailSelectCode(r) ==
    /\ req[r].op = "email"
    /\ \E c \in Codes :
        /\ code[c].exists /\ code[c].user = req[r].user /\ ~code[c].consumed
        /\ req' = [req EXCEPT ![r] =
                [op |-> "confirm", user |-> @.user, seen |-> @.seen, code |-> c]]
    /\ UNCHANGED <<tier, domain, code, doc, files, audit>>

\* verify_email commits: the code is consumed, the domain and the tier are
\* written where they differ from what the dependency had read
EmailCommit(r) ==
    /\ req[r].op = "confirm"
    /\ LET u == req[r].user
           c == req[r].code
       IN /\ code' = Consume(c)
          /\ domain' = IF code[c].domain = req[r].seen.domain
                       THEN domain
                       ELSE [domain EXCEPT ![u] = code[c].domain]
          /\ tier' = [tier EXCEPT ![u] = EmailTier(req[r].seen.tier, @)]
    /\ Respond(r)
    /\ UNCHANGED <<doc, files, audit>>

\* upload_document: the tier is checked, then the provider writes the file
UploadWrite(r) ==
    /\ req[r] = Idle
    /\ \E u \in Users, d \in Docs :
        /\ AtLeast(tier[u], UploadMinimum)
        /\ doc[d] = NoRow /\ d \notin files
        /\ req' = [req EXCEPT ![r] = [op |-> "upload", user |-> u, doc |-> d]]
        /\ files' = files \cup {d}
    /\ UNCHANGED <<tier, domain, code, doc, audit>>

\* upload_document commits the queue row that points at the file
UploadCommit(r) ==
    /\ req[r].op = "upload"
    /\ doc' = [doc EXCEPT ![req[r].doc] =
            [exists |-> TRUE, user |-> req[r].user, path |-> TRUE,
             status |-> "pending"]]
    /\ Respond(r)
    /\ UNCHANGED <<tier, domain, code, files, audit>>

\* approve_document and reject_document: _load_document_item, with its 409
DocumentLoad(r) ==
    /\ req[r] = Idle
    /\ \E d \in Docs, v \in Verdicts :
        /\ doc[d].exists /\ doc[d].status = "pending"
        /\ req' = [req EXCEPT ![r] =
                [op |-> "review", doc |-> d, row |-> doc[d], verdict |-> v]]
    /\ UNCHANGED <<tier, domain, code, doc, files, audit>>

\* approval reads the user, and both delete the file the loaded row points at
DocumentDelete(r) ==
    /\ req[r].op = "review"
    /\ files' = FilesAfter(req[r])
    /\ req' = [req EXCEPT ![r] =
            [op |-> "decide", doc |-> @.doc, row |-> @.row, verdict |-> @.verdict,
             tier |-> tier[@.row.user]]]
    /\ UNCHANGED <<tier, domain, code, doc, audit>>

\* the decision is committed; approval lifts the user it read to document
DocumentCommit(r) ==
    /\ req[r].op = "decide"
    /\ LET d == req[r].doc
           u == req[r].row.user
           v == req[r].verdict
       IN /\ doc' = [doc EXCEPT ![d].status = StatusAfter(v), ![d].path = FALSE]
          /\ tier' = [tier EXCEPT ![u] = DecidedTier(v, req[r].tier, @)]
          /\ audit' = audit \cup {[doc |-> d, verdict |-> v]}
    /\ Respond(r)
    /\ UNCHANGED <<domain, code, files>>

\* the request dies or its commit fails: the session rolls back, the file
\* system does not
Abort(r) ==
    /\ req[r] # Idle
    /\ Respond(r)
    /\ UNCHANGED <<tier, domain, code, doc, files, audit>>

Next ==
    \/ \E u \in Users : RequestEmail(u)
    \/ \E r \in Requests :
        \/ OtpRead(r) \/ OtpCommit(r)
        \/ EmailRead(r) \/ EmailSelectCode(r) \/ EmailCommit(r)
        \/ UploadWrite(r) \/ UploadCommit(r)
        \/ DocumentLoad(r) \/ DocumentDelete(r) \/ DocumentCommit(r)
        \/ Abort(r)

Spec == Init /\ [][Next]_vars

-----------------------------------------------------------------------------
\* Every table and every handler is well formed.
TypeOK ==
    /\ tier \in [Users -> Tiers]
    /\ domain \in [Users -> Domains \cup {NoDomain}]
    /\ code \in [Codes -> CodeRow \cup {NoRow}]
    /\ doc \in [Docs -> DocRow \cup {NoRow}]
    /\ files \in SUBSET Docs
    /\ audit \in SUBSET [doc : Docs, verdict : Verdicts]
    /\ req \in [Requests -> Locals]

Confirmed(u, d) ==
    \E c \in Codes : /\ code[c].exists /\ code[c].user = u
                     /\ code[c].consumed /\ code[c].domain = d

\* Tier 2 and above stands on a consumed e-mail code of this user, and the
\* user's domain is one that such a code proved.
EmailTierBacked ==
    \A u \in Users :
        AtLeast(tier[u], "email") => Confirmed(u, domain[u])

\* Tier 3 stands on a document of this user that a moderator approved.
DocumentTierBacked ==
    \A u \in Users :
        tier[u] = "document" =>
            \E d \in Docs : /\ doc[d].exists /\ doc[d].user = u
                            /\ [doc |-> d, verdict |-> "approve"] \in audit

\* A queued document belongs to a user who has passed the e-mail tier.
LadderNotSkipped ==
    \A d \in Docs : doc[d].exists => AtLeast(tier[doc[d].user], "email")

\* models/moderation.py: the file is deleted the moment a decision is made.
DecidedFileGone ==
    \A d \in Docs :
        doc[d].exists /\ doc[d].status # "pending" => ~doc[d].path /\ d \notin files

\* What a handler may rely on across its awaits, although nothing locks the
\* rows it read: no step takes these facts away again.
Grounds(r) ==
    LET q == req[r] IN
    /\ q.op \in {"email", "confirm"} =>
        /\ AtLeast(tier[q.user], "phone")
        /\ q.seen.domain # NoDomain => domain[q.user] # NoDomain
    /\ q.op = "confirm" => code[q.code].exists /\ code[q.code].user = q.user
    /\ q.op = "upload" =>
        /\ AtLeast(tier[q.user], "email")
        /\ doc[q.doc] = NoRow /\ q.doc \in files
    /\ q.op \in {"review", "decide"} =>
        /\ doc[q.doc].exists /\ doc[q.doc].user = q.row.user
        /\ q.row.path
    /\ q.op = "decide" => q.doc \notin files

UploadsDistinct ==
    \A r, s \in Requests :
        req[r].op = "upload" /\ req[s].op = "upload" /\ r # s
            => req[r].doc # req[s].doc

HandlersGrounded == UploadsDistinct /\ \A r \in Requests : Grounds(r)

\* A domain, once set, is one this user proved, and a pending row still has
\* its path.
TablesGrounded ==
    /\ \A u \in Users : domain[u] # NoDomain => Confirmed(u, domain[u])
    /\ \A u \in Users : AtLeast(tier[u], "email") => domain[u] # NoDomain
    /\ \A d \in Docs : doc[d].exists /\ doc[d].status = "pending" => doc[d].path

\* The inductive invariant.
Grounded == TablesGrounded /\ HandlersGrounded /\ LadderNotSkipped
                /\ DocumentTierBacked /\ DecidedFileGone

\* Whatever races, a tier moves one rung up, or slips from document to e-mail.
OneRungAtATime ==
    [][\A u \in Users :
        \/ tier'[u] = tier[u]
        \/ Ladder!Rank[tier'[u]] = Ladder!Rank[tier[u]] + 1
        \/ tier[u] = "document" /\ tier'[u] = "email"]_vars

\* README: approval lifts the user to the document tier.
ApprovedMeansTier3 ==
    \A d \in Docs :
        doc[d].exists /\ doc[d].status = "approved" => tier[doc[d].user] = "document"

\* A user holds Tier 3 only while one of their documents stands approved.
Tier3MeansApproved ==
    \A u \in Users :
        tier[u] = "document" =>
            \E d \in Docs : doc[d].exists /\ doc[d].user = u
                             /\ doc[d].status = "approved"

\* The tiers implement the ladder.
LadderSpec == Ladder!Spec

=============================================================================
