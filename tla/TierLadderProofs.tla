--------------------------- MODULE TierLadderProofs ---------------------------
(***************************************************************************)
(* Theorems about TierLadder, for any number of users, codes, documents    *)
(* and concurrent requests.                                                *)
(***************************************************************************)
EXTENDS TierLadder, TLAPS

\* The order of the tiers, spelled out.
LEMMA Ranks ==
  /\ \A t \in Tiers : AtLeast(t, "phone") <=> t # "none"
  /\ \A t \in Tiers : AtLeast(t, "email") <=> t \in {"email", "document"}
  /\ \A s, t \in Tiers :
        \/ s = "none" /\ t = "phone"
        \/ s = "phone" /\ t = "email"
        \/ s = "email" /\ t = "document"
        => Ladder!Rank[t] = Ladder!Rank[s] + 1
  BY DEF AtLeast, Tiers, Ladder!Tiers, Ladder!Rank

\* A handler's op tells which locals it has.
LEMMA Shapes ==
  ASSUME TypeOK, NEW r \in Requests
  PROVE  /\ req[r].op = "otp"     => req[r] \in OtpLocals
         /\ req[r].op = "email"   => req[r] \in EmailLocals
         /\ req[r].op = "confirm" => req[r] \in CodeLocals
         /\ req[r].op = "upload"  => req[r] \in UploadLocals
         /\ req[r].op = "review"  => req[r] \in LoadLocals
         /\ req[r].op = "decide"  => req[r] \in DecideLocals
<1>1. req[r] \in Locals
  BY DEF TypeOK
<1> QED BY <1>1 DEF Locals, OtpLocals, EmailLocals, CodeLocals, UploadLocals,
                    LoadLocals, DecideLocals, Idle

\* The row a handler is about to change exists.
LEMMA Rows ==
  ASSUME TypeOK, HandlersGrounded, NEW r \in Requests
  PROVE  /\ req[r].op = "confirm" =>
                /\ req[r].code \in Codes
                /\ code[req[r].code] \in CodeRow
         /\ req[r].op \in {"review", "decide"} =>
                /\ req[r].doc \in Docs
                /\ doc[req[r].doc] \in DocRow
                /\ req[r].row \in DocRow
<1>1. \A c \in Codes : code[c].exists => code[c] \in CodeRow
  BY DEF TypeOK, NoRow
<1>2. \A d \in Docs : doc[d].exists => doc[d] \in DocRow
  BY DEF TypeOK, NoRow
<1>3. req[r].op = "confirm" => req[r].code \in Codes
  BY Shapes DEF CodeLocals
<1>4. req[r].op \in {"review", "decide"} => req[r].doc \in Docs /\ req[r].row \in DocRow
  BY Shapes DEF LoadLocals, DecideLocals
<1> QED BY <1>1, <1>2, <1>3, <1>4 DEF HandlersGrounded, Grounds

\* Changing fields of a row, as one record.
LEMMA ConsumedRow ==
  ASSUME NEW x \in CodeRow
  PROVE  [x EXCEPT !.consumed = TRUE]
            = [exists |-> TRUE, user |-> x.user, domain |-> x.domain, consumed |-> TRUE]
<1> DEFINE y == [x EXCEPT !.consumed = TRUE]
<1>1. y \in CodeRow
  BY DEF CodeRow
<1>2. y.exists = TRUE /\ y.user = x.user /\ y.domain = x.domain /\ y.consumed = TRUE
  BY DEF CodeRow
<1>3. y = [exists |-> y.exists, user |-> y.user, domain |-> y.domain,
           consumed |-> y.consumed]
  <2> HIDE DEF y
  <2> QED BY <1>1 DEF CodeRow
<1> QED BY <1>2, <1>3

LEMMA DecidedRow ==
  ASSUME NEW x \in DocRow, NEW s \in {"approved", "rejected"}
  PROVE  [[x EXCEPT !.status = s] EXCEPT !.path = FALSE]
            = [exists |-> TRUE, user |-> x.user, path |-> FALSE, status |-> s]
<1> DEFINE y == [[x EXCEPT !.status = s] EXCEPT !.path = FALSE]
<1>1. y \in DocRow
  BY DEF DocRow
<1>2. y.exists = TRUE /\ y.user = x.user /\ y.path = FALSE /\ y.status = s
  BY DEF DocRow
<1>3. y = [exists |-> y.exists, user |-> y.user, path |-> y.path, status |-> y.status]
  <2> HIDE DEF y
  <2> QED BY <1>1 DEF DocRow
<1> QED BY <1>2, <1>3

\* What the two commits write, without nested EXCEPTs.
LEMMA EmailWrites ==
  ASSUME TypeOK, HandlersGrounded, NEW r \in Requests, EmailCommit(r)
  PROVE  LET u == req[r].user
             c == req[r].code
             row == [exists |-> TRUE, user |-> code[c].user,
                     domain |-> code[c].domain, consumed |-> TRUE]
         IN /\ req[r] \in CodeLocals
            /\ code[c] \in CodeRow /\ row \in CodeRow
            /\ code[c].user = u
            /\ code' = [code EXCEPT ![c] = row]
            /\ domain' = IF code[c].domain = req[r].seen.domain
                         THEN domain
                         ELSE [domain EXCEPT ![u] = code[c].domain]
            /\ tier' = [tier EXCEPT ![u] = EmailTier(req[r].seen.tier, tier[u])]
            /\ req' = [req EXCEPT ![r] = Idle]
            /\ UNCHANGED <<doc, files, audit>>
<1> DEFINE c == req[r].code
           row == [exists |-> TRUE, user |-> code[c].user,
                   domain |-> code[c].domain, consumed |-> TRUE]
<1>1. req[r] \in CodeLocals /\ req[r].op = "confirm"
  BY Shapes DEF EmailCommit
<1>2. c \in Codes /\ code[c] \in CodeRow
  BY <1>1, Rows
<1>3. row \in CodeRow
  BY <1>2 DEF CodeRow
<1>4. [code[c] EXCEPT !.consumed = TRUE] = row
  BY <1>2, ConsumedRow
<1>5. Consume(c) = [code EXCEPT ![c] = row]
  BY <1>4 DEF Consume
<1>6. code[c].user = req[r].user
  BY <1>1 DEF HandlersGrounded, Grounds
<1> QED BY <1>1, <1>2, <1>3, <1>5, <1>6 DEF EmailCommit, Respond

LEMMA DocumentWrites ==
  ASSUME TypeOK, HandlersGrounded, NEW r \in Requests, DocumentCommit(r)
  PROVE  LET d == req[r].doc
             u == req[r].row.user
             v == req[r].verdict
             row == [exists |-> TRUE, user |-> doc[d].user, path |-> FALSE,
                     status |-> StatusAfter(v)]
         IN /\ req[r] \in DecideLocals
            /\ doc[d] \in DocRow /\ row \in DocRow
            /\ doc[d].user = u
            /\ doc' = [doc EXCEPT ![d] = row]
            /\ tier' = [tier EXCEPT ![u] = DecidedTier(v, req[r].tier, tier[u])]
            /\ audit' = audit \cup {[doc |-> d, verdict |-> v]}
            /\ req' = [req EXCEPT ![r] = Idle]
            /\ UNCHANGED <<domain, code, files>>
<1> DEFINE d == req[r].doc
           row == [exists |-> TRUE, user |-> doc[d].user, path |-> FALSE,
                   status |-> StatusAfter(req[r].verdict)]
<1>1. req[r] \in DecideLocals /\ req[r].op = "decide"
  BY Shapes DEF DocumentCommit
<1>2. d \in Docs /\ doc[d] \in DocRow
  BY <1>1, Rows
<1>3. row \in DocRow
  BY <1>2 DEF DocRow, StatusAfter
<1>4. [[doc[d] EXCEPT !.status = StatusAfter(req[r].verdict)] EXCEPT !.path = FALSE]
        = row
  BY <1>2, DecidedRow DEF StatusAfter
<1>5. [doc EXCEPT ![d].status = StatusAfter(req[r].verdict), ![d].path = FALSE]
        = [doc EXCEPT ![d] = row]
  <2>1. doc \in [Docs -> DocRow \cup {NoRow}]
    BY DEF TypeOK
  <2> HIDE DEF d
  <2>2. [doc EXCEPT ![d].status = StatusAfter(req[r].verdict), ![d].path = FALSE]
          = [doc EXCEPT ![d] = [[doc[d] EXCEPT !.status = StatusAfter(req[r].verdict)]
                                    EXCEPT !.path = FALSE]]
    BY <1>2, <2>1
  <2> QED BY <1>4, <2>2
<1>6. doc[d].user = req[r].row.user
  BY <1>1 DEF HandlersGrounded, Grounds
<1> QED BY <1>1, <1>2, <1>3, <1>5, <1>6 DEF DocumentCommit, Respond

-----------------------------------------------------------------------------
LEMMA TierValues ==
  ASSUME NEW s \in Tiers, NEW t \in Tiers, NEW v \in Verdicts
  PROVE  /\ OtpTier(s, t) \in Tiers
         /\ EmailTier(s, t) \in Tiers
         /\ DecidedTier(v, s, t) \in Tiers
  BY DEF OtpTier, EmailTier, DecidedTier, Tiers, Ladder!Tiers

\* Every step keeps the state well formed.
LEMMA TypeStep ==
  ASSUME TypeOK, HandlersGrounded, [Next]_vars
  PROVE  TypeOK'
<1>1. ASSUME NEW u \in Users, RequestEmail(u) PROVE TypeOK'
  <2>1. PICK c \in Codes, d \in Domains :
          code' = [code EXCEPT ![c] =
            [exists |-> TRUE, user |-> u, domain |-> d, consumed |-> FALSE]]
    BY <1>1 DEF RequestEmail
  <2>2. [exists |-> TRUE, user |-> u, domain |-> d, consumed |-> FALSE] \in CodeRow
    BY DEF CodeRow
  <2> QED BY <1>1, <2>1, <2>2 DEF TypeOK, RequestEmail
<1>2. ASSUME NEW r \in Requests, OtpRead(r) PROVE TypeOK'
  BY <1>2 DEF TypeOK, OtpRead, Locals, OtpLocals
<1>3. ASSUME NEW r \in Requests, OtpCommit(r) PROVE TypeOK'
  <2>1. req[r] \in OtpLocals
    BY <1>3, Shapes DEF OtpCommit
  <2>2. tier' \in [Users -> Tiers]
    BY <1>3, <2>1, TierValues DEF TypeOK, OtpCommit, OtpLocals, Verdicts
  <2> QED BY <1>3, <2>2 DEF TypeOK, OtpCommit, Respond, Locals
<1>4. ASSUME NEW r \in Requests, EmailRead(r) PROVE TypeOK'
  BY <1>4 DEF TypeOK, EmailRead, Locals, EmailLocals, Seen
<1>5. ASSUME NEW r \in Requests, EmailSelectCode(r) PROVE TypeOK'
  <2>1. req[r] \in EmailLocals
    BY <1>5, Shapes DEF EmailSelectCode
  <2> QED BY <1>5, <2>1
          DEF TypeOK, EmailSelectCode, Locals, EmailLocals, CodeLocals
<1>6. ASSUME NEW r \in Requests, EmailCommit(r) PROVE TypeOK'
  <2> DEFINE u == req[r].user
             c == req[r].code
  <2>1. u \in Users /\ c \in Codes /\ code[c].domain \in Domains
        /\ req[r].seen.tier \in Tiers
    BY <1>6, EmailWrites DEF CodeLocals, CodeRow, Seen
  <2>2. EmailTier(req[r].seen.tier, tier[u]) \in Tiers
    BY <2>1, TierValues DEF TypeOK, Verdicts
  <2>3. tier' \in [Users -> Tiers]
    BY <1>6, <2>1, <2>2, EmailWrites DEF TypeOK
  <2>4. domain' \in [Users -> Domains \cup {NoDomain}]
    BY <1>6, <2>1, EmailWrites DEF TypeOK
  <2>5. code' \in [Codes -> CodeRow \cup {NoRow}]
    BY <1>6, <2>1, EmailWrites DEF TypeOK
  <2> QED BY <1>6, <2>3, <2>4, <2>5, EmailWrites DEF TypeOK, Locals
<1>7. ASSUME NEW r \in Requests, UploadWrite(r) PROVE TypeOK'
  BY <1>7 DEF TypeOK, UploadWrite, Locals, UploadLocals
<1>8. ASSUME NEW r \in Requests, UploadCommit(r) PROVE TypeOK'
  <2>1. req[r] \in UploadLocals
    BY <1>8, Shapes DEF UploadCommit
  <2> QED BY <1>8, <2>1
          DEF TypeOK, UploadCommit, Respond, Locals, UploadLocals, DocRow
<1>9. ASSUME NEW r \in Requests, DocumentLoad(r) PROVE TypeOK'
  <2>1. PICK d \in Docs, v \in Verdicts :
          /\ doc[d].exists
          /\ req' = [req EXCEPT ![r] =
                [op |-> "review", doc |-> d, row |-> doc[d], verdict |-> v]]
    BY <1>9 DEF DocumentLoad
  <2>2. doc[d] \in DocRow
    BY <2>1 DEF TypeOK, NoRow
  <2>3. [op |-> "review", doc |-> d, row |-> doc[d], verdict |-> v] \in Locals
    BY <2>2 DEF Locals, LoadLocals
  <2> QED BY <1>9, <2>1, <2>3 DEF TypeOK, DocumentLoad
<1>10. ASSUME NEW r \in Requests, DocumentDelete(r) PROVE TypeOK'
  <2>1. req[r] \in LoadLocals
    BY <1>10, Shapes DEF DocumentDelete
  <2>2. /\ req[r].doc \in Docs /\ req[r].row \in DocRow
        /\ req[r].verdict \in Verdicts /\ tier[req[r].row.user] \in Tiers
    BY <2>1 DEF LoadLocals, DocRow, TypeOK
  <2>3. [op |-> "decide", doc |-> req[r].doc, row |-> req[r].row,
         verdict |-> req[r].verdict, tier |-> tier[req[r].row.user]] \in Locals
    BY <2>2 DEF Locals, DecideLocals
  <2>4. files' \in SUBSET Docs
    BY <1>10 DEF TypeOK, DocumentDelete, FilesAfter
  <2> QED BY <1>10, <2>3, <2>4 DEF TypeOK, DocumentDelete
<1>11. ASSUME NEW r \in Requests, DocumentCommit(r) PROVE TypeOK'
  <2> DEFINE d == req[r].doc
             u == req[r].row.user
             v == req[r].verdict
  <2>1. d \in Docs /\ u \in Users /\ v \in Verdicts /\ req[r].tier \in Tiers
    BY <1>11, DocumentWrites DEF DecideLocals, DocRow
  <2>2. DecidedTier(v, req[r].tier, tier[u]) \in Tiers
    BY <2>1, TierValues DEF TypeOK
  <2>3. tier' \in [Users -> Tiers]
    BY <1>11, <2>1, <2>2, DocumentWrites DEF TypeOK
  <2>4. doc' \in [Docs -> DocRow \cup {NoRow}]
    BY <1>11, <2>1, DocumentWrites DEF TypeOK
  <2>5. audit' \in SUBSET [doc : Docs, verdict : Verdicts]
    <3>1. [doc |-> d, verdict |-> v] \in [doc : Docs, verdict : Verdicts]
      BY <2>1
    <3>2. audit' = audit \cup {[doc |-> d, verdict |-> v]}
      BY <1>11, DocumentWrites
    <3> HIDE DEF d, v
    <3> QED BY <3>1, <3>2 DEF TypeOK
  <2>6. req' \in [Requests -> Locals]
    BY <1>11, DocumentWrites DEF TypeOK, Locals
  <2> QED BY <1>11, <2>3, <2>4, <2>5, <2>6, DocumentWrites DEF TypeOK
<1>12. ASSUME NEW r \in Requests, Abort(r) PROVE TypeOK'
  BY <1>12 DEF TypeOK, Abort, Respond, Locals
<1>13. CASE UNCHANGED vars
  BY <1>13 DEF TypeOK, vars
<1> QED BY <1>1, <1>2, <1>3, <1>4, <1>5, <1>6, <1>7, <1>8, <1>9, <1>10,
           <1>11, <1>12, <1>13 DEF Next

-----------------------------------------------------------------------------
(***************************************************************************)
(* What any step may do to the tables.  The invariant follows from this    *)
(* without looking at the actions again.                                   *)
(***************************************************************************)
TierMoves ==
  \A u \in Users :
    \/ tier'[u] = tier[u]
    \/ tier[u] = "none" /\ tier'[u] = "phone"
    \/ /\ tier[u] = "phone" /\ tier'[u] = "email"
       /\ domain'[u] # NoDomain
    \/ /\ tier[u] = "email" /\ tier'[u] = "document"
       /\ \E d \in Docs : /\ doc[d].exists /\ doc[d].user = u
                          /\ [doc |-> d, verdict |-> "approve"] \in audit'
    \/ tier[u] = "document" /\ tier'[u] = "email"

DomainMoves ==
  \A u \in Users :
    \/ domain'[u] = domain[u]
    \/ domain'[u] # NoDomain /\ Confirmed(u, domain[u])'

CodeMoves ==
  \A c \in Codes :
    code[c].exists =>
        /\ code'[c].exists
        /\ code'[c].user = code[c].user /\ code'[c].domain = code[c].domain
        /\ code[c].consumed => code'[c].consumed

DocMoves ==
  \A d \in Docs :
    \/ doc'[d] = doc[d]
    \/ /\ doc[d] = NoRow
       /\ \E r \in Requests :
            /\ req[r].op = "upload" /\ req[r].doc = d /\ req'[r] = Idle
            /\ doc'[d].user = req[r].user
       /\ doc'[d].exists /\ doc'[d].path /\ doc'[d].status = "pending"
    \/ /\ doc[d].exists /\ d \notin files'
       /\ doc'[d].exists /\ ~doc'[d].path /\ doc'[d].user = doc[d].user
       /\ doc'[d].status \in {"approved", "rejected"}

FileMoves ==
  \A d \in Docs :
    /\ d \in files /\ d \notin files' => doc[d].exists
    /\ d \notin files /\ d \in files' => doc[d] = NoRow

StepShape == TierMoves /\ DomainMoves /\ CodeMoves /\ DocMoves /\ FileMoves
                /\ audit \subseteq audit'

\* A row that exists has its columns.
LEMMA ExistingRow ==
  ASSUME TypeOK, NEW d \in Docs
  PROVE  /\ doc[d].exists => doc[d] \in DocRow /\ doc[d].user \in Users
         /\ doc[d].exists => doc[d] # NoRow
         /\ ~doc[d].exists => doc[d] = NoRow
<1>1. doc[d] \in DocRow \/ doc[d] = NoRow
  BY DEF TypeOK
<1>2. doc[d] \in DocRow => doc[d].exists = TRUE /\ doc[d].user \in Users
  BY DEF DocRow
<1>3. doc[d] = NoRow => doc[d].exists = FALSE
  BY DEF NoRow
<1> QED BY <1>1, <1>2, <1>3

LEMMA QuietShape ==
  ASSUME UNCHANGED <<tier, domain, code, doc, files, audit>>
  PROVE  StepShape
  BY DEF StepShape, TierMoves, DomainMoves, CodeMoves, DocMoves, FileMoves

LEMMA OtpShape ==
  ASSUME TypeOK, NEW r \in Requests, OtpCommit(r)
  PROVE  StepShape
<1>1. req[r] \in OtpLocals
  BY Shapes DEF OtpCommit
<1>2. TierMoves
  BY <1>1 DEF OtpCommit, OtpLocals, OtpTier, TierMoves, TypeOK
<1> QED BY <1>2
        DEF OtpCommit, StepShape, DomainMoves, CodeMoves, DocMoves, FileMoves

LEMMA RequestShape ==
  ASSUME TypeOK, NEW u \in Users, RequestEmail(u)
  PROVE  StepShape
<1>1. CodeMoves
  BY DEF RequestEmail, CodeMoves, TypeOK, NoRow
<1> QED BY <1>1
        DEF RequestEmail, StepShape, TierMoves, DomainMoves, DocMoves, FileMoves

LEMMA EmailShape ==
  ASSUME TypeOK, HandlersGrounded, NEW r \in Requests, EmailCommit(r)
  PROVE  StepShape
<1> DEFINE u == req[r].user
           c == req[r].code
           row == [exists |-> TRUE, user |-> code[c].user,
                   domain |-> code[c].domain, consumed |-> TRUE]
<1>1. /\ u \in Users /\ c \in Codes
      /\ code[c].domain \in Domains /\ code[c].user = u
      /\ req[r].seen.tier \in Tiers
  BY EmailWrites DEF CodeLocals, CodeRow, Seen
<1>2. /\ code' = [code EXCEPT ![c] = row]
      /\ domain' = IF code[c].domain = req[r].seen.domain
                   THEN domain
                   ELSE [domain EXCEPT ![u] = code[c].domain]
      /\ tier' = [tier EXCEPT ![u] = EmailTier(req[r].seen.tier, tier[u])]
      /\ UNCHANGED <<doc, files, audit>>
  BY EmailWrites
<1>3. req[r].op = "confirm"
  BY DEF EmailCommit
<1>4. /\ AtLeast(tier[u], "phone")
      /\ req[r].seen.domain # NoDomain => domain[u] # NoDomain
  BY <1>3 DEF HandlersGrounded, Grounds
<1>5. tier[u] # "none"
  BY <1>1, <1>4, Ranks DEF TypeOK
<1>6. domain'[u] # NoDomain
  <2>1. code[c].domain # NoDomain
    BY <1>1, DomainsAssumption DEF NoDomain
  <2> QED BY <1>1, <1>2, <1>4, <2>1 DEF TypeOK
<1>7. code' \in [Codes -> CodeRow \cup {NoRow}] /\ code'[c] = row
  <2>1. row \in CodeRow
    BY EmailWrites
  <2> QED BY <1>1, <1>2, <2>1 DEF TypeOK
<1>8. TierMoves
  <2> HIDE DEF u, c
  <2>1. tier \in [Users -> Tiers]
    BY DEF TypeOK
  <2>2. \/ EmailTier(req[r].seen.tier, tier[u]) = tier[u]
        \/ tier[u] = "phone" /\ EmailTier(req[r].seen.tier, tier[u]) = "email"
        \/ tier[u] = "document" /\ EmailTier(req[r].seen.tier, tier[u]) = "email"
    BY <1>1, <1>5, <2>1 DEF EmailTier, Tiers, Ladder!Tiers
  <2> QED BY <1>1, <1>2, <1>6, <2>1, <2>2 DEF TierMoves
<1>9. DomainMoves
  <2>1. /\ code'[c].exists /\ code'[c].user = u
        /\ code'[c].consumed /\ code'[c].domain = code[c].domain
    BY <1>1, <1>7
  <2>2. \A w \in Users : domain'[w] # domain[w] => w = u /\ domain'[u] = code[c].domain
    BY <1>1, <1>2 DEF TypeOK
  <2> HIDE DEF u, c
  <2>3. ASSUME NEW w \in Users, domain'[w] # domain[w]
        PROVE  Confirmed(w, domain[w])'
    BY <1>1, <2>1, <2>2, <2>3 DEF Confirmed
  <2> QED BY <1>6, <2>2, <2>3 DEF DomainMoves
<1>10. CodeMoves
  <2> QED BY <1>1, <1>2, <1>7 DEF CodeMoves, TypeOK
<1> QED BY <1>2, <1>8, <1>9, <1>10 DEF StepShape, DocMoves, FileMoves

LEMMA UploadWriteShape ==
  ASSUME TypeOK, NEW r \in Requests, UploadWrite(r)
  PROVE  StepShape
<1>1. FileMoves
  BY DEF UploadWrite, FileMoves
<1> QED BY <1>1
        DEF UploadWrite, StepShape, TierMoves, DomainMoves, CodeMoves, DocMoves

LEMMA UploadCommitShape ==
  ASSUME TypeOK, HandlersGrounded, NEW r \in Requests, UploadCommit(r)
  PROVE  StepShape
<1>1. req[r] \in UploadLocals /\ req[r].op = "upload"
  BY Shapes DEF UploadCommit
<1>2. doc[req[r].doc] = NoRow /\ req'[r] = Idle
  BY <1>1 DEF HandlersGrounded, Grounds, UploadCommit, Respond, TypeOK
<1>3. DocMoves
  <2> DEFINE row == [exists |-> TRUE, user |-> req[r].user, path |-> TRUE,
                     status |-> "pending"]
  <2>1. req[r].doc \in Docs
    BY <1>1 DEF UploadLocals
  <2>2. doc'[req[r].doc] = row /\ \A e \in Docs : e # req[r].doc => doc'[e] = doc[e]
    BY <2>1 DEF UploadCommit, TypeOK
  <2>3. row.exists = TRUE /\ row.user = req[r].user /\ row.path = TRUE
        /\ row.status = "pending"
    OBVIOUS
  <2> HIDE DEF row
  <2> QED BY <1>1, <1>2, <2>1, <2>2, <2>3 DEF DocMoves
<1> QED BY <1>3
        DEF UploadCommit, StepShape, TierMoves, DomainMoves, CodeMoves, FileMoves

LEMMA DeleteShape ==
  ASSUME TypeOK, HandlersGrounded, NEW r \in Requests, DocumentDelete(r)
  PROVE  StepShape
<1>1. FileMoves
  <2>1. doc[req[r].doc].exists
    BY DEF DocumentDelete, HandlersGrounded, Grounds
  <2> QED BY <2>1 DEF DocumentDelete, FilesAfter, FileMoves
<1> QED BY <1>1
        DEF DocumentDelete, StepShape, TierMoves, DomainMoves, CodeMoves, DocMoves

LEMMA DecideShape ==
  ASSUME TypeOK, HandlersGrounded, LadderNotSkipped,
         NEW r \in Requests, DocumentCommit(r)
  PROVE  StepShape
<1> DEFINE d == req[r].doc
           u == req[r].row.user
           v == req[r].verdict
           row == [exists |-> TRUE, user |-> doc[d].user, path |-> FALSE,
                   status |-> StatusAfter(v)]
<1>1. d \in Docs /\ u \in Users /\ v \in Verdicts /\ req[r].tier \in Tiers
  BY DocumentWrites DEF DecideLocals, DocRow
<1>2. /\ doc' = [doc EXCEPT ![d] = row]
      /\ tier' = [tier EXCEPT ![u] = DecidedTier(v, req[r].tier, tier[u])]
      /\ audit' = audit \cup {[doc |-> d, verdict |-> v]}
      /\ UNCHANGED <<domain, code, files>>
  BY DocumentWrites
<1>3. req[r].op = "decide"
  BY DEF DocumentCommit
<1>4. doc[d].exists /\ doc[d].user = u /\ d \notin files
  BY <1>3 DEF HandlersGrounded, Grounds
<1>5. tier[u] \in {"email", "document"}
  BY <1>1, <1>4, Ranks DEF LadderNotSkipped, TypeOK
<1>6. TierMoves
  <2>1. v = "approve" => [doc |-> d, verdict |-> "approve"] \in audit'
    BY <1>2
  <2> HIDE DEF d, u, v
  <2>2. tier \in [Users -> Tiers]
    BY DEF TypeOK
  <2>3. \/ DecidedTier(v, req[r].tier, tier[u]) = tier[u]
        \/ /\ tier[u] = "email" /\ v = "approve"
           /\ DecidedTier(v, req[r].tier, tier[u]) = "document"
    BY <1>5 DEF DecidedTier
  <2> QED BY <1>1, <1>2, <1>4, <2>1, <2>2, <2>3 DEF TierMoves
<1>7. DocMoves
  <2>1. StatusAfter(v) \in {"approved", "rejected"}
    BY DEF StatusAfter
  <2>2. doc'[d] = [exists |-> TRUE, user |-> doc[d].user, path |-> FALSE,
                   status |-> StatusAfter(v)]
    BY <1>1, <1>2 DEF TypeOK
  <2>3. \A e \in Docs : e # d => doc'[e] = doc[e]
    BY <1>1, <1>2 DEF TypeOK
  <2>4. row.exists = TRUE /\ row.user = doc[d].user /\ row.path = FALSE
        /\ row.status \in {"approved", "rejected"} /\ doc'[d] = row
    BY <2>1, <2>2
  <2> HIDE DEF d, u, v, row
  <2> QED BY <1>1, <1>2, <1>4, <2>3, <2>4 DEF DocMoves
<1> QED BY <1>2, <1>6, <1>7 DEF StepShape, DomainMoves, CodeMoves, FileMoves

\* Every step has this shape.
LEMMA AllShapes ==
  ASSUME TypeOK, HandlersGrounded, LadderNotSkipped, [Next]_vars
  PROVE  StepShape
<1>1. ASSUME NEW r \in Requests,
             OtpRead(r) \/ EmailRead(r) \/ EmailSelectCode(r) \/ DocumentLoad(r)
                \/ Abort(r)
      PROVE  StepShape
  BY <1>1, QuietShape DEF OtpRead, EmailRead, EmailSelectCode, DocumentLoad, Abort
<1>2. CASE UNCHANGED vars
  BY <1>2, QuietShape DEF vars
<1> QED BY <1>1, <1>2, OtpShape, RequestShape, EmailShape, UploadWriteShape,
           UploadCommitShape, DeleteShape, DecideShape DEF Next

-----------------------------------------------------------------------------
(***************************************************************************)
(* From the shape of a step to the invariant.                              *)
(***************************************************************************)

\* A tier that was reached is kept up to e-mail.
LEMMA FloorKept ==
  ASSUME TypeOK, TypeOK', StepShape, NEW u \in Users
  PROVE  /\ AtLeast(tier[u], "phone") => AtLeast(tier'[u], "phone")
         /\ AtLeast(tier[u], "email") => AtLeast(tier'[u], "email")
         /\ domain[u] # NoDomain => domain'[u] # NoDomain
<1>1. tier[u] \in Tiers /\ tier'[u] \in Tiers
  BY DEF TypeOK
<1> QED BY <1>1, Ranks DEF StepShape, TierMoves, DomainMoves

\* A row that is there stays, with its owner.
LEMMA RowsKept ==
  ASSUME TypeOK, TypeOK', StepShape, NEW d \in Docs, doc[d].exists
  PROVE  doc'[d].exists /\ doc'[d].user = doc[d].user
BY ExistingRow DEF StepShape, DocMoves

LEMMA TablesStep ==
  ASSUME TypeOK, TypeOK', TablesGrounded, StepShape
  PROVE  TablesGrounded'
<1>1. ASSUME NEW u \in Users, domain'[u] # NoDomain
      PROVE  Confirmed(u, domain[u])'
  <2>1. CASE domain'[u] = domain[u]
    <3>1. PICK c \in Codes : /\ code[c].exists /\ code[c].user = u
                             /\ code[c].consumed /\ code[c].domain = domain[u]
      BY <1>1, <2>1 DEF TablesGrounded, Confirmed
    <3> QED BY <2>1, <3>1 DEF StepShape, CodeMoves, Confirmed
  <2>2. CASE domain'[u] # domain[u]
    BY <2>2 DEF StepShape, DomainMoves
  <2> QED BY <2>1, <2>2
<1>2. ASSUME NEW u \in Users, AtLeast(tier'[u], "email")
      PROVE  domain'[u] # NoDomain
  <2>1. tier[u] \in Tiers /\ tier'[u] \in Tiers
    BY DEF TypeOK
  <2>2. CASE AtLeast(tier[u], "email")
    BY <2>2, FloorKept DEF TablesGrounded
  <2>3. CASE ~AtLeast(tier[u], "email")
    BY <1>2, <2>1, <2>3, Ranks DEF StepShape, TierMoves
  <2> QED BY <2>2, <2>3
<1>3. ASSUME NEW d \in Docs, doc'[d].exists, doc'[d].status = "pending"
      PROVE  doc'[d].path
  BY <1>3, ExistingRow DEF StepShape, DocMoves, TablesGrounded
<1> QED BY <1>1, <1>2, <1>3 DEF TablesGrounded

LEMMA LadderStep ==
  ASSUME TypeOK, TypeOK', LadderNotSkipped, HandlersGrounded, StepShape
  PROVE  LadderNotSkipped'
<1> SUFFICES ASSUME NEW d \in Docs, doc'[d].exists
             PROVE  AtLeast(tier'[doc'[d].user], "email")
  BY DEF LadderNotSkipped
<1>1. CASE doc[d].exists
  <2>1. doc[d].user \in Users
    BY <1>1, ExistingRow
  <2> QED BY <1>1, <2>1, RowsKept, FloorKept DEF LadderNotSkipped
<1>2. CASE ~doc[d].exists
  <2>1. PICK r \in Requests :
          /\ req[r].op = "upload"
          /\ doc'[d].user = req[r].user
    BY <1>2 DEF StepShape, DocMoves
  <2>2. req[r].user \in Users /\ AtLeast(tier[req[r].user], "email")
    BY <2>1, Shapes DEF HandlersGrounded, Grounds, UploadLocals
  <2> QED BY <2>1, <2>2, FloorKept
<1> QED BY <1>1, <1>2

LEMMA DocumentStep ==
  ASSUME TypeOK, TypeOK', DocumentTierBacked, StepShape
  PROVE  DocumentTierBacked'
<1> SUFFICES ASSUME NEW u \in Users, tier'[u] = "document"
             PROVE  \E d \in Docs :
                        /\ doc'[d].exists /\ doc'[d].user = u
                        /\ [doc |-> d, verdict |-> "approve"] \in audit'
  BY DEF DocumentTierBacked
<1>1. \E d \in Docs : /\ doc[d].exists /\ doc[d].user = u
                      /\ [doc |-> d, verdict |-> "approve"] \in audit'
  BY DEF StepShape, TierMoves, DocumentTierBacked
<1> QED BY <1>1, RowsKept

LEMMA FileStep ==
  ASSUME TypeOK, TypeOK', DecidedFileGone, StepShape
  PROVE  DecidedFileGone'
<1> SUFFICES ASSUME NEW d \in Docs, doc'[d].exists, doc'[d].status # "pending"
             PROVE  ~doc'[d].path /\ d \notin files'
  BY DEF DecidedFileGone
<1>1. CASE doc'[d] = doc[d]
  <2>1. ~doc[d].path /\ d \notin files /\ doc[d] # NoRow
    BY <1>1, ExistingRow DEF DecidedFileGone
  <2> QED BY <1>1, <2>1 DEF StepShape, FileMoves
<1>2. CASE doc'[d] # doc[d]
  BY <1>2 DEF StepShape, DocMoves
<1> QED BY <1>1, <1>2

\* A handler that does not move keeps its ground.
LEMMA StandingKept ==
  ASSUME TypeOK, TypeOK', HandlersGrounded, StepShape,
         NEW s \in Requests, req'[s] = req[s]
  PROVE  Grounds(s)'
<1> DEFINE q == req[s]
<1>1. q.op \in {"email", "confirm"} =>
        /\ AtLeast(tier'[q.user], "phone")
        /\ q.seen.domain # NoDomain => domain'[q.user] # NoDomain
  <2>1. q.op \in {"email", "confirm"} => q.user \in Users
    BY Shapes DEF EmailLocals, CodeLocals
  <2> QED BY <2>1, FloorKept DEF HandlersGrounded, Grounds
<1>2. q.op = "confirm" => code'[q.code].exists /\ code'[q.code].user = q.user
  <2>1. q.op = "confirm" => q.code \in Codes
    BY Shapes DEF CodeLocals
  <2> QED BY <2>1 DEF HandlersGrounded, Grounds, StepShape, CodeMoves
<1>3. ASSUME q.op = "upload"
      PROVE  /\ AtLeast(tier'[q.user], "email")
             /\ doc'[q.doc] = NoRow /\ q.doc \in files'
  <2>1. q.user \in Users /\ q.doc \in Docs
    BY <1>3, Shapes DEF UploadLocals
  <2>2. /\ AtLeast(tier[q.user], "email")
        /\ doc[q.doc] = NoRow /\ q.doc \in files
    BY <1>3 DEF HandlersGrounded, Grounds
  <2>3. ~doc[q.doc].exists
    BY <2>2 DEF NoRow
  <2>4. doc'[q.doc] = doc[q.doc]
    <3>1. SUFFICES ASSUME NEW r \in Requests, req[r].op = "upload",
                          req[r].doc = q.doc, req'[r] = Idle
                   PROVE  FALSE
      BY <2>1, <2>3 DEF StepShape, DocMoves
    <3>2. r # s
      BY <1>3, <3>1 DEF Idle
    <3> QED BY <1>3, <3>1, <3>2 DEF HandlersGrounded, UploadsDistinct
  <2> QED BY <2>1, <2>2, <2>3, <2>4, FloorKept DEF StepShape, FileMoves
<1>4. q.op \in {"review", "decide"} =>
        /\ doc'[q.doc].exists /\ doc'[q.doc].user = q.row.user
        /\ q.row.path
  <2>1. q.op \in {"review", "decide"} => q.doc \in Docs
    BY Shapes DEF LoadLocals, DecideLocals
  <2> QED BY <2>1, RowsKept DEF HandlersGrounded, Grounds
<1>5. q.op = "decide" => q.doc \notin files'
  <2>1. q.op = "decide" => q.doc \in Docs /\ q.doc \notin files /\ doc[q.doc] # NoRow
    BY Shapes DEF DecideLocals, HandlersGrounded, Grounds, NoRow
  <2> QED BY <2>1 DEF StepShape, FileMoves
<1> QED BY <1>1, <1>2, <1>3, <1>4, <1>5 DEF Grounds

\* A handler that has answered, or has only read the user by phone number,
\* relies on nothing.
LEMMA NothingToGround ==
  ASSUME NEW r \in Requests, req'[r].op \in {"idle", "otp"}
  PROVE  Grounds(r)'
BY DEF Grounds

\* Only the handler that acts changes its locals.
LEMMA HandlersStep ==
  ASSUME TypeOK, TypeOK', HandlersGrounded, StepShape, NEW r \in Requests,
         \A s \in Requests \ {r} : req'[s] = req[s],
         Grounds(r)',
         req'[r].op = "upload" /\ req[r] # req'[r] =>
            \A s \in Requests \ {r} : req[s].op = "upload" => req[s].doc # req'[r].doc
  PROVE  HandlersGrounded'
<1>1. ASSUME NEW s \in Requests PROVE Grounds(s)'
  BY <1>1, StandingKept
<1>2. UploadsDistinct'
  BY DEF HandlersGrounded, UploadsDistinct
<1> QED BY <1>1, <1>2 DEF HandlersGrounded

\* Every step keeps the ground under every handler.
LEMMA AllHandlersStep ==
  ASSUME TypeOK, TypeOK', TablesGrounded, HandlersGrounded, StepShape, [Next]_vars
  PROVE  HandlersGrounded'
<1>1. ASSUME NEW u \in Users, RequestEmail(u) PROVE HandlersGrounded'
  <2>1. req' = req
    BY <1>1 DEF RequestEmail
  <2>2. \A s \in Requests : Grounds(s)'
    BY <2>1, StandingKept
  <2>3. UploadsDistinct'
    BY <2>1 DEF HandlersGrounded, UploadsDistinct
  <2> QED BY <2>2, <2>3 DEF HandlersGrounded
<1>2. ASSUME NEW r \in Requests, OtpRead(r) PROVE HandlersGrounded'
  <2>1. req'[r].op = "otp" /\ \A s \in Requests \ {r} : req'[s] = req[s]
    BY <1>2 DEF OtpRead, TypeOK
  <2> QED BY <2>1, NothingToGround, HandlersStep
<1>3. ASSUME NEW r \in Requests,
             \/ OtpCommit(r) \/ EmailCommit(r) \/ UploadCommit(r)
             \/ DocumentCommit(r) \/ Abort(r)
      PROVE  HandlersGrounded'
  <2>1. req' = [req EXCEPT ![r] = Idle]
    BY <1>3 DEF OtpCommit, EmailCommit, UploadCommit, DocumentCommit, Abort, Respond
  <2>2. req'[r].op = "idle" /\ \A s \in Requests \ {r} : req'[s] = req[s]
    BY <2>1 DEF TypeOK, Idle
  <2> QED BY <2>2, NothingToGround, HandlersStep
<1>4. ASSUME NEW r \in Requests, EmailRead(r) PROVE HandlersGrounded'
  <2>1. PICK u \in Users :
          /\ AtLeast(tier[u], "phone")
          /\ req' = [req EXCEPT ![r] =
                [op |-> "email", user |-> u,
                 seen |-> [tier |-> tier[u], domain |-> domain[u]]]]
    BY <1>4 DEF EmailRead
  <2>2. /\ req'[r].op = "email" /\ req'[r].user = u
        /\ req'[r].seen.domain = domain[u]
        /\ \A s \in Requests \ {r} : req'[s] = req[s]
    BY <2>1 DEF TypeOK
  <2>3. tier' = tier /\ domain' = domain
    BY <1>4 DEF EmailRead
  <2>4. Grounds(r)'
    BY <2>1, <2>2, <2>3 DEF Grounds
  <2> QED BY <2>2, <2>4, HandlersStep
<1>5. ASSUME NEW r \in Requests, EmailSelectCode(r) PROVE HandlersGrounded'
  <2>1. PICK c \in Codes :
          /\ code[c].exists /\ code[c].user = req[r].user
          /\ req' = [req EXCEPT ![r] =
                [op |-> "confirm", user |-> req[r].user, seen |-> req[r].seen,
                 code |-> c]]
    BY <1>5 DEF EmailSelectCode
  <2>2. /\ req'[r].op = "confirm" /\ req'[r].user = req[r].user
        /\ req'[r].seen = req[r].seen /\ req'[r].code = c
        /\ \A s \in Requests \ {r} : req'[s] = req[s]
    BY <2>1 DEF TypeOK
  <2>3. tier' = tier /\ domain' = domain /\ code' = code /\ req[r].op = "email"
    BY <1>5 DEF EmailSelectCode
  <2>4. Grounds(r)'
    BY <2>1, <2>2, <2>3 DEF Grounds, HandlersGrounded
  <2> QED BY <2>2, <2>4, HandlersStep
<1>6. ASSUME NEW r \in Requests, UploadWrite(r) PROVE HandlersGrounded'
  <2>1. PICK u \in Users, d \in Docs :
          /\ AtLeast(tier[u], "email")
          /\ doc[d] = NoRow /\ d \notin files
          /\ req' = [req EXCEPT ![r] = [op |-> "upload", user |-> u, doc |-> d]]
          /\ files' = files \cup {d}
    BY <1>6 DEF UploadWrite, UploadMinimum
  <2>2. /\ req'[r].op = "upload" /\ req'[r].user = u /\ req'[r].doc = d
        /\ \A s \in Requests \ {r} : req'[s] = req[s]
    BY <2>1 DEF TypeOK
  <2>3. tier' = tier /\ doc' = doc
    BY <1>6 DEF UploadWrite
  <2>4. Grounds(r)'
    BY <2>1, <2>2, <2>3 DEF Grounds
  <2>5. \A s \in Requests : req[s].op = "upload" => req[s].doc # d
    BY <2>1 DEF HandlersGrounded, Grounds
  <2> QED BY <2>2, <2>4, <2>5, HandlersStep
<1>7. ASSUME NEW r \in Requests, DocumentLoad(r) PROVE HandlersGrounded'
  <2>1. PICK d \in Docs, v \in Verdicts :
          /\ doc[d].exists /\ doc[d].status = "pending"
          /\ req' = [req EXCEPT ![r] =
                [op |-> "review", doc |-> d, row |-> doc[d], verdict |-> v]]
    BY <1>7 DEF DocumentLoad
  <2>2. /\ req'[r].op = "review" /\ req'[r].doc = d /\ req'[r].row = doc[d]
        /\ \A s \in Requests \ {r} : req'[s] = req[s]
    BY <2>1 DEF TypeOK
  <2>3. doc' = doc
    BY <1>7 DEF DocumentLoad
  <2>4. Grounds(r)'
    BY <2>1, <2>2, <2>3 DEF Grounds, TablesGrounded
  <2> QED BY <2>2, <2>4, HandlersStep
<1>8. ASSUME NEW r \in Requests, DocumentDelete(r) PROVE HandlersGrounded'
  <2>1. req[r].op = "review" /\ req[r].row.path
    BY <1>8 DEF DocumentDelete, HandlersGrounded, Grounds
  <2>2. /\ req'[r].op = "decide" /\ req'[r].doc = req[r].doc
        /\ req'[r].row = req[r].row
        /\ \A s \in Requests \ {r} : req'[s] = req[s]
    BY <1>8 DEF DocumentDelete, TypeOK
  <2>3. doc' = doc /\ files' = files \ {req[r].doc}
    BY <1>8, <2>1 DEF DocumentDelete, FilesAfter
  <2>4. Grounds(r)'
    BY <2>1, <2>2, <2>3 DEF Grounds, HandlersGrounded
  <2> QED BY <2>2, <2>4, HandlersStep
<1>9. CASE UNCHANGED vars
  <2>1. req' = req
    BY <1>9 DEF vars
  <2>2. \A s \in Requests : Grounds(s)'
    BY <2>1, StandingKept
  <2>3. UploadsDistinct'
    BY <2>1 DEF HandlersGrounded, UploadsDistinct
  <2> QED BY <2>2, <2>3 DEF HandlersGrounded
<1> QED BY <1>1, <1>2, <1>3, <1>4, <1>5, <1>6, <1>7, <1>8, <1>9 DEF Next

-----------------------------------------------------------------------------
\* The inductive invariant: types, what the tables prove about each other, and
\* what each handler may still rely on.
THEOREM GroundedHolds == Spec => [](TypeOK /\ Grounded)
<1>1. Init => TypeOK /\ Grounded
  <2> SUFFICES ASSUME Init PROVE TypeOK /\ Grounded
    OBVIOUS
  <2>1. TypeOK
    BY DEF Init, TypeOK, Tiers, Ladder!Tiers, Locals, NoDomain
  <2>2. /\ \A u \in Users : tier[u] = "none" /\ domain[u] = NoDomain
        /\ \A d \in Docs : doc[d].exists = FALSE
        /\ \A r \in Requests : req[r].op = "idle"
    BY DEF Init, NoRow, Idle
  <2>3. \A u \in Users : ~AtLeast(tier[u], "email")
    BY <2>2, Ranks DEF Tiers, Ladder!Tiers
  <2> QED BY <2>1, <2>2, <2>3
          DEF Grounded, TablesGrounded, HandlersGrounded, Grounds, UploadsDistinct,
              LadderNotSkipped, DocumentTierBacked, DecidedFileGone
<1>2. TypeOK /\ Grounded /\ [Next]_vars => (TypeOK /\ Grounded)'
  <2> SUFFICES ASSUME TypeOK, Grounded, [Next]_vars PROVE TypeOK' /\ Grounded'
    OBVIOUS
  <2> USE DEF Grounded
  <2>1. TypeOK' /\ StepShape
    BY TypeStep, AllShapes
  <2> QED BY <2>1, TablesStep, AllHandlersStep, LadderStep, DocumentStep, FileStep
<1> QED BY <1>1, <1>2, PTL DEF Spec

\* Every reachable state is well formed.
THEOREM TypeCorrect == Spec => []TypeOK
BY GroundedHolds, PTL

\* Whatever the interleaving and whatever fails, the e-mail tier stands on a
\* consumed code that proved the user's domain.
THEOREM EmailTierIsBacked == Spec => []EmailTierBacked
<1>1. Grounded => EmailTierBacked
  BY DEF Grounded, TablesGrounded, EmailTierBacked
<1> QED BY <1>1, GroundedHolds, PTL

\* The document tier stands on an approval in the audit log.
THEOREM DocumentTierIsBacked == Spec => []DocumentTierBacked
<1>1. Grounded => DocumentTierBacked
  BY DEF Grounded
<1> QED BY <1>1, GroundedHolds, PTL

\* Nobody reaches the document queue without the e-mail tier.
THEOREM LadderIsNotSkipped == Spec => []LadderNotSkipped
<1>1. Grounded => LadderNotSkipped
  BY DEF Grounded
<1> QED BY <1>1, GroundedHolds, PTL

\* The file of a decided document is gone, even when decisions raced.
THEOREM DecidedFileIsGone == Spec => []DecidedFileGone
<1>1. Grounded => DecidedFileGone
  BY DEF Grounded
<1> QED BY <1>1, GroundedHolds, PTL

\* No interleaving makes a tier jump a rung, and none loses more than the
\* document rung.
THEOREM LadderMovesByRungs == Spec => OneRungAtATime
<1>1. TypeOK /\ TypeOK' /\ Grounded /\ [Next]_vars =>
        [\A u \in Users :
            \/ tier'[u] = tier[u]
            \/ Ladder!Rank[tier'[u]] = Ladder!Rank[tier[u]] + 1
            \/ tier[u] = "document" /\ tier'[u] = "email"]_vars
  <2> SUFFICES ASSUME TypeOK, TypeOK', Grounded, [Next]_vars, NEW u \in Users
               PROVE  \/ tier'[u] = tier[u]
                      \/ Ladder!Rank[tier'[u]] = Ladder!Rank[tier[u]] + 1
                      \/ tier[u] = "document" /\ tier'[u] = "email"
    OBVIOUS
  <2>1. TierMoves
    BY AllShapes DEF Grounded, StepShape
  <2>2. tier[u] \in Tiers /\ tier'[u] \in Tiers
    BY DEF TypeOK
  <2> QED BY <2>1, <2>2, Ranks DEF TierMoves
<1> QED BY <1>1, GroundedHolds, PTL DEF Spec, OneRungAtATime

-----------------------------------------------------------------------------
(***************************************************************************)
(* With requests served one at a time the tiers implement the ladder.      *)
(***************************************************************************)

\* The tier a lone e-mail verification read is still the one in the row.
SeenCurrent ==
  \A r \in Requests :
    req[r].op \in {"email", "confirm"} => req[r].seen.tier = tier[req[r].user]

LEMMA SeenStep ==
  ASSUME \A r, s \in Requests : r = s,
         TypeOK, SeenCurrent, [Next]_vars
  PROVE  SeenCurrent'
<1> SUFFICES ASSUME NEW s \in Requests, req'[s].op \in {"email", "confirm"}
             PROVE  req'[s].seen.tier = tier'[req'[s].user]
  BY DEF SeenCurrent
<1>1. ASSUME NEW u \in Users, RequestEmail(u) \/ UNCHANGED vars
      PROVE  req'[s].seen.tier = tier'[req'[s].user]
  BY <1>1 DEF RequestEmail, vars, SeenCurrent
<1>2. ASSUME \/ OtpCommit(s) \/ EmailCommit(s) \/ UploadCommit(s)
             \/ DocumentCommit(s) \/ Abort(s)
      PROVE  FALSE
  <2>1. req'[s] = Idle
    BY <1>2 DEF OtpCommit, EmailCommit, UploadCommit, DocumentCommit, Abort,
                Respond, TypeOK
  <2> QED BY <2>1 DEF Idle
<1>3. ASSUME OtpRead(s) \/ UploadWrite(s) \/ DocumentLoad(s) \/ DocumentDelete(s)
      PROVE  FALSE
  <2>1. req'[s].op \in {"otp", "upload", "review", "decide"}
    BY <1>3 DEF OtpRead, UploadWrite, DocumentLoad, DocumentDelete, TypeOK
  <2> QED BY <2>1
<1>4. CASE EmailRead(s)
  BY <1>4 DEF EmailRead, TypeOK
<1>5. CASE EmailSelectCode(s)
  BY <1>5 DEF EmailSelectCode, TypeOK, SeenCurrent
<1>6. CASE UNCHANGED vars
  BY <1>6 DEF vars, SeenCurrent
<1> QED BY <1>1, <1>2, <1>3, <1>4, <1>5, <1>6 DEF Next

\* A commit that changes one user's tier by one rung is a Climb.
LEMMA OneClimb ==
  ASSUME TypeOK, NEW u \in Users, NEW t \in Tiers,
         tier' = [tier EXCEPT ![u] = t],
         \/ t = tier[u]
         \/ tier[u] = "none" /\ t = "phone"
         \/ tier[u] = "phone" /\ t = "email"
         \/ tier[u] = "email" /\ t = "document"
  PROVE  [Ladder!Next]_tier
<1>1. tier[u] \in Tiers /\ t \in Ladder!Tiers
  BY DEF TypeOK, Tiers
<1>2. CASE t = tier[u]
  BY <1>2 DEF TypeOK
<1>3. CASE t # tier[u]
  <2>1. Ladder!Rank[t] = Ladder!Rank[tier[u]] + 1
    BY <1>1, <1>3, Ranks
  <2> QED BY <1>1, <2>1 DEF Ladder!Next, Ladder!Climb
<1> QED BY <1>2, <1>3

\* One request at a time, the tiers climb rung by rung and never come down.
THEOREM SerialImplementsLadder ==
  ASSUME \A r, s \in Requests : r = s
  PROVE  Spec => LadderSpec
<1>1. Init => Ladder!Init /\ SeenCurrent
  BY DEF Init, Ladder!Init, SeenCurrent, Idle
<1>2. TypeOK /\ SeenCurrent /\ [Next]_vars => SeenCurrent'
  BY SeenStep
<1>3. TypeOK /\ Grounded /\ SeenCurrent /\ [Next]_vars => [Ladder!Next]_tier
  <2> SUFFICES ASSUME TypeOK, Grounded, SeenCurrent, [Next]_vars
               PROVE  [Ladder!Next]_tier
    OBVIOUS
  <2>1. ASSUME NEW r \in Requests, OtpCommit(r) PROVE [Ladder!Next]_tier
    <3> DEFINE u == req[r].user
    <3>1. u \in Users /\ req[r].tier \in Tiers
      BY <2>1, Shapes DEF OtpCommit, OtpLocals
    <3>2. OtpTier(req[r].tier, tier[u]) \in Tiers
      BY <3>1, TierValues DEF TypeOK, Verdicts
    <3>3. tier' = [tier EXCEPT ![u] = OtpTier(req[r].tier, tier[u])]
      BY <2>1 DEF OtpCommit
    <3>4. \/ OtpTier(req[r].tier, tier[u]) = tier[u]
          \/ tier[u] = "none" /\ OtpTier(req[r].tier, tier[u]) = "phone"
      BY DEF OtpTier
    <3> HIDE DEF u
    <3> QED BY <3>1, <3>2, <3>3, <3>4, OneClimb
  <2>2. ASSUME NEW r \in Requests, EmailCommit(r) PROVE [Ladder!Next]_tier
    <3> DEFINE u == req[r].user
    <3>1. u \in Users /\ req[r].seen.tier \in Tiers /\ req[r].op = "confirm"
      BY <2>2, Shapes DEF EmailCommit, CodeLocals, Seen
    <3>2. req[r].seen.tier = tier[u]
      BY <3>1 DEF SeenCurrent
    <3>3. EmailTier(tier[u], tier[u]) \in Tiers
      BY <3>1, <3>2, TierValues DEF TypeOK, Verdicts
    <3>4. tier' = [tier EXCEPT ![u] = EmailTier(tier[u], tier[u])]
      BY <2>2, <3>2 DEF EmailCommit
    <3>5. \/ EmailTier(tier[u], tier[u]) = tier[u]
          \/ tier[u] = "phone" /\ EmailTier(tier[u], tier[u]) = "email"
      BY DEF EmailTier
    <3> HIDE DEF u
    <3> QED BY <3>1, <3>3, <3>4, <3>5, OneClimb
  <2>3. ASSUME NEW r \in Requests, DocumentCommit(r) PROVE [Ladder!Next]_tier
    <3> DEFINE u == req[r].row.user
               t == DecidedTier(req[r].verdict, req[r].tier, tier[u])
    <3>1. /\ u \in Users /\ req[r].tier \in Tiers /\ req[r].verdict \in Verdicts
          /\ req[r].op = "decide" /\ req[r].doc \in Docs
      BY <2>3, Shapes DEF DocumentCommit, DecideLocals, DocRow
    <3>2. t \in Tiers
      BY <3>1, TierValues DEF TypeOK
    <3>3. tier' = [tier EXCEPT ![u] = t]
      BY <2>3 DEF DocumentCommit
    <3>4. doc[req[r].doc].exists /\ doc[req[r].doc].user = u
      BY <3>1 DEF Grounded, HandlersGrounded, Grounds
    <3>5. tier[u] \in {"email", "document"}
      BY <3>1, <3>4, Ranks DEF Grounded, LadderNotSkipped, TypeOK
    <3>6. t = tier[u] \/ (tier[u] = "email" /\ t = "document")
      BY <3>5 DEF DecidedTier
    <3> HIDE DEF u, t
    <3> QED BY <3>1, <3>2, <3>3, <3>6, OneClimb
  <2>4. ASSUME NEW r \in Requests,
               \/ OtpRead(r) \/ EmailRead(r) \/ EmailSelectCode(r) \/ UploadWrite(r)
               \/ UploadCommit(r) \/ DocumentLoad(r) \/ DocumentDelete(r) \/ Abort(r)
        PROVE  UNCHANGED tier
    BY <2>4 DEF OtpRead, EmailRead, EmailSelectCode, UploadWrite, UploadCommit,
                DocumentLoad, DocumentDelete, Abort
  <2>5. ASSUME NEW u \in Users, RequestEmail(u) PROVE UNCHANGED tier
    BY <2>5 DEF RequestEmail
  <2>6. CASE UNCHANGED vars
    BY <2>6 DEF vars
  <2> QED BY <2>1, <2>2, <2>3, <2>4, <2>5, <2>6 DEF Next
<1> QED BY <1>1, <1>2, <1>3, GroundedHolds, PTL
        DEF Spec, LadderSpec, Ladder!Spec

-----------------------------------------------------------------------------
(***************************************************************************)
(* With requests served one at a time an approved document and Tier 3 are  *)
(* one and the same.                                                       *)
(***************************************************************************)

\* What a lone decision loaded is still so when it commits.
DecisionFresh ==
  \A r \in Requests :
    /\ req[r].op \in {"review", "decide"} => doc[req[r].doc].status = "pending"
    /\ req[r].op = "decide" => req[r].tier = tier[req[r].row.user]

LEMMA DecisionStep ==
  ASSUME \A r, s \in Requests : r = s,
         TypeOK, DecisionFresh, [Next]_vars
  PROVE  DecisionFresh'
<1> SUFFICES ASSUME NEW s \in Requests, req'[s].op \in {"review", "decide"}
             PROVE  /\ doc'[req'[s].doc].status = "pending"
                    /\ req'[s].op = "decide" =>
                            req'[s].tier = tier'[req'[s].row.user]
  BY DEF DecisionFresh
<1>1. ASSUME NEW u \in Users, RequestEmail(u)
      PROVE  UNCHANGED <<doc, tier, req>>
  BY <1>1 DEF RequestEmail
<1>2. CASE UNCHANGED <<doc, tier, req>>
  BY <1>2 DEF DecisionFresh
<1>3. ASSUME \/ OtpCommit(s) \/ EmailCommit(s) \/ UploadCommit(s)
             \/ DocumentCommit(s) \/ Abort(s)
      PROVE  FALSE
  <2>1. req'[s] = Idle
    BY <1>3 DEF OtpCommit, EmailCommit, UploadCommit, DocumentCommit, Abort,
                Respond, TypeOK
  <2> QED BY <2>1 DEF Idle
<1>4. ASSUME OtpRead(s) \/ UploadWrite(s) \/ EmailRead(s) \/ EmailSelectCode(s)
      PROVE  FALSE
  <2>1. req'[s].op \in {"otp", "upload", "email", "confirm"}
    BY <1>4 DEF OtpRead, UploadWrite, EmailRead, EmailSelectCode, TypeOK
  <2> QED BY <2>1
<1>5. CASE DocumentLoad(s)
  BY <1>5 DEF DocumentLoad, TypeOK
<1>6. CASE DocumentDelete(s)
  BY <1>6 DEF DocumentDelete, TypeOK, DecisionFresh
<1>7. CASE UNCHANGED vars
  BY <1>2, <1>7 DEF vars
<1> QED BY <1>1, <1>2, <1>3, <1>4, <1>5, <1>6, <1>7 DEF Next

\* A step that moves nobody onto or off the top, and no document into or out of
\* approval, keeps the two together.
Approvals == {d \in Docs : doc[d].exists /\ doc[d].status = "approved"}

LEMMA TopKept ==
  ASSUME ApprovedMeansTier3, Tier3MeansApproved,
         \A u \in Users : tier'[u] = "document" <=> tier[u] = "document",
         Approvals' = Approvals,
         \A d \in Approvals : doc'[d].user = doc[d].user /\ doc[d].user \in Users
  PROVE  ApprovedMeansTier3' /\ Tier3MeansApproved'
<1>1. ASSUME NEW d \in Docs, doc'[d].exists, doc'[d].status = "approved"
      PROVE  tier'[doc'[d].user] = "document"
  <2>1. d \in Approvals
    BY <1>1 DEF Approvals
  <2> QED BY <2>1 DEF Approvals, ApprovedMeansTier3
<1>2. ASSUME NEW u \in Users, tier'[u] = "document"
      PROVE  \E d \in Docs : doc'[d].exists /\ doc'[d].user = u
                              /\ doc'[d].status = "approved"
  <2>1. PICK d \in Docs : doc[d].exists /\ doc[d].user = u /\ doc[d].status = "approved"
    BY <1>2 DEF Tier3MeansApproved
  <2>2. d \in Approvals /\ d \in Approvals'
    BY <2>1 DEF Approvals
  <2> QED BY <2>1, <2>2 DEF Approvals
<1> QED BY <1>1, <1>2 DEF ApprovedMeansTier3, Tier3MeansApproved

\* The decision itself: an approval puts the user of a pending document on top.
LEMMA DecisionKeepsTop ==
  ASSUME TypeOK, HandlersGrounded, DecisionFresh,
         ApprovedMeansTier3, Tier3MeansApproved,
         NEW r \in Requests, DocumentCommit(r)
  PROVE  ApprovedMeansTier3' /\ Tier3MeansApproved'
<1> DEFINE d == req[r].doc
           u == req[r].row.user
           v == req[r].verdict
<1>1. /\ d \in Docs /\ u \in Users /\ v \in Verdicts /\ req[r].tier \in Tiers
      /\ doc' = [doc EXCEPT ![d] = [exists |-> TRUE, user |-> doc[d].user,
                                    path |-> FALSE, status |-> StatusAfter(v)]]
      /\ tier' = [tier EXCEPT ![u] = DecidedTier(v, req[r].tier, tier[u])]
  BY DocumentWrites DEF DecideLocals, DocRow
<1>2. req[r].op = "decide"
  BY DEF DocumentCommit
<1>3. /\ doc[d].exists /\ doc[d].user = u /\ doc[d].status = "pending"
      /\ req[r].tier = tier[u]
  BY <1>2 DEF HandlersGrounded, Grounds, DecisionFresh
<1>4. /\ doc'[d].exists /\ doc'[d].user = u /\ doc'[d].status = StatusAfter(v)
      /\ \A e \in Docs : e # d => doc'[e] = doc[e]
  BY <1>1, <1>3 DEF TypeOK
<1>5. /\ tier'[u] = IF v = "approve" THEN "document" ELSE tier[u]
      /\ \A w \in Users : w # u => tier'[w] = tier[w]
  BY <1>1, <1>3 DEF TypeOK, DecidedTier
<1>6. \A e \in Docs : doc[e].exists => doc[e].user \in Users
  BY ExistingRow
<1>7. v = "approve" <=> StatusAfter(v) = "approved"
  BY DEF StatusAfter
<1> HIDE DEF d, u, v
<1>8. ASSUME NEW e \in Docs, doc'[e].exists, doc'[e].status = "approved"
      PROVE  tier'[doc'[e].user] = "document"
  <2>1. CASE e = d
    BY <1>4, <1>5, <1>7, <1>8, <2>1
  <2>2. CASE e # d
    BY <1>4, <1>5, <1>6, <1>8, <2>2 DEF ApprovedMeansTier3
  <2> QED BY <2>1, <2>2
<1>9. ASSUME NEW w \in Users, tier'[w] = "document"
      PROVE  \E e \in Docs : doc'[e].exists /\ doc'[e].user = w
                              /\ doc'[e].status = "approved"
  <2>1. CASE w = u /\ v = "approve"
    BY <1>1, <1>4, <1>7, <2>1
  <2>2. CASE ~(w = u /\ v = "approve")
    <3>1. tier[w] = "document"
      BY <1>5, <1>9, <2>2
    <3>2. PICK e \in Docs : doc[e].exists /\ doc[e].user = w /\ doc[e].status = "approved"
      BY <3>1 DEF Tier3MeansApproved
    <3>3. e # d
      BY <1>3, <3>2
    <3> QED BY <1>4, <3>2, <3>3
  <2> QED BY <2>1, <2>2
<1> QED BY <1>8, <1>9 DEF ApprovedMeansTier3, Tier3MeansApproved

LEMMA TopStep ==
  ASSUME TypeOK, HandlersGrounded, SeenCurrent, DecisionFresh,
         ApprovedMeansTier3, Tier3MeansApproved, [Next]_vars
  PROVE  ApprovedMeansTier3' /\ Tier3MeansApproved'
<1>1. \A d \in Approvals : doc[d].user \in Users
  BY ExistingRow DEF Approvals
<1>2. ASSUME UNCHANGED doc,
             \A u \in Users : tier'[u] = "document" <=> tier[u] = "document"
      PROVE  ApprovedMeansTier3' /\ Tier3MeansApproved'
  <2>1. Approvals' = Approvals /\ \A d \in Approvals : doc'[d].user = doc[d].user
    BY <1>2 DEF Approvals
  <2> QED BY <1>1, <1>2, <2>1, TopKept
<1>3. ASSUME NEW r \in Requests,
             \/ OtpRead(r) \/ EmailRead(r) \/ EmailSelectCode(r) \/ UploadWrite(r)
             \/ DocumentLoad(r) \/ DocumentDelete(r) \/ Abort(r)
      PROVE  UNCHANGED <<doc, tier>>
  BY <1>3 DEF OtpRead, EmailRead, EmailSelectCode, UploadWrite, DocumentLoad,
              DocumentDelete, Abort
<1>4. ASSUME NEW u \in Users, RequestEmail(u) PROVE UNCHANGED <<doc, tier>>
  BY <1>4 DEF RequestEmail
<1>5. ASSUME NEW r \in Requests, OtpCommit(r)
      PROVE  ApprovedMeansTier3' /\ Tier3MeansApproved'
  <2>1. UNCHANGED doc
    BY <1>5 DEF OtpCommit
  <2>2. tier' = [tier EXCEPT ![req[r].user] = OtpTier(req[r].tier, tier[req[r].user])]
    BY <1>5 DEF OtpCommit
  <2>3. \A u \in Users : tier'[u] = "document" <=> tier[u] = "document"
    BY <2>2 DEF TypeOK, OtpTier
  <2> QED BY <1>2, <2>1, <2>3
<1>6. ASSUME NEW r \in Requests, EmailCommit(r)
      PROVE  ApprovedMeansTier3' /\ Tier3MeansApproved'
  <2>1. UNCHANGED doc /\ req[r].op = "confirm"
    BY <1>6 DEF EmailCommit
  <2>2. req[r].seen.tier = tier[req[r].user]
    BY <2>1 DEF SeenCurrent
  <2>3. tier' = [tier EXCEPT ![req[r].user] =
                    EmailTier(tier[req[r].user], tier[req[r].user])]
    BY <1>6, <2>2 DEF EmailCommit
  <2>4. \A u \in Users : tier'[u] = "document" <=> tier[u] = "document"
    BY <2>3 DEF TypeOK, EmailTier
  <2> QED BY <1>2, <2>1, <2>4
<1>7. ASSUME NEW r \in Requests, UploadCommit(r)
      PROVE  ApprovedMeansTier3' /\ Tier3MeansApproved'
  <2> DEFINE d == req[r].doc
  <2>1. /\ UNCHANGED tier
        /\ req[r].op = "upload"
        /\ doc' = [doc EXCEPT ![d] = [exists |-> TRUE, user |-> req[r].user,
                                      path |-> TRUE, status |-> "pending"]]
    BY <1>7 DEF UploadCommit
  <2>2. d \in Docs /\ doc[d] = NoRow
    BY <2>1, Shapes DEF UploadLocals, HandlersGrounded, Grounds
  <2>3. /\ doc'[d].status = "pending" /\ doc[d].exists = FALSE
        /\ \A e \in Docs : e # d => doc'[e] = doc[e]
    BY <2>1, <2>2 DEF TypeOK, NoRow
  <2> HIDE DEF d
  <2>4. Approvals' = Approvals /\ \A e \in Approvals : doc'[e].user = doc[e].user
    BY <2>3 DEF Approvals
  <2> QED BY <1>1, <2>1, <2>4, TopKept
<1>8. CASE UNCHANGED vars
  BY <1>2, <1>8 DEF vars
<1> QED BY <1>2, <1>3, <1>4, <1>5, <1>6, <1>7, <1>8, DecisionKeepsTop DEF Next

\* One request at a time, an approved document puts its user at Tier 3 and
\* keeps them there, and nobody is at Tier 3 without one.
LEMMA SerialApproval ==
  ASSUME \A r, s \in Requests : r = s
  PROVE  Spec => [](ApprovedMeansTier3 /\ Tier3MeansApproved)
<1> DEFINE Inv == SeenCurrent /\ DecisionFresh /\ ApprovedMeansTier3 /\ Tier3MeansApproved
<1>1. Init => Inv
  BY DEF Init, SeenCurrent, DecisionFresh, ApprovedMeansTier3, Tier3MeansApproved,
         Idle, NoRow
<1>2. TypeOK /\ Grounded /\ Inv /\ [Next]_vars => Inv'
  BY SeenStep, DecisionStep, TopStep DEF Grounded
<1>3. Inv => ApprovedMeansTier3 /\ Tier3MeansApproved
  OBVIOUS
<1> HIDE DEF Inv
<1> QED BY <1>1, <1>2, <1>3, GroundedHolds, PTL DEF Spec

\* One request at a time, an approval stands by Tier 3: approve_document puts
\* the user there and no verify_email takes them down.
THEOREM SerialApprovedMeansTier3 ==
  ASSUME \A r, s \in Requests : r = s
  PROVE  Spec => []ApprovedMeansTier3
BY SerialApproval, PTL

\* One request at a time, Tier 3 stands on an approval: no reject_document turns
\* the document that gave it.
THEOREM SerialTier3MeansApproved ==
  ASSUME \A r, s \in Requests : r = s
  PROVE  Spec => []Tier3MeansApproved
BY SerialApproval, PTL

=============================================================================
