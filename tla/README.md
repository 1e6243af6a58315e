# LinkedOut: specifications, checks and proofs

LinkedOut is a FastAPI service on PostgreSQL: anonymous workplace reviews of companies, a
verification ladder that decides how much a user's word counts, a moderation queue in front of
everything that gets published, and company statistics served from a cache. Every endpoint is an
`async` handler with its own database session; all handlers share the tables, an in-process cache
and a directory of uploaded files. There are no locks, no `SELECT ... FOR UPDATE` and no
serializable transactions, so **what may happen between a handler's reads and its commit** is the
question most of this project asks.

Contents: [1 inventory](#1-inventory), [2 modules](#2-modules-and-what-they-stand-for),
[3 abstractions](#3-abstractions-common-to-all-modules), [4 runs](#4-runs-bounds-and-what-they-show),
[5 disagreements](#5-where-code-and-documentation-disagree), [6 proofs](#6-proofs),
[7 not modelled](#7-what-is-not-modelled), [8 plan](#8-plan), [9 tools](#9-running-it).

## 1. Inventory

Paths are relative to `src/`. "Hard" names the behaviours a unit test would hardly reach.

| component | state | operations | talks to |
|---|---|---|---|
| request limiter (`app/core/rate_limit.py`) | rows of the caller's table inside a moving window | `enforce_rate_limit`: count, compare, 429 | called by `auth.py` (OTP, e-mail), `reviews.py`, `grievance.py`, each of which inserts later |
| one-time codes (`app/routers/auth.py`, `app/models/otp.py`) | code rows: key, created, attempts, consumed | request, verify (expired, exhausted, wrong, right) | limiter, users |
| verification ladder (`auth.py`, `app/core/deps.py`) | `users.verification_tier`, `email_domain_hash` | OTP login, e-mail verification, document upload, `require_tier` | codes, document queue |
| document queue (`app/routers/admin.py:233-376`, `app/providers/document.py`) | queue rows and files on disk | approve, reject, list | ladder, audit log |
| moderation queue (`admin.py:81-218`) | `moderation_status` of reviews and layoff events | approve, reject, list | reviews, layoffs, audit log, statistics |
| audit log (`app/models/audit.py`) | append-only entries | append with each decision | both queues |
| reviews, corroborations, responses (`app/routers/reviews.py`) | three tables with unique constraints | create, corroborate, respond, list | limiter, queue, employers |
| layoff events (`app/routers/layoff_events.py`) | table with a moderation status | create, list | queue, statistics |
| company statistics (`app/services/stats.py`, `app/core/percentages.py`) | none of its own | total, one grouped count per column, shares | reviews, cache |
| response cache (`app/core/cache.py`) | entries with an expiry | get, set | statistics endpoint |
| request authentication (`app/core/deps.py`) | none: a token and the row it names | decode, load, judge, hand over; `require_tier` | every handler |
| tokens (`app/core/jwt.py`) | none; clients hold them | sign and check access, refresh, employer and admin tokens | logins, authentication |
| employer login, admin accounts (`employer.py`, `admin.py:57-73`) | `verified`, `domain_hash`; `is_active` | login; the rows are changed by hand | tokens |
| migrations (`alembic/`, `docker-compose.yml`) | the schema, `alembic_version` | upgrade, downgrade, start of the container | every table |
| ORM models (`app/models/`) | the tables they declare | `create_all` (tests only) | migrations |
| listings (`admin.py`, `reviews.py`, `layoff_events.py`, `takedown.py`) | none: offset and limit come from the client | count and page, or (moderation queue) two selects, sort, slice | all listed tables |
| grievances, takedowns, companies | one table each | insert / list | limiter |

What makes each right, and what is hard about it:

* **Limiter.** At most `max_requests` rows of a key per window. *Hard:* count and insert are two
  statements, so requests in flight are admitted on the same count; the two edges of the window;
  the equality at the limit.
* **Codes.** A code opens one session, is judged at most `otp_max_attempts` times, and an exhausted
  one stays shut. *Hard:* the counter is read, incremented in Python and written back.
* **Ladder.** No tier without its proof; no rung skipped; an approved document keeps its tier.
  *Hard:* the tier read by the dependency at the start decides what is written at the end.
* **Document queue.** A decided document leaves no file; approval and Tier 3 go together.
  *Hard:* the file system is outside the transaction; two admins decide one document.
* **Moderation queue.** An item enters as PENDING, is decided once, and the log explains its
  status. *Hard:* the PENDING check is made on a loaded row.
* **Reviews.** One review per user and company, backers distinct and never the author, one reply
  from the company concerned. *Hard:* check-then-insert under a unique constraint, with the
  moderation queue working on the same rows.
* **Statistics.** Figures stand on moderated reviews only, appear only above the minimum, add up to
  the whole, and a published review shows eventually. *Hard:* the total and the distributions are
  separate statements; a slow computation may store after a fast one.
* **Tokens and accounts.** A token opens one kind of door, for one access life after a login of its own
  account, and only while the account stands. *Hard:* nothing revokes a token, a refresh token
  lives far longer, the accounts change while a request is between its check and its work, and the
  employers' login key is not unique.
* **Migrations.** The version row and the schema agree, every version can be reached from every
  other, and the newest one is what the models expect. *Hard:* types outlive tables; two
  processes migrate at once; a run is killed or refused; the tests never run a migration and CI never
  a downgrade.
* **Listings.** A client that pages to the end has seen every row that was there all along, once.
  *Hard:* rows come and go between two requests and between the two statements of one; `created_at`
  is set before the commit, so a row may appear in front of what was read; ties in the sort column.

All of these are entries of `PROJECT.json` ("components", "hazards"), each hazard with its line.

## 2. Modules and what they stand for

One state-machine module per component, an `MC...` module with the constants TLC needs, and a
`...Proofs` module with its theorems. Composition is by `INSTANCE`.

```
PublicationLifecycle <--implements-- Moderation <--INSTANCE (Queue)-- ReviewFlow
        ^                                          what is submitted enters the queue
        +--INSTANCE (Queue, as environment)-- CompanyStats --EXTENDS--> Percentages
VerificationLadder   <--implements-- TierLadder
Listings --INSTANCE (Lifecycle, as environment)--> PublicationLifecycle
Migrations --EXTENDS--> Revisions --EXTENDS--> Schema
RateLimit            OneTimeCode            Sessions            (stand alone)
```

**RateLimit** (`rate_limit.py`, the inserts of its callers). `rows` is the caller's table, `now`
the clock, `req[r]` where handler `r` is: `Arrive` fixes the time the window starts from, `Count`
runs the SELECT and answers 429 or goes on, `Insert` commits the row with the database's time,
`Abort` is any later error.

**OneTimeCode** (`auth.py` request/verify of both kinds of code). `Stamp` and `Issue` create a row,
`Judge` selects the newest unconsumed row of a key and tests expiry, attempts and hash in the code's
order, `CommitMiss` writes the counter *read* plus one, `CommitHit` consumes. `missed` and `passed`
count wrong guesses judged and sessions opened; the code does not keep them.

**PublicationLifecycle** is the abstract promise: ABSENT, PENDING, then PUBLISHED or REJECTED for
good (`Spec`); `RevisableSpec` also allows a decision to be replaced by the other one.

**Moderation** (`admin.py:81-218`, submission by `reviews.py` and `layoff_events.py`). `desk[m]` is a
moderator's request between `_load_item` and its commit. `TableOf` keeps the code's fall-through:
any `item_type` other than REVIEW means the layoff table, and the audit entry carries the type given.

**VerificationLadder** is the abstract ladder: `Climb` by exactly one rung.

**TierLadder** (`verify_otp`, `request/verify_email`, `upload_document`, document approve/reject,
`require_tier`). `tier`, `domain`, `code`, `doc` are columns, `files` the upload directory, `audit`
the decisions committed. A handler is its reads, then (uploads and decisions) its effect on the disk,
then its commit. `OtpTier`, `EmailTier`, `DecidedTier` are the conditional writes as SQLAlchemy makes
them: an attribute not assigned is not in the UPDATE, so another request's value survives.

**ReviewFlow** (the three POST handlers of `reviews.py`, POST of `layoff_events.py`, composed with
`Moderation`). `XBegin` is every SELECT and check of handler X, `XCommit` its insert, `Fail` a commit
that raises: on a unique constraint (`BreaksConstraint`) or for any other reason.

**Percentages** is `distribution_with_percentages` with counts and total as separate arguments, because its
caller computes them separately. It is exact integer arithmetic; the code divides floats. For all
count vectors of the sizes the service can serve the two differ, if at all, in which of several equally
entitled buckets gets a leftover tenth, which no property here tells apart.

**CompanyStats** (`compute_company_stats`, the stats endpoint, `cache.py`). `reader[r]` is a computation:
`Miss` (no usable entry), `CountTotal`, then either one `CountColumn` per distribution and `Store`, or, when
the total counted is below the minimum, `AnswerInsufficient`. Both answers are cached as they were counted, however
many decisions and other answers came in between. `Tick` ages the cache entry. Decisions on reviews come from
`Queue == INSTANCE PublicationLifecycle` with `RevisableSpec`'s steps: an environment assumption that is
discharged by the theorems `ImplementsRevisableLifecycle` about `Moderation` and `ReviewsKeepLifecycle` about `ReviewFlow`.

**Listings** (the seven paginated `GET` handlers). `scan` is one client's pass through one listing:
`FirstStatement` is the count (or, in the moderation queue, the select of the reviews), `ListPage`
and `QueuePage` the second statement with its page, `Show` the client's next offset, which it moves
until it reaches the total it was told; `Fail` is a request that raised and is sent again. A page is
any set the ORDER BY allows (`Prefixes`), so ties are broken anew by each query, as PostgreSQL may.
`AppendRow` and `Moderate` change the rows; sort columns are constants of a row and commits come in any
order. `steady`, `came` and `left` are history for the properties. A scan starts with arbitrary rows,
which is every population the routers can have produced. Tables that are not listed stay empty.

**Sessions** (the three logins, `jwt.py`, the three dependencies of `deps.py`). `standing` is whether a
row exists and whether its `verified` or `is_active` column is set, `domain` an employer's
`domain_hash`, `tokens` all tokens clients hold. A login is two steps, because its SELECT is awaited and
the clock is read anew by the signing: `UserLogin` commits the user's row, `EmployerLogin` and
`AdminLogin` select an account that is verified or active then, and `Sign` issues later for the row held,
without another look. `EmployerLogin` is enabled only for exactly one verified account of the domain,
because `scalar_one_or_none` answers 404 for none and raises for two. A user's two tokens are signed back to back and get
one time. A request is `Present` (the token is decoded), `Load` (the row is read and judged) and `Serve`
(the handler is done). `Switch` is the hand
that changes a column, at any time. `clash` and `late` are history. The token's other claims (tier,
company, verified) are read by nobody, `deps.py` looks at the row instead, and are left out.

**Schema** is what PostgreSQL, Alembic and SQLAlchemy do with the statements the migrations use, and
when they refuse one; none of that is in the repository. A table's enum types are created with it, unless
the same run has created them, and outlive it; `DROP TYPE` is refused while a column uses it.

**Revisions** holds the upgrade and downgrade of the six revisions, statement by statement, and what the
ORM models declare, both as columns, unique constraints, indexes, foreign keys and enum labels.

**Migrations** runs them. `version` and `schema` are the committed database, `command[r]` the run of a
container or an operator with the version it read at its beginning. `Commit` executes the plan that
follows from that version on the schema *as it is by then*, in one transaction (`env.py`), `Refuse` is a
statement or a version row that does not match, `Crash` a kill at any time, rolled back by the
database. `Start` is docker's `restart: unless-stopped`.

Definitions that no action uses (`RefusesLate`, `EmailTierReset`, `CountedAnyway`, ...) are plausible
mistakes of the same code, placed next to what they would replace. `PROJECT.json` ("mutants") says
which property each one breaks: every property of a passing run has one, so none of them holds
whatever the code does.

## 3. Abstractions common to all modules

* A handler is cut exactly where other requests can act: after a SELECT whose result is used later,
  around an effect outside the database, and at its commit. Consecutive reads that nothing later
  depends on separately are one step; where two reads must agree (total and distribution) they are two.
* The isolation level is PostgreSQL's default, READ COMMITTED: a statement sees what was committed
  before it.
* `Abort` and `Fail` are the rollback of the session when anything raises, and also the process dying.
  The database survives a crash unchanged, so a restart is every handler aborting.
* Keys, domains, users and ids are model values; hashes and tokens are equal when their inputs are.
* Time is a small counter. It passes between any two steps, also inside a handler.

## 4. Runs, bounds and what they show

All TLC instances are exhaustive. Symmetry is used over model values in runs with safety properties
only. `CHECK_DEADLOCK FALSE` stands where an instance runs out of row ids, of clock or of commands; `ReviewFlow` and
`CompanyStats` can always move and are checked for deadlock.

| run | instance | shows |
|---|---|---|
| `rate_limit_burst` | 2 requests, 2 keys, 4 rows, max 2, window 1, horizon 3 | The overshoot is at most the *other* requests in flight (`BurstCeiling`). Three windows fit in the horizon; 4 rows exceed the ceiling of 3. The type invariant is not checked here but proved (`RateLimitProofs`). |
| `codes_race` | 1 key, 2 codes, 2 requests, max 2 attempts, lifetime 1 | A code opens at most one session per verification in flight (`PassCeiling`); wrong guesses judged beyond the maximum are bounded by the table `Guesses`, here 5 for a maximum of 2 (`GuessCeiling`); once exhausted with nobody verifying, it is never judged again (`LockedOutForGood`). Two codes are needed for "newest unconsumed". The guess bound is reached: with `<` in place of `<=` TLC finds a counterexample, here and with other small numbers of handlers and attempts. |
| `moderation_races` | 2 reviews, 1 layoff, 2 moderators | The log explains every status under all races; an item is decided at most once per moderator (`DecisionCeiling`); the queue implements `RevisableSpec`. |
| `ladder_races` | 2 users, 2 domains, 2 codes, 2 documents, 3 requests | Every tier stands on its evidence, no rung is skipped upwards and the only way down is document to e-mail, no decided document keeps a file. Three requests are the smallest number for an e-mail verification to overlap both upload and decision. |
| `ladder_serial` | the same, 1 request | Without overlap approval and Tier 3 are equivalent and the tiers implement `VerificationLadder`: what `ladder_races` loses, it loses to concurrency. |
| `ladder_stale_tier` | 1 user | Violation, see section 5. |
| `listings_scan` | 2 reviews, 3 layoffs (two of one date), 3 documents, 3 complaints, 2 corroborations, 2 takedowns; pages of 1; 3 moves | In the moderation queue a pending item is missed at most once per decision taken meanwhile (`QueueMissesOnlyDecided`); in the others also when a row arrives between count and page (`ListMissesOnlyMoved`); a row is shown again at most once per arrival (`RepeatsOnlyArrivals`). No moves, no misses and no repeats. One row per page gives the most page boundaries; pages of 2 with 4 moves were checked too. |
| `review_flow` | 2 users, 2 companies, 2 reviews, 1 layoff, 1 moderator, 3 requests | The unique constraints hold the tables together although every check may be stale (`OneReviewPerAuthor`, `BackersAreOthers`, `OneOfficialReply`); what a handler checked of its review still holds at its commit (`ChecksStillHold`); the composition implements `Moderation`'s specification (`QueueSpec`). Either user may be author, backer or both with two reviews; two companies give a response a wrong one to come from. Two backers of one review besides its author are left to `BackersAreOthersHolds`. |
| `stats_figures` | 3 reviews, 2 columns, 3 kinds, minimum 2, TTL 1, 2 readers | Figures never count a review that is still undecided and never stand on fewer than the minimum (`FiguresAreModerated`); when nothing moved between the counts, every share is the floor or the ceiling of its exact value and all sum to the whole (`SharesAreFair`); if decisions stop, every figure served is eventually exact (`StaleFiguresDieOut`). 3 reviews on 2 columns of 3 kinds give ties and remainders; 2 readers are what it takes for an older result, or an older answer that the reviews are too few, to overwrite a newer one. |
| `stats_percentages` | the same | Violation, see section 5. |
| `sessions_windows` | 1 user, 2 employers, 2 domains, 1 admin, 2 requests, access life 1, refresh life 3, horizon 3, 3 tokens | A request is taken up only within an access life of a login of its own account, at a door of its own kind, whatever else was issued (`AccessWindow`); for a withdrawn account at most the requests and logins that were past the check are completed (`RevocationCeiling`); while two verified accounts share a domain only logins that had selected one of them before still sign a token, at most one per handler, and one token life after the clash these tokens are all that opens the door (`ClashLocksOut`). Both bounds are reached. Two employers make a clash, three ticks let a refresh token outlive two access lives, three tokens are a pair and another account's. |
| `migrations` | 2 operators, 3 commands, 1 kill, all 7 versions | Every downgrade can be upgraded again and the other way round, from every schema that occurs (`NoDeadEnd`); the schema is the one its version row names, but for the label DOCUMENT at version 4 (`SameByAnyPath`); the newest version is what the models declare (`ModelsServed`); when the operators have stopped the container comes up and stays up (`Settles`). Three commands are up, down and up again, or two that overlap with the container's own; every pair of versions occurs. |

**Fairness.** `CompanyStats` and `Migrations` state some, each in its `FairSpec`.
In `CompanyStats` it is `WF(Tick)` (time passes) and
`WF(Advance(r))` (a computation that has begun goes on). The second is what the event loop and the
database driver give every awaiting coroutine: it is resumed or it raises. `Advance` is *not*
assumed for `Miss`: nobody has to ask for statistics. `StaleFiguresDieOut` is therefore a statement
about what the cache and the readers may hold, not about anybody calling, and it is conditional on
the queue falling silent. In `Migrations` it is `WF(Start)`, which is `restart: unless-stopped` in
`docker-compose.yml`, and that the run in the container ends (`Ends(Api)`: committed, refused or
killed; the locks it waits for belong to transactions that end too). Operators are under no
obligation, and `Settles` holds because their commands and the kills are finitely many. The other
modules state safety only: nothing in their code retries or is scheduled, so no progress is promised.

## 5. Where code and documentation disagree

With a run and a counterexample (`PROJECT.json`, "findings"):

1. `ladder_stale_tier` / `ApprovedMeansTier3`: an e-mail verification that read tier phone writes
   tier e-mail over an approval (`auth.py:300`; `README.md:352-354`).
2. `stats_percentages` / `SharesSumToWhole`: a review published between total and distribution makes
   the shares exceed the whole, nothing else does, and they exceed it by no more than the reviews
   counted exceed the total (`WholeUnlessOvercountedHolds`, `OvershootHolds`;
   `stats.py:88`; `percentages.py:10`, `README.md:247-249`).

Seen while modelling, in the models, without a run of their own:

* Two wrong guesses that read the same counter count once, so more than `otp_max_attempts` guesses are
  judged (`auth.py:152`; `README.md:185`, `otp.py:10`): 9 instead of 3 with two handlers. What holds is
  `LockedOutForGood` and the exact bound `GuessCeiling`; with one handler it is the cap itself
  (theorems `GuessesOfFew`, `SerialCapHolds`).
* A decision committed between another moderator's load and commit is overwritten with a 200
  (`admin.py:150`; `README.md:262-264` promises a 409). What holds is `DecisionCeiling` and that the log
  explains the final status; with one moderator there is no second decision (`SerialImplementsLifecycle`).
* `item_type` DOCUMENT is accepted by the moderation endpoints and acts on layoff events
  (`admin.py:144`; `README.md:264`). `TableOf` has it.
* Approve and reject of one document may overlap; both answer 200 and the document ends REJECTED
  with its user at Tier 3, or APPROVED by the later one (`admin.py:280`; `README.md:356-361`).
* The file is deleted before the commit that clears its path (`admin.py:316`;
  `TRUST_ARCHITECTURE.md:99-101`): after a failed commit the row is PENDING and points at nothing.
* An upload whose commit fails leaves its file with no row to find it by (`auth.py:337`); the reaper
  that `moderation.py:46-47` speaks of does not exist.
* The total of a listing is counted before its page is cut, so a client that stops at the total can
  miss a row although nothing was removed; the moderation queue, which counts what it sorted, is
  free of this. Two layoffs of one `event_date` have no order between pages (`layoff_events.py:95`).
* The request limit can be passed by requests in flight (`rate_limit.py:39`; `config.py:45-46`);
  `BurstCeiling` is the exact bound and `SerialLimitHolds` proves the documented one for a single handler.
* The downgrade of 0005 is empty, and 0004's drops the tables with whatever they hold: downgrading past
  DOCUMENT rows loses them without a word, where `0005:36-38` says it "will fail loudly". What remains is
  the label, which `SameByAnyPath` makes an exception for and which does no harm (`NoDeadEnd`).
* The migrations give `admin_users.email` a unique constraint besides the unique index, the model only
  the index (`0004:36`, `models/admin.py`); it is the only difference `ModelsServed` leaves room for.
* Employer accounts of one domain lock each other out (`employer.py:44`, `domain_hash` is not unique);
  `ClashLocksOut` gives the extent: only a login past its SELECT still signs. A request past its check
  finishes, and a login past its check signs, although the account was withdrawn meanwhile (`deps.py:124`,
  `employer.py:51`, `admin.py:73`).
* An older unconsumed code of a phone becomes valid again when the newer one is consumed.

## 6. Proofs

The theorems are for all values of the constants under the named assumptions, which TLC also
evaluates on every instance: `RequestsAssumption` and `ModeratorsAssumption` (finitely many
handlers), `MaxAssumption`, `AttemptsAssumption`, `TimeAssumption` (naturals), `IdsAssumption` (review
and layoff ids are different tables), `DomainsAssumption` (NULL is no domain), `ScaleAssumption`,
`StatsAssumption`, and `FeedsAssumption`, `LimitAssumption`, `RowsAssumption`, `KeysAssumption` (known
listings, positive pages, finite tables, timestamps and dates ordered as the integers are), and for the sessions `LivesAssumption`, `BoundsAssumption` (naturals),
`RequestsFinite`, `AccountsApart` (no id in two tables). Nothing else is assumed.

| module | theorems | inductive argument |
|---|---|---|
| `RateLimitProofs` | `TypeCorrect`, `ChargedCeilingHolds`, `BurstCeilingHolds`, `SerialLimitHolds` | The limit is not inductive: a count is stale at once. What every step preserves is the *charge*: rows in any window starting at a handler's time, plus handlers past the count, stay below max + handlers. A handler is admitted only when the rows alone are below max, and each insert trades one admitted handler for one row. |
| `OneTimeCodeProofs` | `TypeCorrect`, `PassCeilingHolds`, `LockoutIsFinal`, `GuessCeilingHolds`, `GuessesOfFew`, `SerialCodeIsSingleUse`, `SerialCapHolds` | A verification holding a code read it unconsumed with attempts below the maximum, so the counter written cannot pass the maximum. Sessions opened plus verifications about to open one never exceed the handlers; with one handler the counter is exact. Wrong guesses: see below the table. |
| `ModerationProofs` | `TypeCorrect`, `AuditExplains`, `ChargeHolds`, `DecisionCeilingHolds`, `ImplementsRevisableLifecycle`, `SerialImplementsLifecycle` | Status and last log entry change together. A loaded row was PENDING when loaded, so an item's entries are charged to requests that held it then; with one moderator the loaded row is still PENDING at the commit, which gives the one-decision lifecycle. |
| `TierLadderProofs` | `TypeCorrect`, `GroundedHolds`, `EmailTierIsBacked`, `DocumentTierIsBacked`, `LadderIsNotSkipped`, `DecidedFileIsGone`, `LadderMovesByRungs`, `SerialImplementsLadder`, `SerialApprovedMeansTier3`, `SerialTier3MeansApproved` | `Grounded` says what each handler in flight may rely on although its reads are stale: the facts it read that are *stable* (a consumed code stays consumed, an e-mail tier is never lost). Each tier's evidence follows. With one handler a decision still finds the document pending and the tier as it loaded them (`DecisionFresh`), so approval and Tier 3 arrive together and neither is undone. |
| `ReviewFlowProofs` | `ImplementsQueue`, `FlowIsAudited`, `FlowDecisionCeiling`, `ReviewsKeepLifecycle`, `TypeCorrect`, `OneReviewHolds`, `ChecksHold`, `BackersAreOthersHolds`, `OneOfficialReplyHolds` | A review exists exactly when it has a status and neither is ever taken back, so a check on a review survives the awaits after it; uniqueness comes from the constraint at the commit. The refinement carries `Moderation`'s theorems over: audit log, decision ceiling and lifecycle. Restricted to the reviews, the lifecycle is the environment `CompanyStats` assumes (`ReviewsKeepLifecycle`). |
| `ListingsProofs` | `TypeCorrect`, `AccountHolds`, `QueueMissesOnlyDecidedHolds`, `ListMissesOnlyMovedHolds`, `RepeatsOnlyArrivalsHolds` | What a public page showed was decided when shown, and decided it stays. The bounds on missed and repeated rows are not inductive; the invariant is an *account* by rank. An untied row stands on the page its rank says, so a row behind the offset that was never shown is charged to a row that left, and a row ahead of the offset that was shown already to one that came. Between the two statements of the queue the account is kept for the view its page will be cut from, the reviews of the first statement and the layoffs of now; `Gone` and `Late` set aside what that view does not show yet, and `ViewCovers` says that it holds every row that stayed. |
| `SessionsProofs` | `TypeCorrect`, `AccessWindowHolds`, `RevocationCeilingHolds`, `ClashLocksOutHolds` | A token's life is fixed by its type, so a request that was decoded for a door carries a login of at most an access life ago; the table lookup makes the account one of the door's kind. A login signs for an account that had a row when it was read, and rows stay (`LoginsReady`). Requests and logins completed for a withdrawn account plus those past the check are bounded by the handlers, because no new one gets past it. In the same way the employer tokens signed since a clash are charged, with the logins that may still sign, to the handlers (`FewStrays`); every other token of the domain is older than the clash and runs out one life after it. |
| `CompanyStatsProofs` | `TypeCorrect`, `FiguresHold`, `LargestRemainderIsFair`, `SharesAreFairHolds`, `WholeUnlessOvercountedHolds`, `OvershootHolds`, `LargestRemainderKeepsOrder`, `OrderIsServedHolds`, `ExactWhileSettled` | "Decided" only grows under `RevisableSpec`, so what was counted as published stays decided, although it may be rejected later: the set counted is bounded by the decided reviews for the rest of the run. Percentages: the recursion under `SumFunction` has a solution on every finite domain (built by size), so sums inherit every linear relation between their terms. The leftover units are then fewer than the buckets with a fraction, the places in the sort are a permutation of the buckets, and each unit goes to a bucket whose share it moves by less than one unit. Without the hypothesis that the counts are the total, the units are dealt in rounds and still make the whole, unless the counts exceed the total: finding 2 has no other cause. Then nothing is handed out, the shares are the quotas, and their sum times the total is at most the whole times the reviews counted (`OvershootHolds`). The order of the counts survives in any case, because a larger count has a larger quota or a larger fraction, and the sort gives the larger fraction the earlier place (`LargestRemainderKeepsOrder`). `Settled` is the state in which the entry agrees with the reviews and so does what every request holds, columns counted or a total too small that it is about to cache; only a decision leaves it (`ExactWhileSettled`). |

**Wrong guesses** (`GuessCeilingHolds`). The counter says little about how many guesses were judged: a
handler that read it early sets it back for the others. `Guesses(h, a)` is what `h` handlers can
place between them from a counter `a` below the maximum: one of them keeps the value it read, the
others place theirs, and it then writes that value plus one, hence
`Guesses(h-1, a) + 1 + Guesses(h, a-1)`. The invariant (`Charged`, `Paid`) charges the guesses
judged so far to the readings. A handler about to write a counter has the reading it took, every other one
the counter as it stands, and `A[d]` handlers have a reading that leaves fewer than `d` tries; then
the guesses judged are at most the sum over `d` of `Gain(A[d], d) = Guesses(A[d], d) - Guesses(A[d], d-1)`.
Taking a reading changes nothing. A write from `d` tries left makes `A[d]` larger by one and may set the
counter back, which lowers what is summed below `d`. But up to `d` the old sum was at most `Guesses(A[d], d)`, and the
new term for `d` alone is at least one more than that (`GainValues`, `OneMorePaid`): the guess is paid for.
With all handlers in every `A[d]` the sum telescopes to the bound.
The table and the sum are recursive functions; their equations are proved by induction on naturals spelled
out for the one set at hand (`EveryNat`).

A theorem whose name begins with `Serial` has one handler, not any number: it records what the
documentation promises and the code delivers when requests do not overlap.

Only model-checked: the liveness properties `StaleFiguresDieOut` and `Settles` (fairness is beyond the
prover; what is safety in the first, that exact figures stay exact while no decision is taken, is `ExactWhileSettled`) and the properties of `Migrations` (`NoDeadEnd`, `SameByAnyPath`, `ModelsServed`): what they say
is computed, by folds over the statements of six given revisions, which TLC evaluates and the prover
would have to unfold symbol by symbol. Only the numbers of operators, commands and kills are bounded
there, and a schema is a function of the version and at most one leftover label whatever they are. Nothing is proved about the two runs that find a violation beyond
`WholeUnlessOvercountedHolds`, `OvershootHolds` and the `Serial` theorems of `TierLadderProofs`.

## 7. What is not modelled

* The layoff timeline: in the plan.
* Grievances and takedowns have an insert and a listing and no more: no endpoint changes their rows.
  The limiter in front of a grievance is `RateLimit` with the contact as key.
* Hashing, log redaction, the name filter, schemas: pure functions whose results
  the models choose from a set. The filter's result only orders the queue.
* Delivery of codes: stubs that log. A delivery that fails after its row was committed is a hazard
  without a property yet.
* Column types, lengths, defaults and nullability in the migrations, and the offline mode of
  `env.py`, which prints SQL.
* The load test, configuration and wiring.

## 8. Plan

In this order, the most consequential first:

1. `CodeDelivery`: `OneTimeCode` composed with `RateLimit`, with the delivery call after the commit
   (`auth.py:116`), its failure and the client's retry against the limit; refinement of both parts.
2. The layoff timeline and corroboration density in `CompanyStats` (`stats.py:94-175`).
3. Proofs: the refinement theorems of the modules above.

## 9. Running it

```
tlc -workers 2 -config ReviewFlow.cfg MCReviewFlow   # one run; PROJECT.json lists them
tlapm ReviewFlowProofs.tla                            # one proof module
```

The longest runs (`stats_figures`, `review_flow`, `sessions_windows`, `migrations`) take one to two minutes each on two workers; every proof module is
checked in a few minutes.
