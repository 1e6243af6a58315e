------------------------------ MODULE CompanyStats ------------------------------
(***************************************************************************)
(* GET /companies/{id}/stats: app/services/stats.py behind the TTL cache   *)
(* of app/core/cache.py.  A computation counts the published reviews and   *)
(* then their distribution over each column, in statements of their own    *)
(* with awaits between them, while moderators decide; the result is cached *)
(* and served until it expires.  The moderation queue is represented by    *)
(* the lifecycle that module Moderation is proved to implement.            *)
(***************************************************************************)
EXTENDS Percentages

CONSTANTS
    Reviews,     \* reviews of the company
    NumColumns,  \* the columns counted: exit reason, tenure, role level, ...
    NumKinds,    \* buckets of a column, 1..NumKinds in order of declaration
    Kind,        \* Kind[i][c]: the bucket of review i in column c
    MinReviews,  \* stats_min_published_reviews
    TTL,         \* stats_cache_ttl_seconds, in ticks
    Readers      \* requests that can be computing at once

ASSUME StatsAssumption ==
    /\ IsFiniteSet(Reviews)
    /\ NumColumns \in Nat \ {0} /\ NumKinds \in Nat \ {0}
    /\ Kind \in [Reviews -> [1..NumColumns -> 1..NumKinds]]
    /\ MinReviews \in Nat \ {0} /\ TTL \in Nat

VARIABLES
    status,  \* per review, as in PublicationLifecycle
    cache,   \* the entry of this company, or NoEntry
    reader   \* what each request has counted so far

vars == <<status, cache, reader>>

Queue == INSTANCE PublicationLifecycle WITH Items <- Reviews

NoEntry == [total |-> 0, counts |-> <<>>, age |-> -1]
Idle    == [at |-> "idle", total |-> 0, counts |-> <<>>]
Columns == 1..NumColumns

\* Broken variant, for mutation: the WHERE on the status is forgotten.
CountedAnyway(i) == status[i] # "ABSENT"

\* Review.status == ReviewStatus.published
Counted(i) == status[i] = "PUBLISHED"

PublishedTotal == Cardinality({i \in Reviews : Counted(i)})

GroupedCounts(c) ==
    [k \in 1..NumKinds |-> Cardinality({i \in Reviews : Counted(i) /\ Kind[i][c] = k})]

\* Broken variant, for mutation: the last column is not waited for.
CompleteEarly(counts) == Len(counts) = NumColumns - 1

Complete(counts) == Len(counts) = NumColumns

\* Broken variant, for mutation: expires_at is not looked at.
AnyEntry == cache # NoEntry

\* TTLCache.get returns the entry: expires_at has not passed
Usable == cache # NoEntry /\ cache.age <= TTL

Set(n, counts) == cache' = [total |-> n, counts |-> counts, age |-> 0]

-----------------------------------------------------------------------------
Init ==
    /\ Queue!Init
    /\ cache = NoEntry
    /\ reader = [r \in Readers |-> Idle]

\* submissions and moderation decisions, late ones that revise included
Moderate ==
    /\ Queue!RevisableNext
    /\ UNCHANGED <<cache, reader>>

\* A request misses the cache; an entry that has expired is deleted.  A hit
\* answers from the entry and changes nothing.
Miss(r) ==
    /\ reader[r] = Idle /\ ~Usable
    /\ reader' = [reader EXCEPT ![r] = [Idle EXCEPT !.at = "missed"]]
    /\ cache' = NoEntry
    /\ UNCHANGED status

\* The first statement counts the published reviews: too few, and the count is
\* the whole answer; enough, and the columns are counted next.
CountTotal(r) ==
    /\ reader[r].at = "missed"
    /\ reader' = [reader EXCEPT ![r] =
                    [at |-> IF PublishedTotal < MinReviews THEN "insufficient" ELSE "counting",
                     total |-> PublishedTotal, counts |-> <<>>]]
    /\ UNCHANGED <<status, cache>>

\* Too few reviews when they were counted: that answer goes into the cache,
\* over whatever others have put there since the count.
AnswerInsufficient(r) ==
    /\ reader[r].at = "insufficient"
    /\ Set(reader[r].total, <<>>)
    /\ reader' = [reader EXCEPT ![r] = Idle]
    /\ UNCHANGED status

CountColumn(r) ==
    /\ reader[r].at = "counting" /\ ~Complete(reader[r].counts)
    /\ reader' = [reader EXCEPT ![r] =
                    [at |-> "counting", total |-> reader[r].total,
                     counts |-> Append(reader[r].counts,
                                       GroupedCounts(Len(reader[r].counts) + 1))]]
    /\ UNCHANGED <<status, cache>>

\* after the last statement nothing awaits until the result is in the cache
Store(r) ==
    /\ reader[r].at = "counting" /\ Complete(reader[r].counts)
    /\ Set(reader[r].total, reader[r].counts)
    /\ reader' = [reader EXCEPT ![r] = Idle]
    /\ UNCHANGED status

\* a statement fails or the client goes away
Fail(r) ==
    /\ reader[r] # Idle
    /\ reader' = [reader EXCEPT ![r] = Idle]
    /\ UNCHANGED <<status, cache>>

\* the monotonic clock; beyond TTL + 1 the age of an entry makes no difference
Tick ==
    /\ cache # NoEntry /\ cache.age <= TTL
    /\ cache' = [cache EXCEPT !.age = @ + 1]
    /\ UNCHANGED <<status, reader>>

Advance(r) == CountTotal(r) \/ AnswerInsufficient(r) \/ CountColumn(r) \/ Store(r)

Next ==
    \/ Moderate
    \/ Tick
    \/ \E r \in Readers : Miss(r) \/ Advance(r) \/ Fail(r)

Spec == Init /\ [][Next]_vars

\* Time passes, and a request that has begun is answered or fails.  Nothing
\* obliges anybody to ask for the statistics or to moderate.
FairSpec == Spec /\ WF_vars(Tick) /\ \A r \in Readers : WF_vars(Advance(r))

-----------------------------------------------------------------------------
Counts == [1..NumKinds -> 0..Cardinality(Reviews)]

\* Entry and readers are well formed; a cached result is whole: it has all its
\* columns, or none because the reviews are too few.
TypeOK ==
    /\ status \in [Reviews -> Queue!Statuses]
    /\ \/ cache = NoEntry
       \/ /\ cache \in [total : 0..Cardinality(Reviews), counts : Seq(Counts),
                        age : 0..(TTL + 1)]
          /\ Len(cache.counts) \in {0, NumColumns}
    /\ reader \in [Readers -> [at : {"idle", "missed", "insufficient", "counting"},
                               total : 0..Cardinality(Reviews), counts : Seq(Counts)]]
    /\ \A r \in Readers : Len(reader[r].counts) <= NumColumns

Decided == {i \in Reviews : status[i] \in Queue!Decided}

\* The figures of a result, finished or not, that is past the minimum.
Moderated(n, counts) ==
    /\ MinReviews <= n /\ n <= Cardinality(Decided)
    /\ \A c \in DOMAIN counts : \A k \in 1..NumKinds :
        counts[c][k] <= Cardinality({i \in Decided : Kind[i][c] = k})

\* Whatever is published or revised meanwhile, a distribution that is cached or
\* under way stands on at least the minimum of decided reviews, and no bucket of
\* it counts a review that moderation has never decided.
FiguresAreModerated ==
    /\ cache.counts # <<>> => Moderated(cache.total, cache.counts)
    /\ \A r \in Readers :
        reader[r].at = "counting" => Moderated(reader[r].total, reader[r].counts)

\* Where the counts of a column add up to the total, the percentages are the
\* largest-remainder ones: 100.0 in all, each within a tenth of its proportion.
SharesAreFair ==
    \A c \in DOMAIN cache.counts :
        LET counts == cache.counts[c]
        IN  SumFunction(counts) = cache.total =>
                Fair(Shares(counts, cache.total), counts, cache.total)

\* What percentages.py promises of every distribution that is served.
SharesSumToWhole ==
    \A c \in DOMAIN cache.counts :
        SumFunction(Shares(cache.counts[c], cache.total)) = Scale

Exact ==
    Usable => /\ cache.total = PublishedTotal
              /\ cache.counts = IF PublishedTotal < MinReviews
                                THEN <<>> ELSE [c \in Columns |-> GroupedCounts(c)]

\* Stale figures die out: unless reviews keep being decided for ever, what the
\* cache serves is at last exact and stays so, although nothing invalidates it
\* and slow requests overwrite newer results, with an answer that the reviews
\* are too few as well as with figures.
StaleFiguresDieOut == []<><<status' # status>>_status \/ <>[]Exact

=============================================================================
