------------------------------- MODULE Listings -------------------------------
(***************************************************************************)
(* The paginated listings of the service, read page by page while their    *)
(* rows change.  A page is one request and costs two statements, each      *)
(* seeing what is committed when it runs: the moderation queue selects its *)
(* two tables and is sorted and cut in Python; every other listing counts  *)
(* its rows and then selects with ORDER BY, LIMIT and OFFSET.  A client    *)
(* asks for the next offset until it has reached the total it was told.    *)
(*                                                                         *)
(* Rows enter, are decided and revised as PublicationLifecycle says; the   *)
(* sort columns of a row are fixed before it is committed, so rows may     *)
(* commit out of order.  came, left and steady are history: how many rows  *)
(* entered and left the listing since the scan began, and which have been  *)
(* in it all along.                                                        *)
(***************************************************************************)
EXTENDS Integers, FiniteSets

CONSTANTS
    Rows,       \* the rows of all listed tables
    Table,      \* Table[i]: the table row i belongs to
    Flagged,    \* the rows with a flagged_reason
    Created,    \* Created[i]: created_at
    Due,        \* Due[i]: event_date of a layoff, sla_deadline of a complaint
    Feeds,      \* the listings scanned in this instance
    Limit,      \* rows per page
    MaxMoves    \* bound: rows that enter or leave during a scan

ASSUME FeedsAssumption == Feeds \subseteq {"moderation queue", "document queue",
                              "company reviews", "company layoffs", "corroborations",
                              "takedown log", "grievances"}
ASSUME LimitAssumption == Limit \in Nat \ {0}
ASSUME RowsAssumption  == IsFiniteSet(Rows)
ASSUME KeysAssumption  == Created \in [Rows -> Int] /\ Due \in [Rows -> Int]

VARIABLES
    status,     \* status[i]: the status column, "ABSENT" without a row
    scan,       \* the client's scan and the request under way
    steady, came, left
vars == <<status, scan, steady, came, left>>

Lifecycle == INSTANCE PublicationLifecycle WITH Items <- Rows

\* Reviews and layoffs are moderated and documents have a queue of their own.
\* The other tables only grow and have no such status: a row is "PENDING" for
\* good once it is there.
OnlyGrow == {"corroborations", "takedowns", "complaints"}

\* The rows of one table with one of the given statuses.
Having(t, statuses) == {i \in Rows : Table[i] = t /\ status[i] \in statuses}

PendingOf(t) == Having(t, {"PENDING"})
PendingSubmissions == PendingOf("reviews") \cup PendingOf("layoffs")
PendingDocuments   == PendingOf("documents")
PublishedReviews   == Having("reviews", {"PUBLISHED"})
UnfilteredLayoffs  == Having("layoffs", Lifecycle!Statuses \ {"ABSENT"})
PublishedLayoffs   == Having("layoffs", {"PUBLISHED"})
Corroborations     == Having("corroborations", {"PENDING"})
TakedownLog        == Having("takedowns", {"PENDING"})
Grievances         == Having("complaints", {"PENDING"})

\* What listing f would show if it were read now.
Listed(f) ==
    CASE f = "moderation queue" -> PendingSubmissions
      [] f = "document queue"   -> PendingDocuments
      [] f = "company reviews"  -> PublishedReviews
      [] f = "company layoffs"  -> PublishedLayoffs
      [] f = "corroborations"   -> Corroborations
      [] f = "takedown log"     -> TakedownLog
      [] f = "grievances"       -> Grievances

TablesOf(f) ==
    CASE f = "moderation queue" -> {"reviews", "layoffs"}
      [] f = "document queue"   -> {"documents"}
      [] f = "company reviews"  -> {"reviews"}
      [] f = "company layoffs"  -> {"layoffs"}
      [] f = "corroborations"   -> {"corroborations"}
      [] f = "takedown log"     -> {"takedowns"}
      [] f = "grievances"       -> {"complaints"}
RowsOf(f) == {i \in Rows : Table[i] \in TablesOf(f)}

OldestFirst(i, j) == Created[i] < Created[j]
NewestFirst(i, j) == Created[i] > Created[j]

\* flagged rows first, the oldest first among equals
FlaggedFirst(i, j) ==
    \/ i \in Flagged /\ j \notin Flagged
    \/ (i \in Flagged <=> j \in Flagged) /\ OldestFirst(i, j)

\* The sort key of listing f puts i before j.
Before(f, i, j) ==
    CASE f = "moderation queue" -> FlaggedFirst(i, j)
      [] f = "document queue"   -> OldestFirst(i, j)
      [] f = "company layoffs"  -> Due[i] > Due[j]
      [] f = "grievances"       -> Due[i] < Due[j]
      [] OTHER                  -> NewestFirst(i, j)

Smaller(m, n) == IF m <= n THEN m ELSE n

\* The sets that can come first when n rows are taken from E: rows whose keys
\* tie come in any order, and each query may choose another.
PrefixesUnsorted(f, E, n) ==
    {D \in SUBSET E : Cardinality(D) = Smaller(n, Cardinality(E))}
Prefixes(f, E, n) ==
    {D \in SUBSET E : /\ Cardinality(D) = Smaller(n, Cardinality(E))
                      /\ \A i \in D, j \in E \ D : ~Before(f, j, i)}

\* The pages that E gives at an offset.
PagesOverlapping(f, E, offset) ==
    {P \in SUBSET E : \E C \in Prefixes(f, E, offset) :
        C \cap P = {} /\ C \cup P \in Prefixes(f, E, offset + Limit + 1)}
Pages(f, E, offset) ==
    {P \in SUBSET E : \E C \in Prefixes(f, E, offset) :
        C \cap P = {} /\ C \cup P \in Prefixes(f, E, offset + Limit)}

\* No other row of the listing can have the same sort key.
Untied(f, i) == \A j \in RowsOf(f) \ {i} : Before(f, i, j) \/ Before(f, j, i)

Stay == UNCHANGED <<steady, came, left>>
-----------------------------------------------------------------------------
\* A scan begins at any moment, with any rows in its tables.
Init ==
    /\ \E f \in Feeds :
        /\ scan = [feed |-> f, at |-> "ask", offset |-> 0, first |-> {},
                   seen |-> {}, repeats |-> 0]
        /\ \E before \in [RowsOf(f) -> Lifecycle!Statuses] :
            /\ \A i \in RowsOf(f) : Table[i] \in OnlyGrow => before[i] \notin Lifecycle!Decided
            /\ status = [i \in Rows |-> IF i \in RowsOf(f) THEN before[i] ELSE "ABSENT"]
    /\ steady = Listed(scan.feed)
    /\ came = 0 /\ left = 0

\* What a step that leaves the scan alone does to its listing.
Track ==
    /\ came + left < MaxMoves
    /\ UNCHANGED scan
    /\ steady' = steady \cap Listed(scan.feed)'
    /\ came' = came + Cardinality(Listed(scan.feed)' \ Listed(scan.feed))
    /\ left' = left + Cardinality(Listed(scan.feed) \ Listed(scan.feed)')

\* A corroboration, takedown entry or complaint is committed.
AppendRow(i) ==
    /\ Table[i] \in OnlyGrow
    /\ Lifecycle!Enter(i)
    /\ Track

\* A review, layoff or document is committed, decided or decided again.
Moderate(i) ==
    /\ Table[i] \notin OnlyGrow
    /\ \/ Lifecycle!Enter(i)
       \/ \E s \in Lifecycle!Decided : Lifecycle!Decide(i, s) \/ Lifecycle!Revise(i, s)
    /\ Track

\* The first statement: the reviews of the queue, or the count of the others.
FirstStatement ==
    /\ scan.at = "ask"
    /\ scan' = [scan EXCEPT !.at = "half",
                            !.first = IF scan.feed = "moderation queue"
                                      THEN PendingOf("reviews") ELSE Listed(scan.feed)]
    /\ UNCHANGED status /\ Stay

\* The client has page P and the total: it asks for the next offset, or stops.
Show(P, total) ==
    /\ scan' = [scan EXCEPT
            !.at = IF scan.offset + Limit < total THEN "ask" ELSE "done",
            !.offset = @ + Limit,
            !.first = {},
            !.seen = @ \cup P,
            !.repeats = @ + Cardinality({i \in P \cap scan.seen : Untied(scan.feed, i)})]
    /\ UNCHANGED status /\ Stay

QueuePage ==
    /\ scan.at = "half" /\ scan.feed = "moderation queue"
    /\ LET entries == scan.first \cup PendingOf("layoffs")
       IN  \E P \in Pages(scan.feed, entries, scan.offset) : Show(P, Cardinality(entries))

ListPage ==
    /\ scan.at = "half" /\ scan.feed # "moderation queue"
    /\ \E P \in Pages(scan.feed, Listed(scan.feed), scan.offset) :
            Show(P, Cardinality(scan.first))

\* The request fails and the client asks for the same page again.
Fail ==
    /\ scan.at = "half"
    /\ scan' = [scan EXCEPT !.at = "ask", !.first = {}]
    /\ UNCHANGED status /\ Stay

Next ==
    \/ \E i \in RowsOf(scan.feed) : AppendRow(i) \/ Moderate(i)
    \/ FirstStatement \/ QueuePage \/ ListPage \/ Fail

Spec == Init /\ [][Next]_vars
-----------------------------------------------------------------------------
\* Types, and whose rows a scan has shown: its listing's, and to the public none
\* that moderation has not decided, whatever became of the row since.
TypeOK ==
    /\ status \in [Rows -> Lifecycle!Statuses]
    /\ scan \in [feed : Feeds, at : {"ask", "half", "done"}, offset : Nat,
                 first : SUBSET Rows, seen : SUBSET Rows, repeats : Nat]
    /\ scan.first \cup scan.seen \subseteq RowsOf(scan.feed)
    /\ scan.feed \in {"company reviews", "company layoffs"} =>
            \A i \in scan.seen : status[i] \in Lifecycle!Decided
    /\ steady \subseteq Listed(scan.feed)
    /\ came \in Nat /\ left \in Nat

\* Rows in the listing all along that the scan never showed, ties set aside.
Missed == {i \in steady \ scan.seen : Untied(scan.feed, i)}

\* A moderator who pages through the queue misses at most one pending item per
\* decision taken meanwhile: the offset skips nothing for any other reason,
\* although the two tables are read apart and rows arrive everywhere.
QueueMissesOnlyDecided ==
    scan.feed = "moderation queue" /\ scan.at = "done" => Cardinality(Missed) <= left

\* In the other listings a row may also fall behind a total that was counted
\* before the page was cut: never more rows than moved in or out.
ListMissesOnlyMoved ==
    scan.at = "done" => Cardinality(Missed) <= came + left

\* A row is shown again at most once per row that came in during the scan.
RepeatsOnlyArrivals == scan.repeats <= came

=============================================================================
