---------------------------- MODULE ListingsProofs ----------------------------
(***************************************************************************)
(* Theorems about Listings, for any rows, page size and order of commits.  *)
(***************************************************************************)
EXTENDS Listings, FiniteSetTheorems, TLAPS

\* A listing shows rows of its own tables.
LEMMA ListedRows ==
  ASSUME NEW f \in Feeds
  PROVE  Listed(f) \subseteq RowsOf(f)
BY FeedsAssumption
   DEF Listed, RowsOf, TablesOf, PendingSubmissions, PendingDocuments, PendingOf,
       PublishedReviews, PublishedLayoffs, Corroborations, TakedownLog, Grievances, Having

\* A public listing shows decided rows.
LEMMA PublicIsDecided ==
  ASSUME NEW f \in {"company reviews", "company layoffs"}, NEW i \in Listed(f)
  PROVE  status[i] \in Lifecycle!Decided
BY DEF Listed, PublishedReviews, PublishedLayoffs, Having, Lifecycle!Decided

\* A set of rows has a size.
LEMMA RowsCount ==
  ASSUME NEW S \in SUBSET Rows
  PROVE  Cardinality(S) \in Nat
BY RowsAssumption, FS_Subset, FS_CardinalityType

LEMMA NatSum == \A x, y \in Nat : x + y \in Nat
OBVIOUS

\* A page keeps the scan well formed when it is cut from rows of the listing's
\* tables, and from the public rows alone where the listing is public.
LEMMA ShowTyped ==
  ASSUME TypeOK, NEW P \in SUBSET RowsOf(scan.feed), NEW n, Show(P, n),
         scan.feed \in {"company reviews", "company layoffs"} => P \subseteq Listed(scan.feed)
  PROVE  TypeOK'
<1> DEFINE again == {i \in P \cap scan.seen : Untied(scan.feed, i)}
<1>1. Cardinality(again) \in Nat
  BY RowsCount DEF RowsOf
<1> HIDE DEF again
<1>2. scan' = [scan EXCEPT
            !.at = IF scan.offset + Limit < n THEN "ask" ELSE "done",
            !.offset = @ + Limit,
            !.first = {},
            !.seen = @ \cup P,
            !.repeats = @ + Cardinality(again)]
  BY DEF Show, again
<1>3. UNCHANGED <<status, steady, came, left>>
  BY DEF Show, Stay
<1>4. scan'.feed = scan.feed /\ scan'.first = {} /\ scan'.seen = scan.seen \cup P
  BY <1>2 DEF TypeOK
<1>5. scan' \in [feed : Feeds, at : {"ask", "half", "done"}, offset : Nat,
                 first : SUBSET Rows, seen : SUBSET Rows, repeats : Nat]
  <2> DEFINE c == Cardinality(again)
  <2>0. c \in Nat /\ Limit \in Nat
    BY <1>1, LimitAssumption
  <2>1. scan.offset \in Nat /\ scan.repeats \in Nat
    BY DEF TypeOK
  <2>2. P \subseteq Rows
    BY DEF RowsOf
  <2> DEFINE k == scan.repeats + c
             o == scan.offset + Limit
             pc == IF o < n THEN "ask" ELSE "done"
             shown == scan.seen \cup P
  <2>3. scan' = [scan EXCEPT !.at = pc, !.offset = o, !.first = {}, !.seen = shown,
                             !.repeats = k]
    BY <1>2 DEF TypeOK
  <2>4. scan \in [feed : Feeds, at : {"ask", "half", "done"}, offset : Nat,
                  first : SUBSET Rows, seen : SUBSET Rows, repeats : Nat]
    BY DEF TypeOK
  <2> HIDE DEF c
  <2>5. k \in Nat /\ o \in Nat
    BY <2>0, <2>1, NatSum, Zenon
  <2>6. pc \in {"ask", "half", "done"} /\ shown \subseteq Rows
    BY <2>2 DEF TypeOK
  <2> HIDE DEF k, o, pc, shown
  <2> QED BY <2>3, <2>4, <2>5, <2>6
<1>6. Listed(scan.feed)' = Listed(scan.feed)
  BY <1>3, <1>4 DEF Listed, PendingSubmissions, PendingDocuments, PendingOf,
                    PublishedReviews, PublishedLayoffs, Corroborations, TakedownLog, Grievances, Having
<1>7. scan.feed \in {"company reviews", "company layoffs"} =>
            \A i \in scan'.seen : status[i] \in Lifecycle!Decided
  BY <1>4, PublicIsDecided DEF TypeOK
<1> QED BY <1>3, <1>4, <1>5, <1>6, <1>7 DEF TypeOK, RowsOf

\* Every reachable state is well formed, and no public page ever showed a row
\* that moderation had not decided.
THEOREM TypeCorrect == Spec => []TypeOK
<1>1. Init => TypeOK
  <2> SUFFICES ASSUME Init PROVE TypeOK
    OBVIOUS
  <2>1. PICK f \in Feeds : scan = [feed |-> f, at |-> "ask", offset |-> 0, first |-> {},
                                   seen |-> {}, repeats |-> 0]
    BY DEF Init
  <2>2. status \in [Rows -> Lifecycle!Statuses]
    <3>1. PICK before \in [RowsOf(scan.feed) -> Lifecycle!Statuses] :
            status = [i \in Rows |-> IF i \in RowsOf(scan.feed) THEN before[i] ELSE "ABSENT"]
      BY <2>1 DEF Init
    <3> QED BY <3>1 DEF Lifecycle!Statuses
  <2> QED BY <2>1, <2>2 DEF Init, TypeOK
<1>2. TypeOK /\ [Next]_vars => TypeOK'
  <2> SUFFICES ASSUME TypeOK, [Next]_vars PROVE TypeOK'
    OBVIOUS
  <2>1. ASSUME NEW i \in RowsOf(scan.feed), AppendRow(i) \/ Moderate(i) PROVE TypeOK'
    <3> DEFINE inn == Listed(scan.feed)' \ Listed(scan.feed)
               out == Listed(scan.feed) \ Listed(scan.feed)'
    <3>1. scan' = scan /\ scan.feed \in Feeds
      BY <2>1 DEF AppendRow, Moderate, Track, TypeOK
    <3>2. Listed(scan.feed) \subseteq Rows
      BY <3>1, ListedRows DEF RowsOf
    <3>3. Listed(scan.feed)' \subseteq Rows
      BY <3>1, FeedsAssumption
         DEF Listed, PendingSubmissions, PendingDocuments, PendingOf,
             PublishedReviews, PublishedLayoffs, Corroborations, TakedownLog, Grievances, Having
    <3>4. Cardinality(inn) \in Nat /\ Cardinality(out) \in Nat
      BY <3>2, <3>3, RowsCount
    <3>5. came' \in Nat /\ left' \in Nat
      <4> DEFINE m == Cardinality(inn)
                 n == Cardinality(out)
      <4>1. came' = came + m /\ left' = left + n
        BY <2>1 DEF AppendRow, Moderate, Track
      <4>2. m \in Nat /\ n \in Nat
        BY <3>4
      <4>3. came \in Nat /\ left \in Nat
        BY DEF TypeOK
      <4> HIDE DEF m, n
      <4> QED BY <4>1, <4>2, <4>3
    <3>6. steady' \subseteq Listed(scan.feed)'
      BY <2>1 DEF AppendRow, Moderate, Track
    <3>7. PICK s \in Lifecycle!Statuses : /\ status' = [status EXCEPT ![i] = s]
                                          /\ s \notin Lifecycle!Decided => status[i] = "ABSENT"
      BY <2>1 DEF AppendRow, Moderate, Lifecycle!Enter, Lifecycle!Decide, Lifecycle!Revise,
                  Lifecycle!Statuses, Lifecycle!Decided
    <3>8. status' \in [Rows -> Lifecycle!Statuses]
      BY <3>7 DEF TypeOK
    <3>9. \A j \in Rows : status[j] \in Lifecycle!Decided => status'[j] \in Lifecycle!Decided
      BY <3>7 DEF TypeOK, Lifecycle!Decided
    <3> QED BY <3>1, <3>5, <3>6, <3>8, <3>9 DEF TypeOK, RowsOf
  <2>2. CASE FirstStatement
    <3>1. scan.feed \in Feeds /\ Listed(scan.feed) \subseteq RowsOf(scan.feed)
      BY ListedRows DEF TypeOK
    <3>2. scan.feed = "moderation queue" => PendingOf("reviews") \subseteq RowsOf(scan.feed)
      BY DEF PendingOf, Having, RowsOf, TablesOf
    <3>3. PICK S \in SUBSET RowsOf(scan.feed) :
            scan' = [scan EXCEPT !.at = "half", !.first = S]
      BY <2>2, <3>1, <3>2 DEF FirstStatement
    <3>4. UNCHANGED <<status, steady, came, left>>
      BY <2>2 DEF FirstStatement, Stay
    <3>5. scan'.feed = scan.feed /\ scan'.seen = scan.seen /\ scan'.first = S
      BY <3>3 DEF TypeOK
    <3>6. Listed(scan.feed)' = Listed(scan.feed) /\ RowsOf(scan.feed)' = RowsOf(scan.feed)
      BY <3>4, <3>5 DEF Listed, PendingSubmissions, PendingDocuments, PendingOf, RowsOf,
                    PublishedReviews, PublishedLayoffs, Corroborations, TakedownLog, Grievances, Having
    <3> QED BY <3>3, <3>4, <3>5, <3>6 DEF TypeOK, RowsOf
  <2>3. CASE QueuePage
    <3>1. scan.first \cup PendingOf("layoffs") \subseteq RowsOf(scan.feed)
      BY <2>3 DEF QueuePage, TypeOK, PendingOf, Having, RowsOf, TablesOf
    <3> QED BY <2>3, <3>1, ShowTyped DEF QueuePage, Pages
  <2>4. CASE ListPage
    <3>1. Listed(scan.feed) \subseteq RowsOf(scan.feed)
      BY ListedRows DEF TypeOK
    <3> QED BY <2>4, <3>1, ShowTyped DEF ListPage, Pages
  <2>5. CASE Fail
    <3>1. scan' = [scan EXCEPT !.at = "ask", !.first = {}]
      BY <2>5 DEF Fail
    <3>2. UNCHANGED <<status, steady, came, left>>
      BY <2>5 DEF Fail, Stay
    <3>3. scan'.feed = scan.feed /\ scan'.seen = scan.seen /\ scan'.first = {}
      BY <3>1 DEF TypeOK
    <3>4. Listed(scan.feed)' = Listed(scan.feed) /\ RowsOf(scan.feed)' = RowsOf(scan.feed)
      BY <3>2, <3>3 DEF Listed, PendingSubmissions, PendingDocuments, PendingOf, RowsOf,
                    PublishedReviews, PublishedLayoffs, Corroborations, TakedownLog, Grievances, Having
    <3> QED BY <3>1, <3>2, <3>3, <3>4 DEF TypeOK, RowsOf
  <2>6. CASE UNCHANGED vars
    <3>1. UNCHANGED <<status, scan, steady, came, left>>
      BY <2>6 DEF vars
    <3>2. Listed(scan.feed)' = Listed(scan.feed) /\ RowsOf(scan.feed)' = RowsOf(scan.feed)
      BY <3>1 DEF Listed, PendingSubmissions, PendingDocuments, PendingOf, RowsOf,
                    PublishedReviews, PublishedLayoffs, Corroborations, TakedownLog, Grievances, Having
    <3> QED BY <3>1, <3>2 DEF TypeOK, RowsOf
  <2> QED BY <2>1, <2>2, <2>3, <2>4, <2>5, <2>6 DEF Next
<1> QED BY <1>1, <1>2, PTL DEF Spec

-----------------------------------------------------------------------------
(***************************************************************************)
(* The bounds on what a scan misses and repeats.  A row's rank is its      *)
(* place in a listing; a row without ties is on the page its rank says.    *)
(* A row that leaves lowers ranks by one and lets at most one row slip     *)
(* under the offset unseen; a row that comes raises them by one and lifts  *)
(* at most one row that was seen back over the offset.                     *)
(***************************************************************************)

\* How many rows of E the listing puts before row i.
Rank(f, E, i) == Cardinality({j \in E : Before(f, j, i)})

\* The rows of S that an offset into E leaves behind, and those still to come.
Behind(f, E, S, offset) == {i \in S : Untied(f, i) /\ Rank(f, E, i) < offset}
Ahead(f, E, S, offset)  == {i \in S : Untied(f, i) /\ Rank(f, E, i) >= offset}

\* Between its two statements the queue has its reviews from the first one.
QueueHalf == scan.at = "half" /\ scan.feed = "moderation queue"

\* What the next page is cut from, and how it differs from the listing.
View == IF QueueHalf THEN scan.first \cup PendingOf("layoffs") ELSE Listed(scan.feed)
Gone == IF QueueHalf THEN scan.first \ PendingOf("reviews") ELSE {}
Late == IF QueueHalf THEN PendingOf("reviews") \ scan.first ELSE {}

\* Every row behind the offset unseen is charged to a row that left, every row
\* seen and ahead of it again to one that came.
SkipsCharged ==
    scan.at # "done" =>
        Cardinality(Behind(scan.feed, View, steady \ scan.seen, scan.offset))
            + Cardinality(Gone) <= left

RepeatsCharged ==
    Cardinality(Ahead(scan.feed, View, View \cap scan.seen, scan.offset))
        + Cardinality(Late) + scan.repeats <= came

\* What came since the total was counted.
TotalCharged ==
    scan.at = "half" /\ scan.feed # "moderation queue" =>
        Cardinality(Listed(scan.feed) \ scan.first) <= came

MissesCharged ==
    scan.at = "done" =>
        Cardinality(Missed) <= IF scan.feed = "moderation queue" THEN left ELSE came + left

\* The view holds what was listed all along, and what was seen and is pending:
\* an item does not come back into the queue.
ViewCovers ==
    /\ steady \subseteq View
    /\ QueueHalf => scan.seen \cap PendingOf("reviews") \subseteq scan.first
    /\ scan.feed = "moderation queue" =>
            \A i \in scan.seen \cup scan.first : status[i] # "ABSENT"

Account ==
    /\ SkipsCharged /\ RepeatsCharged /\ TotalCharged /\ MissesCharged /\ ViewCovers

-----------------------------------------------------------------------------
\* Sets of rows are finite, and their sizes behave.
LEMMA RowSets ==
  ASSUME NEW S \in SUBSET Rows
  PROVE  IsFiniteSet(S) /\ Cardinality(S) \in Nat
BY RowsAssumption, FS_Subset, FS_CardinalityType

LEMMA SizeMonotone ==
  ASSUME NEW S \in SUBSET Rows, NEW T \in SUBSET S
  PROVE  Cardinality(T) <= Cardinality(S)
BY RowSets, FS_Subset

LEMMA SizeOfUnion ==
  ASSUME NEW S \in SUBSET Rows, NEW T \in SUBSET Rows
  PROVE  Cardinality(S \cup T) <= Cardinality(S) + Cardinality(T)
<1>1. /\ IsFiniteSet(S) /\ IsFiniteSet(T)
      /\ Cardinality(S) \in Nat /\ Cardinality(T) \in Nat
      /\ Cardinality(S \cap T) \in Nat
  <2>1. S \cap T \in SUBSET Rows
    OBVIOUS
  <2> QED BY <2>1, RowSets
<1>2. Cardinality(S \cup T) = Cardinality(S) + Cardinality(T) - Cardinality(S \cap T)
  BY <1>1, FS_Union
<1> QED BY <1>1, <1>2

\* A row outside T is one more.
LEMMA SizeStrict ==
  ASSUME NEW S \in SUBSET Rows, NEW T \in SUBSET S, NEW i \in S \ T
  PROVE  Cardinality(T) < Cardinality(S)
<1>1. IsFiniteSet(S) /\ Cardinality(S) \in Nat /\ Cardinality(T) \in Nat
  BY RowSets
<1>2. Cardinality(T) <= Cardinality(S) /\ (Cardinality(S) = Cardinality(T) => S = T)
  BY <1>1, FS_Subset
<1>3. S # T
  OBVIOUS
<1> QED BY <1>1, <1>2, <1>3

\* The sort key of a listing is a strict order.
LEMMA BeforeOrders ==
  ASSUME NEW f \in Feeds, NEW i \in Rows, NEW j \in Rows, NEW k \in Rows
  PROVE  /\ ~Before(f, i, i)
         /\ Before(f, i, j) => ~Before(f, j, i)
         /\ Before(f, i, j) /\ Before(f, j, k) => Before(f, i, k)
<1>1. /\ Created[i] \in Int /\ Created[j] \in Int /\ Created[k] \in Int
      /\ Due[i] \in Int /\ Due[j] \in Int /\ Due[k] \in Int
  BY KeysAssumption
<1>2. /\ ~OldestFirst(i, i) /\ ~NewestFirst(i, i) /\ ~FlaggedFirst(i, i)
      /\ OldestFirst(i, j) => ~OldestFirst(j, i)
      /\ NewestFirst(i, j) => ~NewestFirst(j, i)
      /\ FlaggedFirst(i, j) => ~FlaggedFirst(j, i)
  BY <1>1 DEF OldestFirst, NewestFirst, FlaggedFirst
<1>3. /\ OldestFirst(i, j) /\ OldestFirst(j, k) => OldestFirst(i, k)
      /\ NewestFirst(i, j) /\ NewestFirst(j, k) => NewestFirst(i, k)
      /\ FlaggedFirst(i, j) /\ FlaggedFirst(j, k) => FlaggedFirst(i, k)
  BY <1>1 DEF OldestFirst, NewestFirst, FlaggedFirst
<1>4. CASE f = "company layoffs"
  <2>1. \A x, y : Before(f, x, y) <=> Due[x] > Due[y]
    BY <1>4 DEF Before
  <2> QED BY <1>1, <2>1
<1>5. CASE f = "grievances"
  <2>1. \A x, y : Before(f, x, y) <=> Due[x] < Due[y]
    BY <1>5 DEF Before
  <2> QED BY <1>1, <2>1
<1>6. CASE f = "moderation queue"
  <2>1. \A x, y : Before(f, x, y) <=> FlaggedFirst(x, y)
    BY <1>6 DEF Before
  <2> QED BY <1>2, <1>3, <2>1
<1>7. CASE f = "document queue"
  <2>1. \A x, y : Before(f, x, y) <=> OldestFirst(x, y)
    BY <1>7 DEF Before
  <2> QED BY <1>2, <1>3, <2>1
<1>8. CASE f \notin {"company layoffs", "grievances", "moderation queue", "document queue"}
  <2>1. \A x, y : Before(f, x, y) <=> NewestFirst(x, y)
    BY <1>8 DEF Before
  <2> QED BY <1>2, <1>3, <2>1
<1> QED BY <1>4, <1>5, <1>6, <1>7, <1>8

\* The rows of E before row i.
LEMMA RankTyped ==
  ASSUME NEW f, NEW E \in SUBSET Rows, NEW i
  PROVE  Rank(f, E, i) \in Nat
<1>1. {j \in E : Before(f, j, i)} \in SUBSET Rows
  OBVIOUS
<1> QED BY <1>1, RowSets DEF Rank

\* A row is below the size of a listing it is in.
LEMMA RankBelowSize ==
  ASSUME NEW f \in Feeds, NEW E \in SUBSET Rows, NEW i \in E
  PROVE  Rank(f, E, i) < Cardinality(E)
<1> DEFINE T == {j \in E : Before(f, j, i)}
<1>1. T \in SUBSET E /\ i \in E \ T
  BY BeforeOrders
<1> QED BY <1>1, SizeStrict DEF Rank

\* The sort order and the ranks agree.
LEMMA RankFollowsOrder ==
  ASSUME NEW f \in Feeds, NEW E \in SUBSET Rows, NEW i \in E, NEW j \in Rows,
         Before(f, i, j)
  PROVE  Rank(f, E, i) < Rank(f, E, j)
<1> DEFINE T == {k \in E : Before(f, k, i)}
           S == {k \in E : Before(f, k, j)}
<1>1. S \in SUBSET Rows
  OBVIOUS
<1>2. T \in SUBSET S
  BY BeforeOrders
<1>3. i \in S \ T
  BY BeforeOrders
<1> HIDE DEF S, T
<1>4. Cardinality(T) < Cardinality(S)
  BY <1>1, <1>2, <1>3, SizeStrict
<1> QED BY <1>4 DEF Rank, S, T

\* What a listing loses or gains moves a rank by no more.
LEMMA RankDiffers ==
  ASSUME NEW f, NEW E \in SUBSET Rows, NEW D \in SUBSET Rows, NEW i
  PROVE  Rank(f, E, i) <= Rank(f, D, i) + Cardinality(E \ D)
<1> DEFINE S == {j \in E : Before(f, j, i)}
           T == {j \in D : Before(f, j, i)}
<1>1. S \in SUBSET Rows /\ T \in SUBSET Rows /\ E \ D \in SUBSET Rows
      /\ T \cup (E \ D) \in SUBSET Rows
  OBVIOUS
<1>2. S \in SUBSET (T \cup (E \ D))
  OBVIOUS
<1> HIDE DEF S, T
<1>3. Cardinality(S) <= Cardinality(T \cup (E \ D))
  BY <1>1, <1>2, SizeMonotone
<1>4. Cardinality(T \cup (E \ D)) <= Cardinality(T) + Cardinality(E \ D)
  BY <1>1, SizeOfUnion
<1>5. /\ Cardinality(S) \in Nat /\ Cardinality(T) \in Nat
      /\ Cardinality(E \ D) \in Nat /\ Cardinality(T \cup (E \ D)) \in Nat
  BY <1>1, RowSets
<1>6. Cardinality(S) <= Cardinality(T) + Cardinality(E \ D)
  BY <1>3, <1>4, <1>5
<1> QED BY <1>6 DEF Rank, S, T

\* Rows without ties have ranks of their own, so a range of ranks holds no more
\* of them than it is long.
LEMMA RanksSpread ==
  ASSUME NEW f \in Feeds, NEW E \in SUBSET RowsOf(f), NEW S \in SUBSET E,
         NEW a \in Int, NEW b \in Int,
         \A i \in S : Untied(f, i) /\ a <= Rank(f, E, i) /\ Rank(f, E, i) <= b
  PROVE  Cardinality(S) <= IF a > b THEN 0 ELSE b - a + 1
<1> DEFINE g == [i \in S |-> Rank(f, E, i)]
<1>1. E \in SUBSET Rows
  BY DEF RowsOf
<1>2. g \in [S -> a..b]
  BY <1>1, RankTyped
<1>3. ASSUME NEW i \in S, NEW j \in S, i # j PROVE Rank(f, E, i) # Rank(f, E, j)
  <2>1. j \in RowsOf(f) \ {i}
    BY <1>3
  <2>2. Before(f, i, j) \/ Before(f, j, i)
    BY <2>1 DEF Untied
  <2>3. Rank(f, E, i) < Rank(f, E, j) \/ Rank(f, E, j) < Rank(f, E, i)
    BY <1>1, <2>2, RankFollowsOrder
  <2>4. Rank(f, E, i) \in Nat /\ Rank(f, E, j) \in Nat
    BY <1>1, RankTyped
  <2> QED BY <2>3, <2>4
<1>4. g \in Injection(S, a..b)
  BY <1>2, <1>3 DEF Injection, IsInjective
<1>5. IsFiniteSet(a..b) /\ Cardinality(a..b) = IF a > b THEN 0 ELSE b - a + 1
  BY FS_Interval
<1>6. Cardinality(S) <= Cardinality(a..b)
  BY <1>4, <1>5, FS_Injection
<1> QED BY <1>5, <1>6

\* The first n rows of a listing hold a row without ties when its rank says so.
LEMMA PrefixRows ==
  ASSUME NEW f \in Feeds, NEW E \in SUBSET RowsOf(f), NEW n \in Nat,
         NEW D \in Prefixes(f, E, n), NEW i \in E, Untied(f, i)
  PROVE  i \in D <=> Rank(f, E, i) < n
<1> DEFINE T == {j \in E : Before(f, j, i)}
<1>1. E \in SUBSET Rows /\ D \in SUBSET E /\ T \in SUBSET E
  BY DEF Prefixes, RowsOf
<1>2. /\ Cardinality(E) \in Nat /\ Cardinality(D) \in Nat /\ Cardinality(T) \in Nat
      /\ Rank(f, E, i) = Cardinality(T)
  <2>1. D \in SUBSET Rows /\ T \in SUBSET Rows
    BY <1>1
  <2> QED BY <1>1, <2>1, RowSets DEF Rank
<1>3. /\ Cardinality(D) = Smaller(n, Cardinality(E))
      /\ \A d \in D, j \in E \ D : ~Before(f, j, d)
  BY DEF Prefixes
<1>4. Cardinality(D) <= n /\ (Cardinality(D) = n \/ Cardinality(D) = Cardinality(E))
  BY <1>2, <1>3 DEF Smaller
<1>5. ASSUME i \in D PROVE Cardinality(T) < n
  <2>1. T \in SUBSET D /\ i \in D \ T /\ D \in SUBSET Rows
    BY <1>1, <1>3, <1>5, BeforeOrders
  <2> HIDE DEF T
  <2>2. Cardinality(T) < Cardinality(D)
    BY <2>1, SizeStrict
  <2> QED BY <1>2, <1>4, <2>2
<1>6. ASSUME i \notin D PROVE Cardinality(T) >= n
  <2>1. ASSUME NEW d \in D PROVE Before(f, d, i)
    <3>1. ~Before(f, i, d) /\ d \in RowsOf(f) \ {i}
      BY <1>1, <1>3, <1>6
    <3> QED BY <3>1 DEF Untied
  <2>2. D \in SUBSET T /\ T \in SUBSET Rows
    BY <1>1, <2>1
  <2> HIDE DEF T
  <2>3. Cardinality(D) <= Cardinality(T)
    BY <2>2, SizeMonotone
  <2>4. Cardinality(T) < Cardinality(E)
    BY <1>1, <1>2, RankBelowSize
  <2> QED BY <1>2, <1>4, <2>3, <2>4
<1> QED BY <1>2, <1>5, <1>6

\* A page holds the rows without ties whose ranks it spans.
LEMMA PageRows ==
  ASSUME NEW f \in Feeds, NEW E \in SUBSET RowsOf(f), NEW offset \in Nat,
         NEW P \in Pages(f, E, offset), NEW i \in E, Untied(f, i)
  PROVE  i \in P <=> offset <= Rank(f, E, i) /\ Rank(f, E, i) < offset + Limit
<1>1. offset + Limit \in Nat
  BY LimitAssumption
<1>2. PICK C \in Prefixes(f, E, offset) :
        C \cap P = {} /\ C \cup P \in Prefixes(f, E, offset + Limit)
  BY DEF Pages
<1>3. i \in C <=> Rank(f, E, i) < offset
  BY PrefixRows
<1>4. i \in C \cup P <=> Rank(f, E, i) < offset + Limit
  BY <1>1, <1>2, PrefixRows
<1>5. Rank(f, E, i) \in Nat
  BY RankTyped DEF RowsOf
<1> QED BY <1>1, <1>2, <1>3, <1>4, <1>5, LimitAssumption

\* When the listing changes from E to D no more rows slip behind the offset than
\* E has lost.
LEMMA BehindGrows ==
  ASSUME NEW f \in Feeds, NEW E \in SUBSET RowsOf(f), NEW D \in SUBSET RowsOf(f),
         NEW S \in SUBSET E, NEW offset \in Nat
  PROVE  Cardinality(Behind(f, D, S, offset))
            <= Cardinality(Behind(f, E, S, offset)) + Cardinality(E \ D)
<1> DEFINE d == Cardinality(E \ D)
           C == {i \in S : Untied(f, i) /\ Rank(f, D, i) < offset /\ Rank(f, E, i) >= offset}
           old == Behind(f, E, S, offset)
           new == Behind(f, D, S, offset)
<1>1. E \in SUBSET Rows /\ D \in SUBSET Rows
  BY DEF RowsOf
<1>2. old \in SUBSET Rows /\ C \in SUBSET Rows /\ old \cup C \in SUBSET Rows
  BY <1>1 DEF Behind
<1>3. new \in SUBSET (old \cup C)
  <2> SUFFICES ASSUME NEW i \in new, i \notin old PROVE i \in C
    OBVIOUS
  <2>1. Rank(f, E, i) \in Nat
    BY <1>1, RankTyped
  <2> QED BY <2>1 DEF Behind
<1>4. d \in Nat
  <2>1. E \ D \in SUBSET Rows
    BY <1>1
  <2> QED BY <2>1, RowSets
<1>5. \A i \in C : Untied(f, i) /\ offset <= Rank(f, E, i) /\ Rank(f, E, i) <= offset + d - 1
  <2> SUFFICES ASSUME NEW i \in C
               PROVE  offset <= Rank(f, E, i) /\ Rank(f, E, i) <= offset + d - 1
    OBVIOUS
  <2>1. Rank(f, E, i) \in Nat /\ Rank(f, D, i) \in Nat
    BY <1>1, RankTyped
  <2>2. Rank(f, E, i) <= Rank(f, D, i) + d
    BY <1>1, RankDiffers
  <2>3. Rank(f, D, i) < offset /\ Rank(f, E, i) >= offset
    OBVIOUS
  <2> HIDE DEF d, C
  <2> QED BY <1>4, <2>1, <2>2, <2>3
<1>6. C \in SUBSET E
  OBVIOUS
<1> HIDE DEF d, C, old, new
<1>7. offset \in Int /\ offset + d - 1 \in Int
  BY <1>4
<1>8. Cardinality(C) <= IF offset > offset + d - 1 THEN 0 ELSE (offset + d - 1) - offset + 1
  BY <1>5, <1>6, <1>7, RanksSpread
<1>9. Cardinality(C) <= d
  BY <1>4, <1>8
<1>10. Cardinality(new) <= Cardinality(old \cup C)
  BY <1>2, <1>3, SizeMonotone
<1>11. Cardinality(old \cup C) <= Cardinality(old) + Cardinality(C)
  BY <1>2, SizeOfUnion
<1>12. /\ Cardinality(new) \in Nat /\ Cardinality(old) \in Nat /\ Cardinality(C) \in Nat
       /\ Cardinality(old \cup C) \in Nat
  <2>1. new \in SUBSET Rows
    BY <1>2, <1>3
  <2> QED BY <1>2, <2>1, RowSets
<1>13. Cardinality(new) <= Cardinality(old) + d
  BY <1>4, <1>9, <1>10, <1>11, <1>12
<1> QED BY <1>13 DEF d, old, new

\* Rows of S that E has behind the offset and D ahead of it.
Lifted(f, E, D, S, offset) ==
  {i \in S : Untied(f, i) /\ Rank(f, E, i) < offset /\ Rank(f, D, i) >= offset}

\* They are no more than D has won.
LEMMA LiftedFew ==
  ASSUME NEW f \in Feeds, NEW E \in SUBSET RowsOf(f), NEW D \in SUBSET RowsOf(f),
         NEW S \in SUBSET E, NEW offset \in Nat
  PROVE  Cardinality(Lifted(f, E, D, S, offset)) <= Cardinality(D \ E)
<1> DEFINE d == Cardinality(D \ E)
           C == Lifted(f, E, D, S, offset)
<1>1. E \in SUBSET Rows /\ D \in SUBSET Rows
  BY DEF RowsOf
<1>2. d \in Nat
  <2>1. D \ E \in SUBSET Rows
    BY <1>1
  <2> QED BY <2>1, RowSets
<1>3. \A i \in C : Untied(f, i) /\ offset - d <= Rank(f, E, i) /\ Rank(f, E, i) <= offset - 1
  <2> SUFFICES ASSUME NEW i \in C
               PROVE  offset - d <= Rank(f, E, i) /\ Rank(f, E, i) <= offset - 1
    BY DEF Lifted
  <2>1. Rank(f, E, i) \in Nat /\ Rank(f, D, i) \in Nat
    BY <1>1, RankTyped
  <2>2. Rank(f, D, i) <= Rank(f, E, i) + d
    BY <1>1, RankDiffers
  <2>3. Rank(f, E, i) < offset /\ Rank(f, D, i) >= offset
    BY DEF Lifted
  <2> HIDE DEF d, C
  <2> QED BY <1>2, <2>1, <2>2, <2>3
<1>4. C \in SUBSET E
  BY DEF Lifted
<1> HIDE DEF d, C
<1>5. offset - d \in Int /\ offset - 1 \in Int
  BY <1>2
<1>6. Cardinality(C) <= IF offset - d > offset - 1 THEN 0 ELSE (offset - 1) - (offset - d) + 1
  BY <1>3, <1>4, <1>5, RanksSpread
<1>7. Cardinality(C) <= d
  BY <1>2, <1>6
<1> QED BY <1>7 DEF d, C

\* Sizes of what is ahead when E becomes D: the old rows, those lifted, and X.
LEMMA AheadSplits ==
  ASSUME NEW f \in Feeds, NEW E \in SUBSET RowsOf(f), NEW D \in SUBSET RowsOf(f),
         NEW S \in SUBSET RowsOf(f), NEW X \in SUBSET Rows, NEW offset \in Nat,
         Ahead(f, D, D \cap S, offset)
            \subseteq (Ahead(f, E, E \cap S, offset) \cup Lifted(f, E, D, E \cap D \cap S, offset))
                        \cup X
  PROVE  Cardinality(Ahead(f, D, D \cap S, offset))
            <= Cardinality(Ahead(f, E, E \cap S, offset))
                + Cardinality(Lifted(f, E, D, E \cap D \cap S, offset)) + Cardinality(X)
<1> DEFINE old == Ahead(f, E, E \cap S, offset)
           new == Ahead(f, D, D \cap S, offset)
           C == Lifted(f, E, D, E \cap D \cap S, offset)
<1>1. /\ old \in SUBSET Rows /\ new \in SUBSET Rows /\ C \in SUBSET Rows
      /\ old \cup C \in SUBSET Rows /\ (old \cup C) \cup X \in SUBSET Rows
      /\ new \in SUBSET ((old \cup C) \cup X)
  BY DEF Ahead, Lifted, RowsOf
<1> HIDE DEF old, new, C
<1>2. /\ Cardinality(new) <= Cardinality((old \cup C) \cup X)
      /\ Cardinality((old \cup C) \cup X) <= Cardinality(old \cup C) + Cardinality(X)
      /\ Cardinality(old \cup C) <= Cardinality(old) + Cardinality(C)
  BY <1>1, SizeMonotone, SizeOfUnion
<1>3. /\ Cardinality(new) \in Nat /\ Cardinality(old) \in Nat /\ Cardinality(C) \in Nat
      /\ Cardinality(X) \in Nat
      /\ Cardinality(old \cup C) \in Nat /\ Cardinality((old \cup C) \cup X) \in Nat
  BY <1>1, RowSets
<1>4. Cardinality(new) <= Cardinality(old) + Cardinality(C) + Cardinality(X)
  BY <1>2, <1>3
<1> QED BY <1>4 DEF old, new, C

\* When the rows won were never seen, seen rows ahead grow by no more than those.
LEMMA AheadGrows ==
  ASSUME NEW f \in Feeds, NEW E \in SUBSET RowsOf(f), NEW D \in SUBSET RowsOf(f),
         NEW S \in SUBSET RowsOf(f), NEW offset \in Nat, D \cap S \subseteq E
  PROVE  Cardinality(Ahead(f, D, D \cap S, offset))
            <= Cardinality(Ahead(f, E, E \cap S, offset)) + Cardinality(D \ E)
<1> DEFINE old == Ahead(f, E, E \cap S, offset)
           new == Ahead(f, D, D \cap S, offset)
           C == Lifted(f, E, D, E \cap D \cap S, offset)
<1>0. E \in SUBSET Rows /\ D \in SUBSET Rows
  BY DEF RowsOf
<1>1. new \subseteq (old \cup C) \cup {}
  <2> SUFFICES ASSUME NEW i \in new, i \notin old PROVE i \in C
    OBVIOUS
  <2>1. Rank(f, E, i) \in Nat
    BY <1>0, RankTyped
  <2> QED BY <2>1 DEF Ahead, Lifted
<1>2. Cardinality(new) <= Cardinality(old) + Cardinality(C) + Cardinality({})
  BY <1>1, AheadSplits
<1>3. Cardinality(C) <= Cardinality(D \ E)
  BY LiftedFew
<1>4. /\ old \in SUBSET Rows /\ new \in SUBSET Rows /\ C \in SUBSET Rows
      /\ D \ E \in SUBSET Rows
  BY <1>0 DEF Ahead, Lifted
<1> HIDE DEF old, new, C
<1>5. /\ Cardinality(new) \in Nat /\ Cardinality(old) \in Nat /\ Cardinality(C) \in Nat
      /\ Cardinality(D \ E) \in Nat
  BY <1>4, RowSets
<1>6. Cardinality({}) = 0
  BY FS_EmptySet
<1>7. Cardinality(new) <= Cardinality(old) + Cardinality(D \ E)
  BY <1>2, <1>3, <1>5, <1>6
<1> QED BY <1>7 DEF old, new

\* The same when a single row came, seen before or not: a row that is itself
\* ahead lifts no other over the offset.
LEMMA AheadGrowsByOne ==
  ASSUME NEW f \in Feeds, NEW E \in SUBSET RowsOf(f), NEW D \in SUBSET RowsOf(f),
         NEW S \in SUBSET RowsOf(f), NEW offset \in Nat,
         NEW x \in RowsOf(f), D \ E \subseteq {x}
  PROVE  Cardinality(Ahead(f, D, D \cap S, offset))
            <= Cardinality(Ahead(f, E, E \cap S, offset)) + Cardinality(D \ E)
<1> DEFINE old == Ahead(f, E, E \cap S, offset)
           new == Ahead(f, D, D \cap S, offset)
           C == Lifted(f, E, D, E \cap D \cap S, offset)
<1>0. E \in SUBSET Rows /\ D \in SUBSET Rows /\ x \in Rows
  BY DEF RowsOf
<1>1. CASE x \in new \ E
  <2>1. ASSUME NEW i \in C PROVE FALSE
    <3>1. /\ i \in E /\ i \in D /\ i # x /\ x \in D /\ D \ E = {x}
          /\ Rank(f, E, i) < offset /\ Rank(f, D, i) >= offset
          /\ Untied(f, x) /\ Rank(f, D, x) >= offset
      BY <1>1 DEF Lifted, Ahead
    <3>2. /\ Rank(f, E, i) \in Nat /\ Rank(f, D, i) \in Nat /\ Rank(f, D, x) \in Nat
          /\ Cardinality(D \ E) = 1
      BY <1>0, <3>1, RankTyped, FS_Singleton
    <3>3. Rank(f, D, i) <= Rank(f, E, i) + Cardinality(D \ E)
      BY <1>0, RankDiffers
    <3>4. Rank(f, D, i) = offset
      BY <3>1, <3>2, <3>3
    <3>5. Before(f, x, i) \/ Before(f, i, x)
      BY <3>1 DEF Untied
    <3>6. CASE Before(f, x, i)
      <4>1. Rank(f, D, x) < Rank(f, D, i)
        BY <1>0, <3>1, <3>6, RankFollowsOrder
      <4> QED BY <3>1, <3>2, <3>4, <4>1
    <3>7. CASE Before(f, i, x)
      <4> DEFINE U == {j \in D : Before(f, j, i)}
                 V == {j \in E : Before(f, j, i)}
      <4>1. ~Before(f, x, i)
        BY <1>0, <3>1, <3>7, BeforeOrders
      <4>2. U \in SUBSET V /\ V \in SUBSET Rows
        BY <1>0, <3>1, <4>1
      <4> HIDE DEF U, V
      <4>3. Cardinality(U) <= Cardinality(V)
        BY <4>2, SizeMonotone
      <4>4. Rank(f, D, i) <= Rank(f, E, i)
        BY <4>3 DEF Rank, U, V
      <4> QED BY <3>1, <3>2, <4>4
    <3> QED BY <3>5, <3>6, <3>7
  <2>2. new \subseteq (old \cup C) \cup {x}
    <3> SUFFICES ASSUME NEW i \in new, i \notin old, i # x PROVE i \in C
      OBVIOUS
    <3>1. Rank(f, E, i) \in Nat
      BY <1>0, RankTyped
    <3>2. i \in E
      BY DEF Ahead
    <3> QED BY <3>1, <3>2 DEF Ahead, Lifted
  <2>3. {x} \in SUBSET Rows
    BY <1>0
  <2>4. Cardinality(new) <= Cardinality(old) + Cardinality(C) + Cardinality({x})
    BY <2>2, <2>3, AheadSplits
  <2>5. C = {} /\ D \ E = {x}
    BY <1>1, <2>1 DEF Ahead
  <2>6. Cardinality(C) = 0 /\ Cardinality({x}) = 1 /\ Cardinality(D \ E) = 1
    BY <2>5, FS_EmptySet, FS_Singleton
  <2>7. Cardinality(new) \in Nat /\ Cardinality(old) \in Nat
    <3>1. new \in SUBSET Rows /\ old \in SUBSET Rows
      BY <1>0 DEF Ahead
    <3> QED BY <3>1, RowSets
  <2> QED BY <2>4, <2>6, <2>7
<1>2. CASE x \notin new \ E
  <2> DEFINE T == S \ (D \ E)
  <2>1. new = Ahead(f, D, D \cap T, offset)
    BY <1>2 DEF Ahead
  <2>2. old = Ahead(f, E, E \cap T, offset)
    BY DEF Ahead
  <2>3. T \in SUBSET RowsOf(f) /\ D \cap T \subseteq E
    OBVIOUS
  <2> HIDE DEF T
  <2>4. Cardinality(Ahead(f, D, D \cap T, offset))
            <= Cardinality(Ahead(f, E, E \cap T, offset)) + Cardinality(D \ E)
    BY <2>3, AheadGrows
  <2> QED BY <2>1, <2>2, <2>4
<1> QED BY <1>1, <1>2

-----------------------------------------------------------------------------
\* The rows of every set the account speaks of.
TypedView ==
    /\ scan.feed \in Feeds /\ scan.offset \in Nat /\ scan.repeats \in Nat
    /\ came \in Nat /\ left \in Nat
    /\ Listed(scan.feed) \in SUBSET RowsOf(scan.feed)
    /\ View \in SUBSET RowsOf(scan.feed)
    /\ scan.seen \in SUBSET RowsOf(scan.feed)
    /\ RowsOf(scan.feed) \in SUBSET Rows
    /\ Gone \in SUBSET Rows /\ Late \in SUBSET Rows

LEMMA ViewRows == TypeOK => TypedView
<1> SUFFICES ASSUME TypeOK PROVE TypedView
  OBVIOUS
<1>1. scan.feed \in Feeds
  BY DEF TypeOK
<1>2. Listed(scan.feed) \in SUBSET RowsOf(scan.feed)
  BY <1>1, ListedRows
<1>3. QueueHalf => PendingOf("layoffs") \in SUBSET RowsOf(scan.feed)
  BY DEF QueueHalf, PendingOf, Having, RowsOf, TablesOf
<1> QED BY <1>1, <1>2, <1>3
        DEF TypedView, TypeOK, View, Gone, Late, RowsOf, PendingOf, Having

\* View and listing differ by what is gone and what was late.
LEMMA ViewAndListing ==
  ASSUME TypeOK
  PROVE  View \ Listed(scan.feed) \subseteq Gone /\ Listed(scan.feed) \ View \subseteq Late
<1>1. CASE QueueHalf
  <2>1. Listed(scan.feed) = PendingOf("reviews") \cup PendingOf("layoffs")
    BY <1>1 DEF QueueHalf, Listed, PendingSubmissions
  <2> QED BY <1>1, <2>1 DEF View, Gone, Late
<1>2. CASE ~QueueHalf
  BY <1>2 DEF View, Gone, Late
<1> QED BY <1>1, <1>2

\* Back at the listing, the rows behind an offset and ahead of it are charged.
LEMMA BackToListing ==
  ASSUME TypeOK, steady \subseteq View, NEW S \in SUBSET steady,
         NEW T \in SUBSET RowsOf(scan.feed), Listed(scan.feed) \cap T \subseteq View,
         NEW offset \in Nat
  PROVE  /\ Cardinality(Behind(scan.feed, Listed(scan.feed), S, offset))
              <= Cardinality(Behind(scan.feed, View, S, offset)) + Cardinality(Gone)
         /\ Cardinality(Ahead(scan.feed, Listed(scan.feed), Listed(scan.feed) \cap T, offset))
              <= Cardinality(Ahead(scan.feed, View, View \cap T, offset)) + Cardinality(Late)
<1> DEFINE f == scan.feed
           L == Listed(scan.feed)
           V == View
<1>1. /\ f \in Feeds /\ L \in SUBSET RowsOf(f) /\ V \in SUBSET RowsOf(f)
      /\ RowsOf(f) \in SUBSET Rows
      /\ Gone \in SUBSET Rows /\ Late \in SUBSET Rows
      /\ V \ L \in SUBSET Gone /\ L \ V \in SUBSET Late
  BY ViewRows, ViewAndListing DEF TypedView
<1>2. S \in SUBSET V /\ T \in SUBSET RowsOf(f) /\ L \cap T \subseteq V
  OBVIOUS
<1> HIDE DEF f, L, V
<1>3. /\ Cardinality(Behind(f, L, S, offset))
           <= Cardinality(Behind(f, V, S, offset)) + Cardinality(V \ L)
      /\ Cardinality(Ahead(f, L, L \cap T, offset))
           <= Cardinality(Ahead(f, V, V \cap T, offset)) + Cardinality(L \ V)
  BY <1>1, <1>2, BehindGrows, AheadGrows
<1>4. Cardinality(V \ L) <= Cardinality(Gone) /\ Cardinality(L \ V) <= Cardinality(Late)
  BY <1>1, SizeMonotone
<1>5. /\ Behind(f, L, S, offset) \in SUBSET Rows /\ Behind(f, V, S, offset) \in SUBSET Rows
      /\ Ahead(f, L, L \cap T, offset) \in SUBSET Rows
      /\ Ahead(f, V, V \cap T, offset) \in SUBSET Rows
      /\ V \ L \in SUBSET Rows /\ L \ V \in SUBSET Rows
  BY <1>1, <1>2 DEF Behind, Ahead
<1>6. /\ Cardinality(Behind(f, L, S, offset)) \in Nat
      /\ Cardinality(Behind(f, V, S, offset)) \in Nat
      /\ Cardinality(Ahead(f, L, L \cap T, offset)) \in Nat
      /\ Cardinality(Ahead(f, V, V \cap T, offset)) \in Nat
      /\ Cardinality(V \ L) \in Nat /\ Cardinality(L \ V) \in Nat
      /\ Cardinality(Gone) \in Nat /\ Cardinality(Late) \in Nat
  BY <1>1, <1>5, RowSets
<1>7. /\ Cardinality(Behind(f, L, S, offset))
           <= Cardinality(Behind(f, V, S, offset)) + Cardinality(Gone)
      /\ Cardinality(Ahead(f, L, L \cap T, offset))
           <= Cardinality(Ahead(f, V, V \cap T, offset)) + Cardinality(Late)
  BY <1>3, <1>4, <1>6
<1> QED BY <1>7 DEF f, L, V

\* What a commit or a decision does to one row.
LEMMA MoveWrites ==
  ASSUME TypeOK, NEW i \in RowsOf(scan.feed), AppendRow(i) \/ Moderate(i)
  PROVE  /\ scan' = scan /\ i \in Rows
         /\ status'[i] # "ABSENT" /\ (status'[i] = "PENDING" => status[i] = "ABSENT")
         /\ \A j \in Rows : j # i => status'[j] = status[j]
         /\ steady' = steady \cap Listed(scan.feed)'
         /\ came' = came + Cardinality(Listed(scan.feed)' \ Listed(scan.feed))
         /\ left' = left + Cardinality(Listed(scan.feed) \ Listed(scan.feed)')
<1>1. PICK s \in Lifecycle!Statuses : /\ status' = [status EXCEPT ![i] = s]
                                      /\ s # "ABSENT"
                                      /\ s = "PENDING" => status[i] = "ABSENT"
  BY DEF AppendRow, Moderate, Lifecycle!Enter, Lifecycle!Decide, Lifecycle!Revise,
         Lifecycle!Statuses, Lifecycle!Decided
<1>2. i \in Rows
  BY DEF RowsOf
<1> QED BY <1>1, <1>2 DEF AppendRow, Moderate, Track, TypeOK

\* It moves a row of the view, or one that the next query will find moved.
LEMMA MoveViews ==
  ASSUME TypeOK, ViewCovers, NEW i \in RowsOf(scan.feed), AppendRow(i) \/ Moderate(i)
  PROVE  /\ View' \ View \subseteq {i}
         /\ \/ /\ View' = View
               /\ Gone' \subseteq Gone \cup (Listed(scan.feed) \ Listed(scan.feed)')
               /\ Late' \subseteq Late \cup (Listed(scan.feed)' \ Listed(scan.feed))
            \/ /\ View \ View' \subseteq Listed(scan.feed) \ Listed(scan.feed)'
               /\ View' \ View \subseteq Listed(scan.feed)' \ Listed(scan.feed)
               /\ Gone' = Gone /\ Late' = Late
         /\ ViewCovers'
<1>1. /\ scan' = scan /\ i \in Rows /\ status'[i] # "ABSENT"
      /\ status'[i] = "PENDING" => status[i] = "ABSENT"
      /\ \A j \in Rows : j # i => status'[j] = status[j]
      /\ steady' = steady \cap Listed(scan.feed)'
  BY MoveWrites
<1>2. \A j \in Rows : status[j] # "ABSENT" => status'[j] # "ABSENT"
  BY <1>1
<1>3. scan.seen \subseteq Rows /\ scan.first \subseteq Rows
  BY DEF TypeOK
<1>4. QueueHalf' = QueueHalf
  BY <1>1 DEF QueueHalf
<1>5. scan.feed = "moderation queue" =>
          \A j \in scan'.seen \cup scan'.first : status'[j] # "ABSENT"
  BY <1>1, <1>2, <1>3 DEF ViewCovers
<1>6. QueueHalf => scan.seen \cap PendingOf("reviews")' \subseteq scan.first
  <2> SUFFICES ASSUME QueueHalf, NEW j \in scan.seen, j \in PendingOf("reviews")'
               PROVE  j \in scan.first
    OBVIOUS
  <2>1. j \in Rows /\ Table[j] = "reviews" /\ status'[j] = "PENDING"
    BY DEF PendingOf, Having
  <2>2. status[j] # "ABSENT"
    BY DEF ViewCovers, QueueHalf
  <2>3. status[j] = "PENDING"
    BY <1>1, <2>1, <2>2
  <2> QED BY <2>1, <2>3 DEF ViewCovers, PendingOf, Having
<1>7. CASE QueueHalf
  <2> DEFINE R == PendingOf("reviews")
             Y == PendingOf("layoffs")
  <2>1. Listed(scan.feed) = R \cup Y /\ Listed(scan.feed)' = R' \cup Y'
    BY <1>1, <1>7 DEF QueueHalf, Listed, PendingSubmissions
  <2>2. R \cap Y = {} /\ R' \cap Y' = {} /\ R \cap Y' = {} /\ R' \cap Y = {}
    BY DEF PendingOf, Having
  <2>3. /\ View = scan.first \cup Y /\ View' = scan.first \cup Y'
        /\ Gone = scan.first \ R /\ Gone' = scan.first \ R'
        /\ Late = R \ scan.first /\ Late' = R' \ scan.first
    BY <1>1, <1>4, <1>7 DEF View, Gone, Late
  <2>4. Y' \ Y \subseteq {i} /\ (R' = R \/ Y' = Y)
    BY <1>1 DEF PendingOf, Having
  <2>5. steady' \subseteq View'
    BY <1>1, <2>1, <2>2, <2>3 DEF ViewCovers
  <2>6. ViewCovers'
    BY <1>1, <1>4, <1>5, <1>6, <2>5 DEF ViewCovers
  <2> HIDE DEF R, Y
  <2> QED BY <2>1, <2>2, <2>3, <2>4, <2>6
<1>8. CASE ~QueueHalf
  <2>1. View = Listed(scan.feed) /\ View' = Listed(scan.feed)'
    BY <1>4, <1>8, <1>1 DEF View
  <2>2. Gone = {} /\ Gone' = {} /\ Late = {} /\ Late' = {}
    BY <1>4, <1>8 DEF Gone, Late
  <2>3. Listed(scan.feed)' \ Listed(scan.feed) \subseteq {i}
    <3>1. \A t, statuses : Having(t, statuses)' \ Having(t, statuses) \subseteq {i}
      BY <1>1 DEF Having
    <3>2. scan.feed \in {"moderation queue", "document queue", "company reviews",
                         "company layoffs", "corroborations", "takedown log", "grievances"}
      BY FeedsAssumption DEF TypeOK
    <3>3. scan'.feed = scan.feed
      BY <1>1
    <3> QED BY <3>1, <3>2, <3>3
            DEF Listed, PendingSubmissions, PendingDocuments, PendingOf, PublishedReviews,
                PublishedLayoffs, Corroborations, TakedownLog, Grievances
  <2>4. ViewCovers'
    BY <1>1, <1>4, <1>5, <1>8, <2>1 DEF ViewCovers
  <2> QED BY <2>1, <2>2, <2>3, <2>4
<1> QED BY <1>7, <1>8

\* Sums of what was charged and what is charged now.
LEMMA Charge ==
  \A new, both, old, had, more \in Nat :
     new <= both /\ both <= old + more /\ old <= had => new <= had + more
OBVIOUS

LEMMA Charges ==
  \A new, old, c, l, x, y \in Nat :
     new <= old => /\ old <= l => new <= l + y
                   /\ old <= c + l => new <= (c + x) + (l + y)
OBVIOUS

\* A row that moves is paid for by came or left.
LEMMA MoveKeepsAccount ==
  ASSUME TypeOK, TypeOK', Account, NEW i \in RowsOf(scan.feed), AppendRow(i) \/ Moderate(i)
  PROVE  Account'
<1> DEFINE f == scan.feed
           o == scan.offset
           in == Listed(f)' \ Listed(f)
           out == Listed(f) \ Listed(f)'
<1>1. /\ scan' = scan /\ steady' = steady \cap Listed(f)'
      /\ came' = came + Cardinality(in) /\ left' = left + Cardinality(out)
  BY MoveWrites
<1>2. /\ f \in Feeds /\ o \in Nat /\ scan.repeats \in Nat /\ came \in Nat /\ left \in Nat
      /\ View \in SUBSET RowsOf(f) /\ View' \in SUBSET RowsOf(f)
      /\ Listed(f) \in SUBSET Rows /\ Listed(f)' \in SUBSET Rows
      /\ scan.seen \in SUBSET RowsOf(f) /\ RowsOf(f) \in SUBSET Rows
      /\ Gone \in SUBSET Rows /\ Late \in SUBSET Rows
      /\ Gone' \in SUBSET Rows /\ Late' \in SUBSET Rows
  <2>1. TypedView /\ TypedView'
    BY ViewRows, PTL
  <2> QED BY <1>1, <2>1 DEF TypedView
<1>3. /\ View' \ View \subseteq {i}
      /\ \/ View' = View /\ Gone' \subseteq Gone \cup out /\ Late' \subseteq Late \cup in
         \/ /\ View \ View' \subseteq out /\ View' \ View \subseteq in
            /\ Gone' = Gone /\ Late' = Late
      /\ ViewCovers'
  BY MoveViews DEF Account
<1>4. /\ in \in SUBSET Rows /\ out \in SUBSET Rows
      /\ Cardinality(in) \in Nat /\ Cardinality(out) \in Nat
      /\ Cardinality(Gone) \in Nat /\ Cardinality(Late) \in Nat
      /\ Cardinality(Gone') \in Nat /\ Cardinality(Late') \in Nat
      /\ Cardinality(View \ View') \in Nat /\ Cardinality(View' \ View) \in Nat
  <2>1. /\ in \in SUBSET Rows /\ out \in SUBSET Rows
        /\ View \ View' \in SUBSET Rows /\ View' \ View \in SUBSET Rows
    BY <1>2
  <2> HIDE DEF in, out
  <2> QED BY <1>2, <2>1, RowSets
<1> HIDE DEF in, out
<1>5. /\ Cardinality(View \ View') + Cardinality(Gone') <= Cardinality(Gone) + Cardinality(out)
      /\ Cardinality(View' \ View) + Cardinality(Late') <= Cardinality(Late) + Cardinality(in)
  <2>1. CASE View' = View /\ Gone' \subseteq Gone \cup out /\ Late' \subseteq Late \cup in
    <3>1. Cardinality(View \ View') = 0 /\ Cardinality(View' \ View) = 0
      BY <2>1, FS_EmptySet
    <3>2. Gone \cup out \in SUBSET Rows /\ Late \cup in \in SUBSET Rows
      BY <1>2, <1>4
    <3>3. /\ Cardinality(Gone') <= Cardinality(Gone \cup out)
          /\ Cardinality(Late') <= Cardinality(Late \cup in)
          /\ Cardinality(Gone \cup out) <= Cardinality(Gone) + Cardinality(out)
          /\ Cardinality(Late \cup in) <= Cardinality(Late) + Cardinality(in)
      BY <1>2, <1>4, <2>1, <3>2, SizeMonotone, SizeOfUnion
    <3>4. Cardinality(Gone \cup out) \in Nat /\ Cardinality(Late \cup in) \in Nat
      BY <3>2, RowSets
    <3> QED BY <1>4, <3>1, <3>3, <3>4
  <2>2. CASE /\ View \ View' \subseteq out /\ View' \ View \subseteq in
             /\ Gone' = Gone /\ Late' = Late
    <3>1. /\ Cardinality(View \ View') <= Cardinality(out)
          /\ Cardinality(View' \ View) <= Cardinality(in)
      BY <1>4, <2>2, SizeMonotone
    <3> QED BY <1>4, <2>2, <3>1
  <2> QED BY <1>3, <2>1, <2>2
<1>6. SkipsCharged'
  <2> SUFFICES ASSUME scan.at # "done"
               PROVE  Cardinality(Behind(f, View', steady' \ scan.seen, o)) + Cardinality(Gone')
                        <= left'
    BY <1>1 DEF SkipsCharged, Behind, Untied, RowsOf, Rank
  <2> DEFINE new == Behind(f, View', steady' \ scan.seen, o)
             mid == Behind(f, View', steady \ scan.seen, o)
             old == Behind(f, View, steady \ scan.seen, o)
  <2>1. steady \ scan.seen \in SUBSET View
    BY DEF Account, ViewCovers
  <2>2. Cardinality(mid) <= Cardinality(old) + Cardinality(View \ View')
    BY <1>2, <2>1, BehindGrows
  <2>3. new \in SUBSET mid /\ mid \in SUBSET Rows /\ old \in SUBSET Rows /\ new \in SUBSET Rows
    BY <1>1, <1>2, <2>1 DEF Behind
  <2>4. Cardinality(old) + Cardinality(Gone) <= left
    BY DEF Account, SkipsCharged
  <2> HIDE DEF new, mid, old
  <2>5. /\ Cardinality(new) <= Cardinality(mid)
        /\ Cardinality(new) \in Nat /\ Cardinality(mid) \in Nat /\ Cardinality(old) \in Nat
    BY <2>3, SizeMonotone, RowSets
  <2>6. Cardinality(new) + Cardinality(Gone') <= left + Cardinality(out)
    BY <1>2, <1>4, <1>5, <2>2, <2>4, <2>5
  <2> QED BY <1>1, <2>6 DEF new, out
<1>7. RepeatsCharged'
  <2> DEFINE new == Ahead(f, View', View' \cap scan.seen, o)
             old == Ahead(f, View, View \cap scan.seen, o)
  <2>1. Cardinality(new) <= Cardinality(old) + Cardinality(View' \ View)
    BY <1>2, <1>3, AheadGrowsByOne
  <2>2. Cardinality(old) + Cardinality(Late) + scan.repeats <= came
    BY DEF Account, RepeatsCharged
  <2>3. Cardinality(new) \in Nat /\ Cardinality(old) \in Nat
    <3>1. new \in SUBSET Rows /\ old \in SUBSET Rows
      BY <1>2 DEF Ahead
    <3> QED BY <3>1, RowSets
  <2>4. RepeatsCharged' <=> Cardinality(new) + Cardinality(Late') + scan.repeats <= came'
    BY <1>1 DEF RepeatsCharged, Ahead, Untied, RowsOf, Rank
  <2> HIDE DEF new, old
  <2>5. Cardinality(new) + Cardinality(Late') + scan.repeats <= came + Cardinality(in)
    BY <1>2, <1>4, <1>5, <2>1, <2>2, <2>3
  <2> QED BY <1>1, <2>4, <2>5 DEF in
<1>8. TotalCharged'
  <2> SUFFICES ASSUME scan.at = "half", f # "moderation queue"
               PROVE  Cardinality(Listed(f)' \ scan.first) <= came'
    BY <1>1 DEF TotalCharged
  <2> DEFINE new == Listed(f)' \ scan.first
             old == Listed(f) \ scan.first
  <2>1. new \in SUBSET (old \cup in) /\ old \in SUBSET Rows /\ old \cup in \in SUBSET Rows
    BY <1>2, <1>4 DEF in
  <2>2. Cardinality(old) <= came
    BY DEF Account, TotalCharged
  <2> HIDE DEF new, old
  <2>3. /\ Cardinality(new) <= Cardinality(old \cup in)
        /\ Cardinality(old \cup in) <= Cardinality(old) + Cardinality(in)
        /\ Cardinality(old) \in Nat /\ Cardinality(old \cup in) \in Nat
    BY <1>4, <2>1, SizeMonotone, SizeOfUnion, RowSets
  <2>4. Cardinality(new) \in Nat
    <3>1. new \in SUBSET Rows
      BY <2>1
    <3> QED BY <3>1, RowSets
  <2>5. came \in Nat /\ Cardinality(in) \in Nat
    BY <1>2, <1>4
  <2>6. Cardinality(new) <= came + Cardinality(in)
    BY ONLY <2>2, <2>3, <2>4, <2>5, Charge
  <2> QED BY <1>1, <2>6 DEF new, in
<1>9. MissesCharged'
  <2> SUFFICES ASSUME scan.at = "done"
               PROVE  Cardinality(Missed') <= IF f = "moderation queue" THEN left' ELSE came' + left'
    BY <1>1 DEF MissesCharged
  <2>1. Missed' \in SUBSET Missed /\ Missed \in SUBSET Rows
    <3>1. steady \in SUBSET Rows
      BY <1>2 DEF TypeOK
    <3> QED BY <1>1, <3>1 DEF Missed, Untied, RowsOf
  <2>2. Missed' \in SUBSET Rows
    BY <2>1
  <2>3. /\ Cardinality(Missed') <= Cardinality(Missed)
        /\ Cardinality(Missed') \in Nat /\ Cardinality(Missed) \in Nat
    BY <2>1, <2>2, SizeMonotone, RowSets
  <2>4. Cardinality(Missed) <= IF f = "moderation queue" THEN left ELSE came + left
    BY DEF Account, MissesCharged
  <2>5. /\ came \in Nat /\ Cardinality(in) \in Nat
        /\ left \in Nat /\ Cardinality(out) \in Nat
    BY <1>2, <1>4
  <2>6. Cardinality(Missed') <= IF f = "moderation queue" THEN left + Cardinality(out)
                                ELSE (came + Cardinality(in)) + (left + Cardinality(out))
    BY <2>3, <2>4, <2>5, Charges
  <2> QED BY <1>1, <2>6 DEF in, out
<1> QED BY <1>3, <1>6, <1>7, <1>8, <1>9 DEF Account

\* When the scan is back at the listing with nothing gone or late, this is what
\* remains of the account.
LEMMA AccountAtListing ==
  ASSUME scan'.at # "half", scan'.feed = scan.feed, UNCHANGED <<status, steady, came, left>>,
         scan'.at # "done" =>
            Cardinality(Behind(scan.feed, Listed(scan.feed), steady \ scan'.seen, scan'.offset))
                <= left,
         Cardinality(Ahead(scan.feed, Listed(scan.feed), Listed(scan.feed) \cap scan'.seen,
                           scan'.offset))
            + scan'.repeats <= came,
         scan'.at = "done" =>
            Cardinality({i \in steady \ scan'.seen : Untied(scan.feed, i)})
                <= IF scan.feed = "moderation queue" THEN left ELSE came + left,
         steady \subseteq Listed(scan.feed), scan'.first = {},
         scan.feed = "moderation queue" => \A i \in scan'.seen : status[i] # "ABSENT",
         scan'.offset \in Nat, scan'.repeats \in Nat, came \in Nat, left \in Nat,
         scan.feed \in Feeds, scan'.seen \subseteq Rows
  PROVE  Account'
<1>1. Listed(scan.feed)' = Listed(scan.feed)
  BY DEF Listed, PendingSubmissions, PendingDocuments, PendingOf, PublishedReviews,
         PublishedLayoffs, Corroborations, TakedownLog, Grievances, Having
<1>2. /\ View' = Listed(scan.feed) /\ Gone' = {} /\ Late' = {} /\ ~QueueHalf'
  BY <1>1 DEF View, Gone, Late, QueueHalf
<1>3. Cardinality({}) = 0
  BY FS_EmptySet
<1>4. /\ Cardinality(Behind(scan.feed, Listed(scan.feed), steady \ scan'.seen, scan'.offset)) \in Nat
      /\ Cardinality(Ahead(scan.feed, Listed(scan.feed), Listed(scan.feed) \cap scan'.seen,
                           scan'.offset)) \in Nat
  <2>1. Listed(scan.feed) \in SUBSET Rows
    BY ListedRows DEF RowsOf
  <2>2. /\ Behind(scan.feed, Listed(scan.feed), steady \ scan'.seen, scan'.offset) \in SUBSET Rows
        /\ Ahead(scan.feed, Listed(scan.feed), Listed(scan.feed) \cap scan'.seen,
                 scan'.offset) \in SUBSET Rows
    BY <2>1 DEF Behind, Ahead
  <2> QED BY <2>2, RowSets
<1>5. SkipsCharged'
  <2> DEFINE n == Cardinality(Behind(scan.feed, Listed(scan.feed), steady \ scan'.seen,
                                     scan'.offset))
  <2>1. scan'.at # "done" => n + Cardinality({}) <= left
    <3>1. n \in Nat /\ left \in Nat /\ (scan'.at # "done" => n <= left)
      BY <1>4
    <3> HIDE DEF n
    <3> QED BY ONLY <1>3, <3>1
  <2> QED BY <1>2, <2>1 DEF SkipsCharged
<1>6. RepeatsCharged'
  <2> DEFINE n == Cardinality(Ahead(scan.feed, Listed(scan.feed),
                                    Listed(scan.feed) \cap scan'.seen, scan'.offset))
  <2>1. n + Cardinality({}) + scan'.repeats <= came
    <3>1. /\ n \in Nat /\ n + scan'.repeats <= came
          /\ scan'.repeats \in Nat /\ came \in Nat
      BY <1>4
    <3> HIDE DEF n
    <3> QED BY ONLY <1>3, <3>1
  <2> QED BY <1>2, <2>1 DEF RepeatsCharged
<1>7. TotalCharged' /\ ViewCovers'
  BY <1>2 DEF TotalCharged, ViewCovers
<1>8. MissesCharged'
  BY DEF MissesCharged, Missed, Untied, RowsOf
<1> QED BY <1>5, <1>6, <1>7, <1>8 DEF Account

\* What a page shows again was ahead of the old offset, not of the new one.
LEMMA ShownAgain ==
  ASSUME NEW f \in Feeds, NEW E \in SUBSET RowsOf(f), NEW o \in Nat,
         NEW P \in Pages(f, E, o), NEW S \in SUBSET RowsOf(f)
  PROVE  Cardinality(Ahead(f, E, E \cap (S \cup P), o + Limit))
            + Cardinality({i \in P \cap S : Untied(f, i)})
              <= Cardinality(Ahead(f, E, E \cap S, o))
<1> DEFINE new == Ahead(f, E, E \cap (S \cup P), o + Limit)
           old == Ahead(f, E, E \cap S, o)
           again == {i \in P \cap S : Untied(f, i)}
<1>1. E \in SUBSET Rows /\ P \in SUBSET E /\ o + Limit \in Nat
  BY LimitAssumption DEF RowsOf, Pages
<1>2. \A i \in E : Untied(f, i) =>
        (i \in P <=> o <= Rank(f, E, i) /\ Rank(f, E, i) < o + Limit)
  BY PageRows
<1>3. \A i \in E : Rank(f, E, i) \in Nat
  BY <1>1, RankTyped
<1>4. new \cap again = {} /\ new \cup again \in SUBSET old
  <2>1. ASSUME NEW i \in new PROVE i \in old /\ i \notin P
    <3>1. i \in E /\ Untied(f, i) /\ Rank(f, E, i) >= o + Limit /\ i \in S \cup P
      BY DEF Ahead
    <3>2. i \notin P
      BY <1>1, <1>2, <1>3, <3>1
    <3>3. Rank(f, E, i) >= o
      BY <1>3, <3>1, LimitAssumption
    <3> QED BY <3>1, <3>2, <3>3 DEF Ahead
  <2>2. ASSUME NEW i \in again PROVE i \in old /\ i \in P
    BY <1>1, <1>2, <1>3 DEF Ahead
  <2> QED BY <2>1, <2>2
<1>5. old \in SUBSET Rows /\ new \in SUBSET Rows /\ again \in SUBSET Rows
  BY <1>1 DEF Ahead
<1> HIDE DEF new, old, again
<1>6. /\ IsFiniteSet(new) /\ IsFiniteSet(again)
      /\ Cardinality(new) \in Nat /\ Cardinality(again) \in Nat
      /\ Cardinality(old) \in Nat /\ Cardinality({}) = 0
  BY <1>5, RowSets, FS_EmptySet
<1>7. Cardinality(new \cup again) = Cardinality(new) + Cardinality(again) - Cardinality({})
  BY <1>4, <1>6, FS_Union
<1>8. Cardinality(new \cup again) <= Cardinality(old)
  BY <1>4, <1>5, SizeMonotone
<1>9. Cardinality(new) + Cardinality(again) <= Cardinality(old)
  BY <1>6, <1>7, <1>8
<1> QED BY <1>9 DEF new, old, again

\* A row that was in the view and is behind the new offset unseen was behind the
\* old one.
LEMMA BehindBefore ==
  ASSUME NEW f \in Feeds, NEW E \in SUBSET RowsOf(f), NEW o \in Nat,
         NEW P \in Pages(f, E, o), NEW S, NEW T \in SUBSET E
  PROVE  Behind(f, E, T \ (S \cup P), o + Limit) \subseteq Behind(f, E, T \ S, o)
<1> SUFFICES ASSUME NEW i \in Behind(f, E, T \ (S \cup P), o + Limit)
             PROVE  Rank(f, E, i) < o
  BY DEF Behind
<1>1. i \in E /\ i \notin P /\ Untied(f, i) /\ Rank(f, E, i) < o + Limit
  BY DEF Behind
<1>2. Rank(f, E, i) \in Nat
  BY <1>1, RankTyped DEF RowsOf
<1>3. i \in P <=> o <= Rank(f, E, i) /\ Rank(f, E, i) < o + Limit
  BY <1>1, PageRows
<1> QED BY <1>1, <1>2, <1>3

\* Beyond the offset at which a scan stops there are only rows that came after
\* the total was counted.
LEMMA BeyondTotal ==
  ASSUME NEW f \in Feeds, NEW E \in SUBSET RowsOf(f), NEW o \in Nat,
         NEW C \in SUBSET Rows, o >= Cardinality(C), NEW S \in SUBSET E
  PROVE  Cardinality({i \in S : Untied(f, i)})
            <= Cardinality(Behind(f, E, S, o)) + Cardinality(E \ C)
<1> DEFINE all == {i \in S : Untied(f, i)}
           old == Behind(f, E, S, o)
           tail == {i \in S : Untied(f, i) /\ Rank(f, E, i) >= o}
           n == Cardinality(E)
           c == Cardinality(C)
           d == Cardinality(E \ C)
<1>1. E \in SUBSET Rows
  BY DEF RowsOf
<1>2. all \in SUBSET (old \cup tail)
  <2>1. \A i \in S : Rank(f, E, i) \in Nat
    BY <1>1, RankTyped
  <2> QED BY <2>1 DEF Behind
<1>3. /\ all \in SUBSET Rows /\ old \in SUBSET Rows /\ tail \in SUBSET Rows
      /\ old \cup tail \in SUBSET Rows /\ tail \in SUBSET E
      /\ E \ C \in SUBSET Rows /\ C \cup (E \ C) \in SUBSET Rows
      /\ E \in SUBSET (C \cup (E \ C))
  BY <1>1 DEF Behind
<1>4. \A i \in tail : Untied(f, i) /\ o <= Rank(f, E, i) /\ Rank(f, E, i) <= n - 1
  <2> SUFFICES ASSUME NEW i \in tail PROVE Rank(f, E, i) <= n - 1
    OBVIOUS
  <2>1. Rank(f, E, i) < n /\ Rank(f, E, i) \in Nat /\ n \in Nat
    BY <1>1, <1>3, RankBelowSize, RankTyped, RowSets
  <2> HIDE DEF n
  <2> QED BY <2>1
<1> HIDE DEF all, old, tail
<1>5. n \in Nat /\ c \in Nat /\ d \in Nat /\ Cardinality(C \cup (E \ C)) \in Nat
  BY <1>1, <1>3, RowSets
<1>6. n <= c + d
  <2>1. n <= Cardinality(C \cup (E \ C)) /\ Cardinality(C \cup (E \ C)) <= c + d
    BY <1>3, SizeMonotone, SizeOfUnion
  <2> HIDE DEF n, c, d
  <2> QED BY <1>5, <2>1
<1>7. o \in Int /\ n - 1 \in Int
  BY <1>5
<1>8. Cardinality(tail) <= IF o > n - 1 THEN 0 ELSE (n - 1) - o + 1
  BY <1>3, <1>4, <1>7, RanksSpread
<1>9. /\ Cardinality(all) <= Cardinality(old \cup tail)
      /\ Cardinality(old \cup tail) <= Cardinality(old) + Cardinality(tail)
      /\ Cardinality(all) \in Nat /\ Cardinality(old) \in Nat /\ Cardinality(tail) \in Nat
      /\ Cardinality(old \cup tail) \in Nat
  BY <1>2, <1>3, SizeMonotone, SizeOfUnion, RowSets
<1>10. Cardinality(tail) <= d
  <2>1. o >= c
    OBVIOUS
  <2> HIDE DEF n, c, d
  <2> QED BY <1>5, <1>6, <1>8, <1>9, <2>1
<1>11. Cardinality(all) <= Cardinality(old) + d
  <2> HIDE DEF n, c, d
  <2> QED BY <1>5, <1>9, <1>10
<1> QED BY <1>11 DEF all, old

\* What a page writes to the scan.
LEMMA ShowWrites ==
  ASSUME TypeOK, NEW P, NEW n, Show(P, n)
  PROVE  /\ scan'.feed = scan.feed
         /\ scan'.at = (IF scan.offset + Limit < n THEN "ask" ELSE "done")
         /\ scan'.offset = scan.offset + Limit
         /\ scan'.first = {}
         /\ scan'.seen = scan.seen \cup P
         /\ scan'.repeats = scan.repeats
                + Cardinality({i \in P \cap scan.seen : Untied(scan.feed, i)})
<1> DEFINE k == Cardinality({i \in P \cap scan.seen : Untied(scan.feed, i)})
           pc == IF scan.offset + Limit < n THEN "ask" ELSE "done"
<1>1. scan' = [scan EXCEPT !.at = pc, !.offset = @ + Limit, !.first = {},
                           !.seen = @ \cup P, !.repeats = @ + k]
  BY DEF Show
<1> HIDE DEF k, pc
<1>2. /\ scan'.feed = scan.feed /\ scan'.at = pc /\ scan'.offset = scan.offset + Limit
      /\ scan'.first = {} /\ scan'.seen = scan.seen \cup P
      /\ scan'.repeats = scan.repeats + k
  BY <1>1 DEF TypeOK
<1> QED BY <1>2, Zenon DEF k, pc

\* A page keeps the account: C is what the total was counted from.
LEMMA ShowKeepsAccount ==
  ASSUME TypeOK, TypeOK', Account, scan.at = "half",
         NEW P \in Pages(scan.feed, View, scan.offset), NEW C \in SUBSET Rows,
         Show(P, Cardinality(C)),
         C = IF scan.feed = "moderation queue" THEN View ELSE scan.first
  PROVE  Account'
<1> DEFINE f == scan.feed
           o == scan.offset
           L == Listed(f)
           V == View
           unseen == steady \ scan.seen
           still == steady \ (scan.seen \cup P)
           again == {i \in P \cap scan.seen : Untied(f, i)}
           was == Cardinality(Behind(f, V, unseen, o))
           now == Cardinality(Behind(f, V, still, o + Limit))
           had == Cardinality(Ahead(f, V, V \cap scan.seen, o))
           has == Cardinality(Ahead(f, V, V \cap (scan.seen \cup P), o + Limit))
           gone == Cardinality(Gone)
           late == Cardinality(Late)
<1>1. /\ scan'.feed = f /\ scan'.at = (IF o + Limit < Cardinality(C) THEN "ask" ELSE "done")
      /\ scan'.offset = o + Limit /\ scan'.first = {} /\ scan'.seen = scan.seen \cup P
      /\ scan'.repeats = scan.repeats + Cardinality(again)
  BY ShowWrites
<1>2. /\ f \in Feeds /\ o \in Nat /\ scan.repeats \in Nat /\ came \in Nat /\ left \in Nat
      /\ L \in SUBSET RowsOf(f) /\ V \in SUBSET RowsOf(f) /\ scan.seen \in SUBSET RowsOf(f)
      /\ RowsOf(f) \in SUBSET Rows /\ Gone \in SUBSET Rows /\ Late \in SUBSET Rows
      /\ P \in SUBSET V /\ P \in SUBSET RowsOf(f) /\ o + Limit \in Nat
      /\ steady \in SUBSET V /\ steady \in SUBSET L
  <2>1. TypedView
    BY ViewRows
  <2>2. o \in Nat /\ Limit \in Nat
    BY <2>1, LimitAssumption DEF TypedView
  <2>3. o + Limit \in Nat
    BY ONLY <2>2, NatSum
  <2>4. P \in SUBSET V
    BY DEF Pages
  <2>5. steady \in SUBSET V /\ steady \in SUBSET L
    BY DEF Account, ViewCovers, TypeOK
  <2> QED BY ONLY <2>1, <2>3, <2>4, <2>5 DEF TypedView
<1>3. L \cap (scan.seen \cup P) \subseteq V
  <2>1. ASSUME NEW i \in L \cap scan.seen PROVE i \in V
    <3>1. L \ V \subseteq Late
      BY ViewAndListing
    <3> QED BY <3>1 DEF Late, Account, ViewCovers
  <2> QED BY <1>2, <2>1
<1>4. /\ Cardinality(Behind(f, L, still, o + Limit)) <= now + gone
      /\ Cardinality(Ahead(f, L, L \cap (scan.seen \cup P), o + Limit)) <= has + late
  <2>1. still \in SUBSET steady /\ scan.seen \cup P \in SUBSET RowsOf(scan.feed)
        /\ steady \subseteq View
    BY <1>2
  <2> QED BY <1>2, <1>3, <2>1, BackToListing
<1>5. now <= was
  <2>1. Behind(f, V, still, o + Limit) \in SUBSET Behind(f, V, unseen, o)
    BY <1>2, BehindBefore
  <2>2. Behind(f, V, unseen, o) \in SUBSET Rows
    BY <1>2 DEF Behind
  <2> QED BY <2>1, <2>2, SizeMonotone
<1>6. has + Cardinality(again) <= had
  BY <1>2, ShownAgain
<1>7. was + gone <= left /\ had + late + scan.repeats <= came
  BY DEF Account, SkipsCharged, RepeatsCharged
<1>8. /\ was \in Nat /\ now \in Nat /\ had \in Nat /\ has \in Nat /\ gone \in Nat /\ late \in Nat
      /\ Cardinality(again) \in Nat
      /\ Cardinality(Behind(f, L, still, o + Limit)) \in Nat
      /\ Cardinality(Ahead(f, L, L \cap (scan.seen \cup P), o + Limit)) \in Nat
  <2>1. /\ Behind(f, V, unseen, o) \in SUBSET Rows /\ Behind(f, V, still, o + Limit) \in SUBSET Rows
        /\ Behind(f, L, still, o + Limit) \in SUBSET Rows
        /\ Ahead(f, V, V \cap scan.seen, o) \in SUBSET Rows
        /\ Ahead(f, V, V \cap (scan.seen \cup P), o + Limit) \in SUBSET Rows
        /\ Ahead(f, L, L \cap (scan.seen \cup P), o + Limit) \in SUBSET Rows
        /\ again \in SUBSET Rows
    BY <1>2 DEF Behind, Ahead
  <2> QED BY <1>2, <2>1, RowSets
<1>9. Cardinality(Behind(f, L, still, o + Limit)) <= left
  BY ONLY <1>2, <1>4, <1>5, <1>7, <1>8, left \in Nat
<1>10. Cardinality(Ahead(f, L, L \cap (scan.seen \cup P), o + Limit))
          + (scan.repeats + Cardinality(again)) <= came
  <2>1. scan.repeats \in Nat /\ came \in Nat
    BY <1>2
  <2> QED BY ONLY <1>4, <1>6, <1>7, <1>8, <2>1
<1>11. scan'.at = "done" =>
         Cardinality({i \in still : Untied(f, i)})
             <= IF f = "moderation queue" THEN left ELSE came + left
  <2> SUFFICES ASSUME scan'.at = "done"
               PROVE  Cardinality({i \in still : Untied(f, i)})
                        <= IF f = "moderation queue" THEN left ELSE came + left
    OBVIOUS
  <2>1. Cardinality(C) \in Nat
    BY RowSets
  <2>2. o + Limit >= Cardinality(C)
    <3> DEFINE c == Cardinality(C)
               t == o + Limit
    <3>1. "ask" # "done" /\ ~(t < c)
      BY <1>1
    <3>2. t \in Nat /\ c \in Nat
      BY <1>2, <2>1
    <3> HIDE DEF t, c
    <3>3. t >= c
      BY ONLY <3>1, <3>2
    <3> QED BY <3>3 DEF t, c
  <2>3. still \in SUBSET V
    BY <1>2
  <2>4. Cardinality({i \in still : Untied(f, i)}) <= now + Cardinality(V \ C)
    BY <1>2, <2>2, <2>3, BeyondTotal
  <2>5. Cardinality({i \in still : Untied(f, i)}) \in Nat /\ Cardinality(V \ C) \in Nat
    <3>1. {i \in still : Untied(f, i)} \in SUBSET Rows /\ V \ C \in SUBSET Rows
      BY <1>2
    <3> QED BY <3>1, RowSets
  <2>6. Cardinality(V \ C) <= IF f = "moderation queue" THEN 0 ELSE came
    <3>1. CASE f = "moderation queue"
      <4>1. V \ C = {}
        BY <3>1
      <4>2. Cardinality({}) = 0
        BY FS_EmptySet
      <4>3. Cardinality(V \ C) = 0
        BY ONLY <4>1, <4>2
      <4>4. Cardinality(V \ C) <= 0
        BY ONLY <4>3
      <4> QED BY ONLY <3>1, <4>4
    <3>2. CASE f # "moderation queue"
      <4>1. V \ C = L \ scan.first
        BY <3>2 DEF View, QueueHalf
      <4>2. Cardinality(V \ C) <= came
        BY <3>2, <4>1 DEF Account, TotalCharged
      <4> QED BY ONLY <3>2, <4>2
    <3> QED BY ONLY <3>1, <3>2
  <2>7. came \in Nat /\ left \in Nat
    BY <1>2
  <2> DEFINE n == Cardinality({i \in still : Untied(f, i)})
             d == Cardinality(V \ C)
  <2>8. now <= left
    BY ONLY <1>5, <1>7, <1>8, <2>7
  <2>9. n <= now + d /\ n \in Nat /\ d \in Nat /\ now \in Nat
    BY <1>8, <2>4, <2>5
  <2> HIDE DEF n, d, now
  <2>10. CASE f = "moderation queue"
    <3>1. d <= 0
      BY <2>6, <2>10 DEF d
    <3>2. n <= left
      BY ONLY <3>1, <2>7, <2>8, <2>9
    <3> QED BY <3>2, <2>10 DEF n
  <2>11. CASE f # "moderation queue"
    <3>1. d <= came
      BY <2>6, <2>11 DEF d
    <3>2. n <= came + left
      BY ONLY <3>1, <2>7, <2>8, <2>9
    <3> QED BY <3>2, <2>11 DEF n
  <2> QED BY ONLY <2>10, <2>11
<1>12. f = "moderation queue" => \A i \in scan.seen \cup P : status[i] # "ABSENT"
  <2> SUFFICES ASSUME f = "moderation queue", NEW i \in scan.seen \cup P
               PROVE  status[i] # "ABSENT"
    OBVIOUS
  <2>1. i \in scan.seen \cup scan.first \cup PendingOf("layoffs")
    BY <1>2 DEF View, QueueHalf
  <2> QED BY <2>1 DEF PendingOf, Having, Account, ViewCovers
<1>13. scan'.at # "half"
  BY <1>1
<1> HIDE DEF was, now, had, has, gone, late
<1>14. scan.repeats + Cardinality(again) \in Nat
  BY <1>2, <1>8, NatSum, Zenon
<1>15. scan.seen \cup P \subseteq Rows
  BY <1>2
<1>16. /\ scan'.at # "done" =>
            Cardinality(Behind(scan.feed, Listed(scan.feed), steady \ scan'.seen, scan'.offset))
                <= left
       /\ Cardinality(Ahead(scan.feed, Listed(scan.feed), Listed(scan.feed) \cap scan'.seen,
                            scan'.offset))
            + scan'.repeats <= came
  <2>1. scan'.seen = scan.seen \cup P /\ scan'.offset = o + Limit
        /\ scan'.repeats = scan.repeats + Cardinality(again)
    BY <1>1
  <2> QED BY ONLY <1>9, <1>10, <2>1
<1>17. scan'.at = "done" =>
            Cardinality({i \in steady \ scan'.seen : Untied(scan.feed, i)})
                <= IF scan.feed = "moderation queue" THEN left ELSE came + left
  <2>1. scan'.seen = scan.seen \cup P
    BY <1>1
  <2> QED BY ONLY <1>11, <2>1
<1>18. /\ scan'.offset \in Nat /\ scan'.repeats \in Nat /\ scan'.seen \subseteq Rows
       /\ scan'.feed = scan.feed /\ scan'.first = {} /\ UNCHANGED <<status, steady, came, left>>
  BY <1>1, <1>2, <1>14, <1>15 DEF Show, Stay
<1>19. scan.feed = "moderation queue" => \A i \in scan'.seen : status[i] # "ABSENT"
  BY <1>1, <1>12
<1>20. /\ steady \subseteq Listed(scan.feed) /\ came \in Nat /\ left \in Nat
       /\ scan.feed \in Feeds
  BY <1>2
<1> QED BY ONLY <1>13, <1>16, <1>17, <1>18, <1>19, <1>20, AccountAtListing

\* Both kinds of page are cut from the view.
LEMMA PageKeepsAccount ==
  ASSUME TypeOK, TypeOK', Account, QueuePage \/ ListPage
  PROVE  Account'
<1>1. CASE QueuePage
  <2>1. /\ scan.at = "half" /\ scan.feed = "moderation queue"
        /\ View = scan.first \cup PendingOf("layoffs")
    BY <1>1 DEF QueuePage, View, QueueHalf
  <2>2. PICK P \in Pages(scan.feed, View, scan.offset) : Show(P, Cardinality(View))
    BY <1>1, <2>1 DEF QueuePage
  <2>3. View \in SUBSET Rows
    BY ViewRows DEF TypedView
  <2> QED BY <2>1, <2>2, <2>3, ShowKeepsAccount
<1>2. CASE ListPage
  <2>1. /\ scan.at = "half" /\ scan.feed # "moderation queue"
        /\ View = Listed(scan.feed)
    BY <1>2 DEF ListPage, View, QueueHalf
  <2>2. PICK P \in Pages(scan.feed, View, scan.offset) : Show(P, Cardinality(scan.first))
    BY <1>2, <2>1 DEF ListPage
  <2>3. scan.first \in SUBSET Rows
    BY DEF TypeOK
  <2> QED BY <2>1, <2>2, <2>3, ShowKeepsAccount
<1> QED BY <1>1, <1>2

\* A request that fails loses the view, not the account.
LEMMA FailKeepsAccount ==
  ASSUME TypeOK, Account, Fail
  PROVE  Account'
<1> DEFINE L == Listed(scan.feed)
           unseen == steady \ scan.seen
<1>1. scan' = [scan EXCEPT !.at = "ask", !.first = {}] /\ scan.at = "half"
  BY DEF Fail
<1>2. UNCHANGED <<status, steady, came, left>>
  BY DEF Fail, Stay
<1>3. /\ scan'.feed = scan.feed /\ scan'.at = "ask" /\ scan'.first = {}
      /\ scan'.offset = scan.offset /\ scan'.seen = scan.seen /\ scan'.repeats = scan.repeats
  BY <1>1 DEF TypeOK
<1>4. TypedView
  BY ViewRows
<1>5. steady \subseteq View /\ steady \subseteq L
  BY DEF Account, ViewCovers, TypeOK
<1>6. L \cap scan.seen \subseteq View
  <2>1. L \ View \subseteq Late
    BY ViewAndListing
  <2> QED BY <2>1 DEF Late, Account, ViewCovers
<1> DEFINE was == Cardinality(Behind(scan.feed, View, unseen, scan.offset))
           had == Cardinality(Ahead(scan.feed, View, View \cap scan.seen, scan.offset))
           now == Cardinality(Behind(scan.feed, L, unseen, scan.offset))
           has == Cardinality(Ahead(scan.feed, L, L \cap scan.seen, scan.offset))
           gone == Cardinality(Gone)
           late == Cardinality(Late)
<1>7. now <= was + gone /\ has <= had + late
  BY <1>4, <1>5, <1>6, BackToListing DEF TypedView
<1>8. was + gone <= left /\ had + late + scan.repeats <= came
  BY <1>1 DEF Account, SkipsCharged, RepeatsCharged
<1>9. /\ was \in Nat /\ had \in Nat /\ now \in Nat /\ has \in Nat
      /\ gone \in Nat /\ late \in Nat
  <2>1. /\ Behind(scan.feed, View, unseen, scan.offset) \in SUBSET Rows
        /\ Behind(scan.feed, L, unseen, scan.offset) \in SUBSET Rows
        /\ Ahead(scan.feed, View, View \cap scan.seen, scan.offset) \in SUBSET Rows
        /\ Ahead(scan.feed, L, L \cap scan.seen, scan.offset) \in SUBSET Rows
    BY <1>4, <1>5 DEF Behind, Ahead, TypedView
  <2> QED BY <1>4, <2>1, RowSets DEF TypedView
<1>10. scan.repeats \in Nat /\ came \in Nat /\ left \in Nat
  BY <1>4 DEF TypedView
<1>11. now <= left /\ has + scan.repeats <= came
  <2> HIDE DEF now, was, has, had, gone, late
  <2> QED BY ONLY <1>7, <1>8, <1>9, <1>10
<1>12. /\ Cardinality(Behind(scan.feed, L, steady \ scan'.seen, scan'.offset)) <= left
       /\ Cardinality(Ahead(scan.feed, L, L \cap scan'.seen, scan'.offset)) + scan'.repeats <= came
  BY ONLY <1>3, <1>11
<1>13. /\ scan'.at # "half" /\ scan'.at # "done"
       /\ scan'.offset \in Nat /\ scan'.repeats \in Nat /\ scan'.seen \subseteq Rows
       /\ scan.feed \in Feeds
       /\ scan.feed = "moderation queue" => \A i \in scan'.seen : status[i] # "ABSENT"
  BY <1>3, <1>4 DEF TypedView, Account, ViewCovers
<1> QED BY ONLY <1>2, <1>3, <1>5, <1>10, <1>12, <1>13, AccountAtListing

\* The first statement reads what is listed, so nothing is gone or late yet.
LEMMA FirstKeepsAccount ==
  ASSUME TypeOK, Account, FirstStatement
  PROVE  Account'
<1> DEFINE L == Listed(scan.feed)
<1>1. /\ scan.at = "ask" /\ UNCHANGED <<status, steady, came, left>>
      /\ scan' = [scan EXCEPT !.at = "half",
                              !.first = IF scan.feed = "moderation queue"
                                        THEN PendingOf("reviews") ELSE Listed(scan.feed)]
  BY DEF FirstStatement, Stay
<1>2. /\ scan'.feed = scan.feed /\ scan'.at = "half"
      /\ scan'.offset = scan.offset /\ scan'.seen = scan.seen /\ scan'.repeats = scan.repeats
      /\ scan.feed = "moderation queue" => scan'.first = PendingOf("reviews")
      /\ scan.feed # "moderation queue" => scan'.first = L
  BY <1>1 DEF TypeOK
<1>3. Listed(scan.feed)' = L /\ PendingOf("reviews")' = PendingOf("reviews")
      /\ PendingOf("layoffs")' = PendingOf("layoffs")
  BY <1>1, <1>2 DEF Listed, PendingOf, PendingSubmissions, PendingDocuments, PublishedReviews,
         PublishedLayoffs, Corroborations, TakedownLog, Grievances, Having
<1>4. View = L /\ Gone = {} /\ Late = {}
  BY <1>1 DEF View, Gone, Late, QueueHalf
<1>5. View' = L /\ Gone' = {} /\ Late' = {}
  <2>1. CASE scan.feed = "moderation queue"
    <3>1. L = PendingOf("reviews") \cup PendingOf("layoffs")
      BY <2>1 DEF Listed, PendingSubmissions
    <3> QED BY <1>2, <1>3, <2>1, <3>1 DEF View, Gone, Late, QueueHalf
  <2>2. CASE scan.feed # "moderation queue"
    BY <1>2, <1>3, <2>2 DEF View, Gone, Late, QueueHalf
  <2> QED BY <2>1, <2>2
<1>6. SkipsCharged'
  <2>1. Cardinality(Behind(scan.feed, L, steady \ scan.seen, scan.offset)) + Cardinality({}) <= left
    BY <1>1, <1>4 DEF Account, SkipsCharged
  <2> QED BY <1>1, <1>2, <1>5, <2>1 DEF SkipsCharged, Behind, Untied, Rank, RowsOf
<1>7. RepeatsCharged'
  <2>1. Cardinality(Ahead(scan.feed, L, L \cap scan.seen, scan.offset))
           + Cardinality({}) + scan.repeats <= came
    BY <1>4 DEF Account, RepeatsCharged
  <2>2. /\ scan'.feed = scan.feed /\ scan'.offset = scan.offset /\ scan'.seen = scan.seen
        /\ scan'.repeats = scan.repeats /\ came' = came
    BY <1>1, <1>2
  <2> QED BY ONLY <1>5, <2>1, <2>2 DEF RepeatsCharged, Ahead, Untied, Rank, RowsOf
<1>8. TotalCharged'
  <2>1. scan.feed # "moderation queue" => Listed(scan.feed)' \ scan'.first = {}
    BY <1>2, <1>3
  <2>2. Cardinality({}) <= came'
    <3>1. Cardinality({}) = 0 /\ came' \in Nat
      BY <1>1, FS_EmptySet DEF TypeOK
    <3> QED BY ONLY <3>1
  <2> QED BY <1>2, <2>1, <2>2 DEF TotalCharged
<1>9. MissesCharged'
  BY <1>2 DEF MissesCharged
<1>10. ViewCovers'
  <2>1. steady' \subseteq View'
    BY <1>1, <1>4, <1>5 DEF Account, ViewCovers
  <2>2. QueueHalf' => scan'.seen \cap PendingOf("reviews")' \subseteq scan'.first
    BY <1>2, <1>3 DEF QueueHalf
  <2>3. scan.feed = "moderation queue" =>
            \A i \in scan'.seen \cup scan'.first : status'[i] # "ABSENT"
    <3>1. \A i \in PendingOf("reviews") : status[i] # "ABSENT"
      BY DEF PendingOf, Having
    <3>2. status' = status
      BY <1>1
    <3> QED BY <1>2, <3>1, <3>2 DEF Account, ViewCovers
  <2> QED BY <1>2, <2>1, <2>2, <2>3 DEF ViewCovers
<1> QED BY <1>6, <1>7, <1>8, <1>9, <1>10 DEF Account

\* At the start nothing was seen and the offset is zero.
LEMMA AccountAtStart ==
  ASSUME Init, TypeOK
  PROVE  Account
<1>1. /\ scan.at = "ask" /\ scan.offset = 0 /\ scan.first = {} /\ scan.seen = {}
      /\ scan.repeats = 0 /\ steady = Listed(scan.feed) /\ came = 0 /\ left = 0
  BY DEF Init
<1>2. View = Listed(scan.feed) /\ Gone = {} /\ Late = {} /\ ~QueueHalf
  BY <1>1 DEF View, Gone, Late, QueueHalf
<1>3. Cardinality({}) = 0
  BY FS_EmptySet
<1>4. Behind(scan.feed, View, steady \ scan.seen, scan.offset) = {}
  <2>1. TypedView
    BY ViewRows
  <2>2. \A i : Rank(scan.feed, View, i) \in Nat
    BY <2>1, RankTyped DEF TypedView
  <2> QED BY <1>1, <2>2 DEF Behind
<1>5. Ahead(scan.feed, View, View \cap scan.seen, scan.offset) = {}
  BY <1>1 DEF Ahead
<1>6. SkipsCharged
  BY <1>1, <1>2, <1>3, <1>4 DEF SkipsCharged
<1>7. RepeatsCharged
  BY <1>1, <1>2, <1>3, <1>5 DEF RepeatsCharged
<1>8. TotalCharged /\ MissesCharged
  BY <1>1 DEF TotalCharged, MissesCharged
<1>9. ViewCovers
  BY <1>1, <1>2 DEF ViewCovers
<1> QED BY <1>6, <1>7, <1>8, <1>9 DEF Account

\* Every reachable state keeps the account: of the rows that an offset passed
\* by unseen each is charged to a row that left, of those a scan was shown and
\* may be shown again each to one that came, whatever moves between the
\* statements and the pages of the scan.
THEOREM AccountHolds == Spec => []Account
<1>1. Init /\ TypeOK => Account
  BY AccountAtStart
<1>2. TypeOK /\ TypeOK' /\ Account /\ [Next]_vars => Account'
  <2> SUFFICES ASSUME TypeOK, TypeOK', Account, [Next]_vars PROVE Account'
    OBVIOUS
  <2>1. ASSUME NEW i \in RowsOf(scan.feed), AppendRow(i) \/ Moderate(i) PROVE Account'
    BY <2>1, MoveKeepsAccount
  <2>2. CASE FirstStatement
    BY <2>2, FirstKeepsAccount
  <2>3. CASE QueuePage \/ ListPage
    BY <2>3, PageKeepsAccount
  <2>4. CASE Fail
    BY <2>4, FailKeepsAccount
  <2>5. CASE UNCHANGED vars
    <3>1. UNCHANGED <<status, scan, steady, came, left>>
      BY <2>5 DEF vars
    <3>2. /\ View' = View /\ Gone' = Gone /\ Late' = Late /\ QueueHalf' = QueueHalf
          /\ Listed(scan.feed)' = Listed(scan.feed) /\ PendingOf("reviews")' = PendingOf("reviews")
      BY <3>1 DEF View, Gone, Late, QueueHalf, Listed, PendingOf, PendingSubmissions,
             PendingDocuments, PublishedReviews, PublishedLayoffs, Corroborations, TakedownLog,
             Grievances, Having
    <3>3. SkipsCharged' /\ RepeatsCharged'
      BY <3>1, <3>2 DEF Account, SkipsCharged, RepeatsCharged, Behind, Ahead, Rank, Untied, RowsOf
    <3>4. TotalCharged' /\ MissesCharged' /\ ViewCovers'
      BY <3>1, <3>2 DEF Account, TotalCharged, MissesCharged, Missed, Untied, RowsOf, ViewCovers
    <3> QED BY <3>3, <3>4 DEF Account
  <2> QED BY <2>1, <2>2, <2>3, <2>4, <2>5 DEF Next
<1> QED BY <1>1, <1>2, TypeCorrect, PTL DEF Spec

\* Paging through the moderation queue misses no more untied pending items than
\* decisions were taken meanwhile (admin.py's queue reads reviews and layoffs
\* apart, sorts and cuts them in Python).
THEOREM QueueMissesOnlyDecidedHolds == Spec => []QueueMissesOnlyDecided
<1>1. Account => QueueMissesOnlyDecided
  BY DEF Account, MissesCharged, QueueMissesOnlyDecided
<1> QED BY <1>1, AccountHolds, PTL

\* No listing hides more of the rows that stayed in it than rows moved in or out
\* between the first count and the last page.
THEOREM ListMissesOnlyMovedHolds == Spec => []ListMissesOnlyMoved
<1>1. TypeOK /\ Account => ListMissesOnlyMoved
  <2> SUFFICES ASSUME TypeOK, Account, scan.at = "done"
               PROVE  Cardinality(Missed) <= came + left
    BY DEF ListMissesOnlyMoved
  <2> DEFINE n == Cardinality(Missed)
  <2>1. Missed \in SUBSET Rows
    <3>1. Listed(scan.feed) \in SUBSET Rows
      BY ViewRows DEF TypedView
    <3> QED BY <3>1 DEF Missed, TypeOK
  <2>2. n \in Nat /\ came \in Nat /\ left \in Nat
    BY <2>1, RowSets DEF TypeOK
  <2>3. n <= left \/ n <= came + left
    BY DEF Account, MissesCharged
  <2> HIDE DEF n
  <2>4. n <= came + left
    BY ONLY <2>2, <2>3
  <2> QED BY <2>4 DEF n
<1> QED BY <1>1, TypeCorrect, AccountHolds, PTL

\* An untied row is shown a second time at most once per row that came.
THEOREM RepeatsOnlyArrivalsHolds == Spec => []RepeatsOnlyArrivals
<1>1. TypeOK /\ Account => RepeatsOnlyArrivals
  <2> SUFFICES ASSUME TypeOK, Account PROVE scan.repeats <= came
    BY DEF RepeatsOnlyArrivals
  <2> DEFINE n == Cardinality(Ahead(scan.feed, View, View \cap scan.seen, scan.offset))
             late == Cardinality(Late)
  <2>1. TypedView
    BY ViewRows
  <2>2. /\ Ahead(scan.feed, View, View \cap scan.seen, scan.offset) \in SUBSET Rows
        /\ Late \in SUBSET Rows
    BY <2>1 DEF TypedView, Ahead
  <2>3. n \in Nat /\ late \in Nat /\ scan.repeats \in Nat /\ came \in Nat
    BY <2>1, <2>2, RowSets DEF TypedView
  <2>4. n + late + scan.repeats <= came
    BY DEF Account, RepeatsCharged
  <2> HIDE DEF n, late
  <2> QED BY ONLY <2>3, <2>4
<1> QED BY <1>1, TypeCorrect, AccountHolds, PTL

=============================================================================
