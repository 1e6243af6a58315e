-------------------------- MODULE CompanyStatsProofs --------------------------
(***************************************************************************)
(* Theorems about CompanyStats, for any number of reviews, columns, buckets *)
(* and readers and every minimum.  Liveness is left to TLC.                *)
(***************************************************************************)
EXTENDS CompanyStats, FiniteSetTheorems, TLAPS

Rows   == [at : {"idle", "missed", "insufficient", "counting"}, total : 0..Cardinality(Reviews),
           counts : Seq(Counts)]
Stored == [total : 0..Cardinality(Reviews), counts : Seq(Counts), age : 0..(TTL + 1)]

\* Counting reviews gives a number of reviews.
LEMMA CountIsBounded ==
  ASSUME NEW S, S \subseteq Reviews
  PROVE  /\ IsFiniteSet(S)
         /\ Cardinality(S) \in 0..Cardinality(Reviews)
         /\ Cardinality(Reviews) \in Nat
<1>1. IsFiniteSet(Reviews)
  BY StatsAssumption
<1>2. IsFiniteSet(S) /\ Cardinality(S) <= Cardinality(Reviews)
  BY <1>1, FS_Subset
<1>3. Cardinality(S) \in Nat /\ Cardinality(Reviews) \in Nat
  BY <1>1, <1>2, FS_CardinalityType
<1> QED BY <1>2, <1>3

LEMMA GroupedIsCounts ==
  ASSUME NEW c
  PROVE  GroupedCounts(c) \in Counts
<1>1. ASSUME NEW k \in 1..NumKinds
      PROVE  Cardinality({i \in Reviews : Counted(i) /\ Kind[i][c] = k})
                \in 0..Cardinality(Reviews)
  BY CountIsBounded
<1> QED BY <1>1 DEF GroupedCounts, Counts

LEMMA TotalIsBounded == PublishedTotal \in 0..Cardinality(Reviews)
  BY CountIsBounded DEF PublishedTotal

\* What a computation appends is one more column of counts.
LEMMA ColumnTyped ==
  ASSUME TypeOK, NEW r \in Readers, CountColumn(r)
  PROVE  /\ reader'[r] \in Rows
         /\ reader'[r].at = "counting" /\ reader'[r].total = reader[r].total
         /\ reader'[r].counts = Append(reader[r].counts,
                                       GroupedCounts(Len(reader[r].counts) + 1))
         /\ Len(reader'[r].counts) <= NumColumns
         /\ \A q \in Readers : q # r => reader'[q] = reader[q]
<1> DEFINE g == GroupedCounts(Len(reader[r].counts) + 1)
           row == [at |-> "counting", total |-> reader[r].total,
                   counts |-> Append(reader[r].counts, g)]
<1>1. reader[r] \in Rows /\ Len(reader[r].counts) <= NumColumns
  BY DEF TypeOK, Rows
<1>2. g \in Counts
  BY GroupedIsCounts
<1>3. reader' = [reader EXCEPT ![r] = row]
  BY DEF CountColumn
<1> HIDE DEF g
<1>4. /\ row \in Rows /\ row.at = "counting" /\ row.total = reader[r].total
      /\ row.counts = Append(reader[r].counts, g)
  BY <1>1, <1>2 DEF Rows
<1>5. reader'[r] = row /\ \A q \in Readers : q # r => reader'[q] = reader[q]
  BY <1>3 DEF TypeOK
<1>6. Len(reader[r].counts) # NumColumns /\ reader[r].counts \in Seq(Counts)
  BY <1>1 DEF CountColumn, Complete, Rows
<1>7. Len(row.counts) = Len(reader[r].counts) + 1 /\ Len(reader[r].counts) \in Nat
  BY <1>2, <1>4, <1>6
<1>8. Len(row.counts) <= NumColumns
  BY <1>1, <1>6, <1>7, StatsAssumption
<1> QED BY <1>4, <1>5, <1>8 DEF CountColumn, g

\* Every reachable state is well formed; the cache only ever holds whole results.
THEOREM TypeCorrect == Spec => []TypeOK
<1> USE StatsAssumption
<1>1. Init => TypeOK
  <2>1. Cardinality(Reviews) \in Nat
    BY CountIsBounded
  <2>2. <<>> \in Seq(Counts) /\ Len(<<>>) = 0
    OBVIOUS
  <2> QED BY <2>1, <2>2 DEF Init, Queue!Init, Queue!Statuses, TypeOK, NoEntry, Idle
<1>2. TypeOK /\ [Next]_vars => TypeOK'
  <2> SUFFICES ASSUME TypeOK, [Next]_vars PROVE TypeOK'
    OBVIOUS
  <2>0. /\ Cardinality(Reviews) \in Nat
        /\ <<>> \in Seq(Counts) /\ Len(<<>>) = 0
        /\ Idle \in Rows
        /\ \A r \in Readers : reader[r] \in Rows
    <3>1. Cardinality(Reviews) \in Nat
      BY CountIsBounded
    <3> QED BY <3>1 DEF Idle, Rows, TypeOK
  <2>1. CASE Moderate
    <3>1. status' \in [Reviews -> Queue!Statuses]
      BY <2>1 DEF Moderate, Queue!RevisableNext, Queue!Next, Queue!Enter, Queue!Decide,
         Queue!Revise, Queue!Decided, Queue!Statuses, TypeOK
    <3> QED BY <2>1, <3>1 DEF Moderate, TypeOK
  <2>2. CASE Tick
    <3>1. cache \in Stored /\ cache.age \in 0..TTL /\ Len(cache.counts) \in {0, NumColumns}
      BY <2>2 DEF Tick, TypeOK, Stored
    <3>2. cache' = [cache EXCEPT !.age = cache.age + 1]
      BY <2>2 DEF Tick
    <3>3. cache.age + 1 \in 0..(TTL + 1)
      BY <3>1
    <3>4. cache' \in Stored /\ cache'.counts = cache.counts
      BY <3>1, <3>2, <3>3 DEF Stored
    <3> QED BY <2>2, <3>1, <3>4 DEF Tick, TypeOK, Stored
  <2>3. ASSUME NEW r \in Readers, Miss(r) PROVE TypeOK'
    <3>1. [Idle EXCEPT !.at = "missed"] \in Rows
          /\ [Idle EXCEPT !.at = "missed"].counts = <<>>
      BY <2>0 DEF Idle, Rows
    <3> QED BY <2>3, <2>0, <3>1 DEF Miss, TypeOK, Rows
  <2>4. ASSUME NEW r \in Readers, AnswerInsufficient(r) PROVE TypeOK'
    <3>1. /\ cache' \in Stored /\ cache'.counts = <<>>
      BY <2>4, <2>0 DEF AnswerInsufficient, Set, Stored, Rows
    <3> QED BY <2>4, <2>0, <3>1 DEF AnswerInsufficient, TypeOK, Stored, Idle, Rows
  <2>5. ASSUME NEW r \in Readers, CountTotal(r) PROVE TypeOK'
    <3>1. reader'[r] \in Rows /\ reader'[r].counts = <<>>
      BY <2>5, <2>0, TotalIsBounded DEF CountTotal, TypeOK, Rows
    <3>2. \A q \in Readers : q # r => reader'[q] = reader[q]
      BY <2>5 DEF CountTotal, TypeOK
    <3>3. reader' \in [Readers -> Rows]
      BY <2>5, <2>0, <3>1, <3>2 DEF CountTotal, TypeOK
    <3>4. \A q \in Readers : Len(reader'[q].counts) <= NumColumns
      BY <2>0, <3>1, <3>2 DEF TypeOK
    <3> QED BY <2>5, <3>3, <3>4 DEF CountTotal, TypeOK, Rows
  <2>6. ASSUME NEW r \in Readers, CountColumn(r) PROVE TypeOK'
    <3>1. reader' \in [Readers -> Rows]
      BY <2>6, ColumnTyped, <2>0 DEF CountColumn, TypeOK
    <3>2. \A q \in Readers : Len(reader'[q].counts) <= NumColumns
      BY <2>6, ColumnTyped DEF TypeOK
    <3> QED BY <2>6, <3>1, <3>2 DEF CountColumn, TypeOK, Rows
  <2>7. ASSUME NEW r \in Readers, Store(r) PROVE TypeOK'
    <3>1. cache' \in Stored /\ Len(cache'.counts) = NumColumns
      BY <2>7, <2>0 DEF Store, Set, Complete, Stored, Rows
    <3> QED BY <2>7, <2>0, <3>1 DEF Store, TypeOK, Stored, Idle, Rows
  <2>8. ASSUME NEW r \in Readers, Fail(r) PROVE TypeOK'
    BY <2>8, <2>0 DEF Fail, TypeOK, Idle, Rows
  <2>9. CASE UNCHANGED vars
    BY <2>9 DEF vars, TypeOK
  <2> QED BY <2>1, <2>2, <2>3, <2>4, <2>5, <2>6, <2>7, <2>8, <2>9 DEF Next, Advance
<1> QED BY <1>1, <1>2, PTL DEF Spec

-----------------------------------------------------------------------------
(***************************************************************************)
(* The figures stand on decided reviews, and on enough of them.            *)
(***************************************************************************)

\* A review that has been decided stays decided, even if it is revised.
LEMMA DecidedGrows ==
  ASSUME TypeOK, [Next]_vars
  PROVE  Decided \subseteq Decided'
<1>1. CASE Moderate
  BY <1>1 DEF Moderate, Queue!RevisableNext, Queue!Next, Queue!Enter, Queue!Decide,
     Queue!Revise, Queue!Decided, Decided, TypeOK
<1>2. CASE status' = status
  BY <1>2 DEF Decided
<1>3. Moderate \/ status' = status
  BY DEF Next, Advance, vars, Tick, Miss, AnswerInsufficient, CountTotal, CountColumn,
     Store, Fail
<1> QED BY <1>1, <1>2, <1>3

LEMMA PublishedIsDecided ==
  ASSUME NEW i \in Reviews, Counted(i)
  PROVE  i \in Decided
  BY DEF Counted, Decided, Queue!Decided

\* What was supported stays supported.
LEMMA ModeratedPersists ==
  ASSUME NEW n \in Nat, NEW counts \in Seq(Counts), Moderated(n, counts),
         Decided \subseteq Decided'
  PROVE  Moderated(n, counts)'
<1>1. Decided' \subseteq Reviews /\ IsFiniteSet(Decided')
  <2>1. Decided' \subseteq Reviews
    BY DEF Decided
  <2> QED BY <2>1, CountIsBounded
<1>2. /\ Cardinality(Decided) <= Cardinality(Decided')
      /\ Cardinality(Decided) \in Nat /\ Cardinality(Decided') \in Nat
  BY <1>1, FS_Subset, FS_CardinalityType
<1>3. ASSUME NEW c \in DOMAIN counts, NEW k \in 1..NumKinds
      PROVE  counts[c][k] <= Cardinality({i \in Decided' : Kind[i][c] = k})
  <2> DEFINE S == {i \in Decided : Kind[i][c] = k}
             T == {i \in Decided' : Kind[i][c] = k}
  <2>1. S \subseteq T /\ T \subseteq Decided'
    OBVIOUS
  <2>2. IsFiniteSet(T)
    BY <1>1, <2>1, FS_Subset
  <2>3. counts[c][k] <= Cardinality(S)
    BY DEF Moderated
  <2>4. counts[c][k] \in 0..Cardinality(Reviews)
    <3>1. counts[c] \in Counts
      OBVIOUS
    <3> QED BY <3>1 DEF Counts
  <2> HIDE DEF S, T
  <2>5. Cardinality(S) <= Cardinality(T) /\ Cardinality(S) \in Nat /\ Cardinality(T) \in Nat
    BY <2>1, <2>2, FS_Subset, FS_CardinalityType
  <2>6. Cardinality(Reviews) \in Nat
    BY CountIsBounded
  <2>7. counts[c][k] <= Cardinality(T)
    BY <2>3, <2>4, <2>5, <2>6
  <2> QED BY <2>7 DEF T
<1>4. MinReviews <= n /\ n <= Cardinality(Decided')
  BY <1>2, StatsAssumption DEF Moderated
<1> QED BY <1>3, <1>4 DEF Moderated

\* A column counted now counts only reviews that are decided now.
LEMMA ColumnIsModerated ==
  ASSUME TypeOK, NEW c, NEW k \in 1..NumKinds
  PROVE  GroupedCounts(c)[k] <= Cardinality({i \in Decided : Kind[i][c] = k})
<1> DEFINE S == {i \in Reviews : Counted(i) /\ Kind[i][c] = k}
           T == {i \in Decided : Kind[i][c] = k}
<1>1. S \subseteq T /\ T \subseteq Reviews
  BY PublishedIsDecided DEF Decided
<1>2. IsFiniteSet(T)
  BY <1>1, CountIsBounded
<1>3. GroupedCounts(c)[k] = Cardinality(S)
  BY DEF GroupedCounts
<1> HIDE DEF S, T
<1>4. Cardinality(S) <= Cardinality(T)
  BY <1>1, <1>2, FS_Subset
<1> QED BY <1>3, <1>4 DEF T

\* Whatever is published or revised while figures are computed and cached, a
\* distribution stands on at least the minimum of decided reviews.
THEOREM FiguresHold == Spec => []FiguresAreModerated
<1>1. Init => FiguresAreModerated
  BY DEF Init, FiguresAreModerated, NoEntry, Idle
<1>2. TypeOK /\ TypeOK' /\ FiguresAreModerated /\ [Next]_vars => FiguresAreModerated'
  <2> SUFFICES ASSUME TypeOK, TypeOK', FiguresAreModerated, [Next]_vars
               PROVE  FiguresAreModerated'
    OBVIOUS
  <2>0. Decided \subseteq Decided'
    BY DecidedGrows
  <2>00. Cardinality(Reviews) \in Nat
    BY CountIsBounded
  <2>1. ASSUME cache'.counts # <<>>
        PROVE  Moderated(cache.total, cache.counts)'
    <3>1. CASE cache'.counts = cache.counts /\ cache'.total = cache.total
      <4>1. cache \in Stored
        BY <2>1, <3>1 DEF TypeOK, Stored, NoEntry
      <4>2. cache.total \in Nat /\ cache.counts \in Seq(Counts)
        BY <4>1, <2>00 DEF Stored
      <4>3. PICK n \in Nat, counts \in Seq(Counts) : n = cache.total /\ counts = cache.counts
        BY <4>2
      <4>4. Moderated(n, counts)
        BY <2>1, <3>1, <4>3 DEF FiguresAreModerated
      <4>5. Moderated(n, counts)'
        BY <2>0, <4>4, ModeratedPersists
      <4> QED BY <3>1, <4>3, <4>5 DEF Moderated
    <3>2. CASE \E r \in Readers : Store(r)
      <4>1. PICK r \in Readers : Store(r)
        BY <3>2
      <4>2. reader[r].total \in Nat /\ reader[r].counts \in Seq(Counts)
        BY <2>00 DEF TypeOK
      <4>3. PICK n \in Nat, counts \in Seq(Counts) :
                n = reader[r].total /\ counts = reader[r].counts
        BY <4>2
      <4>4. Moderated(n, counts)
        BY <4>1, <4>3 DEF Store, FiguresAreModerated
      <4>5. Moderated(n, counts)'
        BY <2>0, <4>4, ModeratedPersists
      <4>6. cache'.total = n /\ cache'.counts = counts
        BY <4>1, <4>3 DEF Store, Set
      <4> QED BY <4>5, <4>6 DEF Moderated
    <3>3. \/ cache'.counts = cache.counts /\ cache'.total = cache.total
          \/ \E r \in Readers : Store(r)
      <4>1. CASE Tick
        <5>1. cache \in Stored
          BY <4>1 DEF Tick, TypeOK, Stored
        <5> QED BY <4>1, <5>1 DEF Tick, Stored
      <4>2. CASE cache' = cache
        BY <4>2
      <4>3. ASSUME NEW r \in Readers, Miss(r) \/ AnswerInsufficient(r) PROVE FALSE
        BY <2>1, <4>3 DEF Miss, AnswerInsufficient, NoEntry, Set
      <4> QED BY <4>1, <4>2, <4>3 DEF Next, Advance, vars, Moderate, CountTotal,
              CountColumn, Fail
    <3> QED BY <3>1, <3>2, <3>3
  <2>2. ASSUME NEW r \in Readers, reader'[r].at = "counting"
        PROVE  Moderated(reader[r].total, reader[r].counts)'
    <3>1. CASE reader'[r] = reader[r]
      <4>1. reader[r].total \in Nat /\ reader[r].counts \in Seq(Counts)
        BY <2>00 DEF TypeOK
      <4>2. PICK n \in Nat, counts \in Seq(Counts) :
                n = reader[r].total /\ counts = reader[r].counts
        BY <4>1
      <4>3. Moderated(n, counts)
        BY <2>2, <3>1, <4>2 DEF FiguresAreModerated
      <4>4. Moderated(n, counts)'
        BY <2>0, <4>3, ModeratedPersists
      <4> QED BY <3>1, <4>2, <4>4 DEF Moderated
    <3>2. CASE CountTotal(r)
      <4>1. /\ reader'[r].total = PublishedTotal /\ reader'[r].counts = <<>>
            /\ status' = status /\ ~(PublishedTotal < MinReviews)
        BY <2>2, <3>2 DEF CountTotal, TypeOK
      <4>2. {i \in Reviews : Counted(i)} \subseteq Decided /\ Decided \subseteq Reviews
        BY PublishedIsDecided DEF Decided
      <4>3. IsFiniteSet(Decided)
        BY <4>2, CountIsBounded
      <4>4. PublishedTotal <= Cardinality(Decided)
        BY <4>2, <4>3, FS_Subset DEF PublishedTotal
      <4>5. Decided' = Decided
        BY <4>1 DEF Decided
      <4>6. PublishedTotal \in Nat
        BY <2>00, TotalIsBounded
      <4>7. DOMAIN <<>> = {}
        OBVIOUS
      <4> QED BY <4>1, <4>4, <4>5, <4>6, <4>7, StatsAssumption DEF Moderated
    <3>3. CASE CountColumn(r)
      <4> DEFINE old == reader[r].counts
                 new == reader'[r].counts
      <4>1. /\ reader'[r].total = reader[r].total
            /\ new = Append(old, GroupedCounts(Len(old) + 1))
            /\ reader[r].at = "counting" /\ status' = status
        BY <3>3, ColumnTyped DEF CountColumn
      <4>2. old \in Seq(Counts) /\ GroupedCounts(Len(old) + 1) \in Counts
        BY GroupedIsCounts DEF TypeOK
      <4>3. Decided' = Decided
        BY <4>1 DEF Decided
      <4>4. Moderated(reader[r].total, old)
        BY <4>1 DEF FiguresAreModerated
      <4> HIDE DEF old, new
      <4>5. /\ DOMAIN new = 1..(Len(old) + 1) /\ Len(old) \in Nat
            /\ new[Len(old) + 1] = GroupedCounts(Len(old) + 1)
            /\ \A c \in 1..Len(old) : new[c] = old[c] /\ c \in DOMAIN old
        BY <4>1, <4>2
      <4>6. ASSUME NEW c \in DOMAIN new, NEW k \in 1..NumKinds
            PROVE  new[c][k] <= Cardinality({i \in Decided : Kind[i][c] = k})
        <5>1. CASE c \in 1..Len(old)
          BY <4>4, <4>5, <5>1 DEF Moderated
        <5>2. CASE c = Len(old) + 1
          BY <4>5, <5>2, ColumnIsModerated
        <5> QED BY <4>5, <5>1, <5>2
      <4>7. MinReviews <= reader'[r].total /\ reader'[r].total <= Cardinality(Decided')
        BY <4>1, <4>3, <4>4 DEF Moderated
      <4> QED BY <4>3, <4>6, <4>7 DEF Moderated, new
    <3>4. reader'[r] = reader[r] \/ CountTotal(r) \/ CountColumn(r)
      <4>1. ASSUME NEW q \in Readers, Miss(q) \/ Advance(q) \/ Fail(q), q # r
            PROVE  reader'[r] = reader[r]
        BY <4>1 DEF Miss, Advance, AnswerInsufficient, CountTotal, CountColumn, Store,
           Fail, TypeOK
      <4>2. CASE Miss(r) \/ AnswerInsufficient(r) \/ Store(r) \/ Fail(r)
        BY <2>2, <4>2 DEF Miss, AnswerInsufficient, Store, Fail, TypeOK, Idle
      <4>3. CASE reader' = reader
        BY <4>3
      <4> QED BY <4>1, <4>2, <4>3 DEF Next, Advance, vars, Moderate, Tick
    <3> QED BY <3>1, <3>2, <3>3, <3>4
  <2> QED BY <2>1, <2>2 DEF FiguresAreModerated
<1> QED BY <1>1, <1>2, TypeCorrect, PTL DEF Spec

-----------------------------------------------------------------------------
(***************************************************************************)
(* Sums.  SumFunction is a fold, defined by recursion over the subsets of  *)
(* the domain: that the recursion has a solution, and what holds of every  *)
(* sum, is proved by induction on the number of terms, with the least      *)
(* element of a set of naturals in the place of an induction scheme.       *)
(***************************************************************************)

\* A set of naturals that has 0 and is closed under successor is all of them.
LEMMA EveryNat ==
  ASSUME NEW T \in SUBSET Nat, 0 \in T, \A n \in T : n + 1 \in T
  PROVE  T = Nat
<1> SUFFICES ASSUME Nat \ T # {} PROVE FALSE
  OBVIOUS
<1>1. IsWellFoundedOn(OpToRel(<, Nat), Nat)
  BY NatLessThanWellFounded
<1>2. PICK n \in Nat \ T : \A m \in Nat \ T : <<m, n>> \notin OpToRel(<, Nat)
  BY <1>1, WFMin
<1>3. \A m \in Nat : m < n => m \in T
  BY <1>2 DEF OpToRel
<1>4. n - 1 \in Nat /\ n - 1 < n /\ (n - 1) + 1 = n
  OBVIOUS
<1> QED BY <1>2, <1>3, <1>4

\* The element by which the sum over s is unfolded.
Pick(s) == CHOOSE x \in s : TRUE

\* F sums f over the subsets of D, as the recursion of SumFunction does.
Sums(F, f, D) ==
    F = [s \in SUBSET D |-> IF s = {} THEN 0 ELSE f[Pick(s)] + F[s \ {Pick(s)}]]

LEMMA PickOne ==
  ASSUME NEW D, IsFiniteSet(D), NEW s \in SUBSET D, s # {}
  PROVE  /\ Pick(s) \in s /\ s \ {Pick(s)} \in SUBSET D
         /\ Cardinality(s) \in Nat
         /\ Cardinality(s \ {Pick(s)}) \in Nat
         /\ Cardinality(s \ {Pick(s)}) + 1 = Cardinality(s)
<1>1. Pick(s) \in s
  BY DEF Pick
<1>2. IsFiniteSet(s)
  BY FS_Subset
<1>3. IsFiniteSet(s \ {Pick(s)}) /\ Cardinality(s \ {Pick(s)}) = Cardinality(s) - 1
  BY <1>1, <1>2, FS_RemoveElement
<1>4. Cardinality(s) \in Nat /\ Cardinality(s \ {Pick(s)}) \in Nat
  BY <1>2, <1>3, FS_CardinalityType
<1> QED BY <1>1, <1>3, <1>4

\* What holds of the empty set, and of a set when it holds of the set without
\* its picked element, holds of every subset of a finite set: T are the sets it
\* holds of.
LEMMA SetInduction ==
  ASSUME NEW D, IsFiniteSet(D), NEW T, {} \in T,
         \A s \in SUBSET D : s # {} /\ s \ {Pick(s)} \in T => s \in T
  PROVE  SUBSET D \subseteq T
<1> DEFINE N == {n \in Nat : \A s \in SUBSET D : Cardinality(s) = n => s \in T}
<1>1. 0 \in N
  <2> SUFFICES ASSUME NEW s \in SUBSET D, Cardinality(s) = 0 PROVE s \in T
    OBVIOUS
  <2>1. s = {}
    BY FS_Subset, FS_EmptySet
  <2> QED BY <2>1
<1>2. ASSUME NEW n \in N PROVE n + 1 \in N
  <2> SUFFICES ASSUME NEW s \in SUBSET D, Cardinality(s) = n + 1 PROVE s \in T
    OBVIOUS
  <2>1. s # {}
    BY FS_EmptySet
  <2>2. Cardinality(s \ {Pick(s)}) = n /\ s \ {Pick(s)} \in SUBSET D
    BY <2>1, PickOne
  <2> QED BY <2>1, <2>2
<1>3. N = Nat
  <2> HIDE DEF N
  <2>1. N \in SUBSET Nat
    BY DEF N
  <2> QED BY <1>1, <1>2, <2>1, EveryNat
<1>4. \A s \in SUBSET D : Cardinality(s) \in Nat
  BY FS_Subset, FS_CardinalityType
<1> QED BY <1>3, <1>4

\* The same for the subsets of at most n elements.
SumsUpto(F, f, D, n) ==
    F = [s \in SUBSET D |->
            IF s = {} \/ Cardinality(s) > n THEN 0 ELSE f[Pick(s)] + F[s \ {Pick(s)}]]

\* Such an F exists, and SumFunction is its value for the whole domain.
LEMMA SumsExist ==
  ASSUME NEW D, IsFiniteSet(D), NEW f
  PROVE  \E F : Sums(F, f, D)
<1> DEFINE N == {n \in Nat : \E F : SumsUpto(F, f, D, n)}
<1>1. 0 \in N
  <2> DEFINE F == [s \in SUBSET D |-> 0]
  <2>1. ASSUME NEW s \in SUBSET D, s # {} PROVE Cardinality(s) > 0
    <3>1. /\ Cardinality(s) \in Nat /\ Cardinality(s \ {Pick(s)}) \in Nat
          /\ Cardinality(s \ {Pick(s)}) + 1 = Cardinality(s)
      BY <2>1, PickOne
    <3> QED BY ONLY <3>1
  <2>2. SumsUpto(F, f, D, 0)
    BY <2>1 DEF SumsUpto
  <2> QED BY <2>2
<1>2. ASSUME NEW n \in N PROVE n + 1 \in N
  <2>1. PICK F : SumsUpto(F, f, D, n)
    OBVIOUS
  <2> DEFINE G == [s \in SUBSET D |->
                     IF s = {} \/ Cardinality(s) > n + 1 THEN 0
                     ELSE f[Pick(s)] + F[s \ {Pick(s)}]]
  <2>2. ASSUME NEW s \in SUBSET D, s # {}, ~(Cardinality(s) > n + 1)
        PROVE  G[s \ {Pick(s)}] = F[s \ {Pick(s)}]
    <3> DEFINE t == s \ {Pick(s)}
    <3>1. t \in SUBSET D /\ Cardinality(t) \in Nat /\ Cardinality(s) \in Nat
          /\ Cardinality(t) + 1 = Cardinality(s)
      BY <2>2, PickOne
    <3>2. n \in Nat
      OBVIOUS
    <3>3. ~(Cardinality(t) > n) /\ ~(Cardinality(t) > n + 1)
      BY <2>2, <3>1, <3>2
    <3> HIDE DEF t
    <3>4. F[t] = IF t = {} THEN 0 ELSE f[Pick(t)] + F[t \ {Pick(t)}]
      BY <2>1, <3>1, <3>3 DEF SumsUpto
    <3>5. G[t] = IF t = {} THEN 0 ELSE f[Pick(t)] + F[t \ {Pick(t)}]
      BY <3>1, <3>3
    <3> QED BY <3>4, <3>5 DEF t
  <2>3. SumsUpto(G, f, D, n + 1)
    BY <2>2 DEF SumsUpto
  <2>4. n + 1 \in Nat
    OBVIOUS
  <2> HIDE DEF G
  <2> QED BY <2>3, <2>4
<1>3. N = Nat
  <2>1. N \in SUBSET Nat
    OBVIOUS
  <2> HIDE DEF N
  <2> QED BY <1>1, <1>2, <2>1, EveryNat
<1>4. Cardinality(D) \in Nat
  BY FS_CardinalityType
<1>5. PICK F : SumsUpto(F, f, D, Cardinality(D))
  BY <1>3, <1>4
<1>6. \A s \in SUBSET D : ~(Cardinality(s) > Cardinality(D))
  BY <1>4, FS_Subset, FS_CardinalityType
<1>7. Sums(F, f, D)
  BY <1>5, <1>6 DEF Sums, SumsUpto
<1> QED BY <1>7

LEMMA SumIsSums ==
  ASSUME NEW f, IsFiniteSet(DOMAIN f)
  PROVE  \E F : Sums(F, f, DOMAIN f) /\ SumFunction(f) = F[DOMAIN f]
<1> DEFINE D == DOMAIN f
           F == CHOOSE iter : Sums(iter, f, D)
<1>1. SumFunction(f) = F[D]
  BY DEF SumFunction, SumFunctionOnSet, FoldFunctionOnSet, MapThenFoldSet, Sums, Pick
<1>2. Sums(F, f, D)
  BY SumsExist
<1> QED BY <1>1, <1>2

\* F sums the integers f, and the sum over s is that of one element and the rest.
Unfolds(F, f, D) ==
    /\ SumFunction(f) = F[D] /\ F[{}] = 0
    /\ \A s \in SUBSET D : F[s] \in Int
    /\ \A s \in SUBSET D : s # {} => F[s] = f[Pick(s)] + F[s \ {Pick(s)}]

LEMMA SumUnfolds ==
  ASSUME NEW D, IsFiniteSet(D), NEW f \in [D -> Int]
  PROVE  \E F : Unfolds(F, f, D)
<1>1. DOMAIN f = D
  OBVIOUS
<1>2. PICK F : Sums(F, f, D) /\ SumFunction(f) = F[D]
  BY <1>1, SumIsSums
<1>3. F[{}] = 0
  BY <1>2 DEF Sums
<1>4. ASSUME NEW s \in SUBSET D, s # {} PROVE F[s] = f[Pick(s)] + F[s \ {Pick(s)}]
  BY <1>2, <1>4 DEF Sums
<1> DEFINE T == {s \in SUBSET D : F[s] \in Int}
<1>5. {} \in T
  BY <1>3
<1>6. ASSUME NEW s \in SUBSET D, s # {}, s \ {Pick(s)} \in T PROVE s \in T
  <2>1. Pick(s) \in D
    BY <1>6, PickOne
  <2> DEFINE x == f[Pick(s)]
             y == F[s \ {Pick(s)}]
  <2>2. x \in Int /\ y \in Int
    BY <1>6, <2>1
  <2>3. F[s] = x + y
    BY <1>4, <1>6
  <2> HIDE DEF x, y
  <2>4. F[s] \in Int
    BY <2>2, <2>3
  <2> QED BY <2>4
<1>7. SUBSET D \subseteq T
  <2> HIDE DEF T
  <2> QED BY <1>5, <1>6, SetInduction
<1> QED BY <1>2, <1>3, <1>4, <1>7 DEF Unfolds

LEMMA SumInt ==
  ASSUME NEW D, IsFiniteSet(D), NEW f \in [D -> Int]
  PROVE  SumFunction(f) \in Int
<1>1. PICK F : Unfolds(F, f, D)
  BY SumUnfolds
<1> QED BY <1>1 DEF Unfolds

LEMMA Distribute ==
  ASSUME NEW a \in Int, NEW x \in Int, NEW y \in Int
  PROVE  /\ a * (x + y) = a * x + a * y /\ a * (x - y) = a * x - a * y
         /\ a * x = x * a /\ (-a) * x = -(a * x) /\ a * x \in Int
OBVIOUS

Mix(a, x, b, y, c, z) == a * x + b * y + c * z

\* A linear inequality between the terms holds between the sums.
LEMMA SumsInherit ==
  ASSUME NEW D, IsFiniteSet(D), NEW f \in [D -> Int], NEW g \in [D -> Int], NEW h \in [D -> Int],
         NEW a \in Int, NEW b \in Int, NEW c \in Int,
         \A k \in D : Mix(a, f[k], b, g[k], c, h[k]) >= 0
  PROVE  Mix(a, SumFunction(f), b, SumFunction(g), c, SumFunction(h)) >= 0
<1> USE DEF Mix
<1>1. PICK F : Unfolds(F, f, D)
  BY SumUnfolds
<1>2. PICK G : Unfolds(G, g, D)
  BY SumUnfolds
<1>3. PICK H : Unfolds(H, h, D)
  BY SumUnfolds
<1> DEFINE T == {s \in SUBSET D : a * F[s] + b * G[s] + c * H[s] >= 0}
<1>4. {} \in T
  BY <1>1, <1>2, <1>3 DEF Unfolds
<1>5. ASSUME NEW s \in SUBSET D, s # {}, s \ {Pick(s)} \in T PROVE s \in T
  <2> DEFINE x == f[Pick(s)]
             y == g[Pick(s)]
             z == h[Pick(s)]
             u == F[s \ {Pick(s)}]
             v == G[s \ {Pick(s)}]
             w == H[s \ {Pick(s)}]
  <2>1. Pick(s) \in D /\ s \ {Pick(s)} \in SUBSET D
    BY <1>5, PickOne
  <2>2. /\ x \in Int /\ y \in Int /\ z \in Int /\ u \in Int /\ v \in Int /\ w \in Int
        /\ a * x + b * y + c * z >= 0 /\ a * u + b * v + c * w >= 0
    BY <1>1, <1>2, <1>3, <1>5, <2>1 DEF Unfolds
  <2>3. F[s] = x + u /\ G[s] = y + v /\ H[s] = z + w
    BY <1>1, <1>2, <1>3, <1>5 DEF Unfolds
  <2> HIDE DEF x, y, z, u, v, w
  <2>4. a * (x + u) + b * (y + v) + c * (z + w) >= 0
    BY ONLY <2>2, Distribute, a \in Int, b \in Int, c \in Int
  <2> QED BY <2>3, <2>4
<1>6. SUBSET D \subseteq T
  <2> HIDE DEF T
  <2> QED BY <1>4, <1>5, SetInduction
<1> QED BY <1>1, <1>2, <1>3, <1>6 DEF Unfolds

\* So does a linear equation.
LEMMA SumsAgree ==
  ASSUME NEW D, IsFiniteSet(D), NEW f \in [D -> Int], NEW g \in [D -> Int], NEW h \in [D -> Int],
         NEW a \in Int, NEW b \in Int, NEW c \in Int,
         \A k \in D : Mix(a, f[k], b, g[k], c, h[k]) = 0
  PROVE  Mix(a, SumFunction(f), b, SumFunction(g), c, SumFunction(h)) = 0
<1> DEFINE x == SumFunction(f)
           y == SumFunction(g)
           z == SumFunction(h)
<1>1. x \in Int /\ y \in Int /\ z \in Int
  BY SumInt
<1>2. -a \in Int /\ -b \in Int /\ -c \in Int
  OBVIOUS
<1>3. Mix(a, x, b, y, c, z) >= 0
  <2>1. \A k \in D : Mix(a, f[k], b, g[k], c, h[k]) >= 0
    OBVIOUS
  <2> QED BY <2>1, SumsInherit
<1>4. Mix(-a, x, -b, y, -c, z) >= 0
  <2>1. ASSUME NEW k \in D PROVE Mix(-a, f[k], -b, g[k], -c, h[k]) >= 0
    <3> DEFINE u == f[k]
               v == g[k]
               w == h[k]
    <3>1. u \in Int /\ v \in Int /\ w \in Int /\ a * u + b * v + c * w = 0
      BY DEF Mix
    <3> HIDE DEF u, v, w
    <3>2. (-a) * u + (-b) * v + (-c) * w >= 0
      BY ONLY <3>1, Distribute, a \in Int, b \in Int, c \in Int
    <3> QED BY <3>2 DEF u, v, w, Mix
  <2> QED BY <1>2, <2>1, SumsInherit
<1> HIDE DEF x, y, z
<1>5. a * x + b * y + c * z = 0
  BY ONLY <1>1, <1>3, <1>4, Distribute, a \in Int, b \in Int, c \in Int DEF Mix
<1> QED BY <1>5 DEF x, y, z, Mix

\* The sum of ones counts them.
LEMMA SumCounts ==
  ASSUME NEW D, IsFiniteSet(D), NEW f \in [D -> {0, 1}]
  PROVE  SumFunction(f) = Cardinality({k \in D : f[k] = 1})
<1>0. f \in [D -> Int]
  OBVIOUS
<1>1. PICK F : Unfolds(F, f, D)
  BY <1>0, SumUnfolds
<1> DEFINE Ones(s) == {k \in s : f[k] = 1}
           T == {s \in SUBSET D : F[s] = Cardinality(Ones(s))}
<1>2. {} \in T
  BY <1>1, FS_EmptySet DEF Unfolds
<1>3. ASSUME NEW s \in SUBSET D, s # {}, s \ {Pick(s)} \in T PROVE s \in T
  <2> DEFINE p == Pick(s)
             t == s \ {p}
  <2>1. p \in s /\ p \in D /\ t \in SUBSET D
    BY <1>3, PickOne
  <2>2. F[s] = f[p] + F[t] /\ F[t] = Cardinality(Ones(t)) /\ F[t] \in Int
    BY <1>1, <1>3, <2>1 DEF Unfolds
  <2> HIDE DEF p
  <2>3. IsFiniteSet(Ones(t))
    BY <2>1, FS_Subset
  <2>4. CASE f[p] = 1
    <3>1. Ones(s) = Ones(t) \cup {p} /\ p \notin Ones(t)
      BY <2>1, <2>4
    <3>2. Cardinality(Ones(s)) = Cardinality(Ones(t)) + 1
      BY <2>3, <3>1, FS_AddElement
    <3>3. F[s] = Cardinality(Ones(s))
      BY <2>2, <2>4, <3>2
    <3> QED BY <3>3
  <2>5. CASE f[p] = 0
    <3>1. Ones(s) = Ones(t)
      BY <2>1, <2>5
    <3>2. F[s] = Cardinality(Ones(s))
      BY <2>2, <2>5, <3>1
    <3> QED BY <3>2
  <2> QED BY <2>1, <2>4, <2>5
<1>4. SUBSET D \subseteq T
  <2> HIDE DEF T
  <2> QED BY <1>2, <1>3, SetInduction
<1> QED BY <1>1, <1>4 DEF Unfolds

\* Larger terms, larger sum; in particular, a sum of naturals is not negative.
LEMMA SumGrows ==
  ASSUME NEW D, IsFiniteSet(D), NEW f \in [D -> Int], NEW g \in [D -> Int],
         \A k \in D : f[k] <= g[k]
  PROVE  SumFunction(f) <= SumFunction(g)
<1> DEFINE a == -1
           b == 1
           c == 0
           x == SumFunction(f)
           y == SumFunction(g)
<1>1. a \in Int /\ b \in Int /\ c \in Int /\ x \in Int /\ y \in Int
  BY SumInt
<1>2. \A k \in D : Mix(a, f[k], b, g[k], c, f[k]) >= 0
  <2> SUFFICES ASSUME NEW k \in D PROVE Mix(a, f[k], b, g[k], c, f[k]) >= 0
    OBVIOUS
  <2>1. f[k] \in Int /\ g[k] \in Int /\ f[k] <= g[k]
    OBVIOUS
  <2> QED BY ONLY <2>1 DEF Mix
<1> HIDE DEF a, b, c
<1>3. Mix(a, SumFunction(f), b, SumFunction(g), c, SumFunction(f)) >= 0
  BY ONLY <1>1, <1>2, SumsInherit, IsFiniteSet(D), f \in [D -> Int], g \in [D -> Int]
<1> HIDE DEF x, y
<1>4. x <= y
  BY ONLY <1>1, <1>3 DEF Mix, a, b, c, x, y
<1> QED BY <1>4 DEF x, y

LEMMA SumNat ==
  ASSUME NEW D, IsFiniteSet(D), NEW f \in [D -> Nat]
  PROVE  SumFunction(f) >= 0 /\ SumFunction(f) \in Int
<1> DEFINE none == [k \in D |-> 0]
<1>1. /\ f \in [D -> Int] /\ none \in [D -> Int] /\ none \in [D -> {0, 1}]
      /\ \A k \in D : none[k] <= f[k]
  OBVIOUS
<1>2. SumFunction(none) = 0
  <2>1. {k \in D : none[k] = 1} = {}
    OBVIOUS
  <2> HIDE DEF none
  <2> QED BY <1>1, <2>1, SumCounts, FS_EmptySet
<1> HIDE DEF none
<1>3. SumFunction(none) <= SumFunction(f) /\ SumFunction(f) \in Int
  BY <1>1, SumGrows, SumInt
<1> QED BY <1>2, <1>3

-----------------------------------------------------------------------------
(***************************************************************************)
(* The largest remainder: the leftover units are fewer than the buckets    *)
(* with a fraction, one unit goes to each bucket whose place is below      *)
(* their number, and every place is taken once.                            *)
(***************************************************************************)

\* The counts of the buckets 1..n, with some total.
Column(counts, n, total) ==
    /\ n \in Nat /\ total \in Nat \ {0}
    /\ counts \in [1..n -> Nat] /\ Len(counts) = n

\* A distribution over the buckets of a total that is its sum.
Distribution(counts, n, total) == Column(counts, n, total) /\ SumFunction(counts) = total

Quotas(counts, total)    == [k \in DOMAIN counts |-> Quota(counts[k], total)]
Fractions(counts, total) == [k \in DOMAIN counts |-> Fraction(counts[k], total)]
Extras(counts, total)    == [k \in DOMAIN counts |-> Extra(counts, total, k)]

\* Bucket j comes before bucket k in the sort by fraction.
Precedes(counts, total, j, k) ==
    \/ Fraction(counts[j], total) > Fraction(counts[k], total)
    \/ Fraction(counts[j], total) = Fraction(counts[k], total) /\ j < k

LEMMA Buckets ==
  ASSUME NEW n \in Nat
  PROVE  IsFiniteSet(1..n) /\ Cardinality(1..n) = n
<1>1. IsFiniteSet(1..n) /\ Cardinality(1..n) = IF 1 > n THEN 0 ELSE n - 1 + 1
  BY FS_Interval
<1> QED BY <1>1

LEMMA Division ==
  ASSUME NEW x \in Nat, NEW t \in Nat \ {0}
  PROVE  x \div t \in Nat /\ x % t \in 0..(t - 1) /\ t * (x \div t) + (x % t) = x
OBVIOUS

LEMMA NatProduct == \A x, y \in Nat : x * y \in Nat
OBVIOUS

\* A quota and its fraction make up the exact proportion.
LEMMA QuotaAndFraction ==
  ASSUME NEW c \in Nat, NEW total \in Nat \ {0}
  PROVE  /\ Quota(c, total) \in Nat /\ Fraction(c, total) \in 0..(total - 1)
         /\ total * Quota(c, total) + Fraction(c, total) = c * Scale
<1>1. c * Scale \in Nat
  BY NatProduct, ScaleAssumption
<1> DEFINE x == c * Scale
<1> HIDE DEF x
<1>2. x \div total \in Nat /\ x % total \in 0..(total - 1)
      /\ total * (x \div total) + (x % total) = x
  BY <1>1, Division DEF x
<1> QED BY <1>2 DEF x, Quota, Fraction

\* Quotas and fractions add up to the exact proportions, and the leftover units
\* are what the quotas fall short of the whole.
LEMMA QuotasAndFractions ==
  ASSUME NEW counts, NEW n, NEW total, Column(counts, n, total)
  PROVE  /\ Quotas(counts, total) \in [1..n -> Nat] /\ Fractions(counts, total) \in [1..n -> Nat]
         /\ SumFunction(Quotas(counts, total)) \in Int
         /\ SumFunction(Fractions(counts, total)) \in Int /\ SumFunction(counts) \in Int
         /\ Leftover(counts, total) = Scale - SumFunction(Quotas(counts, total))
         /\ Leftover(counts, total) \in Int
         /\ total * SumFunction(Quotas(counts, total)) + SumFunction(Fractions(counts, total))
              = Scale * SumFunction(counts)
<1> DEFINE q == Quotas(counts, total)
           f == Fractions(counts, total)
<1>1. n \in Nat /\ total \in Nat \ {0} /\ counts \in [1..n -> Nat] /\ DOMAIN counts = 1..n
  BY DEF Column
<1>2. /\ q \in [1..n -> Nat] /\ f \in [1..n -> Nat]
      /\ \A k \in 1..n : total * q[k] + f[k] = counts[k] * Scale
  <2>1. ASSUME NEW k \in 1..n
        PROVE  /\ Quota(counts[k], total) \in Nat /\ Fraction(counts[k], total) \in Nat
               /\ total * Quota(counts[k], total) + Fraction(counts[k], total) = counts[k] * Scale
    <3>1. counts[k] \in Nat /\ total \in Nat \ {0}
      BY <1>1
    <3> QED BY <3>1, QuotaAndFraction
  <2>2. /\ q = [k \in 1..n |-> Quota(counts[k], total)]
        /\ f = [k \in 1..n |-> Fraction(counts[k], total)]
    BY <1>1 DEF Quotas, Fractions
  <2> HIDE DEF q, f
  <2> QED BY <2>1, <2>2
<1>3. /\ q \in [1..n -> Int] /\ f \in [1..n -> Int] /\ counts \in [1..n -> Int]
      /\ IsFiniteSet(1..n)
  BY <1>1, <1>2, Buckets
<1>4. Leftover(counts, total) = Scale - SumFunction(q)
  BY DEF Leftover, Quotas
<1> HIDE DEF q, f
<1> DEFINE x == SumFunction(q)
           y == SumFunction(f)
           z == SumFunction(counts)
<1>5. x \in Int /\ y \in Int /\ z \in Int /\ Scale \in Int /\ total \in Int
  BY <1>1, <1>3, SumInt, ScaleAssumption
<1>6. Mix(total, x, 1, y, -Scale, z) = 0
  <2> DEFINE b == 1
             c == -Scale
             D == 1..n
  <2>1. ASSUME NEW k \in D PROVE Mix(total, q[k], b, f[k], c, counts[k]) = 0
    <3> DEFINE u == q[k]
               v == f[k]
               w == counts[k]
    <3>1. u \in Int /\ v \in Int /\ w \in Int /\ total * u + v = w * Scale /\ total \in Int
          /\ Scale \in Int
      BY <1>1, <1>2, <1>3, <1>5
    <3> HIDE DEF u, v, w
    <3>2. total * u + 1 * v + (-Scale) * w = 0
      BY ONLY <3>1, Distribute
    <3> QED BY <3>2 DEF u, v, w, Mix
  <2>2. /\ total \in Int /\ b \in Int /\ c \in Int
        /\ IsFiniteSet(D) /\ q \in [D -> Int] /\ f \in [D -> Int] /\ counts \in [D -> Int]
    BY <1>3, <1>5
  <2> HIDE DEF b, c, D
  <2>3. Mix(total, SumFunction(q), b, SumFunction(f), c, SumFunction(counts)) = 0
    BY ONLY <2>1, <2>2, SumsAgree
  <2> QED BY <2>3 DEF b, c
<1> HIDE DEF x, y, z
<1>7. total * x + y = Scale * z /\ Scale - x \in Int
  BY ONLY <1>5, <1>6, Distribute DEF Mix
<1> QED BY <1>2, <1>4, <1>5, <1>7 DEF q, f, x, y, z

\* Of a whole distribution the leftover units are what the fractions add up to.
LEMMA LeftoverIsFractions ==
  ASSUME NEW counts, NEW n, NEW total, Distribution(counts, n, total)
  PROVE  /\ Fractions(counts, total) \in [1..n -> Nat] /\ Leftover(counts, total) \in Int
         /\ total * Leftover(counts, total) = SumFunction(Fractions(counts, total))
<1> DEFINE x == SumFunction(Quotas(counts, total))
           y == SumFunction(Fractions(counts, total))
           left == Leftover(counts, total)
<1>1. /\ Column(counts, n, total) /\ SumFunction(counts) = total /\ total \in Int
  BY DEF Distribution, Column
<1>2. /\ x \in Int /\ y \in Int /\ left = Scale - x /\ total * x + y = Scale * total
      /\ Fractions(counts, total) \in [1..n -> Nat] /\ left \in Int
  BY <1>1, QuotasAndFractions
<1>3. Scale \in Int
  BY ScaleAssumption
<1> HIDE DEF x, y, left
<1>4. total * left = y
  BY ONLY <1>1, <1>2, <1>3, Distribute
<1> QED BY <1>2, <1>4 DEF y, left

LEMMA SmallProduct ==
  ASSUME NEW t \in Nat \ {0}, NEW m \in Int, NEW p \in Nat, t * m <= (t - 1) * p, t * m >= 0
  PROVE  m >= 0 /\ (m > 0 => m < p)
<1>1. m >= 0
  <2> SUFFICES ASSUME m <= -1 PROVE FALSE
    OBVIOUS
  <2>1. t * m <= t * (-1)
    OBVIOUS
  <2> QED BY <2>1
<1>2. ASSUME m > 0, m >= p PROVE FALSE
  <2>1. (t - 1) * p <= (t - 1) * m
    BY <1>2
  <2>2. (t - 1) * m = t * m - m /\ t * m \in Int /\ (t - 1) * m \in Int /\ (t - 1) * p \in Int
    OBVIOUS
  <2> QED BY <1>2, <2>1, <2>2
<1> QED BY <1>1, <1>2

\* The leftover units are fewer than the buckets that have a fraction.
LEMMA LeftoverIsSmall ==
  ASSUME NEW counts, NEW n, NEW total, Distribution(counts, n, total)
  PROVE  LET left == Leftover(counts, total)
         IN  /\ n > 0 /\ left \in 0..(n - 1)
             /\ left > 0 =>
                  left < Cardinality({k \in 1..n : Fraction(counts[k], total) > 0})
<1> DEFINE D == 1..n
           f == Fractions(counts, total)
           Some == {k \in D : f[k] > 0}
           e == [k \in D |-> IF f[k] > 0 THEN 1 ELSE 0]
           left == Leftover(counts, total)
<1>1. /\ n \in Nat /\ total \in Nat \ {0} /\ counts \in [1..n -> Nat]
      /\ SumFunction(counts) = total
  BY DEF Distribution, Column
<1>2. f \in [D -> Nat] /\ left \in Int /\ total * left = SumFunction(f)
  BY LeftoverIsFractions
<1>3. \A k \in D : f[k] = Fraction(counts[k], total) /\ f[k] \in 0..(total - 1)
  BY <1>1, QuotaAndFraction DEF Fractions
<1>4. IsFiniteSet(D) /\ Cardinality(D) = n
  BY <1>1, Buckets
<1>5. /\ Some \in SUBSET D /\ Some = {k \in 1..n : Fraction(counts[k], total) > 0}
  BY <1>3
<1>6. Cardinality(Some) \in Nat /\ Cardinality(Some) <= n
  BY <1>4, <1>5, FS_Subset, FS_CardinalityType
<1>7. SumFunction(e) = Cardinality(Some)
  <2>1. e \in [D -> {0, 1}]
    OBVIOUS
  <2>2. Some = {k \in D : e[k] = 1}
    OBVIOUS
  <2> HIDE DEF e, Some, D
  <2> QED BY <1>4, <2>1, <2>2, SumCounts
<1>8. e \in [D -> Int] /\ f \in [D -> Int]
  BY <1>2
<1>9. Mix(total - 1, SumFunction(e), -1, SumFunction(f), 0, SumFunction(f)) >= 0
  <2> DEFINE a == total - 1
             b == -1
             c == 0
  <2>1. \A k \in D : Mix(a, e[k], b, f[k], c, f[k]) >= 0
    BY <1>1, <1>3 DEF Mix
  <2>2. a \in Int /\ b \in Int /\ c \in Int
    BY <1>1
  <2> HIDE DEF a, b, c, e, f, D
  <2>3. Mix(a, SumFunction(e), b, SumFunction(f), c, SumFunction(f)) >= 0
    BY ONLY <1>4, <1>8, <2>1, <2>2, SumsInherit
  <2> QED BY <2>3 DEF a, b, c
<1>10. Mix(1, SumFunction(f), 0, SumFunction(f), 0, SumFunction(f)) >= 0
  <2> DEFINE a == 1
             c == 0
  <2>1. \A k \in D : Mix(a, f[k], c, f[k], c, f[k]) >= 0
    BY <1>3 DEF Mix
  <2>2. a \in Int /\ c \in Int
    OBVIOUS
  <2> HIDE DEF a, c, f, D
  <2>3. Mix(a, SumFunction(f), c, SumFunction(f), c, SumFunction(f)) >= 0
    BY ONLY <1>4, <1>8, <2>1, <2>2, SumsInherit
  <2> QED BY <2>3 DEF a, c
<1> DEFINE x == SumFunction(f)
           p == Cardinality(Some)
<1>11. x \in Int
  BY <1>4, <1>8, SumInt
<1>12. /\ p \in Nat /\ p <= n /\ left \in Int /\ total * left = x
       /\ Mix(total - 1, p, -1, x, 0, x) >= 0 /\ Mix(1, x, 0, x, 0, x) >= 0
  BY <1>2, <1>6, <1>7, <1>9, <1>10
<1> HIDE DEF x, p, left, f, e, Some
<1>13. x <= (total - 1) * p /\ x >= 0
  BY ONLY <1>1, <1>11, <1>12 DEF Mix
<1>14. left >= 0 /\ (left > 0 => left < p)
  BY <1>1, <1>12, <1>13, SmallProduct
<1>15. n > 0
  <2> SUFFICES ASSUME n = 0 PROVE FALSE
    BY <1>1
  <2>1. D = {} /\ counts \in [D -> Int]
    BY <1>1
  <2>2. PICK F : Unfolds(F, counts, D)
    BY <1>4, <2>1, SumUnfolds
  <2>3. SumFunction(counts) = 0
    BY <2>1, <2>2 DEF Unfolds
  <2> QED BY <1>1, <2>3
<1> QED BY <1>1, <1>5, <1>12, <1>14, <1>15 DEF p, left

\* The buckets before k.
Front(counts, total, k) == {j \in DOMAIN counts : Precedes(counts, total, j, k)}

LEMMA PlaceIsFront ==
  ASSUME NEW counts, NEW total, NEW k
  PROVE  Place(counts, total, k) = Cardinality(Front(counts, total, k))
BY DEF Place, Front, Precedes

\* Every bucket has a place of its own.
LEMMA PlacesDiffer ==
  ASSUME NEW counts, NEW n, NEW total, Column(counts, n, total)
  PROVE  /\ \A k \in 1..n : Place(counts, total, k) \in 0..(n - 1)
         /\ \A j, k \in 1..n : j # k => Place(counts, total, j) # Place(counts, total, k)
<1> DEFINE D == 1..n
           R(j, k) == Precedes(counts, total, j, k)
<1>1. /\ n \in Nat /\ total \in Nat \ {0} /\ counts \in [1..n -> Nat] /\ DOMAIN counts = D
  BY DEF Distribution, Column
<1>2. IsFiniteSet(D) /\ Cardinality(D) = n
  BY <1>1, Buckets
<1>3. ASSUME NEW k \in D PROVE Fraction(counts[k], total) \in Int
  <2>1. counts[k] \in Nat
    BY <1>1
  <2> QED BY <1>1, <2>1, QuotaAndFraction
<1>4. /\ \A k \in D : ~R(k, k)
      /\ \A j, k \in D : j # k => R(j, k) \/ R(k, j)
      /\ \A i, j, k \in D : R(i, j) /\ R(j, k) => R(i, k)
  BY <1>3 DEF Precedes
<1>5. ASSUME NEW k \in D
      PROVE  /\ Front(counts, total, k) \in SUBSET (D \ {k})
             /\ IsFiniteSet(Front(counts, total, k))
             /\ Place(counts, total, k) \in 0..(n - 1)
  <2>1. Front(counts, total, k) \in SUBSET (D \ {k})
    BY <1>1, <1>4 DEF Front
  <2>2. IsFiniteSet(D \ {k}) /\ Cardinality(D \ {k}) = n - 1
    BY <1>2, FS_RemoveElement
  <2>3. /\ IsFiniteSet(Front(counts, total, k))
        /\ Cardinality(Front(counts, total, k)) <= n - 1
        /\ Cardinality(Front(counts, total, k)) \in Nat
    BY <2>1, <2>2, FS_Subset, FS_CardinalityType
  <2> QED BY <1>1, <2>1, <2>3, PlaceIsFront
<1>6. ASSUME NEW j \in D, NEW k \in D, R(j, k)
      PROVE  Place(counts, total, j) # Place(counts, total, k)
  <2>1. Front(counts, total, j) \in SUBSET Front(counts, total, k)
    BY <1>1, <1>4, <1>6 DEF Front
  <2>2. j \in Front(counts, total, k) /\ j \notin Front(counts, total, j)
    BY <1>1, <1>4, <1>6 DEF Front
  <2> QED BY <1>5, <2>1, <2>2, FS_Subset, PlaceIsFront
<1> QED BY <1>4, <1>5, <1>6

\* The places below m are taken by m buckets.
LEMMA PlacesFill ==
  ASSUME NEW counts, NEW n, NEW total, Column(counts, n, total), NEW m \in 0..n
  PROVE  Cardinality({k \in 1..n : Place(counts, total, k) < m}) = m
<1> DEFINE place(k) == Place(counts, total, k)
           A == {k \in 1..n : place(k) < m}
           B == {k \in 1..n : ~(place(k) < m)}
<1>1. n \in Nat
  BY DEF Distribution, Column
<1>2. /\ \A k \in 1..n : place(k) \in 0..(n - 1)
      /\ \A j, k \in 1..n : j # k => place(j) # place(k)
  BY PlacesDiffer
<1> HIDE DEF place
<1>3. [k \in A |-> place(k)] \in Injection(A, 0..(m - 1))
  BY <1>1, <1>2 DEF Injection, IsInjective
<1>4. [k \in B |-> place(k)] \in Injection(B, m..(n - 1))
  BY <1>1, <1>2 DEF Injection, IsInjective
<1>5. /\ IsFiniteSet(0..(m - 1)) /\ Cardinality(0..(m - 1)) = m
      /\ IsFiniteSet(m..(n - 1)) /\ Cardinality(m..(n - 1)) = n - m
  <2>1. m \in Int /\ m - 1 \in Int /\ n - 1 \in Int /\ 0 \in Int /\ m <= n /\ m >= 0
    BY <1>1
  <2>2. /\ Cardinality(0..(m - 1)) = IF 0 > m - 1 THEN 0 ELSE (m - 1) - 0 + 1
        /\ Cardinality(m..(n - 1)) = IF m > n - 1 THEN 0 ELSE (n - 1) - m + 1
        /\ IsFiniteSet(0..(m - 1)) /\ IsFiniteSet(m..(n - 1))
    BY <2>1, FS_Interval
  <2> QED BY <1>1, <2>1, <2>2
<1>6. IsFiniteSet(A) /\ Cardinality(A) <= m /\ IsFiniteSet(B) /\ Cardinality(B) <= n - m
  BY <1>3, <1>4, <1>5, FS_Injection
<1>7. A \cup B = 1..n /\ A \cap B = {}
  OBVIOUS
<1>8. Cardinality(1..n) = Cardinality(A) + Cardinality(B) - Cardinality({})
  BY <1>6, <1>7, FS_Union
<1>9. Cardinality(1..n) = n /\ Cardinality({}) = 0
  BY <1>1, Buckets, FS_EmptySet
<1>10. Cardinality(A) \in Nat /\ Cardinality(B) \in Nat
  BY <1>6, FS_CardinalityType
<1>11. Cardinality(A) = m
  BY <1>1, <1>6, <1>8, <1>9, <1>10
<1> QED BY <1>11 DEF place

LEMMA DivisionIsUnique ==
  ASSUME NEW n \in Nat \ {0}, NEW a \in Nat, NEW r \in 0..(n - 1)
  PROVE  (n * a + r) \div n = a /\ (n * a + r) % n = r
<1> DEFINE x == n * a + r
           d == x \div n
           s == x % n
<1>1. x \in Nat
  <2>1. n * a \in Nat
    BY NatProduct
  <2> QED BY <2>1
<1>2. d \in Nat /\ s \in 0..(n - 1) /\ n * d + s = n * a + r
  <2>1. n * a + r \in Nat
    BY <1>1
  <2> QED BY <2>1, Division
<1> HIDE DEF x, d, s
<1>3. d \in Int /\ a \in Int /\ n \in Int
  BY <1>2
<1>4. ~(d >= a + 1)
  <2>1. d >= a + 1 => n * d >= n * a + n
    BY ONLY <1>3, n \in Nat \ {0}
  <2>2. n * d \in Int /\ n * a \in Int
    BY ONLY <1>3
  <2> QED BY <1>2, <2>1, <2>2
<1>5. ~(a >= d + 1)
  <2>1. a >= d + 1 => n * a >= n * d + n
    BY ONLY <1>3, n \in Nat \ {0}
  <2>2. n * d \in Int /\ n * a \in Int
    BY ONLY <1>3
  <2> QED BY <1>2, <2>1, <2>2
<1>6. d = a
  BY ONLY <1>3, <1>4, <1>5
<1>7. s = r
  <2>1. n * a \in Int
    BY ONLY <1>3
  <2> QED BY <1>2, <1>6, <2>1
<1> QED BY <1>6, <1>7 DEF x, d, s

\* The leftover units are dealt in rounds: every bucket gets one in each full
\* round, and the last round ends with the bucket whose place is the remainder.
LEMMA ExtraInRounds ==
  ASSUME NEW counts, NEW n, NEW total, Column(counts, n, total), NEW k \in 1..n,
         Leftover(counts, total) >= 0
  PROVE  Extra(counts, total, k)
            = Leftover(counts, total) \div n
                + (IF Place(counts, total, k) < Leftover(counts, total) % n THEN 1 ELSE 0)
<1> DEFINE left == Leftover(counts, total)
           p == Place(counts, total, k)
           a == left \div n
           b == left % n
<1>1. n \in Nat \ {0} /\ Len(counts) = n
  BY DEF Column
<1>2. left \in Nat /\ p \in 0..(n - 1)
  <2>1. left \in Int
    BY QuotasAndFractions
  <2> QED BY <2>1, PlacesDiffer
<1>3. Extra(counts, total, k) = IF left <= 0 THEN 0 ELSE (left + n - 1 - p) \div n
  BY <1>1 DEF Extra
<1> HIDE DEF left, p
<1>4. a \in Nat /\ b \in 0..(n - 1) /\ n * a + b = left /\ n * a \in Int
  <2>1. left \in Nat /\ n \in Nat \ {0}
    BY <1>1, <1>2
  <2>2. a \in Nat /\ b \in 0..(n - 1) /\ n * a + b = left
    BY ONLY <2>1, Division
  <2> HIDE DEF a
  <2>3. n * a \in Nat
    BY ONLY <2>1, <2>2, NatProduct
  <2> QED BY <2>2, <2>3
<1> HIDE DEF a, b
<1>5. CASE left = 0
  <2>1. a = 0 /\ b = 0
    <3>1. n * a >= 0 /\ (a >= 1 => n * a >= 1)
      BY ONLY <1>1, <1>4
    <3> QED BY ONLY <1>1, <1>4, <1>5, <3>1
  <2>2. ~(p < b) /\ left <= 0
    BY <1>1, <1>2, <1>5, <2>1
  <2> QED BY <1>3, <2>1, <2>2 DEF left, p, a, b
<1>6. CASE left # 0 /\ ~(p < b)
  <2>1. left + n - 1 - p = n * a + (b + n - 1 - p) /\ b + n - 1 - p \in 0..(n - 1)
    BY ONLY <1>1, <1>2, <1>4, <1>6
  <2>2. (left + n - 1 - p) \div n = a
    BY ONLY <1>1, <1>4, <2>1, DivisionIsUnique
  <2>3. ~(left <= 0) /\ a + 0 = a
    BY <1>2, <1>4, <1>6
  <2> QED BY <1>3, <1>6, <2>2, <2>3 DEF left, p, a, b
<1>7. CASE left # 0 /\ p < b
  <2>1. /\ left + n - 1 - p = n * (a + 1) + (b - 1 - p)
        /\ b - 1 - p \in 0..(n - 1) /\ a + 1 \in Nat
    BY ONLY <1>1, <1>2, <1>4, <1>7
  <2>2. (left + n - 1 - p) \div n = a + 1
    BY ONLY <1>1, <2>1, DivisionIsUnique
  <2>3. ~(left <= 0)
    BY <1>2, <1>7
  <2> QED BY <1>3, <1>7, <2>2, <2>3 DEF left, p, a, b
<1> QED BY <1>5, <1>6, <1>7

\* Where the counts are the whole there is at most one round.
LEMMA ExtraByPlace ==
  ASSUME NEW counts, NEW n, NEW total, Distribution(counts, n, total), NEW k \in 1..n
  PROVE  Extra(counts, total, k)
            = IF Place(counts, total, k) < Leftover(counts, total) THEN 1 ELSE 0
<1> DEFINE left == Leftover(counts, total)
           p == Place(counts, total, k)
<1>1. Column(counts, n, total) /\ n \in Nat
  BY DEF Distribution, Column
<1>2. n > 0 /\ left \in 0..(n - 1)
  BY LeftoverIsSmall
<1>3. left >= 0
  BY <1>1, <1>2
<1>4. Extra(counts, total, k) = left \div n + (IF p < left % n THEN 1 ELSE 0)
  BY <1>1, <1>3, ExtraInRounds
<1> HIDE DEF left, p
<1>5. left \div n = 0 /\ left % n = left
  <2>1. n \in Nat \ {0} /\ 0 \in Nat /\ n * 0 + left = left
    BY <1>1, <1>2
  <2> QED BY <1>2, <2>1, DivisionIsUnique
<1>6. (IF p < left THEN 1 ELSE 0) \in Int
  OBVIOUS
<1>7. Extra(counts, total, k) = 0 + (IF p < left THEN 1 ELSE 0)
  BY ONLY <1>4, <1>5
<1> QED BY <1>6, <1>7 DEF left, p

\* A bucket that gets a unit has a fraction: those that have one come first, and
\* they are more than the leftover units.
LEMMA ExtraHasFraction ==
  ASSUME NEW counts, NEW n, NEW total, Distribution(counts, n, total), NEW k \in 1..n,
         Place(counts, total, k) < Leftover(counts, total)
  PROVE  Fraction(counts[k], total) > 0
<1> DEFINE left == Leftover(counts, total)
           Some == {j \in 1..n : Fraction(counts[j], total) > 0}
<1>1. /\ n \in Nat /\ total \in Nat \ {0} /\ counts \in [1..n -> Nat] /\ DOMAIN counts = 1..n
  BY DEF Distribution, Column
<1>2. Fraction(counts[k], total) \in 0..(total - 1)
  <2>1. counts[k] \in Nat
    BY <1>1
  <2> QED BY <1>1, <2>1, QuotaAndFraction
<1> SUFFICES ASSUME Fraction(counts[k], total) = 0 PROVE FALSE
  BY <1>1, <1>2
<1>3. Some \in SUBSET Front(counts, total, k)
  BY <1>1 DEF Front, Precedes
<1>4. IsFiniteSet(1..n) /\ Front(counts, total, k) \in SUBSET (1..n)
  BY <1>1, Buckets DEF Front
<1>5. /\ Cardinality(Some) <= Place(counts, total, k)
      /\ Cardinality(Some) \in Nat /\ Place(counts, total, k) \in Nat
  BY <1>3, <1>4, FS_Subset, FS_CardinalityType, PlaceIsFront
<1>6. left \in 0..(n - 1) /\ (left > 0 => left < Cardinality(Some))
  BY LeftoverIsSmall
<1> HIDE DEF left, Some
<1>7. Place(counts, total, k) < left
  BY DEF left
<1> QED BY <1>1, <1>5, <1>6, <1>7

\* However the units are dealt, unless the quotas already exceed the whole, the
\* shares add up to it.
LEMMA SharesAddUp ==
  ASSUME NEW counts, NEW n, NEW total, Column(counts, n, total), n > 0,
         Leftover(counts, total) >= 0
  PROVE  SumFunction(Shares(counts, total)) = Scale
<1> DEFINE D == 1..n
           q == Quotas(counts, total)
           e == Extras(counts, total)
           h == Shares(counts, total)
           left == Leftover(counts, total)
           a == left \div n
           b == left % n
           Last == {k \in D : Place(counts, total, k) < b}
           i == [k \in D |-> IF k \in Last THEN 1 ELSE 0]
           one == [k \in D |-> 1]
<1>1. /\ n \in Nat \ {0} /\ total \in Nat \ {0} /\ counts \in [D -> Nat] /\ DOMAIN counts = D
  BY DEF Column
<1>2. q \in [D -> Nat] /\ left = Scale - SumFunction(q) /\ left \in Nat
  BY QuotasAndFractions
<1>3. a \in Nat /\ b \in 0..(n - 1) /\ n * a + b = left
  <2> HIDE DEF left
  <2> QED BY <1>1, <1>2, Division
<1>4. IsFiniteSet(D) /\ Cardinality(D) = n
  BY <1>1, Buckets
<1>5. Cardinality(Last) = b
  <2>1. b \in 0..n
    <3> HIDE DEF b
    <3> QED BY <1>1, <1>3
  <2> HIDE DEF b
  <2> QED BY <2>1, PlacesFill
<1>6. /\ i \in [D -> {0, 1}] /\ {k \in D : i[k] = 1} = Last
      /\ one \in [D -> {0, 1}] /\ {k \in D : one[k] = 1} = D
  OBVIOUS
<1>7. \A k \in D : e[k] = a + i[k]
  BY <1>1, ExtraInRounds DEF Extras
<1>8. DOMAIN e = D /\ e = [k \in D |-> e[k]]
  BY <1>1 DEF Extras
<1>9. h = [k \in D |-> q[k] + e[k]]
  <2>1. ~(total <= 0)
    BY <1>1
  <2> QED BY <1>1, <2>1 DEF Shares, Quotas, Extras
<1> HIDE DEF q, e, h, D, left, a, b, Last, i, one
<1>10. SumFunction(i) = b /\ SumFunction(one) = n
  BY <1>4, <1>5, <1>6, SumCounts
<1>11. /\ q \in [D -> Int] /\ i \in [D -> Int] /\ one \in [D -> Int]
       /\ \A k \in D : one[k] = 1
  BY <1>2, <1>6 DEF one
<1>12. e \in [D -> Int]
  <2>1. \A k \in D : a + i[k] \in Int
    BY <1>3, <1>11
  <2> QED BY <1>7, <1>8, <2>1
<1>13. h \in [D -> Int]
  <2>1. \A k \in D : q[k] + e[k] \in Int
    BY <1>11, <1>12
  <2> QED BY <1>9, <2>1
<1>14. /\ SumFunction(q) \in Int /\ SumFunction(e) \in Int /\ SumFunction(h) \in Int
       /\ SumFunction(one) \in Int /\ SumFunction(i) \in Int
  BY <1>4, <1>11, <1>12, <1>13, SumInt
<1>15. SumFunction(e) = left
  <2> DEFINE u == 1
             v == -a
             w == -1
  <2>1. u \in Int /\ v \in Int /\ w \in Int
    BY <1>3
  <2>2. \A k \in D : Mix(u, e[k], v, one[k], w, i[k]) = 0
    <3> SUFFICES ASSUME NEW k \in D PROVE Mix(u, e[k], v, one[k], w, i[k]) = 0
      OBVIOUS
    <3>1. i[k] \in Int /\ a \in Int /\ e[k] = a + i[k] /\ one[k] = 1
      BY <1>3, <1>7, <1>11
    <3> QED BY ONLY <3>1 DEF Mix
  <2> HIDE DEF u, v, w
  <2>3. Mix(u, SumFunction(e), v, SumFunction(one), w, SumFunction(i)) = 0
    BY ONLY <1>4, <1>11, <1>12, <2>1, <2>2, SumsAgree
  <2> DEFINE y == SumFunction(e)
  <2>4. y \in Int /\ a \in Int /\ n \in Int /\ b \in Int /\ Mix(1, y, -a, n, -1, b) = 0
    BY <1>1, <1>3, <1>10, <1>14, <2>3 DEF u, v, w
  <2> HIDE DEF y
  <2>5. y = n * a + b
    BY ONLY <2>4, Distribute DEF Mix
  <2> QED BY <1>3, <2>5 DEF y
<1>16. SumFunction(h) = SumFunction(q) + SumFunction(e)
  <2> DEFINE u == 1
             v == 1
             w == -1
  <2>1. u \in Int /\ v \in Int /\ w \in Int
    OBVIOUS
  <2>2. \A k \in D : Mix(u, q[k], v, e[k], w, h[k]) = 0
    BY <1>9, <1>11, <1>12 DEF Mix
  <2> HIDE DEF u, v, w
  <2>3. Mix(u, SumFunction(q), v, SumFunction(e), w, SumFunction(h)) = 0
    BY ONLY <1>4, <1>11, <1>12, <1>13, <2>1, <2>2, SumsAgree
  <2> QED BY <1>14, <2>3 DEF Mix, u, v, w
<1>17. SumFunction(h) = Scale
  BY <1>2, <1>14, <1>15, <1>16, ScaleAssumption
<1> QED BY <1>17 DEF h

\* The quotas exceed the whole only where the counts exceed the total.
LEMMA NothingOverdealt ==
  ASSUME NEW counts, NEW n, NEW total, Column(counts, n, total),
         SumFunction(counts) <= total
  PROVE  Leftover(counts, total) >= 0
<1> DEFINE D == 1..n
           f == Fractions(counts, total)
           x == SumFunction(Quotas(counts, total))
           y == SumFunction(f)
           z == SumFunction(counts)
           left == Leftover(counts, total)
<1>1. n \in Nat /\ total \in Nat \ {0} /\ IsFiniteSet(D) /\ Scale \in Nat \ {0}
  BY Buckets, ScaleAssumption DEF Column
<1>2. /\ f \in [D -> Nat] /\ x \in Int /\ y \in Int /\ z \in Int /\ z <= total
      /\ left = Scale - x /\ total * x + y = Scale * z
  BY QuotasAndFractions
<1>3. y >= 0
  BY <1>1, <1>2, SumNat
<1> HIDE DEF x, y, z, left, f, D
<1>4. Scale * z <= Scale * total /\ Scale * z \in Int /\ Scale * total \in Int
  BY ONLY <1>1, <1>2
<1>5. total * x <= total * Scale /\ total * x \in Int /\ total * Scale \in Int
  BY ONLY <1>1, <1>2, <1>3, <1>4
<1>6. ~(x >= Scale + 1)
  <2> SUFFICES ASSUME x >= Scale + 1 PROVE FALSE
    OBVIOUS
  <2>1. total * x >= total * Scale + total
    BY ONLY <1>1, <1>2, x >= Scale + 1
  <2> QED BY <1>1, <1>5, <2>1
<1>7. left >= 0
  BY <1>1, <1>2, <1>6
<1> QED BY <1>7 DEF left

\* Where the counts add up to the total, the shares add up to the whole and each
\* is less than a unit from its exact proportion, for any number of buckets: what
\* core/percentages.py promises of a distribution.
THEOREM LargestRemainderIsFair ==
  ASSUME NEW counts, NEW n, NEW total, Distribution(counts, n, total)
  PROVE  Fair(Shares(counts, total), counts, total)
<1> DEFINE D == 1..n
           h == Shares(counts, total)
           left == Leftover(counts, total)
<1>1. /\ n \in Nat /\ total \in Nat \ {0} /\ counts \in [D -> Nat] /\ DOMAIN counts = D
      /\ Column(counts, n, total)
  BY DEF Distribution, Column
<1>2. n > 0 /\ left >= 0
  <2>1. n > 0 /\ left \in 0..(n - 1)
    BY LeftoverIsSmall
  <2> HIDE DEF left
  <2> QED BY <1>1, <2>1
<1>3. SumFunction(h) = Scale
  BY <1>1, <1>2, SharesAddUp
<1>4. ASSUME NEW k \in D
      PROVE  /\ h[k] * total < counts[k] * Scale + total
             /\ h[k] * total > counts[k] * Scale - total
  <2> DEFINE x == Quota(counts[k], total)
             f == Fraction(counts[k], total)
             y == Extra(counts, total, k)
             p == counts[k] * Scale
  <2>1. counts[k] \in Nat
    BY <1>1
  <2>2. x \in Nat /\ f \in 0..(total - 1) /\ total * x + f = p
    BY <1>1, <2>1, QuotaAndFraction
  <2>3. y = 0 \/ (y = 1 /\ f > 0)
    <3>1. y = IF Place(counts, total, k) < left THEN 1 ELSE 0
      BY ExtraByPlace
    <3>2. Place(counts, total, k) < left => f > 0
      BY ExtraHasFraction
    <3> HIDE DEF y, f
    <3> QED BY <3>1, <3>2
  <2>4. h[k] = x + y
    <3>1. ~(total <= 0)
      BY <1>1
    <3> QED BY <1>1, <3>1 DEF Shares
  <2>5. total \in Nat \ {0}
    BY <1>1
  <2> HIDE DEF x, y, f, p
  <2>6. CASE y = 0
    <3>1. h[k] * total = total * x /\ total * x \in Int
      BY ONLY <2>2, <2>4, <2>5, <2>6
    <3> QED BY ONLY <2>2, <2>5, <3>1 DEF p
  <2>7. CASE y = 1 /\ f > 0
    <3>1. h[k] * total = total * x + total /\ total * x \in Int
      BY ONLY <2>2, <2>4, <2>5, <2>7
    <3>2. h[k] * total < p + total /\ h[k] * total > p - total
      BY ONLY <2>2, <2>5, <2>7, <3>1
    <3> QED BY <3>2 DEF p
  <2> QED BY ONLY <2>3, <2>6, <2>7
<1> QED BY <1>1, <1>3, <1>4 DEF Fair, h

\* A cached column is a column of counts, over a total that is not zero.
LEMMA CachedColumn ==
  ASSUME TypeOK, FiguresAreModerated, NEW c \in DOMAIN cache.counts
  PROVE  Column(cache.counts[c], NumKinds, cache.total) /\ NumKinds > 0
<1>1. cache \in Stored
  BY DEF TypeOK, Stored, NoEntry
<1> DEFINE counts == cache.counts[c]
           total == cache.total
<1>2. counts \in Counts /\ cache.counts # <<>>
  BY <1>1 DEF Stored
<1>3. /\ NumKinds \in Nat \ {0} /\ MinReviews \in Nat \ {0} /\ Cardinality(Reviews) \in Nat
  BY StatsAssumption, CountIsBounded
<1>4. total \in Nat \ {0}
  BY <1>1, <1>2, <1>3 DEF FiguresAreModerated, Moderated, Stored
<1>5. counts \in [1..NumKinds -> Nat] /\ Len(counts) = NumKinds
  BY <1>2, <1>3 DEF Counts
<1> QED BY <1>3, <1>4, <1>5 DEF Column

\* Whenever the counts of a cached column add up to the cached total, the
\* percentages made of them (services/stats.py, core/percentages.py) are the
\* largest-remainder ones, for any number of reviews, columns and buckets.
THEOREM SharesAreFairHolds == Spec => []SharesAreFair
<1>1. TypeOK /\ FiguresAreModerated => SharesAreFair
  <2> SUFFICES ASSUME TypeOK, FiguresAreModerated, NEW c \in DOMAIN cache.counts,
                      SumFunction(cache.counts[c]) = cache.total
               PROVE  Fair(Shares(cache.counts[c], cache.total), cache.counts[c], cache.total)
    BY DEF SharesAreFair
  <2>1. Distribution(cache.counts[c], NumKinds, cache.total)
    BY CachedColumn DEF Distribution
  <2> QED BY <2>1, LargestRemainderIsFair
<1> QED BY <1>1, TypeCorrect, FiguresHold, PTL

\* The distributions that are served make up the whole unless one counts more
\* reviews than the total it is served with.
WholeUnlessOvercounted ==
    \A c \in DOMAIN cache.counts :
        SumFunction(cache.counts[c]) <= cache.total =>
            SumFunction(Shares(cache.counts[c], cache.total)) = Scale

\* What percentages.py promises of every distribution fails only where a review
\* was published after the total and before the column (services/stats.py counts
\* them in statements of their own): a column that counts fewer is made whole.
THEOREM WholeUnlessOvercountedHolds == Spec => []WholeUnlessOvercounted
<1>1. TypeOK /\ FiguresAreModerated => WholeUnlessOvercounted
  <2> SUFFICES ASSUME TypeOK, FiguresAreModerated, NEW c \in DOMAIN cache.counts,
                      SumFunction(cache.counts[c]) <= cache.total
               PROVE  SumFunction(Shares(cache.counts[c], cache.total)) = Scale
    BY DEF WholeUnlessOvercounted
  <2>1. Column(cache.counts[c], NumKinds, cache.total) /\ NumKinds > 0
    BY CachedColumn
  <2>2. Leftover(cache.counts[c], cache.total) >= 0
    BY <2>1, NothingOverdealt
  <2> QED BY <2>1, <2>2, SharesAddUp
<1> QED BY <1>1, TypeCorrect, FiguresHold, PTL

-----------------------------------------------------------------------------
(***************************************************************************)
(* How far the percentages can go above the whole.                         *)
(***************************************************************************)

\* Shares that do not add up to the whole are the quotas, and they add up to
\* more: by as much as the counts exceed the total.
LEMMA SharesOfOvercount ==
  ASSUME NEW counts, NEW n, NEW total, Column(counts, n, total), n > 0
  PROVE  LET served == SumFunction(Shares(counts, total))
         IN  /\ served \in Int /\ served >= Scale
             /\ served = Scale \/ served * total <= Scale * SumFunction(counts)
<1> DEFINE h == Shares(counts, total)
           q == Quotas(counts, total)
           f == Fractions(counts, total)
           x == SumFunction(q)
           y == SumFunction(f)
           z == SumFunction(counts)
           left == Leftover(counts, total)
<1>1. n \in Nat /\ total \in Nat \ {0} /\ Scale \in Nat \ {0} /\ DOMAIN counts = 1..n
      /\ IsFiniteSet(1..n)
  BY Buckets, ScaleAssumption DEF Column
<1>2. /\ q \in [1..n -> Nat] /\ f \in [1..n -> Nat] /\ x \in Int /\ y \in Int /\ z \in Int
      /\ left = Scale - x /\ left \in Int /\ total * x + y = Scale * z
  BY QuotasAndFractions
<1>3. CASE left >= 0
  <2>1. SumFunction(h) = Scale
    BY <1>3, SharesAddUp
  <2> QED BY <1>1, <2>1
<1>4. CASE ~(left >= 0)
  <2>1. y >= 0
    BY <1>1, <1>2, SumNat
  <2>2. h = q
    <3>1. ~(total <= 0) /\ left <= 0
      BY <1>1, <1>2, <1>4
    <3>2. \A k \in DOMAIN counts : Extra(counts, total, k) = 0
      BY <3>1 DEF Extra
    <3>3. h = [k \in DOMAIN counts |-> Quota(counts[k], total) + Extra(counts, total, k)]
      BY <3>1 DEF Shares
    <3>4. \A k \in DOMAIN counts : Quota(counts[k], total) \in Nat
      BY <1>1, <1>2 DEF Quotas
    <3>5. \A k \in DOMAIN counts :
            Quota(counts[k], total) + Extra(counts, total, k) = Quota(counts[k], total)
      BY <3>2, <3>4
    <3> QED BY <3>3, <3>5 DEF Quotas
  <2> HIDE DEF x, y, z, left, f, q, h
  <2>3. x * total <= Scale * z
    <3>1. total * x = x * total /\ total * x \in Int /\ Scale * z \in Int
      BY ONLY <1>1, <1>2, Distribute
    <3> QED BY ONLY <1>2, <2>1, <3>1
  <2>4. x \in Int /\ x >= Scale
    BY <1>1, <1>2, <1>4
  <2> QED BY <2>2, <2>3, <2>4 DEF x, z, h
<1> QED BY <1>3, <1>4

\* The reviews of S, sorted into buckets by their kind in column c.
Sorted(S, c) == [k \in 1..NumKinds |-> Cardinality({i \in S : Kind[i][c] = k})]

LEMMA SortedTyped ==
  ASSUME NEW S \in SUBSET Reviews, NEW c
  PROVE  Sorted(S, c) \in [1..NumKinds -> Nat]
<1>1. \A k \in 1..NumKinds : Cardinality({i \in S : Kind[i][c] = k}) \in Nat
  BY CountIsBounded
<1> QED BY <1>1 DEF Sorted

\* Every review is in one bucket.
LEMMA SortedAddUp ==
  ASSUME NEW c \in Columns, NEW S \in SUBSET Reviews
  PROVE  SumFunction(Sorted(S, c)) = Cardinality(S)
<1> DEFINE K == 1..NumKinds
           T == {s \in SUBSET Reviews : SumFunction(Sorted(s, c)) = Cardinality(s)}
<1>1. IsFiniteSet(Reviews) /\ IsFiniteSet(K) /\ NumKinds \in Nat
  BY StatsAssumption, Buckets
<1>2. {} \in T
  <2> DEFINE g == Sorted({}, c)
  <2>1. \A k \in K : g[k] = 0
    BY FS_EmptySet DEF Sorted
  <2>2. g \in [K -> {0, 1}] /\ {k \in K : g[k] = 1} = {}
    <3>1. g = [k \in K |-> g[k]]
      BY DEF Sorted
    <3> QED BY <2>1, <3>1
  <2>3. SumFunction(g) = Cardinality({})
    <3> HIDE DEF g
    <3> QED BY <1>1, <2>2, SumCounts
  <2> QED BY <2>3
<1>3. ASSUME NEW s \in SUBSET Reviews, s # {}, s \ {Pick(s)} \in T PROVE s \in T
  <2> DEFINE p == Pick(s)
             t == s \ {p}
             f == Sorted(s, c)
             g == Sorted(t, c)
             h == [k \in K |-> IF k = Kind[p][c] THEN 1 ELSE 0]
  <2>1. /\ p \in s /\ t \in SUBSET Reviews /\ Cardinality(t) + 1 = Cardinality(s)
        /\ Cardinality(t) \in Nat
    BY <1>1, <1>3, PickOne
  <2>2. Kind[p][c] \in K
    BY <2>1, StatsAssumption DEF Columns
  <2>3. /\ f \in [K -> Int] /\ g \in [K -> Int] /\ h \in [K -> Int] /\ h \in [K -> {0, 1}]
    <3>1. f \in [K -> Nat] /\ g \in [K -> Nat]
      BY <2>1, SortedTyped
    <3> QED BY <3>1
  <2>4. SumFunction(h) = 1
    <3>1. {k \in K : h[k] = 1} = {Kind[p][c]}
      BY <2>2
    <3>2. SumFunction(h) = Cardinality({k \in K : h[k] = 1})
      <4> HIDE DEF h
      <4> QED BY <1>1, <2>3, SumCounts
    <3> QED BY <3>1, <3>2, FS_Singleton
  <2>5. \A k \in K : f[k] = g[k] + h[k]
    <3> SUFFICES ASSUME NEW k \in K PROVE f[k] = g[k] + h[k]
      OBVIOUS
    <3> DEFINE A == {i \in s : Kind[i][c] = k}
               B == {i \in t : Kind[i][c] = k}
    <3>1. f[k] = Cardinality(A) /\ g[k] = Cardinality(B)
      BY DEF Sorted
    <3>2. IsFiniteSet(B) /\ Cardinality(B) \in Nat
      BY <2>1, CountIsBounded
    <3>3. CASE k = Kind[p][c]
      <4>1. A = B \cup {p} /\ p \notin B
        BY <2>1, <3>3
      <4> HIDE DEF A, B
      <4>2. Cardinality(A) = Cardinality(B) + 1
        BY <3>2, <4>1, FS_AddElement
      <4> QED BY <3>1, <3>3, <4>2
    <3>4. CASE k # Kind[p][c]
      <4>1. A = B
        BY <2>1, <3>4
      <4>2. h[k] = 0
        BY <3>4
      <4> HIDE DEF A, B, h
      <4> QED BY <3>1, <3>2, <4>1, <4>2
    <3> QED BY <3>3, <3>4
  <2> HIDE DEF f, g, h
  <2>6. SumFunction(f) = SumFunction(g) + SumFunction(h)
    <3> DEFINE a == 1
               b == -1
               e == -1
    <3>1. a \in Int /\ b \in Int /\ e \in Int
      OBVIOUS
    <3>2. \A k \in K : Mix(a, f[k], b, g[k], e, h[k]) = 0
      <4> SUFFICES ASSUME NEW k \in K PROVE Mix(a, f[k], b, g[k], e, h[k]) = 0
        OBVIOUS
      <4>1. f[k] = g[k] + h[k] /\ f[k] \in Int /\ g[k] \in Int /\ h[k] \in Int
        BY <2>3, <2>5
      <4> QED BY ONLY <4>1 DEF Mix
    <3> HIDE DEF a, b, e, K
    <3>3. Mix(a, SumFunction(f), b, SumFunction(g), e, SumFunction(h)) = 0
      BY ONLY <1>1, <2>3, <3>1, <3>2, SumsAgree
    <3>4. SumFunction(f) \in Int /\ SumFunction(g) \in Int /\ SumFunction(h) \in Int
      BY <1>1, <2>3, SumInt
    <3> QED BY ONLY <3>3, <3>4 DEF Mix, a, b, e
  <2>7. SumFunction(g) = Cardinality(t)
    BY <1>3 DEF g
  <2>8. SumFunction(f) = Cardinality(s)
    BY ONLY <2>1, <2>4, <2>6, <2>7
  <2> QED BY <2>8 DEF f
<1>4. SUBSET Reviews \subseteq T
  <2> HIDE DEF T
  <2> QED BY <1>1, <1>2, <1>3, SetInduction
<1> QED BY <1>4

\* A distribution that is served makes up the whole at least.  It exceeds the
\* whole only by what it counts above its total, and never by more than the
\* decided reviews exceed that total.
OvershootIsOvercount ==
    \A c \in DOMAIN cache.counts :
        LET served == SumFunction(Shares(cache.counts[c], cache.total))
        IN  /\ served >= Scale
            /\ served = Scale \/ served * cache.total <= Scale * SumFunction(cache.counts[c])
            /\ served * cache.total <= Scale * Cardinality(Decided)

\* Whatever is published between the statements of a computation, the percentages
\* of a column (services/stats.py) add up to no less than 100 and to no more than
\* 100 for every `total` of the reviews decided so far.
THEOREM OvershootHolds == Spec => []OvershootIsOvercount
<1>1. TypeOK /\ FiguresAreModerated => OvershootIsOvercount
  <2> SUFFICES ASSUME TypeOK, FiguresAreModerated, NEW c \in DOMAIN cache.counts
               PROVE  LET served == SumFunction(Shares(cache.counts[c], cache.total))
                      IN  /\ served >= Scale
                          /\ \/ served = Scale
                             \/ served * cache.total <= Scale * SumFunction(cache.counts[c])
                          /\ served * cache.total <= Scale * Cardinality(Decided)
    BY DEF OvershootIsOvercount
  <2> DEFINE counts == cache.counts[c]
             total == cache.total
             served == SumFunction(Shares(counts, total))
             z == SumFunction(counts)
             d == Cardinality(Decided)
  <2>1. Column(counts, NumKinds, total) /\ NumKinds > 0
    BY CachedColumn
  <2>2. /\ served \in Int /\ served >= Scale
        /\ served = Scale \/ served * total <= Scale * z
    <3> HIDE DEF counts, total
    <3> QED BY <2>1, SharesOfOvercount
  <2>3. /\ total \in Nat \ {0} /\ Scale \in Nat \ {0} /\ d \in Nat
        /\ NumKinds \in Nat /\ IsFiniteSet(1..NumKinds)
        /\ counts \in [1..NumKinds -> Nat]
    <3>1. Decided \subseteq Reviews
      BY DEF Decided
    <3>2. d \in Nat
      BY <3>1, CountIsBounded
    <3> QED BY <2>1, <3>2, ScaleAssumption, StatsAssumption, Buckets DEF Column
  <2>4. Moderated(cache.total, cache.counts)
    <3>1. cache.counts # <<>>
      OBVIOUS
    <3> QED BY <3>1 DEF FiguresAreModerated
  <2>5. total <= d
    BY <2>4 DEF Moderated
  <2>6. z <= d /\ z \in Int
    <3> DEFINE S == Sorted(Decided, c)
    <3>1. Decided \in SUBSET Reviews
      BY DEF Decided
    <3>2. c \in Columns
      <4>1. cache \in Stored /\ Len(cache.counts) \in {0, NumColumns}
        BY DEF TypeOK, Stored, NoEntry
      <4>2. cache.counts \in Seq(Counts) /\ NumColumns \in Nat
        BY <4>1, StatsAssumption DEF Stored
      <4> QED BY <4>1, <4>2 DEF Columns
    <3>3. S \in [1..NumKinds -> Nat]
      BY <3>1, SortedTyped
    <3>4. \A k \in 1..NumKinds : counts[k] <= S[k]
      BY <2>4 DEF Moderated, Sorted
    <3>5. SumFunction(S) = d
      BY <3>1, <3>2, SortedAddUp
    <3> HIDE DEF S, counts, d
    <3>6. S \in [1..NumKinds -> Int] /\ counts \in [1..NumKinds -> Int]
      BY <2>3, <3>3
    <3>7. SumFunction(counts) <= SumFunction(S) /\ SumFunction(counts) \in Int
      BY <2>3, <3>4, <3>6, SumGrows, SumInt
    <3> QED BY <3>5, <3>7
  <2> HIDE DEF counts, total, served, z, d
  <2>7. served * total <= Scale * d
    <3>1. CASE served = Scale
      BY ONLY <2>3, <2>5, <3>1
    <3>2. CASE served * total <= Scale * z
      <4>1. Scale * z <= Scale * d /\ Scale * z \in Int /\ Scale * d \in Int
        BY ONLY <2>3, <2>6
      <4>2. served * total \in Int
        BY ONLY <2>2, <2>3
      <4> QED BY ONLY <3>2, <4>1, <4>2
    <3> QED BY <2>2, <3>1, <3>2
  <2> QED BY <2>2, <2>7 DEF counts, total, served, z, d
<1> QED BY <1>1, TypeCorrect, FiguresHold, PTL

-----------------------------------------------------------------------------
(***************************************************************************)
(* Why stale figures die out: once the entry and every request under way,  *)
(* about to say that the reviews are too few or counting columns, agree    *)
(* with the reviews, only a decision can make them disagree.  That the     *)
(* state is reached is a matter of fairness, and TLC's.                    *)
(***************************************************************************)
UpToDate(n, counts) ==
    /\ MinReviews <= n /\ n = PublishedTotal
    /\ \A c \in DOMAIN counts : counts[c] = GroupedCounts(c)

TooFew(n) == n = PublishedTotal /\ n < MinReviews

\* What a request holds in hand agrees with the reviews.
Agrees(row) ==
    /\ row.at = "counting" => UpToDate(row.total, row.counts)
    /\ row.at = "insufficient" => TooFew(row.total)

Settled == Exact /\ \A r \in Readers : Agrees(reader[r])

LEMMA SameReviewsSameFigures ==
  ASSUME status' = status
  PROVE  /\ PublishedTotal' = PublishedTotal
         /\ \A c : GroupedCounts(c)' = GroupedCounts(c)
         /\ \A n, counts : UpToDate(n, counts)' <=> UpToDate(n, counts)
         /\ \A n : TooFew(n)' <=> TooFew(n)
         /\ \A row : Agrees(row)' <=> Agrees(row)
BY DEF PublishedTotal, GroupedCounts, Counted, UpToDate, TooFew, Agrees

LEMMA SettledStep ==
  ASSUME TypeOK, Settled, [Next]_vars, status' = status
  PROVE  Settled'
<1> USE SameReviewsSameFigures
<1>0. \A r \in Readers : reader[r] \in Rows
  BY DEF TypeOK, Rows
<1>1. ASSUME reader' = reader, Exact' PROVE Settled'
  BY <1>1 DEF Settled, Agrees, UpToDate, TooFew
<1>2. ASSUME NEW r \in Readers, NEW x, reader' = [reader EXCEPT ![r] = x], Exact', Agrees(x)
      PROVE  Settled'
  <2>1. ASSUME NEW q \in Readers PROVE Agrees(reader'[q])
    <3>1. CASE q = r
      BY <1>2, <3>1 DEF TypeOK
    <3>2. CASE q # r
      <4>1. reader'[q] = reader[q]
        BY <1>2, <3>2 DEF TypeOK
      <4> QED BY <4>1 DEF Settled
    <3> QED BY <3>1, <3>2
  <2> QED BY <1>2, <2>1 DEF Settled, Agrees, UpToDate, TooFew
<1>3. cache' = cache => Exact'
  BY DEF Settled, Exact, Usable
<1>4. CASE Moderate
  BY <1>1, <1>3, <1>4 DEF Moderate
<1>5. CASE Tick
  <2>1. cache \in Stored /\ cache' = [cache EXCEPT !.age = cache.age + 1]
    BY <1>5 DEF Tick, TypeOK, Stored
  <2>2. cache'.total = cache.total /\ cache'.counts = cache.counts
    BY <2>1 DEF Stored
  <2>3. Usable
    BY <1>5 DEF Tick, Usable
  <2>4. Exact'
    BY <2>2, <2>3 DEF Settled, Exact
  <2> QED BY <1>1, <1>5, <2>4 DEF Tick
<1>6. ASSUME NEW r \in Readers, Miss(r) PROVE Settled'
  <2>1. Exact'
    BY <1>6 DEF Miss, Exact, Usable
  <2>2. Agrees([Idle EXCEPT !.at = "missed"])
    BY DEF Idle, Agrees
  <2> QED BY <1>2, <1>6, <2>1, <2>2 DEF Miss
<1>7. ASSUME NEW r \in Readers, AnswerInsufficient(r) PROVE Settled'
  <2>1. TooFew(reader[r].total)
    BY <1>7 DEF AnswerInsufficient, Settled, Agrees
  <2>2. Exact'
    BY <1>7, <2>1 DEF AnswerInsufficient, Set, Exact, TooFew
  <2>3. Agrees(Idle)
    BY DEF Idle, Agrees
  <2> QED BY <1>2, <1>7, <2>2, <2>3 DEF AnswerInsufficient
<1>8. ASSUME NEW r \in Readers, CountTotal(r) PROVE Settled'
  <2> DEFINE x == [at |-> IF PublishedTotal < MinReviews THEN "insufficient" ELSE "counting",
                   total |-> PublishedTotal, counts |-> <<>>]
  <2>1. Agrees(x)
    <3>1. PublishedTotal \in Nat /\ MinReviews \in Nat
      BY TotalIsBounded, CountIsBounded, StatsAssumption
    <3>2. CASE PublishedTotal < MinReviews
      BY <3>2 DEF Agrees, TooFew
    <3>3. CASE ~(PublishedTotal < MinReviews)
      BY <3>1, <3>3 DEF Agrees, UpToDate
    <3> QED BY <3>2, <3>3
  <2>2. reader' = [reader EXCEPT ![r] = x] /\ cache' = cache
    BY <1>8 DEF CountTotal
  <2> HIDE DEF x
  <2> QED BY <1>2, <1>3, <2>1, <2>2
<1>9. ASSUME NEW r \in Readers, CountColumn(r) PROVE Settled'
  <2> DEFINE s == reader[r].counts
             g == GroupedCounts(Len(s) + 1)
             x == [at |-> "counting", total |-> reader[r].total, counts |-> Append(s, g)]
  <2>1. /\ s \in Seq(Counts) /\ g \in Counts
        /\ UpToDate(reader[r].total, s)
    <3>1. s \in Seq(Counts)
      BY <1>0 DEF Rows
    <3> QED BY <1>9, <3>1, GroupedIsCounts DEF CountColumn, Settled, Agrees
  <2>2. UpToDate(reader[r].total, Append(s, g))
    <3>1. ASSUME NEW c \in DOMAIN Append(s, g) PROVE Append(s, g)[c] = GroupedCounts(c)
      <4> DEFINE n == Len(s)
      <4>1. n \in Nat /\ DOMAIN s = 1..n
        BY <2>1
      <4>2. DOMAIN Append(s, g) = 1..(n + 1) /\ Append(s, g)[n + 1] = g
            /\ \A k \in 1..n : Append(s, g)[k] = s[k]
        <5> HIDE DEF g, s
        <5> QED BY <2>1
      <4>3. CASE c = n + 1
        BY <4>2, <4>3
      <4>4. CASE c # n + 1
        <5>1. c \in 1..n
          BY <4>1, <4>2, <4>4
        <5> QED BY <2>1, <4>1, <4>2, <5>1 DEF UpToDate
      <4> QED BY <4>3, <4>4
    <3> QED BY <2>1, <3>1 DEF UpToDate
  <2>3. reader' = [reader EXCEPT ![r] = x] /\ cache' = cache
    BY <1>9 DEF CountColumn
  <2>4. Agrees(x)
    BY <2>2 DEF Agrees
  <2> HIDE DEF x
  <2> QED BY <1>2, <1>3, <2>3, <2>4
<1>10. ASSUME NEW r \in Readers, Store(r) PROVE Settled'
  <2> DEFINE s == reader[r].counts
  <2>1. s \in Seq(Counts) /\ Len(s) = NumColumns /\ UpToDate(reader[r].total, s)
    BY <1>0, <1>10 DEF Store, Complete, Settled, Agrees, Rows
  <2>2. s = [c \in Columns |-> GroupedCounts(c)]
    <3>1. DOMAIN s = Columns /\ s = [c \in DOMAIN s |-> s[c]]
      BY <2>1, StatsAssumption DEF Columns
    <3> QED BY <2>1, <3>1 DEF UpToDate
  <2>3. ~(PublishedTotal < MinReviews)
    BY <2>1, TotalIsBounded, CountIsBounded, StatsAssumption DEF UpToDate
  <2>4. cache'.total = PublishedTotal /\ cache'.counts = s
    BY <1>10, <2>1 DEF Store, Set, UpToDate
  <2>5. Exact'
    BY <2>2, <2>3, <2>4 DEF Exact
  <2>6. Agrees(Idle)
    BY DEF Idle, Agrees
  <2> QED BY <1>2, <1>10, <2>5, <2>6 DEF Store
<1>11. ASSUME NEW r \in Readers, Fail(r) PROVE Settled'
  <2>1. Agrees(Idle)
    BY DEF Idle, Agrees
  <2> QED BY <1>2, <1>3, <1>11, <2>1 DEF Fail
<1>12. CASE UNCHANGED vars
  BY <1>1, <1>3, <1>12 DEF vars
<1> QED BY <1>4, <1>5, <1>6, <1>7, <1>8, <1>9, <1>10, <1>11, <1>12 DEF Next, Advance

\* From the moment the entry and what every request under way has counted agree
\* with the reviews, and for as long as no review changes, the cache serves exact
\* figures: no slow computation, no late answer that the reviews are too few and
\* no expiry can make it stale again.
THEOREM ExactWhileSettled == Spec => [](Settled /\ [][FALSE]_status => []Exact)
<1>1. TypeOK /\ Settled /\ [Next]_vars /\ [FALSE]_status => Settled'
  BY SettledStep
<1>2. Settled => Exact
  BY DEF Settled
<1> QED BY <1>1, <1>2, TypeCorrect, PTL DEF Spec

-----------------------------------------------------------------------------
(***************************************************************************)
(* The leftover units never turn the order of two buckets round.           *)
(***************************************************************************)
LEMMA PlacesFollowFractions ==
  ASSUME NEW counts, NEW n, NEW total, Column(counts, n, total),
         NEW j \in 1..n, NEW k \in 1..n,
         Fraction(counts[j], total) > Fraction(counts[k], total)
  PROVE  Place(counts, total, j) < Place(counts, total, k)
<1> DEFINE D == 1..n
<1>1. /\ n \in Nat /\ total \in Nat \ {0} /\ counts \in [1..n -> Nat] /\ DOMAIN counts = D
  BY DEF Column
<1>2. ASSUME NEW i \in D PROVE Fraction(counts[i], total) \in Int
  <2>1. counts[i] \in Nat
    BY <1>1
  <2> QED BY <1>1, <2>1, QuotaAndFraction
<1>3. Front(counts, total, j) \in SUBSET Front(counts, total, k)
  BY <1>1, <1>2 DEF Front, Precedes
<1>4. IsFiniteSet(Front(counts, total, k))
  <2>1. Front(counts, total, k) \subseteq D
    BY <1>1 DEF Front
  <2> QED BY <1>1, <2>1, Buckets, FS_Subset
<1>5. Cardinality(Front(counts, total, j)) <= Cardinality(Front(counts, total, k))
  BY <1>3, <1>4, FS_Subset
<1>6. j # k
  BY <1>2
<1>7. /\ Place(counts, total, j) # Place(counts, total, k)
      /\ Place(counts, total, j) \in 0..(n - 1) /\ Place(counts, total, k) \in 0..(n - 1)
  BY <1>6, PlacesDiffer
<1> QED BY <1>1, <1>5, <1>7, PlaceIsFront

\* Two buckets get the same number of leftover units, or the one in front gets
\* one more.
LEMMA ExtrasFollowPlaces ==
  ASSUME NEW counts, NEW n, NEW total, Column(counts, n, total),
         NEW j \in 1..n, NEW k \in 1..n
  PROVE  LET x == Extra(counts, total, j)
             y == Extra(counts, total, k)
         IN  /\ x \in Int /\ y \in Int /\ y <= x + 1
             /\ Place(counts, total, j) < Place(counts, total, k) => y <= x
<1> DEFINE left == Leftover(counts, total)
           x == Extra(counts, total, j)
           y == Extra(counts, total, k)
           p == Place(counts, total, j)
           q == Place(counts, total, k)
<1>1. left \in Int /\ n \in Nat \ {0} /\ p \in 0..(n - 1) /\ q \in 0..(n - 1)
  <2>1. n \in Nat \ {0}
    BY DEF Column
  <2> QED BY <2>1, QuotasAndFractions, PlacesDiffer
<1>2. CASE left >= 0
  <2> DEFINE a == left \div n
             b == left % n
  <2>1. x = a + (IF p < b THEN 1 ELSE 0) /\ y = a + (IF q < b THEN 1 ELSE 0)
    BY <1>2, ExtraInRounds
  <2>2. a \in Nat /\ b \in 0..(n - 1)
    <3>1. left \in Nat
      BY <1>1, <1>2
    <3> HIDE DEF left
    <3> QED BY <1>1, <3>1, Division
  <2> HIDE DEF x, y, a, b, p, q, left
  <2>3. /\ x \in Int /\ y \in Int /\ y <= x + 1 /\ (p < q => y <= x)
    BY <1>1, <2>1, <2>2
  <2> QED BY <2>3 DEF x, y, p, q
<1>3. CASE ~(left >= 0)
  <2>1. left <= 0
    BY <1>1, <1>3
  <2>2. x = 0 /\ y = 0
    BY <2>1 DEF Extra
  <2> QED BY <2>2
<1> QED BY <1>2, <1>3

\* A bucket with the larger count never gets the smaller percentage, and equal
\* counts get percentages a tenth apart at most, whatever total they are set
\* against (core/percentages.py).
THEOREM LargestRemainderKeepsOrder ==
  ASSUME NEW counts, NEW n, NEW total, Column(counts, n, total),
         NEW j \in 1..n, NEW k \in 1..n
  PROVE  LET h == Shares(counts, total)
         IN  /\ counts[j] > counts[k] => h[j] >= h[k]
             /\ counts[j] = counts[k] => h[j] + 1 >= h[k]
<1> DEFINE h == Shares(counts, total)
           c == counts[j]
           d == counts[k]
           x == Quota(c, total)
           y == Quota(d, total)
           f == Fraction(c, total)
           g == Fraction(d, total)
           u == Extra(counts, total, j)
           v == Extra(counts, total, k)
<1> SUFFICES /\ c > d => h[j] >= h[k]
             /\ c = d => h[j] + 1 >= h[k]
  OBVIOUS
<1>1. /\ n \in Nat /\ total \in Nat \ {0} /\ counts \in [1..n -> Nat]
      /\ DOMAIN counts = 1..n /\ c \in Nat /\ d \in Nat /\ Scale \in Nat \ {0}
  BY ScaleAssumption DEF Column
<1>2. h[j] = x + u /\ h[k] = y + v
  <2>1. ~(total <= 0)
    BY <1>1
  <2> QED BY <1>1, <2>1 DEF Shares
<1>3. /\ x \in Nat /\ f \in 0..(total - 1) /\ total * x + f = c * Scale
      /\ y \in Nat /\ g \in 0..(total - 1) /\ total * y + g = d * Scale
  <2> HIDE DEF c, d
  <2> QED BY <1>1, QuotaAndFraction
<1>4. u \in Int /\ v \in Int /\ v <= u + 1
  BY ExtrasFollowPlaces
<1>5. f > g => v <= u
  BY PlacesFollowFractions, ExtrasFollowPlaces
<1> HIDE DEF h
<1>6. CASE c = d
  <2>1. x = y
    BY <1>6
  <2> HIDE DEF c, d, x, y, u, v
  <2>2. h[j] + 1 >= h[k]
    BY ONLY <1>2, <1>3, <1>4, <2>1
  <2> QED BY ONLY <1>1, <1>6, <2>2
<1>7. CASE c > d
  <2> HIDE DEF c, d, x, y, f, g, u, v
  <2>1. c * Scale > d * Scale /\ c * Scale \in Int /\ d * Scale \in Int
    BY ONLY <1>1, <1>7
  <2>2. total * x \in Int /\ total * y \in Int
    BY ONLY <1>1, <1>3
  <2>3. CASE x >= y + 1
    <3>1. x + u >= y + v
      BY ONLY <1>3, <1>4, <2>3
    <3> QED BY ONLY <1>1, <1>2, <1>7, <3>1
  <2>4. CASE x = y
    <3>1. f > g
      BY ONLY <1>1, <1>3, <2>1, <2>2, <2>4
    <3>2. x + u >= y + v
      BY ONLY <1>3, <1>4, <1>5, <2>4, <3>1
    <3> QED BY ONLY <1>1, <1>2, <1>7, <3>2
  <2>5. ~(y >= x + 1)
    <3> SUFFICES ASSUME y >= x + 1 PROVE FALSE
      OBVIOUS
    <3>1. total * y >= total * x + total
      BY ONLY <1>1, <1>3, y >= x + 1
    <3> QED BY ONLY <1>1, <1>3, <2>1, <2>2, <3>1
  <2> QED BY ONLY <1>3, <2>3, <2>4, <2>5
<1> HIDE DEF c, d
<1> QED BY ONLY <1>1, <1>6, <1>7

\* The percentages of a cached column are in the order of its counts.
OrderIsServed ==
    \A c \in DOMAIN cache.counts : \A j, k \in 1..NumKinds :
        cache.counts[c][j] > cache.counts[c][k] =>
            Shares(cache.counts[c], cache.total)[j] >= Shares(cache.counts[c], cache.total)[k]

\* Even where the column and the total were counted at different times, a reason
\* that more reviewers gave is never shown with the smaller percentage.
THEOREM OrderIsServedHolds == Spec => []OrderIsServed
<1>1. TypeOK /\ FiguresAreModerated => OrderIsServed
  BY CachedColumn, LargestRemainderKeepsOrder DEF OrderIsServed
<1> QED BY <1>1, TypeCorrect, FiguresHold, PTL

=============================================================================
