------------------------------ MODULE Percentages ------------------------------
(***************************************************************************)
(* distribution_with_percentages of app/core/percentages.py: the shares of *)
(* a distribution by largest remainder, in units of 1/Scale of the whole.  *)
(* counts is a sequence over the buckets in their order of declaration;    *)
(* total is an argument of its own and need not be the sum of counts.  The *)
(* code divides in floating point; the shares here are exact, and the two  *)
(* can differ only in which bucket gets a leftover unit.                   *)
(***************************************************************************)
EXTENDS Integers, Sequences, FiniteSets, Functions

CONSTANT Scale  \* _SCALE: tenths of a percent in the whole, 1000 in the code

ASSUME ScaleAssumption == Scale \in Nat \ {0}

Quota(n, total)    == (n * Scale) \div total
Fraction(n, total) == (n * Scale) % total

Leftover(counts, total) ==
    Scale - SumFunction([k \in DOMAIN counts |-> Quota(counts[k], total)])

\* the place of bucket k in the stable sort by fraction, largest first
Place(counts, total, k) ==
    Cardinality({j \in DOMAIN counts :
        \/ Fraction(counts[j], total) > Fraction(counts[k], total)
        \/ Fraction(counts[j], total) = Fraction(counts[k], total) /\ j < k})

\* Broken variant, for mutation: the leftover units are dropped.
NoExtra(counts, total, k) == 0

\* how many leftover units bucket k gets when they are dealt out in turn
Extra(counts, total, k) ==
    LET left == Leftover(counts, total)
        n    == Len(counts)
    IN  IF left <= 0 THEN 0
        ELSE (left + n - 1 - Place(counts, total, k)) \div n

Shares(counts, total) ==
    IF total <= 0
    THEN [k \in DOMAIN counts |-> 0]
    ELSE [k \in DOMAIN counts |-> Quota(counts[k], total) + Extra(counts, total, k)]

\* What the shares should be: they make up the whole, and each is less than one
\* unit away from the exact proportion.
Fair(shares, counts, total) ==
    /\ SumFunction(shares) = Scale
    /\ \A k \in DOMAIN counts :
        /\ shares[k] * total < counts[k] * Scale + total
        /\ shares[k] * total > counts[k] * Scale - total

=============================================================================
