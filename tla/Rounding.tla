------------------------------ MODULE Rounding ------------------------------
(***************************************************************************)
(* The numbers of Python that the scores go through: the median of a list, *)
(* and round(), which takes a half to the even neighbour.  Rationals are   *)
(* pairs of a numerator and a positive denominator.                        *)
(***************************************************************************)
EXTENDS Integers, Sequences, SequencesExt

\* round(n / d)
RoundHalfEven(n, d) ==
    LET floor == n \div d  rest == 2 * (n % d) IN
    IF rest < d \/ (rest = d /\ floor % 2 = 0) THEN floor ELSE floor + 1

\* sorted(s)[k - 1]: the smallest value that has k elements up to it.
Smallest(s, k) == Min({s[i] : i \in {j \in DOMAIN s : Cardinality({l \in DOMAIN s : s[l] <= s[j]}) >= k}})

\* Twice statistics.median(s), for a sequence that is not empty.
TwiceMedian(s) == Smallest(s, (Len(s) + 1) \div 2) + Smallest(s, Len(s) \div 2 + 1)

\* round(median(s))
RoundedMedian(s) == RoundHalfEven(TwiceMedian(s), 2)
=============================================================================
