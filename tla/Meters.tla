------------------------------- MODULE Meters -------------------------------
(***************************************************************************)
(* The share of the prompt that came from the cache, as the client shows   *)
(* it: cacheHitPercent() of bridge/grok-leader/src/projection.ts.  It is   *)
(* computed from quotients and remainders alone, so that token counts do   *)
(* not leave the integers a double holds.                                  *)
(***************************************************************************)
EXTENDS Integers

\* A percentage with decimals: 99.6 is [places |-> 1, value |-> 996].
Percent(places, value) == [places |-> places, value |-> value]

\* A part of a threshold, rounded up.
Ceiling(n) == (n + 199) \div 200

Reaches(hits, all, c) ==
    hits >= (2 * c - 1) * (all \div 200) + Ceiling((2 * c - 1) * (all % 200))
Ranges == [lower : 0..100, upper : 0..100]

\* roundedIntegerPercent(): a binary search for the largest percentage whose
\* rounding the hits reach.
RoundedInteger(hits, all) ==
    LET search[range \in Ranges] ==
            LET middle == (range.lower + range.upper + 1) \div 2
            IN  IF range.lower >= range.upper THEN range.lower
                ELSE IF Reaches(hits, all, middle) THEN search[[range EXCEPT !.lower = middle]]
                ELSE search[[range EXCEPT !.upper = middle - 1]]
    IN  search[[lower |-> 0, upper |-> 100]]

\* What is missing to a full hit, in units of the last decimal.
Covers(loss, gap, all) ==
    gap <= (2 * loss + 1) * (all \div 10) + ((2 * loss + 1) * (all % 10)) \div 10
Loss(gap, all) ==
    LET enough == {loss \in 1..4 : Covers(loss, gap, all)}
    IN  IF enough = {} THEN 5 ELSE CHOOSE loss \in enough : \A l \in enough : loss <= l

\* Twice the share that is missing, in units of a decimal that is tried, and the
\* first decimal in which it shows.
Ten[n \in Nat] == IF n = 0 THEN 1 ELSE 10 * Ten[n - 1]
Scaled(misses, places) == 200 * misses * Ten[places - 1]
Places(misses, all) ==
    LET from[places \in Nat \ {0}] ==
            IF Scaled(misses, places) > all \div 10 THEN places ELSE from[places + 1]
    IN  from[1]

\* cacheHitPercent() of a prompt that is not empty: a ratio below one that would
\* round to 100 gains decimals until it does not.
CacheHitPercent(hits, misses) ==
    LET all == hits + misses
        places == Places(misses, all)
        rounded == RoundedInteger(hits, all)
    IN  CASE misses = 0 -> Percent(0, 100)
          [] misses # 0 /\ rounded < 100 -> Percent(0, rounded)
          [] OTHER -> Percent(places, Ten[places + 2] - Loss(Scaled(misses, places), all))

-----------------------------------------------------------------------------
\* The rational rounding that the algorithm stands for: with so many decimals,
\* ties up, written with what is missing because TLC's integers are small; the
\* fewest decimals with which a share that is not full stays below 100.
Rounded(misses, all, places) ==
    100 * Ten[places] - (200 * misses * Ten[places] + all - 1) \div (2 * all)
ExactFor(misses, all) ==
    LET shown == CacheHitPercent(all - misses, misses)
    IN  /\ shown.value = Rounded(misses, all, shown.places)
        /\ misses # 0 => /\ shown.value < 100 * Ten[shown.places]
                         /\ \A places \in 0..shown.places - 1 :
                                Rounded(misses, all, places) = 100 * Ten[places]
        /\ misses = 0 => shown = Percent(0, 100)
=============================================================================
