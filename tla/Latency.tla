-------------------------------- MODULE Latency --------------------------------
(***************************************************************************)
(* _latency_block of evaluation/run.py: the percentiles of a list of       *)
(* samples.  The list is its sorted form, in a unit small enough that every *)
(* sample is a whole number.  The mean and the deviation are left out.     *)
(***************************************************************************)
EXTENDS Integers, Sequences

\* Python's round() of num / den: to the nearest integer, to the even one of two.
RoundHalfEven(num, den) ==
  LET down == num \div den
      rest == 2 * (num % den)
  IN  IF rest > den \/ (rest = den /\ down % 2 = 1) THEN down + 1 ELSE down

\* Seeded faults: the index is cut off instead of rounded, or counts from the
\* slow end, as for a list sorted the other way round.
FaultIndexTruncated(percent, length) == (percent * (length - 1)) \div 100

FaultIndexDescending(percent, length) ==
  length - 1 - RoundHalfEven(percent * (length - 1), 100)

\* max(0, round(p * (length - 1))), a position counted from 0.
Index(percent, length) ==
  LET i == RoundHalfEven(percent * (length - 1), 100)
  IN  IF i > 0 THEN i ELSE 0

Percentile(percent, ordered) == ordered[Index(percent, Len(ordered)) + 1]

\* statistics.median, doubled: the sum of the two samples in the middle.
TwiceMedian(ordered) ==
  ordered[(Len(ordered) + 1) \div 2] + ordered[(Len(ordered) \div 2) + 1]

=============================================================================
