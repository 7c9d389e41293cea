-------------------------- MODULE StatisticsProofs --------------------------
(***************************************************************************)
(* Proofs about the statistics of the campaign, for inputs of any size:    *)
(* what the rounded index of a percentile does as the list grows, and what *)
(* that does to the sample it picks; and what the p-value of a table       *)
(* counts, and how it moves as the table fills.                            *)
(***************************************************************************)
EXTENDS StatisticsWalk, FisherProofs

-----------------------------------------------------------------------------
(* The rounded index                                                         *)

\* Rounding is off by half a unit at most.
LEMMA RoundNear ==
  ASSUME NEW a \in Nat
  PROVE  /\ RoundHalfEven(a, 100) \in Nat
         /\ 100 * RoundHalfEven(a, 100) <= a + 50
         /\ 100 * RoundHalfEven(a, 100) >= a - 50
BY DEF RoundHalfEven

\* A step of less than a unit moves the rounded value by one at most, and never back.
LEMMA RoundSteps ==
  ASSUME NEW a \in Nat, NEW p \in {95, 99}
  PROVE  /\ RoundHalfEven(a, 100) <= RoundHalfEven(a + p, 100)
         /\ RoundHalfEven(a + p, 100) <= RoundHalfEven(a, 100) + 1
BY DEF RoundHalfEven

LEMMA IndexFacts ==
  ASSUME NEW p \in {95, 99}, NEW n \in Nat \ {0}
  PROVE  /\ Index(p, n) \in 0..(n - 1)
         /\ 100 * Index(p, n) <= p * (n - 1) + 50
         /\ 100 * Index(p, n) >= p * (n - 1) - 50
         /\ Index(p, n + 1) = Index(p, n) \/ Index(p, n + 1) = Index(p, n) + 1
         /\ n \div 2 <= Index(p, n)
<1> DEFINE a == p * (n - 1)
           x == RoundHalfEven(a, 100)
<1>1. a \in Nat /\ p * n = a + p /\ n + 1 - 1 = n
  OBVIOUS
<1>2. x \in Nat /\ 100 * x <= a + 50 /\ 100 * x >= a - 50
  BY <1>1, RoundNear
<1>3. RoundHalfEven(a + p, 100) = x \/ RoundHalfEven(a + p, 100) = x + 1
  <2>1. RoundHalfEven(a + p, 100) \in Nat
    BY <1>1, RoundNear
  <2> QED
    BY <1>1, <1>2, <2>1, RoundSteps
<1>4. Index(p, n) = x /\ Index(p, n + 1) = RoundHalfEven(a + p, 100)
  BY <1>1, <1>2, <1>3 DEF Index
<1>5. x <= n - 1
  BY <1>2
<1>6. n \div 2 <= x
  BY <1>2
<1> QED
  BY <1>2, <1>3, <1>4, <1>5, <1>6

-----------------------------------------------------------------------------
(* The list                                                                  *)

Sorted(list) == \A i, j \in DOMAIN list : i <= j => list[i] <= list[j]

ListInv == samples \in Seq(Nat) /\ Sorted(samples)

\* Where a sample goes, and what stays on either side of it.
Inserted(at, s) ==
  /\ at \in DOMAIN samples'
  /\ samples' \in Seq(Nat) /\ Len(samples') = Len(samples) + 1
  /\ \A i \in DOMAIN samples' :
       i < at => i \in DOMAIN samples /\ samples'[i] = samples[i] /\ samples[i] <= s
  /\ samples'[at] = s
  /\ \A i \in DOMAIN samples' :
       i > at => /\ i - 1 \in DOMAIN samples /\ samples'[i] = samples[i - 1]
                 /\ s < samples[i - 1]

LEMMA ListFacts ==
  ASSUME ListInv
  PROVE  /\ Len(samples) \in Nat /\ DOMAIN samples = 1..Len(samples)
         /\ \A i \in DOMAIN samples : samples[i] \in Nat
BY DEF ListInv

LEMMA SampleFacts ==
  ASSUME ListInv, NEW s \in 1..MaxSample, Sample(s)
  PROVE  \E at \in Nat : Inserted(at, s)
<1>1. /\ Len(samples) \in Nat /\ DOMAIN samples = 1..Len(samples) /\ s \in Nat
      /\ \A i \in DOMAIN samples : samples[i] \in Nat
  BY ListFacts, StatisticsAssumption
<1>2. PICK at \in 1..(Len(samples) + 1) :
        /\ \A i \in DOMAIN samples : i < at <=> samples[i] <= s
        /\ samples' = InsertAt(at, s)
  BY DEF Sample
<1>3. \A i \in 1..(Len(samples) + 1) :
        /\ i < at => i \in DOMAIN samples /\ samples'[i] = samples[i]
        /\ i = at => samples'[i] = s
        /\ i > at => i - 1 \in DOMAIN samples /\ samples'[i] = samples[i - 1]
  BY <1>1, <1>2 DEF InsertAt
<1>4. samples' \in [1..(Len(samples) + 1) -> Nat]
  <2>1. \A i \in 1..(Len(samples) + 1) : samples'[i] \in Nat
    BY <1>1, <1>3
  <2>2. samples' = [i \in 1..(Len(samples) + 1) |-> samples'[i]]
    BY <1>2 DEF InsertAt
  <2> QED
    BY <2>1, <2>2
<1>5. /\ samples' \in Seq(Nat) /\ Len(samples') = Len(samples) + 1
      /\ DOMAIN samples' = 1..(Len(samples) + 1)
  BY <1>1, <1>4
<1>6. ASSUME NEW i \in DOMAIN samples', i > at
      PROVE  s < samples[i - 1]
  <2>1. i - 1 \in DOMAIN samples /\ ~(i - 1 < at)
    BY <1>3, <1>5, <1>6
  <2> QED
    BY <1>1, <1>2, <2>1
<1> QED
  BY <1>2, <1>3, <1>5, <1>6 DEF Inserted

LEMMA ListInvSample ==
  ASSUME ListInv, NEW s \in 1..MaxSample, Sample(s)
  PROVE  ListInv'
<1>1. PICK at \in Nat : Inserted(at, s)
  BY SampleFacts
<1>2. /\ \A i \in DOMAIN samples : samples[i] \in Nat
      /\ s \in Nat /\ DOMAIN samples \subseteq Nat /\ DOMAIN samples' \subseteq Nat
  BY <1>1, ListFacts, StatisticsAssumption DEF Inserted
<1>3. ASSUME NEW i \in DOMAIN samples', NEW j \in DOMAIN samples', i <= j
      PROVE  samples'[i] <= samples'[j]
  <2>1. CASE j < at
    <3>1. /\ i \in DOMAIN samples /\ samples'[i] = samples[i]
          /\ j \in DOMAIN samples /\ samples'[j] = samples[j]
      BY <1>1, <1>2, <1>3, <2>1 DEF Inserted
    <3> QED
      BY <1>3, <3>1 DEF ListInv, Sorted
  <2>2. CASE j = at
    <3>1. samples'[j] = s
      BY <1>1, <2>2 DEF Inserted
    <3>2. i < at => samples'[i] = samples[i] /\ samples[i] <= s
      BY <1>1 DEF Inserted
    <3> QED
      BY <1>2, <1>3, <2>2, <3>1, <3>2
  <2>3. CASE j > at
    <3>1. j - 1 \in DOMAIN samples /\ samples'[j] = samples[j - 1] /\ s < samples[j - 1]
      BY <1>1, <2>3 DEF Inserted
    <3>2. CASE i < at
      <4>1. i \in DOMAIN samples /\ samples'[i] = samples[i] /\ samples[i] <= s
        BY <1>1, <3>2 DEF Inserted
      <4> QED
        BY <1>2, <3>1, <4>1
    <3>3. CASE i = at
      <4>1. samples'[i] = s
        BY <1>1, <3>3 DEF Inserted
      <4> QED
        BY <1>2, <3>1, <4>1
    <3>4. CASE i > at
      <4>1. i - 1 \in DOMAIN samples /\ samples'[i] = samples[i - 1] /\ i - 1 <= j - 1
        BY <1>1, <1>2, <1>3, <3>4 DEF Inserted
      <4> QED
        BY <3>1, <4>1 DEF ListInv, Sorted
    <3> QED
      BY <1>1, <1>2, <3>2, <3>3, <3>4
  <2> QED
    BY <1>1, <1>2, <2>1, <2>2, <2>3
<1> QED
  BY <1>1, <1>3 DEF ListInv, Sorted, Inserted

LEMMA ListInvariant == Spec => []ListInv
<1>1. Init => ListInv
  BY DEF Init, ListInv, Sorted
<1>2. ListInv /\ [Next]_<<cells, samples, latest>> => ListInv'
  <2> SUFFICES ASSUME ListInv, [Next]_<<cells, samples, latest>> PROVE ListInv'
    OBVIOUS
  <2>1. CASE UNCHANGED samples
    BY <2>1 DEF ListInv, Sorted
  <2>2. CASE \E s \in 1..MaxSample : Sample(s)
    BY <2>2, ListInvSample
  <2> QED
    BY <2>1, <2>2 DEF Next
<1> QED
  BY <1>1, <1>2, PTL DEF Spec

-----------------------------------------------------------------------------
(* The tail                                                                  *)

LEMMA SortedTail == ASSUME ListInv PROVE TailBounded
<1> SUFFICES ASSUME samples # <<>>, NEW percent \in {95, 99}
             PROVE  LET p == Percentile(percent, samples)
                        others == (100 - percent) * (Len(samples) - 1)
                        above == {i \in DOMAIN samples : samples[i] > p}
                        reached == {i \in DOMAIN samples : samples[i] >= p}
                    IN  /\ 100 * Cardinality(above) <= others + 50
                        /\ 100 * Cardinality(reached) >= others + 50
  BY DEF TailBounded
<1> DEFINE n == Len(samples)
           k == Index(percent, n)
           p == Percentile(percent, samples)
           above == {i \in DOMAIN samples : samples[i] > p}
           reached == {i \in DOMAIN samples : samples[i] >= p}
<1>1. /\ n \in Nat \ {0} /\ DOMAIN samples = 1..n
      /\ \A i \in 1..n : samples[i] \in Nat
  BY DEF ListInv
<1>2. /\ k \in 0..(n - 1) /\ p = samples[k + 1]
      /\ 100 * k <= percent * (n - 1) + 50 /\ 100 * k >= percent * (n - 1) - 50
  BY <1>1, IndexFacts DEF Percentile
<1> HIDE DEF n, k, p
<1>3. above \subseteq (k + 2)..n
  <2> SUFFICES ASSUME NEW i \in 1..n, samples[i] > p, i <= k + 1 PROVE FALSE
    BY <1>1, <1>2
  <2>1. samples[i] <= samples[k + 1]
    BY <1>1, <1>2 DEF ListInv, Sorted
  <2> QED
    BY <1>1, <1>2, <2>1
<1>4. (k + 1)..n \subseteq reached
  <2> SUFFICES ASSUME NEW i \in (k + 1)..n PROVE samples[i] >= p /\ i \in 1..n
    BY <1>1
  <2>1. i \in 1..n /\ k + 1 \in 1..n
    BY <1>1, <1>2
  <2>2. samples[k + 1] <= samples[i]
    BY <1>1, <2>1 DEF ListInv, Sorted
  <2> QED
    BY <1>1, <1>2, <2>1, <2>2
<1>5. /\ IsFiniteSet((k + 2)..n) /\ Cardinality((k + 2)..n) = n - k - 1
      /\ IsFiniteSet((k + 1)..n) /\ Cardinality((k + 1)..n) = n - k
      /\ IsFiniteSet(1..n)
  BY <1>1, <1>2, FS_Interval
<1>6. IsFiniteSet(above) /\ IsFiniteSet(reached)
  BY <1>1, <1>5, FS_Subset
<1>7. /\ Cardinality(above) \in Nat /\ Cardinality(above) <= n - k - 1
      /\ Cardinality(reached) \in Nat /\ Cardinality(reached) >= n - k
  <2> HIDE DEF above, reached
  <2>1. /\ Cardinality(above) <= Cardinality((k + 2)..n)
        /\ Cardinality((k + 1)..n) <= Cardinality(reached)
    BY <1>3, <1>4, <1>5, <1>6, FS_Subset
  <2>2. Cardinality(above) \in Nat /\ Cardinality(reached) \in Nat
    BY <1>6, FS_CardinalityType
  <2> QED
    BY <1>5, <2>1, <2>2
<1>8. /\ 100 * Cardinality(above) <= (100 - percent) * (n - 1) + 50
      /\ 100 * Cardinality(reached) >= (100 - percent) * (n - 1) + 50
  <2> HIDE DEF above, reached
  <2> QED
    BY <1>1, <1>2, <1>7
<1> QED
  BY <1>8 DEF n, p

\* The rounded index leaves p95 and p99 the tail they should have, half a sample aside.
THEOREM TailsBounded == Spec => []TailBounded
<1>1. ListInv => TailBounded
  BY SortedTail
<1> QED
  BY <1>1, ListInvariant, PTL

-----------------------------------------------------------------------------
(* The list grows                                                            *)

\* The median is never above p95, and a sample moves a percentile its own way.
THEOREM PercentilesMove == Spec => SamplesMovePercentiles
<1> DEFINE Moved ==
             samples # <<>> =>
               /\ TwiceMedian(samples) <= 2 * Percentile(95, samples)
               /\ \A percent \in {95, 99} :
                    LET before == Percentile(percent, samples)
                        after == Percentile(percent, samples')
                    IN  /\ latest' >= before => after >= before
                        /\ latest' <= before => after <= before
<1>1. ASSUME ListInv, samples # <<>>
      PROVE  TwiceMedian(samples) <= 2 * Percentile(95, samples)
  <2> DEFINE n == Len(samples)
             k == Index(95, n)
  <2>1. /\ n \in Nat \ {0} /\ DOMAIN samples = 1..n
        /\ \A i \in 1..n : samples[i] \in Nat
    BY <1>1 DEF ListInv
  <2>2. k \in 0..(n - 1) /\ n \div 2 <= k
    BY <2>1, IndexFacts
  <2> HIDE DEF k
  <2>3. /\ (n + 1) \div 2 \in 1..n /\ (n \div 2) + 1 \in 1..n /\ k + 1 \in 1..n
        /\ (n + 1) \div 2 <= k + 1 /\ (n \div 2) + 1 <= k + 1
    BY <2>1, <2>2
  <2>4. /\ samples[(n + 1) \div 2] <= samples[k + 1]
        /\ samples[(n \div 2) + 1] <= samples[k + 1]
    BY <1>1, <2>1, <2>3 DEF ListInv, Sorted
  <2>5. /\ samples[(n + 1) \div 2] \in Nat /\ samples[(n \div 2) + 1] \in Nat
        /\ samples[k + 1] \in Nat
    BY <2>1, <2>3
  <2>6. samples[(n + 1) \div 2] + samples[(n \div 2) + 1] <= 2 * samples[k + 1]
    BY <2>4, <2>5
  <2> QED
    BY <2>6 DEF TwiceMedian, Percentile, k
<1>2. ASSUME ListInv, samples # <<>>, NEW s \in 1..MaxSample, Sample(s),
             NEW percent \in {95, 99}
      PROVE  LET before == Percentile(percent, samples)
                 after == Percentile(percent, samples')
             IN  /\ s >= before => after >= before
                 /\ s <= before => after <= before
  <2> DEFINE n == Len(samples)
             k == Index(percent, n)
             j == Index(percent, n + 1)
             before == Percentile(percent, samples)
             after == Percentile(percent, samples')
  <2>1. PICK at \in Nat : Inserted(at, s)
    BY <1>2, SampleFacts
  <2>2. /\ n \in Nat \ {0} /\ DOMAIN samples = 1..n /\ s \in Nat
        /\ \A i \in 1..n : samples[i] \in Nat
    BY <1>2, ListFacts, StatisticsAssumption DEF ListInv
  <2>3. /\ samples' \in Seq(Nat) /\ Len(samples') = n + 1 /\ DOMAIN samples' = 1..(n + 1)
        /\ \A i \in 1..(n + 1) : samples'[i] \in Nat
    BY <2>1, <2>2 DEF Inserted
  <2>4. k \in 0..(n - 1) /\ (j = k \/ j = k + 1)
    BY <2>2, IndexFacts
  <2>5. before = samples[k + 1] /\ after = samples'[j + 1]
    BY <2>3 DEF Percentile
  <2>6. Sorted(samples')
    BY <1>2, ListInvSample DEF ListInv
  <2> HIDE DEF n, k, j, before, after
  <2>7. /\ k + 1 \in 1..n /\ k + 1 \in 1..(n + 1) /\ k + 2 \in 1..(n + 1)
        /\ j + 1 \in 1..(n + 1) /\ k + 1 <= j + 1 /\ j + 1 <= k + 2
    BY <2>2, <2>4
  <2>8. samples'[k + 1] <= samples'[j + 1] /\ samples'[j + 1] <= samples'[k + 2]
    BY <2>3, <2>6, <2>7 DEF Sorted
  <2>9. /\ before \in Nat /\ after \in Nat
        /\ samples'[k + 1] \in Nat /\ samples'[k + 2] \in Nat
    BY <2>2, <2>3, <2>5, <2>7
  <2>10. ASSUME s >= before PROVE samples'[k + 1] >= before
    <3>1. CASE k + 1 < at
      BY <2>1, <2>3, <2>5, <2>7, <2>9, <3>1 DEF Inserted
    <3>2. CASE k + 1 = at
      <4>1. samples'[k + 1] = s
        BY <2>1, <3>2 DEF Inserted
      <4> QED
        BY <2>10, <4>1
    <3>3. CASE k + 1 > at
      <4>1. samples'[k + 1] > s
        BY <2>1, <2>3, <2>7, <3>3 DEF Inserted
      <4> QED
        BY <2>2, <2>9, <2>10, <4>1
    <3> QED
      BY <2>1, <2>7, <3>1, <3>2, <3>3
  <2>11. ASSUME s <= before PROVE samples'[k + 2] <= before
    <3>1. k + 2 - 1 = k + 1 /\ k + 2 \in Nat /\ k + 2 \in DOMAIN samples'
      BY <2>3, <2>7
    <3>2. CASE k + 2 < at
      <4>1. /\ samples'[k + 2] = samples[k + 2] /\ samples[k + 2] <= s
            /\ k + 2 \in DOMAIN samples
        BY <2>1, <3>1, <3>2 DEF Inserted
      <4> QED
        BY <2>2, <2>9, <2>11, <4>1
    <3>3. CASE k + 2 = at
      <4>1. samples'[k + 2] = s
        BY <2>1, <3>3 DEF Inserted
      <4> QED
        BY <2>11, <4>1
    <3>4. CASE k + 2 > at
      <4>1. ASSUME NEW i \in DOMAIN samples', i > at PROVE samples'[i] = samples[i - 1]
        BY <2>1, <4>1 DEF Inserted
      <4>2. samples'[k + 2] = samples[k + 1]
        BY <2>2, <2>4, <3>1, <3>4, <4>1
      <4> QED
        BY <2>5, <2>9, <4>2
    <3> QED
      BY <2>1, <3>1, <3>2, <3>3, <3>4
  <2>12. s >= before => after >= before
    BY <2>5, <2>8, <2>9, <2>10
  <2>13. s <= before => after <= before
    BY <2>5, <2>8, <2>9, <2>11
  <2> QED
    BY <2>12, <2>13 DEF before, after
<1>3. ListInv /\ [Next]_<<cells, samples, latest>> => [Moved]_<<samples, latest>>
  <2> SUFFICES ASSUME ListInv, Next, ~UNCHANGED <<samples, latest>>, samples # <<>>
               PROVE  Moved
    BY DEF cells
  <2>1. PICK s \in 1..MaxSample : Sample(s)
    BY DEF Next
  <2>2. latest' = s
    BY <2>1 DEF Sample
  <2> QED
    BY <1>1, <1>2, <2>1, <2>2
<1> QED
  BY <1>3, ListInvariant, PTL DEF Spec, SamplesMovePercentiles

-----------------------------------------------------------------------------
(* The table                                                                 *)

TableInv == allowedCtrl \in Nat /\ deniedCtrl \in Nat /\ allowedTx \in Nat /\ deniedTx \in Nat

LEMMA TableInvariant == Spec => []TableInv
<1>1. Init => TableInv
  BY DEF Init, TableInv
<1>2. TableInv /\ [Next]_<<cells, samples, latest>> => TableInv'
  BY DEF TableInv, Next, AllowCtrl, DenyCtrl, AllowTx, DenyTx, Sample, cells
<1> QED
  BY <1>1, <1>2, PTL DEF Spec

\* The trials, and those of the treatment.
Trials(a, b, c, d) == 1..(a + b + c + d)
Treatment(c, d) == 1..(c + d)

LEMMA TableCounts == ASSUME TableInv PROVE FisherCounts
<1> DEFINE U == Trials(allowedCtrl, deniedCtrl, allowedTx, deniedTx)
           T == Treatment(allowedTx, deniedTx)
           m == allowedCtrl + allowedTx
           draws == {S \in SUBSET U : Cardinality(S) = m}
           few == {S \in draws : Cardinality(S \cap T) <= allowedTx}
<1>1. P.num = Cardinality(Few(T, allowedTx, m, U)) /\ P.den = Ways(m, U)
  <2>1. /\ IsFiniteSet(U) /\ T \in SUBSET U /\ Cardinality(T) = allowedTx + deniedTx
        /\ Cardinality(U) = allowedCtrl + deniedCtrl + allowedTx + deniedTx
    BY IntervalSize DEF TableInv, Trials, Treatment
  <2> HIDE DEF U, T
  <2> QED
    BY <2>1, FisherIsFew DEF TableInv, P
<1>2. draws = kSubset(m, U)
  BY DEF kSubset
<1>3. few = Few(T, allowedTx, m, U)
  BY <1>2 DEF Few
<1>4. P.den = Cardinality(draws) /\ P.num = Cardinality(few)
  BY <1>1, <1>2, <1>3 DEF Ways
<1> QED
  BY <1>4 DEF FisherCounts, Trials, Treatment

\* The p-value of a full table is the share of the ways of handing out the allowed
\* outcomes in which the treatment has as few of them, however many trials there are.
THEOREM PValuesCount == Spec => []FisherCounts
<1>1. TableInv => FisherCounts
  BY TableCounts
<1> QED
  BY <1>1, TableInvariant, PTL

-----------------------------------------------------------------------------
(* One outcome more                                                          *)

\* Its numerator and its denominator.
Num(a, b, c, d) ==
  Cardinality(Few(Treatment(c, d), c, a + c, Trials(a, b, c, d)))
Den(a, b, c, d) == Ways(a + c, Trials(a, b, c, d))

LEMMA FisherParts ==
  ASSUME NEW a \in Nat, NEW b \in Nat, NEW c \in Nat, NEW d \in Nat
  PROVE  /\ FisherOneSided(a, b, c, d).num = Num(a, b, c, d)
         /\ FisherOneSided(a, b, c, d).den = Den(a, b, c, d)
         /\ Num(a, b, c, d) \in Nat /\ Den(a, b, c, d) \in Nat
<1>1. /\ IsFiniteSet(Trials(a, b, c, d)) /\ Treatment(c, d) \in SUBSET Trials(a, b, c, d)
      /\ Cardinality(Trials(a, b, c, d)) = a + b + c + d
      /\ Cardinality(Treatment(c, d)) = c + d
  BY IntervalSize DEF Trials, Treatment
<1> QED
  BY <1>1, FisherIsFew, FewFinite, WaysNat DEF Num, Den

\* One trial x more, of the control or of the treatment T, besides the trials U.
MoreTrials(a, b, c, d, x, U, T) ==
  /\ IsFiniteSet(U) /\ T \in SUBSET U /\ x \notin U
  /\ Cardinality(U) = a + b + c + d
  /\ IsFiniteSet(U \cup {x}) /\ Cardinality(U \cup {x}) = a + b + c + d + 1
  /\ T \in SUBSET (U \cup {x}) /\ Cardinality(T) = c + d
  /\ T \cup {x} \in SUBSET (U \cup {x}) /\ Cardinality(T \cup {x}) = c + d + 1

LEMMA OneTrialMore ==
  ASSUME NEW a \in Nat, NEW b \in Nat, NEW c \in Nat, NEW d \in Nat
  PROVE  MoreTrials(a, b, c, d, a + b + c + d + 1, Trials(a, b, c, d), Treatment(c, d))
<1> DEFINE x == a + b + c + d + 1
           U == Trials(a, b, c, d)
           T == Treatment(c, d)
<1>1. /\ IsFiniteSet(U) /\ T \in SUBSET U /\ x \notin U /\ x \notin T /\ IsFiniteSet(T)
      /\ Cardinality(U) = a + b + c + d /\ Cardinality(T) = c + d
  BY IntervalSize DEF Trials, Treatment
<1> HIDE DEF x, U, T
<1>2. /\ IsFiniteSet(U \cup {x}) /\ Cardinality(U \cup {x}) = Cardinality(U) + 1
      /\ Cardinality(T \cup {x}) = Cardinality(T) + 1
  BY <1>1, FS_AddElement
<1>3. Cardinality(U \cup {x}) = a + b + c + d + 1 /\ Cardinality(T \cup {x}) = c + d + 1
  BY <1>1, <1>2
<1>4. MoreTrials(a, b, c, d, x, U, T)
  BY <1>1, <1>2, <1>3 DEF MoreTrials
<1> QED
  BY <1>4 DEF x, U, T

\* A trial of the treatment that denies.
LEMMA DenyTxLowers ==
  ASSUME NEW a \in Nat, NEW b \in Nat, NEW c \in Nat, NEW d \in Nat
  PROVE  AtMost(FisherOneSided(a, b, c, d + 1), FisherOneSided(a, b, c, d))
<1> DEFINE U == Trials(a, b, c, d)
           x == a + b + c + d + 1
           W == U \cup {x}
           T == Treatment(c, d)
           V == T \cup {x}
           m == a + c
           F == Cardinality(Few(T, c, m, U))
           D == Ways(m, U)
           G == Cardinality(Few(V, c, m, W))
           E == Ways(m, W)
<1>1. /\ IsFiniteSet(U) /\ T \in SUBSET U /\ x \notin U
      /\ Cardinality(U) = a + b + c + d /\ m \in Nat /\ m <= Cardinality(U) /\ c \in Int
      /\ IsFiniteSet(W) /\ Cardinality(W) = a + b + c + d + 1
      /\ T \in SUBSET W /\ Cardinality(T) = c + d
      /\ V \in SUBSET W /\ Cardinality(V) = c + d + 1
  <2>1. a + c \in Nat /\ a + c <= a + b + c + d /\ c \in Int
    OBVIOUS
  <2>2. MoreTrials(a, b, c, d, x, U, T)
    BY OneTrialMore
  <2> HIDE DEF U, x, T
  <2> QED
    BY <2>1, <2>2 DEF MoreTrials
<1>2. FisherOneSided(a, b, c, d).num = F /\ FisherOneSided(a, b, c, d).den = D
  BY FisherParts DEF Num, Den
<1>3. FisherOneSided(a, b, c, d + 1).num = G /\ FisherOneSided(a, b, c, d + 1).den = E
  <2> DEFINE f == d + 1
  <2>1. f \in Nat /\ Cardinality(W) = a + b + c + f /\ Cardinality(V) = c + f
    BY <1>1
  <2> HIDE DEF U, T, x, W, f, V
  <2>2. /\ FisherOneSided(a, b, c, f).num = Cardinality(Few(V, c, a + c, W))
        /\ FisherOneSided(a, b, c, f).den = Ways(a + c, W)
    BY <1>1, <2>1, FisherIsFew
  <2> QED
    BY <2>1, <2>2 DEF f
<1> SUFFICES G * D <= F * E
  BY <1>2, <1>3 DEF AtMost
<1>4. F \in Nat /\ D \in Nat
  BY <1>1, FewFinite, WaysNat
<1> HIDE DEF U, x, T, m
<1>5. IsFiniteSet(W)
  BY <1>1, FS_AddElement
<1>6. CASE m = 0
  <2>1. F = 1 /\ D = 1 /\ G = 1 /\ E = 1
    BY <1>1, <1>5, <1>6, FewOfNone, WaysOfNone
  <2> QED
    BY <2>1
<1>7. CASE m # 0
  <2> DEFINE k == m - 1
             H == Cardinality(Few(T, c - 1, k, U))
             C == Ways(k, U)
  <2>1. k \in Nat /\ k + 1 = m /\ k <= Cardinality(U) /\ c - 1 \in Int /\ (c - 1) + 1 = c
    <3>1. Cardinality(U) \in Nat
      BY <1>1, FS_CardinalityType
    <3> QED
      BY <1>1, <1>7, <3>1
  <2> HIDE DEF k
  <2>2. H \in Nat /\ C \in Nat
    BY <1>1, FewFinite, WaysNat
  <2>3. G = F + H
    <3>1. Cardinality(Few(T \cup {x}, c, k + 1, U \cup {x})) =
            Cardinality(Few(T, c, k + 1, U)) + Cardinality(Few(T, c - 1, k, U))
      BY <1>1, <2>1, FewInside
    <3> QED
      BY <2>1, <3>1
  <2>4. E = D + C
    BY <1>1, <2>1, WaysSplit
  <2>5. H * D <= F * C
    <3>1. Cardinality(Few(T, c - 1, k, U)) * Ways(k + 1, U)
            <= Cardinality(Few(T, (c - 1) + 1, k + 1, U)) * Ways(k, U)
      BY <1>1, <2>1, FewCommoner
    <3> QED
      BY <2>1, <3>1
  <2> HIDE DEF F, D, G, E, H, C
  <2>6. (F + H) * D = F * D + H * D /\ F * (D + C) = F * D + F * C
    BY <1>4, <2>2
  <2> QED
    BY <1>4, <2>2, <2>3, <2>4, <2>5, <2>6
<1> QED
  BY <1>6, <1>7

\* One of the control that does.
LEMMA DenyCtrlRaises ==
  ASSUME NEW a \in Nat, NEW b \in Nat, NEW c \in Nat, NEW d \in Nat
  PROVE  AtMost(FisherOneSided(a, b, c, d), FisherOneSided(a, b + 1, c, d))
<1> DEFINE U == Trials(a, b, c, d)
           x == a + b + c + d + 1
           W == U \cup {x}
           T == Treatment(c, d)
           m == a + c
           F == Cardinality(Few(T, c, m, U))
           D == Ways(m, U)
           G == Cardinality(Few(T, c, m, W))
           E == Ways(m, W)
<1>1. /\ IsFiniteSet(U) /\ T \in SUBSET U /\ x \notin U
      /\ Cardinality(U) = a + b + c + d /\ m \in Nat /\ m <= Cardinality(U) /\ c \in Int
      /\ IsFiniteSet(W) /\ Cardinality(W) = a + b + c + d + 1
      /\ T \in SUBSET W /\ Cardinality(T) = c + d
  <2>1. a + c \in Nat /\ a + c <= a + b + c + d /\ c \in Int
    OBVIOUS
  <2>2. MoreTrials(a, b, c, d, x, U, T)
    BY OneTrialMore
  <2> HIDE DEF U, x, T
  <2> QED
    BY <2>1, <2>2 DEF MoreTrials
<1>2. FisherOneSided(a, b, c, d).num = F /\ FisherOneSided(a, b, c, d).den = D
  BY FisherParts DEF Num, Den
<1>3. FisherOneSided(a, b + 1, c, d).num = G /\ FisherOneSided(a, b + 1, c, d).den = E
  <2> DEFINE f == b + 1
  <2>1. f \in Nat /\ Cardinality(W) = a + f + c + d
    BY <1>1
  <2> HIDE DEF U, T, x, W, f
  <2>2. /\ FisherOneSided(a, f, c, d).num = Cardinality(Few(T, c, a + c, W))
        /\ FisherOneSided(a, f, c, d).den = Ways(a + c, W)
    BY <1>1, <2>1, FisherIsFew
  <2> QED
    BY <2>1, <2>2 DEF f
<1> SUFFICES F * E <= G * D
  BY <1>2, <1>3 DEF AtMost
<1>4. F \in Nat /\ D \in Nat
  BY <1>1, FewFinite, WaysNat
<1> HIDE DEF U, x, T, m
<1>5. IsFiniteSet(W)
  BY <1>1, FS_AddElement
<1>6. CASE m = 0
  <2>1. F = 1 /\ D = 1 /\ G = 1 /\ E = 1
    BY <1>1, <1>5, <1>6, FewOfNone, WaysOfNone
  <2> QED
    BY <2>1
<1>7. CASE m # 0
  <2> DEFINE k == m - 1
             H == Cardinality(Few(T, c, k, U))
             C == Ways(k, U)
  <2>1. k \in Nat /\ k + 1 = m /\ k <= Cardinality(U) /\ c \in Int
    <3>1. Cardinality(U) \in Nat
      BY <1>1, FS_CardinalityType
    <3> QED
      BY <1>1, <1>7, <3>1
  <2> HIDE DEF k
  <2>2. H \in Nat /\ C \in Nat
    BY <1>1, FewFinite, WaysNat
  <2>3. G = F + H
    <3>1. Cardinality(Few(T, c, k + 1, U \cup {x})) =
            Cardinality(Few(T, c, k + 1, U)) + Cardinality(Few(T, c, k, U))
      BY <1>1, <2>1, FewOutside
    <3> QED
      BY <2>1, <3>1
  <2>4. E = D + C
    BY <1>1, <2>1, WaysSplit
  <2>5. F * C <= H * D
    BY <1>1, <2>1, FewRarer
  <2> HIDE DEF F, D, G, E, H, C
  <2>6. (F + H) * D = F * D + H * D /\ F * (D + C) = F * D + F * C
    BY <1>4, <2>2
  <2> QED
    BY <1>4, <2>2, <2>3, <2>4, <2>5, <2>6
<1> QED
  BY <1>6, <1>7

\* One of the control that is allowed.
LEMMA AllowCtrlLowers ==
  ASSUME NEW a \in Nat, NEW b \in Nat, NEW c \in Nat, NEW d \in Nat
  PROVE  AtMost(FisherOneSided(a + 1, b, c, d), FisherOneSided(a, b, c, d))
<1> DEFINE U == Trials(a, b, c, d)
           x == a + b + c + d + 1
           W == U \cup {x}
           T == Treatment(c, d)
           m == a + c
           F == Cardinality(Few(T, c, m, U))
           D == Ways(m, U)
           H == Cardinality(Few(T, c, m + 1, U))
           C == Ways(m + 1, U)
           G == Cardinality(Few(T, c, m + 1, W))
           E == Ways(m + 1, W)
<1>1. /\ IsFiniteSet(U) /\ T \in SUBSET U /\ x \notin U
      /\ Cardinality(U) = a + b + c + d /\ m \in Nat /\ m <= Cardinality(U) /\ c \in Int
      /\ IsFiniteSet(W) /\ Cardinality(W) = a + b + c + d + 1
      /\ T \in SUBSET W /\ Cardinality(T) = c + d
  <2>1. a + c \in Nat /\ a + c <= a + b + c + d /\ c \in Int
    OBVIOUS
  <2>2. MoreTrials(a, b, c, d, x, U, T)
    BY OneTrialMore
  <2> HIDE DEF U, x, T
  <2> QED
    BY <2>1, <2>2 DEF MoreTrials
<1>2. FisherOneSided(a, b, c, d).num = F /\ FisherOneSided(a, b, c, d).den = D
  BY FisherParts DEF Num, Den
<1>3. FisherOneSided(a + 1, b, c, d).num = G /\ FisherOneSided(a + 1, b, c, d).den = E
  <2> DEFINE e == a + 1
  <2>1. e \in Nat /\ Cardinality(W) = e + b + c + d /\ e + c = m + 1
    BY <1>1
  <2> HIDE DEF U, T, x, W, e
  <2>2. /\ FisherOneSided(e, b, c, d).num = Cardinality(Few(T, c, e + c, W))
        /\ FisherOneSided(e, b, c, d).den = Ways(e + c, W)
    BY <1>1, <2>1, FisherIsFew
  <2> QED
    BY <2>1, <2>2 DEF e
<1> SUFFICES G * D <= F * E
  BY <1>2, <1>3 DEF AtMost
<1> HIDE DEF U, x, T, m
<1>4. F \in Nat /\ D \in Nat /\ H \in Nat /\ C \in Nat
  BY <1>1, FewFinite, WaysNat
<1>5. G = H + F
  BY <1>1, FewOutside
<1>6. E = C + D
  BY <1>1, WaysSplit
<1>7. H * D <= F * C
  BY <1>1, FewRarer
<1> HIDE DEF F, D, G, E, H, C
<1>8. (H + F) * D = H * D + F * D /\ F * (C + D) = F * C + F * D
  BY <1>4
<1> QED
  BY <1>4, <1>5, <1>6, <1>7, <1>8

\* One of the treatment that is.
LEMMA AllowTxRaises ==
  ASSUME NEW a \in Nat, NEW b \in Nat, NEW c \in Nat, NEW d \in Nat
  PROVE  AtMost(FisherOneSided(a, b, c, d), FisherOneSided(a, b, c + 1, d))
<1> DEFINE U == Trials(a, b, c, d)
           x == a + b + c + d + 1
           W == U \cup {x}
           T == Treatment(c, d)
           V == T \cup {x}
           m == a + c
           F == Cardinality(Few(T, c, m, U))
           D == Ways(m, U)
           H == Cardinality(Few(T, c + 1, m + 1, U))
           C == Ways(m + 1, U)
           G == Cardinality(Few(V, c + 1, m + 1, W))
           E == Ways(m + 1, W)
<1>1. /\ IsFiniteSet(U) /\ T \in SUBSET U /\ x \notin U
      /\ Cardinality(U) = a + b + c + d /\ m \in Nat /\ m <= Cardinality(U) /\ c \in Int
      /\ IsFiniteSet(W) /\ Cardinality(W) = a + b + c + d + 1
      /\ T \in SUBSET W /\ Cardinality(T) = c + d
      /\ V \in SUBSET W /\ Cardinality(V) = c + d + 1
  <2>1. a + c \in Nat /\ a + c <= a + b + c + d /\ c \in Int
    OBVIOUS
  <2>2. MoreTrials(a, b, c, d, x, U, T)
    BY OneTrialMore
  <2> HIDE DEF U, x, T
  <2> QED
    BY <2>1, <2>2 DEF MoreTrials
<1>2. FisherOneSided(a, b, c, d).num = F /\ FisherOneSided(a, b, c, d).den = D
  BY FisherParts DEF Num, Den
<1>3. FisherOneSided(a, b, c + 1, d).num = G /\ FisherOneSided(a, b, c + 1, d).den = E
  <2> DEFINE e == c + 1
  <2>1. /\ e \in Nat /\ Cardinality(W) = a + b + e + d /\ Cardinality(V) = e + d
        /\ a + e = m + 1
    BY <1>1
  <2> HIDE DEF U, T, x, W, e, V
  <2>2. /\ FisherOneSided(a, b, e, d).num = Cardinality(Few(V, e, a + e, W))
        /\ FisherOneSided(a, b, e, d).den = Ways(a + e, W)
    BY <1>1, <2>1, FisherIsFew
  <2> QED
    BY <2>1, <2>2 DEF e
<1> SUFFICES F * E <= G * D
  BY <1>2, <1>3 DEF AtMost
<1> HIDE DEF U, x, T, m
<1>4. c + 1 \in Int /\ (c + 1) - 1 = c
  OBVIOUS
<1>5. F \in Nat /\ D \in Nat /\ H \in Nat /\ C \in Nat
  BY <1>1, FewFinite, WaysNat
<1>6. G = H + F
  <2>1. G = H + Cardinality(Few(T, (c + 1) - 1, m, U))
    BY <1>1, <1>4, FewInside
  <2> QED
    BY <1>4, <2>1
<1>7. E = C + D
  BY <1>1, WaysSplit
<1>8. F * C <= H * D
  BY <1>1, FewCommoner
<1> HIDE DEF F, D, G, E, H, C
<1>9. (H + F) * D = H * D + F * D /\ F * (C + D) = F * C + F * D
  BY <1>5
<1> QED
  BY <1>5, <1>6, <1>7, <1>8, <1>9

\* Whatever table the outcomes have filled, the next one moves the p-value the way it
\* speaks, margins and all.
THEOREM EvidenceCounts == Spec => EvidenceMovesP
<1> DEFINE Moved == /\ AllowCtrl \/ DenyTx => AtMost(P', P)
                    /\ DenyCtrl \/ AllowTx => AtMost(P, P')
<1>1. ASSUME TableInv, Next PROVE Moved
  <2>1. /\ P = FisherOneSided(allowedCtrl, deniedCtrl, allowedTx, deniedTx)
        /\ P' = FisherOneSided(allowedCtrl', deniedCtrl', allowedTx', deniedTx')
    BY DEF P
  <2>2. CASE AllowCtrl
    <3>1. P' = FisherOneSided(allowedCtrl + 1, deniedCtrl, allowedTx, deniedTx)
      BY <2>1, <2>2 DEF AllowCtrl
    <3>2. AtMost(P', P)
      BY <1>1, <2>1, <3>1, AllowCtrlLowers DEF TableInv
    <3>3. ~DenyCtrl /\ ~AllowTx
      BY <1>1, <2>2 DEF AllowCtrl, DenyCtrl, AllowTx, TableInv
    <3> QED
      BY <3>2, <3>3
  <2>3. CASE DenyTx
    <3>1. P' = FisherOneSided(allowedCtrl, deniedCtrl, allowedTx, deniedTx + 1)
      BY <2>1, <2>3 DEF DenyTx
    <3>2. AtMost(P', P)
      BY <1>1, <2>1, <3>1, DenyTxLowers DEF TableInv
    <3>3. ~DenyCtrl /\ ~AllowTx
      BY <1>1, <2>3 DEF DenyTx, DenyCtrl, AllowTx, TableInv
    <3> QED
      BY <3>2, <3>3
  <2>4. CASE DenyCtrl
    <3>1. P' = FisherOneSided(allowedCtrl, deniedCtrl + 1, allowedTx, deniedTx)
      BY <2>1, <2>4 DEF DenyCtrl
    <3>2. AtMost(P, P')
      BY <1>1, <2>1, <3>1, DenyCtrlRaises DEF TableInv
    <3>3. ~AllowCtrl /\ ~DenyTx
      BY <1>1, <2>4 DEF DenyCtrl, AllowCtrl, DenyTx, TableInv
    <3> QED
      BY <3>2, <3>3
  <2>5. CASE AllowTx
    <3>1. P' = FisherOneSided(allowedCtrl, deniedCtrl, allowedTx + 1, deniedTx)
      BY <2>1, <2>5 DEF AllowTx
    <3>2. AtMost(P, P')
      BY <1>1, <2>1, <3>1, AllowTxRaises DEF TableInv
    <3>3. ~AllowCtrl /\ ~DenyTx
      BY <1>1, <2>5 DEF AllowTx, AllowCtrl, DenyTx, TableInv
    <3> QED
      BY <3>2, <3>3
  <2> QED
    BY <2>2, <2>3, <2>4, <2>5
<1>2. TableInv /\ [Next]_<<cells, samples, latest>> => [Moved]_cells
  BY <1>1
<1> QED
  BY <1>2, TableInvariant, PTL DEF Spec, EvidenceMovesP

=============================================================================
