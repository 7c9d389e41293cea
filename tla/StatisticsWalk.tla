---------------------------- MODULE StatisticsWalk ----------------------------
(***************************************************************************)
(* The inputs of the campaign's statistics as they come in: the outcomes   *)
(* of the trials, which fill a table, or the latencies of the calls, which *)
(* make a list.  A behaviour grows one of the two.                         *)
(***************************************************************************)
EXTENDS Fisher, Latency

CONSTANTS MaxCell,         \* bound: trials of one kind and outcome
          MaxSample,       \* the slowest sample
          MaxSamples       \* bound: samples taken

ASSUME StatisticsAssumption ==
  MaxCell \in Nat /\ MaxSample \in Nat /\ MaxSamples \in Nat

VARIABLES allowedCtrl, deniedCtrl, allowedTx, deniedTx,  \* the table
          samples,                                       \* the list, sorted
          latest         \* history: the sample that came in last, or 0

cells == <<allowedCtrl, deniedCtrl, allowedTx, deniedTx>>

Init == /\ allowedCtrl = 0 /\ deniedCtrl = 0 /\ allowedTx = 0 /\ deniedTx = 0
        /\ samples = <<>> /\ latest = 0

AllowCtrl == /\ allowedCtrl < MaxCell
             /\ allowedCtrl' = allowedCtrl + 1
             /\ UNCHANGED <<deniedCtrl, allowedTx, deniedTx>>

DenyCtrl == /\ deniedCtrl < MaxCell
            /\ deniedCtrl' = deniedCtrl + 1
            /\ UNCHANGED <<allowedCtrl, allowedTx, deniedTx>>

AllowTx == /\ allowedTx < MaxCell
           /\ allowedTx' = allowedTx + 1
           /\ UNCHANGED <<allowedCtrl, deniedCtrl, deniedTx>>

DenyTx == /\ deniedTx < MaxCell
          /\ deniedTx' = deniedTx + 1
          /\ UNCHANGED <<allowedCtrl, deniedCtrl, allowedTx>>

\* A sample comes in at its place of the list, behind those that are not above it.
InsertAt(at, s) ==
  [i \in 1..(Len(samples) + 1) |-> IF i < at THEN samples[i]
                                   ELSE IF i = at THEN s ELSE samples[i - 1]]

Sample(s) ==
  /\ Len(samples) < MaxSamples
  /\ \E at \in 1..(Len(samples) + 1) :
       /\ \A i \in DOMAIN samples : i < at <=> samples[i] <= s
       /\ samples' = InsertAt(at, s)
  /\ latest' = s

Next == \/ /\ samples = <<>>
           /\ AllowCtrl \/ DenyCtrl \/ AllowTx \/ DenyTx
           /\ UNCHANGED <<samples, latest>>
        \/ /\ cells = <<0, 0, 0, 0>>
           /\ \E s \in 1..MaxSample : Sample(s)
           /\ UNCHANGED cells

Spec == Init /\ [][Next]_<<cells, samples, latest>>

-----------------------------------------------------------------------------
(* Properties *)

P == FisherOneSided(allowedCtrl, deniedCtrl, allowedTx, deniedTx)

AtMost(p, q) == p.num * q.den <= q.num * p.den

\* The p-value by counting: if the allowed outcomes are handed out to the trials
\* blindly, how often does the treatment get as few of them as it did, or fewer?
FisherCounts ==
  LET trials == 1..(allowedCtrl + deniedCtrl + allowedTx + deniedTx)
      treatment == 1..(allowedTx + deniedTx)
      draws == {S \in SUBSET trials : Cardinality(S) = allowedCtrl + allowedTx}
      few == {S \in draws : Cardinality(S \cap treatment) <= allowedTx}
  IN  P.den = Cardinality(draws) /\ P.num = Cardinality(few)

\* Each outcome moves the p-value the way it speaks: a treatment that denies, or
\* a control that allows, never raises it; the other two never lower it.  This
\* holds although every outcome changes a margin of the table as well.
EvidenceMovesP == [][/\ AllowCtrl \/ DenyTx => AtMost(P', P)
                     /\ DenyCtrl \/ AllowTx => AtMost(P, P')]_cells

\* p95 leaves no more than 5 % of the other samples, and half a sample for the
\* rounding, above itself, and p99 no more than 1 %; and those that reach it are
\* no fewer than that, but for the same half.
TailBounded ==
  samples # <<>> =>
    \A percent \in {95, 99} :
      LET p == Percentile(percent, samples)
          others == (100 - percent) * (Len(samples) - 1)
          above == {i \in DOMAIN samples : samples[i] > p}
          reached == {i \in DOMAIN samples : samples[i] >= p}
      IN  /\ 100 * Cardinality(above) <= others + 50
          /\ 100 * Cardinality(reached) >= others + 50

\* A sample at or above a percentile never lowers it, and one at or below never
\* raises it, although each of them makes the list longer and so moves the index.
\* The median is never above p95, whatever the list.
SamplesMovePercentiles ==
  [][samples # <<>> =>
       /\ TwiceMedian(samples) <= 2 * Percentile(95, samples)
       /\ \A percent \in {95, 99} :
            LET before == Percentile(percent, samples)
                after == Percentile(percent, samples')
            IN  /\ latest' >= before => after >= before
                /\ latest' <= before => after <= before]_<<samples, latest>>

=============================================================================
