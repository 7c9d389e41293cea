-------------------------------- MODULE Fisher --------------------------------
(***************************************************************************)
(* fisher_one_sided of evaluation/run.py, the significance test behind the *)
(* campaign's hypotheses, as exact fractions: the code adds up exponentials *)
(* of differences of log-gamma values.                                     *)
(***************************************************************************)
EXTENDS Integers, FiniteSetsExt

Larger(x, y) == IF x > y THEN x ELSE y

\* exp(_log_comb(n, k)): 0 where the code has minus infinity.
Comb(n, k) ==
  LET c[i \in Nat] == IF i = 0 THEN 1 ELSE (c[i - 1] * (n - k + i)) \div i
  IN  IF k < 0 \/ k > n THEN 0 ELSE c[k]

\* The terms of the sum over some numbers of trials of the treatment.
Terms(row1, row2, col1, ks) == [k \in ks |-> Comb(row2, k) * Comb(row1, col1 - k)]

\* Seeded faults: the sum starts at 1, or runs over the other tail.
FaultFisherFromOne(a, b, c, d) ==
  [num |-> SumFunctionOnSet(Terms(a + b, c + d, a + c, 1..c), 1..c),
   den |-> Comb(a + b + c + d, a + c)]

FaultFisherUpperTail(a, b, c, d) ==
  [num |-> SumFunctionOnSet(Terms(a + b, c + d, a + c, c..(a + c)), c..(a + c)),
   den |-> Comb(a + b + c + d, a + c)]

\* Of a + b trials of the control, a were allowed; of c + d of the treatment, c.
FisherOneSided(a, b, c, d) ==
  LET row1 == a + b
      row2 == c + d
      col1 == a + c
      lo == Larger(0, col1 - row1)
  IN  [num |-> SumFunctionOnSet(Terms(row1, row2, col1, lo..c), lo..c),
       den |-> Comb(row1 + row2, col1)]

=============================================================================
