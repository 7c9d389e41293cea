------------------------------- MODULE Evaluation -------------------------------
(***************************************************************************)
(* What evaluation/run.py and make_figures.py make of a finished campaign: *)
(* the summary, table 6, the hypothesis tests and figure 6.  Each of them  *)
(* is computed on its own, from the cells, from the lists or from groups   *)
(* that are written down once more.  Fractions are not divided.            *)
(***************************************************************************)
EXTENDS Campaign, Fisher

CONSTANT Tested            \* bound: the tests that are evaluated, by name; the
                           \* binomials of large samples outgrow TLC's integers

ASSUME TestedAssumption == Tested \subseteq {"h1", "h2", "h3", "h5", "h5static", "h5behavior"}

\* fmean of the prevention rates of the scenarios, which all have the same n.
MeanPrevention(m) ==
  LET rows == CellsWith("scenarios", {Attacks[i] : i \in DOMAIN Attacks}, m)
  IN  [num |-> SumFunctionOnSet([i \in rows |-> Repeats - allowed[i]], rows),
       den |-> Repeats * Cardinality(rows)]

\* Seeded fault: the precision.
FaultRecall(m) ==
  LET q == Confusion(m)
  IN  IF q.tp + q.fp > 0 THEN [num |-> q.tp, den |-> q.tp + q.fp]
      ELSE [num |-> 0, den |-> 1]

\* The recall of _confusion.
Recall(m) ==
  LET q == Confusion(m)
  IN  IF q.tp + q.fn > 0 THEN [num |-> q.tp, den |-> q.tp + q.fn]
      ELSE [num |-> 0, den |-> 1]

\* The row of controls of table 6.
FalsePositives(m) ==
  LET rows == CellsWith("legitimate", {Controls[i] : i \in DOMAIN Controls}, m)
  IN  [denied |-> SumFunctionOnSet([i \in rows |-> Repeats - allowed[i]], rows),
       n |-> Repeats * Len(Controls)]

\* The other rows, in the order in which they are written.
Table6 == <<Identity, Privilege, TokenMisuse, Behavioural>>

\* Seeded fault: a scenario of another group.
FaultFigure6 == <<{"A1", "A2", "A3"}, {"A6", "A7", "A8"}, {"A4", "A6", "A9"}, {"A10"}>>

\* The groups of figure 6.
Figure6 == <<{"A1", "A2", "A3"}, {"A6", "A7", "A8"}, {"A4", "A5", "A9"}, {"A10"}>>

\* _prevention: the height of a bar.
Prevention(ids, m) ==
  LET counts == Counts("scenarios", ids, m)
  IN  [num |-> counts.denied, den |-> counts.allowed + counts.denied]

\* The test of a treatment against a control, from the counts of both.
Test(control, treatment) ==
  FisherOneSided(control.allowed, control.denied, treatment.allowed, treatment.denied)

Group(ids, m) == Counts("scenarios", ids, m)
Scenario(id, m) == Counts("scenarios", {id}, m)
Ablated(m) == Counts("ablation", {"A10"}, m)

\* Seeded fault: an ablation is compared the other way round.
FaultTests(name) ==
  CASE name = "h1"         -> Test(Overall("B2"), Overall("B3"))
    [] name = "h2"         -> Test(Scenario("A8", "B2"), Scenario("A8", "B3"))
    [] name = "h3"         -> Test(Group(Identity, "B2"), Group(Identity, "B3"))
    [] name = "h5"         -> Test(Scenario("A10", "B2"), Scenario("A10", "B3"))
    [] name = "h5static"   -> Test(Ablated("B3_STATIC"), Ablated("B3"))
    [] name = "h5behavior" -> Test(Ablated("B3"), Ablated("B3_NO_BEHAVIOR"))

\* The p-values under `tests'.
Tests(name) ==
  CASE name = "h1"         -> Test(Overall("B2"), Overall("B3"))
    [] name = "h2"         -> Test(Scenario("A8", "B2"), Scenario("A8", "B3"))
    [] name = "h3"         -> Test(Group(Identity, "B2"), Group(Identity, "B3"))
    [] name = "h5"         -> Test(Scenario("A10", "B2"), Scenario("A10", "B3"))
    [] name = "h5static"   -> Test(Ablated("B3_STATIC"), Ablated("B3"))
    [] name = "h5behavior" -> Test(Ablated("B3_NO_BEHAVIOR"), Ablated("B3"))

-----------------------------------------------------------------------------
(* Properties *)

SameFraction(p, q) == p.num * q.den = q.num * p.den

\* What is published twice is published alike: the mean prevention rate, which comes
\* from the cells, is the recall, which comes from the lists; a control refused in
\* table 6 is a false positive of the matrix; and the bars of figure 6, whose groups
\* make_figures.py writes down again, are the rows of table 6.
SummariesAgree ==
  Summarised =>
    \A m \in DOMAIN blocked :
      /\ SameFraction(MeanPrevention(m), Recall(m))
      /\ FalsePositives(m) = [denied |-> Confusion(m).fp,
                              n |-> Confusion(m).fp + Confusion(m).tn]
      /\ \A g \in DOMAIN Table6 :
           LET counts == Counts("scenarios", Table6[g], m)
           IN  SameFraction(Prevention(Figure6[g], m),
                            [num |-> counts.denied,
                             den |-> counts.allowed + counts.denied])

\* The scenarios that the tests single out.
Compared == {"A1", "A2", "A3", "A8", "A10"}

\* What the campaign of the evaluation satisfies: a plan that has these scenarios, none of
\* which takes as long as its token lives, and four repetitions or more.  With three, six
\* trials are too few for one scenario: all of one kind on one side has p = 1/20.
LargeEnough ==
  /\ Repeats >= 4
  /\ Compared \subseteq {Attacks[k] : k \in DOMAIN Attacks}
  /\ Compared \cap Slow = {}

\* Every hypothesis tested is significant at alpha = 0.05: each test has the right samples
\* on the right side, and every trial of them came out as the hypothesis says.
HypothesesHold ==
  Summarised => \A name \in Tested : 20 * Tests(name).num < Tests(name).den

=============================================================================
