------------------------------ MODULE ScoreWalk ------------------------------
(***************************************************************************)
(* Walks the inputs of the score: every step makes the evidence about one  *)
(* request worse in one respect, so that a step relates two neighbouring   *)
(* inputs and a state is any combination of them.                          *)
(***************************************************************************)
EXTENDS TrustScore

CONSTANTS WeightVectors,     \* the AtsWeights of a gateway
          ThresholdVectors,  \* its AtsThresholds
          Expiries,          \* exp of tokens issued at 0
          MaxNow,            \* bound: the scoring time goes from 0 to MaxNow
          MaxOwn             \* bound: visible events of the agent

Weights == {w \in [unit : Nat \ {0}, identity : Nat, credential : Nat,
                   authorization : Nat, behavior : Nat, resource : Nat,
                   context : Nat] : w.context <= w.unit}

ASSUME WeightsAssumption == WeightVectors \subseteq Weights
ASSUME ThresholdsAssumption ==
  ThresholdVectors \subseteq [allow : Int, restrict : Int, verify : Int, approval : Int]
ASSUME WalkAssumption == Expiries \subseteq Int /\ MaxNow \in Nat /\ MaxOwn \in Nat

VARIABLE input

Init ==
  \E w \in WeightVectors, m \in ScoringModes, e \in Expiries, n \in 0..MaxOwn,
     p, j \in BOOLEAN :
    /\ m = "B3_NO_BEHAVIOR" => CanDrop(w, {"behavior"})
    /\ m = "B3_NO_RESOURCE" => CanDrop(w, {"resource"})
    /\ input = [weights |-> w, mode |-> m, exp |-> e, now |-> 0, own |-> n,
                withheld |-> 0, onPurpose |-> p, injected |-> j,
                deviation |-> -30, risk |-> -30]

WithheldAgain == /\ ~input.injected
                 /\ input.withheld < input.own
                 /\ input' = [input EXCEPT !.withheld = @ + 1]

Deviate == /\ input.injected
           /\ input.deviation < 130
           /\ input' = [input EXCEPT !.deviation = @ + 40]

RiskGrows == /\ input.risk < 130
             /\ input' = [input EXCEPT !.risk = @ + 40]

TokenAges == /\ input.now < MaxNow
             /\ input' = [input EXCEPT !.now = @ + 1]

Next == WithheldAgain \/ Deviate \/ RiskGrows \/ TokenAges

Spec == Init /\ [][Next]_input

BehaviorOf(i) == IF i.injected THEN DeviationBehavior(i.deviation)
                 ELSE HistoryBehavior(i.onPurpose, i.own, i.withheld)

AtsOf(i) == Ats(i.weights, i.mode,
                CredentialScore(TRUE, 0, i.exp, i.now, TRUE),
                BehaviorOf(i), i.risk)

Normalised(w) == Positive(w) + w.context = w.unit

-----------------------------------------------------------------------------
\* without() returns weights that add up to 1, whatever vector it started from
\* and whichever of its terms were dropped (test_weights_without_behavior_renormalizes
\* checks one vector and one term).
WithoutRenormalises ==
  \A names \in SUBSET {"identity", "credential", "authorization", "behavior",
                       "resource", "context"} :
    CanDrop(input.weights, names) =>
      Normalised(Without(input.weights, names))

\* A score is never above the share its weights leave to the positive terms:
\* the context weight is subtracted and cannot be earned.  A trusted agent with
\* the default weights therefore never reaches the ALLOW band.
CeilingBelowAllow ==
  LET i == input IN
    /\ Normalised(i.weights) =>
         AtsOf(i).num * i.weights.unit
           <= 100 * (i.weights.unit - i.weights.context) * AtsOf(i).den
    /\ i.weights = DefaultWeights => Band(AtsOf(i), DefaultThresholds) # "ALLOW"

\* Worse evidence never leads to a higher score nor to a more permissive
\* outcome, clamping, ablation and misordered thresholds included.
WorseEvidenceNeverHelps ==
  [][/\ AtsOf(input').den = AtsOf(input).den
     /\ AtsOf(input').num <= AtsOf(input).num
     /\ \A t \in ThresholdVectors :
          Rank(Band(AtsOf(input'), t)) <= Rank(Band(AtsOf(input), t))]_input

=============================================================================
