--------------------------- MODULE TrustScoreProofs ---------------------------
(***************************************************************************)
(* The laws of the score, for every weight vector whose context weight is  *)
(* at most one, every thresholds, tokens and windows.                      *)
(***************************************************************************)
EXTENDS ScoreWalk, TLAPS

-----------------------------------------------------------------------------
(* Arithmetic *)

LEMMA TimesType == ASSUME NEW a \in Nat, NEW b \in Nat PROVE a * b \in Nat
OBVIOUS

LEMMA TimesMonotone ==
  ASSUME NEW a \in Int, NEW b \in Int, a <= b, NEW q \in Nat
  PROVE  a * q <= b * q
OBVIOUS

LEMMA PositiveProduct ==
  ASSUME NEW a \in Nat \ {0}, NEW b \in Nat \ {0} PROVE a * b \in Nat \ {0}
OBVIOUS

LEMMA Distribute ==
  ASSUME NEW a \in Int, NEW b \in Int, NEW c \in Int, NEW d \in Int, NEW e \in Int,
         NEW s \in Int
  PROVE  a * s + b * s + c * s + d * s + e * s = (a + b + c + d + e) * s
OBVIOUS

LEMMA Complement ==
  ASSUME NEW p \in Int, NEW u \in Int, NEW c \in Int
  PROVE  p * (u - c) + c * p = u * p
OBVIOUS

-----------------------------------------------------------------------------
(* Weights *)

Terms == {"identity", "credential", "authorization", "behavior", "resource",
          "context"}

\* Dropping terms leaves the unit, and no term grows.
LEMMA DropType ==
  ASSUME NEW w \in Weights, NEW names \in SUBSET Terms
  PROVE  /\ Drop(w, names) \in Weights
         /\ Drop(w, names).unit = w.unit
         /\ "context" \notin names => Drop(w, names).context = w.context
BY DEF Drop, Weights, Terms

LEMMA PositiveType ==
  ASSUME NEW w \in Weights PROVE Positive(w) \in Nat
BY DEF Positive, Weights

\* Without keeps weights, scales the unit and the context weight alike, and what it
\* returns adds up to one.
LEMMA WithoutLaws ==
  ASSUME NEW w \in Weights, NEW names \in SUBSET Terms, CanDrop(w, names)
  PROVE  /\ Without(w, names) \in Weights
         /\ Normalised(Without(w, names))
         /\ "context" \notin names =>
              \E k \in Nat \ {0} : /\ Without(w, names).unit = k * w.unit
                                   /\ Without(w, names).context = k * w.context
<1> DEFINE d == Drop(w, names)
           p == Positive(d)
           scale == d.unit - d.context
           v == Without(w, names)
<1>1. d \in Weights /\ d.unit = w.unit
      /\ ("context" \notin names => d.context = w.context)
  BY DropType
<1>2. p \in Nat \ {0}
  BY <1>1, PositiveType DEF CanDrop
<1>3. scale \in Nat
  BY <1>1 DEF Weights
<1>4. /\ d.unit \in Nat \ {0} /\ d.context \in Nat /\ d.identity \in Nat
      /\ d.credential \in Nat /\ d.authorization \in Nat /\ d.behavior \in Nat
      /\ d.resource \in Nat
  BY <1>1 DEF Weights
<1>5. v = [unit |-> d.unit * p, identity |-> d.identity * scale,
           credential |-> d.credential * scale,
           authorization |-> d.authorization * scale,
           behavior |-> d.behavior * scale, resource |-> d.resource * scale,
           context |-> d.context * p]
  BY DEF Without
<1> HIDE DEF d, scale, v
<1>6. /\ d.unit * p \in Nat \ {0} /\ d.context * p \in Nat
      /\ d.identity * scale \in Nat /\ d.credential * scale \in Nat
      /\ d.authorization * scale \in Nat /\ d.behavior * scale \in Nat
      /\ d.resource * scale \in Nat
  <2> HIDE DEF p
  <2> QED BY <1>2, <1>3, <1>4, TimesType, PositiveProduct
<1>7. d.context * p <= d.unit * p
  <2>1. d.context <= d.unit
    BY <1>1 DEF Weights
  <2> HIDE DEF p
  <2> QED BY <2>1, <1>2, <1>4, TimesMonotone
<1>8. v \in Weights
  BY <1>5, <1>6, <1>7 DEF Weights
<1>9. Positive(v) = p * scale
  <2>1. Positive(v) = d.identity * scale + d.credential * scale
                        + d.authorization * scale + d.behavior * scale
                        + d.resource * scale
    BY <1>5 DEF Positive
  <2>2. p = d.identity + d.credential + d.authorization + d.behavior + d.resource
    BY DEF Positive
  <2> HIDE DEF p
  <2> QED BY <2>1, <2>2, <1>3, <1>4, Distribute
<1>10. Normalised(v)
  <2>1. scale = d.unit - d.context
    BY DEF scale
  <2> HIDE DEF p
  <2>2. p * (d.unit - d.context) + d.context * p = d.unit * p
    BY <1>2, <1>4, Complement
  <2> QED BY <2>1, <2>2, <1>5, <1>9 DEF Normalised
<1>11. ASSUME "context" \notin names
       PROVE  v.unit = p * w.unit /\ v.context = p * w.context
  <2> HIDE DEF p
  <2>1. v.unit = w.unit * p /\ v.context = w.context * p
    BY <1>1, <1>5, <1>11
  <2>2. w.unit \in Int /\ w.context \in Int
    BY DEF Weights
  <2> QED BY <2>1, <2>2, <1>2
<1> QED
  BY <1>2, <1>8, <1>10, <1>11 DEF v

\* The weights of a mode are those of the gateway, or a rescaling of them.
LEMMA ModeLaws ==
  ASSUME NEW w \in Weights, NEW m \in ScoringModes,
         m = "B3_NO_BEHAVIOR" => CanDrop(w, {"behavior"}),
         m = "B3_NO_RESOURCE" => CanDrop(w, {"resource"})
  PROVE  /\ ModeWeights(w, m) \in Weights
         /\ Normalised(w) => Normalised(ModeWeights(w, m))
         /\ \E k \in Nat \ {0} : /\ ModeWeights(w, m).unit = k * w.unit
                                 /\ ModeWeights(w, m).context = k * w.context
<1>1. CASE m = "B3"
  <2>1. ModeWeights(w, m) = w
    BY <1>1 DEF ModeWeights
  <2>2. w.unit = 1 * w.unit /\ w.context = 1 * w.context
    BY DEF Weights
  <2> QED BY <2>1, <2>2
<1>2. CASE m = "B3_NO_BEHAVIOR"
  <2>1. ModeWeights(w, m) = Without(w, {"behavior"})
    BY <1>2 DEF ModeWeights
  <2>2. {"behavior"} \in SUBSET Terms /\ "context" \notin {"behavior"}
    BY DEF Terms
  <2>3. CanDrop(w, {"behavior"})
    BY <1>2
  <2> QED BY <2>1, <2>2, <2>3, WithoutLaws
<1>3. CASE m = "B3_NO_RESOURCE"
  <2>1. ModeWeights(w, m) = Without(w, {"resource"})
    BY <1>3 DEF ModeWeights
  <2>2. {"resource"} \in SUBSET Terms /\ "context" \notin {"resource"}
    BY DEF Terms
  <2>3. CanDrop(w, {"resource"})
    BY <1>3
  <2> QED BY <2>1, <2>2, <2>3, WithoutLaws
<1> QED
  BY <1>1, <1>2, <1>3 DEF ScoringModes

-----------------------------------------------------------------------------
(* Scores *)

\* The score before it is clamped and divided: v are the weights, c the credential
\* score, p / q the behaviour score and x the context score.
Raw(v, c, p, q, x) ==
  (v.identity * 100 + v.credential * c + v.authorization * 100
     + v.resource * 100 - v.context * x) * q + v.behavior * p

LEMMA AtsIsRaw ==
  ASSUME NEW w \in Weights, NEW m, NEW c, NEW b, NEW risk
  PROVE  Ats(w, m, c, b, risk)
           = [num |-> Clamp(Raw(ModeWeights(w, m), c, b.num, b.den, ContextScore(risk)),
                            0, 100 * (ModeWeights(w, m).unit * b.den)),
              den |-> ModeWeights(w, m).unit * b.den]
BY DEF Ats, Combine, Raw, IdentityScore, AuthorizationScore, ResourceScore

LEMMA ContextRange ==
  ASSUME NEW x \in Int PROVE ContextScore(x) \in 0..100
BY DEF ContextScore, Clamp

LEMMA CredentialRange ==
  ASSUME NEW e \in Int, NEW t \in Int
  PROVE  CredentialScore(TRUE, 0, e, t, TRUE) \in 0..100
BY DEF CredentialScore

LEMMA RawType ==
  ASSUME NEW v \in Weights, NEW c \in Int, NEW p \in Int, NEW q \in Int, NEW x \in Int
  PROVE  Raw(v, c, p, q, x) \in Int
BY DEF Raw, Weights

\* Less of every dimension, and more risk, is never a higher score.
LEMMA RawMonotone ==
  ASSUME NEW v \in Weights, NEW q \in Nat,
         NEW c \in Int, NEW p \in Int, NEW x \in Int,
         NEW d \in Int, NEW r \in Int, NEW y \in Int,
         d <= c, r <= p, x <= y
  PROVE  Raw(v, d, r, q, y) <= Raw(v, c, p, q, x)
<1> DEFINE high == v.identity * 100 + v.credential * c + v.authorization * 100
                     + v.resource * 100 - v.context * x
           low == v.identity * 100 + v.credential * d + v.authorization * 100
                    + v.resource * 100 - v.context * y
<1>1. /\ v.credential \in Nat /\ v.context \in Nat /\ v.behavior \in Nat
      /\ v.identity \in Nat /\ v.authorization \in Nat /\ v.resource \in Nat
  BY DEF Weights
<1>2. v.credential * d <= v.credential * c
  BY <1>1, TimesMonotone
<1>3. v.context * x <= v.context * y
  BY <1>1, TimesMonotone
<1>4. v.behavior * r <= v.behavior * p
  BY <1>1, TimesMonotone
<1>5. /\ v.credential * d \in Int /\ v.credential * c \in Int
      /\ v.context * x \in Int /\ v.context * y \in Int
      /\ v.behavior * r \in Int /\ v.behavior * p \in Int
  BY <1>1
<1>6. low \in Int /\ high \in Int /\ low <= high
  BY <1>1, <1>2, <1>3, <1>5
<1>7. /\ Raw(v, d, r, q, y) = low * q + v.behavior * r
      /\ Raw(v, c, p, q, x) = high * q + v.behavior * p
  BY DEF Raw
<1> HIDE DEF low, high
<1>8. low * q <= high * q
  BY <1>6, TimesMonotone
<1>9. low * q \in Int /\ high * q \in Int
  BY <1>6
<1> QED
  BY <1>4, <1>5, <1>7, <1>8, <1>9

\* No score is above the share that the weights leave to the positive terms.
LEMMA RawCeiling ==
  ASSUME NEW v \in Weights, Normalised(v), NEW q \in Nat, NEW c \in 0..100,
         NEW p \in Int, p <= 100 * q, NEW x \in 0..100
  PROVE  Raw(v, c, p, q, x) <= 100 * (v.unit - v.context) * q
<1>1. /\ v.credential \in Nat /\ v.context \in Nat /\ v.behavior \in Nat
      /\ v.identity \in Nat /\ v.authorization \in Nat /\ v.resource \in Nat
      /\ v.unit \in Nat
  BY DEF Weights
<1>2. Raw(v, c, p, q, x) <= Raw(v, 100, 100 * q, q, 0)
  BY RawMonotone
<1>3. Raw(v, 100, 100 * q, q, 0)
        = (v.identity * 100 + v.credential * 100 + v.authorization * 100
             + v.resource * 100) * q + v.behavior * (100 * q)
  BY <1>1 DEF Raw
<1>4. @ = 100 * Positive(v) * q
  BY <1>1 DEF Positive
<1>5. Positive(v) = v.unit - v.context
  BY <1>1, PositiveType DEF Normalised
<1> QED
  BY <1>2, <1>3, <1>4, <1>5, RawType

-----------------------------------------------------------------------------
(* The walk *)

\* The inputs whose score is defined.
Inputs ==
  {i \in [weights : WeightVectors, mode : ScoringModes, exp : Expiries,
          now : Int, own : Nat, withheld : Nat, onPurpose : BOOLEAN,
          injected : BOOLEAN, deviation : Int, risk : Int] :
     /\ i.withheld <= i.own
     /\ i.mode = "B3_NO_BEHAVIOR" => CanDrop(i.weights, {"behavior"})
     /\ i.mode = "B3_NO_RESOURCE" => CanDrop(i.weights, {"resource"})}

LEMMA StepInput ==
  ASSUME input \in Inputs, Next PROVE input' \in Inputs
<1>1. CASE WithheldAgain
  BY <1>1 DEF WithheldAgain, Inputs
<1>2. CASE Deviate
  BY <1>2 DEF Deviate, Inputs
<1>3. CASE RiskGrows
  BY <1>3 DEF RiskGrows, Inputs
<1>4. CASE TokenAges
  BY <1>4 DEF TokenAges, Inputs
<1> QED
  BY <1>1, <1>2, <1>3, <1>4 DEF Next

LEMMA InputCorrect == Spec => [](input \in Inputs)
<1>1. Init => input \in Inputs
  BY WalkAssumption DEF Init, Inputs
<1>2. input \in Inputs /\ [Next]_input => (input \in Inputs)'
  BY StepInput
<1> QED
  BY <1>1, <1>2, PTL DEF Spec

\* without() returns weights that add up to one, for every vector and every choice
\* of the terms that are dropped.
THEOREM Renormalises == Spec => []WithoutRenormalises
<1>1. input \in Inputs => WithoutRenormalises
  <2> SUFFICES ASSUME input \in Inputs, NEW names \in SUBSET Terms,
                      CanDrop(input.weights, names)
               PROVE  Normalised(Without(input.weights, names))
    BY DEF WithoutRenormalises, Terms
  <2>1. input.weights \in Weights
    BY WeightsAssumption DEF Inputs
  <2> QED BY <2>1, WithoutLaws
<1> QED
  BY <1>1, InputCorrect, PTL

LEMMA BehaviorRange ==
  ASSUME NEW i \in Inputs
  PROVE  /\ BehaviorOf(i).den \in Nat \ {0}
         /\ BehaviorOf(i).num \in Int
         /\ BehaviorOf(i).num <= 100 * BehaviorOf(i).den
<1>1. CASE i.injected
  BY <1>1 DEF Inputs, BehaviorOf, DeviationBehavior, Clamp
<1>2. CASE ~i.injected
  <2>1. i.own \in Nat /\ i.withheld \in Nat /\ i.withheld <= i.own
    BY DEF Inputs
  <2>2. BehaviorOf(i) = HistoryBehavior(i.onPurpose, i.own, i.withheld)
    BY <1>2 DEF BehaviorOf
  <2> QED
    BY <2>1, <2>2 DEF HistoryBehavior
<1> QED
  BY <1>1, <1>2

WeightsOf(i) == ModeWeights(i.weights, i.mode)
CredentialOf(i) == CredentialScore(TRUE, 0, i.exp, i.now, TRUE)
RawOf(i) == Raw(WeightsOf(i), CredentialOf(i), BehaviorOf(i).num, BehaviorOf(i).den,
                ContextScore(i.risk))

\* The score of an input, with what its parts range over.
LEMMA AtsOfInput ==
  ASSUME NEW i \in Inputs
  PROVE  /\ i.weights \in Weights /\ WeightsOf(i) \in Weights
         /\ CredentialOf(i) \in 0..100 /\ ContextScore(i.risk) \in 0..100
         /\ RawOf(i) \in Int
         /\ WeightsOf(i).unit * BehaviorOf(i).den \in Nat \ {0}
         /\ AtsOf(i) = [num |-> Clamp(RawOf(i), 0,
                                      100 * (WeightsOf(i).unit * BehaviorOf(i).den)),
                        den |-> WeightsOf(i).unit * BehaviorOf(i).den]
<1>1. i.weights \in Weights /\ i.mode \in ScoringModes
  BY WeightsAssumption DEF Inputs
<1>2. WeightsOf(i) \in Weights
  BY <1>1, ModeLaws DEF Inputs, WeightsOf
<1>3. CredentialOf(i) \in 0..100
  <2>1. i.exp \in Int /\ i.now \in Int
    BY WalkAssumption DEF Inputs
  <2>2. CredentialScore(TRUE, 0, i.exp, i.now, TRUE) \in 0..100
    BY <2>1, CredentialRange
  <2> QED BY <2>2 DEF CredentialOf
<1>4. ContextScore(i.risk) \in 0..100
  <2>1. i.risk \in Int
    BY DEF Inputs
  <2> QED BY <2>1, ContextRange
<1>5. RawOf(i) \in Int
  <2>1. /\ CredentialOf(i) \in Int /\ ContextScore(i.risk) \in Int
        /\ BehaviorOf(i).num \in Int /\ BehaviorOf(i).den \in Int
    BY <1>3, <1>4, BehaviorRange
  <2> QED BY <1>2, <2>1, RawType DEF RawOf
<1>6. WeightsOf(i).unit * BehaviorOf(i).den \in Nat \ {0}
  <2>1. WeightsOf(i).unit \in Nat \ {0}
    BY <1>2 DEF Weights
  <2> QED BY <2>1, BehaviorRange, PositiveProduct
<1>7. AtsOf(i) = Ats(i.weights, i.mode, CredentialOf(i), BehaviorOf(i), i.risk)
  BY DEF AtsOf, CredentialOf
<1>8. AtsOf(i) = [num |-> Clamp(RawOf(i), 0,
                                100 * (WeightsOf(i).unit * BehaviorOf(i).den)),
                  den |-> WeightsOf(i).unit * BehaviorOf(i).den]
  BY <1>1, <1>7, AtsIsRaw DEF WeightsOf, RawOf
<1> QED
  BY <1>1, <1>2, <1>3, <1>4, <1>5, <1>6, <1>8

\* If u and c are scaled by k, a score below the ceiling of k * u and k * c is below
\* that of u and c.
LEMMA Rescale ==
  ASSUME NEW n \in Int, NEW u \in Nat, NEW c \in Nat, NEW k \in Nat, NEW q \in Nat,
         n <= 100 * (k * u - k * c) * q
  PROVE  n * u <= 100 * (u - c) * ((k * u) * q)
<1>1. 100 * (k * u - k * c) * q \in Int
  OBVIOUS
<1>2. n * u <= (100 * (k * u - k * c) * q) * u
  BY <1>1, TimesMonotone
<1>3. (100 * (k * u - k * c) * q) * u = 100 * (u - c) * ((k * u) * q)
  OBVIOUS
<1> QED
  BY <1>2, <1>3

LEMMA CeilingOfInput ==
  ASSUME NEW i \in Inputs, Normalised(i.weights)
  PROVE  /\ AtsOf(i).num \in Int
         /\ AtsOf(i).den \in Nat \ {0}
         /\ AtsOf(i).num * i.weights.unit
              <= 100 * (i.weights.unit - i.weights.context) * AtsOf(i).den
<1> DEFINE w == i.weights
           v == WeightsOf(i)
           q == BehaviorOf(i).den
           p == BehaviorOf(i).num
           raw == RawOf(i)
           num == AtsOf(i).num
<1>1. /\ w \in Weights /\ v \in Weights /\ raw \in Int /\ v.unit * q \in Nat \ {0}
      /\ num = Clamp(raw, 0, 100 * (v.unit * q))
      /\ AtsOf(i).den = v.unit * q
  BY AtsOfInput
<1>2. PICK k \in Nat \ {0} : v.unit = k * w.unit /\ v.context = k * w.context
  BY <1>1, ModeLaws DEF Inputs, WeightsOf
<1>3. Normalised(v)
  BY <1>1, ModeLaws DEF Inputs, WeightsOf
<1>4. q \in Nat \ {0} /\ p \in Int /\ p <= 100 * q
  BY BehaviorRange
<1>5. raw <= 100 * (v.unit - v.context) * q
  <2>1. CredentialOf(i) \in 0..100 /\ ContextScore(i.risk) \in 0..100
    BY AtsOfInput
  <2>2. raw = Raw(v, CredentialOf(i), p, q, ContextScore(i.risk))
    BY DEF RawOf
  <2> HIDE DEF v, q, p, raw
  <2> QED BY <1>1, <1>3, <1>4, <2>1, <2>2, RawCeiling
<1>6. /\ v.unit \in Nat \ {0} /\ v.context \in Nat /\ v.context <= v.unit
      /\ w.unit \in Nat \ {0} /\ w.context \in Nat
  BY <1>1 DEF Weights
<1> HIDE DEF w, v, q, p, raw, num
<1>7. num \in Int /\ num <= 100 * (v.unit - v.context) * q
  <2>1. 100 * (v.unit - v.context) * q \in Nat
    BY <1>4, <1>6
  <2>2. num \in Int /\ (num <= raw \/ num = 0)
    BY <1>1 DEF Clamp
  <2> QED BY <1>1, <1>5, <2>1, <2>2
<1>8. num <= 100 * (k * w.unit - k * w.context) * q
  BY <1>2, <1>7
<1>9. num * w.unit <= 100 * (w.unit - w.context) * ((k * w.unit) * q)
  BY <1>4, <1>6, <1>7, <1>8, Rescale
<1> QED
  BY <1>1, <1>2, <1>7, <1>9 DEF num, w

\* The ceiling, for every vector that adds up to one, in every mode; with the
\* default weights it keeps the score out of the ALLOW band.
THEOREM Ceiling == Spec => []CeilingBelowAllow
<1>1. input \in Inputs => CeilingBelowAllow
  <2> SUFFICES ASSUME input \in Inputs PROVE CeilingBelowAllow
    OBVIOUS
  <2>1. ASSUME input.weights = DefaultWeights
        PROVE  Band(AtsOf(input), DefaultThresholds) # "ALLOW"
    <3>1. /\ Normalised(input.weights)
          /\ input.weights.unit = 100 /\ input.weights.context = 15
      BY <2>1 DEF DefaultWeights, Normalised, Positive
    <3>2. /\ AtsOf(input).num \in Int /\ AtsOf(input).den \in Nat \ {0}
          /\ AtsOf(input).num * 100 <= 100 * (100 - 15) * AtsOf(input).den
      BY <3>1, CeilingOfInput
    <3>3. ~(AtsOf(input).num >= 90 * AtsOf(input).den)
      BY <3>2
    <3> QED BY <3>3 DEF Band, AtLeast, DefaultThresholds
  <2> QED BY <2>1, CeilingOfInput DEF CeilingBelowAllow
<1> QED
  BY <1>1, InputCorrect, PTL

-----------------------------------------------------------------------------
(* Worse evidence *)

\* Input j has the weights of i, and is nowhere better.
Worse(i, j) ==
  /\ WeightsOf(j) = WeightsOf(i)
  /\ BehaviorOf(j).den = BehaviorOf(i).den
  /\ BehaviorOf(j).num <= BehaviorOf(i).num
  /\ CredentialOf(j) <= CredentialOf(i)
  /\ ContextScore(i.risk) <= ContextScore(j.risk)

LEMMA HistoryWorse ==
  ASSUME NEW b \in BOOLEAN, NEW n \in Nat, NEW k \in Nat, k < n
  PROVE  /\ HistoryBehavior(b, n, k + 1).den = HistoryBehavior(b, n, k).den
         /\ HistoryBehavior(b, n, k + 1).num <= HistoryBehavior(b, n, k).num
BY DEF HistoryBehavior

LEMMA CredentialWorse ==
  ASSUME NEW e \in Int, NEW t \in Int
  PROVE  CredentialScore(TRUE, 0, e, t + 1, TRUE) <= CredentialScore(TRUE, 0, e, t, TRUE)
BY DEF CredentialScore

LEMMA ClampWorse ==
  ASSUME NEW a \in Int, NEW b \in Int, a <= b, NEW high \in Nat
  PROVE  Clamp(a, 0, high) <= Clamp(b, 0, high)
BY DEF Clamp

\* Each step makes one dimension worse and leaves the others.
LEMMA StepWorse ==
  ASSUME input \in Inputs, Next PROVE Worse(input, input')
<1> DEFINE i == input
           j == input'
<1>1. i \in Inputs /\ j \in Inputs
  BY StepInput
<1>2. /\ CredentialOf(i) \in Int /\ ContextScore(i.risk) \in Int
      /\ BehaviorOf(i).num \in Int
  BY <1>1, AtsOfInput, BehaviorRange
<1>3. CASE WithheldAgain
  <2>1. /\ ~i.injected /\ i.withheld < i.own /\ i.own \in Nat /\ i.withheld \in Nat
        /\ i.onPurpose \in BOOLEAN
        /\ j = [i EXCEPT !.withheld = i.withheld + 1]
    BY <1>3 DEF WithheldAgain, Inputs
  <2>2. /\ j.weights = i.weights /\ j.mode = i.mode /\ j.exp = i.exp /\ j.now = i.now
        /\ j.risk = i.risk /\ j.own = i.own /\ j.onPurpose = i.onPurpose
        /\ j.injected = i.injected /\ j.withheld = i.withheld + 1
    BY <1>1, <2>1 DEF Inputs
  <2>3. /\ WeightsOf(j) = WeightsOf(i) /\ CredentialOf(j) = CredentialOf(i)
        /\ ContextScore(j.risk) = ContextScore(i.risk)
    BY <2>2 DEF WeightsOf, CredentialOf
  <2>4. /\ BehaviorOf(i) = HistoryBehavior(i.onPurpose, i.own, i.withheld)
        /\ BehaviorOf(j) = HistoryBehavior(i.onPurpose, i.own, i.withheld + 1)
    BY <2>1, <2>2 DEF BehaviorOf
  <2>5. /\ BehaviorOf(j).den = BehaviorOf(i).den
        /\ BehaviorOf(j).num <= BehaviorOf(i).num
    BY <2>1, <2>4, HistoryWorse
  <2> QED BY <1>2, <2>3, <2>5 DEF Worse
<1>4. CASE Deviate
  <2>1. /\ i.injected /\ i.deviation \in Int
        /\ j = [i EXCEPT !.deviation = i.deviation + 40]
    BY <1>4 DEF Deviate, Inputs
  <2>2. /\ j.weights = i.weights /\ j.mode = i.mode /\ j.exp = i.exp /\ j.now = i.now
        /\ j.risk = i.risk /\ j.injected = i.injected
        /\ j.deviation = i.deviation + 40
    BY <1>1, <2>1 DEF Inputs
  <2>3. /\ WeightsOf(j) = WeightsOf(i) /\ CredentialOf(j) = CredentialOf(i)
        /\ ContextScore(j.risk) = ContextScore(i.risk)
    BY <2>2 DEF WeightsOf, CredentialOf
  <2>4. /\ BehaviorOf(i) = DeviationBehavior(i.deviation)
        /\ BehaviorOf(j) = DeviationBehavior(i.deviation + 40)
    BY <2>1, <2>2 DEF BehaviorOf
  <2>5. /\ BehaviorOf(j).den = BehaviorOf(i).den
        /\ BehaviorOf(j).num <= BehaviorOf(i).num
    BY <2>1, <2>4 DEF DeviationBehavior, Clamp
  <2> QED BY <1>2, <2>3, <2>5 DEF Worse
<1>5. CASE RiskGrows
  <2>1. i.risk \in Int /\ j = [i EXCEPT !.risk = i.risk + 40]
    BY <1>5 DEF RiskGrows, Inputs
  <2>2. /\ j.weights = i.weights /\ j.mode = i.mode /\ j.exp = i.exp /\ j.now = i.now
        /\ j.own = i.own /\ j.onPurpose = i.onPurpose /\ j.injected = i.injected
        /\ j.withheld = i.withheld /\ j.deviation = i.deviation
        /\ j.risk = i.risk + 40
    BY <1>1, <2>1 DEF Inputs
  <2>3. /\ WeightsOf(j) = WeightsOf(i) /\ CredentialOf(j) = CredentialOf(i)
        /\ BehaviorOf(j) = BehaviorOf(i)
    BY <2>2 DEF WeightsOf, CredentialOf, BehaviorOf
  <2>4. ContextScore(i.risk) <= ContextScore(j.risk)
    BY <2>1, <2>2 DEF ContextScore, Clamp
  <2> QED BY <1>2, <2>3, <2>4 DEF Worse
<1>6. CASE TokenAges
  <2>1. i.now \in Int /\ i.exp \in Int /\ j = [i EXCEPT !.now = i.now + 1]
    BY <1>6, WalkAssumption DEF TokenAges, Inputs
  <2>2. /\ j.weights = i.weights /\ j.mode = i.mode /\ j.exp = i.exp
        /\ j.own = i.own /\ j.onPurpose = i.onPurpose /\ j.injected = i.injected
        /\ j.withheld = i.withheld /\ j.deviation = i.deviation
        /\ j.risk = i.risk /\ j.now = i.now + 1
    BY <1>1, <2>1 DEF Inputs
  <2>3. /\ WeightsOf(j) = WeightsOf(i) /\ BehaviorOf(j) = BehaviorOf(i)
        /\ ContextScore(j.risk) = ContextScore(i.risk)
    BY <2>2 DEF WeightsOf, BehaviorOf
  <2>4. CredentialOf(j) <= CredentialOf(i)
    <3>1. CredentialScore(TRUE, 0, i.exp, i.now + 1, TRUE)
            <= CredentialScore(TRUE, 0, i.exp, i.now, TRUE)
      BY <2>1, CredentialWorse
    <3>2. /\ CredentialOf(j) = CredentialScore(TRUE, 0, i.exp, i.now + 1, TRUE)
          /\ CredentialOf(i) = CredentialScore(TRUE, 0, i.exp, i.now, TRUE)
      BY <2>2 DEF CredentialOf
    <3> QED BY <3>1, <3>2
  <2> QED BY <1>2, <2>3, <2>4 DEF Worse
<1> QED
  BY <1>3, <1>4, <1>5, <1>6 DEF Next

LEMMA WorseScore ==
  ASSUME NEW i \in Inputs, NEW j \in Inputs, Worse(i, j)
  PROVE  /\ AtsOf(i).num \in Int /\ AtsOf(j).num \in Int
         /\ AtsOf(i).den \in Int /\ AtsOf(j).den = AtsOf(i).den
         /\ AtsOf(j).num <= AtsOf(i).num
<1> DEFINE v == WeightsOf(i)
           q == BehaviorOf(i).den
<1>1. /\ v \in Weights /\ q \in Nat /\ v.unit * q \in Nat
      /\ BehaviorOf(i).num \in Int /\ BehaviorOf(j).num \in Int
      /\ CredentialOf(i) \in Int /\ CredentialOf(j) \in Int
      /\ ContextScore(i.risk) \in Int /\ ContextScore(j.risk) \in Int
      /\ RawOf(i) \in Int /\ RawOf(j) \in Int
  BY AtsOfInput, BehaviorRange
<1>2. /\ AtsOf(i) = [num |-> Clamp(RawOf(i), 0, 100 * (v.unit * q)), den |-> v.unit * q]
      /\ AtsOf(j) = [num |-> Clamp(RawOf(j), 0, 100 * (v.unit * q)), den |-> v.unit * q]
  BY AtsOfInput DEF Worse
<1>3. RawOf(j) <= RawOf(i)
  <2>1. /\ RawOf(i) = Raw(v, CredentialOf(i), BehaviorOf(i).num, q, ContextScore(i.risk))
        /\ RawOf(j) = Raw(v, CredentialOf(j), BehaviorOf(j).num, q, ContextScore(j.risk))
    BY DEF RawOf, Worse
  <2> HIDE DEF v, q
  <2> QED BY <1>1, <2>1, RawMonotone DEF Worse
<1> HIDE DEF v, q
<1>4. 100 * (v.unit * q) \in Nat
  BY <1>1
<1>5. Clamp(RawOf(j), 0, 100 * (v.unit * q)) <= Clamp(RawOf(i), 0, 100 * (v.unit * q))
  BY <1>1, <1>3, <1>4, ClampWorse
<1>6. /\ Clamp(RawOf(j), 0, 100 * (v.unit * q)) \in Int
      /\ Clamp(RawOf(i), 0, 100 * (v.unit * q)) \in Int
  BY <1>1, <1>4 DEF Clamp
<1> QED
  BY <1>1, <1>2, <1>5, <1>6

LEMMA RankValues ==
  /\ Rank("ALLOW") = 4 /\ Rank("ALLOW_WITH_RESTRICTIONS") = 3
  /\ Rank("ADDITIONAL_VERIFICATION") = 2 /\ Rank("REQUIRE_HUMAN_APPROVAL") = 1
  /\ Rank("DENY") = 0
BY DEF Rank

\* A lower score never bands higher, in whatever order the thresholds are.
LEMMA BandMonotone ==
  ASSUME NEW n \in Int, NEW k \in Int, k <= n, NEW d \in Int,
         NEW t \in [allow : Int, restrict : Int, verify : Int, approval : Int]
  PROVE  Rank(Band([num |-> k, den |-> d], t)) <= Rank(Band([num |-> n, den |-> d], t))
<1>1. /\ t.allow * d \in Int /\ t.restrict * d \in Int /\ t.verify * d \in Int
      /\ t.approval * d \in Int
  OBVIOUS
<1>2. \A m \in Int : \A x : AtLeast([num |-> m, den |-> d], x) <=> m >= x * d
  BY DEF AtLeast
<1> QED
  BY <1>1, <1>2, RankValues DEF Band

\* Worse evidence never leads to a higher score nor to a more permissive outcome,
\* for all weights and thresholds.
THEOREM WorseNeverHelps == Spec => WorseEvidenceNeverHelps
<1>1. input \in Inputs /\ [Next]_input =>
        [/\ AtsOf(input').den = AtsOf(input).den
         /\ AtsOf(input').num <= AtsOf(input).num
         /\ \A t \in ThresholdVectors :
              Rank(Band(AtsOf(input'), t)) <= Rank(Band(AtsOf(input), t))]_input
  <2> SUFFICES ASSUME input \in Inputs, Next
               PROVE  /\ AtsOf(input').den = AtsOf(input).den
                      /\ AtsOf(input').num <= AtsOf(input).num
                      /\ \A t \in ThresholdVectors :
                           Rank(Band(AtsOf(input'), t)) <= Rank(Band(AtsOf(input), t))
    OBVIOUS
  <2>1. /\ AtsOf(input).num \in Int /\ AtsOf(input').num \in Int
        /\ AtsOf(input).den \in Int /\ AtsOf(input').den = AtsOf(input).den
        /\ AtsOf(input').num <= AtsOf(input).num
    BY StepInput, StepWorse, WorseScore
  <2>2. ASSUME NEW t \in ThresholdVectors
        PROVE  Rank(Band(AtsOf(input'), t)) <= Rank(Band(AtsOf(input), t))
    <3> DEFINE n == AtsOf(input).num
               k == AtsOf(input').num
               d == AtsOf(input).den
    <3>1. /\ AtsOf(input) = [num |-> n, den |-> d]
          /\ AtsOf(input') = [num |-> k, den |-> d]
      BY <2>1, StepInput, AtsOfInput
    <3>2. t \in [allow : Int, restrict : Int, verify : Int, approval : Int]
      BY ThresholdsAssumption
    <3>3. n \in Int /\ k \in Int /\ d \in Int /\ k <= n
      BY <2>1
    <3> HIDE DEF n, k, d
    <3> QED BY <3>1, <3>2, <3>3, BandMonotone
  <2> QED BY <2>1, <2>2
<1> QED
  BY <1>1, InputCorrect, PTL DEF Spec, WorseEvidenceNeverHelps

=============================================================================
