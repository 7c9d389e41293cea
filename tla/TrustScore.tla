----------------------------- MODULE TrustScore -----------------------------
(***************************************************************************)
(* The Agent Trust Score of ats.py and the banding of gateway.py, as pure  *)
(* operators.  The code computes in floats; here every quantity is exact:  *)
(*   - a weight vector is a record of integers over the common             *)
(*     denominator `unit', so 0.25 is 25 of 100;                           *)
(*   - a score is a fraction [num, den] on the scale 0..100;               *)
(*   - an injected deviation or risk is an integer percentage.             *)
(* Rounding is therefore not modelled.                                     *)
(***************************************************************************)
EXTENDS Integers, FiniteSets

Outcomes == {"ALLOW", "ALLOW_WITH_RESTRICTIONS", "ADDITIONAL_VERIFICATION",
             "REQUIRE_HUMAN_APPROVAL", "DENY"}

\* Decision.autonomously_permitted
AutonomouslyPermitted == {"ALLOW", "ALLOW_WITH_RESTRICTIONS"}

\* Seeded fault: only outright denials are counted.
FaultWithheldDenyOnly == {"DENY"}

\* The outcomes behavior_score counts against an agent.
Withheld == {"DENY", "REQUIRE_HUMAN_APPROVAL", "ADDITIONAL_VERIFICATION"}

\* From the most to the least permissive.
Rank(outcome) == CASE outcome = "ALLOW" -> 4
                   [] outcome = "ALLOW_WITH_RESTRICTIONS" -> 3
                   [] outcome = "ADDITIONAL_VERIFICATION" -> 2
                   [] outcome = "REQUIRE_HUMAN_APPROVAL" -> 1
                   [] OTHER -> 0

-----------------------------------------------------------------------------
Clamp(x, low, high) == IF x < low THEN low ELSE IF x > high THEN high ELSE x

\* A fraction [num, den] compared with an integer threshold, without dividing.
AtLeast(fraction, threshold) == fraction.num >= threshold * fraction.den

-----------------------------------------------------------------------------
(* Weights *)

DefaultWeights == [unit |-> 100, identity |-> 20, credential |-> 10,
                   authorization |-> 20, behavior |-> 25, resource |-> 10,
                   context |-> 15]

Positive(w) == w.identity + w.credential + w.authorization + w.behavior
                 + w.resource

Drop(w, names) == [n \in DOMAIN w |-> IF n \in names THEN 0 ELSE w[n]]

\* without() raises ValueError unless a positive weight is left.
CanDrop(w, names) == Positive(Drop(w, names)) > 0

\* Seeded fault: scaled to 1 as if the context weight were not subtracted.
FaultWithoutContext(w, names) ==
  LET d == Drop(w, names)
  IN  [n \in DOMAIN w |-> CASE n = "unit" -> d.unit * Positive(d)
                            [] n = "context" -> d.context * Positive(d)
                            [] OTHER -> d[n] * d.unit]

\* The named weights become 0 and the other positive ones are scaled by
\* (1 - context) / positive; the new common denominator is unit * positive.
Without(w, names) ==
  LET d == Drop(w, names)
      scale == d.unit - d.context
  IN  [unit          |-> d.unit * Positive(d),
       identity      |-> d.identity * scale,
       credential    |-> d.credential * scale,
       authorization |-> d.authorization * scale,
       behavior      |-> d.behavior * scale,
       resource      |-> d.resource * scale,
       context       |-> d.context * Positive(d)]

-----------------------------------------------------------------------------
(* The dimensions *)

IdentityScore(verified) == IF verified THEN 100 ELSE 0

AuthorizationScore(authorized) == IF authorized THEN 100 ELSE 0

ResourceScore(trusted) == IF trusted THEN 100 ELSE 10

\* remaining_fraction = max(0, (exp - now) / max(1, exp - iat)).
CredentialScore(valid, iat, exp, now, audienceOk) ==
  LET lifetime == IF exp - iat > 1 THEN exp - iat ELSE 1
      freshness == IF 2 * (exp - now) >= lifetime THEN 15
                   ELSE IF exp > now THEN 5 ELSE 0
  IN  IF valid THEN 70 + freshness + (IF audienceOk THEN 15 ELSE 0) ELSE 0

\* behavior_score with an injected deviation, and without one.
DeviationBehavior(deviation) == [num |-> 100 - Clamp(deviation, 0, 100),
                                 den |-> 1]

\* Seeded faults: the permitted events are counted, the penalty is not halved,
\* an agent without events is taken to be on purpose.
FaultHistoryPermitted(onPurpose, own, withheld) ==
  LET base == IF onPurpose THEN 100 ELSE 40
  IN  IF own = 0 THEN [num |-> base, den |-> 1]
      ELSE [num |-> base * (own + withheld), den |-> 2 * own]

FaultHistoryUnhalved(onPurpose, own, withheld) ==
  LET base == IF onPurpose THEN 100 ELSE 40
  IN  IF own = 0 THEN [num |-> base, den |-> 1]
      ELSE [num |-> base * (own - withheld), den |-> own]

FaultHistoryNewcomer(onPurpose, own, withheld) ==
  LET base == IF onPurpose \/ own = 0 THEN 100 ELSE 40
  IN  IF own = 0 THEN [num |-> base, den |-> 1]
      ELSE [num |-> base * (2 * own - withheld), den |-> 2 * own]

\* `own' of the last audit events are the agent's, `withheld' of them denied.
HistoryBehavior(onPurpose, own, withheld) ==
  LET base == IF onPurpose THEN 100 ELSE 40
  IN  IF own = 0 THEN [num |-> base, den |-> 1]
      ELSE [num |-> base * (2 * own - withheld), den |-> 2 * own]

ContextScore(risk) == Clamp(risk, 0, 100)

-----------------------------------------------------------------------------
(* Combination and banding *)

\* Seeded fault: the context term is added.
FaultCombineAddsContext(w, i, c, a, b, r, x) ==
  LET plain == w.identity * i + w.credential * c + w.authorization * a
                 + w.resource * r + w.context * x
      den == w.unit * b.den
  IN  [num |-> Clamp(plain * b.den + w.behavior * b.num, 0, 100 * den),
       den |-> den]

\* AtsWeights.combine: `b' is a fraction, the other dimensions are integers.
Combine(w, i, c, a, b, r, x) ==
  LET plain == w.identity * i + w.credential * c + w.authorization * a
                 + w.resource * r - w.context * x
      den == w.unit * b.den
  IN  [num |-> Clamp(plain * b.den + w.behavior * b.num, 0, 100 * den),
       den |-> den]

DefaultThresholds == [allow |-> 90, restrict |-> 75, verify |-> 60,
                      approval |-> 40]

Band(ats, t) == IF AtLeast(ats, t.allow) THEN "ALLOW"
                ELSE IF AtLeast(ats, t.restrict) THEN "ALLOW_WITH_RESTRICTIONS"
                ELSE IF AtLeast(ats, t.verify) THEN "ADDITIONAL_VERIFICATION"
                ELSE IF AtLeast(ats, t.approval) THEN "REQUIRE_HUMAN_APPROVAL"
                ELSE "DENY"

-----------------------------------------------------------------------------
(* The score part of _trustagent, reached once every hard check passed *)

ScoringModes == {"B3", "B3_NO_BEHAVIOR", "B3_NO_RESOURCE"}

\* Seeded fault: the two ablations are swapped.
FaultModeWeightsSwapped(w, mode) ==
  CASE mode = "B3_NO_BEHAVIOR" -> Without(w, {"resource"})
    [] mode = "B3_NO_RESOURCE" -> Without(w, {"behavior"})
    [] OTHER -> w

ModeWeights(w, mode) ==
  CASE mode = "B3_NO_BEHAVIOR" -> Without(w, {"behavior"})
    [] mode = "B3_NO_RESOURCE" -> Without(w, {"resource"})
    [] OTHER -> w

Ats(w, mode, credential, behavior, risk) ==
  Combine(ModeWeights(w, mode), IdentityScore(TRUE), credential,
          AuthorizationScore(TRUE), behavior, ResourceScore(TRUE),
          ContextScore(risk))

=============================================================================
