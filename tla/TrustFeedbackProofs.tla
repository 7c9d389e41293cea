------------------------- MODULE TrustFeedbackProofs -------------------------
(***************************************************************************)
(* Proofs about TrustFeedback, for any agents, window length, deviations   *)
(* and risks.                                                              *)
(***************************************************************************)
EXTENDS TrustFeedback, FiniteSetTheorems, TLAPS

-----------------------------------------------------------------------------
(* Facts about the audit window                                              *)

\* Recording an event keeps a log a log, and no longer than the window.
LEMMA PushLog ==
  ASSUME NEW S, NEW log \in Seq(Event(S)), Len(log) <= Window,
         NEW e \in Event(S)
  PROVE  Push(log, e) \in Seq(Event(S)) /\ Len(Push(log, e)) <= Window
<1>1. CASE Len(log) < Window
  BY <1>1, WindowAssumption DEF Push
<1>2. CASE ~(Len(log) < Window)
  <2>1. Len(log) = Window /\ log # <<>>
    BY <1>2, WindowAssumption
  <2>2. Tail(log) \in Seq(Event(S)) /\ Len(Tail(log)) = Window - 1
    BY <2>1, WindowAssumption
  <2>3. Push(log, e) = Append(Tail(log), e)
    BY <1>2 DEF Push
  <2> QED
    BY <2>2, <2>3, WindowAssumption
<1> QED
  BY <1>1, <1>2

\* How many of an agent's visible events were withheld, out of how many.
LEMMA OwnCounts ==
  ASSUME NEW S, NEW log \in Seq(Event(S)), NEW a
  PROVE  /\ IsFiniteSet(Own(log, a))
         /\ Cardinality(Own(log, a)) \in Nat
         /\ Cardinality(OwnWithheld(log, a)) \in Nat
         /\ Cardinality(OwnWithheld(log, a)) <= Cardinality(Own(log, a))
         /\ Cardinality(Own(log, a)) = 0 <=> Own(log, a) = {}
<1>1. Len(log) \in Nat /\ DOMAIN log = 1..Len(log)
  OBVIOUS
<1>2. IsFiniteSet(DOMAIN log)
  BY <1>1, FS_Interval
<1>3. Own(log, a) \subseteq DOMAIN log /\ OwnWithheld(log, a) \subseteq Own(log, a)
  BY DEF Own, OwnWithheld
<1>4. IsFiniteSet(Own(log, a))
  BY <1>2, <1>3, FS_Subset
<1>5. /\ IsFiniteSet(OwnWithheld(log, a))
      /\ Cardinality(OwnWithheld(log, a)) <= Cardinality(Own(log, a))
  BY <1>3, <1>4, FS_Subset
<1> QED
  BY <1>4, <1>5, FS_CardinalityType, FS_EmptySet

\* An event of the log after a recording was in it before, or is the new one.
LEMMA PushOldOrNew ==
  ASSUME NEW S, NEW log \in Seq(Event(S)), Len(log) <= Window,
         NEW e \in Event(S), NEW i \in DOMAIN Push(log, e)
  PROVE  Push(log, e)[i] = e \/ \E j \in DOMAIN log : Push(log, e)[i] = log[j]
<1>1. CASE Len(log) < Window
  <2>1. Push(log, e) = Append(log, e)
    BY <1>1 DEF Push
  <2>2. i \in 1..(Len(log) + 1)
    BY <2>1
  <2>3. CASE i = Len(log) + 1
    BY <2>1, <2>3
  <2>4. CASE i # Len(log) + 1
    <3>1. i \in DOMAIN log
      BY <2>2, <2>4
    <3>2. Push(log, e)[i] = log[i]
      BY <2>1, <3>1
    <3> QED
      BY <3>1, <3>2
  <2> QED
    BY <2>3, <2>4
<1>2. CASE ~(Len(log) < Window)
  <2> DEFINE t == Tail(log)
  <2>1. Len(log) = Window /\ log # <<>>
    BY <1>2, WindowAssumption
  <2>2. /\ t \in Seq(Event(S))
        /\ Len(t) = Len(log) - 1
        /\ \A k \in 1..Len(t) : t[k] = log[k + 1]
    BY <2>1, WindowAssumption
  <2>3. Push(log, e) = Append(t, e)
    BY <1>2 DEF Push
  <2> HIDE DEF t
  <2>4. i \in 1..(Len(t) + 1)
    BY <2>2, <2>3
  <2>5. CASE i = Len(t) + 1
    BY <2>2, <2>3, <2>5
  <2>6. CASE i # Len(t) + 1
    <3>1. i \in 1..Len(t)
      BY <2>2, <2>4, <2>6
    <3>2. Push(log, e)[i] = t[i]
      BY <2>2, <2>3, <3>1
    <3>3. i + 1 \in DOMAIN log /\ t[i] = log[i + 1]
      BY <2>2, <3>1
    <3> QED
      BY <3>2, <3>3
  <2> QED
    BY <2>5, <2>6
<1> QED
  BY <1>1, <1>2

-----------------------------------------------------------------------------
(* Type correctness *)

LEMMA RecordType ==
  ASSUME TypeOK, NEW a \in Agents, NEW outcome, Record(a, outcome)
  PROVE  events' \in Seq(Event(Agents)) /\ Len(events') <= Window
<1>1. [agent |-> a, withheld |-> outcome \in Withheld] \in Event(Agents)
  BY DEF Event
<1> QED
  BY <1>1, PushLog DEF TypeOK, Record

\* The mode never changes and the log stays a log of at most Window events.
THEOREM TypeCorrect == Spec => []TypeOK
<1>1. Init => TypeOK
  BY WindowAssumption DEF Init, TypeOK
<1>2. TypeOK /\ [Next]_vars => TypeOK'
  <2> SUFFICES ASSUME TypeOK, [Next]_vars PROVE TypeOK'
    OBVIOUS
  <2>1. CASE UNCHANGED vars
    BY <2>1 DEF TypeOK, vars
  <2>2. ASSUME NEW a \in Agents, HardDeny(a) PROVE TypeOK'
    BY <2>2, RecordType DEF HardDeny, TypeOK
  <2>3. ASSUME NEW a \in Agents, NEW c \in CredentialScores, NEW p \in BOOLEAN,
               NEW x \in Risks, ScoreOnHistory(a, c, p, x)
        PROVE  TypeOK'
    BY <2>3, RecordType DEF ScoreOnHistory, TypeOK
  <2>4. ASSUME NEW a \in Agents, NEW c \in CredentialScores,
               NEW d \in Deviations, NEW x \in Risks, ScoreInjected(a, c, d, x)
        PROVE  TypeOK'
    BY <2>4, RecordType DEF ScoreInjected, TypeOK
  <2> QED
    BY <2>1, <2>2, <2>3, <2>4 DEF Next
<1> QED
  BY <1>1, <1>2, PTL DEF Spec

-----------------------------------------------------------------------------
(* The score *)

\* A clamped score is permitted exactly when it reaches the restrict threshold
\* before clamping.
LEMMA BandPermits ==
  ASSUME NEW v \in Int, NEW d \in Nat \ {0}
  PROVE  Band([num |-> Clamp(v, 0, 100 * d), den |-> d], DefaultThresholds)
           \in AutonomouslyPermitted
         <=> v >= 75 * d
BY DEF Band, Clamp, DefaultThresholds, AtLeast, AutonomouslyPermitted

LEMMA ContextRange ==
  ASSUME NEW x \in Int
  PROVE  ContextScore(x) \in 0..100
BY DEF ContextScore, Clamp

\* What Ats computes, mode by mode, for a behaviour score of p/q.
LEMMA AtsB3 ==
  ASSUME NEW c \in Int, NEW p \in Int, NEW q \in Nat, NEW x \in Int
  PROVE  Ats(DefaultWeights, "B3", c, [num |-> p, den |-> q], x)
           = [num |-> Clamp((5000 + 10 * c - 15 * ContextScore(x)) * q + 25 * p,
                            0, 100 * (100 * q)),
              den |-> 100 * q]
BY ContextRange DEF Ats, ModeWeights, DefaultWeights, Combine, IdentityScore,
                    AuthorizationScore, ResourceScore

LEMMA AtsNoResource ==
  ASSUME NEW c \in Int, NEW p \in Int, NEW q \in Nat, NEW x \in Int
  PROVE  Ats(DefaultWeights, "B3_NO_RESOURCE", c, [num |-> p, den |-> q], x)
           = [num |-> Clamp((340000 + 850 * c - 1125 * ContextScore(x)) * q
                              + 2125 * p, 0, 100 * (7500 * q)),
              den |-> 7500 * q]
<1>1. Drop(DefaultWeights, {"resource"})
        = [unit |-> 100, identity |-> 20, credential |-> 10,
           authorization |-> 20, behavior |-> 25, resource |-> 0,
           context |-> 15]
  BY DEF Drop, DefaultWeights
<1>2. ModeWeights(DefaultWeights, "B3_NO_RESOURCE")
        = [unit |-> 7500, identity |-> 1700, credential |-> 850,
           authorization |-> 1700, behavior |-> 2125, resource |-> 0,
           context |-> 1125]
  BY <1>1 DEF ModeWeights, Without, Positive
<1> QED
  BY <1>2, ContextRange DEF Ats, Combine, IdentityScore, AuthorizationScore,
                            ResourceScore

LEMMA AtsNoBehavior ==
  ASSUME NEW c \in Int, NEW p \in Int, NEW q \in Nat, NEW x \in Int
  PROVE  Ats(DefaultWeights, "B3_NO_BEHAVIOR", c, [num |-> p, den |-> q], x)
           = [num |-> Clamp((425000 + 850 * c - 900 * ContextScore(x)) * q + 0 * p,
                            0, 100 * (6000 * q)),
              den |-> 6000 * q]
<1>1. Drop(DefaultWeights, {"behavior"})
        = [unit |-> 100, identity |-> 20, credential |-> 10,
           authorization |-> 20, behavior |-> 0, resource |-> 10,
           context |-> 15]
  BY DEF Drop, DefaultWeights
<1>2. ModeWeights(DefaultWeights, "B3_NO_BEHAVIOR")
        = [unit |-> 6000, identity |-> 1700, credential |-> 850,
           authorization |-> 1700, behavior |-> 0, resource |-> 850,
           context |-> 900]
  BY <1>1 DEF ModeWeights, Without, Positive
<1> QED
  BY <1>2, ContextRange DEF Ats, Combine, IdentityScore, AuthorizationScore,
                            ResourceScore

LEMMA TimesMonotone ==
  ASSUME NEW a \in Int, NEW b \in Int, a <= b, NEW q \in Nat
  PROVE  a * q <= b * q
OBVIOUS

\* Half of the full behaviour score is too little, however fresh the token and
\* low the risk, in the modes that count behaviour.
LEMMA LowBehaviorWithheld ==
  ASSUME NEW m \in ScoringModes, m # "B3_NO_BEHAVIOR",
         NEW c \in CredentialScores, NEW x \in Int,
         NEW p \in Int, NEW q \in Nat \ {0}, p <= 50 * q
  PROVE  Band(Ats(DefaultWeights, m, c, [num |-> p, den |-> q], x),
              DefaultThresholds) \notin AutonomouslyPermitted
<1>1. c \in Int /\ c <= 100
  BY DEF CredentialScores
<1>2. ContextScore(x) \in Int /\ 0 <= ContextScore(x)
  BY ContextRange
<1>3. CASE m = "B3"
  <2> DEFINE k == 5000 + 10 * c - 15 * ContextScore(x)
             v == k * q + 25 * p
  <2>1. k \in Int /\ k <= 6000
    BY <1>1, <1>2
  <2>2. k * q <= 6000 * q
    BY <2>1, TimesMonotone
  <2>3. k * q \in Int /\ v \in Int /\ v < 75 * (100 * q)
    <3>1. k * q \in Int
      BY <2>1
    <3> HIDE DEF k
    <3> QED
      BY <2>2, <3>1
  <2>4. 100 * q \in Nat \ {0}
    OBVIOUS
  <2>5. Band([num |-> Clamp(v, 0, 100 * (100 * q)), den |-> 100 * q],
             DefaultThresholds) \notin AutonomouslyPermitted
    <3> HIDE DEF v
    <3> QED
      BY <2>3, <2>4, BandPermits
  <2> QED
    BY <1>1, <1>3, <2>5, AtsB3
<1>4. CASE m = "B3_NO_RESOURCE"
  <2> DEFINE k == 340000 + 850 * c - 1125 * ContextScore(x)
             v == k * q + 2125 * p
  <2>1. k \in Int /\ k <= 425000
    BY <1>1, <1>2
  <2>2. k * q <= 425000 * q
    BY <2>1, TimesMonotone
  <2>3. k * q \in Int /\ v \in Int /\ v < 75 * (7500 * q)
    <3>1. k * q \in Int
      BY <2>1
    <3> HIDE DEF k
    <3> QED
      BY <2>2, <3>1
  <2>4. 7500 * q \in Nat \ {0}
    OBVIOUS
  <2>5. Band([num |-> Clamp(v, 0, 100 * (7500 * q)), den |-> 7500 * q],
             DefaultThresholds) \notin AutonomouslyPermitted
    <3> HIDE DEF v
    <3> QED
      BY <2>3, <2>4, BandPermits
  <2> QED
    BY <1>1, <1>4, <2>5, AtsNoResource
<1> QED
  BY <1>3, <1>4 DEF ScoringModes

-----------------------------------------------------------------------------
(* Off-purpose work *)

\* The behaviour score of off-purpose work is at most 40.
LEMMA OffPurposeBehavior ==
  ASSUME NEW n \in Nat, NEW w \in Nat, w <= n
  PROVE  \E p \in Int, q \in Nat \ {0} :
           /\ HistoryBehavior(FALSE, n, w) = [num |-> p, den |-> q]
           /\ p <= 50 * q
<1>1. CASE n = 0
  BY <1>1 DEF HistoryBehavior
<1>2. CASE n # 0
  <2>1. HistoryBehavior(FALSE, n, w) = [num |-> 40 * (2 * n - w), den |-> 2 * n]
    BY <1>2 DEF HistoryBehavior
  <2>2. 40 * (2 * n - w) \in Int /\ 2 * n \in Nat \ {0}
    BY <1>2
  <2>3. 40 * (2 * n - w) <= 50 * (2 * n)
    BY <1>2
  <2> QED
    BY <2>1, <2>2, <2>3
<1> QED
  BY <1>1, <1>2

\* Work outside the declared purpose is never permitted on history, in any
\* reachable state, with any credential score and risk.
THEOREM OffPurpose == Spec => []OffPurposeNeverPermitted
<1>1. TypeOK => OffPurposeNeverPermitted
  <2> SUFFICES ASSUME TypeOK, BehaviorCounts, NEW a \in Agents,
                      NEW c \in CredentialScores, NEW x \in Risks
               PROVE  Decide(c, Behavior(events, a, FALSE), x)
                        \notin AutonomouslyPermitted
    BY DEF OffPurposeNeverPermitted
  <2>1. PICK p \in Int, q \in Nat \ {0} :
          Behavior(events, a, FALSE) = [num |-> p, den |-> q] /\ p <= 50 * q
    BY OwnCounts, OffPurposeBehavior DEF Behavior, TypeOK
  <2>2. x \in Int /\ mode \in ScoringModes /\ mode # "B3_NO_BEHAVIOR"
    BY PercentAssumption, ModesAssumption DEF TypeOK, BehaviorCounts
  <2> QED
    BY <2>1, <2>2, LowBehaviorWithheld DEF Decide
<1> QED
  BY <1>1, TypeCorrect, PTL

-----------------------------------------------------------------------------
(* The hold *)

\* A hold survives the recording of a withheld event, and of anybody else's.
LEMMA PushKeepsHold ==
  ASSUME NEW S, NEW log \in Seq(Event(S)), Len(log) <= Window,
         NEW e \in Event(S), NEW a, Held(log, a),
         e.agent # a \/ e.withheld, Own(Push(log, e), a) # {}
  PROVE  Held(Push(log, e), a)
<1>1. SUFFICES ASSUME NEW i \in Own(Push(log, e), a)
               PROVE  Push(log, e)[i].withheld
  BY <1>1 DEF Held, OwnWithheld
<1>2. i \in DOMAIN Push(log, e) /\ Push(log, e)[i].agent = a
  BY DEF Own
<1>3. CASE Push(log, e)[i] = e
  BY <1>2, <1>3
<1>4. CASE \E j \in DOMAIN log : Push(log, e)[i] = log[j]
  <2>1. PICK j \in DOMAIN log : Push(log, e)[i] = log[j]
    BY <1>4
  <2>2. j \in Own(log, a)
    BY <1>2, <2>1 DEF Own
  <2>3. j \in OwnWithheld(log, a)
    BY <2>2 DEF Held
  <2> QED
    BY <2>1, <2>3 DEF OwnWithheld
<1> QED
  BY <1>2, <1>3, <1>4, PushOldOrNew

\* The behaviour score of a held agent is at most half of the full one.
LEMMA HeldBehavior ==
  ASSUME NEW S, NEW log \in Seq(Event(S)), NEW a, Held(log, a),
         NEW onPurpose \in BOOLEAN
  PROVE  \E p \in Int, q \in Nat \ {0} :
           /\ Behavior(log, a, onPurpose) = [num |-> p, den |-> q]
           /\ p <= 50 * q
<1> DEFINE n == Cardinality(Own(log, a))
           base == IF onPurpose THEN 100 ELSE 40
<1>1. n \in Nat /\ n # 0
  BY OwnCounts DEF Held
<1>2. Cardinality(OwnWithheld(log, a)) = n
  BY DEF Held
<1>3. Behavior(log, a, onPurpose) = HistoryBehavior(onPurpose, n, n)
  BY <1>2 DEF Behavior
<1> HIDE DEF n
<1>4. HistoryBehavior(onPurpose, n, n)
        = [num |-> base * (2 * n - n), den |-> 2 * n]
  BY <1>1 DEF HistoryBehavior
<1>5. base * (2 * n - n) \in Int /\ 2 * n \in Nat \ {0}
  BY <1>1
<1>6. base * (2 * n - n) <= 50 * (2 * n)
  BY <1>1
<1> HIDE DEF base
<1> QED
  BY <1>3, <1>4, <1>5, <1>6

LEMMA BandIsOutcome ==
  ASSUME NEW ats
  PROVE  Band(ats, DefaultThresholds) \notin AutonomouslyPermitted
           => Band(ats, DefaultThresholds) \in Withheld
BY DEF Band, AutonomouslyPermitted, Withheld

\* In a mode that counts behaviour, an agent whose visible events were all
\* withheld is withheld again by every decision on its history, for ever: only
\* ageing by others' events or an injected deviation ends the hold.
THEOREM Hold == Spec => HoldFeedsItself
<1> DEFINE P == \A a \in Agents :
                  BehaviorCounts /\ Held(events, a) /\ Uninjected(a)
                    => Held(events', a) \/ Own(events', a) = {}
<1>1. TypeOK /\ [Next]_vars => [P]_vars
  <2> SUFFICES ASSUME TypeOK, NEW a \in Agents, BehaviorCounts,
                      Held(events, a), Own(events', a) # {}, Uninjected(a)
               PROVE  Held(events', a)
    OBVIOUS
  <2>1. ASSUME NEW b \in Agents, NEW outcome, Record(b, outcome),
               b # a \/ outcome \in Withheld
        PROVE  Held(events', a)
    <3> DEFINE e == [agent |-> b, withheld |-> outcome \in Withheld]
    <3>1. e \in Event(Agents)
      BY DEF Event
    <3>2. e.agent # a \/ e.withheld
      BY <2>1
    <3>3. events' = Push(events, e)
      BY <2>1 DEF Record
    <3> HIDE DEF e
    <3> QED
      BY <3>1, <3>2, <3>3, PushKeepsHold DEF TypeOK
  <2>2. ASSUME NEW b \in Agents, HardDeny(b) PROVE Held(events', a)
    BY <2>1, <2>2 DEF HardDeny, Withheld
  <2>3. ASSUME NEW b \in Agents, NEW c \in CredentialScores, NEW p \in BOOLEAN,
               NEW x \in Risks, ScoreOnHistory(b, c, p, x)
        PROVE  Held(events', a)
    <3> DEFINE outcome == Decide(c, Behavior(events, b, p), x)
    <3>1. b = a => outcome \in Withheld
      <4> SUFFICES ASSUME b = a PROVE outcome \in Withheld
        OBVIOUS
      <4>1. PICK n \in Int, q \in Nat \ {0} :
              Behavior(events, a, p) = [num |-> n, den |-> q] /\ n <= 50 * q
        BY HeldBehavior DEF TypeOK
      <4>2. x \in Int /\ mode \in ScoringModes /\ mode # "B3_NO_BEHAVIOR"
        BY PercentAssumption, ModesAssumption DEF TypeOK, BehaviorCounts
      <4> QED
        BY <4>1, <4>2, LowBehaviorWithheld, BandIsOutcome DEF Decide
    <3>2. Record(b, outcome)
      BY <2>3 DEF ScoreOnHistory
    <3> HIDE DEF outcome
    <3> QED
      BY <2>1, <3>1, <3>2
  <2>4. ASSUME NEW b \in Agents, b # a, NEW c \in CredentialScores,
               NEW d \in Deviations, NEW x \in Risks, ScoreInjected(b, c, d, x)
        PROVE  Held(events', a)
    BY <2>1, <2>4 DEF ScoreInjected
  <2> QED
    BY <2>2, <2>3, <2>4 DEF Uninjected
<1> QED
  BY <1>1, TypeCorrect, PTL DEF Spec, HoldFeedsItself

-----------------------------------------------------------------------------
(* The best request *)

\* When a request with a fresh token and no risk is permitted, by its behaviour.
LEMMA FreshPermitted ==
  ASSUME NEW p \in Int, NEW q \in Nat \ {0}
  PROVE  /\ Band(Ats(DefaultWeights, "B3", 100, [num |-> p, den |-> q], 0),
                 DefaultThresholds) \in AutonomouslyPermitted
              <=> 25 * p >= 1500 * q
         /\ Band(Ats(DefaultWeights, "B3_NO_RESOURCE", 100,
                     [num |-> p, den |-> q], 0),
                 DefaultThresholds) \in AutonomouslyPermitted
              <=> 2125 * p >= 137500 * q
         /\ Band(Ats(DefaultWeights, "B3_NO_BEHAVIOR", 100,
                     [num |-> p, den |-> q], 0),
                 DefaultThresholds) \in AutonomouslyPermitted
<1>1. ContextScore(0) = 0
  BY DEF ContextScore, Clamp
<1>2. /\ 100 * q \in Nat \ {0}
      /\ 7500 * q \in Nat \ {0}
      /\ 6000 * q \in Nat \ {0}
  BY SMT
<1>3. /\ (5000 + 10 * 100 - 15 * 0) * q + 25 * p \in Int
      /\ (340000 + 850 * 100 - 1125 * 0) * q + 2125 * p \in Int
      /\ (425000 + 850 * 100 - 900 * 0) * q + 0 * p \in Int
  BY SMT
<1>4. /\ (5000 + 10 * 100 - 15 * 0) * q + 25 * p >= 75 * (100 * q)
           <=> 25 * p >= 1500 * q
      /\ (340000 + 850 * 100 - 1125 * 0) * q + 2125 * p >= 75 * (7500 * q)
           <=> 2125 * p >= 137500 * q
      /\ (425000 + 850 * 100 - 900 * 0) * q + 0 * p >= 75 * (6000 * q)
  BY SMT
<1>5. Band(Ats(DefaultWeights, "B3", 100, [num |-> p, den |-> q], 0),
           DefaultThresholds) \in AutonomouslyPermitted
        <=> 25 * p >= 1500 * q
  <2>1. Band([num |-> Clamp((5000 + 10 * 100 - 15 * 0) * q + 25 * p, 0,
                            100 * (100 * q)),
              den |-> 100 * q], DefaultThresholds) \in AutonomouslyPermitted
          <=> (5000 + 10 * 100 - 15 * 0) * q + 25 * p >= 75 * (100 * q)
    BY <1>2, <1>3, BandPermits, SMT
  <2>2. Ats(DefaultWeights, "B3", 100, [num |-> p, den |-> q], 0)
          = [num |-> Clamp((5000 + 10 * 100 - 15 * 0) * q + 25 * p, 0,
                           100 * (100 * q)),
             den |-> 100 * q]
    BY <1>1, AtsB3, SMT
  <2> QED
    BY <1>4, <2>1, <2>2, SMT
<1>6. Band(Ats(DefaultWeights, "B3_NO_RESOURCE", 100, [num |-> p, den |-> q], 0),
           DefaultThresholds) \in AutonomouslyPermitted
        <=> 2125 * p >= 137500 * q
  <2>1. Band([num |-> Clamp((340000 + 850 * 100 - 1125 * 0) * q + 2125 * p, 0,
                            100 * (7500 * q)),
              den |-> 7500 * q], DefaultThresholds) \in AutonomouslyPermitted
          <=> (340000 + 850 * 100 - 1125 * 0) * q + 2125 * p >= 75 * (7500 * q)
    BY <1>2, <1>3, BandPermits, SMT
  <2>2. Ats(DefaultWeights, "B3_NO_RESOURCE", 100, [num |-> p, den |-> q], 0)
          = [num |-> Clamp((340000 + 850 * 100 - 1125 * 0) * q + 2125 * p, 0,
                           100 * (7500 * q)),
             den |-> 7500 * q]
    BY <1>1, AtsNoResource, SMT
  <2> QED
    BY <1>4, <2>1, <2>2, SMT
<1>7. Band(Ats(DefaultWeights, "B3_NO_BEHAVIOR", 100, [num |-> p, den |-> q], 0),
           DefaultThresholds) \in AutonomouslyPermitted
  <2>1. Band([num |-> Clamp((425000 + 850 * 100 - 900 * 0) * q + 0 * p, 0,
                            100 * (6000 * q)),
              den |-> 6000 * q], DefaultThresholds) \in AutonomouslyPermitted
          <=> (425000 + 850 * 100 - 900 * 0) * q + 0 * p >= 75 * (6000 * q)
    BY <1>2, <1>3, BandPermits, SMT
  <2>2. Ats(DefaultWeights, "B3_NO_BEHAVIOR", 100, [num |-> p, den |-> q], 0)
          = [num |-> Clamp((425000 + 850 * 100 - 900 * 0) * q + 0 * p, 0,
                           100 * (6000 * q)),
             den |-> 6000 * q]
    BY <1>1, AtsNoBehavior, SMT
  <2> QED
    BY <1>4, <2>1, <2>2, SMT
<1> QED
  BY <1>5, <1>6, <1>7

\* Which share of withheld events an agent's best request tolerates.
LEMMA BestRequest ==
  ASSUME NEW m \in ScoringModes, NEW n \in Nat, NEW w \in Nat, w <= n
  PROVE  Band(Ats(DefaultWeights, m, 100, HistoryBehavior(TRUE, n, w), 0),
              DefaultThresholds) \in AutonomouslyPermitted
         <=> Tolerance(m).den * w <= Tolerance(m).num * n
<1> DEFINE Permits(k, b) == Band(Ats(DefaultWeights, k, 100, b, 0),
                                 DefaultThresholds) \in AutonomouslyPermitted
           h == HistoryBehavior(TRUE, n, w)
<1>1. /\ Permits("B3", h) <=> 5 * w <= 4 * n
      /\ Permits("B3_NO_RESOURCE", h) <=> 17 * w <= 12 * n
      /\ Permits("B3_NO_BEHAVIOR", h)
  <2>1. ASSUME NEW p \in Int, NEW q \in Nat \ {0}, h = [num |-> p, den |-> q]
        PROVE  /\ Permits("B3", h) <=> 25 * p >= 1500 * q
               /\ Permits("B3_NO_RESOURCE", h) <=> 2125 * p >= 137500 * q
               /\ Permits("B3_NO_BEHAVIOR", h)
    <3> HIDE DEF h
    <3> QED
      BY <2>1, FreshPermitted, SMT
  <2> HIDE DEF Permits
  <2>2. CASE n = 0
    <3>1. h = [num |-> 100, den |-> 1] /\ w = 0
      BY <2>2 DEF HistoryBehavior
    <3> HIDE DEF h
    <3>2. /\ Permits("B3", h) <=> 25 * 100 >= 1500 * 1
          /\ Permits("B3_NO_RESOURCE", h) <=> 2125 * 100 >= 137500 * 1
          /\ Permits("B3_NO_BEHAVIOR", h)
      BY <2>1, <3>1, SMT
    <3> QED
      BY <2>2, <3>1, <3>2, SMT
  <2>3. CASE n # 0
    <3> DEFINE p == 100 * (2 * n - w)
               q == 2 * n
    <3>1. h = [num |-> p, den |-> q]
      BY <2>3 DEF HistoryBehavior
    <3>2. p \in Int /\ q \in Nat \ {0}
      BY <2>3
    <3>3. /\ 25 * p >= 1500 * q <=> 5 * w <= 4 * n
          /\ 2125 * p >= 137500 * q <=> 17 * w <= 12 * n
      BY SMT
    <3> HIDE DEF h, p, q
    <3>4. /\ Permits("B3", h) <=> 25 * p >= 1500 * q
          /\ Permits("B3_NO_RESOURCE", h) <=> 2125 * p >= 137500 * q
          /\ Permits("B3_NO_BEHAVIOR", h)
      BY <2>1, <3>1, <3>2, SMT
    <3> QED
      BY <3>3, <3>4, SMT
  <2> QED
    BY <2>2, <2>3
<1>2. CASE m = "B3"
  <2>1. Tolerance(m) = [num |-> 4, den |-> 5]
    BY <1>2 DEF Tolerance
  <2> HIDE DEF h, Permits
  <2>2. Permits(m, h) <=> Tolerance(m).den * w <= Tolerance(m).num * n
    BY <1>1, <1>2, <2>1, SMT
  <2> QED
    BY <2>2 DEF Permits, h
<1>3. CASE m = "B3_NO_RESOURCE"
  <2>1. Tolerance(m) = [num |-> 12, den |-> 17]
    BY <1>3 DEF Tolerance
  <2> HIDE DEF h, Permits
  <2>2. Permits(m, h) <=> Tolerance(m).den * w <= Tolerance(m).num * n
    BY <1>1, <1>3, <2>1, SMT
  <2> QED
    BY <2>2 DEF Permits, h
<1>4. CASE m = "B3_NO_BEHAVIOR"
  <2>1. Tolerance(m) = [num |-> 1, den |-> 1]
    BY <1>4 DEF Tolerance
  <2> HIDE DEF h, Permits
  <2>2. Permits(m, h) <=> Tolerance(m).den * w <= Tolerance(m).num * n
    BY <1>1, <1>4, <2>1, SMT
  <2> QED
    BY <2>2 DEF Permits, h
<1> QED
  BY <1>2, <1>3, <1>4 DEF ScoringModes

\* In every reachable state the best request an agent can make is permitted
\* exactly when the withheld share of its own visible events is tolerated.
THEOREM BestRequestShare == Spec => []BestRequestFollowsShare
<1>1. TypeOK => BestRequestFollowsShare
  <2> SUFFICES ASSUME TypeOK, NEW a \in Agents
               PROVE  Decide(100, Behavior(events, a, TRUE), 0)
                        \in AutonomouslyPermitted
                      <=> Tolerance(mode).den * Cardinality(OwnWithheld(events, a))
                            <= Tolerance(mode).num * Cardinality(Own(events, a))
    BY DEF BestRequestFollowsShare
  <2>1. mode \in ScoringModes /\ events \in Seq(Event(Agents))
    BY ModesAssumption DEF TypeOK
  <2> QED
    BY <2>1, OwnCounts, BestRequest DEF Decide, Behavior
<1> QED
  BY <1>1, TypeCorrect, PTL

=============================================================================
