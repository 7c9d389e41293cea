--------------------------- MODULE RefinementProofs ---------------------------
(***************************************************************************)
(* Between the modules.  TrustAgent implements TrustFeedback: what a       *)
(* gateway that scores writes to its audit log is a run of the feedback    *)
(* loop, because the score is the only thing of a request that the log     *)
(* depends on, and a credential that was accepted scores one of three      *)
(* values, at whatever time it is scored.  It implements AccessControl:    *)
(* what it accepts has not been withdrawn.  And Channels implements it:    *)
(* the facades do nothing to the shared state that a gateway does not.     *)
(***************************************************************************)
EXTENDS Channels, TrustAgentProofs

\* The operators of the instance are those of TrustScore and AuditLog.
LEMMA SameWeights ==
  ASSUME NEW w, NEW m PROVE Feedback!ModeWeights(w, m) = ModeWeights(w, m)
<1>1. \A names : Feedback!Drop(w, names) = Drop(w, names)
  BY DEF Feedback!Drop, Drop
<1>2. \A names : Feedback!Without(w, names) = Without(w, names)
  BY <1>1 DEF Feedback!Without, Without, Feedback!Positive, Positive
<1> QED
  BY <1>2 DEF Feedback!ModeWeights, ModeWeights

LEMMA SameCombine ==
  ASSUME NEW w, NEW i, NEW c, NEW a, NEW b, NEW r, NEW x
  PROVE  Feedback!Combine(w, i, c, a, b, r, x) = Combine(w, i, c, a, b, r, x)
<1>1. \A v, low, high : Feedback!Clamp(v, low, high) = Clamp(v, low, high)
  BY DEF Feedback!Clamp, Clamp
<1> QED
  BY <1>1, Zenon DEF Feedback!Combine, Combine

LEMMA SameBand ==
  ASSUME NEW ats, NEW t PROVE Feedback!Band(ats, t) = Band(ats, t)
BY DEF Feedback!Band, Band, Feedback!AtLeast, AtLeast

LEMMA SameDecision ==
  ASSUME NEW c, NEW b, NEW x
  PROVE  Feedback!Decide(c, b, x)
           = Band(Ats(DefaultWeights, Mode[Observed], c, b, x), DefaultThresholds)
<1>1. /\ Feedback!DefaultWeights = DefaultWeights
      /\ Feedback!DefaultThresholds = DefaultThresholds
      /\ Feedback!IdentityScore(TRUE) = IdentityScore(TRUE)
      /\ Feedback!AuthorizationScore(TRUE) = AuthorizationScore(TRUE)
      /\ Feedback!ResourceScore(TRUE) = ResourceScore(TRUE)
  BY DEF Feedback!DefaultWeights, Feedback!DefaultThresholds,
         Feedback!IdentityScore, Feedback!AuthorizationScore,
         Feedback!ResourceScore, DefaultWeights, DefaultThresholds,
         IdentityScore, AuthorizationScore, ResourceScore
<1>2. Feedback!ContextScore(x) = ContextScore(x)
  BY DEF Feedback!ContextScore, ContextScore, Feedback!Clamp, Clamp
<1> QED
  BY <1>1, <1>2, SameWeights, SameCombine, SameBand, Zenon
     DEF Feedback!Decide, Feedback!Ats, Ats

LEMMA SameDeviation ==
  ASSUME NEW d PROVE Feedback!DeviationBehavior(d) = DeviationBehavior(d)
BY DEF Feedback!DeviationBehavior, DeviationBehavior, Feedback!Clamp, Clamp

LEMMA SameBehavior ==
  ASSUME NEW log, NEW a, NEW p
  PROVE  Feedback!Behavior(log, a, p) = Behavior(log, a, p)
<1>1. Feedback!Own(log, a) = Own(log, a)
  BY DEF Feedback!Own, Own
<1>2. Feedback!OwnWithheld(log, a) = OwnWithheld(log, a)
  BY <1>1 DEF Feedback!OwnWithheld, OwnWithheld
<1>3. \A n, w : Feedback!HistoryBehavior(p, n, w) = HistoryBehavior(p, n, w)
  BY Zenon DEF Feedback!HistoryBehavior, HistoryBehavior
<1> QED
  BY <1>1, <1>2, <1>3, Zenon
     DEF Feedback!Behavior, Behavior, Feedback!Cardinality, Cardinality

LEMMA SameRecord ==
  ASSUME NEW a, NEW outcome
  PROVE  Feedback!Record(a, outcome)
           <=> audit'[Observed]
                 = Push(audit[Observed],
                        [agent |-> a, withheld |-> outcome \in Withheld])
BY DEF Feedback!Record, Feedback!Push, Push, Feedback!Withheld, Withheld

-----------------------------------------------------------------------------
\* A decoded credential is fresh, ageing or expired by the time it is scored.
LEMMA CredentialRange ==
  ASSUME NEW iat, NEW exp, NEW t
  PROVE  CredentialScore(TRUE, iat, exp, t, TRUE) \in Feedback!CredentialScores
BY DEF CredentialScore, Feedback!CredentialScores

LEMMA AnswerRecords ==
  ASSUME GatewayTypeOK, NEW r \in Requests, NEW outcome,
         Answer(Observed, r, outcome)
  PROVE  Feedback!Record(r.agent, outcome)
BY ObservedAssumption, SameRecord DEF Answer, GatewayTypeOK

\* Whatever check refuses, the log sees the same step.
LEMMA DenialSteps ==
  ASSUME GatewayTypeOK, NEW r \in Requests, Answer(Observed, r, "DENY")
  PROVE  Feedback!Next
<1>1. r.agent \in Agents
  BY DEF Requests
<1>2. Feedback!HardDeny(r.agent)
  BY AnswerRecords DEF Feedback!HardDeny
<1> QED
  BY <1>1, <1>2 DEF Feedback!Next

LEMMA ScoreSteps ==
  ASSUME GatewayTypeOK, NEW r \in Requests, NEW t,
         Answer(Observed, r, Score(Observed, r, t))
  PROVE  Feedback!Next
<1> DEFINE credential == CredentialScore(TRUE, tokens[r.token].iat,
                                         tokens[r.token].exp, t, TRUE)
           onPurpose == r.capability \in records[r.agent].purpose
           injected == CHOOSE d \in r.deviation : TRUE
<1>1. r.agent \in Agents /\ r.risk \in Risks
      /\ r.deviation \in Optional(Deviations)
  BY DEF Requests
<1>2. credential \in Feedback!CredentialScores /\ onPurpose \in BOOLEAN
  <2>1. credential \in Feedback!CredentialScores
    BY CredentialRange
  <2>2. onPurpose \in BOOLEAN
    <3>1. CASE onPurpose
      BY <3>1
    <3>2. CASE ~onPurpose
      BY <3>2
    <3> QED
      BY <3>1, <3>2
  <2> QED
    BY <2>1, <2>2
<1>3. Feedback!Record(r.agent, Score(Observed, r, t))
  BY AnswerRecords
<1>4. Score(Observed, r, t)
        = Feedback!Decide(credential,
                          IF r.deviation = {}
                          THEN Behavior(audit[Observed], r.agent, onPurpose)
                          ELSE DeviationBehavior(injected),
                          r.risk)
  BY SameDecision, ObservedAssumption DEF Score
<1> HIDE DEF credential, onPurpose, injected
<1>5. CASE r.deviation = {}
  <2>1. Feedback!ScoreOnHistory(r.agent, credential, onPurpose, r.risk)
    BY <1>3, <1>4, <1>5, SameBehavior DEF Feedback!ScoreOnHistory
  <2> QED
    BY <1>1, <1>2, <2>1 DEF Feedback!Next
<1>6. CASE r.deviation # {}
  <2>1. injected \in Deviations
    BY <1>1, <1>6 DEF Optional, injected
  <2>2. Feedback!ScoreInjected(r.agent, credential, injected, r.risk)
    BY <1>3, <1>4, <1>6, SameDeviation DEF Feedback!ScoreInjected
  <2> QED
    BY <1>1, <1>2, <2>1, <2>2 DEF Feedback!Next
<1> QED
  BY <1>5, <1>6

-----------------------------------------------------------------------------
\* Whichever gateway that scores is observed, its log is a run of TrustFeedback.
THEOREM ImplementsTheLoop ==
  ASSUME Mode[Observed] \in ScoringModes
  PROVE  Spec => ImplementsFeedback
<1>1. Init => Feedback!Init
  BY ObservedAssumption DEF Init, Feedback!Init
<1>2. Inv /\ [Next]_vars => [Feedback!Next]_(Feedback!vars)
  <2> SUFFICES ASSUME Inv, [Next]_vars, audit'[Observed] # audit[Observed]
               PROVE  Feedback!Next
    BY DEF Feedback!vars
  <2>1. GatewayTypeOK
    BY DEF Inv
  <2>2. PICK r \in Requests : Authorize(Observed, r)
    <3>1. PICK g \in Gateways, r \in Requests : Authorize(g, r)
      BY DEF Next, Environment, vars, gatewayVars, RevokeDelegation
    <3>2. g = Observed
      <4>1. \/ audit' = audit
            \/ \E e : audit' = [audit EXCEPT ![g] = e]
        BY <3>1 DEF Authorize, Answers, Raises, AllowUnchecked, DenyToken,
                    AllowOnToken, FailOnCard, DenyOnChecks, DenyReplay,
                    AllowStatic, FailOnScore, DecideOnScore, Answer, Raise
      <4> QED
        BY <2>1, <4>1, ObservedAssumption DEF GatewayTypeOK
    <3> QED
      BY <3>1, <3>2
  <2>3. ~AllowUnchecked(Observed, r) /\ ~AllowOnToken(Observed, r)
    BY DEF AllowUnchecked, AllowOnToken, ScoringModes
  <2>4. CASE DenyToken(Observed, r)
    BY <2>1, <2>4, DenialSteps DEF DenyToken
  <2>5. ASSUME NEW t \in Readings(now),
               \/ FailOnCard(Observed, r, t) \/ DenyOnChecks(Observed, r, t)
               \/ DenyReplay(Observed, r, t) \/ AllowStatic(Observed, r, t)
               \/ FailOnScore(Observed, r, t) \/ DecideOnScore(Observed, r, t)
        PROVE  Feedback!Next
    <3>1. /\ ~FailOnCard(Observed, r, t) /\ ~FailOnScore(Observed, r, t)
          /\ ~AllowStatic(Observed, r, t)
      BY DEF FailOnCard, FailOnScore, Raise, AllowStatic, ScoringModes
    <3>2. CASE DenyOnChecks(Observed, r, t) \/ DenyReplay(Observed, r, t)
      BY <2>1, <3>2, DenialSteps DEF DenyOnChecks, DenyReplay
    <3>3. CASE DecideOnScore(Observed, r, t)
      <4>1. PICK later : Answer(Observed, r, Score(Observed, r, later))
        BY <3>3 DEF DecideOnScore
      <4> QED
        BY <2>1, <4>1, ScoreSteps
    <3> QED
      BY <2>5, <3>1, <3>2, <3>3
  <2> QED
    BY <2>2, <2>3, <2>4, <2>5 DEF Authorize, Answers, Raises
<1> QED
  BY <1>1, <1>2, Invariant, PTL DEF Spec, ImplementsFeedback, Feedback!Spec

-----------------------------------------------------------------------------
(***************************************************************************)
(* TrustAgent implements AccessControl: the gateways that enforce open to  *)
(* a jti at most once each, while its token decodes and its agent stands,  *)
(* and whatever else happens in the lab only takes tokens out of play.     *)
(***************************************************************************)

\* The state of the access-control system that a lab stands for.
Holder == [j \in DOMAIN tokens |-> tokens[j].sub]
Mark == [j \in DOMAIN tokens |-> tokens[j].jti]
Spent == [g \in Enforcing |-> seen[g]]
Permits == [g \in Enforcing |-> permits[g]]

\* Whatever happens to the clock and the provider's key, no token that was signed
\* before comes back to life.
LEMMA LiveShrinks ==
  ASSUME SharedInv, SignedStays
  PROVE  Live' \cap DOMAIN tokens \subseteq Live
<1> SUFFICES ASSUME NEW j \in Live', j \in DOMAIN tokens PROVE j \in Live
  OBVIOUS
<1>1. tokens'[j] = tokens[j] /\ now \in Nat /\ now' \in Nat /\ now' >= now
  BY DEF SignedStays, SharedInv, KeysInv, KeyStoreTypeOK
<1>2. PICK d \in Audiences :
        \E t \in now'..tokens[j].exp : Decodes(tokens[j], d, t)'
  BY <1>1 DEF Live, Decodes
<1>3. PICK t \in now'..tokens[j].exp : Decodes(tokens[j], d, t)'
  BY <1>2
<1>4. tokens[j].key = KeyOf(IdpKeyName)'
  BY <1>1, <1>3 DEF Decodes
<1>5. KeyOf(IdpKeyName)' = KeyOf(IdpKeyName)
  <2>1. /\ tokens[j].key.gen <= private[IdpKeyName] /\ private[IdpKeyName] \in Nat
        /\ private'[IdpKeyName] \in Nat
        /\ private'[IdpKeyName] >= private[IdpKeyName]
    BY DEF SignedStays, SharedInv, IdpInv, TokensSigned, KeysInv, KeyStoreTypeOK,
           IdpKeyHeld
  <2>2. tokens[j].key.gen = private'[IdpKeyName]
    BY <1>4 DEF KeyOf
  <2>3. private'[IdpKeyName] = private[IdpKeyName]
    BY <2>1, <2>2
  <2> QED
    BY <2>3 DEF KeyOf
<1>6. tokens[j].exp \in Int
  <2>1. tokens[j] \in Token
    BY DEF SharedInv, IdpInv, IdpTypeOK
  <2> QED
    BY <2>1 DEF Token
<1>7. t \in now..tokens[j].exp
  BY <1>1, <1>6
<1>8. Decodes(tokens[j], d, t)
  BY <1>1, <1>3, <1>5 DEF Decodes
<1> QED
  BY <1>7, <1>8 DEF Live

\* Acceptance depends on the tokens, the provider's key and the clock only.
LEMMA LiveStays ==
  ASSUME UNCHANGED <<tokens, now>>, private'[IdpKeyName] = private[IdpKeyName]
  PROVE  Live' = Live
BY DEF Live, Decodes, KeyOf

\* A step that leaves the tokens and the gateways alone, and withdraws nobody, is
\* at most a lapse.
LEMMA LapseSteps ==
  ASSUME SharedInv, SignedStays, tokens' = tokens, withdrawn' = withdrawn,
         Spent' = Spent, Permits' = Permits
  PROVE  Access!Lapse
<1>1. Live' \in SUBSET Live
  BY LiveShrinks DEF Live
<1>2. Holder' = Holder /\ Mark' = Mark
  BY DEF Holder, Mark
<1> QED
  BY <1>1, <1>2 DEF Access!Lapse, Holder, Mark, Spent, Permits

\* A withdrawn agent is in good standing at no reading of the clock.
LEMMA WithdrawnRefused ==
  ASSUME SharedInv, NEW r, NEW t, InGoodStanding(r, t)
  PROVE  r.agent \notin withdrawn
BY WithdrawalsAssumption DEF SharedInv, RegistryInv, WithdrawnRecorded,
                             InGoodStanding, Status

-----------------------------------------------------------------------------
(* authorize()                                                               *)

\* A decision that permits nothing, or that a gateway takes which does not
\* enforce, is not counted at any gateway that does.
LEMMA UncountedAnswer ==
  ASSUME GatewayTypeOK, NEW g \in Gateways, NEW r \in Requests, NEW outcome,
         Answer(g, r, outcome),
         outcome \notin AutonomouslyPermitted \/ g \notin Enforcing
  PROVE  Permits' = Permits
<1>1. \/ permits' = permits
      \/ g \notin Enforcing /\ \E f : permits' = [permits EXCEPT ![g] = f]
  BY DEF Answer
<1>2. \A h \in Enforcing : permits'[h] = permits[h]
  BY <1>1 DEF GatewayTypeOK, Enforcing
<1> QED
  BY <1>2 DEF Permits, Enforcing

\* Once a call has come past the replay check, its jti is used, by an agent that
\* was not withdrawn; the decision is counted or, after an exception or a
\* score that withholds, is not.
LEMMA UseSteps ==
  ASSUME Inv, NEW g \in Gateways, NEW r \in Requests, NEW t \in Readings(now),
         Admitted(g, r, t), UNCHANGED sharedVars, now' \in Nat, now' >= now,
         \/ Raise
         \/ \E outcome : Answer(g, r, outcome)
  PROVE  Access!Use(g, r.token)
<1> DEFINE k == r.token
<1>1. /\ g \in Enforcing /\ TokenAccepted(r, now) /\ InGoodStanding(r, t)
      /\ tokens[k].jti \notin seen[g] /\ Consume(g, r)
  BY DEF Admitted, Entered, Clears, Enforcing
<1>2. k \in DOMAIN tokens /\ tokens[k].sub = r.agent /\ k \in Live
  <2>1. r.audience \in Audiences
    BY DEF Requests
  <2>2. /\ k \in DOMAIN tokens /\ tokens[k].sub = r.agent
        /\ Decodes(tokens[k], r.audience, now)
    BY <1>1 DEF TokenAccepted
  <2>3. now \in now..tokens[k].exp
    <3>1. tokens[k] \in Token /\ now \in Nat
      BY <2>2 DEF Inv, SharedInv, IdpInv, IdpTypeOK, KeysInv, KeyStoreTypeOK
    <3> QED
      BY <2>2, <3>1 DEF Token, Decodes
  <2> QED
    BY <2>1, <2>2, <2>3 DEF Live
<1>3. Holder[k] \notin withdrawn
  BY <1>1, <1>2, WithdrawnRefused DEF Holder, Inv
<1>4. /\ tokens' = tokens /\ withdrawn' = withdrawn /\ grants' = grants
      /\ private' = private
  BY DEF sharedVars, idpVars, registryVars
<1>5. Live' \in SUBSET Live
  <2>1. SignedStays
    BY <1>4 DEF SignedStays, Inv, SharedInv, KeysInv, KeyStoreTypeOK, IdpKeyHeld
  <2> QED
    BY <1>4, <2>1, LiveShrinks DEF Inv, Live
<1>6. /\ Spent' = [Spent EXCEPT ![g] = @ \cup ({Mark[k]} \ {0})]
      /\ Mark[k] \notin Spent[g]
  <2>1. Mark[k] = tokens[k].jti
    BY <1>2 DEF Mark
  <2> QED
    BY <1>1, <2>1 DEF Spent, Consume, Enforcing, Inv, GatewayTypeOK
<1>7. Permits' \in {Permits, [Permits EXCEPT ![g][k] = @ + 1]}
  <2>1. permits' = permits \/ permits' = [permits EXCEPT ![g][k] = @ + 1]
    BY DEF Raise, Answer
  <2> QED
    BY <1>1, <2>1 DEF Permits, Enforcing, Inv, GatewayTypeOK
<1>8. Holder' = Holder /\ Mark' = Mark
  BY <1>4 DEF Holder, Mark
<1> QED
  BY <1>1, <1>2, <1>3, <1>4, <1>5, <1>6, <1>7, <1>8
     DEF Access!Use, Holder, Mark, Spent, Permits

LEMMA AuthorizeSteps ==
  ASSUME Inv, NEW g \in Gateways, NEW r \in Requests, Authorize(g, r)
  PROVE  Access!Next
<1>1. SharedInv /\ GatewayTypeOK /\ now \in Nat
  BY DEF Inv, SharedInv, KeysInv, KeyStoreTypeOK
<1>2. /\ UNCHANGED sharedVars /\ now' \in Nat /\ now' >= now
      /\ tokens' = tokens /\ withdrawn' = withdrawn
  BY <1>1, AuthorizeFacts DEF sharedVars, idpVars, registryVars
<1>3. SignedStays
  BY <1>1, <1>2 DEF SignedStays, sharedVars, SharedInv, KeysInv, KeyStoreTypeOK,
                    IdpKeyHeld
<1>4. ASSUME seen' = seen, \/ Raise
                           \/ \E outcome :
                                /\ Answer(g, r, outcome)
                                /\ \/ outcome \notin AutonomouslyPermitted
                                   \/ g \notin Enforcing
      PROVE  Access!Next
  <2>1. Permits' = Permits
    BY <1>1, <1>4, UncountedAnswer DEF Raise, Permits
  <2>2. Spent' = Spent
    BY <1>4 DEF Spent
  <2> QED
    BY <1>1, <1>2, <1>3, <2>1, <2>2, LapseSteps DEF Access!Next
<1>5. "DENY" \notin AutonomouslyPermitted
  BY DEF AutonomouslyPermitted
<1>6. Mode[g] \in {"B1", "B2"} => g \notin Enforcing
  BY DEF Enforcing, TrustAgentModes, ScoringModes
<1>7. CASE AllowUnchecked(g, r) \/ DenyToken(g, r) \/ AllowOnToken(g, r)
  BY <1>4, <1>5, <1>6, <1>7 DEF AllowUnchecked, DenyToken, AllowOnToken
<1>8. ASSUME NEW t \in Readings(now),
             \/ FailOnCard(g, r, t) \/ DenyOnChecks(g, r, t)
             \/ DenyReplay(g, r, t) \/ AllowStatic(g, r, t)
             \/ FailOnScore(g, r, t) \/ DecideOnScore(g, r, t)
      PROVE  Access!Next
  <2>1. CASE FailOnCard(g, r, t)
    BY <1>4, <2>1 DEF FailOnCard
  <2>2. CASE DenyOnChecks(g, r, t) \/ DenyReplay(g, r, t)
    BY <1>4, <1>5, <2>2 DEF DenyOnChecks, DenyReplay
  <2>3. CASE AllowStatic(g, r, t) \/ FailOnScore(g, r, t) \/ DecideOnScore(g, r, t)
    <3>1. /\ Admitted(g, r, t)
          /\ Raise \/ \E outcome : Answer(g, r, outcome)
      BY <2>3 DEF AllowStatic, FailOnScore, DecideOnScore
    <3>2. Access!Use(g, r.token)
      BY <1>2, <3>1, UseSteps
    <3>3. g \in Enforcing /\ r.token \in DOMAIN Holder
      BY <3>1 DEF Admitted, Entered, TokenAccepted, Enforcing, Holder
    <3> QED
      BY <3>2, <3>3 DEF Access!Next, Holder
  <2> QED
    BY <1>8, <2>1, <2>2, <2>3
<1> QED
  BY <1>7, <1>8 DEF Authorize, Answers, Raises

-----------------------------------------------------------------------------
(* The rest of the lab                                                       *)

LEMMA StutterSteps ==
  ASSUME UNCHANGED <<tokens, now, withdrawn, gatewayVars>>,
         private'[IdpKeyName] = private[IdpKeyName]
  PROVE  UNCHANGED Access!vars
<1>1. Live' = Live
  BY LiveStays
<1>2. Holder' = Holder /\ Mark' = Mark /\ Spent' = Spent /\ Permits' = Permits
  BY DEF Holder, Mark, Spent, Permits, gatewayVars
<1> QED
  BY <1>1, <1>2 DEF Access!vars, Holder, Mark, Spent, Permits

LEMMA LifecycleSteps ==
  ASSUME SharedInv, LifecycleStep, UNCHANGED <<idpVars, grants, gatewayVars>>
  PROVE  Access!Next \/ UNCHANGED Access!vars
<1>1. /\ now' = now
      /\ private'[IdpKeyName] = private[IdpKeyName]
  BY AgentsAssumption DEF LifecycleStep, keyVars, Generate, Rotate, Put,
                          SharedInv, KeysInv, IdpKeyHeld
<1>2. tokens' = tokens
  BY DEF idpVars
<1>3. CASE withdrawn' = withdrawn
  BY <1>1, <1>2, <1>3, StutterSteps
<1>4. /\ Live' = Live /\ Holder' = Holder /\ Mark' = Mark
      /\ Spent' = Spent /\ Permits' = Permits
  BY <1>1, <1>2, LiveStays DEF Holder, Mark, Spent, Permits, gatewayVars
<1>5. ASSUME NEW a \in Agents, withdrawn' = withdrawn \cup {a}
      PROVE  Access!Next
  BY <1>4, <1>5 DEF Access!Next, Access!Withdraw, Holder, Mark, Spent, Permits
<1>6. ASSUME NEW a \in Agents, withdrawn' = withdrawn \ {a}
      PROVE  Access!Next
  BY <1>4, <1>6 DEF Access!Next, Access!Reinstate, Holder, Mark, Spent, Permits
<1> QED
  BY <1>3, <1>5, <1>6 DEF LifecycleStep, Register, Revoke, Suspend, Retire,
                          WithStatus, RotateKey, registryVars

LEMMA ProviderSteps ==
  ASSUME SharedInv, IdpStep,
         UNCHANGED <<keyVars, registryVars, grants, gatewayVars>>
  PROVE  Access!Next \/ UNCHANGED Access!vars
<1>1. UNCHANGED <<now, private, withdrawn>> /\ Spent' = Spent /\ Permits' = Permits
  BY DEF keyVars, registryVars, gatewayVars, Spent, Permits
<1>2. CASE tokens' = tokens
  BY <1>1, <1>2, StutterSteps
<1>3. ASSUME NEW e, tokens' = Append(tokens, e), Len(tokens) < MaxTokens
      PROVE  Access!Next
  <2>1. tokens \in Seq(Token) /\ tokens' \in Seq(Token)
    BY IdpStepInv DEF SharedInv, IdpInv, IdpTypeOK
  <2>2. e = tokens'[Len(tokens')] /\ Len(tokens') \in DOMAIN tokens'
    BY <1>3, <2>1
  <2>3. e \in Token
    BY <2>1, <2>2
  <2>4. e.sub \in Agents /\ e.jti \in Jtis
    BY <2>3, SubjectsAssumption DEF Token
  <2>5. /\ Len(Holder) = Len(tokens) /\ Holder' = Append(Holder, e.sub)
        /\ Mark' = Append(Mark, e.jti)
    BY <1>3, <2>1, <2>3 DEF Holder, Mark
  <2>6. Live' \in SUBSET (Live \cup {Len(Holder) + 1})
    <3>1. SignedStays
      <4>1. /\ DOMAIN tokens \subseteq DOMAIN tokens'
            /\ \A j \in DOMAIN tokens : tokens'[j] = tokens[j]
        BY <1>3, <2>1, AppendKeeps
      <4> QED
        BY <1>1, <4>1 DEF SignedStays, SharedInv, KeysInv, KeyStoreTypeOK,
                          IdpKeyHeld
    <3>2. Live' \subseteq DOMAIN tokens \cup {Len(tokens) + 1}
      BY <1>3, <2>1 DEF Live
    <3> QED
      BY <2>5, <3>1, <3>2, LiveShrinks
  <2>7. Access!Issue(e.sub, e.jti)
    BY <1>1, <1>3, <2>5, <2>6 DEF Access!Issue, Holder, Mark, Spent, Permits
  <2> QED
    BY <2>4, <2>7 DEF Access!Next
<1> QED
  BY <1>2, <1>3 DEF IdpStep, Issue, Sign, BeginAuthorizationCode, ExchangeCode,
                    RejectVerifier, RejectCode

\* The gateways of every lab that enforce implement AccessControl.
THEOREM ImplementsAccess == Spec => ImplementsAccessControl
<1>1. Init => Access!Init
  BY DEF Init, IdpInit, RegistryInit, Access!Init, Live, Enforcing
<1>2. Inv /\ [Next]_vars => [Access!Next]_(Access!vars)
  <2> SUFFICES ASSUME Inv, [Next]_vars
               PROVE  Access!Next \/ UNCHANGED Access!vars
    OBVIOUS
  <2>1. SharedInv /\ now \in Nat /\ private[IdpKeyName] \in Nat
    BY DEF Inv, SharedInv, KeysInv, KeyStoreTypeOK, IdpKeyHeld
  <2>2. ASSUME tokens' = tokens, grants' = grants, withdrawn' = withdrawn,
               now' \in Nat, now' >= now, private'[IdpKeyName] \in Nat,
               private'[IdpKeyName] >= private[IdpKeyName], UNCHANGED gatewayVars
        PROVE  Access!Next
    <3>1. SignedStays /\ Spent' = Spent /\ Permits' = Permits
      BY <2>2 DEF SignedStays, Spent, Permits, gatewayVars
    <3> QED
      BY <2>1, <2>2, <3>1, LapseSteps DEF Access!Next
  <2>3. CASE \E g \in Gateways, r \in Requests : Authorize(g, r)
    BY <2>3, AuthorizeSteps
  <2>4. CASE \E g \in Gateways, j \in DOMAIN grants : RevokeDelegation(g, j)
    <3>1. UNCHANGED <<now, sharedVars, seen, permits>>
      BY <2>4 DEF RevokeDelegation
    <3>2. /\ Live' = Live /\ Holder' = Holder /\ Mark' = Mark
          /\ Spent' = Spent /\ Permits' = Permits
      BY <3>1, LiveStays DEF sharedVars, idpVars, Holder, Mark, Spent, Permits
    <3> QED
      BY <3>1, <3>2 DEF sharedVars, registryVars, Access!vars, Holder, Mark,
                        Spent, Permits
  <2>5. CASE LifecycleStep /\ UNCHANGED <<idpVars, grants, gatewayVars>>
    BY <2>1, <2>5, LifecycleSteps
  <2>6. CASE /\ Rotate(IdpKeyName)
             /\ UNCHANGED <<now, registryVars, idpVars, grants, gatewayVars>>
    <3>1. private'[IdpKeyName] = private[IdpKeyName] + 1
      BY <2>1, <2>6, RotateIdpKey DEF SharedInv
    <3> QED
      BY <2>1, <2>2, <2>6, <3>1 DEF registryVars, idpVars
  <2>7. CASE IdpStep /\ UNCHANGED <<keyVars, registryVars, grants, gatewayVars>>
    BY <2>1, <2>7, ProviderSteps
  <2>8. CASE \E i, s \in Agents, ttl \in GrantLifetimes :
               IssueDelegation(i, s, ttl)
                 /\ UNCHANGED <<keyVars, registryVars, idpVars, gatewayVars>>
    BY <2>8, StutterSteps DEF keyVars, registryVars, idpVars
  <2>9. CASE Tick /\ UNCHANGED <<sharedVars, gatewayVars>>
    BY <2>1, <2>2, <2>9 DEF Tick, sharedVars, registryVars, idpVars
  <2>10. CASE UNCHANGED vars
    BY <2>10, StutterSteps DEF vars, sharedVars, registryVars, idpVars
  <2> QED
    BY <2>3, <2>4, <2>5, <2>6, <2>7, <2>8, <2>9, <2>10 DEF Next, Environment
<1> QED
  BY <1>1, <1>2, Invariant, PTL DEF Spec, ImplementsAccessControl, Access!Spec

-----------------------------------------------------------------------------
(* Channels: what an answer says                                             *)

LEMMA AnswerTells ==
  ASSUME Inv, NEW g \in Gateways, NEW r \in Requests, NEW outcome,
         Answer(g, r, outcome)
  PROVE  LastWithheld(audit'[g]) <=> outcome \in Withheld
<1> DEFINE e == [agent |-> r.agent, withheld |-> outcome \in Withheld]
<1>1. audit' = [audit EXCEPT ![g] = Push(audit[g], e)]
  BY DEF Answer
<1>2. audit \in [Gateways -> Log(Agents)]
  BY DEF Inv, GatewayTypeOK
<1>3. audit[g] \in Seq(Event(Agents)) /\ Len(audit[g]) <= Window
  BY <1>2 DEF Log
<1>4. e \in Event(Agents)
  BY RequestFacts DEF Event
<1>5. e.withheld <=> outcome \in Withheld
  OBVIOUS
<1> HIDE DEF e
<1>6. audit'[g] = Push(audit[g], e)
  BY <1>1, <1>2
<1>7. audit'[g][Len(audit'[g])] = e
  BY <1>3, <1>4, <1>6, LastPushed
<1> QED
  BY <1>5, <1>7 DEF LastWithheld

\* A gateway that enforces permits only what clears it.
LEMMA PermittedClears ==
  ASSUME Inv, NEW g \in Enforcing, NEW r \in Requests, Answers(g, r),
         ~LastWithheld(audit'[g])
  PROVE  \E t \in Readings(now) : Clears(g, r, t)
<1>1. g \in Gateways /\ Mode[g] # "B1" /\ Mode[g] # "B2"
  BY DEF Enforcing, TrustAgentModes, ScoringModes
<1>2. ~Answer(g, r, "DENY")
  BY <1>1, AnswerTells DEF Withheld
<1>3. PICK t \in Readings(now) : AllowStatic(g, r, t) \/ DecideOnScore(g, r, t)
  BY <1>1, <1>2 DEF Answers, AllowUnchecked, DenyToken, AllowOnToken,
                    DenyOnChecks, DenyReplay
<1> QED
  BY <1>3 DEF AllowStatic, DecideOnScore, Admitted

-----------------------------------------------------------------------------
(* Request objects                                                           *)

\* Keys, tokens and grants are only added.
LEMMA StepGrows ==
  ASSUME Inv, Next
  PROVE  /\ \A n \in DOMAIN private :
              n \in DOMAIN private' /\ private'[n] >= private[n]
         /\ Len(tokens') >= Len(tokens)
         /\ Len(grants') >= Len(grants)
<1> DEFINE KeysGrow == \A n \in DOMAIN private :
                         n \in DOMAIN private' /\ private'[n] >= private[n]
           TokensGrow == Len(tokens') >= Len(tokens)
           GrantsGrow == Len(grants') >= Len(grants)
<1>1. /\ SharedInv /\ GatewayTypeOK /\ tokens \in Seq(Token) /\ grants \in Seq(Grant)
      /\ \A n \in DOMAIN private : private[n] \in Nat
  BY DEF Inv, SharedInv, KeysInv, KeyStoreTypeOK, IdpInv, IdpTypeOK, DelegationTypeOK
<1>2. ASSUME private' = private PROVE KeysGrow
  BY <1>1, <1>2
<1>3. ASSUME NEW n, Generate(n) \/ Rotate(n) PROVE KeysGrow
  BY <1>1, <1>3 DEF Generate, Rotate, Put
<1>4. ASSUME tokens' = tokens PROVE TokensGrow
  BY <1>1, <1>4
<1>5. ASSUME grants' = grants PROVE GrantsGrow
  BY <1>1, <1>5
<1> HIDE DEF KeysGrow, TokensGrow, GrantsGrow
<1>6. CASE \E g \in Gateways, r \in Requests : Authorize(g, r)
  BY <1>1, <1>2, <1>4, <1>5, <1>6, AuthorizeFacts
     DEF sharedVars, idpVars, KeysGrow, TokensGrow, GrantsGrow
<1>7. CASE LifecycleStep /\ UNCHANGED <<idpVars, grants, gatewayVars>>
  <2>1. private' = private \/ \E n : Generate(n) \/ Rotate(n)
    BY <1>7 DEF LifecycleStep, keyVars
  <2> QED
    BY <1>2, <1>3, <1>4, <1>5, <1>7, <2>1
       DEF idpVars, KeysGrow, TokensGrow, GrantsGrow
<1>8. CASE IdpStep /\ UNCHANGED <<keyVars, registryVars, grants, gatewayVars>>
  <2>1. tokens' = tokens \/ \E e : tokens' = Append(tokens, e)
    BY <1>8 DEF IdpStep, Issue, Sign, BeginAuthorizationCode, ExchangeCode,
                RejectVerifier, RejectCode
  <2>2. Len(tokens') >= Len(tokens)
    BY <1>1, <2>1
  <2> QED
    BY <1>2, <1>5, <1>8, <2>2 DEF keyVars, KeysGrow, GrantsGrow
<1>9. CASE \E i, s \in Agents, ttl \in GrantLifetimes :
             IssueDelegation(i, s, ttl)
               /\ UNCHANGED <<keyVars, registryVars, idpVars, gatewayVars>>
  <2>1. /\ \E e : grants' = Append(grants, e)
        /\ UNCHANGED <<keyVars, idpVars>>
    BY <1>9 DEF IssueDelegation
  <2>2. Len(grants') >= Len(grants)
    BY <1>1, <2>1
  <2> QED
    BY <1>2, <1>4, <2>1, <2>2 DEF keyVars, idpVars, KeysGrow, TokensGrow
<1>10. CASE \/ \E g \in Gateways, j \in DOMAIN grants : RevokeDelegation(g, j)
            \/ Tick /\ UNCHANGED <<sharedVars, gatewayVars>>
  BY <1>2, <1>4, <1>5, <1>10
     DEF RevokeDelegation, sharedVars, idpVars, KeysGrow, TokensGrow, GrantsGrow
<1>11. CASE Rotate(IdpKeyName) /\ UNCHANGED <<now, registryVars, idpVars, grants, gatewayVars>>
  BY <1>3, <1>4, <1>5, <1>11 DEF idpVars, KeysGrow, TokensGrow, GrantsGrow
<1> QED
  BY <1>6, <1>7, <1>8, <1>9, <1>10, <1>11
     DEF Next, Environment, KeysGrow, TokensGrow, GrantsGrow

\* An object that was a request stays one: what it refers to does not go away.
LEMMA RequestStays ==
  ASSUME Inv, Inv', [Next]_vars, NEW r \in Requests
  PROVE  r \in Requests'
<1>1. CASE UNCHANGED vars
  BY <1>1 DEF vars, sharedVars, idpVars, Requests, Cards, CardKeys, KeysMade,
              DelegationGrants
<1>2. CASE Next
  <2>1. /\ tokens \in Seq(Token) /\ grants \in Seq(Grant)
        /\ tokens' \in Seq(Token) /\ grants' \in Seq(Grant)
        /\ \A n \in DOMAIN private : private[n] \in Nat
        /\ \A n \in DOMAIN private' : private'[n] \in Nat
    BY DEF Inv, SharedInv, KeysInv, KeyStoreTypeOK, IdpInv, IdpTypeOK, DelegationTypeOK
  <2>2. /\ 0..Len(tokens) \subseteq 0..Len(tokens')
        /\ 0..Len(grants) \subseteq 0..Len(grants')
    BY <1>2, <2>1, StepGrows
  <2>3. KeysMade(Names) \subseteq KeysMade(Names)'
    <3> SUFFICES ASSUME NEW k \in KeysMade(Names) PROVE k \in KeysMade(Names)'
      OBVIOUS
    <3>1. PICK n \in Names \cap DOMAIN private :
            \E i \in 1..private[n] : k = [owner |-> n, gen |-> i]
      BY DEF KeysMade
    <3>2. /\ n \in Names \cap DOMAIN private'
          /\ 1..private[n] \subseteq 1..private'[n]
      BY <1>2, <2>1, StepGrows
    <3> QED
      BY <3>1, <3>2 DEF KeysMade
  <2>4. Cards \subseteq Cards'
    <3>1. CardKeys \subseteq CardKeys'
      BY <2>3 DEF CardKeys
    <3> QED
      BY <3>1 DEF Cards
  <2>5. DelegationGrants \subseteq DelegationGrants'
    BY <2>2 DEF DelegationGrants
  <2>6. /\ Optional(Cards) \subseteq Optional(Cards')
        /\ Optional(DelegationGrants) \subseteq Optional(DelegationGrants')
    BY <2>4, <2>5 DEF Optional
  <2> QED
    BY <2>2, <2>6 DEF Requests
<1> QED
  BY <1>1, <1>2

\* A facade's own channel makes a request of a request, and changes nothing else.
LEMMA OnChannelFacts ==
  ASSUME NEW r \in Requests, NEW channel \in {"mcp", "a2a"}
  PROVE  /\ OnChannel(r, channel) \in Requests
         /\ OnChannel(r, channel).channel = channel
         /\ OnChannel(r, channel).resource = r.resource
         /\ CardSigned(OnChannel(r, channel)) <=> CardSigned(r)
<1>1. channel \in Channels
  BY FacadesAssumption
<1> QED
  BY <1>1 DEF OnChannel, Requests, CardSigned

-----------------------------------------------------------------------------
(* The facades                                                               *)

ChannelsInv == /\ Inv
               /\ DOMAIN reply = DOMAIN object
               /\ \A o \in DOMAIN object : object[o] \in Requests

\* A call through a facade, or without one, is a call of authorize().
LEMMA CallAuthorizes ==
  ASSUME ChannelsInv, NEW g \in Gateways, NEW o \in DOMAIN object,
         Invoke(g, o) \/ Send(g, o) \/ Direct(g, o)
  PROVE  \E r \in Requests : Call(g, o, r) /\ Authorize(g, r)
<1>1. object[o] \in Requests
  BY DEF ChannelsInv
<1>2. \E r \in Requests : Call(g, o, r)
  BY <1>1, OnChannelFacts DEF Invoke, Send, Direct
<1> QED
  BY <1>2 DEF Call, Authorize

\* Every step of the facades is a step of the gateways, or leaves them alone.
LEMMA ChannelsStep ==
  ASSUME ChannelsInv, [ChannelsNext]_<<vars, channelVars>>
  PROVE  [Next]_vars
<1>1. CASE \E o \in Objects, r \in Requests : Make(o, r)
  BY <1>1 DEF Make
<1>2. CASE \E g \in Gateways, o \in DOMAIN object :
             Invoke(g, o) \/ Send(g, o) \/ Direct(g, o)
  BY <1>2, CallAuthorizes DEF Next
<1>3. CASE Environment /\ UNCHANGED channelVars
  BY <1>3 DEF Next
<1> QED
  BY <1>1, <1>2, <1>3 DEF ChannelsNext

LEMMA ChannelsInvNext ==
  ASSUME ChannelsInv, [ChannelsNext]_<<vars, channelVars>>
  PROVE  ChannelsInv'
<1>1. [Next]_vars
  BY ChannelsStep
<1>2. Inv /\ Inv'
  BY <1>1, InvNext DEF ChannelsInv
<1>3. \A r \in Requests : r \in Requests'
  BY <1>1, <1>2, RequestStays
<1>4. CASE UNCHANGED channelVars
  BY <1>2, <1>3, <1>4 DEF ChannelsInv, channelVars
<1>5. CASE \E o \in Objects, r \in Requests : Make(o, r)
  BY <1>2, <1>3, <1>5 DEF ChannelsInv, Make, Put
<1>6. CASE \E g \in Gateways, o \in DOMAIN object :
             Invoke(g, o) \/ Send(g, o) \/ Direct(g, o)
  <2>1. PICK g \in Gateways, o \in DOMAIN object :
          Invoke(g, o) \/ Send(g, o) \/ Direct(g, o)
    BY <1>6
  <2>2. PICK r \in Requests : Call(g, o, r)
    BY <2>1, CallAuthorizes
  <2>3. /\ object' = [object EXCEPT ![o] = r]
        /\ \E x : reply' = [reply EXCEPT ![o] = x]
    BY <2>2 DEF Call
  <2>4. \A p \in DOMAIN object : object'[p] = object[p] \/ object'[p] = r
    BY <2>3
  <2> QED
    BY <1>2, <1>3, <2>3, <2>4 DEF ChannelsInv
<1> QED
  BY <1>4, <1>5, <1>6 DEF ChannelsNext

\* Whatever the gateways promise, they promise behind their facades too.
THEOREM FacadesAddNothing == ChannelsSpec => Spec /\ []ChannelsInv
<1>1. ChannelsInit => Init /\ ChannelsInv
  BY InvInit DEF ChannelsInit, ChannelsInv
<1>2. ChannelsInv /\ [ChannelsNext]_<<vars, channelVars>> => ChannelsInv' /\ [Next]_vars
  BY ChannelsInvNext, ChannelsStep
<1> QED
  BY <1>1, <1>2, PTL DEF ChannelsSpec, Spec

\* The facade that was called last decides which checks a call has to pass.
THEOREM FacadeDecides == ChannelsSpec => FacadeDecidesChecks
<1> DEFINE Decides ==
             \A g \in Enforcing, o \in DOMAIN object :
               /\ Send(g, o) /\ reply'[o] = "permitted" =>
                    /\ CardSigned(object[o])
                    /\ Status(object[o].resource, now) = "active"
               /\ Invoke(g, o) /\ reply'[o] = "permitted" =>
                    object[o].resource \in TrustedResources
<1>1. ASSUME ChannelsInv, NEW g \in Enforcing, NEW o \in DOMAIN object,
             NEW r \in Requests, Call(g, o, r), reply'[o] = "permitted"
      PROVE  \E t \in Readings(now) : Clears(g, r, t)
  <2>1. Answers(g, r) /\ ~LastWithheld(audit'[g])
    BY <1>1 DEF Call, ChannelsInv, LastWithheld
  <2> QED
    BY <1>1, <2>1, PermittedClears DEF ChannelsInv
<1>2. ChannelsInv => Decides
  <2> SUFFICES ASSUME ChannelsInv, NEW g \in Enforcing, NEW o \in DOMAIN object,
                      reply'[o] = "permitted"
               PROVE  /\ Send(g, o) => /\ CardSigned(object[o])
                                       /\ Status(object[o].resource, now) = "active"
                      /\ Invoke(g, o) => object[o].resource \in TrustedResources
    OBVIOUS
  <2>1. object[o] \in Requests /\ Inv
    BY DEF ChannelsInv
  <2>2. CASE Send(g, o)
    <3> DEFINE r == OnChannel(object[o], "a2a")
    <3>1. /\ r \in Requests /\ r.channel = "a2a" /\ r.resource = object[o].resource
          /\ CardSigned(r) <=> CardSigned(object[o])
      BY <2>1, OnChannelFacts
    <3>2. Call(g, o, r)
      BY <2>2 DEF Send
    <3> HIDE DEF r
    <3>3. PICK t \in Readings(now) : Clears(g, r, t)
      BY <1>1, <3>1, <3>2
    <3>4. CardSigned(r) /\ Status(r.resource, t) = "active"
      BY <3>1, <3>3 DEF Clears, CardAccepted, ResourceAccepted
    <3>5. CardSigned(object[o]) /\ Status(object[o].resource, now) = "active"
      <4>1. SharedInv /\ now \in Nat
        BY <2>1 DEF Inv, SharedInv, KeysInv, KeyStoreTypeOK
      <4>2. t \in Nat /\ t >= now
        BY <4>1, ReadingFacts
      <4> QED
        BY <3>1, <3>4, <4>1, <4>2, StatusBefore
    <3>6. Invoke(g, o) => object[o].resource \in TrustedResources
      <4>1. SUFFICES ASSUME Invoke(g, o) PROVE FALSE
        OBVIOUS
      <4>2. object'[o] = OnChannel(object[o], "mcp") /\ object'[o] = r
        BY <3>2, <4>1 DEF Call, Invoke
      <4> QED
        BY <2>1, <3>1, <4>2, OnChannelFacts
    <3> QED
      BY <3>5, <3>6
  <2>3. CASE ~Send(g, o) /\ Invoke(g, o)
    <3> DEFINE r == OnChannel(object[o], "mcp")
    <3>1. r \in Requests /\ r.channel = "mcp" /\ r.resource = object[o].resource
      BY <2>1, OnChannelFacts
    <3>2. Call(g, o, r)
      BY <2>3 DEF Invoke
    <3> HIDE DEF r
    <3>3. PICK t \in Readings(now) : Clears(g, r, t)
      BY <1>1, <3>1, <3>2
    <3> QED
      BY <2>3, <3>1, <3>3 DEF Clears, ResourceAccepted
  <2> QED
    BY <2>2, <2>3
<1> QED
  BY <1>2, FacadesAddNothing, PTL DEF ChannelsSpec, FacadeDecidesChecks

=============================================================================
