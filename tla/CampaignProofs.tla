---------------------------- MODULE CampaignProofs ----------------------------
EXTENDS Evaluation, TrustAgentProofs, FisherProofs

-----------------------------------------------------------------------------
(* The inductive invariant of the campaign                                   *)

LabAgents == {"security", "helper"}

\* The lab a builder has left, but for the clock.
Lab(id) ==
  /\ now \in Nat
  /\ private[IdpKeyName] = 1
  /\ records = [a \in LabAgents |->
                  [LabWorldRecords[a] EXCEPT
                     !.status = IF a \in RevokedBy(id) THEN "revoked" ELSE @]]
  /\ publicKeys = [a \in LabAgents |-> LabKey(a)]
  /\ tokens = <<Credential(id)>>

\* Until the token is first presented, or while nothing but the token is looked at,
\* a trial that is not of Slow has not outlasted it.
InTime(cell) ==
  cell.id \notin Slow /\ (stage = "built" \/ cell.mode = "B2") => now < TTL

\* A gateway that scores has taken a token that is to be replayed, or it is too old.
Presented(g) == 1 \in seen[g] \/ now >= TTL

TrialInv ==
  /\ stage \in {"start", "built", "presented"}
  /\ stage # "start" =>
       /\ row \in DOMAIN Cells
       /\ Lab(Cells[row].id)
       /\ InTime(Cells[row])
  /\ stage = "built" => /\ seen = [g \in Gateways |-> {}]
                        /\ audit = [g \in Gateways |-> <<>>]
  /\ stage = "presented" =>
       /\ audit \in [Gateways -> Log(LabAgents)]
       /\ Cells[row].mode = "B3" => Presented("B3")

\* The cells whose trials all come out alike whenever the clock moves, and how.
Sure(cell) == \/ cell.id \notin Slow
              \/ cell.mode = "B1"
              \/ cell.kind = "scenarios" /\ cell.mode = "B3"

Permitted(cell) ==
  \/ cell.mode = "B1"
  \/ cell.mode = "B2" /\ cell.id # "A4"
  \/ cell.kind = "legitimate"
  \/ cell.kind = "ablation" /\ cell.mode \in {"B3_STATIC", "B3_NO_BEHAVIOR"}

\* The trials of a cell that were decided so far.
Trials(i) == IF i < row THEN Repeats ELSE IF i = row THEN rep ELSE 0

BooksInv ==
  /\ row \in 1..(Len(Cells) + 1) /\ rep \in Nat /\ rep < Repeats
  /\ DOMAIN allowed = DOMAIN Cells
  /\ \A i \in DOMAIN Cells :
       Sure(Cells[i]) => allowed[i] = IF Permitted(Cells[i]) THEN Trials(i) ELSE 0

CampaignInv == TrialInv /\ BooksInv

-----------------------------------------------------------------------------
(* The cells                                                                 *)

AttackIds == {"A1", "A2", "A3", "A4", "A5", "A6", "A7", "A8", "A9", "A10"}
ControlIds == {"L1", "L2"}

\* What a cell can be, given the ids that run.
TypesOver(attacks, controls) ==
  [kind : {"scenarios"}, id : attacks, mode : {"B1", "B2", "B3"}]
    \cup [kind : {"legitimate"}, id : controls, mode : {"B1", "B2", "B3"}]
    \cup [kind : {"ablation"}, id : {"A10"},
          mode : {"B3", "B3_STATIC", "B3_NO_BEHAVIOR", "B3_NO_RESOURCE"}]

CellTypes == TypesOver(AttackIds, ControlIds)

LEMMA CellsOfType ==
  ASSUME NEW kind, NEW I, NEW M, NEW ids \in Seq(I), NEW modes \in Seq(M),
         Len(modes) \in {3, 4}
  PROVE  /\ CellsOf(kind, ids, modes) \in Seq([kind : {kind}, id : I, mode : M])
         /\ Len(CellsOf(kind, ids, modes)) = Len(ids) * Len(modes)
<1> DEFINE n == Len(modes)
<1>1. Len(ids) \in Nat /\ Len(ids) * n \in Nat
  OBVIOUS
<1>2. ASSUME NEW i \in 1..(Len(ids) * n)
      PROVE  ids[((i - 1) \div n) + 1] \in I /\ modes[((i - 1) % n) + 1] \in M
  <2>1. ((i - 1) \div n) + 1 \in 1..Len(ids) /\ ((i - 1) % n) + 1 \in 1..n
    <3> HIDE DEF n
    <3>1. CASE n = 3
      BY <1>1, <1>2, <3>1
    <3>2. CASE n = 4
      BY <1>1, <1>2, <3>2
    <3> QED
      BY <3>1, <3>2 DEF n
  <2> QED
    BY <2>1
<1> DEFINE N == Len(ids) * n
           S == [kind : {kind}, id : I, mode : M]
<1>3. CellsOf(kind, ids, modes) \in [1..N -> S]
  BY <1>2 DEF CellsOf
<1> HIDE DEF n, N, S
<1>4. N \in Nat
  BY <1>1 DEF N
<1>5. CellsOf(kind, ids, modes) \in Seq(S) /\ Len(CellsOf(kind, ids, modes)) = N
  BY <1>3, <1>4
<1> QED
  BY <1>5 DEF n, N, S

LEMMA CellsOver ==
  ASSUME NEW I, NEW J, Attacks \in Seq(I), Controls \in Seq(J)
  PROVE  Cells \in Seq(TypesOver(I, J))
<1> DEFINE S == [kind : {"scenarios"}, id : I, mode : {"B1", "B2", "B3"}]
           L == [kind : {"legitimate"}, id : J, mode : {"B1", "B2", "B3"}]
           A == [kind : {"ablation"}, id : {"A10"},
                 mode : {"B3", "B3_STATIC", "B3_NO_BEHAVIOR", "B3_NO_RESOURCE"}]
<1>1. /\ MODES \in Seq({"B1", "B2", "B3"}) /\ Len(MODES) = 3
      /\ ABLATION_MODES \in Seq({"B3", "B3_STATIC", "B3_NO_BEHAVIOR", "B3_NO_RESOURCE"})
      /\ Len(ABLATION_MODES) = 4
      /\ <<"A10">> \in Seq({"A10"})
  BY DEF MODES, ABLATION_MODES
<1>2. CellsOf("scenarios", Attacks, MODES) \in Seq(S)
  BY <1>1, CellsOfType
<1>3. CellsOf("legitimate", Controls, MODES) \in Seq(L)
  BY <1>1, CellsOfType
<1>4. CellsOf("ablation", <<"A10">>, ABLATION_MODES) \in Seq(A)
  BY <1>1, CellsOfType
<1> HIDE DEF S, L, A
<1>5. /\ CellsOf("scenarios", Attacks, MODES) \in Seq(S \cup L \cup A)
      /\ CellsOf("legitimate", Controls, MODES) \in Seq(S \cup L \cup A)
      /\ CellsOf("ablation", <<"A10">>, ABLATION_MODES) \in Seq(S \cup L \cup A)
  BY <1>2, <1>3, <1>4
<1>6. Cells \in Seq(S \cup L \cup A)
  BY <1>5 DEF Cells
<1> QED
  BY <1>6 DEF S, L, A, TypesOver

LEMMA CellsType == Cells \in Seq(CellTypes)
BY CellsOver, PlanAssumption DEF CellTypes, AttackIds, ControlIds

LEMMA CellFacts ==
  /\ Len(Cells) \in Nat /\ DOMAIN Cells = 1..Len(Cells)
  /\ \A i \in DOMAIN Cells :
       /\ Cells[i] \in CellTypes
       /\ Cells[i].id \in AttackIds \cup ControlIds
       /\ Cells[i].mode \in Gateways /\ Mode[Cells[i].mode] = Cells[i].mode
       /\ WeightsOf[Cells[i].mode] = DefaultWeights
       /\ ThresholdsOf[Cells[i].mode] = DefaultThresholds
<1>1. Len(Cells) \in Nat /\ DOMAIN Cells = 1..Len(Cells)
  BY CellsType
<1>2. \A i \in DOMAIN Cells : Cells[i] \in CellTypes
  BY CellsType
<1>3. \A cell \in CellTypes :
        /\ cell.id \in AttackIds \cup ControlIds
        /\ cell.mode \in TrustAgentModes \cup {"B1", "B2"}
  BY DEF CellTypes, TypesOver, AttackIds, TrustAgentModes, ScoringModes
<1> QED
  BY <1>1, <1>2, <1>3, LabAssumption

-----------------------------------------------------------------------------
(* The fixtures                                                              *)

\* The requests that carry a card.
LEMMA CardRequest ==
  ASSUME NEW capabilities, NEW key
  PROVE  LET r == A2a(capabilities, key) IN
           /\ r.agent = "security" /\ r.channel = "a2a"
           /\ r.token = 1 /\ r.audience = "tools" /\ r.malformed = FALSE
BY DEF A2a, Mcp

LEMMA CardOwner ==
  ASSUME NEW capabilities, NEW key
  PROVE  \A c \in A2a(capabilities, key).card : c.agent = "security" /\ c.wellFormed
BY DEF A2a, Mcp

LEMMA CardKey ==
  ASSUME NEW capabilities, NEW key
  PROVE  \A c \in A2a(capabilities, key).card : c.key = key
BY DEF A2a, Mcp

LEMMA CardCapabilities ==
  ASSUME NEW capabilities, NEW key
  PROVE  \A c \in A2a(capabilities, key).card : c.capabilities = capabilities
BY DEF A2a, Mcp

LEMMA CardFixtures ==
  /\ Fixture("A1") = A2a({"incident.read", "incident.analyze"}, LabKey("rogue"))
  /\ Fixture("A2") = A2a({"incident.read", "incident.delete"}, LabKey("security"))
  /\ Fixture("A3") = A2a({"incident.read", "incident.delete"}, Altered(LabKey("security")))
  /\ Fixture("L2") = A2a(LabWorldRecords["security"].capabilities, LabKey("security"))
BY DEF Fixture

LEMMA FixtureFacts ==
  ASSUME NEW id \in AttackIds \cup ControlIds
  PROVE  LET r == Fixture(id) IN
           /\ r.token = 1 /\ r.audience = "tools" /\ r.malformed = FALSE
           /\ r.agent \in LabAgents
           /\ \A c \in r.card : c.wellFormed
<1>1. CASE id \in {"A1", "A2", "A3", "L2"}
  <2>1. PICK capabilities, key : Fixture(id) = A2a(capabilities, key)
    BY <1>1, CardFixtures
  <2> QED
    BY <2>1, CardRequest, CardOwner DEF LabAgents
<1>2. CASE id \in {"A4", "A5", "A6", "A7", "A9", "L1"}
  BY <1>2 DEF Fixture, Mcp, LabAgents
<1>3. CASE id = "A8"
  BY <1>3 DEF Fixture, Mcp, LabAgents
<1>4. CASE id = "A10"
  BY <1>4 DEF Fixture, Mcp, LabAgents
<1> QED
  BY <1>1, <1>2, <1>3, <1>4 DEF AttackIds, ControlIds

LEMMA LabToken ==
  ASSUME NEW id, Lab(id)
  PROVE  tokens[1].jti = 1
<1> DEFINE token == Credential(id)
<1>1. token.jti = 1
  BY DEF Credential
<1>2. tokens = <<token>>
  BY DEF Lab
<1> HIDE DEF token
<1> QED
  BY <1>1, <1>2

LEMMA TokenFacts ==
  ASSUME NEW id \in AttackIds \cup ControlIds, Lab(id), NEW t \in Nat
  PROVE  TokenAccepted(Fixture(id), t) <=> id # "A4" /\ t < TTL
<1> DEFINE token == Credential(id)
<1>1. /\ tokens[1] = token /\ 1 \in DOMAIN tokens
      /\ token.key = KeyOf(IdpKeyName)
      /\ token.sub = Fixture(id).agent /\ "tools" \in token.aud
      /\ token.iat = 0 /\ token.nbf = 0 /\ token.exp = IF id = "A4" THEN -1 ELSE TTL
  <2>1. tokens[1] = token /\ 1 \in DOMAIN tokens
    <3> HIDE DEF token
    <3>1. tokens = <<token>>
      BY DEF Lab, token
    <3> QED
      BY <3>1
  <2> QED
    BY <2>1 DEF Lab, Credential, LabKey, KeyOf
<1> DEFINE r == Fixture(id)
<1>2. r.token = 1 /\ r.audience = "tools"
  BY FixtureFacts
<1> HIDE DEF token, r
<1>3. TokenAccepted(r, t) <=> token.exp > t
  BY <1>1, <1>2 DEF TokenAccepted, Decodes, r
<1> QED
  BY <1>1, <1>3, CampaignAssumption DEF r

LEMMA LabFacts ==
  ASSUME NEW id, Lab(id)
  PROVE  /\ DOMAIN records = LabAgents /\ DOMAIN publicKeys = LabAgents
         /\ \A a \in LabAgents :
              /\ records[a].capabilities = LabWorldRecords[a].capabilities
              /\ records[a].purpose = LabWorldRecords[a].purpose
              /\ records[a].status = IF a \in RevokedBy(id) THEN "revoked" ELSE "active"
              /\ records[a].expiresAt = {}
              /\ publicKeys[a] = [owner |-> a, gen |-> 1]
BY DEF Lab, LabAgents, LabWorldRecords, LabKey

\* Each of these attacks fails one of the checks, whenever they are made.
LEMMA ChecksRefuse ==
  ASSUME NEW id \in {"A1", "A2", "A3", "A5", "A6", "A7", "A8"}, Lab(id), NEW g, NEW t
  PROVE  ~Clears(g, Fixture(id), t)
<1>1. CASE id = "A1"
  <2>1. \A c \in Fixture(id).card : c.agent = "security" /\ c.key.owner = "rogue"
    BY <1>1, CardFixtures, CardOwner, CardKey DEF LabKey
  <2>2. publicKeys["security"].owner = "security"
    BY LabFacts DEF LabAgents
  <2>3. ~CardSigned(Fixture(id))
    BY <2>1, <2>2 DEF CardSigned
  <2>4. PICK capabilities, key : Fixture(id) = A2a(capabilities, key)
    BY <1>1, CardFixtures
  <2>5. Fixture(id).channel = "a2a"
    BY <2>4, CardRequest
  <2> QED
    BY <2>3, <2>5 DEF Clears, CardAccepted
<1>2. CASE id \in {"A2", "A3"}
  <2>1. /\ \A c \in Fixture(id).card : "incident.delete" \in c.capabilities
        /\ Fixture(id).agent = "security" /\ Fixture(id).channel = "a2a"
    <3>1. PICK key : Fixture(id) = A2a({"incident.read", "incident.delete"}, key)
      BY <1>2, CardFixtures
    <3>2. \A c \in Fixture(id).card : c.capabilities = {"incident.read", "incident.delete"}
      BY <3>1, CardCapabilities
    <3>3. Fixture(id).agent = "security" /\ Fixture(id).channel = "a2a"
      BY <3>1, CardRequest
    <3> QED
      BY <3>2, <3>3
  <2>2. "incident.delete" \notin records["security"].capabilities
    BY LabFacts DEF LabAgents, LabWorldRecords
  <2> QED
    BY <2>1, <2>2 DEF Clears, CardAccepted
<1>3. CASE id = "A5"
  BY <1>3, LabFacts DEF Clears, InGoodStanding, Status, Fixture, Mcp, LabAgents, RevokedBy
<1>4. CASE id \in {"A6", "A7"}
  <2>1. ~CapabilityAuthorized(g, Fixture(id), t)
    BY <1>4, LabFacts DEF CapabilityAuthorized, Fixture, Mcp, LabAgents, LabWorldRecords
  <2> QED
    BY <2>1 DEF Clears
<1>5. CASE id = "A8"
  <2>1. ~CapabilityAuthorized(g, Fixture(id), t)
    BY <1>5, LabFacts DEF CapabilityAuthorized, GrantAccepted, DelegationMonotonic, Fixture,
                          Mcp, LabAgents, LabWorldRecords
  <2> QED
    BY <2>1 DEF Clears
<1> QED
  BY <1>1, <1>2, <1>3, <1>4, <1>5

\* These pass the checks, whenever they are made.
LEMMA ChecksPass ==
  ASSUME NEW id \in {"A9", "A10", "L1", "L2"}, Lab(id), NEW g, NEW t
  PROVE  Clears(g, Fixture(id), t)
<1>1. \A a \in LabAgents : Status(a, t) = "active"
  BY LabFacts DEF Status, Expired, RevokedBy
<1>2. Fixture(id).agent = "security"
  BY DEF Fixture, A2a, Mcp
<1>3. InGoodStanding(Fixture(id), t)
  BY <1>1, <1>2 DEF InGoodStanding, LabAgents
<1>4. CardAccepted(Fixture(id))
  BY LabFacts DEF CardAccepted, CardSigned, Fixture, A2a, Mcp, LabKey, LabAgents
<1>5. CapabilityAuthorized(g, Fixture(id), t)
  BY LabFacts DEF CapabilityAuthorized, Fixture, A2a, Mcp, LabAgents, LabWorldRecords
<1>6. ResourceAccepted(Fixture(id), t)
  BY <1>1, LabAssumption DEF ResourceAccepted, Fixture, A2a, Mcp, LabAgents
<1> QED
  BY <1>3, <1>4, <1>5, <1>6 DEF Clears


-----------------------------------------------------------------------------
(* A call of authorize()                                                     *)

LEMMA ReadingsNat == ASSUME NEW from \in Nat, NEW t \in Readings(from) PROVE t \in Nat /\ t >= from
BY DEF Readings

\* No fixture makes a gateway raise.
LEMMA FixtureAnswered ==
  ASSUME NEW id \in AttackIds \cup ControlIds, NEW g, NEW r,
         WeightsOf[g] = DefaultWeights,
         \/ r = Fixture(id)
         \/ r.card = {} /\ r.malformed = FALSE,
         Authorize(g, r)
  PROVE  Answers(g, r)
<1>1. r.malformed = FALSE /\ \A c \in r.card : c.wellFormed
  BY FixtureFacts
<1>2. ~ScoreRaises(g, r)
  <2>1. CanDrop(DefaultWeights, {"behavior"}) /\ CanDrop(DefaultWeights, {"resource"})
    BY DEF CanDrop, DefaultWeights, Drop, Positive
  <2> QED
    BY <1>1, <2>1 DEF ScoreRaises
<1> QED
  BY <1>1, <1>2 DEF Authorize, Raises, FailOnCard, CardRaises, FailOnScore

\* What was answered is what the log says.
LEMMA LogTells ==
  ASSUME audit \in [Gateways -> Log(LabAgents)], NEW g \in Gateways, NEW r,
         r.agent \in LabAgents, NEW outcome, Answer(g, r, outcome)
  PROVE  /\ audit' \in [Gateways -> Log(LabAgents)]
         /\ LastWithheld(audit'[g]) <=> outcome \in Withheld
<1> DEFINE e == [agent |-> r.agent, withheld |-> outcome \in Withheld]
<1>1. audit' = [audit EXCEPT ![g] = Push(audit[g], e)]
  BY DEF Answer
<1>2. audit[g] \in Log(LabAgents) /\ audit[g] \in Seq(Event(LabAgents)) /\ Len(audit[g]) <= Window
  BY DEF Log
<1>3. e \in Event(LabAgents)
  BY DEF Event
<1>7. e.withheld <=> outcome \in Withheld
  OBVIOUS
<1> HIDE DEF e
<1>4. Push(audit[g], e) \in Log(LabAgents)
  BY <1>2, <1>3, PushType DEF Log
<1>5. audit'[g] = Push(audit[g], e)
  BY <1>1
<1>6. audit'[g][Len(audit'[g])] = e
  BY <1>2, <1>3, <1>5, LastPushed
<1> QED
  BY <1>1, <1>4, <1>6, <1>7 DEF LastWithheld

\* What the first presentation to a gateway without a history is scored.
LEMMA FirstBehavior ==
  ASSUME NEW a, NEW log, log = <<>>, NEW onPurpose, onPurpose
  PROVE  Behavior(log, a, onPurpose) = [num |-> 100, den |-> 1]
<1>1. Own(log, a) = {}
  BY DEF Own
<1>2. Cardinality(Own(log, a)) = 0
  BY <1>1, FS_EmptySet
<1>3. ASSUME NEW w PROVE HistoryBehavior(onPurpose, 0, w) = [num |-> 100, den |-> 1]
  BY DEF HistoryBehavior
<1>4. Behavior(log, a, onPurpose)
        = HistoryBehavior(onPurpose, Cardinality(Own(log, a)), Cardinality(OwnWithheld(log, a)))
  BY DEF Behavior
<1> QED
  BY <1>2, <1>3, <1>4

LEMMA CredentialValues ==
  ASSUME NEW t \in Nat
  PROVE  CredentialScore(TRUE, 0, TTL, t, TRUE) \in {85, 90, 100}
BY CampaignAssumption DEF CredentialScore

LEMMA ScoreOf ==
  ASSUME NEW c \in {85, 90, 100}
  PROVE  /\ Band(Ats(DefaultWeights, "B3", c, [num |-> 100, den |-> 1], 0),
                 DefaultThresholds) \notin Withheld
         /\ Band(Ats(DefaultWeights, "B3", c, [num |-> 0, den |-> 1], 20),
                 DefaultThresholds) \in Withheld
         /\ Band(Ats(DefaultWeights, "B3_NO_RESOURCE", c, [num |-> 0, den |-> 1], 20),
                 DefaultThresholds) \in Withheld
         /\ Band(Ats(DefaultWeights, "B3_NO_BEHAVIOR", c, [num |-> 0, den |-> 1], 20),
                 DefaultThresholds) \notin Withheld
<1> USE DEF Band, DefaultThresholds, Withheld, AtLeast, Ats, Combine, IdentityScore,
            AuthorizationScore, ResourceScore, ContextScore, Clamp
<1>1. ModeWeights(DefaultWeights, "B3") = DefaultWeights
  BY DEF ModeWeights
<1>2. ModeWeights(DefaultWeights, "B3_NO_RESOURCE")
        = [unit |-> 7500, identity |-> 1700, credential |-> 850,
           authorization |-> 1700, behavior |-> 2125, resource |-> 0, context |-> 1125]
  <2>1. Drop(DefaultWeights, {"resource"})
          = [unit |-> 100, identity |-> 20, credential |-> 10, authorization |-> 20,
             behavior |-> 25, resource |-> 0, context |-> 15]
    BY DEF Drop, DefaultWeights
  <2> QED
    BY <2>1 DEF ModeWeights, Without, Positive
<1>3. ModeWeights(DefaultWeights, "B3_NO_BEHAVIOR")
        = [unit |-> 6000, identity |-> 1700, credential |-> 850,
           authorization |-> 1700, behavior |-> 0, resource |-> 850, context |-> 900]
  <2>1. Drop(DefaultWeights, {"behavior"})
          = [unit |-> 100, identity |-> 20, credential |-> 10, authorization |-> 20,
             behavior |-> 0, resource |-> 10, context |-> 15]
    BY DEF Drop, DefaultWeights
  <2> QED
    BY <2>1 DEF ModeWeights, Without, Positive
<1>4. Band(Ats(DefaultWeights, "B3", c, [num |-> 100, den |-> 1], 0),
           DefaultThresholds) \notin Withheld
  BY <1>1 DEF DefaultWeights
<1>5. Band(Ats(DefaultWeights, "B3", c, [num |-> 0, den |-> 1], 20),
           DefaultThresholds) \in Withheld
  BY <1>1 DEF DefaultWeights
<1>6. Band(Ats(DefaultWeights, "B3_NO_RESOURCE", c, [num |-> 0, den |-> 1], 20),
           DefaultThresholds) \in Withheld
  BY <1>2
<1>7. Band(Ats(DefaultWeights, "B3_NO_BEHAVIOR", c, [num |-> 0, den |-> 1], 20),
           DefaultThresholds) \notin Withheld
  BY <1>3
<1> QED
  BY <1>4, <1>5, <1>6, <1>7

\* The score of what passes the checks, when the gateway has no history.
LEMMA FirstScore ==
  ASSUME NEW id \in {"A10", "L1", "L2"}, Lab(id), NEW g, audit[g] = <<>>, NEW t \in Nat,
         WeightsOf[g] = DefaultWeights, ThresholdsOf[g] = DefaultThresholds,
         Mode[g] \in ScoringModes, id = "A10" \/ Mode[g] = "B3"
  PROVE  Score(g, Fixture(id), t) \in Withheld
           <=> id = "A10" /\ Mode[g] # "B3_NO_BEHAVIOR"
<1> DEFINE r == Fixture(id)
           token == Credential(id)
           c == CredentialScore(TRUE, 0, TTL, t, TRUE)
<1>1. tokens[r.token] = token
  <2>1. tokens = <<token>>
    BY DEF Lab
  <2>2. r.token = 1
    BY FixtureFacts DEF AttackIds, ControlIds
  <2> HIDE DEF r, token
  <2> QED
    BY <2>1, <2>2
<1>2. token.iat = 0 /\ token.exp = TTL
  BY DEF Credential
<1>3. c \in {85, 90, 100}
  BY CredentialValues
<1>4. CASE id = "A10"
  <2>1. r.deviation = {100} /\ r.risk = 20
    BY <1>4 DEF Fixture, Mcp
  <2>2. DeviationBehavior(CHOOSE d \in {100} : TRUE) = [num |-> 0, den |-> 1]
    BY DEF DeviationBehavior, Clamp
  <2>3. Score(g, r, t) = Band(Ats(DefaultWeights, Mode[g], c, [num |-> 0, den |-> 1], 20),
                              DefaultThresholds)
    <3> HIDE DEF r, token
    <3> QED
      BY <1>1, <1>2, <2>1, <2>2, Zenon DEF Score, c
  <2> HIDE DEF c, r
  <2> QED
    BY <1>3, <1>4, <2>3, ScoreOf DEF ScoringModes, r
<1>5. CASE id \in {"L1", "L2"}
  <2>1. r.deviation = {} /\ r.risk = 0 /\ r.capability = "incident.read"
        /\ r.agent = "security"
    BY <1>5 DEF Fixture, A2a, Mcp
  <2>2. r.capability \in records[r.agent].purpose
    BY <2>1, LabFacts DEF LabAgents, LabWorldRecords
  <2>3. Behavior(audit[g], r.agent, r.capability \in records[r.agent].purpose)
          = [num |-> 100, den |-> 1]
    BY <2>2, FirstBehavior
  <2>4. Score(g, r, t) = Band(Ats(DefaultWeights, Mode[g], c, [num |-> 100, den |-> 1], 0),
                              DefaultThresholds)
    <3> HIDE DEF r, token
    <3> QED
      BY <1>1, <1>2, <2>1, <2>3, Zenon DEF Score, c
  <2> HIDE DEF c, r
  <2> QED
    BY <1>3, <1>5, <2>4, ScoreOf DEF r
<1> QED
  BY <1>4, <1>5

-----------------------------------------------------------------------------
(* A trial                                                                   *)

\* What a gateway that enforces answers, and why.
LEMMA EnforcingAnswers ==
  ASSUME NEW g \in Gateways, Mode[g] \in TrustAgentModes, NEW r, Answers(g, r)
  PROVE  \/ ~TokenAccepted(r, now) /\ Answer(g, r, "DENY")
         \/ /\ TokenAccepted(r, now)
            /\ \E t \in Readings(now) :
                 \/ ~Clears(g, r, t) /\ Answer(g, r, "DENY")
                 \/ Clears(g, r, t) /\ tokens[r.token].jti \in seen[g] /\ Answer(g, r, "DENY")
                 \/ /\ Clears(g, r, t) /\ tokens[r.token].jti \notin seen[g] /\ Consume(g, r)
                    /\ \/ Mode[g] = "B3_STATIC" /\ Answer(g, r, "ALLOW")
                       \/ /\ Mode[g] \in ScoringModes
                          /\ \E later \in Readings(t) : Answer(g, r, Score(g, r, later))
<1>1. Mode[g] # "B1" /\ Mode[g] # "B2"
  BY DEF TrustAgentModes, ScoringModes
<1> QED
  BY <1>1 DEF Answers, AllowUnchecked, DenyToken, AllowOnToken, DenyOnChecks, DenyReplay,
              AllowStatic, DecideOnScore, Admitted, Entered

\* How a trial whose outcome is sure comes out.
LEMMA TrialTells ==
  ASSUME TrialInv, row \in DOMAIN Cells, Sure(Cells[row]),
         stage = IF Replayed(Cells[row].id) THEN "presented" ELSE "built",
         Authorize(Cells[row].mode, Fixture(Cells[row].id))
  PROVE  LastWithheld(audit'[Cells[row].mode]) <=> ~Permitted(Cells[row])
<1> DEFINE cell == Cells[row]
           id == cell.id
           g == cell.mode
           r == Fixture(id)
<1>1. /\ cell \in CellTypes /\ id \in AttackIds \cup ControlIds
      /\ g \in Gateways /\ Mode[g] = g
      /\ WeightsOf[g] = DefaultWeights /\ ThresholdsOf[g] = DefaultThresholds
  BY CellFacts
<1>2. Answers(g, r)
  BY <1>1, FixtureAnswered
<1>3. Lab(id) /\ InTime(cell) /\ now \in Nat
  BY DEF TrialInv, Lab
<1>4. r.token = 1 /\ r.agent \in LabAgents /\ tokens[1].jti = 1
  BY <1>1, <1>3, FixtureFacts, LabToken
<1>5. /\ audit \in [Gateways -> Log(LabAgents)]
      /\ ~Replayed(id) => seen[g] = {} /\ audit[g] = <<>>
  <2>1. CASE stage = "built"
    <3>1. <<>> \in Log(LabAgents)
      BY WindowAssumption DEF Log
    <3> QED
      BY <1>1, <2>1, <3>1 DEF TrialInv
  <2>2. CASE stage = "presented"
    BY <2>2 DEF TrialInv
  <2> QED
    BY <2>1, <2>2
<1>6. ASSUME NEW outcome, Answer(g, r, outcome)
      PROVE  LastWithheld(audit'[g]) <=> outcome \in Withheld
  BY <1>1, <1>4, <1>5, <1>6, LogTells
<1>7. TokenAccepted(r, now) <=> id # "A4" /\ now < TTL
  BY <1>1, <1>3, TokenFacts
<1>8. \A t \in Readings(now) : \A later \in Readings(t) : t \in Nat /\ later \in Nat
  BY <1>3, ReadingsNat
<1>9. CASE g = "B1"
  <2>1. Answer(g, r, "ALLOW")
    BY <1>1, <1>2, <1>9 DEF Answers, AllowUnchecked, DenyToken, AllowOnToken, DenyOnChecks,
       DenyReplay, AllowStatic, DecideOnScore, Admitted, Entered, TrustAgentModes,
       ScoringModes
  <2> QED
    BY <1>6, <1>9, <2>1 DEF Withheld, Permitted
<1>10. CASE g = "B2"
  <2>1. now < TTL
    <3>1. id \notin Slow
      BY <1>10 DEF Sure
    <3> QED
      BY <1>3, <1>10, <3>1 DEF InTime
  <2>2. \/ TokenAccepted(r, now) /\ Answer(g, r, "ALLOW")
        \/ ~TokenAccepted(r, now) /\ Answer(g, r, "DENY")
    BY <1>1, <1>2, <1>10 DEF Answers, AllowUnchecked, DenyToken, AllowOnToken, DenyOnChecks,
       DenyReplay, AllowStatic, DecideOnScore, Admitted, Entered, TrustAgentModes,
       ScoringModes
  <2>3. Permitted(cell) <=> id # "A4"
    BY <1>1, <1>10 DEF Permitted, CellTypes, TypesOver, ControlIds
  <2> QED
    BY <1>6, <1>7, <2>1, <2>2, <2>3 DEF Withheld
<1>11. CASE g \notin {"B1", "B2"}
  <2>1. Mode[g] \in TrustAgentModes
    BY <1>1, <1>11, ModeAssumption
  <2>2. \/ ~TokenAccepted(r, now) /\ Answer(g, r, "DENY")
        \/ /\ TokenAccepted(r, now)
           /\ \E t \in Readings(now) :
                \/ ~Clears(g, r, t) /\ Answer(g, r, "DENY")
                \/ Clears(g, r, t) /\ tokens[r.token].jti \in seen[g] /\ Answer(g, r, "DENY")
                \/ /\ Clears(g, r, t) /\ tokens[r.token].jti \notin seen[g]
                   /\ \/ Mode[g] = "B3_STATIC" /\ Answer(g, r, "ALLOW")
                      \/ /\ Mode[g] \in ScoringModes
                         /\ \E later \in Readings(t) : Answer(g, r, Score(g, r, later))
    BY <1>1, <1>2, <2>1, EnforcingAnswers
  <2>3. CASE id \in {"A1", "A2", "A3", "A4", "A5", "A6", "A7", "A8", "A9"}
    <3>1. g = "B3" /\ ~Permitted(cell)
      BY <1>1, <1>11, <2>3 DEF CellTypes, TypesOver, ControlIds, Permitted
    <3>2. Answer(g, r, "DENY")
      <4>1. CASE id = "A4"
        BY <1>7, <2>2, <4>1
      <4>2. CASE id = "A9"
        <5>1. 1 \in seen[g] \/ now >= TTL
          BY <3>1, <4>2 DEF TrialInv, Replayed, Presented
        <5>2. ~TokenAccepted(r, now) \/ tokens[r.token].jti \in seen[g]
          BY <1>3, <1>4, <1>7, <5>1, CampaignAssumption
        <5> QED
          BY <2>2, <5>2
      <4>3. CASE id \in {"A1", "A2", "A3", "A5", "A6", "A7", "A8"}
        BY <1>3, <2>2, <4>3, ChecksRefuse
      <4> QED
        BY <2>3, <4>1, <4>2, <4>3
    <3> QED
      BY <1>6, <3>1, <3>2 DEF Withheld
  <2>4. CASE id \in {"A10", "L1", "L2"}
    <3>1. /\ ~Replayed(id) /\ stage = "built" /\ seen[g] = {} /\ audit[g] = <<>>
          /\ id # "A10" => g = "B3"
          /\ \A t : Clears(g, r, t)
      BY <1>1, <1>3, <1>5, <1>11, <2>4, ChecksPass DEF Replayed, CellTypes, TypesOver, AttackIds
    <3>2. cell.kind # "scenarios" => TokenAccepted(r, now)
      <4>1. id \notin Slow \/ cell.kind = "scenarios"
        BY <1>11 DEF Sure
      <4> QED
        BY <1>3, <1>7, <2>4, <3>1, <4>1 DEF InTime
    <3>3. CASE Mode[g] = "B3_STATIC"
      <4>1. cell.kind = "ablation" /\ g = "B3_STATIC"
        BY <1>1, <3>3 DEF CellTypes, TypesOver
      <4>2. Answer(g, r, "ALLOW")
        BY <2>2, <3>1, <3>2, <3>3, <4>1 DEF ScoringModes
      <4> QED
        BY <1>6, <4>1, <4>2 DEF Permitted, Withheld
    <3>4. CASE Mode[g] \in ScoringModes
      <4>1. ASSUME NEW later \in Nat
            PROVE  Score(g, r, later) \in Withheld <=> id = "A10" /\ g # "B3_NO_BEHAVIOR"
        BY <1>1, <1>3, <2>4, <3>1, <3>4, FirstScore
      <4>2. \/ ~TokenAccepted(r, now) /\ Answer(g, r, "DENY")
            \/ \E later \in Nat : Answer(g, r, Score(g, r, later))
        BY <1>8, <2>2, <3>1, <3>4 DEF ScoringModes
      <4>3. \/ ~TokenAccepted(r, now) /\ LastWithheld(audit'[g])
            \/ LastWithheld(audit'[g]) <=> id = "A10" /\ g # "B3_NO_BEHAVIOR"
        BY <1>6, <4>1, <4>2 DEF Withheld
      <4>4. Permitted(cell) <=> ~(id = "A10" /\ g # "B3_NO_BEHAVIOR")
        <5>1. CASE id = "A10"
          BY <1>1, <3>4, <5>1 DEF Permitted, CellTypes, TypesOver, ControlIds, ScoringModes
        <5>2. CASE id # "A10"
          <6>1. cell.kind = "legitimate"
            BY <1>1, <2>4, <5>2 DEF CellTypes, TypesOver, AttackIds
          <6> QED
            BY <5>2, <6>1 DEF Permitted
        <5> QED
          BY <5>1, <5>2
      <4>5. cell.kind = "scenarios" => id = "A10" /\ g # "B3_NO_BEHAVIOR"
        BY <1>1, <2>4 DEF CellTypes, TypesOver, AttackIds
      <4> QED
        BY <3>2, <4>3, <4>4, <4>5
    <3> QED
      BY <2>1, <3>3, <3>4 DEF TrustAgentModes
  <2> QED
    BY <1>1, <2>3, <2>4 DEF AttackIds, ControlIds
<1> QED
  BY <1>9, <1>10, <1>11

-----------------------------------------------------------------------------
(* The steps of a campaign                                                   *)

LEMMA BuildTrial ==
  ASSUME CampaignInv, Build
  PROVE  TrialInv'
<1> DEFINE id == Cells[row].id
<1>1. /\ stage' = "built" /\ row' = row /\ row \in DOMAIN Cells /\ now' = 0
      /\ records' = [a \in DOMAIN LabWorldRecords |->
                       [LabWorldRecords[a] EXCEPT
                          !.status = IF a \in RevokedBy(id) THEN "revoked" ELSE @]]
      /\ tokens' = <<Credential(id)>>
      /\ private' = [n \in Names |-> 1]
      /\ publicKeys' = [a \in DOMAIN LabWorldRecords |-> LabKey(a)]
      /\ seen' = [g \in Gateways |-> {}]
      /\ audit' = [g \in Gateways |-> <<>>]
  BY DEF Build, FreshRecords
<1>2. private'[IdpKeyName] = 1
  BY <1>1, IdpKeyNameAssumption
<1>3. DOMAIN LabWorldRecords = LabAgents
  BY DEF LabWorldRecords, LabAgents
<1>4. Lab(id)'
  BY <1>1, <1>2, <1>3 DEF Lab
<1>5. InTime(Cells[row])'
  BY <1>1, CampaignAssumption DEF InTime
<1> HIDE DEF id
<1> QED
  BY <1>1, <1>4, <1>5 DEF TrialInv, id

\* The first presentation of a replayed token: it is taken, or it is too old.
LEMMA PresentTrial ==
  ASSUME CampaignInv, Present
  PROVE  TrialInv'
<1> DEFINE cell == Cells[row]
           id == cell.id
           g == cell.mode
           r == [Fixture(id) EXCEPT !.card = {}, !.grant = {}, !.deviation = {}, !.risk = 0]
<1>1. /\ stage = "built" /\ stage' = "presented" /\ row' = row /\ id = "A9"
      /\ Authorize(g, r)
  BY DEF Present, Replayed
<1>2. /\ row \in DOMAIN Cells /\ Lab(id) /\ InTime(cell) /\ now \in Nat
      /\ audit = [h \in Gateways |-> <<>>] /\ seen = [h \in Gateways |-> {}]
  BY <1>1 DEF CampaignInv, TrialInv, Lab
<1>3. /\ cell \in CellTypes /\ id \in AttackIds \cup ControlIds
      /\ g \in Gateways /\ Mode[g] = g /\ WeightsOf[g] = DefaultWeights
  BY <1>2, CellFacts
<1>4. r = Fixture(id)
  <2> DEFINE m == Fixture(id)
  <2>1. m = Mcp("security", "tool.read", "incident.read")
    BY <1>1 DEF Fixture
  <2>2. m = [f \in DOMAIN m |-> m[f]]
    BY <2>1 DEF Mcp
  <2>3. m.card = {} /\ m.grant = {} /\ m.deviation = {} /\ m.risk = 0
    BY <2>1 DEF Mcp
  <2> HIDE DEF m
  <2>4. [m EXCEPT !.card = {}, !.grant = {}, !.deviation = {}, !.risk = 0] = m
    BY <2>2, <2>3
  <2> QED
    BY <2>4 DEF m
<1>5. Answers(g, r)
  BY <1>1, <1>3, <1>4, FixtureAnswered
<1>6. g \in {"B1", "B2", "B3"}
  BY <1>1, <1>3 DEF CellTypes, TypesOver, ControlIds
<1> HIDE DEF r
<1>7. UNCHANGED sharedVars /\ \E outcome : Answer(g, r, outcome)
  BY <1>5 DEF Answers, AllowUnchecked, DenyToken, AllowOnToken, DenyOnChecks, DenyReplay,
              AllowStatic, DecideOnScore, Answer
<1>8. audit' \in [Gateways -> Log(LabAgents)]
  <2>1. <<>> \in Log(LabAgents)
    BY WindowAssumption DEF Log
  <2>2. r.agent \in LabAgents
    BY <1>3, <1>4, FixtureFacts
  <2> QED
    BY <1>2, <1>3, <1>7, <2>1, <2>2, LogTells
<1>9. now' \in Nat /\ now' >= now /\ (g # "B3" => now' = now)
  <2>1. \/ now' = now
        \/ \E t \in Readings(now) : now' = t \/ \E later \in Readings(t) : now' = later
    BY <1>5 DEF Answers, AllowUnchecked, DenyToken, AllowOnToken, DenyOnChecks, DenyReplay,
                AllowStatic, DecideOnScore
  <2>2. g # "B3" => now' = now
    BY <1>3, <1>5, <1>6
       DEF Answers, AllowUnchecked, DenyToken, AllowOnToken, DenyOnChecks, DenyReplay,
           AllowStatic, DecideOnScore, Admitted, Entered, TrustAgentModes, ScoringModes
  <2>3. CASE \E t \in Readings(now) : now' = t \/ \E later \in Readings(t) : now' = later
    <3>1. PICK t \in Readings(now) : now' = t \/ \E later \in Readings(t) : now' = later
      BY <2>3
    <3>2. t \in Nat /\ t >= now
      BY <1>2, ReadingsNat
    <3>3. \A later \in Readings(t) : later \in Nat /\ later >= now
      BY <1>2, <3>2, ReadingsNat
    <3>4. now' \in Nat /\ now' >= now
      BY <3>1, <3>2, <3>3
    <3> QED
      BY <2>2, <3>4
  <2> QED
    BY <1>2, <2>1, <2>2, <2>3
<1>10. ASSUME g = "B3" PROVE 1 \in seen'["B3"] \/ now' >= TTL
  <2>1. r.token = 1 /\ tokens[1].jti = 1 /\ (TokenAccepted(r, now) <=> now < TTL)
    BY <1>1, <1>2, <1>3, <1>4, FixtureFacts, TokenFacts, LabToken
  <2>2. \A t : Clears(g, r, t)
    BY <1>1, <1>2, <1>4, ChecksPass
  <2>3. ~TokenAccepted(r, now) \/ Consume(g, r) \/ tokens[r.token].jti \in seen[g]
    BY <1>3, <1>5, <1>10, <2>2, EnforcingAnswers DEF TrustAgentModes, ScoringModes
  <2>4. CASE ~TokenAccepted(r, now)
    BY <1>2, <1>9, <2>1, <2>4, CampaignAssumption
  <2>5. CASE Consume(g, r)
    BY <1>2, <1>3, <1>10, <2>1, <2>5 DEF Consume
  <2> QED
    BY <1>2, <1>3, <2>3, <2>4, <2>5
<1>11. Lab(id)'
  BY <1>1, <1>2, <1>7, <1>9 DEF Lab, sharedVars, registryVars, idpVars
<1>12. InTime(cell)'
  BY <1>1, <1>2, <1>9 DEF InTime
<1> HIDE DEF id, g, cell
<1> QED
  BY <1>1, <1>2, <1>8, <1>10, <1>11, <1>12 DEF TrialInv, Presented, id, g, cell

LEMMA WaitTrial ==
  ASSUME CampaignInv, Wait
  PROVE  TrialInv'
<1> DEFINE cell == Cells[row]
           id == cell.id
<1>1. /\ UNCHANGED <<sharedVars, gatewayVars, row, stage>> /\ now' = now + 1
      /\ stage # "start" /\ (id \in Slow \/ now + 1 < TTL)
  BY DEF Wait, Tick, campaignVars
<1>2. row \in DOMAIN Cells /\ Lab(id) /\ InTime(cell) /\ now \in Nat
  BY <1>1 DEF CampaignInv, TrialInv, Lab
<1>3. Lab(id)'
  BY <1>1, <1>2 DEF Lab, sharedVars, registryVars, idpVars
<1>4. InTime(cell)'
  BY <1>1 DEF InTime
<1>5. ASSUME Presented("B3") PROVE Presented("B3")'
  BY <1>1, <1>2, <1>5, CampaignAssumption DEF Presented, gatewayVars
<1> HIDE DEF id, cell
<1> QED
  BY <1>1, <1>2, <1>3, <1>4, <1>5 DEF CampaignInv, TrialInv, gatewayVars, id, cell

LEMMA TrialBooks ==
  ASSUME CampaignInv, Trial
  PROVE  CampaignInv'
<1> DEFINE cell == Cells[row]
           g == cell.mode
           log == audit'[g]
<1>1. /\ row \in DOMAIN Cells /\ stage' = "start"
      /\ stage = IF Replayed(cell.id) THEN "presented" ELSE "built"
      /\ Authorize(g, Fixture(cell.id))
      /\ allowed' = [allowed EXCEPT ![row] = @ + (IF ~LastWithheld(log) THEN 1 ELSE 0)]
      /\ IF rep + 1 < Repeats THEN rep' = rep + 1 /\ row' = row
         ELSE rep' = 0 /\ row' = row + 1
  BY DEF Trial, Book, LastWithheld
<1>2. BooksInv /\ TrialInv
  BY DEF CampaignInv
<1>3. /\ Repeats \in Nat \ {0} /\ row \in Nat \ {0} /\ rep \in Nat /\ rep < Repeats
      /\ DOMAIN Cells \subseteq Nat /\ DOMAIN allowed = DOMAIN Cells
      /\ Len(Cells) \in Nat /\ DOMAIN Cells = 1..Len(Cells)
  BY <1>2, CellFacts, CampaignAssumption DEF BooksInv
<1>4. row' \in 1..(Len(Cells) + 1) /\ rep' \in Nat /\ rep' < Repeats /\ DOMAIN allowed' = DOMAIN Cells
  BY <1>1, <1>3
<1>5. ASSUME NEW i \in DOMAIN Cells
      PROVE  /\ Trials(i) \in Nat
             /\ i = row => Trials(i)' = Trials(i) + 1
             /\ i # row => Trials(i)' = Trials(i)
  <2>1. i \in Nat
    BY <1>3
  <2>2. CASE rep + 1 < Repeats
    BY <1>1, <1>3, <2>1, <2>2 DEF Trials
  <2>3. CASE ~(rep + 1 < Repeats)
    BY <1>1, <1>3, <2>1, <2>3 DEF Trials
  <2> QED
    BY <2>2, <2>3
<1>6. ASSUME NEW i \in DOMAIN Cells, Sure(Cells[i])
      PROVE  allowed'[i] = IF Permitted(Cells[i]) THEN Trials(i)' ELSE 0
  <2>1. allowed[i] = IF Permitted(Cells[i]) THEN Trials(i) ELSE 0
    BY <1>2, <1>6 DEF BooksInv
  <2>2. CASE i = row
    <3>1. LastWithheld(log) <=> ~Permitted(Cells[i])
      BY <1>1, <1>2, <1>6, <2>2, TrialTells
    <3>2. allowed'[i] = allowed[i] + (IF ~LastWithheld(log) THEN 1 ELSE 0)
      BY <1>1, <1>3, <2>2
    <3> HIDE DEF log
    <3> QED
      BY <1>5, <2>1, <2>2, <3>1, <3>2
  <2>3. CASE i # row
    <3>1. allowed'[i] = allowed[i]
      BY <1>1, <1>3, <2>3
    <3> QED
      BY <1>5, <2>1, <2>3, <3>1
  <2> QED
    BY <2>2, <2>3
<1>7. BooksInv'
  BY <1>4, <1>6 DEF BooksInv
<1>8. TrialInv'
  BY <1>1 DEF TrialInv
<1> QED
  BY <1>7, <1>8 DEF CampaignInv

LEMMA CampaignInvNext ==
  ASSUME CampaignInv, [CampaignNext]_<<vars, campaignVars>>
  PROVE  CampaignInv'
<1>1. ASSUME UNCHANGED <<row, rep, allowed>> PROVE BooksInv'
  BY <1>1 DEF CampaignInv, BooksInv, Trials
<1>2. CASE Build
  BY <1>1, <1>2, BuildTrial DEF Build, CampaignInv
<1>3. CASE Present
  BY <1>1, <1>3, PresentTrial DEF Present, CampaignInv
<1>4. CASE Trial
  BY <1>4, TrialBooks
<1>5. CASE Wait
  BY <1>1, <1>5, WaitTrial DEF Wait, CampaignInv, campaignVars
<1>6. CASE UNCHANGED <<vars, campaignVars>>
  BY <1>1, <1>6 DEF CampaignInv, TrialInv, Lab, InTime, Presented, vars, sharedVars,
                    registryVars, idpVars, gatewayVars, campaignVars
<1> QED
  BY <1>2, <1>3, <1>4, <1>5, <1>6 DEF CampaignNext

LEMMA CampaignInvInit == CampaignInit => CampaignInv
<1> SUFFICES ASSUME CampaignInit PROVE CampaignInv
  OBVIOUS
<1>1. TrialInv
  BY DEF CampaignInit, TrialInv
<1>2. BooksInv
  BY CellFacts, CampaignAssumption DEF CampaignInit, BooksInv, Trials
<1> QED
  BY <1>1, <1>2 DEF CampaignInv

\* The lab of a trial stays the one its builder left, and a cell whose trials are sure
\* counts all or none of those that were decided, in every reachable state.
THEOREM CampaignInvariant == CampaignSpec => []CampaignInv
BY CampaignInvInit, CampaignInvNext, PTL DEF CampaignSpec

\* What the cells that are filled hold.
LEMMA Filled ==
  ASSUME BooksInv, NEW i \in 1..(row - 1), i \in DOMAIN Cells, Sure(Cells[i])
  PROVE  Decided(i, Permitted(Cells[i]))
BY DEF BooksInv, Trials, Decided

\* The scenarios are prevented by B3 alone.
THEOREM ScenariosPrevented == CampaignSpec => []OnlyB3Prevents
<1>1. CampaignInv => OnlyB3Prevents
  <2> SUFFICES ASSUME CampaignInv, NEW i \in 1..(row - 1), Cells[i].kind = "scenarios",
                      ~(Cells[i].mode = "B2" /\ Cells[i].id \in Slow)
               PROVE  Decided(i, \/ Cells[i].mode = "B1"
                                 \/ Cells[i].mode = "B2" /\ Cells[i].id # "A4")
    BY DEF OnlyB3Prevents
  <2>1. BooksInv /\ i \in DOMAIN Cells
    BY CellFacts DEF CampaignInv, BooksInv
  <2>2. Cells[i].mode \in {"B1", "B2", "B3"}
    BY <2>1, CellFacts DEF CellTypes, TypesOver
  <2>3. Sure(Cells[i])
    BY <2>2 DEF Sure
  <2>4. Permitted(Cells[i]) <=> \/ Cells[i].mode = "B1"
                                \/ Cells[i].mode = "B2" /\ Cells[i].id # "A4"
    BY DEF Permitted
  <2> QED
    BY <2>1, <2>3, <2>4, Filled DEF Decided
<1> QED
  BY <1>1, CampaignInvariant, PTL

\* The controls are permitted by every baseline, in each trial whose token is in time.
THEOREM Controlled == CampaignSpec => []ControlsPermitted
<1>1. CampaignInv => ControlsPermitted
  <2> SUFFICES ASSUME CampaignInv, NEW i \in 1..(row - 1), Cells[i].kind = "legitimate",
                      Cells[i].mode = "B1" \/ Cells[i].id \notin Slow
               PROVE  Decided(i, TRUE)
    BY DEF ControlsPermitted
  <2>1. BooksInv /\ i \in DOMAIN Cells
    BY CellFacts DEF CampaignInv, BooksInv
  <2> QED
    BY <2>1, Filled DEF Decided, Sure, Permitted
<1> QED
  BY <1>1, CampaignInvariant, PTL

\* Of the ablated gateways, exactly those that do without behaviour permit A10.
THEOREM BehaviourHolds == CampaignSpec => []BehaviourAloneHolds
<1>1. CampaignInv => BehaviourAloneHolds
  <2> SUFFICES ASSUME CampaignInv, NEW i \in 1..(row - 1), Cells[i].kind = "ablation",
                      Cells[i].id \notin Slow
               PROVE  Decided(i, Cells[i].mode \in {"B3_STATIC", "B3_NO_BEHAVIOR"})
    BY DEF BehaviourAloneHolds
  <2>1. BooksInv /\ i \in DOMAIN Cells
    BY CellFacts DEF CampaignInv, BooksInv
  <2>2. Permitted(Cells[i]) <=> Cells[i].mode \in {"B3_STATIC", "B3_NO_BEHAVIOR"}
    BY <2>1, CellFacts DEF CellTypes, TypesOver, Permitted
  <2> QED
    BY <2>1, <2>2, Filled DEF Decided, Sure
<1> QED
  BY <1>1, CampaignInvariant, PTL

-----------------------------------------------------------------------------
(* The lists of labels and of blocked attacks, and the cells behind them    *)

Baselines == {"B1", "B2", "B3"}
Order(m) == IF m = "B1" THEN 1 ELSE IF m = "B2" THEN 2 ELSE 3

A == Len(Attacks)
C == Len(Controls)

\* How many cells of a mode are filled before cell i, the ablation aside.
Behind(m, i) ==
  LET last == IF i <= 3 * (A + C) THEN i - 1 ELSE 3 * (A + C)
  IN  (last + 3 - Order(m)) \div 3

AttackRows(m) == CellsWith("scenarios", AttackIds, m)
ControlRows(m) == CellsWith("legitimate", ControlIds, m)

\* The positions of the attacks in the lists, and of the controls.
AttackTrials == 1..(Repeats * A)
ControlTrials == Nat \ AttackTrials

PassedIn(list, trials) == {p \in DOMAIN list : p \in trials /\ list[p] = FALSE}

\* The labels follow from the position alone: the attacks come first.  A list of blocked
\* holds a decision per trial of its cells so far, the row under way included, and the
\* cells of a mode count what its list holds FALSE for, attacks and controls apart.
ListsInv ==
  /\ labels \in Seq(BOOLEAN) /\ blocked \in [Baselines -> Seq(BOOLEAN)]
  /\ allowed \in [DOMAIN Cells -> Int]
  /\ Len(labels) = Len(blocked["B1"])
  /\ \A p \in DOMAIN labels : (labels[p] = TRUE <=> p \in AttackTrials)
  /\ \A m \in Baselines :
       Len(blocked[m]) = Repeats * Behind(m, row)
                           + IF row <= 3 * (A + C) /\ Cells[row].mode = m THEN rep ELSE 0
  /\ \A m \in Baselines :
       /\ SumFunctionOnSet(allowed, AttackRows(m))
            = Cardinality(PassedIn(blocked[m], AttackTrials))
       /\ SumFunctionOnSet(allowed, ControlRows(m))
            = Cardinality(PassedIn(blocked[m], ControlTrials))

\* The layout of the cells.
LEMMA PlanFacts == A \in Nat /\ C \in Nat /\ Repeats \in Nat \ {0}
BY PlanAssumption, CampaignAssumption DEF A, C

\* Which cell an experiment puts at a position.
LEMMA CellsOfRow ==
  ASSUME NEW kind, NEW I, NEW ids \in Seq(I), NEW i \in 1..(3 * Len(ids))
  PROVE  LET cells == CellsOf(kind, ids, MODES) IN
           /\ cells[i].kind = kind /\ cells[i].mode = MODES[((i - 1) % 3) + 1]
           /\ cells[i].id = ids[((i - 1) \div 3) + 1]
<1>1. Len(MODES) = 3 /\ Len(ids) \in Nat /\ Len(ids) * 3 = 3 * Len(ids)
  BY DEF MODES
<1> QED
  BY <1>1 DEF CellsOf

\* How many cells there are.
LEMMA CellsCount ==
  ASSUME NEW kind, NEW ids, NEW modes, Len(ids) * Len(modes) \in Nat
  PROVE  Len(CellsOf(kind, ids, modes)) = Len(ids) * Len(modes)
<1> DEFINE N == Len(ids) * Len(modes)
<1>1. N \in Nat
  OBVIOUS
<1>2. DOMAIN CellsOf(kind, ids, modes) = 1..N
  BY DEF CellsOf
<1> HIDE DEF N
<1>3. Len(CellsOf(kind, ids, modes)) = N
  <2>1. CellsOf(kind, ids, modes)
          = [i \in 1..N |-> CellsOf(kind, ids, modes)[i]]
    BY <1>2 DEF CellsOf, N
  <2> QED
    BY <1>1, <1>2, <2>1
<1> QED
  BY <1>3 DEF N

\* The scenarios come first, then the controls, then the ablation; the modes take turns.
LEMMA Layout ==
  /\ Len(Cells) = 3 * (A + C) + 4
  /\ \A i \in 1..(3 * A) : Cells[i].kind = "scenarios"
  /\ \A i \in (3 * A + 1)..(3 * (A + C)) : Cells[i].kind = "legitimate"
  /\ \A i \in (3 * (A + C) + 1)..(3 * (A + C) + 4) : Cells[i].kind = "ablation"
  /\ \A i \in 1..(3 * (A + C)) : Cells[i].mode = MODES[((i - 1) % 3) + 1]
  /\ \A i \in 1..(3 * A) : Cells[i].id = Attacks[((i - 1) \div 3) + 1]
  /\ \A i \in (3 * (A + C) + 1)..(3 * (A + C) + 4) :
       Cells[i].id = "A10" /\ Cells[i].mode = ABLATION_MODES[i - 3 * (A + C)]
<1> DEFINE S == CellsOf("scenarios", Attacks, MODES)
           L == CellsOf("legitimate", Controls, MODES)
           B == CellsOf("ablation", <<"A10">>, ABLATION_MODES)
<1>1. /\ S \in Seq([kind : {"scenarios"}, id : AttackIds, mode : Baselines])
      /\ Len(S) = 3 * A
      /\ L \in Seq([kind : {"legitimate"}, id : ControlIds, mode : Baselines])
      /\ Len(L) = 3 * C
  <2>1. MODES \in Seq(Baselines) /\ Len(MODES) = 3 /\ Len(MODES) \in {3, 4}
    BY DEF MODES, Baselines
  <2>2. Attacks \in Seq(AttackIds) /\ Controls \in Seq(ControlIds)
    BY PlanAssumption DEF AttackIds, ControlIds
  <2>3. CellsOf("scenarios", Attacks, MODES)
          \in Seq([kind : {"scenarios"}, id : AttackIds, mode : Baselines])
    BY <2>1, <2>2, CellsOfType
  <2>4. CellsOf("legitimate", Controls, MODES)
          \in Seq([kind : {"legitimate"}, id : ControlIds, mode : Baselines])
    BY <2>1, <2>2, CellsOfType
  <2>5. Len(S) = Len(Attacks) * 3 /\ Len(L) = Len(Controls) * 3
    <3>1. Len(Attacks) * Len(MODES) \in Nat /\ Len(Controls) * Len(MODES) \in Nat
      BY <2>1, PlanFacts DEF A, C
    <3>2. /\ Len(S) = Len(Attacks) * Len(MODES)
          /\ Len(L) = Len(Controls) * Len(MODES)
      BY <3>1, CellsCount, Zenon
    <3> HIDE DEF S, L
    <3> QED
      BY <2>1, <3>2
  <2> HIDE DEF S, L
  <2> QED
    BY <2>3, <2>4, <2>5, PlanFacts DEF A, C, S, L
<1>2. B \in Seq([kind : {"ablation"}, id : {"A10"},
                 mode : {"B3", "B3_STATIC", "B3_NO_BEHAVIOR", "B3_NO_RESOURCE"}])
      /\ Len(B) = 4
  <2>1. /\ ABLATION_MODES \in Seq({"B3", "B3_STATIC", "B3_NO_BEHAVIOR", "B3_NO_RESOURCE"})
        /\ Len(ABLATION_MODES) = 4 /\ <<"A10">> \in Seq({"A10"}) /\ Len(<<"A10">>) = 1
        /\ Len(ABLATION_MODES) \in {3, 4}
    BY DEF ABLATION_MODES
  <2>2. CellsOf("ablation", <<"A10">>, ABLATION_MODES)
          \in Seq([kind : {"ablation"}, id : {"A10"},
                   mode : {"B3", "B3_STATIC", "B3_NO_BEHAVIOR", "B3_NO_RESOURCE"}])
    BY <2>1, CellsOfType
  <2>3. Len(<<"A10">>) * Len(ABLATION_MODES) = 4
    BY <2>1
  <2>4. Len(B) = Len(<<"A10">>) * Len(ABLATION_MODES)
    BY <2>3, CellsCount, 4 \in Nat, Zenon
  <2>5. Len(B) = 4
    BY <2>3, <2>4
  <2> QED
    BY <2>2, <2>5
<1>3. \A i \in 1..(3 * A) : /\ S[i].kind = "scenarios" /\ S[i].mode = MODES[((i - 1) % 3) + 1]
                            /\ S[i].id = Attacks[((i - 1) \div 3) + 1]
  <2>1. Attacks \in Seq(AttackIds)
    BY PlanAssumption DEF AttackIds
  <2>2. TAKE i \in 1..(3 * A)
  <2>3. i \in 1..(3 * Len(Attacks))
    BY DEF A
  <2> QED
    BY <2>1, <2>3, CellsOfRow
<1>4. \A i \in 1..(3 * C) : L[i].kind = "legitimate" /\ L[i].mode = MODES[((i - 1) % 3) + 1]
  BY CellsOfRow, PlanAssumption DEF C
<1>5. \A i \in 1..4 : B[i].kind = "ablation" /\ B[i].id = "A10" /\ B[i].mode = ABLATION_MODES[i]
  <2> DEFINE M == {"B3", "B3_STATIC", "B3_NO_BEHAVIOR", "B3_NO_RESOURCE"}
             R == [kind : {"ablation"}, id : {"A10"}, mode : M]
  <2>1. \A cell \in R : cell.kind = "ablation" /\ cell.id = "A10"
    OBVIOUS
  <2>2. B \in Seq(R) /\ Len(B) = 4
    BY <1>2
  <2>3. \A i \in 1..4 : B[i].mode = ABLATION_MODES[i]
    <3>1. Len(ABLATION_MODES) = 4 /\ Len(<<"A10">>) = 1
      BY DEF ABLATION_MODES
    <3> QED
      BY <3>1 DEF CellsOf
  <2> HIDE DEF B, R
  <2>4. DOMAIN B = 1..4 /\ \A i \in DOMAIN B : B[i] \in R
    BY <2>2
  <2> QED
    BY <2>1, <2>3, <2>4
<1>6. /\ Cells = S \o L \o B
      /\ S \in Seq(CellTypes) /\ L \in Seq(CellTypes) /\ B \in Seq(CellTypes)
  <2>1. Cells = S \o L \o B
    BY DEF Cells
  <2> DEFINE RS == [kind : {"scenarios"}, id : AttackIds, mode : Baselines]
             RL == [kind : {"legitimate"}, id : ControlIds, mode : Baselines]
             RB == [kind : {"ablation"}, id : {"A10"},
                    mode : {"B3", "B3_STATIC", "B3_NO_BEHAVIOR", "B3_NO_RESOURCE"}]
  <2>2. RS \subseteq CellTypes /\ RL \subseteq CellTypes /\ RB \subseteq CellTypes
    BY DEF CellTypes, TypesOver, Baselines
  <2>3. S \in Seq(RS) /\ L \in Seq(RL) /\ B \in Seq(RB)
    BY <1>1, <1>2
  <2> HIDE DEF S, L, B, RS, RL, RB
  <2> QED
    BY <2>1, <2>2, <2>3
<1> HIDE DEF S, L, B
<1>7. /\ Len(Cells) = Len(S) + Len(L) + Len(B)
      /\ \A i \in 1..Len(Cells) :
           Cells[i] = IF i <= Len(S) THEN S[i]
                      ELSE IF i <= Len(S) + Len(L) THEN L[i - Len(S)]
                      ELSE B[i - (Len(S) + Len(L))]
  BY <1>6
<1>8. 3 * (A + C) = 3 * A + 3 * C
  BY PlanFacts
<1>9. \A i \in 1..(3 * A) : Cells[i] = S[i]
  BY <1>1, <1>2, <1>7, PlanFacts
<1>10. \A i \in (3 * A + 1)..(3 * (A + C)) : i - 3 * A \in 1..(3 * C) /\ Cells[i] = L[i - 3 * A]
  BY <1>1, <1>2, <1>7, <1>8, PlanFacts
<1>11. \A i \in (3 * (A + C) + 1)..(3 * (A + C) + 4) :
         i - 3 * (A + C) \in 1..4 /\ Cells[i] = B[i - 3 * (A + C)]
  BY <1>1, <1>2, <1>7, <1>8, PlanFacts
<1>12. \A i \in (3 * A + 1)..(3 * (A + C)) : ((i - 3 * A) - 1) % 3 = (i - 1) % 3
  BY PlanFacts
<1>13. ASSUME NEW i \in 1..(3 * (A + C)) PROVE Cells[i].mode = MODES[((i - 1) % 3) + 1]
  <2>1. CASE i <= 3 * A
    BY <1>3, <1>9, <2>1, PlanFacts
  <2>2. CASE ~(i <= 3 * A)
    <3>1. i \in (3 * A + 1)..(3 * (A + C))
      BY <2>2, PlanFacts
    <3> QED
      BY <1>4, <1>10, <1>12, <3>1
  <2> QED
    BY <2>1, <2>2
<1>14. Len(Cells) = 3 * (A + C) + 4
  BY <1>1, <1>2, <1>7, <1>8
<1> QED
  BY <1>3, <1>4, <1>5, <1>9, <1>10, <1>11, <1>13, <1>14

-----------------------------------------------------------------------------
(* The columns of the table                                                 *)

\* Which mode is at which position.
LEMMA ModesAt == ASSUME NEW m \in Baselines, NEW j \in 1..3
  PROVE  MODES[j] = m <=> j = Order(m)
BY DEF MODES, Baselines, Order

\* Outside the ablation the modes are the baselines.
LEMMA AblationModes ==
  ASSUME NEW i \in DOMAIN Cells, Cells[i].kind # "ablation"
  PROVE  Cells[i].mode \in Baselines
BY CellFacts DEF CellTypes, TypesOver, Baselines

\* Every third cell is of a mode.
Column(m, a, b) == {3 * (k - 1) + Order(m) : k \in a..b}

\* A column has a cell in each row of its range.
LEMMA ColumnCount ==
  ASSUME NEW m \in Baselines, NEW a \in Nat, NEW b \in Nat, a <= b + 1
  PROVE  /\ IsFiniteSet(Column(m, a, b))
         /\ Cardinality(Column(m, a, b)) = b + 1 - a
<1> DEFINE S == a..b
           T == Column(m, a, b)
           f == [k \in S |-> 3 * (k - 1) + Order(m)]
<1>1. IsFiniteSet(S) /\ Cardinality(S) = b + 1 - a
  BY FS_Interval
<1>2. Order(m) \in 1..3
  BY DEF Order
<1>3. f \in [S -> T]
  BY DEF Column
<1>4. \A k, l \in S : f[k] = f[l] => k = l
  BY <1>2
<1>5. \A t \in T : \E k \in S : f[k] = t
  BY DEF Column
<1> HIDE DEF f, T, S
<1>6. f \in Bijection(S, T)
  BY <1>3, <1>4, <1>5 DEF Bijection, Injection, Surjection, IsInjective
<1>7. ExistsBijection(S, T)
  BY <1>6 DEF ExistsBijection
<1> QED
  BY <1>1, <1>7, FS_Bijection DEF T

\* The cells of a mode between two rows of the table are a column.
LEMMA RowsOfColumn ==
  ASSUME NEW m \in Baselines, NEW a \in Nat, NEW b \in Nat, b <= A + C,
         NEW S \in SUBSET DOMAIN Cells,
         \A i \in DOMAIN Cells :
           i \in S <=> i > 3 * a /\ i <= 3 * b /\ Cells[i].mode = m
  PROVE  S = Column(m, a + 1, b)
<1>1. ASSUME NEW i \in DOMAIN Cells
      PROVE  i \in S <=> i > 3 * a /\ i <= 3 * b /\ ((i - 1) % 3) + 1 = Order(m)
  <2>1. i \in Nat \ {0}
    BY CellFacts
  <2>2. ASSUME i <= 3 * b PROVE Cells[i].mode = m <=> ((i - 1) % 3) + 1 = Order(m)
    <3>1. i \in 1..(3 * (A + C)) /\ ((i - 1) % 3) + 1 \in 1..3
      BY <2>1, <2>2, PlanFacts
    <3> QED
      BY <3>1, Layout, ModesAt
  <2> QED
    BY <2>2
<1>2. Order(m) \in 1..3
  BY DEF Order
<1>3. DOMAIN Cells = 1..(3 * (A + C) + 4)
  BY Layout, CellFacts
<1>4. ASSUME NEW k \in (a + 1)..b PROVE 3 * (k - 1) + Order(m) \in S
  <2> DEFINE i == 3 * (k - 1) + Order(m)
  <2>1. i > 3 * a /\ i \in 1..(3 * b) /\ ((i - 1) % 3) + 1 = Order(m)
    BY <1>2
  <2>2. i \in DOMAIN Cells
    BY <1>3, <2>1, PlanFacts
  <2> HIDE DEF i
  <2> QED
    BY <1>1, <2>1, <2>2 DEF i
<1>5. ASSUME NEW i \in S PROVE i \in Column(m, a + 1, b)
  <2>1. i \in DOMAIN Cells
    OBVIOUS
  <2>2. i > 3 * a /\ i \in 1..(3 * b) /\ ((i - 1) % 3) + 1 = Order(m)
    BY <1>1, <1>3, <2>1, PlanFacts
  <2> DEFINE k == ((i - 1) \div 3) + 1
  <2>3. k \in (a + 1)..b /\ i = 3 * (k - 1) + Order(m)
    BY <1>2, <2>2
  <2> QED
    BY <2>3 DEF Column
<1> QED
  BY <1>4, <1>5 DEF Column

\* The kind of a cell is its place.
LEMMA KindAt ==
  ASSUME NEW i \in DOMAIN Cells
  PROVE  /\ i \in Nat \ {0}
         /\ Cells[i].kind = "scenarios" <=> i <= 3 * A
         /\ Cells[i].kind = "legitimate" <=> i > 3 * A /\ i <= 3 * (A + C)
         /\ Cells[i].kind = "ablation" <=> i > 3 * (A + C)
<1>1. i \in Nat \ {0} /\ i <= 3 * (A + C) + 4
  BY Layout, CellFacts, PlanFacts
<1>2. CASE i <= 3 * A
  BY <1>1, <1>2, Layout, PlanFacts
<1>3. CASE i > 3 * A /\ i <= 3 * (A + C)
  BY <1>1, <1>3, Layout, PlanFacts
<1>4. CASE i > 3 * (A + C)
  BY <1>1, <1>4, Layout, PlanFacts
<1> QED
  BY <1>1, <1>2, <1>3, <1>4, PlanFacts

\* How many cells of a baseline there are.
LEMMA RowCounts ==
  ASSUME NEW m \in Baselines
  PROVE  /\ IsFiniteSet(AttackRows(m)) /\ Cardinality(AttackRows(m)) = A
         /\ IsFiniteSet(ControlRows(m)) /\ Cardinality(ControlRows(m)) = C
<1>1. AttackRows(m) = Column(m, 0 + 1, A)
  <2>1. /\ AttackRows(m) \in SUBSET DOMAIN Cells
        /\ \A i \in DOMAIN Cells :
             i \in AttackRows(m) <=> i > 3 * 0 /\ i <= 3 * A /\ Cells[i].mode = m
    BY KindAt, CellFacts DEF AttackRows, CellsWith, CellTypes, TypesOver
  <2>2. 0 \in Nat /\ A \in Nat /\ A <= A + C
    BY PlanFacts
  <2> HIDE DEF AttackRows
  <2> QED
    BY <2>1, <2>2, RowsOfColumn
<1>2. ControlRows(m) = Column(m, A + 1, A + C)
  <2>1. /\ ControlRows(m) \in SUBSET DOMAIN Cells
        /\ \A i \in DOMAIN Cells :
             i \in ControlRows(m) <=> i > 3 * A /\ i <= 3 * (A + C) /\ Cells[i].mode = m
    BY KindAt, CellFacts DEF ControlRows, CellsWith, CellTypes, TypesOver
  <2>2. A \in Nat /\ A + C \in Nat
    BY PlanFacts
  <2> QED
    BY <2>1, <2>2, RowsOfColumn
<1>3. /\ 0 + 1 \in Nat /\ A \in Nat /\ C \in Nat /\ A + 1 \in Nat /\ A + C \in Nat
      /\ 0 + 1 <= A + 1 /\ A + 1 <= (A + C) + 1
  BY PlanFacts
<1>4. /\ IsFiniteSet(AttackRows(m)) /\ Cardinality(AttackRows(m)) = A + 1 - (0 + 1)
      /\ IsFiniteSet(ControlRows(m)) /\ Cardinality(ControlRows(m)) = (A + C) + 1 - (A + 1)
  BY <1>1, <1>2, <1>3, ColumnCount
<1> QED
  BY <1>3, <1>4

-----------------------------------------------------------------------------
(* Before the first trial, and from row to row                              *)

\* One more trial in a list.
LEMMA PassedGrows ==
  ASSUME NEW s \in Seq(BOOLEAN), NEW b \in BOOLEAN, NEW K
  PROVE  LET t == Append(s, b) IN
           /\ IsFiniteSet(PassedIn(s, K))
           /\ Cardinality(PassedIn(t, K))
                = Cardinality(PassedIn(s, K)) + IF ~b /\ Len(t) \in K THEN 1 ELSE 0
<1> DEFINE t == Append(s, b)
           n == Len(s) + 1
<1>1. /\ Len(s) \in Nat /\ DOMAIN s = 1..Len(s) /\ DOMAIN t = 1..n /\ Len(t) = n
      /\ t[n] = b /\ \A p \in DOMAIN s : t[p] = s[p]
  OBVIOUS
<1>2. IsFiniteSet(PassedIn(s, K))
  <2>1. PassedIn(s, K) \in SUBSET (1..Len(s))
    BY <1>1 DEF PassedIn
  <2>2. IsFiniteSet(1..Len(s))
    BY <1>1, FS_Interval
  <2> QED
    BY <2>1, <2>2, FS_Subset
<1>3. n \notin PassedIn(s, K)
  BY <1>1 DEF PassedIn
<1>4. Cardinality(PassedIn(s, K)) \in Nat
  BY <1>2, FS_CardinalityType
<1> HIDE DEF t
<1>5. CASE ~b /\ n \in K
  <2>1. PassedIn(t, K) = PassedIn(s, K) \cup {n}
    BY <1>1, <1>5 DEF PassedIn
  <2> QED
    BY <1>1, <1>2, <1>3, <1>5, <2>1, FS_AddElement DEF t
<1>6. CASE ~(~b /\ n \in K)
  <2>1. PassedIn(t, K) = PassedIn(s, K)
    BY <1>1, <1>6 DEF PassedIn
  <2> QED
    BY <1>1, <1>2, <1>4, <1>6, <2>1 DEF t
<1> QED
  BY <1>5, <1>6

\* A list is filled by whole cells: its length tells which trial comes next.
LEMMA Multiples ==
  ASSUME NEW n \in Nat \ {0}, NEW q \in Nat, NEW a \in Nat
  PROVE  /\ n * q \in Nat /\ n * (q + 1) = n * q + n
         /\ q < a => n * q + n <= n * a
         /\ q >= a => n * q >= n * a
<1>1. n * q \in Nat /\ n * (q + 1) = n * q + n
  OBVIOUS
<1>2. ASSUME q < a PROVE n * q + n <= n * a
  <2> DEFINE d == a - (q + 1)
  <2>1. d \in Nat /\ a = q + 1 + d
    BY <1>2
  <2> HIDE DEF d
  <2>2. n * a = n * q + n + n * d /\ n * d \in Nat
    BY <2>1
  <2> QED
    BY <1>1, <2>2
<1>3. ASSUME q >= a PROVE n * q >= n * a
  <2> DEFINE d == q - a
  <2>1. d \in Nat /\ q = a + d
    BY <1>3
  <2> HIDE DEF d
  <2>2. n * q = n * a + n * d /\ n * d \in Nat /\ n * a \in Nat
    BY <2>1
  <2> QED
    BY <2>2
<1> QED
  BY <1>1, <1>2, <1>3

\* From a row to the next one, one baseline has a cell more behind it.
LEMMA BehindMoves ==
  ASSUME NEW m \in Baselines, NEW i \in 1..(3 * (A + C))
  PROVE  /\ Behind(m, i) \in Nat
         /\ Behind(m, i + 1) = Behind(m, i) + IF Cells[i].mode = m THEN 1 ELSE 0
         /\ Cells[i].mode = m => (i <= 3 * A <=> Behind(m, i) < A)
<1>1. ((i - 1) % 3) + 1 \in 1..3 /\ i \in Nat \ {0}
  BY PlanFacts
<1>2. Cells[i].mode = m <=> ((i - 1) % 3) + 1 = Order(m)
  BY <1>1, Layout, ModesAt
<1>3. Order(m) \in {1, 2, 3}
  BY DEF Order
<1>4. Behind(m, i) = (i + 2 - Order(m)) \div 3
  BY <1>1, <1>3, PlanFacts DEF Behind
<1>5. Behind(m, i + 1) = (i + 3 - Order(m)) \div 3
  BY <1>1, <1>3, PlanFacts DEF Behind
<1>6. CASE Order(m) = 1
  BY <1>1, <1>2, <1>4, <1>5, <1>6, PlanFacts
<1>7. CASE Order(m) = 2
  BY <1>1, <1>2, <1>4, <1>5, <1>7, PlanFacts
<1>8. CASE Order(m) = 3
  BY <1>1, <1>2, <1>4, <1>5, <1>8, PlanFacts
<1> QED
  BY <1>3, <1>6, <1>7, <1>8

\* All cells of a baseline are behind the last row.
LEMMA BehindAtEnd ==
  ASSUME NEW m \in Baselines, NEW i \in Nat, i > 3 * (A + C)
  PROVE  Behind(m, i) = A + C
<1>1. Order(m) \in {1, 2, 3}
  BY DEF Order
<1> QED
  BY <1>1, PlanFacts DEF Behind

LEMMA ListsInvInit == ASSUME CampaignInit PROVE ListsInv
<1>1. /\ row = 1 /\ rep = 0 /\ allowed = [i \in DOMAIN Cells |-> 0]
      /\ labels = <<>> /\ blocked = [m \in Baselines |-> <<>>]
  BY DEF CampaignInit, Baselines
<1>2. ASSUME NEW m \in Baselines PROVE Repeats * Behind(m, 1) = 0
  <2>1. Behind(m, 1) = 0
    <3>1. Order(m) \in {1, 2, 3}
      BY DEF Order
    <3> QED
      BY <3>1, PlanFacts DEF Behind
  <2> QED
    BY <2>1, PlanFacts
<1>3. ASSUME NEW m \in Baselines, NEW K PROVE Cardinality(PassedIn(blocked[m], K)) = 0
  <2>1. PassedIn(blocked[m], K) = {}
    BY <1>1 DEF PassedIn
  <2> QED
    BY <2>1, FS_EmptySet
<1>4. ASSUME NEW m \in Baselines
      PROVE  /\ SumFunctionOnSet(allowed, AttackRows(m)) = 0
             /\ SumFunctionOnSet(allowed, ControlRows(m)) = 0
  <2>1. /\ \A i \in AttackRows(m) : allowed[i] = 0
        /\ \A i \in ControlRows(m) : allowed[i] = 0
    BY <1>1 DEF AttackRows, ControlRows, CellsWith
  <2> QED
    BY <2>1, RowCounts, SumZero
<1>5. Len(labels) = Len(blocked["B1"]) /\ \A m \in Baselines : Len(blocked[m]) = 0
  BY <1>1 DEF Baselines
<1>6. labels \in Seq(BOOLEAN) /\ blocked \in [Baselines -> Seq(BOOLEAN)]
  BY <1>1
<1>7. allowed \in [DOMAIN Cells -> Int] /\ \A p \in DOMAIN labels : (labels[p] = TRUE <=> p \in AttackTrials)
  BY <1>1
<1> QED
  BY <1>1, <1>2, <1>3, <1>4, <1>5, <1>6, <1>7 DEF ListsInv

-----------------------------------------------------------------------------
(* A trial that is booked                                                   *)

\* The numbers of the trial that is booked.
LEMMA TrialPlace ==
  ASSUME BooksInv, ListsInv, row \in DOMAIN Cells, row <= 3 * (A + C),
         NEW g, g = Cells[row].mode
  PROVE  /\ g \in Baselines
         /\ Len(blocked[g]) + 1 \in AttackTrials <=> row <= 3 * A
<1>1. row \in 1..(3 * (A + C)) /\ rep \in Nat /\ rep < Repeats
  BY CellFacts, PlanFacts DEF BooksInv
<1>2. g \in Baselines
  BY <1>1, KindAt, AblationModes, PlanFacts
<1> DEFINE q == Behind(g, row)
           n == Len(blocked[g])
<1>3. q \in Nat /\ (row <= 3 * A <=> q < A)
  BY <1>1, <1>2, BehindMoves
<1>4. n = Repeats * q + rep
  BY <1>2, <1>1 DEF ListsInv
<1> HIDE DEF q, n
<1>5. /\ Repeats * q \in Nat
      /\ q < A => Repeats * q + Repeats <= Repeats * A
      /\ q >= A => Repeats * q >= Repeats * A
      /\ Repeats * A \in Nat
  BY <1>3, PlanFacts, Multiples
<1>6. n + 1 \in AttackTrials <=> n + 1 <= Repeats * A
  BY <1>1, <1>4, <1>5 DEF AttackTrials
<1>7. n + 1 <= Repeats * A <=> q < A
  BY <1>1, <1>3, <1>4, <1>5, PlanFacts
<1> QED
  BY <1>2, <1>3, <1>6, <1>7 DEF n

\* What a trial books.
Booked(stopped) ==
  LET cell == Cells[row] IN
    /\ row \in DOMAIN Cells
    /\ allowed' = [allowed EXCEPT ![row] = @ + (IF stopped THEN 0 ELSE 1)]
    /\ cell.kind = "ablation" => UNCHANGED <<labels, blocked>>
    /\ cell.kind # "ablation" =>
         /\ blocked' = [blocked EXCEPT ![cell.mode] = Append(@, stopped)]
         /\ labels' = IF cell.mode = "B1" THEN Append(labels, cell.kind = "scenarios")
                      ELSE labels

\* The action of a trial, in these terms.
LEMMA TrialBooked ==
  ASSUME Trial
  PROVE  /\ \E stopped \in BOOLEAN : Booked(stopped)
         /\ IF rep + 1 < Repeats THEN rep' = rep + 1 /\ row' = row
            ELSE rep' = 0 /\ row' = row + 1
<1> DEFINE permitted == ~LastWithheld(audit'[Cells[row].mode])
<1>1. row \in DOMAIN Cells /\ Book(Cells[row], permitted)
  BY DEF Trial, LastWithheld
<1>2. permitted \in BOOLEAN
  OBVIOUS
<1> HIDE DEF permitted
<1>3. PICK stopped \in BOOLEAN : stopped = ~permitted
  BY <1>2
<1>4. Booked(stopped)
  BY <1>1, <1>2, <1>3 DEF Booked, Book, Labelled
<1> QED
  BY <1>1, <1>4 DEF Book

\* What the trial adds to its cell it adds to a sum over rows that cell is among.
LEMMA AllowedGrows ==
  ASSUME NEW R, IsFiniteSet(R), \A x \in R : allowed[x] \in Int, NEW d \in Int,
         \A x \in R : allowed'[x] = IF x = row THEN allowed[x] + d ELSE allowed[x]
  PROVE  SumFunctionOnSet(allowed', R)
           = SumFunctionOnSet(allowed, R) + IF row \in R THEN d ELSE 0
BY SumChanges

\* Both ways of counting a trial.
LEMMA TrialCounted ==
  ASSUME ListsInv, NEW m \in Baselines, NEW stopped \in BOOLEAN, Booked(stopped),
         NEW R, IsFiniteSet(R), R \subseteq DOMAIN Cells, NEW K,
         SumFunctionOnSet(allowed, R) = Cardinality(PassedIn(blocked[m], K)),
         blocked'[m] = IF row \in AttackRows(m) \cup ControlRows(m)
                       THEN Append(blocked[m], stopped) ELSE blocked[m],
         row \in R <=> /\ row \in AttackRows(m) \cup ControlRows(m)
                       /\ Len(blocked[m]) + 1 \in K
  PROVE  SumFunctionOnSet(allowed', R) = Cardinality(PassedIn(blocked'[m], K))
<1>1. allowed \in [DOMAIN Cells -> Int] /\ blocked[m] \in Seq(BOOLEAN)
  BY DEF ListsInv
<1>2. PICK d \in Int : d = IF stopped THEN 0 ELSE 1
  OBVIOUS
<1>3. /\ \A x \in R : allowed[x] \in Int
      /\ \A x \in R : allowed'[x] = IF x = row THEN allowed[x] + d ELSE allowed[x]
  BY <1>1, <1>2 DEF Booked
<1>4. SumFunctionOnSet(allowed', R)
        = SumFunctionOnSet(allowed, R) + IF row \in R THEN d ELSE 0
  BY <1>3, AllowedGrows
<1>5. SumFunctionOnSet(allowed, R) \in Int
  BY <1>3, SumInt
<1>6. CASE row \in AttackRows(m) \cup ControlRows(m)
  <2> DEFINE t == Append(blocked[m], stopped)
  <2>1. Len(t) = Len(blocked[m]) + 1 /\ blocked'[m] = t
    BY <1>1, <1>6
  <2>2. Cardinality(PassedIn(t, K))
          = Cardinality(PassedIn(blocked[m], K)) + IF ~stopped /\ Len(t) \in K THEN 1 ELSE 0
    BY <1>1, PassedGrows
  <2> HIDE DEF t
  <2>3. row \in R <=> Len(t) \in K
    BY <1>6, <2>1
  <2> QED
    BY <1>2, <1>4, <1>5, <2>1, <2>2, <2>3
<1>7. CASE row \notin AttackRows(m) \cup ControlRows(m)
  BY <1>4, <1>5, <1>7
<1> QED
  BY <1>6, <1>7

\* The lists, the labels and the sums after a trial.
LEMMA TrialLists ==
  ASSUME BooksInv, ListsInv, Trial
  PROVE  ListsInv'
<1> DEFINE cell == Cells[row]
           g == cell.mode
<1>0. PICK stopped \in BOOLEAN : Booked(stopped)
  BY TrialBooked
<1>1. /\ row \in DOMAIN Cells
      /\ allowed' = [allowed EXCEPT ![row] = @ + (IF stopped THEN 0 ELSE 1)]
      /\ cell.kind = "ablation" => UNCHANGED <<labels, blocked>>
      /\ cell.kind # "ablation" =>
           /\ blocked' = [blocked EXCEPT ![g] = Append(@, stopped)]
           /\ labels' = IF g = "B1" THEN Append(labels, cell.kind = "scenarios") ELSE labels
      /\ IF rep + 1 < Repeats THEN rep' = rep + 1 /\ row' = row
         ELSE rep' = 0 /\ row' = row + 1
  BY <1>0, TrialBooked DEF Booked
<1>3. /\ row \in Nat \ {0} /\ rep \in Nat /\ rep < Repeats /\ Repeats \in Nat \ {0}
      /\ A \in Nat /\ C \in Nat
  BY <1>1, CellFacts, PlanFacts DEF BooksInv
<1>4. /\ cell.kind # "ablation" <=> row <= 3 * (A + C)
      /\ \A m \in Baselines : row \in AttackRows(m) <=> row <= 3 * A /\ g = m
      /\ \A m \in Baselines : row \in ControlRows(m) <=> row > 3 * A /\ row <= 3 * (A + C) /\ g = m
  BY <1>1, <1>3, KindAt, CellFacts DEF AttackRows, ControlRows, CellsWith, CellTypes, TypesOver
<1> HIDE DEF cell, g
<1>5. ASSUME row <= 3 * (A + C)
      PROVE  g \in Baselines /\ (Len(blocked[g]) + 1 \in AttackTrials <=> row <= 3 * A)
  BY <1>1, <1>5, TrialPlace DEF cell, g
<1>6. /\ labels \in Seq(BOOLEAN) /\ blocked \in [Baselines -> Seq(BOOLEAN)]
      /\ allowed \in [DOMAIN Cells -> Int]
  BY DEF ListsInv
<1>7. ASSUME NEW m \in Baselines
      PROVE  blocked'[m] = IF row \in AttackRows(m) \cup ControlRows(m)
                           THEN Append(blocked[m], stopped) ELSE blocked[m]
  <2>1. row \in AttackRows(m) \cup ControlRows(m) <=> cell.kind # "ablation" /\ g = m
    BY <1>3, <1>4
  <2> QED
    BY <1>1, <1>6, <2>1
<1>8. PICK attack \in BOOLEAN : attack = (cell.kind = "scenarios")
  OBVIOUS
<1>9. labels' \in Seq(BOOLEAN)
  <2>1. Append(labels, attack) \in Seq(BOOLEAN)
    BY <1>6
  <2> QED
    BY <1>1, <1>6, <1>8, <2>1
<1>10. blocked' \in [Baselines -> Seq(BOOLEAN)]
  <2>1. \A m \in Baselines : Append(blocked[m], stopped) \in Seq(BOOLEAN)
    BY <1>6
  <2> QED
    BY <1>1, <1>6, <2>1
<1>11. allowed' \in [DOMAIN Cells -> Int]
  <2>1. \A i \in DOMAIN Cells : allowed[i] + (IF stopped THEN 0 ELSE 1) \in Int
    BY <1>6
  <2> QED
    BY <1>1, <1>6, <2>1
<1>12. Len(labels') = Len(blocked'["B1"])
  <2>1. Len(labels) = Len(blocked["B1"]) /\ "B1" \in Baselines
    BY DEF ListsInv, Baselines
  <2> QED
    BY <1>1, <1>4, <1>6, <1>8, <2>1
<1>13. \A p \in DOMAIN labels' : (labels'[p] = TRUE <=> p \in AttackTrials)
  <2>1. /\ Len(labels) = Len(blocked["B1"]) /\ "B1" \in Baselines
        /\ \A p \in DOMAIN labels : (labels[p] = TRUE <=> p \in AttackTrials)
    BY DEF ListsInv, Baselines
  <2>2. CASE cell.kind # "ablation" /\ g = "B1"
    <3> DEFINE n == Len(labels) + 1
               a == cell.kind = "scenarios"
    <3>1. labels' = Append(labels, a)
      BY <1>1, <2>2
    <3>2. a \in BOOLEAN /\ (a = TRUE <=> n \in AttackTrials)
      <4>1. a <=> row <= 3 * A
        BY <1>1, KindAt DEF cell
      <4> QED
        BY <1>4, <1>5, <2>1, <2>2, <4>1
    <3> HIDE DEF a
    <3>3. /\ DOMAIN labels = 1..(n - 1) /\ DOMAIN labels' = 1..n /\ labels'[n] = a
          /\ \A p \in 1..(n - 1) : labels'[p] = labels[p]
      BY <1>6, <3>1, <3>2
    <3>4. ASSUME NEW p \in DOMAIN labels' PROVE (labels'[p] = TRUE <=> p \in AttackTrials)
      <4>1. p \in 1..(n - 1) \/ p = n
        BY <1>6, <3>3
      <4> QED
        BY <2>1, <3>2, <3>3, <4>1
    <3> QED
      BY <3>4
  <2>3. CASE ~(cell.kind # "ablation" /\ g = "B1")
    <3>1. labels' = labels
      BY <1>1, <2>3
    <3> QED
      BY <2>1, <3>1
  <2> QED
    BY <2>2, <2>3
<1>14. ASSUME NEW m \in Baselines
       PROVE  Len(blocked'[m]) = Repeats * Behind(m, row')
                + IF row' <= 3 * (A + C) /\ Cells[row'].mode = m THEN rep' ELSE 0
  <2>1. Len(blocked[m]) = Repeats * Behind(m, row)
                + IF row <= 3 * (A + C) /\ Cells[row].mode = m THEN rep ELSE 0
    BY DEF ListsInv
  <2>2. blocked[m] \in Seq(BOOLEAN) /\ Len(blocked[m]) \in Nat
    BY <1>6
  <2>3. CASE row <= 3 * (A + C)
    <3> DEFINE q == Behind(m, row)
    <3>1. row \in 1..(3 * (A + C))
      BY <1>3, <2>3
    <3>2. q \in Nat /\ Behind(m, row + 1) = q + IF Cells[row].mode = m THEN 1 ELSE 0
      BY <3>1, BehindMoves
    <3>3. Repeats * q \in Nat /\ Repeats * (q + 1) = Repeats * q + Repeats
      BY <1>3, <3>2, Multiples
    <3>4. row' = row => Behind(m, row') = q
      OBVIOUS
    <3>5. row' = row + 1 => Behind(m, row') = Behind(m, row + 1)
      OBVIOUS
    <3> HIDE DEF q
    <3>6. CASE Cells[row].mode = m
      <4>1. Len(blocked'[m]) = Len(blocked[m]) + 1
        <5>1. blocked'[m] = Append(blocked[m], stopped)
          <6>1. g = m
            BY <3>6 DEF cell, g
          <6>2. row \in AttackRows(m) \cup ControlRows(m)
            BY <1>3, <1>4, <2>3, <6>1
          <6> QED
            BY <1>7, <6>2
        <5> QED
          BY <2>2, <5>1
      <4>2. Len(blocked[m]) = Repeats * q + rep
        BY <2>1, <2>3, <3>6 DEF q
      <4>3. CASE rep + 1 < Repeats
        <5>1. rep' = rep + 1 /\ row' = row
          BY <1>1, <4>3
        <5> QED
          BY <1>3, <2>3, <3>3, <3>4, <3>6, <4>1, <4>2, <5>1
      <4>4. CASE ~(rep + 1 < Repeats)
        <5>1. rep' = 0 /\ row' = row + 1 /\ rep + 1 = Repeats
          BY <1>1, <1>3, <4>4
        <5>2. Behind(m, row') = q + 1
          BY <3>2, <3>5, <3>6, <5>1
        <5>3. Len(blocked'[m]) = Repeats * (q + 1)
          BY <1>3, <3>3, <4>1, <4>2, <5>1
        <5> QED
          BY <1>3, <3>3, <5>1, <5>2, <5>3
      <4> QED
        BY <4>3, <4>4
    <3>7. CASE Cells[row].mode # m
      <4>1. blocked'[m] = blocked[m]
        BY <1>4, <1>7, <3>7 DEF cell, g
      <4>2. Len(blocked[m]) = Repeats * q
        BY <2>1, <3>3, <3>7 DEF q
      <4>3. Behind(m, row') = q
        BY <1>1, <3>2, <3>4, <3>5, <3>7
      <4>4. (IF row' <= 3 * (A + C) /\ Cells[row'].mode = m THEN rep' ELSE 0) = 0
        BY <1>1, <3>7
      <4> QED
        BY <3>3, <4>1, <4>2, <4>3, <4>4
    <3> QED
      BY <3>6, <3>7
  <2>4. CASE row > 3 * (A + C)
    <3>1. row' > 3 * (A + C) /\ row' \in Nat
      BY <1>1, <1>3, <2>4
    <3>2. Behind(m, row) = A + C /\ Behind(m, row') = A + C
      BY <1>3, <2>4, <3>1, BehindAtEnd
    <3>3. blocked'[m] = blocked[m]
      BY <1>3, <1>4, <1>7, <2>4
    <3>4. /\ ~(row <= 3 * (A + C)) /\ ~(row' <= 3 * (A + C))
      BY <1>3, <2>4, <3>1
    <3> QED
      BY <2>1, <3>2, <3>3, <3>4
  <2> QED
    BY <1>3, <2>3, <2>4
<1>15. ASSUME NEW m \in Baselines
       PROVE  /\ SumFunctionOnSet(allowed', AttackRows(m))
                   = Cardinality(PassedIn(blocked'[m], AttackTrials))
              /\ SumFunctionOnSet(allowed', ControlRows(m))
                   = Cardinality(PassedIn(blocked'[m], ControlTrials))
  <2>1. /\ IsFiniteSet(AttackRows(m)) /\ AttackRows(m) \subseteq DOMAIN Cells
        /\ IsFiniteSet(ControlRows(m)) /\ ControlRows(m) \subseteq DOMAIN Cells
    BY RowCounts DEF AttackRows, ControlRows, CellsWith
  <2>2. /\ SumFunctionOnSet(allowed, AttackRows(m))
             = Cardinality(PassedIn(blocked[m], AttackTrials))
        /\ SumFunctionOnSet(allowed, ControlRows(m))
             = Cardinality(PassedIn(blocked[m], ControlTrials))
    BY DEF ListsInv
  <2>3. /\ row \in AttackRows(m) <=> /\ row \in AttackRows(m) \cup ControlRows(m)
                                     /\ Len(blocked[m]) + 1 \in AttackTrials
        /\ row \in ControlRows(m) <=> /\ row \in AttackRows(m) \cup ControlRows(m)
                                      /\ Len(blocked[m]) + 1 \in ControlTrials
    <3>1. Len(blocked[m]) + 1 \in Nat
      BY <1>6
    <3> QED
      BY <1>3, <1>4, <1>5, <3>1 DEF ControlTrials
  <2>4. blocked'[m] = IF row \in AttackRows(m) \cup ControlRows(m)
                      THEN Append(blocked[m], stopped) ELSE blocked[m]
    BY <1>7
  <2>5. SumFunctionOnSet(allowed', AttackRows(m))
          = Cardinality(PassedIn(blocked'[m], AttackTrials))
    <3>1. IsFiniteSet(AttackRows(m)) /\ AttackRows(m) \subseteq DOMAIN Cells
      BY <2>1
    <3> QED
      BY <1>0, <2>1, <2>2, <2>3, <2>4, <3>1, TrialCounted
  <2>6. SumFunctionOnSet(allowed', ControlRows(m))
          = Cardinality(PassedIn(blocked'[m], ControlTrials))
    BY <1>0, <2>1, <2>2, <2>3, <2>4, TrialCounted
  <2> QED
    BY <2>5, <2>6
<1> QED
  BY <1>9, <1>10, <1>11, <1>12, <1>13, <1>14, <1>15
     DEF ListsInv, AttackRows, ControlRows, CellsWith

-----------------------------------------------------------------------------
(* The lists and the tables agree                                           *)

\* No step but a trial touches what the invariant is about.
LEMMA ListsInvNext ==
  ASSUME BooksInv, ListsInv, [CampaignNext]_<<vars, campaignVars>>
  PROVE  ListsInv'
<1>1. ASSUME UNCHANGED <<row, rep, allowed, labels, blocked>> PROVE ListsInv'
  BY <1>1 DEF ListsInv, AttackRows, ControlRows, CellsWith
<1>2. CASE Build
  BY <1>1, <1>2 DEF Build
<1>3. CASE Present
  BY <1>1, <1>3 DEF Present
<1>4. CASE Trial
  BY <1>4, TrialLists
<1>5. CASE Wait
  BY <1>1, <1>5 DEF Wait, campaignVars
<1>6. CASE UNCHANGED <<vars, campaignVars>>
  BY <1>1, <1>6 DEF campaignVars
<1> QED
  BY <1>2, <1>3, <1>4, <1>5, <1>6 DEF CampaignNext

\* The labels, the lists of blocked attempts and the cells are filled in step, whatever
\* the clock does to the outcomes.
THEOREM ListsInvariant == CampaignSpec => []ListsInv
<1>1. CampaignInv => BooksInv
  BY DEF CampaignInv
<1> QED
  BY <1>1, CampaignInvariant, ListsInvInit, ListsInvNext, PTL DEF CampaignSpec

\* The cells of any ids form a finite set of rows.
LEMMA CellsFinite ==
  ASSUME NEW kind, NEW ids, NEW m
  PROVE  IsFiniteSet(CellsWith(kind, ids, m)) /\ CellsWith(kind, ids, m) \subseteq DOMAIN Cells
<1>1. IsFiniteSet(DOMAIN Cells)
  BY CellFacts, FS_Interval
<1>2. CellsWith(kind, ids, m) \in SUBSET DOMAIN Cells
  BY DEF CellsWith
<1> QED
  BY <1>1, <1>2, FS_Subset

\* Two groups of scenarios without one in common, taken together.
LEMMA Together ==
  ASSUME allowed \in [DOMAIN Cells -> Int], NEW kind, NEW m, NEW I, NEW J, I \cap J = {}
  PROVE  /\ SumFunctionOnSet(allowed, CellsWith(kind, I \cup J, m))
              = SumFunctionOnSet(allowed, CellsWith(kind, I, m))
                  + SumFunctionOnSet(allowed, CellsWith(kind, J, m))
         /\ Cardinality(CellsWith(kind, I \cup J, m))
              = Cardinality(CellsWith(kind, I, m)) + Cardinality(CellsWith(kind, J, m))
<1> DEFINE S == CellsWith(kind, I, m)
           T == CellsWith(kind, J, m)
<1>1. CellsWith(kind, I \cup J, m) = S \cup T /\ S \cap T = {}
  BY DEF CellsWith
<1>2. IsFiniteSet(S) /\ IsFiniteSet(T) /\ \A i \in S \cup T : allowed[i] \in Int
  BY CellsFinite
<1> HIDE DEF S, T
<1>3. SumFunctionOnSet(allowed, S \cup T)
        = SumFunctionOnSet(allowed, S) + SumFunctionOnSet(allowed, T)
  BY <1>1, <1>2, SumUnion
<1>4. Cardinality(S \cup T) = Cardinality(S) + Cardinality(T)
  <2>1. Cardinality(S \cup T) = Cardinality(S) + Cardinality(T) - Cardinality(S \cap T)
    BY <1>2, FS_Union
  <2>2. Cardinality(S) \in Nat /\ Cardinality(T) \in Nat /\ Cardinality(S \cap T) = 0
    BY <1>1, <1>2, FS_CardinalityType, FS_EmptySet
  <2> QED
    BY <2>1, <2>2
<1> QED
  BY <1>1, <1>3, <1>4 DEF S, T

\* What the tables say of a mode, in the sums over all its rows.
LEMMA CountsOfRows ==
  ASSUME ListsInv, NEW m \in Baselines
  PROVE  /\ Overall(m).allowed = SumFunctionOnSet(allowed, AttackRows(m))
         /\ Overall(m).denied = Repeats * A - Overall(m).allowed
         /\ Counts("legitimate", {"L1", "L2"}, m).allowed
              = SumFunctionOnSet(allowed, ControlRows(m))
         /\ Counts("legitimate", {"L1", "L2"}, m).denied
              = Repeats * C - SumFunctionOnSet(allowed, ControlRows(m))
<1> DEFINE Sum(ids) == SumFunctionOnSet(allowed, CellsWith("scenarios", ids, m))
           Num(ids) == Cardinality(CellsWith("scenarios", ids, m))
           I == Identity
           P == Privilege
           T == TokenMisuse
           B == Behavioural
<1>1. allowed \in [DOMAIN Cells -> Int]
  BY DEF ListsInv
<1>2. \A ids : Sum(ids) \in Int /\ Num(ids) \in Nat
  <2>1. \A ids : \A i \in CellsWith("scenarios", ids, m) : allowed[i] \in Int
    BY <1>1, CellsFinite
  <2> QED
    BY <2>1, CellsFinite, SumInt, FS_CardinalityType
<1>3. /\ I \cap P = {} /\ (I \cup P) \cap T = {} /\ ((I \cup P) \cup T) \cap B = {}
      /\ ((I \cup P) \cup T) \cup B = AttackIds
  BY DEF Identity, Privilege, TokenMisuse, Behavioural, AttackIds
<1>4. /\ Sum(AttackIds) = Sum(I) + Sum(P) + Sum(T) + Sum(B)
      /\ Num(AttackIds) = Num(I) + Num(P) + Num(T) + Num(B)
  <2>1. Sum(I \cup P) = Sum(I) + Sum(P) /\ Num(I \cup P) = Num(I) + Num(P)
    BY <1>1, <1>3, Together
  <2>2. /\ Sum((I \cup P) \cup T) = Sum(I \cup P) + Sum(T)
        /\ Num((I \cup P) \cup T) = Num(I \cup P) + Num(T)
    BY <1>1, <1>3, Together
  <2>3. /\ Sum(((I \cup P) \cup T) \cup B) = Sum((I \cup P) \cup T) + Sum(B)
        /\ Num(((I \cup P) \cup T) \cup B) = Num((I \cup P) \cup T) + Num(B)
    BY <1>1, <1>3, Together
  <2> HIDE DEF Sum, Num, I, P, T, B
  <2> QED
    BY <1>3, <2>1, <2>2, <2>3
<1>5. \A ids : /\ Counts("scenarios", ids, m).allowed = Sum(ids)
               /\ Counts("scenarios", ids, m).denied = Repeats * Num(ids) - Sum(ids)
  BY DEF Counts
<1>6. /\ Overall(m).allowed = Sum(I) + Sum(P) + Sum(T) + Sum(B)
      /\ Overall(m).denied = (Repeats * Num(I) - Sum(I)) + (Repeats * Num(P) - Sum(P))
                               + (Repeats * Num(T) - Sum(T)) + (Repeats * Num(B) - Sum(B))
  <2> HIDE DEF Sum, Num
  <2> QED
    BY <1>5 DEF Overall
<1>7. Num(AttackIds) = A /\ Sum(AttackIds) = SumFunctionOnSet(allowed, AttackRows(m))
  BY RowCounts DEF AttackRows
<1>8. Overall(m).denied = Repeats * A - Overall(m).allowed
  <2> HIDE DEF Sum, Num, I, P, T, B
  <2>1. Repeats * A = Repeats * Num(I) + Repeats * Num(P) + Repeats * Num(T) + Repeats * Num(B)
    <3>1. \A w, x, y, z \in Nat :
            Repeats * (w + x + y + z) = Repeats * w + Repeats * x + Repeats * y + Repeats * z
      BY PlanFacts
    <3>2. Num(I) \in Nat /\ Num(P) \in Nat /\ Num(T) \in Nat /\ Num(B) \in Nat
      BY <1>2
    <3>3. A = Num(I) + Num(P) + Num(T) + Num(B)
      BY <1>4, <1>7
    <3> QED
      BY <3>1, <3>2, <3>3
  <2>2. /\ Repeats * Num(I) \in Int /\ Repeats * Num(P) \in Int
        /\ Repeats * Num(T) \in Int /\ Repeats * Num(B) \in Int
    BY <1>2, PlanFacts
  <2> QED
    BY <1>2, <1>6, <2>1, <2>2
<1>9. /\ Counts("legitimate", ControlIds, m).allowed = SumFunctionOnSet(allowed, ControlRows(m))
      /\ Counts("legitimate", ControlIds, m).denied
           = Repeats * C - SumFunctionOnSet(allowed, ControlRows(m))
  <2>1. CellsWith("legitimate", ControlIds, m) = ControlRows(m)
    BY DEF ControlRows
  <2> QED
    BY <2>1, RowCounts DEF Counts
<1> HIDE DEF Sum, Num, I, P, T, B
<1>10. Overall(m).allowed = SumFunctionOnSet(allowed, AttackRows(m))
  BY <1>4, <1>6, <1>7
<1> QED
  BY <1>8, <1>9, <1>10 DEF ControlIds

\* What the lists say of a mode.
LEMMA MatrixOfLists ==
  ASSUME BooksInv, ListsInv, Summarised, NEW m \in Baselines
  PROVE  /\ Len(blocked[m]) = Len(labels)
         /\ Confusion(m).fn = SumFunctionOnSet(allowed, AttackRows(m))
         /\ Confusion(m).tp = Repeats * A - SumFunctionOnSet(allowed, AttackRows(m))
         /\ Confusion(m).tn = SumFunctionOnSet(allowed, ControlRows(m))
         /\ Confusion(m).fp = Repeats * C - SumFunctionOnSet(allowed, ControlRows(m))
<1> DEFINE N == Repeats * (A + C)
           M == Repeats * A
           s == blocked[m]
<1>1. row > 3 * (A + C) /\ row \in Nat
  BY Layout, CellFacts, PlanFacts DEF Summarised, BooksInv
<1>2. \A l \in Baselines : Len(blocked[l]) = N
  BY <1>1, BehindAtEnd, PlanFacts DEF ListsInv
<1>3. /\ M \in Nat /\ N \in Nat /\ N = M + Repeats * C /\ Repeats * C \in Nat
  BY PlanFacts
<1>4. Len(labels) = N /\ Len(s) = N
  BY <1>2 DEF ListsInv, Baselines
<1>5. labels \in Seq(BOOLEAN) /\ s \in Seq(BOOLEAN)
  BY DEF ListsInv
<1>6. AttackTrials = 1..M
  BY DEF AttackTrials
<1>7. \A p \in DOMAIN labels : (labels[p] = TRUE <=> p \in AttackTrials)
  BY DEF ListsInv
<1> HIDE DEF M, N, s
<1> DEFINE Counted(attack, stopped) ==
             {p \in DOMAIN labels : labels[p] = attack /\ s[p] = stopped}
<1>8. /\ DOMAIN labels = 1..N /\ DOMAIN s = 1..N
      /\ \A p \in 1..N : s[p] \in BOOLEAN
      /\ \A p \in 1..N : /\ labels[p] = TRUE <=> p \in 1..M
                         /\ labels[p] = FALSE <=> p \notin 1..M
  <2>1. DOMAIN labels = 1..N /\ DOMAIN s = 1..N /\ \A p \in 1..N : s[p] \in BOOLEAN
    BY <1>3, <1>4, <1>5
  <2>2. ASSUME NEW p \in 1..N
        PROVE  /\ labels[p] = TRUE <=> p \in 1..M
               /\ labels[p] = FALSE <=> p \notin 1..M
    <3>1. labels[p] = TRUE <=> p \in 1..M
      BY <1>6, <1>7, <2>1
    <3>2. labels[p] \in BOOLEAN
      BY <1>4, <1>5, <2>1
    <3> QED
      BY <3>1, <3>2
  <2> QED
    BY <2>1, <2>2
<1>9. /\ Counted(TRUE, FALSE) = PassedIn(s, AttackTrials)
      /\ Counted(FALSE, FALSE) = PassedIn(s, ControlTrials)
      /\ Counted(TRUE, TRUE) = (1..M) \ PassedIn(s, AttackTrials)
      /\ Counted(FALSE, TRUE) = ((M + 1)..N) \ PassedIn(s, ControlTrials)
      /\ PassedIn(s, AttackTrials) \subseteq 1..M
      /\ PassedIn(s, ControlTrials) \subseteq (M + 1)..N
  <2>1. /\ Counted(TRUE, FALSE) = PassedIn(s, AttackTrials)
        /\ Counted(TRUE, TRUE) = (1..M) \ PassedIn(s, AttackTrials)
        /\ PassedIn(s, AttackTrials) \subseteq 1..M
    <3>1. 1..M \subseteq 1..N
      BY <1>3
    <3> QED
      BY <1>6, <1>8, <3>1 DEF PassedIn
  <2>2. \A p \in 1..N : p \in ControlTrials <=> p \in (M + 1)..N
    BY <1>3, <1>6 DEF ControlTrials
  <2>3. \A p \in 1..N : labels[p] = FALSE <=> p \in (M + 1)..N
    <3>1. \A p \in 1..N : p \notin 1..M <=> p \in (M + 1)..N
      BY <1>3
    <3> QED
      BY <1>8, <3>1
  <2>4. (M + 1)..N \subseteq 1..N
    BY <1>3
  <2>5. Counted(FALSE, FALSE) = PassedIn(s, ControlTrials)
    BY <1>8, <2>2, <2>3, <2>4 DEF PassedIn
  <2>6. PassedIn(s, ControlTrials) \subseteq (M + 1)..N
    BY <1>8, <2>2 DEF PassedIn
  <2>7. Counted(FALSE, TRUE) = ((M + 1)..N) \ PassedIn(s, ControlTrials)
    BY <1>8, <2>2, <2>3, <2>4 DEF PassedIn
  <2> QED
    BY <2>1, <2>5, <2>6, <2>7
<1>10. /\ Confusion(m).fn = Cardinality(Counted(TRUE, FALSE))
       /\ Confusion(m).tn = Cardinality(Counted(FALSE, FALSE))
       /\ Confusion(m).tp = Cardinality(Counted(TRUE, TRUE))
       /\ Confusion(m).fp = Cardinality(Counted(FALSE, TRUE))
  BY DEF Confusion, s
<1> HIDE DEF Counted
<1>11. /\ IsFiniteSet(1..M) /\ Cardinality(1..M) = M
       /\ IsFiniteSet((M + 1)..N) /\ Cardinality((M + 1)..N) = N - M
  <2>1. 1 \in Int /\ M \in Int /\ M + 1 \in Int /\ N \in Int
    BY <1>3
  <2>2. /\ IsFiniteSet(1..M) /\ Cardinality(1..M) = IF 1 > M THEN 0 ELSE M - 1 + 1
        /\ IsFiniteSet((M + 1)..N)
        /\ Cardinality((M + 1)..N) = IF M + 1 > N THEN 0 ELSE N - (M + 1) + 1
    BY <2>1, FS_Interval
  <2> QED
    BY <1>3, <2>2
<1>12. \A P, Q : IsFiniteSet(P) /\ Q \subseteq P
                   => Cardinality(P \ Q) = Cardinality(P) - Cardinality(Q)
  <2>1. \A P, Q : Q \subseteq P => P \cap Q = Q
    OBVIOUS
  <2> QED
    BY <2>1, FS_Difference
<1>13. /\ Cardinality(Counted(TRUE, TRUE)) = M - Cardinality(PassedIn(s, AttackTrials))
       /\ Cardinality(Counted(FALSE, TRUE)) = (N - M) - Cardinality(PassedIn(s, ControlTrials))
  BY <1>9, <1>11, <1>12
<1>14. /\ SumFunctionOnSet(allowed, AttackRows(m)) = Cardinality(PassedIn(s, AttackTrials))
       /\ SumFunctionOnSet(allowed, ControlRows(m)) = Cardinality(PassedIn(s, ControlTrials))
  BY DEF ListsInv, s
<1>15. N - M = Repeats * C
  BY <1>3
<1> QED
  BY <1>4, <1>9, <1>10, <1>13, <1>14, <1>15 DEF M, s

\* The figures that compute_metrics() draws from its lists are the sums of the table's
\* rows, for every plan and number of repeats.
THEOREM BookedAlike == CampaignSpec => []BookingsAgree
<1>1. BooksInv /\ ListsInv => BookingsAgree
  <2> SUFFICES ASSUME BooksInv, ListsInv, Summarised, NEW m \in DOMAIN blocked
               PROVE  /\ Len(blocked[m]) = Len(labels)
                      /\ Confusion(m).fn = Overall(m).allowed
                      /\ Confusion(m).tp = Overall(m).denied
                      /\ Confusion(m).tn = Counts("legitimate", {"L1", "L2"}, m).allowed
                      /\ Confusion(m).fp = Counts("legitimate", {"L1", "L2"}, m).denied
    BY DEF BookingsAgree
  <2>1. m \in Baselines
    BY DEF ListsInv
  <2> QED
    BY <2>1, CountsOfRows, MatrixOfLists
<1>2. CampaignInv => BooksInv
  BY DEF CampaignInv
<1> QED
  BY <1>1, <1>2, CampaignInvariant, ListsInvariant, PTL

-----------------------------------------------------------------------------
(* The summary and the table agree                                          *)

\* The ids of the cells are those of the plan.
LEMMA RowsOfPlan ==
  ASSUME NEW m \in Baselines
  PROVE  /\ CellsWith("scenarios", {Attacks[i] : i \in DOMAIN Attacks}, m) = AttackRows(m)
         /\ CellsWith("legitimate", {Controls[i] : i \in DOMAIN Controls}, m) = ControlRows(m)
<1> DEFINE I == {Attacks[i] : i \in DOMAIN Attacks}
           J == {Controls[i] : i \in DOMAIN Controls}
<1>1. Attacks \in Seq(I) /\ Controls \in Seq(J)
  BY PlanAssumption
<1>2. I \subseteq AttackIds /\ J \subseteq ControlIds
  BY PlanAssumption DEF AttackIds, ControlIds
<1> HIDE DEF I, J
<1>3. \A i \in DOMAIN Cells : Cells[i] \in TypesOver(I, J)
  <2>1. Cells \in Seq(TypesOver(I, J))
    BY <1>1, CellsOver
  <2> QED
    BY <2>1
<1>4. \A cell \in TypesOver(I, J) : /\ cell.kind = "scenarios" => cell.id \in I
                                    /\ cell.kind = "legitimate" => cell.id \in J
  BY DEF TypesOver
<1> QED
  BY <1>2, <1>3, <1>4 DEF CellsWith, AttackRows, ControlRows, I, J

\* The counts of the matrix are natural numbers.
LEMMA MatrixNat ==
  ASSUME ListsInv, NEW m
  PROVE  /\ Confusion(m).tp \in Nat /\ Confusion(m).fn \in Nat
<1> DEFINE P(attack, stopped) ==
             {i \in DOMAIN labels : labels[i] = attack /\ blocked[m][i] = stopped}
<1>1. IsFiniteSet(DOMAIN labels)
  <2>1. DOMAIN labels = 1..Len(labels) /\ Len(labels) \in Nat
    BY DEF ListsInv
  <2> QED
    BY <2>1, FS_Interval
<1>2. P(TRUE, TRUE) \in SUBSET DOMAIN labels /\ P(TRUE, FALSE) \in SUBSET DOMAIN labels
  OBVIOUS
<1>3. Confusion(m).tp = Cardinality(P(TRUE, TRUE)) /\ Confusion(m).fn = Cardinality(P(TRUE, FALSE))
  BY DEF Confusion
<1> HIDE DEF P
<1> QED
  BY <1>1, <1>2, <1>3, FS_Subset, FS_CardinalityType

\* The trials of some cells that were not permitted.
LEMMA RestOfRows ==
  ASSUME ListsInv, NEW R, IsFiniteSet(R), R \subseteq DOMAIN Cells
  PROVE  SumFunctionOnSet([i \in R |-> Repeats - allowed[i]], R)
           = Repeats * Cardinality(R) - SumFunctionOnSet(allowed, R)
<1> DEFINE h == [i \in R |-> Repeats - allowed[i]]
<1>1. \A i \in R : allowed[i] \in Int /\ h[i] = Repeats - allowed[i]
  BY DEF ListsInv
<1>2. Repeats \in Int
  BY PlanFacts
<1> HIDE DEF h
<1>3. SumFunctionOnSet(h, R) = Repeats * Cardinality(R) - SumFunctionOnSet(allowed, R)
  BY <1>1, <1>2, SumRest
<1> QED
  BY <1>3 DEF h

\* The mean over the attacks is the share of all trials, since each has as many.
LEMMA MeanIsRecall ==
  ASSUME BooksInv, ListsInv, Summarised, NEW m \in Baselines
  PROVE  SameFraction(MeanPrevention(m), Recall(m))
<1> DEFINE rest == Repeats * A - SumFunctionOnSet(allowed, AttackRows(m))
           tp == Confusion(m).tp
           fn == Confusion(m).fn
<1>1. tp \in Nat /\ fn \in Nat
  BY MatrixNat
<1>2. tp = rest /\ tp + fn = Repeats * A
  <2>1. fn = SumFunctionOnSet(allowed, AttackRows(m)) /\ tp = Repeats * A - fn
    BY MatrixOfLists
  <2>2. Repeats * A \in Nat
    BY PlanFacts
  <2> QED
    BY <1>1, <2>1, <2>2
<1>3. MeanPrevention(m).num = rest /\ MeanPrevention(m).den = Repeats * A
  BY RowsOfPlan, RestOfRows, RowCounts, CellsFinite DEF MeanPrevention, AttackRows
<1>4. CASE tp + fn > 0
  <2>1. Recall(m).num = tp /\ Recall(m).den = tp + fn
    BY <1>4 DEF Recall
  <2> HIDE DEF rest, tp, fn
  <2> QED
    BY <1>2, <1>3, <2>1 DEF SameFraction
<1>5. CASE ~(tp + fn > 0)
  <2>1. Recall(m).num = 0 /\ Recall(m).den = 1
    BY <1>5 DEF Recall
  <2> HIDE DEF rest, tp, fn
  <2>2. tp = 0 /\ Repeats * A = 0
    BY <1>1, <1>2, <1>5
  <2> QED
    BY <1>2, <1>3, <2>1, <2>2 DEF SameFraction
<1> QED
  BY <1>4, <1>5

\* The refused controls of table 6 are those of the lists.
LEMMA FalsePositivesAgree ==
  ASSUME BooksInv, ListsInv, Summarised, NEW m \in Baselines
  PROVE  FalsePositives(m) = [denied |-> Confusion(m).fp,
                              n |-> Confusion(m).fp + Confusion(m).tn]
<1> DEFINE S == SumFunctionOnSet(allowed, ControlRows(m))
<1>1. FalsePositives(m) = [denied |-> Repeats * C - S, n |-> Repeats * C]
  BY RowsOfPlan, RestOfRows, RowCounts, CellsFinite DEF FalsePositives, ControlRows, C
<1>2. Confusion(m).fp = Repeats * C - S /\ Confusion(m).tn = S
  BY MatrixOfLists
<1>3. S \in Int
  <2>1. \A i \in ControlRows(m) : allowed[i] \in Int
    BY CellsFinite DEF ControlRows, ListsInv
  <2> QED
    BY <2>1, RowCounts, SumInt
<1>4. Repeats * C \in Int
  BY PlanFacts
<1> HIDE DEF S
<1>5. Confusion(m).fp + Confusion(m).tn = Repeats * C
  BY <1>2, <1>3, <1>4
<1> QED
  BY <1>1, <1>2, <1>5

\* The mean prevention rate is the recall, the refused controls are the false positives,
\* and the bars of figure 6 are rows of table 6, for every plan and number of repeats.
THEOREM SummedAlike == CampaignSpec => []SummariesAgree
<1>1. BooksInv /\ ListsInv => SummariesAgree
  <2> SUFFICES ASSUME BooksInv, ListsInv, Summarised, NEW m \in DOMAIN blocked
               PROVE  /\ SameFraction(MeanPrevention(m), Recall(m))
                      /\ FalsePositives(m) = [denied |-> Confusion(m).fp,
                                              n |-> Confusion(m).fp + Confusion(m).tn]
                      /\ \A g \in DOMAIN Table6 :
                           LET counts == Counts("scenarios", Table6[g], m)
                           IN  SameFraction(Prevention(Figure6[g], m),
                                            [num |-> counts.denied,
                                             den |-> counts.allowed + counts.denied])
    BY DEF SummariesAgree
  <2>1. m \in Baselines
    BY DEF ListsInv
  <2>2. \A g \in DOMAIN Table6 : Figure6[g] = Table6[g]
    BY DEF Table6, Figure6, Identity, Privilege, TokenMisuse, Behavioural
  <2>3. ASSUME NEW g \in DOMAIN Table6
        PROVE  LET counts == Counts("scenarios", Table6[g], m)
               IN  SameFraction(Prevention(Figure6[g], m),
                                [num |-> counts.denied,
                                 den |-> counts.allowed + counts.denied])
    BY <2>2 DEF SameFraction, Prevention
  <2> QED
    BY <2>1, <2>3, MeanIsRecall, FalsePositivesAgree
<1>2. CampaignInv => BooksInv
  BY DEF CampaignInv
<1> QED
  BY <1>1, <1>2, CampaignInvariant, ListsInvariant, PTL

-----------------------------------------------------------------------------
(* The hypotheses                                                            *)

\* No cell counts less than nothing.
CountsNat == allowed \in [DOMAIN Cells -> Nat]

THEOREM CountsInvariant == CampaignSpec => []CountsNat
<1>1. CampaignInit => CountsNat
  BY DEF CampaignInit, CountsNat
<1>2. ASSUME CountsNat, [CampaignNext]_<<vars, campaignVars>> PROVE CountsNat'
  <2>1. ASSUME UNCHANGED allowed PROVE CountsNat'
    BY <1>2, <2>1 DEF CountsNat
  <2>2. CASE Build
    BY <2>1, <2>2 DEF Build
  <2>3. CASE Present
    BY <2>1, <2>3 DEF Present
  <2>4. CASE Trial
    <3>1. PICK stopped \in BOOLEAN : Booked(stopped)
      BY <2>4, TrialBooked
    <3> QED
      BY <1>2, <3>1 DEF CountsNat, Booked
  <2>5. CASE Wait
    BY <2>1, <2>5 DEF Wait, campaignVars
  <2>6. CASE UNCHANGED <<vars, campaignVars>>
    BY <2>1, <2>6 DEF campaignVars
  <2> QED
    BY <1>2, <2>2, <2>3, <2>4, <2>5, <2>6 DEF CampaignNext
<1> QED
  BY <1>1, <1>2, PTL DEF CampaignSpec

\* The places of some ids in the plan.
Running(ids) == {k \in 1..A : Attacks[k] \in ids}

\* A baseline runs a scenario once for each of its places.
LEMMA RowsRunning ==
  ASSUME NEW ids, NEW m \in Baselines
  PROVE  Cardinality(CellsWith("scenarios", ids, m)) = Cardinality(Running(ids))
<1> DEFINE S == Running(ids)
           T == CellsWith("scenarios", ids, m)
           f == [k \in S |-> 3 * (k - 1) + Order(m)]
<1>1. IsFiniteSet(S)
  <2>1. IsFiniteSet(1..A) /\ S \in SUBSET (1..A)
    BY PlanFacts, FS_Interval DEF Running
  <2> QED
    BY <2>1, FS_Subset
<1>2. Order(m) \in 1..3
  BY DEF Order
<1>3. ASSUME NEW i \in 1..(3 * A)
      PROVE  i \in T <=> Attacks[((i - 1) \div 3) + 1] \in ids
                           /\ ((i - 1) % 3) + 1 = Order(m)
  <2>1. i \in DOMAIN Cells /\ i \in 1..(3 * (A + C)) /\ ((i - 1) % 3) + 1 \in 1..3
    BY Layout, CellFacts, PlanFacts
  <2>2. /\ Cells[i].kind = "scenarios" /\ Cells[i].id = Attacks[((i - 1) \div 3) + 1]
        /\ Cells[i].mode = MODES[((i - 1) % 3) + 1]
    BY <2>1, Layout
  <2> QED
    BY <2>1, <2>2, ModesAt DEF CellsWith
<1>4. ASSUME NEW k \in S PROVE 3 * (k - 1) + Order(m) \in T
  <2> DEFINE i == 3 * (k - 1) + Order(m)
  <2>1. k \in 1..A /\ Attacks[k] \in ids
    BY DEF Running
  <2>2. i \in 1..(3 * A) /\ ((i - 1) \div 3) + 1 = k /\ ((i - 1) % 3) + 1 = Order(m)
    BY <1>2, <2>1, PlanFacts
  <2> HIDE DEF i
  <2>3. i \in T
    BY <1>3, <2>1, <2>2
  <2> QED
    BY <2>3 DEF i
<1>5. ASSUME NEW i \in T PROVE \E k \in S : 3 * (k - 1) + Order(m) = i
  <2>1. i \in DOMAIN Cells /\ Cells[i].kind = "scenarios"
    BY DEF CellsWith
  <2>2. i \in 1..(3 * A)
    BY <2>1, KindAt, PlanFacts
  <2> DEFINE k == ((i - 1) \div 3) + 1
  <2>3. Attacks[k] \in ids /\ ((i - 1) % 3) + 1 = Order(m)
    BY <1>3, <2>2
  <2>4. k \in 1..A /\ 3 * (k - 1) + Order(m) = i
    BY <2>2, <2>3, PlanFacts
  <2> QED
    BY <2>3, <2>4 DEF Running
<1>6. f \in [S -> T]
  BY <1>4
<1>7. \A k, l \in S : f[k] = f[l] => k = l
  BY <1>2 DEF Running
<1>8. \A i \in T : \E k \in S : f[k] = i
  BY <1>5
<1> HIDE DEF f, T, S
<1>9. f \in Bijection(S, T)
  BY <1>6, <1>7, <1>8 DEF Bijection, Injection, Surjection, IsInjective
<1>10. ExistsBijection(S, T)
  BY <1>9 DEF ExistsBijection
<1> QED
  BY <1>1, <1>10, FS_Bijection DEF S, T

\* Each ablated gateway runs A10 once.
LEMMA RowsAblated ==
  ASSUME NEW j \in 1..4
  PROVE  Cardinality(CellsWith("ablation", {"A10"}, ABLATION_MODES[j])) = 1
<1> DEFINE T == CellsWith("ablation", {"A10"}, ABLATION_MODES[j])
           e == 3 * (A + C) + j
<1>1. \A k \in 1..4 : ABLATION_MODES[k] = ABLATION_MODES[j] => k = j
  BY DEF ABLATION_MODES
<1>2. ASSUME NEW i \in DOMAIN Cells PROVE i \in T <=> i = e
  <2>1. Cells[i].kind = "ablation" <=> i > 3 * (A + C)
    BY KindAt
  <2>2. i \in Nat /\ i <= 3 * (A + C) + 4
    BY Layout, CellFacts, PlanFacts
  <2>3. CASE i > 3 * (A + C)
    <3>1. i \in (3 * (A + C) + 1)..(3 * (A + C) + 4) /\ i - 3 * (A + C) \in 1..4
      BY <2>2, <2>3, PlanFacts
    <3>2. Cells[i].id = "A10" /\ Cells[i].mode = ABLATION_MODES[i - 3 * (A + C)]
      BY <3>1, Layout
    <3>3. i - 3 * (A + C) = j <=> i = e
      BY <2>2, PlanFacts
    <3> QED
      BY <1>1, <2>1, <2>3, <3>1, <3>2, <3>3 DEF CellsWith
  <2>4. CASE ~(i > 3 * (A + C))
    <3>1. i # e
      BY <2>2, <2>4, PlanFacts
    <3> QED
      BY <2>1, <2>4, <3>1 DEF CellsWith
  <2> QED
    BY <2>3, <2>4
<1>3. e \in DOMAIN Cells
  BY Layout, CellFacts, PlanFacts
<1>4. T = {e}
  BY <1>2, <1>3 DEF CellsWith
<1> QED
  BY <1>4, FS_Singleton

-----------------------------------------------------------------------------
(* Counts that are sure                                                      *)

\* The cells of a group are sure, and all come out alike.
Agreed(kind, ids, m, permitted) ==
  \A i \in CellsWith(kind, ids, m) : Sure(Cells[i]) /\ (Permitted(Cells[i]) <=> permitted)

LEMMA SureCounts ==
  ASSUME BooksInv, Summarised, NEW kind, NEW ids, NEW m, NEW permitted \in BOOLEAN,
         Agreed(kind, ids, m, permitted), NEW q \in Nat,
         Cardinality(CellsWith(kind, ids, m)) = q
  PROVE  /\ Counts(kind, ids, m).allowed = IF permitted THEN Repeats * q ELSE 0
         /\ Counts(kind, ids, m).denied = IF permitted THEN 0 ELSE Repeats * q
<1> DEFINE T == CellsWith(kind, ids, m)
<1>1. PICK c \in Int : c = IF permitted THEN Repeats ELSE 0
  BY PlanFacts
<1>2. \A i \in T : allowed[i] = c
  <2>1. row = Len(Cells) + 1
    BY CellFacts DEF BooksInv, Summarised
  <2> TAKE i \in T
  <2>2. i \in DOMAIN Cells /\ i \in 1..(row - 1)
    BY <2>1, CellFacts DEF CellsWith
  <2>3. Sure(Cells[i]) /\ (Permitted(Cells[i]) <=> permitted)
    BY DEF Agreed
  <2> QED
    BY <1>1, <2>2, <2>3, Filled DEF Decided
<1>3. IsFiniteSet(T)
  BY CellsFinite
<1> HIDE DEF T
<1>4. SumFunctionOnSet(allowed, T) = c * q
  BY <1>2, <1>3, SumConst DEF T
<1>5. /\ Counts(kind, ids, m).allowed = c * q
      /\ Counts(kind, ids, m).denied = Repeats * q - c * q
  BY <1>4 DEF Counts, T
<1>6. CASE permitted
  <2>1. Repeats * q \in Int
    BY PlanFacts
  <2> QED
    BY <1>1, <1>5, <1>6, <2>1
<1>7. CASE ~permitted
  <2>1. Repeats * q \in Int /\ c * q = 0
    BY <1>1, <1>7, PlanFacts
  <2> QED
    BY <1>5, <1>7, <2>1
<1> QED
  BY <1>6, <1>7

Convincing(control, treatment) ==
  20 * Test(control, treatment).num < Test(control, treatment).den

\* Every trial of the control was permitted, none of as many trials of the treatment.
LEMMA AllAgainstNone ==
  ASSUME NEW n \in Nat, n >= 4, NEW control, NEW treatment,
         control.allowed = n, control.denied = 0,
         treatment.allowed = 0, treatment.denied = n
  PROVE  Convincing(control, treatment)
<1>1. n <= n /\ (n >= 5 \/ (n = 4 /\ n = 4)) /\ n - n = 0
  OBVIOUS
<1>2. 20 * FisherOneSided(n, n - n, 0, n).num < FisherOneSided(n, n - n, 0, n).den
  BY <1>1, DeniedAll
<1>3. 20 * FisherOneSided(n, 0, 0, n).num < FisherOneSided(n, 0, 0, n).den
  BY <1>1, <1>2
<1> QED
  BY <1>3 DEF Convincing, Test

\* All permitted, or none.
LEMMA AllPermitted ==
  ASSUME BooksInv, Summarised, NEW kind, NEW ids, NEW m, Agreed(kind, ids, m, TRUE),
         NEW q \in Nat, Cardinality(CellsWith(kind, ids, m)) = q
  PROVE  Counts(kind, ids, m).allowed = Repeats * q /\ Counts(kind, ids, m).denied = 0
<1>1. PICK permitted \in BOOLEAN : permitted = TRUE
  OBVIOUS
<1>2. Agreed(kind, ids, m, permitted)
  BY <1>1
<1>3. /\ Counts(kind, ids, m).allowed = IF permitted THEN Repeats * q ELSE 0
      /\ Counts(kind, ids, m).denied = IF permitted THEN 0 ELSE Repeats * q
  BY <1>2, SureCounts
<1> QED
  BY <1>1, <1>3

Refused(kind, ids, m) == Agreed(kind, ids, m, FALSE)

LEMMA NonePermitted ==
  ASSUME BooksInv, Summarised, NEW kind, NEW ids, NEW m, Refused(kind, ids, m),
         NEW q \in Nat, Cardinality(CellsWith(kind, ids, m)) = q
  PROVE  Counts(kind, ids, m).allowed = 0 /\ Counts(kind, ids, m).denied = Repeats * q
<1>1. PICK permitted \in BOOLEAN : permitted = FALSE
  OBVIOUS
<1>2. Agreed(kind, ids, m, permitted)
  BY <1>1 DEF Refused
<1>3. /\ Counts(kind, ids, m).allowed = IF permitted THEN Repeats * q ELSE 0
      /\ Counts(kind, ids, m).denied = IF permitted THEN 0 ELSE Repeats * q
  BY <1>2, SureCounts
<1> QED
  BY <1>1, <1>3

-----------------------------------------------------------------------------
(* The tests                                                                 *)

LEMMA Timely == ASSUME LargeEnough, NEW ids \in SUBSET Compared PROVE ids \cap Slow = {}
BY DEF LargeEnough

\* A scenario that runs has a place in the plan.
LEMMA PlacesOf ==
  ASSUME LargeEnough, NEW ids \in SUBSET Compared, NEW id \in ids
  PROVE  Cardinality(Running(ids)) \in Nat \ {0}
<1>1. DOMAIN Attacks = 1..A
  BY PlanAssumption DEF A
<1>2. PICK k \in 1..A : Attacks[k] = id
  BY <1>1 DEF LargeEnough
<1>3. IsFiniteSet(1..A) /\ Running(ids) \in SUBSET (1..A) /\ k \in Running(ids)
  BY <1>2, PlanFacts, FS_Interval DEF Running
<1>4. IsFiniteSet(Running(ids)) /\ Running(ids) # {}
  BY <1>3, FS_Subset
<1> QED
  BY <1>4, FS_CardinalityType, FS_EmptySet

\* Four trials or more.
LEMMA EnoughTrials ==
  ASSUME LargeEnough, NEW q \in Nat \ {0}
  PROVE  Repeats * q \in Nat /\ Repeats * q >= 4
<1>1. \A x, y \in Nat : x >= 4 /\ y >= 1 => x * y \in Nat /\ x * y >= 4
  <2> SUFFICES ASSUME NEW x \in Nat, NEW y \in Nat, x >= 4, y >= 1
               PROVE  x * y \in Nat /\ x * y >= 4
    OBVIOUS
  <2>1. x * y = x * (y - 1) + x /\ y - 1 \in Nat
    OBVIOUS
  <2>2. \A u, v \in Nat : u * v \in Nat
    OBVIOUS
  <2>3. x * (y - 1) \in Nat
    BY <2>1, <2>2
  <2> QED
    BY <2>1, <2>3
<1> QED
  BY <1>1, PlanFacts DEF LargeEnough

\* What a group of compared scenarios comes to, under B2 and under B3.
LEMMA GroupAgreed ==
  ASSUME LargeEnough, NEW ids \in SUBSET Compared
  PROVE  Agreed("scenarios", ids, "B2", TRUE) /\ Refused("scenarios", ids, "B3")
BY Timely DEF Agreed, Refused, CellsWith, Sure, Permitted, Compared

\* B2 permits every trial of it, and B3 none.
LEMMA GroupHolds ==
  ASSUME BooksInv, Summarised, LargeEnough, NEW ids \in SUBSET Compared, NEW id \in ids
  PROVE  Convincing(Counts("scenarios", ids, "B2"), Counts("scenarios", ids, "B3"))
<1> DEFINE q == Cardinality(Running(ids))
           control == Counts("scenarios", ids, "B2")
           treatment == Counts("scenarios", ids, "B3")
<1>1. q \in Nat \ {0}
  BY PlacesOf
<1>2. /\ Cardinality(CellsWith("scenarios", ids, "B2")) = q
      /\ Cardinality(CellsWith("scenarios", ids, "B3")) = q
  BY RowsRunning DEF Baselines
<1>3. Agreed("scenarios", ids, "B2", TRUE) /\ Refused("scenarios", ids, "B3")
  BY GroupAgreed
<1> HIDE DEF q
<1>4. /\ control.allowed = Repeats * q /\ control.denied = 0
      /\ treatment.allowed = 0 /\ treatment.denied = Repeats * q
  <2>1. control.allowed = Repeats * q /\ control.denied = 0
    BY <1>1, <1>2, <1>3, AllPermitted
  <2>2. treatment.allowed = 0 /\ treatment.denied = Repeats * q
    BY <1>1, <1>2, <1>3, NonePermitted
  <2> QED
    BY <2>1, <2>2
<1>5. Repeats * q \in Nat /\ Repeats * q >= 4
  BY <1>1, EnoughTrials
<1> HIDE DEF control, treatment
<1>6. Convincing(control, treatment)
  BY <1>4, <1>5, AllAgainstNone
<1> QED
  BY <1>6 DEF control, treatment

\* Without a policy that scores behaviour every trial of A10 is permitted.
LEMMA AblationHolds ==
  ASSUME BooksInv, Summarised, LargeEnough, NEW m \in {"B3_STATIC", "B3_NO_BEHAVIOR"}
  PROVE  Convincing(Ablated(m), Ablated("B3"))
<1>1. /\ Agreed("ablation", {"A10"}, m, TRUE) /\ Refused("ablation", {"A10"}, "B3")
  BY DEF Agreed, Refused, CellsWith, Sure, Permitted, LargeEnough, Compared
<1>2. /\ Cardinality(CellsWith("ablation", {"A10"}, m)) = 1
      /\ Cardinality(CellsWith("ablation", {"A10"}, "B3")) = 1
  <2>1. PICK j \in 1..4 : ABLATION_MODES[j] = m
    BY DEF ABLATION_MODES
  <2>2. 1 \in 1..4 /\ ABLATION_MODES[1] = "B3"
    BY DEF ABLATION_MODES
  <2>3. Cardinality(CellsWith("ablation", {"A10"}, ABLATION_MODES[1])) = 1
    BY <2>2, RowsAblated
  <2> QED
    BY <2>1, <2>2, <2>3, RowsAblated
<1> DEFINE q == 1
           control == Ablated(m)
           treatment == Ablated("B3")
<1>3. q \in Nat \ {0} /\ q \in Nat
  OBVIOUS
<1> HIDE DEF q
<1>4. /\ control.allowed = Repeats * q /\ control.denied = 0
      /\ treatment.allowed = 0 /\ treatment.denied = Repeats * q
  <2>1. /\ Cardinality(CellsWith("ablation", {"A10"}, m)) = q
        /\ Cardinality(CellsWith("ablation", {"A10"}, "B3")) = q
    BY <1>2 DEF q
  <2>2. control.allowed = Repeats * q /\ control.denied = 0
    BY <1>1, <1>3, <2>1, AllPermitted DEF Ablated
  <2>3. treatment.allowed = 0 /\ treatment.denied = Repeats * q
    BY <1>1, <1>3, <2>1, NonePermitted DEF Ablated
  <2> QED
    BY <2>2, <2>3
<1>5. Repeats * q \in Nat /\ Repeats * q >= 4
  BY <1>3, EnoughTrials
<1> HIDE DEF control, treatment
<1>6. Convincing(control, treatment)
  BY <1>4, <1>5, AllAgainstNone
<1> QED
  BY <1>6 DEF control, treatment

\* Three groups of scenarios without one in common, taken together.
LEMMA ThreeTogether ==
  ASSUME allowed \in [DOMAIN Cells -> Int], NEW kind, NEW m, NEW I, NEW J, NEW K,
         I \cap J = {}, (I \cup J) \cap K = {}
  PROVE  SumFunctionOnSet(allowed, CellsWith(kind, (I \cup J) \cup K, m))
           = SumFunctionOnSet(allowed, CellsWith(kind, I, m))
               + SumFunctionOnSet(allowed, CellsWith(kind, J, m))
               + SumFunctionOnSet(allowed, CellsWith(kind, K, m))
<1> DEFINE Sum(ids) == SumFunctionOnSet(allowed, CellsWith(kind, ids, m))
           Num(ids) == Cardinality(CellsWith(kind, ids, m))
<1>1. Sum(I \cup J) = Sum(I) + Sum(J) /\ Num(I \cup J) = Num(I) + Num(J)
  BY Together
<1>2. /\ Sum((I \cup J) \cup K) = Sum(I \cup J) + Sum(K)
      /\ Num((I \cup J) \cup K) = Num(I \cup J) + Num(K)
  BY Together
<1> QED
  BY <1>1, <1>2

\* B2 permits two of the scenarios in all of their trials at least, and B3 none at all.
LEMMA OverallHolds ==
  ASSUME BooksInv, ListsInv, CountsNat, Summarised, LargeEnough
  PROVE  Convincing(Overall("B2"), Overall("B3"))
<1> DEFINE S == SumFunctionOnSet(allowed, AttackRows("B2"))
           Z == SumFunctionOnSet(allowed, AttackRows("B3"))
           n == Repeats * A
           control == Overall("B2")
           treatment == Overall("B3")
<1>1. n \in Nat
  BY PlanFacts
<1>2. /\ control.allowed = S /\ control.denied = n - S
      /\ treatment.allowed = Z /\ treatment.denied = n - Z
  BY CountsOfRows DEF Baselines
<1>3. Z = 0
  <2>1. Refused("scenarios", AttackIds, "B3")
    BY DEF Agreed, Refused, CellsWith, Sure, Permitted
  <2>2. Cardinality(CellsWith("scenarios", AttackIds, "B3")) = A
    BY RowCounts DEF AttackRows, Baselines
  <2>3. Counts("scenarios", AttackIds, "B3").allowed = 0
    BY <2>1, <2>2, NonePermitted, PlanFacts
  <2> QED
    BY <2>3 DEF Counts, AttackRows
<1>4. S \in Nat /\ S <= n
  <2>1. Confusion("B2").fn = S /\ Confusion("B2").tp = n - S
    BY MatrixOfLists DEF Baselines
  <2>2. Confusion("B2").fn \in Nat /\ Confusion("B2").tp \in Nat
    BY MatrixNat
  <2> HIDE DEF S, n
  <2>3. S \in Nat /\ n - S \in Nat
    BY <2>1, <2>2
  <2> QED
    BY <1>1, <2>3
<1>5. S >= 5
  <2> DEFINE Sum(ids) == SumFunctionOnSet(allowed, CellsWith("scenarios", ids, "B2"))
             left == {"A1"}
             right == {"A2"}
             rest == AttackIds \ {"A1", "A2"}
  <2>1. allowed \in [DOMAIN Cells -> Int]
    BY DEF ListsInv
  <2>2. /\ left \cap right = {} /\ (left \cup right) \cap rest = {}
        /\ (left \cup right) \cup rest = AttackIds
    BY DEF AttackIds
  <2>3. \A I, J, K : I \cap J = {} /\ (I \cup J) \cap K = {} =>
          Sum((I \cup J) \cup K) = Sum(I) + Sum(J) + Sum(K)
    BY <2>1, ThreeTogether
  <2>4. Sum(AttackIds) = Sum(left) + Sum(right) + Sum(rest)
    <3> HIDE DEF Sum, left, right, rest
    <3> QED
      BY <2>2, <2>3
  <2>5. \A id \in {"A1", "A2"} : Sum({id}) \in Nat /\ Sum({id}) >= 4
    <3> TAKE id \in {"A1", "A2"}
    <3> DEFINE q == Cardinality(Running({id}))
    <3>1. {id} \in SUBSET Compared
      BY DEF Compared
    <3>2. q \in Nat \ {0}
      BY <3>1, PlacesOf
    <3>3. Cardinality(CellsWith("scenarios", {id}, "B2")) = q
      BY RowsRunning DEF Baselines
    <3>4. Agreed("scenarios", {id}, "B2", TRUE)
      BY <3>1, GroupAgreed
    <3> HIDE DEF q
    <3>5. Counts("scenarios", {id}, "B2").allowed = Repeats * q
      BY <3>2, <3>3, <3>4, AllPermitted
    <3>6. Sum({id}) = Repeats * q
      BY <3>5 DEF Counts
    <3> HIDE DEF Sum
    <3> QED
      BY <3>2, <3>6, EnoughTrials
  <2>6. Sum(rest) \in Nat
    <3>1. \A i \in CellsWith("scenarios", rest, "B2") : allowed[i] \in Nat
      BY DEF CountsNat, CellsWith
    <3> QED
      BY <3>1, CellsFinite, SumNat
  <2>7. Sum(AttackIds) = S
    BY DEF AttackRows
  <2>8. /\ Sum(left) \in Nat /\ Sum(left) >= 4
        /\ Sum(right) \in Nat /\ Sum(right) >= 4
    BY <2>5
  <2> HIDE DEF Sum, left, right, rest, S
  <2>9. S = Sum(left) + Sum(right) + Sum(rest)
    BY <2>4, <2>7
  <2> QED
    BY <2>6, <2>8, <2>9
<1> HIDE DEF S, Z, n, control, treatment
<1>6. 20 * FisherOneSided(S, n - S, 0, n).num < FisherOneSided(S, n - S, 0, n).den
  BY <1>1, <1>4, <1>5, DeniedAll
<1>7. n - Z = n
  BY <1>1, <1>3
<1>8. Convincing(control, treatment)
  BY <1>2, <1>3, <1>6, <1>7 DEF Convincing, Test
<1> QED
  BY <1>8 DEF control, treatment

\* Every hypothesis of the evaluation is significant, for every plan that has the compared
\* scenarios and every number of repetitions from four, whatever the clock does to the rest.
THEOREM Significant ==
  ASSUME LargeEnough
  PROVE  CampaignSpec => []HypothesesHold
<1>1. ASSUME BooksInv, ListsInv, CountsNat PROVE HypothesesHold
  <2> SUFFICES ASSUME Summarised, NEW name \in Tested
               PROVE  20 * Tests(name).num < Tests(name).den
    BY DEF HypothesesHold
  <2>1. CASE name = "h1"
    BY <1>1, <2>1, OverallHolds DEF Tests, Convincing
  <2>2. CASE name = "h2"
    <3>1. "A8" \in {"A8"} /\ {"A8"} \in SUBSET Compared
      BY DEF Compared
    <3>2. Convincing(Counts("scenarios", {"A8"}, "B2"), Counts("scenarios", {"A8"}, "B3"))
      BY <1>1, <3>1, GroupHolds
    <3> QED
      BY <2>2, <3>2 DEF Tests, Convincing, Scenario
  <2>3. CASE name = "h3"
    <3>1. "A1" \in Identity /\ Identity \in SUBSET Compared
      BY DEF Compared, Identity
    <3>2. Convincing(Counts("scenarios", Identity, "B2"), Counts("scenarios", Identity, "B3"))
      BY <1>1, <3>1, GroupHolds
    <3> QED
      BY <2>3, <3>2 DEF Tests, Convincing, Group
  <2>4. CASE name = "h5"
    <3>1. "A10" \in {"A10"} /\ {"A10"} \in SUBSET Compared
      BY DEF Compared
    <3>2. Convincing(Counts("scenarios", {"A10"}, "B2"), Counts("scenarios", {"A10"}, "B3"))
      BY <1>1, <3>1, GroupHolds
    <3> QED
      BY <2>4, <3>2 DEF Tests, Convincing, Scenario
  <2>5. CASE name = "h5static"
    <3>1. Convincing(Ablated("B3_STATIC"), Ablated("B3"))
      BY <1>1, AblationHolds
    <3> QED
      BY <2>5, <3>1 DEF Tests, Convincing
  <2>6. CASE name = "h5behavior"
    <3>1. Convincing(Ablated("B3_NO_BEHAVIOR"), Ablated("B3"))
      BY <1>1, AblationHolds
    <3> QED
      BY <2>6, <3>1 DEF Tests, Convincing
  <2>7. name \in {"h1", "h2", "h3", "h5", "h5static", "h5behavior"}
    BY TestedAssumption
  <2> QED
    BY <2>1, <2>2, <2>3, <2>4, <2>5, <2>6, <2>7
<1>2. CampaignInv => BooksInv
  BY DEF CampaignInv
<1>3. BooksInv /\ ListsInv /\ CountsNat => HypothesesHold
  BY <1>1
<1> QED
  BY <1>2, <1>3, CampaignInvariant, ListsInvariant, CountsInvariant, PTL

=============================================================================
