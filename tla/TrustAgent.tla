------------------------------ MODULE TrustAgent ------------------------------
(***************************************************************************)
(* gateway.py: TrustAgent gateways that share one registry, one identity   *)
(* provider, one policy and one key store, as LabWorld builds them, and    *)
(* that keep a replay set, a set of revoked grants and an audit log each.  *)
(*                                                                         *)
(* authorize() is one action per way through _decide and _trustagent.  Its *)
(* token is decoded at `now'; the registry, the grant and the peer are     *)
(* looked up at a later reading t of the clock, and the score is computed  *)
(* at a still later one; the call ends at the last reading it made.  (One  *)
(* reading for the lookups loses nothing: each of them only turns from     *)
(* acceptable to unacceptable as time passes.)                             *)
(***************************************************************************)
EXTENDS Delegation, IdentityProvider, AuditLog

CONSTANTS Gateways,
          Mode,              \* the EnforcementMode each gateway is built with
          WeightsOf,         \* the AtsWeights it is built with
          ThresholdsOf,      \* the AtsThresholds it is built with
          Channels,          \* subset of {"mcp", "a2a"}
          Resources,         \* tool names, and agent ids as A2A peers
          TrustedResources,  \* CapabilityPolicy.trusted_resources
          CardScopes,        \* declared capabilities of cards; {} for no cards
          Deviations,        \* behavior_deviation of a request, in percent
          Risks,             \* context_risk of a request, in percent
          Malformed,         \* {FALSE}, or BOOLEAN: whether values of a wrong
                             \* JSON type occur in cards and contexts
          Observed,          \* the gateway whose log is related to TrustFeedback
          Slip               \* bound: seconds the clock moves within a call

TrustAgentModes == ScoringModes \cup {"B3_STATIC"}

ASSUME ModeAssumption == Mode \in [Gateways -> TrustAgentModes \cup {"B1", "B2"}]
ASSUME WeightsAssumption == DOMAIN WeightsOf = Gateways /\ DOMAIN ThresholdsOf = Gateways
ASSUME ObservedAssumption == /\ Observed \in Gateways
                             /\ WeightsOf[Observed] = DefaultWeights
                             /\ ThresholdsOf[Observed] = DefaultThresholds
ASSUME ChannelsAssumption == Channels \subseteq {"mcp", "a2a"}
ASSUME ContextAssumption == /\ Deviations \subseteq Int
                            /\ Risks \subseteq Int
                            /\ Malformed \subseteq BOOLEAN
                            /\ FALSE \in Malformed
ASSUME SubjectsAssumption == Subjects \subseteq Agents
ASSUME CardScopesAssumption == CardScopes \subseteq SUBSET Capabilities
ASSUME SlipAssumption == Slip \in Nat

VARIABLES seen,              \* _seen_jti of each gateway: strings only
          revokedGrants,     \* _revoked_grants of each gateway
          audit,             \* the audit log of each gateway
          permits            \* history: how often a gateway permitted a token,
                             \* counted up to 2

gatewayVars == <<seen, revokedGrants, audit, permits>>
sharedVars == <<private, registryVars, idpVars, grants>>
vars == <<now, sharedVars, gatewayVars>>

-----------------------------------------------------------------------------
(* Requests.  An optional field is {} or a singleton.                        *)

\* Cards are signed with any key there has been, and may be altered afterwards.
CardKeys == KeysMade(Names) \cup {Altered(key) : key \in KeysMade(Names)}

\* `wellFormed' is whether the capabilities claim is a list of strings.
Cards == {[agent |-> a, capabilities |-> c, wellFormed |-> ~m, key |-> k] :
            a \in Agents, c \in CardScopes, m \in Malformed, k \in CardKeys}

Optional(S) == {{}} \cup {{x} : x \in S}

\* Token 0 is a string that decode() rejects.
Requests ==
  [agent : Agents, resource : Resources, capability : Capabilities,
   channel : Channels, audience : Audiences, token : 0..Len(tokens),
   card : Optional(Cards), grant : Optional(DelegationGrants),
   deviation : Optional(Deviations), risk : Risks, malformed : Malformed]

-----------------------------------------------------------------------------
(* The checks                                                                *)

\* _validate_token.
TokenAccepted(r, t) ==
  /\ r.token \in DOMAIN tokens
  /\ Decodes(tokens[r.token], r.audience, t)
  /\ tokens[r.token].sub = r.agent

\* Seeded fault: suspension is not checked.
FaultStandingSuspended(r, t) ==
  Status(r.agent, t) \notin {"none", "revoked", "retired", "expired"}

\* The registry checks at the head of _trustagent.
InGoodStanding(r, t) ==
  Status(r.agent, t) \notin {"none", "revoked", "suspended", "retired", "expired"}

\* verify_card, and the comparison of the signer with the caller.
CardSigned(r) ==
  \E c \in r.card :
    /\ c.agent \in DOMAIN publicKeys
    /\ c.key = publicKeys[c.agent]
    /\ c.agent = r.agent

\* declared_capabilities runs outside the try block: its ValueError leaves
\* authorize() before anything is recorded.
CardRaises(r) == CardSigned(r) /\ \E c \in r.card : ~c.wellFormed

\* _verify_card; an MCP request may come without a card.
CardAccepted(r) ==
  \/ r.channel # "a2a" /\ r.card = {}
  \/ /\ CardSigned(r)
     /\ \E c \in r.card :
          c.wellFormed /\ c.capabilities \subseteq records[r.agent].capabilities

\* _verify_delegation.
GrantAccepted(g, grant, r, t) ==
  /\ grant.subject = r.agent
  /\ GrantDecodes(grant, t)
  /\ grant.jws \notin revokedGrants[g]
  /\ DelegationMonotonic(grant, r.capability)

\* A request with a grant is judged by the grant alone.
CapabilityAuthorized(g, r, t) ==
  IF r.grant # {} THEN \E grant \in r.grant : GrantAccepted(g, grant, r, t)
  ELSE r.capability \in records[r.agent].capabilities

ResourceAccepted(r, t) ==
  IF r.channel = "a2a" THEN Status(r.resource, t) = "active"
  ELSE r.resource \in TrustedResources

\* Everything _trustagent checks before it looks at the jti.
Clears(g, r, t) == /\ InGoodStanding(r, t)
                   /\ CardAccepted(r)
                   /\ CapabilityAuthorized(g, r, t)
                   /\ ResourceAccepted(r, t)

\* Seeded fault: the audit log is not handed to behavior_score.
FaultScoreNoHistory(g, r, t) ==
  LET token == tokens[r.token]
      credential == CredentialScore(TRUE, token.iat, token.exp, t, TRUE)
      onPurpose == r.capability \in records[r.agent].purpose
      behavior == IF r.deviation = {} THEN HistoryBehavior(onPurpose, 0, 0)
                  ELSE DeviationBehavior(CHOOSE d \in r.deviation : TRUE)
  IN  Band(Ats(WeightsOf[g], Mode[g], credential, behavior, r.risk),
           ThresholdsOf[g])

Score(g, r, t) ==
  LET token == tokens[r.token]
      credential == CredentialScore(TRUE, token.iat, token.exp, t, TRUE)
      onPurpose == r.capability \in records[r.agent].purpose
      behavior == IF r.deviation = {} THEN Behavior(audit[g], r.agent, onPurpose)
                  ELSE DeviationBehavior(CHOOSE d \in r.deviation : TRUE)
  IN  Band(Ats(WeightsOf[g], Mode[g], credential, behavior, r.risk),
           ThresholdsOf[g])

\* Once the jti was used, without() may find no positive weight left, and float()
\* no number in the deviation or the risk.
ScoreRaises(g, r) ==
  \/ r.malformed
  \/ Mode[g] = "B3_NO_BEHAVIOR" /\ ~CanDrop(WeightsOf[g], {"behavior"})
  \/ Mode[g] = "B3_NO_RESOURCE" /\ ~CanDrop(WeightsOf[g], {"resource"})

-----------------------------------------------------------------------------
(* authorize()                                                               *)

Readings(from) == from..(IF from + Slip < MaxTime THEN from + Slip ELSE MaxTime)

\* Seeded fault: the jti is not remembered.
FaultConsumeNothing(g, r) == seen' = seen

\* A jti that is not a string is not remembered.
Consume(g, r) ==
  seen' = [seen EXCEPT ![g] = @ \cup ({tokens[r.token].jti} \ {0})]

\* The decision is appended to the gateway's audit log and returned.
Answer(g, r, outcome) ==
  /\ audit' = [audit EXCEPT ![g] =
                 Push(@, [agent |-> r.agent, withheld |-> outcome \in Withheld])]
  /\ permits' = IF /\ outcome \in AutonomouslyPermitted
                   /\ r.token \in DOMAIN tokens
                   /\ permits[g][r.token] < 2
                THEN [permits EXCEPT ![g][r.token] = @ + 1]
                ELSE permits
  /\ UNCHANGED <<sharedVars, revokedGrants>>

\* An exception leaves authorize(): nothing is recorded.
Raise == UNCHANGED <<sharedVars, revokedGrants, audit, permits>>

\* B1 looks at nothing.
AllowUnchecked(g, r) ==
  /\ Mode[g] = "B1"
  /\ Answer(g, r, "ALLOW")
  /\ UNCHANGED <<now, seen>>

DenyToken(g, r) ==
  /\ Mode[g] # "B1"
  /\ ~TokenAccepted(r, now)
  /\ Answer(g, r, "DENY")
  /\ UNCHANGED <<now, seen>>

\* B2 looks at the token only.
AllowOnToken(g, r) ==
  /\ Mode[g] = "B2"
  /\ TokenAccepted(r, now)
  /\ Answer(g, r, "ALLOW")
  /\ UNCHANGED <<now, seen>>

\* _trustagent is entered, and has looked everything up at time t.
Entered(g, r, t) == /\ Mode[g] \in TrustAgentModes
                    /\ TokenAccepted(r, now)
                    /\ t \in Readings(now)

FailOnCard(g, r, t) ==
  /\ Entered(g, r, t)
  /\ InGoodStanding(r, t)
  /\ CardRaises(r)
  /\ Raise
  /\ now' = t
  /\ UNCHANGED seen

DenyOnChecks(g, r, t) ==
  /\ Entered(g, r, t)
  /\ ~Clears(g, r, t)
  /\ ~(InGoodStanding(r, t) /\ CardRaises(r))
  /\ Answer(g, r, "DENY")
  /\ now' = t
  /\ UNCHANGED seen

DenyReplay(g, r, t) ==
  /\ Entered(g, r, t)
  /\ Clears(g, r, t)
  /\ tokens[r.token].jti \in seen[g]
  /\ Answer(g, r, "DENY")
  /\ now' = t
  /\ UNCHANGED seen

\* Seeded fault: the jti is remembered but not looked up.
FaultAdmittedReplay(g, r, t) == Entered(g, r, t) /\ Clears(g, r, t) /\ Consume(g, r)

\* The jti is new to this gateway, or is not a string, which is never looked up;
\* it is used up, whatever the score will say.
Admitted(g, r, t) == /\ Entered(g, r, t)
                     /\ Clears(g, r, t)
                     /\ tokens[r.token].jti \notin seen[g]
                     /\ Consume(g, r)

AllowStatic(g, r, t) ==
  /\ Mode[g] = "B3_STATIC"
  /\ Admitted(g, r, t)
  /\ Answer(g, r, "ALLOW")
  /\ now' = t

FailOnScore(g, r, t) ==
  /\ Mode[g] \in ScoringModes
  /\ Admitted(g, r, t)
  /\ ScoreRaises(g, r)
  /\ Raise
  /\ now' \in Readings(t)

DecideOnScore(g, r, t) ==
  /\ Mode[g] \in ScoringModes
  /\ Admitted(g, r, t)
  /\ ~ScoreRaises(g, r)
  /\ \E later \in Readings(t) : /\ Answer(g, r, Score(g, r, later))
                                /\ now' = later

\* The ways in which a decision comes back, and those in which it does not.
Answers(g, r) ==
  \/ AllowUnchecked(g, r)
  \/ DenyToken(g, r)
  \/ AllowOnToken(g, r)
  \/ \E t \in Readings(now) : \/ DenyOnChecks(g, r, t)
                             \/ DenyReplay(g, r, t)
                             \/ AllowStatic(g, r, t)
                             \/ DecideOnScore(g, r, t)

Raises(g, r) ==
  \E t \in Readings(now) : FailOnCard(g, r, t) \/ FailOnScore(g, r, t)

Authorize(g, r) == Answers(g, r) \/ Raises(g, r)

\* Seeded fault: a second call undoes the first.
FaultRevokeToggles(g, jti) ==
  /\ revokedGrants' = [revokedGrants EXCEPT ![g] =
                         IF jti \in @ THEN @ \ {jti} ELSE @ \cup {jti}]
  /\ UNCHANGED <<now, sharedVars, seen, audit, permits>>

\* revoke_delegation.  A jti of no grant would change nothing that a check reads.
RevokeDelegation(g, jti) ==
  /\ revokedGrants' = [revokedGrants EXCEPT ![g] = @ \cup {jti}]
  /\ UNCHANGED <<now, sharedVars, seen, audit, permits>>

-----------------------------------------------------------------------------
Init == /\ RegistryInit
        /\ IdpInit
        /\ grants = <<>>
        /\ seen = [g \in Gateways |-> {}]
        /\ revokedGrants = [g \in Gateways |-> {}]
        /\ audit = [g \in Gateways |-> <<>>]
        /\ permits = [g \in Gateways |-> [j \in 1..MaxTokens |-> 0]]

\* What happens in the lab between two requests.
Environment ==
  \/ \E g \in Gateways, j \in DOMAIN grants : RevokeDelegation(g, j)
  \/ LifecycleStep /\ UNCHANGED <<idpVars, grants, gatewayVars>>
  \/ Rotate(IdpKeyName)
       /\ UNCHANGED <<now, registryVars, idpVars, grants, gatewayVars>>
  \/ IdpStep /\ UNCHANGED <<keyVars, registryVars, grants, gatewayVars>>
  \/ \E i, s \in Agents, ttl \in GrantLifetimes :
       IssueDelegation(i, s, ttl)
         /\ UNCHANGED <<keyVars, registryVars, idpVars, gatewayVars>>
  \/ Tick /\ UNCHANGED <<sharedVars, gatewayVars>>

Next == (\E g \in Gateways, r \in Requests : Authorize(g, r)) \/ Environment

Spec == Init /\ [][Next]_vars

-----------------------------------------------------------------------------
(* Properties                                                                *)

TypeOK ==
  /\ KeyStoreTypeOK
  /\ RegistryTypeOK
  /\ IdpTypeOK
  /\ DelegationTypeOK
  /\ seen \in [Gateways -> SUBSET Jtis]
  /\ revokedGrants \in [Gateways -> SUBSET DOMAIN grants]
  /\ audit \in [Gateways -> Log(Agents)]
  /\ permits \in [Gateways -> [1..MaxTokens -> 0..2]]

Enforcing == {g \in Gateways : Mode[g] \in TrustAgentModes}

\* A jti that is a string buys at most one autonomously permitted action at a
\* gateway, however many tokens carry it, and however requests, refusals,
\* rotations and the clock interleave.
AtMostOncePerGateway ==
  \A g \in Enforcing, i, j \in DOMAIN tokens :
    IsString(tokens[i].jti) /\ tokens[i].jti = tokens[j].jti =>
      permits[g][i] = 0 \/ permits[g][j] = 0 \/ (i = j /\ permits[g][i] = 1)

\* The first presentation that passes the checks settles what a jti buys: when the
\* score withholds it, or an exception cuts it short, no token that carries it is
\* permitted later.  (A jti that is not a string never comes into _seen_jti.)
SettledAtFirstUse ==
  [][\A g \in Enforcing, j \in DOMAIN tokens :
       tokens[j].jti \in seen[g] => permits'[g][j] = permits[g][j]]_vars

\* A request that neither the token check nor the other checks let through at one
\* reading of the clock is let through at no later one, unless an agent is
\* registered, a key is published, or its token had yet to start: time, status
\* calls, rotations, new tokens, new grants, revocations and other authorizations
\* only ever take authority away.
Authority(g, r, t) == TokenAccepted(r, t) /\ Clears(g, r, t)

authorityVars == <<now, sharedVars, revokedGrants>>

Starting(r) == r.token \in DOMAIN tokens /\ Premature(tokens[r.token], now)

Publication ==
  \/ publicKeys' # publicKeys
  \/ /\ records' # records
     /\ \E a \in Agents, record \in NewRecords, key \in KeysMade(Names) :
          Register(a, record, key)

AuthorityOnlyShrinks ==
  [][\/ Publication \/ UNCHANGED authorityVars
     \/ \A g \in Gateways, r \in Requests :
          ~Starting(r) /\ Authority(g, r, now)' => Authority(g, r, now)
    ]_authorityVars

\* Whatever a gateway that enforces permits, it would have permitted at the moment
\* the call came in, although it decodes the token at one reading of the clock,
\* looks the agents up at another, and scores at a third.
EntryDecides ==
  [][permits' # permits =>
       \A g \in Enforcing, r \in Requests :
         Authorize(g, r) => Authority(g, r, now)]_vars

\* No agent that was revoked, suspended or retired, and not registered since,
\* clears a gateway or is reached as a peer, whatever tokens, cards and grants
\* it still holds.
WithdrawnIsOut ==
  \A g \in Gateways, r \in Requests :
    Clears(g, r, now) => /\ r.agent \notin withdrawn
                         /\ r.channel = "a2a" => r.resource \notin withdrawn

\* Whatever capability clears, a registered agent holds it: the caller, or the
\* issuer of a grant to the caller, signed with the key published for the issuer.
\* What bounds a grant is its issuer's record; the scope that was signed is not read.
CapabilityIsHeld ==
  \A g \in Gateways, r \in Requests :
    Clears(g, r, now) =>
      \E a \in DOMAIN records :
        /\ r.capability \in records[a].capabilities
        /\ \/ a = r.agent
           \/ \E j \in DOMAIN grants : /\ grants[j].iss = a
                                       /\ grants[j].sub = r.agent
                                       /\ grants[j].key = publicKeys[a]
                                       /\ j \notin revokedGrants[g]

\* A grant is not refused because its issuer was revoked or suspended.  What ends
\* it is a rotation of the issuer's key that is published: from then on a grant
\* signed before clears no gateway, as long as every key published for the issuer
\* was the one in use when it was published.  (The registry takes any key, so one
\* that was replaced and is published late brings the grants under it back.)
Superseded(j) == /\ grants[j].iss \in DOMAIN publicKeys
                 /\ grants[j].key.gen < publicKeys[grants[j].iss].gen

RotationVoidsGrants ==
  [][\A j \in DOMAIN grants :
       Superseded(j) /\ grants[j].iss \notin untimely' =>
         \A g \in Gateways, r \in Requests :
           (\E grant \in r.grant : grant.jws = j) => ~Clears(g, r, now)'
    ]_authorityVars

\* What a gateway that scores writes to its audit log is a run of TrustFeedback:
\* whichever hard check refuses, and whatever the score reads, nothing else about
\* the requests reaches the log.  Observed is any gateway that scores.
Feedback == INSTANCE TrustFeedback
              WITH mode <- Mode[Observed], events <- audit[Observed],
                   Modes <- ScoringModes

ImplementsFeedback == Feedback!Spec

\* A token is live while some audience accepts it, now or later.
Live == {j \in DOMAIN tokens : \E d \in Audiences, t \in now..tokens[j].exp :
                                Decodes(tokens[j], d, t)}

\* The gateways that enforce, on the registry, the clock and the provider they
\* share, are an access-control system in which a jti that is a string is used at
\* most once at a gateway, a token only while it is live, and never for an agent
\* that is withdrawn.
Access == INSTANCE AccessControl
            WITH Doors <- Enforcing, MaxTickets <- MaxTokens, Marks <- Jtis,
                 holder <- [j \in DOMAIN tokens |-> tokens[j].sub],
                 mark <- [j \in DOMAIN tokens |-> tokens[j].jti],
                 live <- Live,
                 spent <- [g \in Enforcing |-> seen[g]],
                 permits <- [g \in Enforcing |-> permits[g]]

ImplementsAccessControl == Access!Spec

\* docs/eval.md: "Replay detection is a process-local jti set."
ProcessLocalReplay ==
  \A j \in 1..MaxTokens :
    \A g, h \in Enforcing : permits[g][j] + permits[h][j] <= 1 \/ g = h

=============================================================================
