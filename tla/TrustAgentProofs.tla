--------------------------- MODULE TrustAgentProofs ---------------------------
(***************************************************************************)
(* Proofs about the two services that the gateways of a lab share, the     *)
(* registry and the identity provider, and then about TrustAgent, which    *)
(* composes them.  Each service keeps keys in the one key store, and       *)
(* neither touches the state of the other.  What a gateway promises of a   *)
(* token rests on one fact: the jti of a token it has permitted is in its  *)
(* set of used ones, unless it is no string.  The invariants of the        *)
(* services are those proved for each of them alone: no action of the      *)
(* composition does more to their state than an action of theirs.          *)
(***************************************************************************)
EXTENDS TrustAgent, FiniteSetTheorems, TLAPS

-----------------------------------------------------------------------------
(***************************************************************************)
(* Proofs about AgentRegistry.  The inductive invariant adds to the type   *)
(* of the state that a withdrawn agent is still registered, under one of   *)
(* the statuses of a withdrawal, and that the key of an agent whose keys   *)
(* were all published in time is no newer than the one the store holds.    *)
(***************************************************************************)

registryState == <<keyVars, registryVars>>

\* _with_status keeps the record, and only registration clears `withdrawn'.
WithdrawnRecorded ==
  \A a \in withdrawn : a \in DOMAIN records /\ records[a].status \in Withdrawals

\* A key published in time was the one in use, and the store only moves on.
TimelyKeys ==
  \A a \in DOMAIN publicKeys \ untimely :
    a \in DOMAIN private /\ publicKeys[a].gen <= private[a]

RegistryInv == /\ KeyStoreTypeOK
               /\ RegistryTypeOK
               /\ WithdrawnRecorded
               /\ TimelyKeys

-----------------------------------------------------------------------------
(* Lemmas                                                                    *)

\* The key in use.
LEMMA KeyOfFacts ==
  ASSUME KeyStoreTypeOK, NEW a \in DOMAIN private
  PROVE  KeyOf(a) \in Key /\ KeyOf(a).owner = a /\ KeyOf(a).gen = private[a]
BY DEF KeyOf, Key, KeyStoreTypeOK

\* Whatever was generated is a key.
LEMMA KeysMadeAreKeys ==
  ASSUME KeyStoreTypeOK, NEW names PROVE KeysMade(names) \subseteq Key
BY DEF KeysMade, Key, KeyStoreTypeOK

\* Whatever key is published: the other agents' are left alone, and an agent
\* whose keys were all published in time has the one in use.
LEMMA PublishFacts ==
  ASSUME RegistryTypeOK, NEW a \in Agents, NEW key \in Key, Publish(a, key)
  PROVE  /\ DOMAIN publicKeys' = DOMAIN publicKeys \cup {a}
         /\ publicKeys'[a] = key
         /\ \A b \in DOMAIN publicKeys : b # a => publicKeys'[b] = publicKeys[b]
         /\ untimely \subseteq untimely' /\ untimely' \subseteq Agents
         /\ a \notin untimely' => a \in DOMAIN private /\ key = KeyOf(a)
         /\ \A b \in DOMAIN publicKeys' : publicKeys'[b] \in Key
BY DEF Publish, Put, RegistryTypeOK

LEMMA PublishTimely ==
  ASSUME KeyStoreTypeOK, RegistryTypeOK, TimelyKeys, private' = private,
         NEW a \in Agents, NEW key \in Key, Publish(a, key)
  PROVE  TimelyKeys'
<1>1. /\ DOMAIN publicKeys' = DOMAIN publicKeys \cup {a}
      /\ publicKeys'[a] = key
      /\ \A b \in DOMAIN publicKeys : b # a => publicKeys'[b] = publicKeys[b]
      /\ untimely \subseteq untimely'
      /\ a \notin untimely' => a \in DOMAIN private /\ key = KeyOf(a)
  BY PublishFacts
<1>2. a \in DOMAIN private => KeyOf(a).gen = private[a] /\ private[a] \in Nat
  BY KeyOfFacts DEF KeyStoreTypeOK
<1> QED
  BY <1>1, <1>2 DEF TimelyKeys

-----------------------------------------------------------------------------
LEMMA InitInv == RegistryInit => RegistryInv
<1> SUFFICES ASSUME RegistryInit PROVE RegistryInv
  OBVIOUS
<1> USE IdpKeyNameAssumption, AgentsAssumption, LabRecordsAssumption
<1>1. KeyStoreTypeOK
  BY DEF RegistryInit, KeyStoreTypeOK
<1>2. RegistryTypeOK
  BY DEF RegistryInit, RegistryTypeOK, Key
<1>3. WithdrawnRecorded
  BY DEF RegistryInit, WithdrawnRecorded
<1>4. TimelyKeys
  BY DEF RegistryInit, TimelyKeys
<1> QED
  BY <1>1, <1>2, <1>3, <1>4 DEF RegistryInv

LEMMA RegisterInv ==
  ASSUME RegistryInv, NEW a \in Agents, NEW record \in NewRecords, NEW key \in Key,
         Register(a, record, key), UNCHANGED keyVars
  PROVE  RegistryInv'
<1> USE DEF RegistryInv
<1>1. KeyStoreTypeOK'
  BY DEF KeyStoreTypeOK, keyVars
<1>2. /\ DOMAIN records' = DOMAIN records \cup {a}
      /\ records'[a] = record
      /\ \A b \in DOMAIN records : b # a => records'[b] = records[b]
  BY DEF Register, Put
<1>3. /\ DOMAIN publicKeys' = DOMAIN publicKeys \cup {a}
      /\ untimely' \subseteq Agents
      /\ \A b \in DOMAIN publicKeys' : publicKeys'[b] \in Key
  BY PublishFacts DEF Register
<1>4. RegistryTypeOK'
  BY <1>2, <1>3, NewRecordsAssumption DEF RegistryTypeOK, Register
<1>5. WithdrawnRecorded'
  BY <1>2 DEF WithdrawnRecorded, Register
<1>6. TimelyKeys'
  BY PublishTimely DEF Register, keyVars
<1> QED
  BY <1>1, <1>4, <1>5, <1>6

LEMMA WithStatusInv ==
  ASSUME RegistryInv, NEW a \in Agents, NEW status, WithStatus(a, status),
         UNCHANGED keyVars
  PROVE  RegistryInv'
<1> USE DEF RegistryInv
<1>1. KeyStoreTypeOK'
  BY DEF KeyStoreTypeOK, keyVars
<1>2. status \in Statuses
  BY WithdrawalsAssumption DEF WithStatus, Statuses
<1>3. /\ DOMAIN records' = DOMAIN records
      /\ records'[a] = [records[a] EXCEPT !.status = status]
      /\ \A b \in DOMAIN records : b # a => records'[b] = records[b]
  BY DEF WithStatus
<1>4. records[a] \in AgentRecord
  BY DEF RegistryTypeOK, WithStatus
<1>5. records'[a] \in AgentRecord /\ records'[a].status = status
  BY <1>2, <1>3, <1>4 DEF AgentRecord
<1>6. RegistryTypeOK'
  BY <1>3, <1>5 DEF RegistryTypeOK, WithStatus
<1>7. WithdrawnRecorded'
  BY <1>3, <1>5 DEF WithdrawnRecorded, WithStatus
<1>8. TimelyKeys'
  BY DEF TimelyKeys, WithStatus, keyVars
<1> QED
  BY <1>1, <1>6, <1>7, <1>8

LEMMA RotateKeyInv ==
  ASSUME RegistryInv, NEW a \in Agents, NEW key \in Key, RotateKey(a, key),
         UNCHANGED keyVars
  PROVE  RegistryInv'
<1> USE DEF RegistryInv
<1>1. KeyStoreTypeOK'
  BY DEF KeyStoreTypeOK, keyVars
<1>2. /\ DOMAIN publicKeys' = DOMAIN publicKeys \cup {a}
      /\ untimely' \subseteq Agents
      /\ \A b \in DOMAIN publicKeys' : publicKeys'[b] \in Key
  BY PublishFacts DEF RotateKey
<1>3. RegistryTypeOK'
  BY <1>2 DEF RegistryTypeOK, RotateKey
<1>4. WithdrawnRecorded'
  BY DEF WithdrawnRecorded, RotateKey
<1>5. TimelyKeys'
  BY PublishTimely DEF RotateKey, keyVars
<1> QED
  BY <1>1, <1>3, <1>4, <1>5

\* A key pair generated by the store, as a first key or as a replacement.
LEMMA NewKeyInv ==
  ASSUME RegistryInv, NEW a \in Names, NEW held \in Nat,
         a \in DOMAIN private => held = private[a],
         private' = Put(private, a, held + 1), UNCHANGED <<now, registryVars>>
  PROVE  RegistryInv'
<1> USE DEF RegistryInv
<1>1. /\ DOMAIN private' = DOMAIN private \cup {a}
      /\ private'[a] = held + 1
      /\ \A b \in DOMAIN private : b # a => private'[b] = private[b]
  BY DEF Put
<1>2. KeyStoreTypeOK'
  BY <1>1 DEF KeyStoreTypeOK
<1>3. RegistryTypeOK' /\ WithdrawnRecorded'
  BY DEF RegistryTypeOK, WithdrawnRecorded, registryVars
<1>4. TimelyKeys'
  BY <1>1 DEF TimelyKeys, registryVars, RegistryTypeOK, Key
<1> QED
  BY <1>2, <1>3, <1>4

LEMMA NextInv == RegistryInv /\ [RegistryNext]_registryState => RegistryInv'
<1> SUFFICES ASSUME RegistryInv, [RegistryNext]_registryState PROVE RegistryInv'
  OBVIOUS
<1>1. CASE UNCHANGED registryState
  BY <1>1 DEF registryState, keyVars, registryVars, RegistryInv, KeyStoreTypeOK,
              RegistryTypeOK, WithdrawnRecorded, TimelyKeys
<1>2. CASE Tick /\ UNCHANGED <<private, registryVars>>
  BY <1>2 DEF Tick, registryVars, RegistryInv, KeyStoreTypeOK,
              RegistryTypeOK, WithdrawnRecorded, TimelyKeys
<1>3. ASSUME NEW a \in Agents, NEW record \in NewRecords,
             NEW key \in KeysMade(KeySources[a]),
             Register(a, record, key) /\ UNCHANGED keyVars
      PROVE  RegistryInv'
  BY <1>3, RegisterInv, KeysMadeAreKeys DEF RegistryInv
<1>4. ASSUME NEW a \in Agents, UNCHANGED keyVars,
             Revoke(a) \/ Suspend(a) \/ Retire(a)
      PROVE  RegistryInv'
  BY <1>4, WithStatusInv DEF Revoke, Suspend, Retire
<1>5. ASSUME NEW a \in Agents, NEW key \in KeysMade(KeySources[a]),
             RotateKey(a, key) /\ UNCHANGED keyVars
      PROVE  RegistryInv'
  BY <1>5, RotateKeyInv, KeysMadeAreKeys DEF RegistryInv
<1>6. ASSUME NEW a \in Agents, Generate(a) /\ UNCHANGED <<now, registryVars>>
      PROVE  RegistryInv'
  BY <1>6, NewKeyInv, AgentsAssumption DEF Generate
<1>7. ASSUME NEW a \in Agents, Rotate(a) /\ UNCHANGED <<now, registryVars>>
      PROVE  RegistryInv'
  <2> DEFINE held == IF a \in DOMAIN private THEN private[a] ELSE 0
  <2>1. held \in Nat /\ (a \in DOMAIN private => held = private[a])
    BY DEF RegistryInv, KeyStoreTypeOK
  <2>2. private' = Put(private, a, held + 1)
    BY <1>7 DEF Rotate
  <2> HIDE DEF held
  <2> QED
    BY <1>7, <2>1, <2>2, NewKeyInv, AgentsAssumption
<1> QED
  BY <1>1, <1>2, <1>3, <1>4, <1>5, <1>6, <1>7 DEF RegistryNext, LifecycleStep

\* The inductive invariant holds in every reachable state.
THEOREM RegistryInvariant == RegistrySpec => []RegistryInv
<1>1. RegistrySpec => RegistryInit /\ [][RegistryNext]_registryState
  BY DEF RegistrySpec, registryState
<1> QED
  BY <1>1, InitInv, NextInv, PTL

-----------------------------------------------------------------------------
(* Theorems                                                                  *)

\* The registry and the published keys always agree on who is registered.
THEOREM RegistryTypeCorrect == RegistrySpec => []RegistryTypeOK
<1>1. RegistryInv => RegistryTypeOK
  BY DEF RegistryInv
<1> QED
  BY <1>1, RegistryInvariant, PTL

\* Withdrawn agents are inactive until they are registered again.
THEOREM WithdrawnInactive == RegistrySpec => []WithdrawnStaysInactive
<1>1. RegistryInv => WithdrawnStaysInactive
  BY WithdrawalsAssumption DEF RegistryInv, WithdrawnRecorded,
                               WithdrawnStaysInactive, Status
<1> QED
  BY <1>1, RegistryInvariant, PTL

\* A key published in time replaces one that is no newer.
LEMMA PublicationForward ==
  ASSUME RegistryInv, RegistryNext, NEW a \in DOMAIN publicKeys, a \notin untimely'
  PROVE  /\ a \in DOMAIN publicKeys' /\ publicKeys'[a].gen >= publicKeys[a].gen
         /\ a \notin untimely
<1> DEFINE Forward ==
             /\ a \in DOMAIN publicKeys' /\ publicKeys'[a].gen >= publicKeys[a].gen
             /\ a \notin untimely
<1>1. ASSUME UNCHANGED <<publicKeys, untimely>> PROVE Forward
  BY <1>1 DEF RegistryInv, RegistryTypeOK, Key
<1>2. ASSUME NEW b \in Agents, NEW key \in KeysMade(KeySources[b]), Publish(b, key)
      PROVE  Forward
  <2>1. key \in Key
    BY KeysMadeAreKeys DEF RegistryInv
  <2>2. /\ DOMAIN publicKeys' = DOMAIN publicKeys \cup {b}
        /\ publicKeys'[b] = key
        /\ a # b => publicKeys'[a] = publicKeys[a]
        /\ untimely \subseteq untimely'
        /\ a = b => a \in DOMAIN private /\ key = KeyOf(a)
    BY <1>2, <2>1, PublishFacts DEF RegistryInv
  <2>3. /\ a \in DOMAIN private /\ publicKeys[a].gen <= private[a]
        /\ publicKeys[a].gen \in Nat
    BY <2>2 DEF RegistryInv, TimelyKeys, RegistryTypeOK, Key
  <2>4. KeyOf(a).gen = private[a]
    BY <2>3, KeyOfFacts DEF RegistryInv
  <2> QED
    BY <2>2, <2>3, <2>4
<1> QED
  BY <1>1, <1>2 DEF RegistryNext, LifecycleStep, Register, Revoke, Suspend,
                    Retire, WithStatus, RotateKey, Tick, registryVars

\* Nothing but register() makes an inactive agent active.
THEOREM RegistrationActivates == RegistrySpec => OnlyRegistrationActivates
<1> DEFINE Guarded ==
             \A a \in Agents :
               Status(a, now) # "active" /\ Status(a, now)' = "active"
                 => \E record \in NewRecords, key \in KeysMade(KeySources[a]) :
                      Register(a, record, key)
<1>1. RegistryInv /\ [RegistryNext]_registryState => [Guarded]_registryState
  <2> SUFFICES ASSUME RegistryInv, RegistryNext, NEW a \in Agents,
                      Status(a, now) # "active", Status(a, now)' = "active"
               PROVE  \E record \in NewRecords, key \in KeysMade(KeySources[a]) :
                        Register(a, record, key)
    OBVIOUS
  <2>1. ~(records' = records /\ now' = now)
    BY DEF Status, Expired
  <2>2. ~(Tick /\ UNCHANGED <<private, registryVars>>)
    <3> SUFFICES ASSUME Tick, records' = records PROVE FALSE
      BY DEF registryVars
    <3>1. ASSUME a \in DOMAIN records
          PROVE  /\ records[a].expiresAt \subseteq Nat
                 /\ now \in Nat
                 /\ now' = now + 1
      BY <3>1 DEF RegistryInv, RegistryTypeOK, AgentRecord, KeyStoreTypeOK, Tick
    <3>2. a \in DOMAIN records /\ Expired(records[a], now)
            => Expired(records[a], now')
      BY <3>1 DEF Expired
    <3> QED
      BY <3>2 DEF Status
  <2>3. ASSUME NEW b \in Agents, NEW status, WithStatus(b, status),
               UNCHANGED keyVars
        PROVE  FALSE
    <3>1. now' = now /\ status # "active"
      BY <2>3, WithdrawalsAssumption DEF WithStatus, keyVars
    <3>2. /\ DOMAIN records' = DOMAIN records
          /\ \A c \in DOMAIN records : c # b => records'[c] = records[c]
          /\ records'[b].status = status
      BY <2>3 DEF WithStatus, RegistryInv, RegistryTypeOK, AgentRecord
    <3>3. CASE a = b
      BY <3>1, <3>2, <3>3 DEF Status
    <3>4. CASE a # b
      BY <3>1, <3>2, <3>4 DEF Status, Expired
    <3> QED
      BY <3>3, <3>4
  <2>4. ASSUME NEW b \in Agents, NEW record \in NewRecords, NEW key,
               Register(b, record, key), UNCHANGED keyVars
        PROVE  a = b
    <3> SUFFICES ASSUME a # b PROVE FALSE
      OBVIOUS
    <3>1. /\ DOMAIN records' = DOMAIN records \cup {b}
          /\ \A c \in DOMAIN records : c # b => records'[c] = records[c]
      BY <2>4 DEF Register, Put
    <3> QED
      BY <2>4, <3>1 DEF Status, Expired, keyVars
  <2> QED
    BY <2>1, <2>2, <2>3, <2>4
       DEF RegistryNext, LifecycleStep, Revoke, Suspend, Retire, RotateKey,
           keyVars, registryVars
<1> QED
  <2>1. RegistrySpec => [][RegistryNext]_registryState
    BY DEF RegistrySpec, registryState
  <2> QED
    BY <1>1, <2>1, RegistryInvariant, PTL
       DEF OnlyRegistrationActivates, registryState

-----------------------------------------------------------------------------
(***************************************************************************)
(* Proofs about IdentityProvider.  The inductive invariant relates the     *)
(* three facts about a code that the code keeps apart: whether it is still *)
(* in the dict, how its first exchange went, and which tokens came of it.  *)
(***************************************************************************)

idpState == <<keyVars, idpVars>>

\* The provider has a key from its constructor on.
IdpKeyHeld == IdpKeyName \in DOMAIN private

\* A code is in the dict exactly until it is first exchanged, and has yielded
\* one token if that went well and none otherwise.
CodesSettled ==
  \A c \in DOMAIN codes :
    /\ c \in open <=> first[c] = "none"
    /\ first[c] = "match" => \E j \in DOMAIN tokens : MintedFrom(c) = {j}
    /\ first[c] # "match" => MintedFrom(c) = {}

\* Codes of tokens are codes that were handed out; 0 is issue().
CodesKnown == \A j \in DOMAIN tokens : tokens[j].code \in {0} \cup DOMAIN codes

\* Tokens are signed with keys of the provider, none newer than the one it holds.
TokensSigned ==
  \A j \in DOMAIN tokens : /\ tokens[j].key.owner = IdpKeyName
                            /\ tokens[j].key.gen <= private[IdpKeyName]

KeysInv == KeyStoreTypeOK /\ IdpKeyHeld

IdpInv == /\ IdpTypeOK
          /\ CodesKnown
          /\ CodesSettled
          /\ MintedAsAuthorized
          /\ TokensSigned

-----------------------------------------------------------------------------
(* Lemmas                                                                    *)

\* Append adds one element at the end and leaves the others alone.
LEMMA AppendFacts ==
  ASSUME NEW S, NEW s \in Seq(S), NEW e \in S
  PROVE  /\ Append(s, e) \in Seq(S)
         /\ Len(Append(s, e)) = Len(s) + 1
         /\ Len(s) \in Nat
         /\ DOMAIN s = 1..Len(s)
         /\ DOMAIN Append(s, e) = DOMAIN s \cup {Len(s) + 1}
         /\ Len(s) + 1 \notin DOMAIN s
         /\ Append(s, e)[Len(s) + 1] = e
         /\ \A i \in DOMAIN s : Append(s, e)[i] = s[i]
OBVIOUS

\* A sequence is a function on its domain.
LEMMA SeqIsFunction == ASSUME NEW S, NEW s \in Seq(S) PROVE s \in [DOMAIN s -> S]
<1>1. s \in [1..Len(s) -> S] /\ DOMAIN s = 1..Len(s)
  OBVIOUS
<1> QED
  BY <1>1

\* Whatever claims the caller overwrites, the token is one.
LEMMA ClaimsType ==
  ASSUME IdpInv, KeysInv, NEW s \in Subjects, NEW d \in Audiences,
         NEW ttl \in Lifetimes, NEW code \in Nat, NEW extra \in Extras \cup {NoExtra},
         Len(tokens) < MaxTokens
  PROVE  Claims(s, d, ttl, code, extra) \in Token
<1>1. /\ KeyOf(IdpKeyName) \in Key /\ now \in Int /\ ttl \in Int
      /\ Len(tokens) + 1 \in 0..MaxTokens
  <2>1. KeyOf(IdpKeyName) \in Key /\ now \in Int
    BY DEF KeysInv, KeyStoreTypeOK, IdpKeyHeld, KeyOf, Key
  <2>2. Len(tokens) \in Nat /\ MaxTokens \in Nat
    BY IdpBoundAssumption DEF IdpInv, IdpTypeOK
  <2> QED
    BY <2>1, <2>2, LifetimesAssumption
<1>2. /\ "sub" \in DOMAIN extra => extra["sub"] \in Subjects
      /\ "aud" \in DOMAIN extra => extra["aud"] \in SUBSET Audiences
      /\ "iat" \in DOMAIN extra => extra["iat"] \in Int
      /\ "nbf" \in DOMAIN extra => extra["nbf"] \in Int
      /\ "exp" \in DOMAIN extra => extra["exp"] \in Int
      /\ "jti" \in DOMAIN extra => extra["jti"] \in Jtis
  <2>1. CASE extra \in Extras
    BY <2>1, ExtrasAssumption DEF Jtis
  <2>2. CASE extra = NoExtra
    <3>1. DOMAIN extra = {}
      BY <2>2 DEF NoExtra
    <3> QED
      BY <3>1
  <2> QED
    BY <2>1, <2>2
<1>3. /\ Claim(extra, "sub", s) \in Subjects
      /\ Claim(extra, "aud", {d}) \in SUBSET Audiences
      /\ Claim(extra, "iat", now) \in Int
      /\ Claim(extra, "nbf", now) \in Int
      /\ Claim(extra, "exp", now + ttl) \in Int
      /\ Claim(extra, "jti", Len(tokens) + 1) \in Jtis
  BY <1>1, <1>2 DEF Claim, Jtis
<1> QED
  BY <1>1, <1>3 DEF Claims, Token

\* Without extra claims, the token carries what was asked for.
LEMMA PlainClaims ==
  ASSUME NEW s, NEW d, NEW ttl, NEW code
  PROVE  /\ Claims(s, d, ttl, code, NoExtra).sub = s
         /\ Claims(s, d, ttl, code, NoExtra).aud = {d}
         /\ Claims(s, d, ttl, code, NoExtra).iat = now
         /\ Claims(s, d, ttl, code, NoExtra).exp = now + ttl
<1>1. DOMAIN NoExtra = {}
  BY DEF NoExtra
<1> QED
  BY <1>1 DEF Claims, Claim

\* A token signed by the provider comes last, and is signed with the key held now.
LEMMA SignFacts ==
  ASSUME IdpInv, KeysInv, NEW s \in Subjects, NEW d \in Audiences,
         NEW ttl \in Lifetimes, NEW code \in Nat, NEW extra \in Extras \cup {NoExtra},
         Sign(s, d, ttl, code, extra)
  PROVE  LET j == Len(tokens) + 1 IN
         /\ tokens' \in Seq(Token) /\ Len(tokens') <= MaxTokens
         /\ DOMAIN tokens' = DOMAIN tokens \cup {j} /\ j \notin DOMAIN tokens
         /\ tokens'[j] = Claims(s, d, ttl, code, extra)
         /\ tokens'[j].code = code /\ tokens'[j].key = KeyOf(IdpKeyName)
         /\ \A i \in DOMAIN tokens : tokens'[i] = tokens[i]
<1> DEFINE token == Claims(s, d, ttl, code, extra)
<1>1. tokens' = Append(tokens, token) /\ Len(tokens) < MaxTokens
  BY DEF Sign
<1>2. token \in Token
  BY <1>1, ClaimsType
<1>3. token.code = code /\ token.key = KeyOf(IdpKeyName)
  BY DEF Claims
<1>4. tokens \in Seq(Token) /\ MaxTokens \in Nat
  BY IdpBoundAssumption DEF IdpInv, IdpTypeOK
<1> HIDE DEF token
<1>5. /\ tokens' \in Seq(Token) /\ Len(tokens') <= MaxTokens
      /\ DOMAIN tokens' = DOMAIN tokens \cup {Len(tokens) + 1}
      /\ Len(tokens) + 1 \notin DOMAIN tokens
      /\ tokens'[Len(tokens) + 1] = token
      /\ \A i \in DOMAIN tokens : tokens'[i] = tokens[i]
  BY <1>1, <1>2, <1>4, AppendFacts
<1> QED
  BY <1>3, <1>5 DEF token

\* ... so that all tokens stay signed with keys of the provider.
LEMMA SignWell ==
  ASSUME IdpInv, KeysInv, NEW s \in Subjects, NEW d \in Audiences,
         NEW ttl \in Lifetimes, NEW code \in Nat, NEW extra \in Extras \cup {NoExtra},
         Sign(s, d, ttl, code, extra), UNCHANGED keyVars
  PROVE  TokensSigned'
<1>1. KeyOf(IdpKeyName).owner = IdpKeyName
      /\ KeyOf(IdpKeyName).gen = private[IdpKeyName]
      /\ private[IdpKeyName] \in Nat
  BY DEF KeyOf, KeysInv, KeyStoreTypeOK, IdpKeyHeld
<1> DEFINE new == Len(tokens) + 1
<1>2. /\ DOMAIN tokens' = DOMAIN tokens \cup {new}
      /\ tokens'[new].key = KeyOf(IdpKeyName)
      /\ \A i \in DOMAIN tokens : tokens'[i] = tokens[i]
  BY SignFacts
<1> HIDE DEF new
<1> QED
  BY <1>1, <1>2 DEF TokensSigned, IdpInv, keyVars

-----------------------------------------------------------------------------
(* One lemma for each way a call to the provider ends                        *)

LEMMA IssueInv ==
  ASSUME IdpInv, KeysInv, NEW s \in Subjects, NEW d \in Audiences,
         NEW ttl \in Lifetimes, NEW extra \in Extras \cup {NoExtra},
         Issue(s, d, ttl, extra), UNCHANGED keyVars
  PROVE  IdpInv'
<1> DEFINE new == Len(tokens) + 1
<1>1. Sign(s, d, ttl, 0, extra) /\ UNCHANGED <<codes, open, first>>
  BY DEF Issue
<1>2. /\ tokens' \in Seq(Token) /\ Len(tokens') <= MaxTokens
      /\ DOMAIN tokens' = DOMAIN tokens \cup {new} /\ new \notin DOMAIN tokens
      /\ tokens'[new].code = 0
      /\ \A i \in DOMAIN tokens : tokens'[i] = tokens[i]
  <2> DEFINE none == 0
  <2>1. none \in Nat /\ Sign(s, d, ttl, none, extra)
    BY <1>1
  <2> HIDE DEF none
  <2>2. /\ tokens' \in Seq(Token) /\ Len(tokens') <= MaxTokens
        /\ DOMAIN tokens' = DOMAIN tokens \cup {new} /\ new \notin DOMAIN tokens
        /\ tokens'[new].code = none
        /\ \A i \in DOMAIN tokens : tokens'[i] = tokens[i]
    BY <2>1, SignFacts
  <2> QED
    BY <2>2 DEF none
<1> HIDE DEF new
<1>3. IdpTypeOK'
  BY <1>1, <1>2 DEF IdpInv, IdpTypeOK
<1>4. CodesKnown'
  BY <1>1, <1>2 DEF IdpInv, CodesKnown
<1>5. ASSUME NEW c \in DOMAIN codes PROVE MintedFrom(c)' = MintedFrom(c)
  <2>1. c # 0
    BY DEF IdpInv, IdpTypeOK
  <2> QED
    BY <1>2, <2>1 DEF MintedFrom
<1>6. CodesSettled'
  BY <1>1, <1>2, <1>5 DEF IdpInv, CodesSettled
<1>7. MintedAsAuthorized'
  BY <1>1, <1>2, <1>5 DEF IdpInv, MintedAsAuthorized, MintedFrom
<1>8. TokensSigned'
  BY <1>1, SignWell
<1> QED
  BY <1>3, <1>4, <1>6, <1>7, <1>8 DEF IdpInv

LEMMA BeginInv ==
  ASSUME IdpInv, NEW s \in Subjects, NEW v \in Verifiers, NEW d \in Audiences,
         NEW ttl \in Lifetimes, BeginAuthorizationCode(s, v, d, ttl),
         UNCHANGED keyVars
  PROVE  IdpInv'
<1> DEFINE request == [subject |-> s, challenge |-> v, audience |-> d, ttl |-> ttl]
           new == Len(codes) + 1
<1>1. /\ codes' = Append(codes, request) /\ first' = Append(first, "none")
      /\ open' = open \cup {new} /\ tokens' = tokens /\ Len(codes) < MaxCodes
  BY DEF BeginAuthorizationCode
<1>2. request \in Authorization
  BY DEF Authorization
<1>3. /\ codes \in Seq(Authorization) /\ DOMAIN codes = 1..Len(codes)
      /\ Len(codes) \in Nat
      /\ first \in Seq({"none", "match", "mismatch"}) /\ Len(first) = Len(codes)
      /\ MaxCodes \in Nat
  BY IdpBoundAssumption DEF IdpInv, IdpTypeOK
<1> HIDE DEF request
<1>4. /\ codes' \in Seq(Authorization) /\ Len(codes') <= MaxCodes
      /\ DOMAIN codes' = DOMAIN codes \cup {new} /\ new \notin DOMAIN codes
      /\ \A c \in DOMAIN codes : codes'[c] = codes[c]
  BY <1>1, <1>2, <1>3, AppendFacts
<1>5. /\ first' \in [DOMAIN codes' -> {"none", "match", "mismatch"}]
      /\ first'[new] = "none"
      /\ \A c \in DOMAIN codes : first'[c] = first[c]
  <2>1. DOMAIN first = DOMAIN codes
    BY DEF IdpInv, IdpTypeOK
  <2>2. /\ first' \in Seq({"none", "match", "mismatch"})
        /\ DOMAIN first' = DOMAIN first \cup {new}
        /\ first'[new] = "none"
        /\ \A c \in DOMAIN first : first'[c] = first[c]
    BY <1>1, <1>3, AppendFacts
  <2>3. first' \in [DOMAIN first' -> {"none", "match", "mismatch"}]
    BY <2>2, SeqIsFunction
  <2>4. DOMAIN first' = DOMAIN codes'
    BY <1>4, <2>1, <2>2
  <2> QED
    BY <2>1, <2>2, <2>3, <2>4
<1>6. new # 0
  BY <1>3
<1> HIDE DEF new
<1>7. IdpTypeOK'
  BY <1>1, <1>4, <1>5 DEF IdpInv, IdpTypeOK
<1>8. CodesKnown'
  BY <1>1, <1>4 DEF IdpInv, CodesKnown
<1>9. MintedFrom(new) = {}
  BY <1>4, <1>6 DEF IdpInv, CodesKnown, MintedFrom
<1>10. \A c : MintedFrom(c)' = MintedFrom(c)
  BY <1>1 DEF MintedFrom
<1>11. CodesSettled'
  <2> SUFFICES ASSUME NEW c \in DOMAIN codes'
               PROVE  /\ c \in open' <=> first'[c] = "none"
                      /\ first'[c] = "match" =>
                           \E j \in DOMAIN tokens' : MintedFrom(c)' = {j}
                      /\ first'[c] # "match" => MintedFrom(c)' = {}
    BY DEF CodesSettled
  <2>1. CASE c = new
    BY <1>1, <1>5, <1>9, <1>10, <2>1
  <2>2. CASE c # new
    BY <1>1, <1>4, <1>5, <1>10, <2>2 DEF IdpInv, CodesSettled
  <2> QED
    BY <2>1, <2>2
<1>12. MintedAsAuthorized'
  BY <1>1, <1>4, <1>9, <1>10 DEF IdpInv, MintedAsAuthorized
<1>13. TokensSigned'
  BY <1>1 DEF IdpInv, TokensSigned, keyVars
<1> QED
  BY <1>7, <1>8, <1>11, <1>12, <1>13 DEF IdpInv

\* The right verifier: the code leaves the dict and yields its one token.
LEMMA ExchangeInv ==
  ASSUME IdpInv, KeysInv, NEW c \in DOMAIN codes, NEW v \in Verifiers,
         ExchangeCode(c, v), UNCHANGED keyVars
  PROVE  IdpInv'
<1> DEFINE request == codes[c]
           new == Len(tokens) + 1
<1>1. /\ Sign(request.subject, request.audience, request.ttl, c, NoExtra)
      /\ open' = open \ {c} /\ codes' = codes
      /\ c \in open /\ v = request.challenge
  BY DEF ExchangeCode
<1>2. /\ request.subject \in Subjects /\ request.audience \in Audiences
      /\ request.ttl \in Lifetimes /\ request.ttl \in Int
      /\ c \in Nat
  <2>1. request \in Authorization /\ c \in Nat
    BY DEF IdpInv, IdpTypeOK
  <2> HIDE DEF request
  <2> QED
    BY <2>1, LifetimesAssumption DEF Authorization
<1>3. first[c] = "none" /\ first' = [first EXCEPT ![c] = "match"]
  BY <1>1 DEF ExchangeCode, NoteAttempt, IdpInv, CodesSettled
<1>4. /\ tokens' \in Seq(Token) /\ Len(tokens') <= MaxTokens
      /\ DOMAIN tokens' = DOMAIN tokens \cup {new} /\ new \notin DOMAIN tokens
      /\ tokens'[new].sub = request.subject
      /\ tokens'[new].aud = {request.audience}
      /\ tokens'[new].iat = now /\ tokens'[new].exp = now + request.ttl
      /\ tokens'[new].code = c
      /\ \A i \in DOMAIN tokens : tokens'[i] = tokens[i]
  <2> DEFINE s == request.subject  d == request.audience  ttl == request.ttl
  <2>1. /\ s \in Subjects /\ d \in Audiences /\ ttl \in Lifetimes /\ c \in Nat
        /\ NoExtra \in Extras \cup {NoExtra} /\ Sign(s, d, ttl, c, NoExtra)
    BY <1>1, <1>2
  <2> HIDE DEF s, d, ttl
  <2>2. /\ tokens' \in Seq(Token) /\ Len(tokens') <= MaxTokens
        /\ DOMAIN tokens' = DOMAIN tokens \cup {new} /\ new \notin DOMAIN tokens
        /\ tokens'[new] = Claims(s, d, ttl, c, NoExtra)
        /\ tokens'[new].code = c
        /\ \A i \in DOMAIN tokens : tokens'[i] = tokens[i]
    BY <2>1, SignFacts
  <2> QED
    BY <2>2, PlainClaims DEF s, d, ttl
<1>5. TokensSigned'
  BY <1>1, <1>2, SignWell
<1>6. now \in Nat
  BY DEF KeysInv, KeyStoreTypeOK
<1> HIDE DEF new
<1>7. IdpTypeOK'
  BY <1>1, <1>3, <1>4 DEF IdpInv, IdpTypeOK
<1>8. CodesKnown'
  BY <1>1, <1>4 DEF IdpInv, CodesKnown
<1>9. /\ MintedFrom(c)' = {new}
      /\ \A b \in DOMAIN codes \ {c} : MintedFrom(b)' = MintedFrom(b)
  <2>1. MintedFrom(c) = {}
    BY <1>3 DEF IdpInv, CodesSettled
  <2> QED
    BY <1>4, <2>1 DEF MintedFrom
<1>10. CodesSettled'
  <2> SUFFICES ASSUME NEW b \in DOMAIN codes
               PROVE  /\ b \in open' <=> first'[b] = "none"
                      /\ first'[b] = "match" =>
                           \E j \in DOMAIN tokens' : MintedFrom(b)' = {j}
                      /\ first'[b] # "match" => MintedFrom(b)' = {}
    BY <1>1 DEF CodesSettled
  <2>1. CASE b = c
    <3>1. first'[c] = "match"
      BY <1>3 DEF IdpInv, IdpTypeOK
    <3> QED
      BY <1>1, <1>4, <1>9, <2>1, <3>1
  <2>2. CASE b # c
    <3>1. first'[b] = first[b] /\ (b \in open' <=> b \in open)
      BY <1>1, <1>3, <2>2 DEF IdpInv, IdpTypeOK
    <3> QED
      BY <1>4, <1>9, <2>2, <3>1 DEF IdpInv, CodesSettled
  <2> QED
    BY <2>1, <2>2
<1>11. MintedAsAuthorized'
  <2> SUFFICES ASSUME NEW b \in DOMAIN codes, NEW j \in MintedFrom(b)'
               PROVE  /\ tokens'[j].sub = codes[b].subject
                      /\ tokens'[j].aud = {codes[b].audience}
                      /\ tokens'[j].exp - tokens'[j].iat = codes[b].ttl
    BY <1>1 DEF MintedAsAuthorized
  <2>1. CASE b = c
    BY <1>2, <1>4, <1>6, <1>9, <2>1
  <2>2. CASE b # c
    <3>1. j \in MintedFrom(b) /\ j \in DOMAIN tokens
      BY <1>9, <2>2 DEF MintedFrom
    <3> QED
      BY <1>4, <3>1 DEF IdpInv, MintedAsAuthorized
  <2> QED
    BY <2>1, <2>2
<1> QED
  BY <1>5, <1>7, <1>8, <1>10, <1>11 DEF IdpInv

\* The wrong verifier: the code leaves the dict all the same.
LEMMA RejectInv ==
  ASSUME IdpInv, NEW c \in DOMAIN codes, NEW v \in Verifiers,
         RejectVerifier(c, v) \/ RejectCode(c, v), UNCHANGED keyVars
  PROVE  IdpInv'
<1>1. tokens' = tokens /\ codes' = codes
  BY DEF RejectVerifier, RejectCode
<1>2. \A b : MintedFrom(b)' = MintedFrom(b)
  BY <1>1 DEF MintedFrom
<1>3. CodesKnown' /\ MintedAsAuthorized' /\ TokensSigned'
  BY <1>1, <1>2 DEF IdpInv, CodesKnown, MintedAsAuthorized, TokensSigned,
                    keyVars
<1>4. CASE RejectVerifier(c, v)
  <2>1. first[c] = "none" /\ first' = [first EXCEPT ![c] = "mismatch"]
        /\ open' = open \ {c}
    BY <1>4 DEF RejectVerifier, NoteAttempt, IdpInv, CodesSettled
  <2>2. IdpTypeOK'
    BY <1>1, <2>1 DEF IdpInv, IdpTypeOK
  <2>3. /\ first'[c] = "mismatch"
        /\ \A b \in DOMAIN codes \ {c} : first'[b] = first[b]
    BY <2>1 DEF IdpInv, IdpTypeOK
  <2>4. CodesSettled'
    BY <1>1, <1>2, <2>1, <2>3 DEF IdpInv, CodesSettled
  <2> QED
    BY <1>3, <2>2, <2>4 DEF IdpInv
<1>5. CASE RejectCode(c, v)
  <2>1. open' = open /\ first' = first
    BY <1>5 DEF RejectCode, NoteAttempt, IdpInv, CodesSettled
  <2>2. IdpTypeOK' /\ CodesSettled'
    BY <1>1, <1>2, <2>1 DEF IdpInv, IdpTypeOK, CodesSettled
  <2> QED
    BY <1>3, <2>2 DEF IdpInv
<1> QED
  BY <1>4, <1>5

\* Any call to the provider, whatever else the system consists of.
LEMMA IdpStepInv ==
  ASSUME IdpInv, KeysInv, IdpStep, UNCHANGED keyVars PROVE IdpInv'
<1>1. ASSUME NEW s \in Subjects, NEW d \in Audiences, NEW ttl \in Lifetimes,
             NEW extra \in Extras \cup {NoExtra}, Issue(s, d, ttl, extra)
      PROVE  IdpInv'
  BY <1>1, IssueInv
<1>2. ASSUME NEW s \in Subjects, NEW d \in Audiences, NEW ttl \in Lifetimes,
             NEW v \in Verifiers, BeginAuthorizationCode(s, v, d, ttl)
      PROVE  IdpInv'
  BY <1>2, BeginInv
<1>3. ASSUME NEW c \in DOMAIN codes, NEW v \in Verifiers,
             ExchangeCode(c, v) \/ RejectVerifier(c, v) \/ RejectCode(c, v)
      PROVE  IdpInv'
  BY <1>3, ExchangeInv, RejectInv
<1> QED
  BY <1>1, <1>2, <1>3 DEF IdpStep

\* Time passing and keys replaced, the tokens and codes being left alone.
LEMMA KeysMoveInv ==
  ASSUME IdpInv, KeysInv, KeysInv', UNCHANGED idpVars, now' >= now,
         private'[IdpKeyName] >= private[IdpKeyName]
  PROVE  IdpInv'
<1>1. IdpTypeOK' /\ CodesKnown'
  BY DEF IdpInv, IdpTypeOK, CodesKnown, idpVars
<1>2. CodesSettled' /\ MintedAsAuthorized'
  BY DEF IdpInv, CodesSettled, MintedAsAuthorized, MintedFrom, idpVars
<1>3. TokensSigned'
  <2>1. private[IdpKeyName] \in Nat /\ private'[IdpKeyName] \in Nat
    BY DEF KeysInv, KeyStoreTypeOK, IdpKeyHeld
  <2>2. \A j \in DOMAIN tokens : tokens[j].key.gen \in Nat
    <3>1. \A j \in DOMAIN tokens : tokens[j] \in Token
      BY DEF IdpInv, IdpTypeOK
    <3> QED
      BY <3>1 DEF Token, Key
  <2> QED
    BY <2>1, <2>2 DEF IdpInv, TokensSigned, idpVars
<1> QED
  BY <1>1, <1>2, <1>3 DEF IdpInv

\* A rotation of the provider's own key.
LEMMA RotateIdpKey ==
  ASSUME KeysInv, Rotate(IdpKeyName), now' = now
  PROVE  KeysInv' /\ private'[IdpKeyName] = private[IdpKeyName] + 1
<1>1. private' = Put(private, IdpKeyName, private[IdpKeyName] + 1)
  BY DEF Rotate, KeysInv, IdpKeyHeld
<1> QED
  BY <1>1, IdpKeyNameAssumption DEF KeysInv, IdpKeyHeld, KeyStoreTypeOK, Put

-----------------------------------------------------------------------------
LEMMA IdpInitInv == IdpInit => IdpInv
<1> SUFFICES ASSUME IdpInit PROVE IdpInv
  OBVIOUS
<1>1. IdpTypeOK
  BY IdpBoundAssumption DEF IdpInit, IdpTypeOK
<1> QED
  BY <1>1 DEF IdpInit, IdpInv, CodesKnown, CodesSettled, MintedAsAuthorized,
              TokensSigned

LEMMA IdpNextInv ==
  KeysInv /\ IdpInv /\ [IdpNext]_idpState => (KeysInv /\ IdpInv)'
<1> SUFFICES ASSUME KeysInv, IdpInv, [IdpNext]_idpState
             PROVE  (KeysInv /\ IdpInv)'
  OBVIOUS
<1>1. now \in Nat /\ private[IdpKeyName] \in Nat
  BY DEF KeysInv, KeyStoreTypeOK, IdpKeyHeld
<1>2. CASE UNCHANGED idpState
  <2>1. KeysInv' /\ now' = now /\ private' = private /\ UNCHANGED idpVars
    BY <1>2 DEF idpState, keyVars, KeysInv, KeyStoreTypeOK, IdpKeyHeld
  <2> QED
    BY <1>1, <2>1, KeysMoveInv
<1>3. CASE Tick /\ UNCHANGED <<private, idpVars>>
  <2>1. KeysInv' /\ now' >= now /\ private' = private /\ UNCHANGED idpVars
    BY <1>1, <1>3 DEF Tick, KeysInv, KeyStoreTypeOK, IdpKeyHeld
  <2> QED
    BY <1>1, <2>1, KeysMoveInv
<1>4. CASE Rotate(IdpKeyName) /\ UNCHANGED <<now, idpVars>>
  <2>1. /\ KeysInv' /\ now' >= now /\ UNCHANGED idpVars
        /\ private'[IdpKeyName] >= private[IdpKeyName]
    BY <1>1, <1>4, RotateIdpKey
  <2> QED
    BY <2>1, KeysMoveInv
<1>5. CASE IdpStep /\ UNCHANGED keyVars
  <2>1. KeysInv'
    BY <1>5 DEF keyVars, KeysInv, KeyStoreTypeOK, IdpKeyHeld
  <2> QED
    BY <1>5, <2>1, IdpStepInv
<1> QED
  BY <1>2, <1>3, <1>4, <1>5 DEF IdpNext

\* The inductive invariant holds in every reachable state.
THEOREM IdpInvariant == IdpSpec => [](KeysInv /\ IdpInv)
<1>1. ProviderInit => KeysInv /\ IdpInv
  BY IdpKeyNameAssumption, IdpInitInv
     DEF ProviderInit, KeysInv, KeyStoreTypeOK, IdpKeyHeld
<1> QED
  BY <1>1, IdpNextInv, PTL DEF IdpSpec, idpState

-----------------------------------------------------------------------------
(* Theorems                                                                  *)

\* The provider's tokens, codes and exchanges keep their types.
THEOREM ProviderTypeCorrect == IdpSpec => []IdpTypeOK
<1>1. IdpInv => IdpTypeOK
  BY DEF IdpInv
<1> QED
  BY <1>1, IdpInvariant, PTL

\* A code yields one token if its first exchange matched, and none otherwise.
THEOREM FirstExchange == IdpSpec => []FirstExchangeDecides
<1>1. IdpInv => FirstExchangeDecides
  <2> SUFFICES ASSUME IdpInv, NEW c \in DOMAIN codes
               PROVE  Cardinality(MintedFrom(c))
                        = IF first[c] = "match" THEN 1 ELSE 0
    BY DEF FirstExchangeDecides
  <2>1. CASE first[c] = "match"
    <3>1. PICK j \in DOMAIN tokens : MintedFrom(c) = {j}
      BY <2>1 DEF IdpInv, CodesSettled
    <3> QED
      BY <2>1, <3>1, FS_Singleton
  <2>2. CASE first[c] # "match"
    <3>1. MintedFrom(c) = {}
      BY <2>2 DEF IdpInv, CodesSettled
    <3> QED
      BY <2>2, <3>1, FS_EmptySet
  <2> QED
    BY <2>1, <2>2
<1> QED
  BY <1>1, IdpInvariant, PTL

\* Tokens of a code carry what was authorized with it.
THEOREM Minted == IdpSpec => []MintedAsAuthorized
<1>1. IdpInv => MintedAsAuthorized
  BY DEF IdpInv
<1> QED
  BY <1>1, IdpInvariant, PTL

\* Once refused by decode(), a token that has started is refused for good.
THEOREM AcceptanceShrinks == IdpSpec => AcceptanceOnlyShrinks
<1> DEFINE Shrinks ==
             \A j \in DOMAIN tokens, d \in Audiences :
               ~Premature(tokens[j], now) /\ Decodes(tokens[j], d, now)'
                 => Decodes(tokens[j], d, now)
<1>1. KeysInv /\ IdpInv /\ [IdpNext]_idpState => [Shrinks]_idpState
  <2> SUFFICES ASSUME KeysInv, IdpInv, IdpNext, NEW j \in DOMAIN tokens,
                      NEW d \in Audiences, ~Premature(tokens[j], now),
                      Decodes(tokens[j], d, now)'
               PROVE  Decodes(tokens[j], d, now)
    OBVIOUS
  <2>1. /\ tokens[j] \in Token /\ now \in Nat /\ private[IdpKeyName] \in Nat
        /\ tokens[j].key.gen <= private[IdpKeyName]
    BY DEF IdpInv, IdpTypeOK, TokensSigned, KeysInv, KeyStoreTypeOK, IdpKeyHeld
  <2>2. /\ tokens[j].exp \in Int /\ tokens[j].key.gen \in Nat
        /\ tokens[j].iat <= now /\ tokens[j].nbf <= now
    BY <2>1 DEF Token, Key, Premature
  <2>3. CASE IdpStep /\ UNCHANGED keyVars
    <3>1. tokens'[j] = tokens[j]
      <4>1. tokens' = tokens \/ \E t : tokens' = Append(tokens, t)
        BY <2>3 DEF IdpStep, Issue, Sign, BeginAuthorizationCode, ExchangeCode,
                    RejectVerifier, RejectCode
      <4> QED
        BY <4>1 DEF IdpInv, IdpTypeOK
    <3> QED
      BY <2>3, <3>1 DEF Decodes, KeyOf, keyVars
  <2>4. CASE Tick /\ UNCHANGED <<private, idpVars>>
    BY <2>1, <2>2, <2>4 DEF Tick, Decodes, KeyOf, idpVars
  <2>5. CASE Rotate(IdpKeyName) /\ UNCHANGED <<now, idpVars>>
    <3>1. private'[IdpKeyName] = private[IdpKeyName] + 1
      BY <2>5, RotateIdpKey
    <3>2. KeyOf(IdpKeyName)'.gen = private'[IdpKeyName]
      BY DEF KeyOf
    <3>3. tokens'[j].key = KeyOf(IdpKeyName)' /\ tokens' = tokens
      BY <2>5 DEF Decodes, idpVars
    <3> QED
      BY <2>1, <2>2, <3>1, <3>2, <3>3
  <2> QED
    BY <2>3, <2>4, <2>5 DEF IdpNext
<1>2. IdpSpec => [][IdpNext]_idpState
  BY PTL DEF IdpSpec, idpState
<1> QED
  BY <1>1, <1>2, IdpInvariant, PTL DEF AcceptanceOnlyShrinks, idpState

-----------------------------------------------------------------------------
(***************************************************************************)
(* Proofs about TrustAgent.                                                *)
(***************************************************************************)

GatewayTypeOK ==
  /\ seen \in [Gateways -> SUBSET Jtis]
  /\ revokedGrants \in [Gateways -> SUBSET DOMAIN grants]
  /\ audit \in [Gateways -> Log(Agents)]
  /\ permits \in [Gateways -> [1..MaxTokens -> 0..2]]

\* Behind a gateway that enforces, the jti of a permitted token was used up, by
\* that token alone.
UsedUp(g, j) ==
  IsString(tokens[j].jti) =>
    /\ permits[g][j] <= 1
    /\ permits[g][j] > 0 =>
         /\ tokens[j].jti \in seen[g]
         /\ \A i \in DOMAIN tokens :
              tokens[i].jti = tokens[j].jti /\ i # j => permits[g][i] = 0

PermitsSeen ==
  \A g \in Enforcing :
    /\ 0 \notin seen[g]
    /\ \A j \in 1..MaxTokens : j \notin DOMAIN tokens => permits[g][j] = 0
    /\ \A j \in DOMAIN tokens : UsedUp(g, j)

\* Grants are signed with the time of day.
GrantsIssued == \A j \in DOMAIN grants : grants[j].iat <= now

SharedInv == /\ KeysInv
             /\ RegistryInv
             /\ IdpInv
             /\ DelegationTypeOK
             /\ GrantsIssued

Inv == SharedInv /\ GatewayTypeOK /\ PermitsSeen

-----------------------------------------------------------------------------
(* authorize()                                                               *)

LEMMA RequestFacts ==
  ASSUME NEW r \in Requests
  PROVE  r.agent \in Agents /\ r.token \in 0..Len(tokens)
BY DEF Requests

\* Recording an event keeps a log a log, and no longer than the window.
LEMMA PushType ==
  ASSUME NEW S, NEW log \in Seq(Event(S)), Len(log) <= Window,
         NEW e \in Event(S)
  PROVE  Push(log, e) \in Seq(Event(S)) /\ Len(Push(log, e)) <= Window
<1>1. CASE Len(log) < Window
  BY <1>1, WindowAssumption DEF Push
<1>2. CASE ~(Len(log) < Window)
  <2>1. Len(log) = Window /\ log # <<>>
    BY <1>2, WindowAssumption
  <2>2. Tail(log) \in Seq(Event(S)) /\ Len(Tail(log)) = Window - 1
    BY <2>1, WindowAssumption
  <2>3. Push(log, e) = Append(Tail(log), e)
    BY <1>2 DEF Push
  <2> QED
    BY <2>2, <2>3, WindowAssumption
<1> QED
  BY <1>1, <1>2

\* The event that was recorded last.
LEMMA LastPushed ==
  ASSUME NEW S, NEW log \in Seq(Event(S)), Len(log) <= Window, NEW e \in Event(S)
  PROVE  LET longer == Push(log, e) IN Len(longer) > 0 /\ longer[Len(longer)] = e
<1>1. CASE Len(log) < Window
  BY <1>1 DEF Push
<1>2. CASE ~(Len(log) < Window)
  <2>1. Len(log) = Window /\ log # <<>>
    BY <1>2, WindowAssumption
  <2>2. Tail(log) \in Seq(Event(S))
    BY <2>1
  <2> HIDE DEF Event
  <2>3. Push(log, e) = Append(Tail(log), e)
    BY <1>2 DEF Push
  <2> QED
    BY <2>2, <2>3
<1> QED
  BY <1>1, <1>2

LastWithheld(log) == log[Len(log)].withheld

\* The decision's record keeps the types, and counts at most this permission.
LEMMA AnswerFacts ==
  ASSUME SharedInv, GatewayTypeOK, NEW g \in Gateways, NEW r \in Requests,
         NEW outcome, Answer(g, r, outcome)
  PROVE  /\ audit' \in [Gateways -> Log(Agents)]
         /\ permits' \in [Gateways -> [1..MaxTokens -> 0..2]]
         /\ \A h \in Gateways, j \in 1..MaxTokens :
              \/ permits'[h][j] = permits[h][j]
              \/ /\ h = g /\ j = r.token /\ outcome \in AutonomouslyPermitted
                 /\ permits'[h][j] = permits[h][j] + 1
<1> DEFINE e == [agent |-> r.agent, withheld |-> outcome \in Withheld]
<1>1. audit' = [audit EXCEPT ![g] = Push(audit[g], e)]
  BY DEF Answer
<1>2. audit[g] \in Seq(Event(Agents)) /\ Len(audit[g]) <= Window
  BY DEF GatewayTypeOK, Log
<1>3. e \in Event(Agents)
  BY RequestFacts DEF Event
<1> HIDE DEF e
<1>4. Push(audit[g], e) \in Log(Agents)
  BY <1>2, <1>3, PushType DEF Log
<1>5. audit' \in [Gateways -> Log(Agents)]
  BY <1>1, <1>4 DEF GatewayTypeOK
<1>6. CASE permits' = permits
  BY <1>5, <1>6 DEF GatewayTypeOK
<1>7. CASE /\ permits' = [permits EXCEPT ![g][r.token] = @ + 1]
           /\ outcome \in AutonomouslyPermitted
           /\ r.token \in DOMAIN tokens
           /\ permits[g][r.token] < 2
  <2>1. r.token \in 1..MaxTokens
    BY <1>7, IdpBoundAssumption DEF SharedInv, IdpInv, IdpTypeOK
  <2>2. permits[g] \in [1..MaxTokens -> 0..2]
    BY DEF GatewayTypeOK
  <2> DEFINE counted == [permits[g] EXCEPT ![r.token] = @ + 1]
  <2>3. permits' = [permits EXCEPT ![g] = counted]
    BY <1>7
  <2>4. permits[g][r.token] \in 0..2 /\ permits[g][r.token] + 1 \in 0..2
    <3>1. permits[g][r.token] \in 0..2
      BY <2>1, <2>2
    <3>2. permits[g][r.token] < 2
      BY <1>7
    <3> QED
      BY <3>1, <3>2
  <2>5. /\ counted \in [1..MaxTokens -> 0..2]
        /\ counted[r.token] = permits[g][r.token] + 1
        /\ \A j \in 1..MaxTokens \ {r.token} : counted[j] = permits[g][j]
    BY <2>1, <2>2, <2>4
  <2> HIDE DEF counted
  <2>6. /\ permits' \in [Gateways -> [1..MaxTokens -> 0..2]]
        /\ permits'[g] = counted
        /\ \A h \in Gateways \ {g} : permits'[h] = permits[h]
    BY <2>3, <2>5 DEF GatewayTypeOK
  <2>7. ASSUME NEW h \in Gateways, NEW j \in 1..MaxTokens
        PROVE  \/ permits'[h][j] = permits[h][j]
               \/ /\ h = g /\ j = r.token /\ outcome \in AutonomouslyPermitted
                  /\ permits'[h][j] = permits[h][j] + 1
    <3>1. CASE h = g /\ j = r.token
      BY <1>7, <2>5, <2>6, <3>1
    <3>2. CASE h = g /\ j # r.token
      BY <2>5, <2>6, <3>2
    <3>3. CASE h # g
      BY <2>6, <3>3
    <3> QED
      BY <3>1, <3>2, <3>3
  <2> QED
    BY <1>5, <2>6, <2>7
<1> QED
  BY <1>6, <1>7 DEF Answer

\* The clock readings of a call do not go back.
LEMMA ReadingFacts ==
  ASSUME NEW from \in Nat, NEW t \in Readings(from)
  PROVE  t \in Nat /\ t >= from
BY SlipAssumption, KeyBoundAssumption DEF Readings

LEMMA ConsumeFacts ==
  ASSUME SharedInv, GatewayTypeOK, NEW g \in Gateways, NEW r \in Requests,
         r.token \in DOMAIN tokens, Consume(g, r)
  PROVE  /\ seen' \in [Gateways -> SUBSET Jtis]
         /\ IsString(tokens[r.token].jti) => tokens[r.token].jti \in seen'[g]
         /\ \A h \in Gateways : seen[h] \subseteq seen'[h]
         /\ \A h \in Gateways : 0 \notin seen[h] => 0 \notin seen'[h]
<1>1. tokens[r.token].jti \in Jtis
  <2>1. tokens[r.token] \in Token
    BY DEF SharedInv, IdpInv, IdpTypeOK
  <2> QED
    BY <2>1 DEF Token
<1> QED
  BY <1>1 DEF Consume, GatewayTypeOK, IsString

\* The jti of the j-th token is used up in this step, if it can be.
UsesUp(h, j) ==
  /\ j \in DOMAIN tokens /\ tokens[j].jti \notin seen[h]
  /\ IsString(tokens[j].jti) => tokens[j].jti \in seen'[h]

\* What every way through authorize() has in common: it leaves what gateways
\* share alone, moves the clock forward, uses a jti up or not, and permits
\* only what it uses up for the first time, unless the mode enforces nothing.
LEMMA AuthorizeFacts ==
  ASSUME SharedInv, GatewayTypeOK, NEW g \in Gateways, NEW r \in Requests,
         Authorize(g, r)
  PROVE  /\ UNCHANGED <<sharedVars, revokedGrants>>
         /\ now' \in Nat /\ now' >= now
         /\ GatewayTypeOK'
         /\ \A h \in Gateways : seen[h] \subseteq seen'[h]
         /\ \A h \in Gateways : 0 \notin seen[h] => 0 \notin seen'[h]
         /\ \A h \in Gateways, j \in 1..MaxTokens :
              \/ permits'[h][j] = permits[h][j]
              \/ /\ permits'[h][j] = permits[h][j] + 1
                 /\ j = r.token
                 /\ h \in Enforcing => UsesUp(h, j)
<1> DEFINE Common == /\ UNCHANGED <<sharedVars, revokedGrants>>
                     /\ now' \in Nat /\ now' >= now
                     /\ GatewayTypeOK'
                     /\ \A h \in Gateways : seen[h] \subseteq seen'[h]
                     /\ \A h \in Gateways : 0 \notin seen[h] => 0 \notin seen'[h]
                     /\ \A h \in Gateways, j \in 1..MaxTokens :
                          \/ permits'[h][j] = permits[h][j]
                          \/ /\ permits'[h][j] = permits[h][j] + 1
                             /\ j = r.token
                             /\ h \in Enforcing => UsesUp(h, j)
<1> SUFFICES Common
  OBVIOUS
<1>1. now \in Nat
  BY DEF SharedInv, KeysInv, KeyStoreTypeOK
\* Nothing is used up: the decision denies, or the mode enforces nothing.
<1>2. ASSUME NEW outcome, Answer(g, r, outcome), seen' = seen,
             now' \in Nat, now' >= now,
             outcome \notin AutonomouslyPermitted \/ g \notin Enforcing
      PROVE  Common
  <2>1. UNCHANGED <<sharedVars, revokedGrants>>
    BY <1>2 DEF Answer
  <2>2. tokens' = tokens /\ grants' = grants
    BY <2>1 DEF sharedVars, idpVars
  <2>3. GatewayTypeOK'
    BY <1>2, <2>1, <2>2, AnswerFacts DEF GatewayTypeOK
  <2>4. \A h \in Gateways, j \in 1..MaxTokens :
          \/ permits'[h][j] = permits[h][j]
          \/ permits'[h][j] = permits[h][j] + 1 /\ j = r.token /\ h \notin Enforcing
    BY <1>2, AnswerFacts
  <2> QED
    BY <1>2, <2>1, <2>3, <2>4
\* The token is used up, and the decision is recorded.
<1>3. ASSUME NEW outcome, NEW t \in Readings(now), Admitted(g, r, t),
             Answer(g, r, outcome), now' \in Nat, now' >= now
      PROVE  Common
  <2>1. UNCHANGED <<sharedVars, revokedGrants>>
    BY <1>3 DEF Answer
  <2>2. tokens' = tokens /\ grants' = grants
    BY <2>1 DEF sharedVars, idpVars
  <2>3. /\ r.token \in DOMAIN tokens /\ tokens[r.token].jti \notin seen[g]
        /\ Consume(g, r)
    BY <1>3 DEF Admitted, Entered, TokenAccepted
  <2>4. /\ seen' \in [Gateways -> SUBSET Jtis]
        /\ IsString(tokens[r.token].jti) => tokens[r.token].jti \in seen'[g]
        /\ \A h \in Gateways : seen[h] \subseteq seen'[h]
        /\ \A h \in Gateways : 0 \notin seen[h] => 0 \notin seen'[h]
    BY <2>3, ConsumeFacts
  <2>5. GatewayTypeOK'
    BY <1>3, <2>1, <2>2, <2>4, AnswerFacts DEF GatewayTypeOK
  <2>6. \A h \in Gateways, j \in 1..MaxTokens :
          \/ permits'[h][j] = permits[h][j]
          \/ permits'[h][j] = permits[h][j] + 1 /\ h = g /\ j = r.token
    BY <1>3, AnswerFacts
  <2>7. UsesUp(g, r.token)
    BY <2>3, <2>4 DEF UsesUp
  <2> QED
    BY <1>3, <2>1, <2>4, <2>5, <2>6, <2>7
\* An exception: nothing is recorded.
<1>4. ASSUME Raise, now' \in Nat, now' >= now,
             \/ seen' = seen
             \/ r.token \in DOMAIN tokens /\ Consume(g, r)
      PROVE  Common
  <2>1. UNCHANGED <<sharedVars, revokedGrants>> /\ audit' = audit
        /\ permits' = permits
    BY <1>4 DEF Raise
  <2>2. tokens' = tokens /\ grants' = grants
    BY <2>1 DEF sharedVars, idpVars
  <2>3. /\ seen' \in [Gateways -> SUBSET Jtis]
        /\ \A h \in Gateways : seen[h] \subseteq seen'[h]
        /\ \A h \in Gateways : 0 \notin seen[h] => 0 \notin seen'[h]
    BY <1>4, ConsumeFacts DEF GatewayTypeOK
  <2> QED
    BY <1>4, <2>1, <2>2, <2>3 DEF GatewayTypeOK
<1>5. "DENY" \notin AutonomouslyPermitted
  BY DEF AutonomouslyPermitted
<1>6. Mode[g] \in {"B1", "B2"} => g \notin Enforcing
  BY DEF Enforcing, TrustAgentModes, ScoringModes
<1> HIDE DEF Common
<1>7. CASE AllowUnchecked(g, r) \/ DenyToken(g, r) \/ AllowOnToken(g, r)
  BY <1>1, <1>2, <1>5, <1>6, <1>7 DEF AllowUnchecked, DenyToken, AllowOnToken
<1>8. ASSUME NEW t \in Readings(now),
             \/ FailOnCard(g, r, t) \/ DenyOnChecks(g, r, t)
             \/ DenyReplay(g, r, t) \/ AllowStatic(g, r, t)
             \/ FailOnScore(g, r, t) \/ DecideOnScore(g, r, t)
      PROVE  Common
  <2>1. t \in Nat /\ t >= now
    BY <1>1, ReadingFacts
  <2>2. CASE FailOnCard(g, r, t)
    BY <1>4, <2>1, <2>2 DEF FailOnCard
  <2>3. CASE DenyOnChecks(g, r, t) \/ DenyReplay(g, r, t)
    BY <1>2, <1>5, <2>1, <2>3 DEF DenyOnChecks, DenyReplay
  <2>4. CASE AllowStatic(g, r, t)
    BY <1>3, <2>1, <2>4 DEF AllowStatic
  <2>5. CASE FailOnScore(g, r, t)
    <3>1. now' \in Nat /\ now' >= now
      BY <1>1, <2>1, <2>5, ReadingFacts DEF FailOnScore
    <3>2. r.token \in DOMAIN tokens /\ Consume(g, r) /\ Raise
      BY <2>5 DEF FailOnScore, Admitted, Entered, TokenAccepted
    <3> QED
      BY <1>4, <3>1, <3>2
  <2>6. CASE DecideOnScore(g, r, t)
    <3>1. PICK later \in Readings(t) :
            Answer(g, r, Score(g, r, later)) /\ now' = later
      BY <2>6 DEF DecideOnScore
    <3>2. now' \in Nat /\ now' >= now
      BY <1>1, <2>1, <3>1, ReadingFacts
    <3> QED
      BY <1>3, <2>6, <3>1, <3>2 DEF DecideOnScore
  <2> QED
    BY <1>8, <2>2, <2>3, <2>4, <2>5, <2>6
<1> QED
  BY <1>7, <1>8 DEF Authorize, Answers, Raises

-----------------------------------------------------------------------------
(* The invariant                                                             *)

LEMMA GrantsStay ==
  ASSUME SharedInv, grants' = grants, now' \in Nat, now' >= now
  PROVE  DelegationTypeOK' /\ GrantsIssued'
<1>1. \A j \in DOMAIN grants : grants[j] \in Grant
  BY DEF SharedInv, DelegationTypeOK
<1>2. now \in Nat /\ \A j \in DOMAIN grants : grants[j].iat \in Nat
  BY <1>1 DEF Grant, SharedInv, KeysInv, KeyStoreTypeOK
<1> QED
  BY <1>2 DEF SharedInv, DelegationTypeOK, GrantsIssued

\* The invariants of the shared components read nothing else.
LEMMA SharedStutter ==
  ASSUME SharedInv, UNCHANGED sharedVars, now' \in Nat, now' >= now
  PROVE  SharedInv'
<1>1. /\ private' = private /\ UNCHANGED registryVars /\ UNCHANGED idpVars
      /\ grants' = grants
  BY DEF sharedVars
<1>2. KeysInv'
  BY <1>1 DEF SharedInv, KeysInv, KeyStoreTypeOK, IdpKeyHeld
<1>3. RegistryInv'
  BY <1>1, <1>2 DEF SharedInv, KeysInv, RegistryInv, RegistryTypeOK,
                    WithdrawnRecorded, TimelyKeys, registryVars
<1>4. IdpInv'
  <2>1. private[IdpKeyName] \in Nat
    BY DEF SharedInv, KeysInv, KeyStoreTypeOK, IdpKeyHeld
  <2> QED
    BY <1>1, <1>2, <2>1, KeysMoveInv DEF SharedInv
<1> QED
  BY <1>1, <1>2, <1>3, <1>4, GrantsStay DEF SharedInv

\* The gateways' types survive when tokens and grants are only added.
LEMMA GatewayStutter ==
  ASSUME Inv, SharedInv', UNCHANGED gatewayVars, DOMAIN tokens \subseteq DOMAIN tokens',
         \A j \in DOMAIN tokens : tokens'[j] = tokens[j],
         DOMAIN grants \subseteq DOMAIN grants'
  PROVE  GatewayTypeOK' /\ PermitsSeen'
<1>1. /\ seen' = seen /\ revokedGrants' = revokedGrants /\ audit' = audit
      /\ permits' = permits
  BY DEF gatewayVars
<1>2. GatewayTypeOK'
  <2>1. revokedGrants' \in [Gateways -> SUBSET DOMAIN grants']
    BY <1>1 DEF Inv, GatewayTypeOK
  <2> QED
    BY <1>1, <2>1 DEF Inv, GatewayTypeOK
<1>3. DOMAIN tokens' \subseteq 1..MaxTokens
  <2>1. /\ DOMAIN tokens' = 1..Len(tokens') /\ Len(tokens') \in Nat
        /\ Len(tokens') <= MaxTokens /\ MaxTokens \in Nat
    BY IdpBoundAssumption DEF SharedInv, IdpInv, IdpTypeOK
  <2> QED
    BY <2>1
<1>4. ASSUME NEW g \in Enforcing, NEW j \in DOMAIN tokens' PROVE UsedUp(g, j)'
  <2>1. /\ \A i \in 1..MaxTokens : i \notin DOMAIN tokens => permits[g][i] = 0
        /\ \A i \in DOMAIN tokens : UsedUp(g, i)
    BY DEF Inv, PermitsSeen
  <2>2. CASE j \in DOMAIN tokens
    BY <1>1, <1>3, <2>1, <2>2 DEF UsedUp
  <2>3. CASE j \notin DOMAIN tokens
    <3>1. permits'[g][j] = 0
      BY <1>1, <1>3, <1>4, <2>1, <2>3
    <3> QED
      BY <3>1 DEF UsedUp
  <2> QED
    BY <2>2, <2>3
<1>5. PermitsSeen'
  <2> SUFFICES ASSUME NEW g \in Enforcing
               PROVE  /\ 0 \notin seen[g]
                      /\ \A j \in 1..MaxTokens :
                           j \notin DOMAIN tokens' => permits[g][j] = 0
    BY <1>1, <1>4 DEF PermitsSeen, Enforcing
  <2> QED
    BY DEF Inv, PermitsSeen
<1> QED
  BY <1>2, <1>5

LEMMA LifecycleInv ==
  ASSUME SharedInv, LifecycleStep, UNCHANGED <<idpVars, grants>>
  PROVE  SharedInv'
<1>1. RegistryInv'
  BY NextInv DEF SharedInv, RegistryNext
<1>2. /\ now' = now
      /\ IdpKeyName \in DOMAIN private'
      /\ private'[IdpKeyName] = private[IdpKeyName]
  BY AgentsAssumption DEF LifecycleStep, keyVars, Generate, Rotate, Put,
                          SharedInv, KeysInv, IdpKeyHeld
<1>3. KeysInv'
  BY <1>1, <1>2 DEF RegistryInv, KeysInv, IdpKeyHeld
<1>4. IdpInv'
  <2>1. now \in Nat /\ private[IdpKeyName] \in Nat
    BY DEF SharedInv, KeysInv, KeyStoreTypeOK, IdpKeyHeld
  <2> QED
    BY <1>2, <1>3, <2>1, KeysMoveInv DEF SharedInv
<1>5. DelegationTypeOK' /\ GrantsIssued'
  BY <1>2, GrantsStay DEF SharedInv, KeysInv, KeyStoreTypeOK
<1> QED
  BY <1>1, <1>3, <1>4, <1>5 DEF SharedInv

LEMMA RotateIdpInv ==
  ASSUME SharedInv, Rotate(IdpKeyName),
         UNCHANGED <<now, registryVars, idpVars, grants>>
  PROVE  SharedInv'
<1>1. KeysInv' /\ private'[IdpKeyName] = private[IdpKeyName] + 1
  BY RotateIdpKey DEF SharedInv
<1>2. now \in Nat /\ private[IdpKeyName] \in Nat /\ IdpKeyName \in DOMAIN private
  BY DEF SharedInv, KeysInv, KeyStoreTypeOK, IdpKeyHeld
<1>3. RegistryInv'
  <2>1. private' = Put(private, IdpKeyName, private[IdpKeyName] + 1)
    BY <1>2 DEF Rotate
  <2> QED
    BY <1>2, <2>1, NewKeyInv, IdpKeyNameAssumption DEF SharedInv
<1>4. IdpInv'
  BY <1>1, <1>2, KeysMoveInv DEF SharedInv
<1> QED
  BY <1>1, <1>2, <1>3, <1>4, GrantsStay DEF SharedInv

LEMMA IdpCallInv ==
  ASSUME SharedInv, IdpStep, UNCHANGED <<keyVars, registryVars, grants>>
  PROVE  /\ SharedInv' /\ DOMAIN tokens \subseteq DOMAIN tokens'
         /\ \A j \in DOMAIN tokens : tokens'[j] = tokens[j]
<1>1. UNCHANGED keyVars /\ UNCHANGED registryVars /\ grants' = grants
  OBVIOUS
<1>2. KeysInv'
  BY <1>1 DEF SharedInv, KeysInv, KeyStoreTypeOK, IdpKeyHeld, keyVars
<1>3. RegistryInv'
  BY <1>1 DEF SharedInv, RegistryInv, KeyStoreTypeOK, RegistryTypeOK,
              WithdrawnRecorded, TimelyKeys, registryVars, keyVars
<1>4. IdpInv'
  BY <1>1, IdpStepInv DEF SharedInv
<1>5. /\ DOMAIN tokens \subseteq DOMAIN tokens'
      /\ \A j \in DOMAIN tokens : tokens'[j] = tokens[j]
  <2>1. tokens' = tokens \/ \E t : tokens' = Append(tokens, t)
    BY DEF IdpStep, Issue, Sign, BeginAuthorizationCode, ExchangeCode,
           RejectVerifier, RejectCode
  <2>2. tokens \in Seq(Token)
    BY DEF SharedInv, IdpInv, IdpTypeOK
  <2> QED
    BY <2>1, <2>2
<1> QED
  BY <1>1, <1>2, <1>3, <1>4, <1>5 DEF SharedInv, DelegationTypeOK, GrantsIssued,
                                      keyVars

LEMMA GrantInv ==
  ASSUME SharedInv, NEW i \in Agents, NEW s \in Agents,
         NEW ttl \in GrantLifetimes, IssueDelegation(i, s, ttl),
         UNCHANGED <<keyVars, registryVars, idpVars>>
  PROVE  SharedInv' /\ DOMAIN grants \subseteq DOMAIN grants'
<1> DEFINE e == [iss |-> i, sub |-> s, iat |-> now, exp |-> now + ttl,
                 key |-> KeyOf(i)]
<1>1. grants' = Append(grants, e) /\ i \in DOMAIN private
  BY DEF IssueDelegation
<1>2. KeyOf(i) \in Key /\ now \in Nat /\ ttl \in Int
  BY <1>1, KeyOfFacts, GrantLifetimesAssumption
     DEF SharedInv, KeysInv, KeyStoreTypeOK
<1>3. e \in Grant
  BY <1>2 DEF Grant
<1> HIDE DEF e
<1>4. DelegationTypeOK' /\ DOMAIN grants \subseteq DOMAIN grants'
  BY <1>1, <1>3, AppendFacts DEF SharedInv, DelegationTypeOK
<1>5. UNCHANGED keyVars /\ UNCHANGED registryVars /\ UNCHANGED idpVars
  OBVIOUS
<1>9. GrantsIssued'
  <2>1. /\ \A j \in DOMAIN grants : grants'[j] = grants[j]
        /\ DOMAIN grants' = DOMAIN grants \cup {Len(grants) + 1}
        /\ grants'[Len(grants) + 1] = e
    BY <1>1, <1>3, AppendFacts DEF SharedInv, DelegationTypeOK
  <2>2. e.iat <= now /\ now' = now
    BY <1>2, <1>5 DEF e, keyVars
  <2> QED
    BY <2>1, <2>2 DEF GrantsIssued, SharedInv
<1>6. KeysInv'
  BY <1>5 DEF SharedInv, KeysInv, KeyStoreTypeOK, IdpKeyHeld, keyVars
<1>7. RegistryInv'
  BY <1>5 DEF SharedInv, RegistryInv, KeyStoreTypeOK, RegistryTypeOK,
              WithdrawnRecorded, TimelyKeys, registryVars, keyVars
<1>8. IdpInv'
  <2>1. private' = private /\ now' = now /\ private[IdpKeyName] \in Nat
    BY <1>5 DEF keyVars, SharedInv, KeysInv, KeyStoreTypeOK, IdpKeyHeld
  <2> QED
    BY <1>2, <1>5, <1>6, <2>1, KeysMoveInv DEF SharedInv
<1> QED
  BY <1>4, <1>6, <1>7, <1>8, <1>9 DEF SharedInv

LEMMA InvInit == Init => Inv
<1> SUFFICES ASSUME Init PROVE Inv
  OBVIOUS
<1>1. RegistryInv /\ IdpInv
  BY InitInv, IdpInitInv DEF Init
<1>2. KeysInv
  BY <1>1, IdpKeyNameAssumption DEF Init, RegistryInit, RegistryInv, KeysInv,
                                    IdpKeyHeld
<1>3. DelegationTypeOK /\ GrantsIssued
  BY DEF Init, DelegationTypeOK, GrantsIssued
<1>4. <<>> \in Log(Agents)
  BY WindowAssumption DEF Log
<1>5. GatewayTypeOK
  BY <1>4 DEF Init, GatewayTypeOK
<1>6. PermitsSeen
  BY DEF Init, IdpInit, PermitsSeen, Enforcing
<1> QED
  BY <1>1, <1>2, <1>3, <1>5, <1>6 DEF Inv, SharedInv

LEMMA AuthorizeInv ==
  ASSUME Inv, NEW g \in Gateways, NEW r \in Requests, Authorize(g, r)
  PROVE  Inv'
<1>1. SharedInv /\ GatewayTypeOK
  BY DEF Inv
<1>2. /\ UNCHANGED <<sharedVars, revokedGrants>>
      /\ now' \in Nat /\ now' >= now
      /\ GatewayTypeOK'
      /\ \A h \in Gateways : seen[h] \subseteq seen'[h]
      /\ \A h \in Gateways : 0 \notin seen[h] => 0 \notin seen'[h]
      /\ \A h \in Gateways, j \in 1..MaxTokens :
           \/ permits'[h][j] = permits[h][j]
           \/ /\ permits'[h][j] = permits[h][j] + 1
              /\ j = r.token
              /\ h \in Enforcing => UsesUp(h, j)
  BY <1>1, AuthorizeFacts
<1>3. SharedInv'
  BY <1>1, <1>2, SharedStutter
<1>4. tokens' = tokens /\ DOMAIN tokens \subseteq 1..MaxTokens
  <2>1. /\ DOMAIN tokens = 1..Len(tokens) /\ Len(tokens) \in Nat
        /\ Len(tokens) <= MaxTokens /\ MaxTokens \in Nat
    BY <1>1, IdpBoundAssumption DEF SharedInv, IdpInv, IdpTypeOK
  <2> QED
    BY <1>2, <2>1 DEF sharedVars, idpVars
<1>5. ASSUME NEW h \in Enforcing, NEW j \in DOMAIN tokens PROVE UsedUp(h, j)'
  <2> SUFFICES ASSUME IsString(tokens[j].jti)
               PROVE  /\ permits'[h][j] <= 1
                      /\ permits'[h][j] > 0 =>
                           /\ tokens[j].jti \in seen'[h]
                           /\ \A i \in DOMAIN tokens :
                                tokens[i].jti = tokens[j].jti /\ i # j
                                  => permits'[h][i] = 0
    BY <1>4 DEF UsedUp
  <2>1. h \in Gateways /\ \A i \in DOMAIN tokens : permits[h][i] \in 0..2
    BY <1>4 DEF Enforcing, Inv, GatewayTypeOK
  <2>2. \A i \in DOMAIN tokens : UsedUp(h, i)
    BY DEF Inv, PermitsSeen
  <2>3. CASE permits'[h][j] = permits[h][j]
    <3>1. permits[h][j] <= 1 /\ (permits[h][j] > 0 => tokens[j].jti \in seen[h])
      BY <2>2 DEF UsedUp
    <3>2. ASSUME permits[h][j] > 0, NEW i \in DOMAIN tokens,
                 tokens[i].jti = tokens[j].jti, i # j
          PROVE  permits'[h][i] = 0
      <4>1. permits[h][i] = 0 /\ ~UsesUp(h, i)
        BY <2>2, <3>1, <3>2 DEF UsedUp, UsesUp
      <4> QED
        BY <1>2, <1>4, <2>1, <4>1
    <3> QED
      BY <1>2, <2>1, <2>3, <3>1, <3>2
  <2>4. CASE /\ permits'[h][j] = permits[h][j] + 1
             /\ j = r.token /\ UsesUp(h, j)
    <3>1. tokens[j].jti \notin seen[h] /\ tokens[j].jti \in seen'[h]
      BY <2>4 DEF UsesUp
    <3>2. ASSUME NEW i \in DOMAIN tokens, tokens[i].jti = tokens[j].jti
          PROVE  permits[h][i] = 0
      BY <2>1, <2>2, <3>1, <3>2 DEF UsedUp
    <3>3. ASSUME NEW i \in DOMAIN tokens, tokens[i].jti = tokens[j].jti, i # j
          PROVE  permits'[h][i] = 0
      BY <1>2, <1>4, <2>1, <2>4, <3>2, <3>3
    <3>4. permits'[h][j] = 1
      BY <2>4, <3>2
    <3> QED
      BY <3>1, <3>3, <3>4
  <2> QED
    BY <1>2, <1>4, <2>1, <2>3, <2>4
<1>6. ASSUME NEW h \in Enforcing
      PROVE  /\ 0 \notin seen'[h]
             /\ \A j \in 1..MaxTokens : j \notin DOMAIN tokens => permits'[h][j] = 0
  BY <1>2, <1>6 DEF Inv, PermitsSeen, Enforcing, UsesUp
<1>7. PermitsSeen'
  BY <1>4, <1>5, <1>6 DEF PermitsSeen, Enforcing
<1> QED
  BY <1>2, <1>3, <1>7 DEF Inv

LEMMA RevokeInv ==
  ASSUME Inv, NEW g \in Gateways, NEW jti \in DOMAIN grants,
         RevokeDelegation(g, jti)
  PROVE  Inv'
<1>1. /\ now' = now /\ UNCHANGED sharedVars
      /\ seen' = seen /\ audit' = audit /\ permits' = permits
      /\ revokedGrants' = [revokedGrants EXCEPT ![g] = @ \cup {jti}]
  BY DEF RevokeDelegation
<1>2. now \in Nat
  BY DEF Inv, SharedInv, KeysInv, KeyStoreTypeOK
<1>3. SharedInv'
  BY <1>1, <1>2, SharedStutter DEF Inv
<1>4. tokens' = tokens /\ grants' = grants
  BY <1>1 DEF sharedVars, idpVars
<1> QED
  BY <1>1, <1>3, <1>4 DEF Inv, GatewayTypeOK, PermitsSeen, UsedUp, Enforcing

LEMMA InvNext == Inv /\ [Next]_vars => Inv'
<1> SUFFICES ASSUME Inv, [Next]_vars PROVE Inv'
  OBVIOUS
<1>1. SharedInv /\ now \in Nat
  BY DEF Inv, SharedInv, KeysInv, KeyStoreTypeOK
<1>2. CASE \E g \in Gateways, r \in Requests : Authorize(g, r)
  BY <1>2, AuthorizeInv
<1>3. CASE \E g \in Gateways, j \in DOMAIN grants : RevokeDelegation(g, j)
  BY <1>3, RevokeInv
<1>4. CASE LifecycleStep /\ UNCHANGED <<idpVars, grants, gatewayVars>>
  <2>1. SharedInv'
    BY <1>1, <1>4, LifecycleInv
  <2> QED
    BY <1>4, <2>1, GatewayStutter DEF Inv, idpVars
<1>5. CASE /\ Rotate(IdpKeyName)
           /\ UNCHANGED <<now, registryVars, idpVars, grants, gatewayVars>>
  <2>1. SharedInv'
    BY <1>1, <1>5, RotateIdpInv
  <2> QED
    BY <1>5, <2>1, GatewayStutter DEF Inv, idpVars
<1>6. CASE IdpStep /\ UNCHANGED <<keyVars, registryVars, grants, gatewayVars>>
  <2>1. /\ SharedInv' /\ DOMAIN tokens \subseteq DOMAIN tokens'
        /\ \A j \in DOMAIN tokens : tokens'[j] = tokens[j]
    BY <1>1, <1>6, IdpCallInv
  <2> QED
    BY <1>6, <2>1, GatewayStutter DEF Inv
<1>7. ASSUME NEW i \in Agents, NEW s \in Agents, NEW ttl \in GrantLifetimes,
             IssueDelegation(i, s, ttl),
             UNCHANGED <<keyVars, registryVars, idpVars, gatewayVars>>
      PROVE  Inv'
  <2>1. SharedInv' /\ DOMAIN grants \subseteq DOMAIN grants'
    BY <1>1, <1>7, GrantInv
  <2> QED
    BY <1>7, <2>1, GatewayStutter DEF Inv, idpVars
<1>8. CASE Tick /\ UNCHANGED <<sharedVars, gatewayVars>>
  <2>1. now' \in Nat /\ now' >= now /\ UNCHANGED sharedVars
    BY <1>1, <1>8 DEF Tick
  <2>2. SharedInv'
    BY <1>1, <2>1, SharedStutter
  <2> QED
    BY <1>8, <2>2, GatewayStutter DEF Inv, sharedVars, idpVars
<1>9. CASE UNCHANGED vars
  <2>1. now' \in Nat /\ now' >= now /\ UNCHANGED sharedVars
    BY <1>1, <1>9 DEF vars
  <2>2. SharedInv'
    BY <1>1, <2>1, SharedStutter
  <2> QED
    BY <1>9, <2>2, GatewayStutter DEF Inv, vars, sharedVars, idpVars
<1> QED
  BY <1>2, <1>3, <1>4, <1>5, <1>6, <1>7, <1>8, <1>9 DEF Next, Environment

\* The inductive invariant holds in every reachable state.
THEOREM Invariant == Spec => []Inv
BY InvInit, InvNext, PTL DEF Spec

-----------------------------------------------------------------------------
(* Theorems                                                                  *)

\* The state of the gateways and of everything they share keeps its types.
THEOREM TypeCorrectness == Spec => []TypeOK
<1>1. Inv => TypeOK
  BY DEF Inv, SharedInv, KeysInv, RegistryInv, IdpInv, GatewayTypeOK, TypeOK
<1> QED
  BY <1>1, Invariant, PTL

\* A jti that is a string buys at most one autonomously permitted action at a
\* gateway.
THEOREM AtMostOnce == Spec => []AtMostOncePerGateway
<1>1. Inv => AtMostOncePerGateway
  <2> SUFFICES ASSUME Inv, NEW g \in Enforcing, NEW i \in DOMAIN tokens,
                      NEW j \in DOMAIN tokens, IsString(tokens[i].jti),
                      tokens[i].jti = tokens[j].jti
               PROVE  \/ permits[g][i] = 0 \/ permits[g][j] = 0
                      \/ i = j /\ permits[g][i] = 1
    BY DEF AtMostOncePerGateway
  <2>1. permits[g][i] \in 0..2
    <3>1. /\ DOMAIN tokens = 1..Len(tokens) /\ Len(tokens) \in Nat
          /\ Len(tokens) <= MaxTokens /\ MaxTokens \in Nat
      BY IdpBoundAssumption DEF Inv, SharedInv, IdpInv, IdpTypeOK
    <3>2. i \in 1..MaxTokens
      BY <3>1
    <3> QED
      BY <3>2 DEF Enforcing, Inv, GatewayTypeOK
  <2>2. UsedUp(g, i)
    BY DEF Inv, PermitsSeen
  <2> QED
    BY <2>1, <2>2 DEF UsedUp
<1> QED
  BY <1>1, Invariant, PTL

\* The first presentation that passes the checks settles what a jti buys.
THEOREM Settled == Spec => SettledAtFirstUse
<1> DEFINE Fixed ==
             \A g \in Enforcing, j \in DOMAIN tokens :
               tokens[j].jti \in seen[g] => permits'[g][j] = permits[g][j]
<1>1. Inv /\ [Next]_vars => [Fixed]_vars
  <2> SUFFICES ASSUME Inv, Next, NEW g \in Enforcing, NEW j \in DOMAIN tokens,
                      tokens[j].jti \in seen[g]
               PROVE  permits'[g][j] = permits[g][j]
    OBVIOUS
  <2>1. g \in Gateways /\ j \in 1..MaxTokens
    <3>1. /\ DOMAIN tokens = 1..Len(tokens) /\ Len(tokens) \in Nat
          /\ Len(tokens) <= MaxTokens /\ MaxTokens \in Nat
      BY IdpBoundAssumption DEF Inv, SharedInv, IdpInv, IdpTypeOK
    <3> QED
      BY <3>1 DEF Enforcing
  <2>2. ASSUME NEW h \in Gateways, NEW r \in Requests, Authorize(h, r)
        PROVE  permits'[g][j] = permits[g][j]
    <3>1. ~UsesUp(g, j)
      BY DEF UsesUp
    <3> QED
      BY <2>1, <2>2, <3>1, AuthorizeFacts DEF Inv
  <2> QED
    BY <2>2 DEF Next, Environment, RevokeDelegation, gatewayVars
<1> QED
  BY <1>1, Invariant, PTL DEF Spec, SettledAtFirstUse, vars

\* Withdrawn agents clear no gateway and are reached by nobody.
THEOREM WithdrawnOut == Spec => []WithdrawnIsOut
<1>1. Inv => WithdrawnIsOut
  <2> SUFFICES ASSUME Inv, NEW g \in Gateways, NEW r \in Requests,
                      Clears(g, r, now)
               PROVE  /\ r.agent \notin withdrawn
                      /\ r.channel = "a2a" => r.resource \notin withdrawn
    BY DEF WithdrawnIsOut
  <2>1. \A a \in withdrawn :
          Status(a, now) \in {"revoked", "suspended", "retired", "expired"}
    BY WithdrawalsAssumption
       DEF Inv, SharedInv, RegistryInv, WithdrawnRecorded, Status
  <2> QED
    BY <2>1 DEF Clears, InGoodStanding, ResourceAccepted
<1> QED
  BY <1>1, Invariant, PTL

\* Whatever capability clears, a registered agent holds it.
THEOREM CapabilityHeld == Spec => []CapabilityIsHeld
<1>1. Inv => CapabilityIsHeld
  <2> SUFFICES ASSUME Inv, NEW g \in Gateways, NEW r \in Requests,
                      Clears(g, r, now)
               PROVE  \E a \in DOMAIN records :
                        /\ r.capability \in records[a].capabilities
                        /\ \/ a = r.agent
                           \/ \E j \in DOMAIN grants :
                                /\ grants[j].iss = a
                                /\ grants[j].sub = r.agent
                                /\ grants[j].key = publicKeys[a]
                                /\ j \notin revokedGrants[g]
    BY DEF CapabilityIsHeld
  <2>1. CASE r.grant # {}
    <3>1. PICK grant \in r.grant : GrantAccepted(g, grant, r, now)
      BY <2>1 DEF Clears, CapabilityAuthorized
    <3>2. /\ grant.issuer \in DOMAIN records
          /\ r.capability \in records[grant.issuer].capabilities
      BY <3>1 DEF GrantAccepted, DelegationMonotonic
    <3> QED
      BY <3>1, <3>2 DEF GrantAccepted, GrantDecodes
  <2>2. CASE r.grant = {}
    <3>1. r.capability \in records[r.agent].capabilities
      BY <2>2 DEF Clears, CapabilityAuthorized
    <3>2. r.agent \in DOMAIN records
      BY DEF Clears, InGoodStanding, Status
    <3> QED
      BY <3>1, <3>2
  <2> QED
    BY <2>1, <2>2
<1> QED
  BY <1>1, Invariant, PTL

-----------------------------------------------------------------------------
(* Authority only shrinks                                                    *)

\* Without a registration, records lose at most their status, and without a
\* publication the keys stay.
RecordsShrink ==
  /\ publicKeys' = publicKeys
  /\ DOMAIN records' = DOMAIN records
  /\ \A a \in DOMAIN records :
       /\ records'[a].capabilities = records[a].capabilities
       /\ records'[a].expiresAt = records[a].expiresAt
       /\ \/ records'[a].status = records[a].status
          \/ records'[a].status \in Withdrawals

\* Tokens and grants are only added, under keys no older than before.
SignedStays ==
  /\ DOMAIN tokens \subseteq DOMAIN tokens'
  /\ \A j \in DOMAIN tokens : tokens'[j] = tokens[j]
  /\ DOMAIN grants \subseteq DOMAIN grants'
  /\ \A j \in DOMAIN grants : grants'[j] = grants[j]
  /\ now' \in Nat /\ now' >= now
  /\ private'[IdpKeyName] \in Nat
  /\ private'[IdpKeyName] >= private[IdpKeyName]

RevocationsStay == \A g \in Gateways : revokedGrants[g] \subseteq revokedGrants'[g]

LEMMA RegistrationPublishes ==
  ASSUME NEW a \in Agents, NEW record \in NewRecords,
         NEW key \in KeysMade(KeySources[a]), Register(a, record, key),
         records' # records
  PROVE  Publication
<1>1. key \in KeysMade(Names)
  BY KeySourcesAssumption DEF KeysMade
<1> QED
  BY <1>1 DEF Publication

LEMMA LifecycleShrinks ==
  ASSUME SharedInv, LifecycleStep, ~Publication,
         UNCHANGED <<idpVars, grants, gatewayVars>>
  PROVE  RecordsShrink /\ SignedStays /\ RevocationsStay
<1>1. /\ now' = now /\ now \in Nat
      /\ private'[IdpKeyName] = private[IdpKeyName]
      /\ private[IdpKeyName] \in Nat
  BY AgentsAssumption DEF LifecycleStep, keyVars, Generate, Rotate, Put,
                          SharedInv, KeysInv, IdpKeyHeld, KeyStoreTypeOK
<1>2. SignedStays /\ RevocationsStay
  BY <1>1 DEF SignedStays, RevocationsStay, idpVars, gatewayVars
<1>3. publicKeys' = publicKeys
  BY DEF Publication
<1>4. CASE records' = records
  BY <1>2, <1>3, <1>4 DEF RecordsShrink
<1>5. ASSUME NEW a \in Agents, NEW status, WithStatus(a, status)
      PROVE  RecordsShrink
  <2>1. /\ records' = [records EXCEPT ![a].status = status]
        /\ status \in Withdrawals /\ a \in DOMAIN records
    BY <1>5 DEF WithStatus
  <2>2. records[a] \in AgentRecord
    BY <2>1 DEF SharedInv, RegistryInv, RegistryTypeOK
  <2>3. /\ records'[a].capabilities = records[a].capabilities
        /\ records'[a].expiresAt = records[a].expiresAt
        /\ records'[a].status = status
    BY <2>1, <2>2 DEF AgentRecord
  <2> QED
    BY <1>3, <2>1, <2>3 DEF RecordsShrink
<1> QED
  BY <1>2, <1>4, <1>5, RegistrationPublishes
     DEF LifecycleStep, Revoke, Suspend, Retire, RotateKey, registryVars

LEMMA AppendKeeps ==
  ASSUME NEW S, NEW s \in Seq(S), NEW e, NEW longer, longer = Append(s, e)
  PROVE  DOMAIN s \subseteq DOMAIN longer /\ \A j \in DOMAIN s : longer[j] = s[j]
OBVIOUS

LEMMA StepShrinks ==
  ASSUME Inv, Next, ~Publication
  PROVE  RecordsShrink /\ SignedStays /\ RevocationsStay
<1>1. /\ SharedInv /\ GatewayTypeOK /\ now \in Nat /\ private[IdpKeyName] \in Nat
      /\ tokens \in Seq(Token) /\ grants \in Seq(Grant)
  BY DEF Inv, SharedInv, KeysInv, KeyStoreTypeOK, IdpKeyHeld, IdpInv, IdpTypeOK,
         DelegationTypeOK
<1>2. ASSUME UNCHANGED registryVars PROVE RecordsShrink
  BY <1>2 DEF RecordsShrink, registryVars
<1>3. ASSUME UNCHANGED <<tokens, grants, private>>, now' \in Nat, now' >= now
      PROVE  SignedStays
  BY <1>1, <1>3 DEF SignedStays
<1>4. ASSUME UNCHANGED revokedGrants PROVE RevocationsStay
  BY <1>4 DEF RevocationsStay
<1>5. CASE \E g \in Gateways, r \in Requests : Authorize(g, r)
  <2>1. UNCHANGED <<sharedVars, revokedGrants>> /\ now' \in Nat /\ now' >= now
    BY <1>1, <1>5, AuthorizeFacts
  <2> QED
    BY <1>2, <1>3, <1>4, <2>1 DEF sharedVars, idpVars
<1>6. CASE \E g \in Gateways, j \in DOMAIN grants : RevokeDelegation(g, j)
  <2>1. UNCHANGED <<now, sharedVars>>
    BY <1>6 DEF RevokeDelegation
  <2>2. RevocationsStay
    BY <1>1, <1>6 DEF RevokeDelegation, RevocationsStay, GatewayTypeOK
  <2> QED
    BY <1>1, <1>2, <1>3, <2>1, <2>2 DEF sharedVars, idpVars
<1>7. CASE LifecycleStep /\ UNCHANGED <<idpVars, grants, gatewayVars>>
  BY <1>1, <1>7, LifecycleShrinks
<1>8. CASE /\ Rotate(IdpKeyName)
           /\ UNCHANGED <<now, registryVars, idpVars, grants, gatewayVars>>
  <2>1. private'[IdpKeyName] = private[IdpKeyName] + 1
    BY <1>1, <1>8, RotateIdpKey DEF SharedInv
  <2>2. SignedStays
    BY <1>1, <1>8, <2>1 DEF SignedStays, idpVars
  <2> QED
    BY <1>2, <1>4, <1>8, <2>2 DEF gatewayVars
<1>9. CASE IdpStep /\ UNCHANGED <<keyVars, registryVars, grants, gatewayVars>>
  <2>1. tokens' = tokens \/ \E e : tokens' = Append(tokens, e)
    BY <1>9 DEF IdpStep, Issue, Sign, BeginAuthorizationCode, ExchangeCode,
                RejectVerifier, RejectCode
  <2>2. /\ DOMAIN tokens \subseteq DOMAIN tokens'
        /\ \A j \in DOMAIN tokens : tokens'[j] = tokens[j]
    BY <1>1, <2>1, AppendKeeps
  <2>3. SignedStays
    BY <1>1, <1>9, <2>2 DEF SignedStays, keyVars
  <2> QED
    BY <1>2, <1>4, <1>9, <2>3 DEF gatewayVars
<1>10. CASE \E i, s \in Agents, ttl \in GrantLifetimes :
              IssueDelegation(i, s, ttl)
                /\ UNCHANGED <<keyVars, registryVars, idpVars, gatewayVars>>
  <2>1. /\ \E e : grants' = Append(grants, e)
        /\ UNCHANGED <<keyVars, registryVars, idpVars, gatewayVars>>
    BY <1>10 DEF IssueDelegation
  <2>2. /\ DOMAIN grants \subseteq DOMAIN grants'
        /\ \A j \in DOMAIN grants : grants'[j] = grants[j]
    BY <1>1, <2>1, AppendKeeps
  <2>3. SignedStays
    BY <1>1, <2>1, <2>2 DEF SignedStays, keyVars, idpVars
  <2> QED
    BY <1>2, <1>4, <2>1, <2>3 DEF gatewayVars
<1>11. CASE Tick /\ UNCHANGED <<sharedVars, gatewayVars>>
  <2>1. now' \in Nat /\ now' >= now
    BY <1>1, <1>11 DEF Tick
  <2> QED
    BY <1>2, <1>3, <1>4, <1>11, <2>1 DEF sharedVars, idpVars, gatewayVars
<1> QED
  BY <1>5, <1>6, <1>7, <1>8, <1>9, <1>10, <1>11 DEF Next, Environment

LEMMA StatusShrinks ==
  ASSUME SharedInv, RecordsShrink, SignedStays, NEW a
  PROVE  /\ Status(a, now)' = "active" => Status(a, now) = "active"
         /\ Status(a, now)' \notin
              {"none", "revoked", "suspended", "retired", "expired"}
              => Status(a, now) \notin
                   {"none", "revoked", "suspended", "retired", "expired"}
<1>1. now \in Nat
  BY DEF SharedInv, KeysInv, KeyStoreTypeOK
<1>2. CASE a \notin DOMAIN records
  BY <1>2 DEF RecordsShrink, Status
<1>3. CASE a \in DOMAIN records
  <2>1. records[a].expiresAt \subseteq Nat
    BY <1>3 DEF SharedInv, RegistryInv, RegistryTypeOK, AgentRecord
  <2>2. Expired(records[a], now) => Expired(records'[a], now')
    BY <1>1, <1>3, <2>1 DEF RecordsShrink, SignedStays, Expired
  <2>3. /\ a \in DOMAIN records'
        /\ \/ records'[a].status = records[a].status
           \/ records'[a].status \in {"revoked", "suspended", "retired"}
    BY <1>3, WithdrawalsAssumption DEF RecordsShrink
  <2>4. Status(a, now)' = IF records'[a].status = "revoked" THEN "revoked"
                          ELSE IF Expired(records'[a], now') THEN "expired"
                          ELSE records'[a].status
    BY <2>3 DEF Status, Expired
  <2> QED
    BY <1>3, <2>2, <2>3, <2>4 DEF Status
<1> QED
  BY <1>2, <1>3

LEMMA DecodesShrinks ==
  ASSUME SharedInv, SignedStays, NEW j \in DOMAIN tokens, NEW d,
         ~Premature(tokens[j], now), Decodes(tokens[j], d, now)'
  PROVE  Decodes(tokens[j], d, now)
<1>1. /\ tokens[j] \in Token /\ now \in Nat /\ private[IdpKeyName] \in Nat
      /\ tokens[j].key.owner = IdpKeyName
      /\ tokens[j].key.gen <= private[IdpKeyName]
  BY DEF SharedInv, IdpInv, IdpTypeOK, TokensSigned, KeysInv, KeyStoreTypeOK,
         IdpKeyHeld
<1>2. /\ tokens[j].exp \in Int /\ tokens[j].key \in Key
      /\ tokens[j].iat <= now /\ tokens[j].nbf <= now
  BY <1>1 DEF Token, Premature
<1>3. tokens[j].key.gen \in Nat
  BY <1>2 DEF Key
<1>4. /\ tokens[j].key = KeyOf(IdpKeyName)' /\ d \in tokens[j].aud
      /\ tokens[j].exp > now'
  BY DEF SignedStays, Decodes
<1>5. tokens[j].key.gen = private'[IdpKeyName]
  BY <1>4 DEF KeyOf
<1>6. private'[IdpKeyName] = private[IdpKeyName]
  BY <1>1, <1>3, <1>5 DEF SignedStays
<1>7. tokens[j].key = KeyOf(IdpKeyName)
  BY <1>4, <1>6 DEF KeyOf
<1>8. tokens[j].exp > now
  BY <1>1, <1>2, <1>4 DEF SignedStays
<1> QED
  BY <1>2, <1>4, <1>7, <1>8 DEF Decodes

LEMMA GrantShrinks ==
  ASSUME SharedInv, SharedInv', RecordsShrink, SignedStays, RevocationsStay,
         NEW g \in Gateways, NEW r \in Requests, NEW grant \in r.grant,
         GrantAccepted(g, grant, r, now)'
  PROVE  GrantAccepted(g, grant, r, now)
<1> DEFINE claims == grants[grant.jws]
<1>1. grant.jws \in 0..Len(grants)
  <2>1. r.grant \in Optional(DelegationGrants)
    BY DEF Requests
  <2>2. grant \in DelegationGrants
    BY <2>1 DEF Optional
  <2> QED
    BY <2>2 DEF DelegationGrants
<1>2. /\ grant.jws \in DOMAIN grants' /\ GrantDecodes(grant, now)'
      /\ grant.subject = r.agent /\ grant.jws \notin revokedGrants'[g]
      /\ DelegationMonotonic(grant, r.capability)'
  BY DEF GrantAccepted, GrantDecodes
<1>3. grant.jws \in DOMAIN grants
  <2>1. /\ DOMAIN grants = 1..Len(grants) /\ Len(grants) \in Nat
        /\ DOMAIN grants' = 1..Len(grants') /\ Len(grants') \in Nat
    BY DEF SharedInv, DelegationTypeOK
  <2> QED
    BY <1>1, <1>2, <2>1
<1>4. grants'[grant.jws] = claims
  BY <1>3 DEF SignedStays
<1>5. /\ claims.iat \in Nat /\ claims.exp \in Int /\ now \in Nat
      /\ claims.iat <= now
  <2>1. claims \in Grant
    BY <1>3 DEF SharedInv, DelegationTypeOK
  <2> QED
    BY <1>3, <2>1 DEF Grant, SharedInv, GrantsIssued, KeysInv, KeyStoreTypeOK
<1> HIDE DEF claims
<1>6. GrantDecodes(grant, now)
  <2>1. /\ grant.issuer \in DOMAIN publicKeys
        /\ claims.key = publicKeys[grant.issuer]
        /\ claims.exp > now'
        /\ claims.iss = grant.issuer /\ claims.sub = grant.subject
    BY <1>2, <1>4 DEF GrantDecodes, RecordsShrink
  <2> QED
    BY <1>3, <1>5, <2>1 DEF GrantDecodes, SignedStays, claims
<1>7. DelegationMonotonic(grant, r.capability)
  BY <1>2 DEF DelegationMonotonic, RecordsShrink
<1>8. grant.jws \notin revokedGrants[g]
  BY <1>2 DEF RevocationsStay
<1> QED
  BY <1>2, <1>6, <1>7, <1>8 DEF GrantAccepted

\* A request that is refused by a check before the replay set is refused later,
\* unless an agent is registered, a key published, or its token had yet to start.
THEOREM AuthorityShrinks == Spec => AuthorityOnlyShrinks
<1> DEFINE Shrinks ==
             \/ Publication \/ UNCHANGED authorityVars
             \/ \A g \in Gateways, r \in Requests :
                  ~Starting(r) /\ Authority(g, r, now)' => Authority(g, r, now)
<1>1. Inv /\ [Next]_vars => [Shrinks]_authorityVars
  <2>1. CASE UNCHANGED vars
    BY <2>1 DEF vars, authorityVars, gatewayVars
  <2>2. CASE Next
    <3> SUFFICES ASSUME Inv, Next, ~Publication, NEW g \in Gateways,
                        NEW r \in Requests, ~Starting(r), Authority(g, r, now)'
                 PROVE  Authority(g, r, now)
      BY <2>2
    <3>1. RecordsShrink /\ SignedStays /\ RevocationsStay
      BY StepShrinks
    <3>2. SharedInv /\ SharedInv' /\ now \in Nat
      BY InvNext DEF Inv, SharedInv, KeysInv, KeyStoreTypeOK
    <3>3. r.token \in 0..Len(tokens)
      BY RequestFacts
    <3>4. TokenAccepted(r, now)
      <4>1. /\ r.token \in DOMAIN tokens'
            /\ Decodes(tokens[r.token], r.audience, now)'
            /\ tokens'[r.token].sub = r.agent
        BY DEF Authority, TokenAccepted
      <4>2. r.token \in DOMAIN tokens /\ tokens'[r.token] = tokens[r.token]
        <5>1. DOMAIN tokens = 1..Len(tokens) /\ DOMAIN tokens' = 1..Len(tokens')
              /\ Len(tokens) \in Nat /\ Len(tokens') \in Nat
          BY <3>2 DEF SharedInv, IdpInv, IdpTypeOK
        <5> QED
          BY <3>1, <3>3, <4>1, <5>1 DEF SignedStays
      <4>3. Decodes(tokens[r.token], r.audience, now)
        BY <3>1, <3>2, <4>1, <4>2, DecodesShrinks DEF Starting
      <4> QED
        BY <4>1, <4>2, <4>3 DEF TokenAccepted
    <3>5. InGoodStanding(r, now)
      BY <3>1, <3>2, StatusShrinks DEF Authority, Clears, InGoodStanding
    <3>6. CardAccepted(r)
      <4>1. CardAccepted(r)' /\ r.agent \in DOMAIN records
        BY <3>5 DEF Authority, Clears, InGoodStanding, Status
      <4> QED
        BY <3>1, <4>1 DEF CardAccepted, CardSigned, RecordsShrink
    <3>7. CapabilityAuthorized(g, r, now)
      <4>1. CapabilityAuthorized(g, r, now)' /\ r.agent \in DOMAIN records
        BY <3>5 DEF Authority, Clears, InGoodStanding, Status
      <4>2. ASSUME NEW grant \in r.grant, GrantAccepted(g, grant, r, now)'
            PROVE  GrantAccepted(g, grant, r, now)
        BY <3>1, <3>2, <4>2, GrantShrinks
      <4> QED
        BY <3>1, <4>1, <4>2 DEF CapabilityAuthorized, RecordsShrink
    <3>8. ResourceAccepted(r, now)
      BY <3>1, <3>2, StatusShrinks DEF Authority, Clears, ResourceAccepted
    <3> QED
      BY <3>4, <3>5, <3>6, <3>7, <3>8 DEF Authority, Clears
  <2> QED
    BY <2>1, <2>2
<1> QED
  BY <1>1, Invariant, PTL DEF Spec, AuthorityOnlyShrinks, vars, authorityVars

-----------------------------------------------------------------------------
(* What clears at a later reading of the clock clears at once                *)

LEMMA StatusBefore ==
  ASSUME SharedInv, NEW t \in Nat, t >= now, NEW a
  PROVE  /\ Status(a, t) = "active" => Status(a, now) = "active"
         /\ Status(a, t) \notin {"none", "revoked", "suspended", "retired", "expired"}
              => Status(a, now) \notin
                   {"none", "revoked", "suspended", "retired", "expired"}
<1>1. ASSUME a \in DOMAIN records, Expired(records[a], now)
      PROVE  Expired(records[a], t)
  <2>1. records[a].expiresAt \subseteq Nat /\ now \in Nat
    BY <1>1 DEF SharedInv, RegistryInv, RegistryTypeOK, AgentRecord, KeysInv,
                KeyStoreTypeOK
  <2> QED
    BY <1>1, <2>1 DEF Expired
<1> QED
  BY <1>1 DEF Status

LEMMA GrantBefore ==
  ASSUME SharedInv, NEW t \in Nat, t >= now, NEW g, NEW r, NEW grant,
         GrantAccepted(g, grant, r, t)
  PROVE  GrantAccepted(g, grant, r, now)
<1>1. GrantDecodes(grant, t) /\ grant.jws \in DOMAIN grants
  BY DEF GrantAccepted, GrantDecodes
<1>2. /\ grants[grant.jws].iat <= now /\ grants[grant.jws].exp \in Int
      /\ now \in Nat
  <2>1. grants[grant.jws] \in Grant
    BY <1>1 DEF SharedInv, DelegationTypeOK
  <2> QED
    BY <1>1, <2>1 DEF Grant, SharedInv, GrantsIssued, KeysInv, KeyStoreTypeOK
<1>3. grants[grant.jws].exp > now
  BY <1>1, <1>2 DEF GrantDecodes
<1> QED
  BY <1>1, <1>2, <1>3 DEF GrantAccepted, GrantDecodes

LEMMA ClearsBefore ==
  ASSUME SharedInv, NEW t \in Nat, t >= now, NEW g, NEW r, Clears(g, r, t)
  PROVE  Clears(g, r, now)
<1>1. InGoodStanding(r, now) /\ ResourceAccepted(r, now)
  BY StatusBefore DEF Clears, InGoodStanding, ResourceAccepted
<1>2. CapabilityAuthorized(g, r, now)
  BY GrantBefore DEF Clears, CapabilityAuthorized
<1> QED
  BY <1>1, <1>2 DEF Clears

\* A gateway that enforces permits nothing that it would not have permitted at the
\* moment of the call.
THEOREM EntrySettles == Spec => EntryDecides
<1> DEFINE Decided ==
             permits' # permits =>
               \A g \in Enforcing, r \in Requests :
                 Authorize(g, r) => Authority(g, r, now)
<1>1. Inv => [Decided]_vars
  <2> SUFFICES ASSUME Inv, permits' # permits, NEW g \in Enforcing,
                      NEW r \in Requests, Authorize(g, r)
               PROVE  Authority(g, r, now)
    OBVIOUS
  <2>1. ASSUME NEW t \in Readings(now), Admitted(g, r, t)
        PROVE  Authority(g, r, now)
    <3>1. SharedInv /\ now \in Nat
      BY DEF Inv, SharedInv, KeysInv, KeyStoreTypeOK
    <3>2. t \in Nat /\ t >= now
      BY <3>1, ReadingFacts
    <3>3. Clears(g, r, now)
      BY <2>1, <3>1, <3>2, ClearsBefore DEF Admitted
    <3> QED
      BY <2>1, <3>3 DEF Authority, Admitted, Entered
  <2>2. ~Answer(g, r, "DENY") /\ ~Raise
    BY DEF Answer, Raise, AutonomouslyPermitted
  <2>3. Mode[g] \notin {"B1", "B2"}
    BY DEF Enforcing, TrustAgentModes, ScoringModes
  <2> QED
    BY <2>1, <2>2, <2>3
       DEF Authorize, Answers, Raises, AllowUnchecked, DenyToken, AllowOnToken,
           FailOnCard, DenyOnChecks, DenyReplay, AllowStatic, FailOnScore,
           DecideOnScore
<1> QED
  BY <1>1, Invariant, PTL DEF EntryDecides

-----------------------------------------------------------------------------
(* Superseded grants                                                         *)

\* No step takes a key published in time back, or changes a grant.
LEMMA StepForward ==
  ASSUME Inv, Next, NEW j \in DOMAIN grants, NEW a \in DOMAIN publicKeys,
         a \notin untimely'
  PROVE  /\ a \in DOMAIN publicKeys' /\ publicKeys'[a].gen >= publicKeys[a].gen
         /\ grants'[j] = grants[j]
<1> DEFINE Forward ==
             a \in DOMAIN publicKeys' /\ publicKeys'[a].gen >= publicKeys[a].gen
<1>1. /\ SharedInv /\ GatewayTypeOK /\ RegistryInv /\ now \in Nat
      /\ grants \in Seq(Grant)
  BY DEF Inv, SharedInv, KeysInv, KeyStoreTypeOK, DelegationTypeOK
<1>2. ASSUME publicKeys' = publicKeys PROVE Forward
  BY <1>1, <1>2 DEF RegistryInv, RegistryTypeOK, Key
<1>3. ASSUME NEW g \in Gateways, NEW r \in Requests, Authorize(g, r)
      PROVE  UNCHANGED <<publicKeys, grants>>
  BY <1>1, <1>3, AuthorizeFacts DEF sharedVars, registryVars
<1>4. CASE LifecycleStep /\ UNCHANGED <<idpVars, grants, gatewayVars>>
  BY <1>1, <1>4, PublicationForward DEF RegistryNext
<1>5. CASE \E i, s \in Agents, ttl \in GrantLifetimes :
             IssueDelegation(i, s, ttl)
               /\ UNCHANGED <<keyVars, registryVars, idpVars, gatewayVars>>
  <2>1. (\E e : grants' = Append(grants, e)) /\ publicKeys' = publicKeys
    BY <1>5 DEF IssueDelegation, registryVars
  <2>2. grants'[j] = grants[j]
    BY <1>1, <2>1, AppendKeeps
  <2> QED
    BY <1>2, <2>1, <2>2
<1> QED
  BY <1>2, <1>3, <1>4, <1>5
     DEF Next, Environment, RevokeDelegation, sharedVars, registryVars

\* A grant signed before a published rotation of its issuer's key stays void, as
\* long as every key published for the issuer was in use at that moment.
THEOREM RotationVoids == Spec => RotationVoidsGrants
<1> DEFINE Void ==
             \A j \in DOMAIN grants :
               Superseded(j) /\ grants[j].iss \notin untimely' =>
                 \A g \in Gateways, r \in Requests :
                   (\E grant \in r.grant : grant.jws = j) => ~Clears(g, r, now)'
<1>1. Inv /\ [Next]_vars => [Void]_authorityVars
  <2>1. CASE UNCHANGED vars
    BY <2>1 DEF vars, authorityVars, gatewayVars
  <2>2. CASE Next
    <3> SUFFICES ASSUME Inv, Next, NEW j \in DOMAIN grants, Superseded(j),
                        grants[j].iss \notin untimely',
                        NEW g \in Gateways, NEW r \in Requests,
                        NEW grant \in r.grant, grant.jws = j, Clears(g, r, now)'
                 PROVE  FALSE
      BY <2>2
    <3>1. r.grant = {grant}
      BY DEF Requests, Optional
    <3>2. GrantDecodes(grant, now)'
      BY <3>1 DEF Clears, CapabilityAuthorized, GrantAccepted
    <3> DEFINE a == grants[j].iss
    <3>3. a \in DOMAIN publicKeys /\ grants[j].key.gen < publicKeys[a].gen
      BY DEF Superseded
    <3>4. /\ publicKeys'[a].gen >= publicKeys[a].gen
          /\ grants'[j] = grants[j] /\ a \in DOMAIN publicKeys'
      BY <3>3, StepForward
    <3>5. grants[j].key = publicKeys'[a]
      BY <3>2, <3>4 DEF GrantDecodes
    <3>6. /\ publicKeys[a].gen \in Nat
          /\ publicKeys'[a].gen \in Nat
      BY <3>3, <3>4, InvNext DEF Inv, SharedInv, RegistryInv, RegistryTypeOK, Key
    <3> QED
      BY <3>3, <3>4, <3>5, <3>6
  <2> QED
    BY <2>1, <2>2
<1> QED
  BY <1>1, Invariant, PTL DEF Spec, RotationVoidsGrants, vars, authorityVars

=============================================================================
