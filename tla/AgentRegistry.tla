---------------------------- MODULE AgentRegistry ----------------------------
(***************************************************************************)
(* registry.py: the records of the agents and the public keys their cards  *)
(* and grants are verified with.  Private keys are replaced in the key     *)
(* store and published here by a separate call, which takes whatever key   *)
(* its caller passes: the one in use, one that was replaced since it was   *)
(* returned, or one of another name.                                       *)
(***************************************************************************)
EXTENDS KeyStore

CONSTANTS Agents,          \* the agent ids
          Capabilities,
          NewRecords,      \* the records register() is called with
          Withdrawals,     \* the statuses agents are moved to, of "revoked",
                           \* "suspended" and "retired"
          LabRecords,      \* the agents LabWorld starts with, and their records
          KeySources       \* bound: the names whose keys are published for an agent

Statuses == {"active", "suspended", "revoked", "expired", "retired"}

\* `purpose' is the set of capabilities whose first segment occurs in the
\* purpose string; expires_at is {} for None.
AgentRecord == [status : Statuses, capabilities : SUBSET Capabilities,
                purpose : SUBSET Capabilities, expiresAt : SUBSET Nat]

ASSUME AgentsAssumption == Agents \subseteq Names /\ IdpKeyName \notin Agents
ASSUME NewRecordsAssumption == NewRecords \subseteq AgentRecord
ASSUME WithdrawalsAssumption ==
         Withdrawals \subseteq {"revoked", "suspended", "retired"}
ASSUME LabRecordsAssumption ==
         /\ DOMAIN LabRecords \subseteq Agents
         /\ \A a \in DOMAIN LabRecords : LabRecords[a] \in AgentRecord
ASSUME KeySourcesAssumption == KeySources \in [Agents -> SUBSET Names]

VARIABLES records,         \* AgentRegistry._records
          publicKeys,      \* AgentRegistry._public_keys
          withdrawn,       \* history: revoked, suspended or retired agents that
                           \* were not registered again since
          untimely         \* history: agents a key was published for that was not
                           \* the one the store held for them at that moment

registryVars == <<records, publicKeys, withdrawn, untimely>>

RegistryTypeOK ==
  /\ DOMAIN records \subseteq Agents
  /\ \A a \in DOMAIN records : records[a] \in AgentRecord
  /\ DOMAIN publicKeys = DOMAIN records
  /\ \A a \in DOMAIN publicKeys : publicKeys[a] \in Key
  /\ withdrawn \subseteq Agents
  /\ untimely \subseteq Agents

\* Seeded fault: the comparison with the expiry is turned round.
FaultExpiredInverted(record, t) == \E e \in record.expiresAt : e > t

\* AgentRegistry.status: a revocation is reported before an expiry, an expiry
\* before any other stored status, and None for an unknown agent.
Expired(record, t) == \E e \in record.expiresAt : e <= t

Status(a, t) ==
  IF a \notin DOMAIN records THEN "none"
  ELSE IF records[a].status = "revoked" THEN "revoked"
  ELSE IF Expired(records[a], t) THEN "expired"
  ELSE records[a].status

-----------------------------------------------------------------------------
\* LabWorld: the identity provider and the lab agents have generated their keys,
\* and the agents are registered with theirs.
RegistryInit ==
  /\ now = 0
  /\ private = [n \in DOMAIN LabRecords \cup {IdpKeyName} |-> 1]
  /\ records = LabRecords
  /\ publicKeys = [a \in DOMAIN LabRecords |-> [owner |-> a, gen |-> 1]]
  /\ withdrawn = {}
  /\ untimely = {}

\* Whichever key it is, and whoever's, it is stored.
Publish(a, key) ==
  /\ publicKeys' = Put(publicKeys, a, key)
  /\ untimely' = IF a \in DOMAIN private /\ key = KeyOf(a) THEN untimely
                 ELSE untimely \cup {a}

\* register: replaces whatever was known of the agent.
Register(a, record, key) ==
  /\ records' = Put(records, a, record)
  /\ withdrawn' = withdrawn \ {a}
  /\ Publish(a, key)

\* Seeded fault: the record is rebuilt with its old status.
FaultWithStatusKeepsOld(a, status) ==
  /\ status \in Withdrawals
  /\ a \in DOMAIN records
  /\ withdrawn' = withdrawn \cup {a}
  /\ UNCHANGED <<records, publicKeys, untimely>>

\* _with_status: KeyError, and no change, for an unknown agent.  The new status
\* replaces any other one.
WithStatus(a, status) ==
  /\ status \in Withdrawals
  /\ a \in DOMAIN records
  /\ records' = [records EXCEPT ![a].status = status]
  /\ withdrawn' = withdrawn \cup {a}
  /\ UNCHANGED <<publicKeys, untimely>>

Revoke(a) == WithStatus(a, "revoked")
Suspend(a) == WithStatus(a, "suspended")
Retire(a) == WithStatus(a, "retired")

\* rotate_key: KeyError, and no change, for an unknown agent.
RotateKey(a, key) ==
  /\ a \in DOMAIN records
  /\ Publish(a, key)
  /\ UNCHANGED <<records, withdrawn>>

-----------------------------------------------------------------------------
\* What the registry and the key store do between two authorizations.
LifecycleStep ==
  \E a \in Agents :
    \/ \E key \in KeysMade(KeySources[a]) :
         /\ \/ \E record \in NewRecords : Register(a, record, key)
            \/ RotateKey(a, key)
         /\ UNCHANGED keyVars
    \/ Revoke(a) /\ UNCHANGED keyVars
    \/ Suspend(a) /\ UNCHANGED keyVars
    \/ Retire(a) /\ UNCHANGED keyVars
    \/ Generate(a) /\ UNCHANGED <<now, registryVars>>
    \/ Rotate(a) /\ UNCHANGED <<now, registryVars>>

RegistryNext == LifecycleStep \/ (Tick /\ UNCHANGED <<private, registryVars>>)

RegistrySpec == RegistryInit /\ [][RegistryNext]_<<keyVars, registryVars>>

-----------------------------------------------------------------------------
(* Properties *)

\* Revoked, suspended and retired agents stay inactive until they are registered
\* again, whatever other status calls, key rotations and expiries come between:
\* _with_status rebuilds the record and overwrites one status by another.
WithdrawnStaysInactive == \A a \in withdrawn : Status(a, now) # "active"

\* Only registration makes an inactive agent active: neither another status
\* call, nor a key published, nor the passing of time.
OnlyRegistrationActivates ==
  [][\A a \in Agents :
       Status(a, now) # "active" /\ Status(a, now)' = "active"
         => \E record \in NewRecords, key \in KeysMade(KeySources[a]) :
              Register(a, record, key)
    ]_<<keyVars, registryVars>>

=============================================================================
