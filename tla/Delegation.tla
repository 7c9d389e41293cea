------------------------------ MODULE Delegation ------------------------------
(***************************************************************************)
(* delegation.py and the delegation rule of policy.py.  A grant is what    *)
(* its JWS claims, with the key that signed it; its jti is its position in *)
(* the sequence of all grants.  A request presents a DelegationGrant, an   *)
(* object whose fields are set beside the JWS and may differ from it.      *)
(***************************************************************************)
EXTENDS AgentRegistry, Sequences

CONSTANTS Scopes,          \* the scopes grants are issued and presented with
          GrantLifetimes,  \* ttl_seconds of issue_delegation
          MaxGrants        \* bound: grants issued

ASSUME ScopesAssumption == Scopes \subseteq SUBSET Capabilities
ASSUME GrantLifetimesAssumption == GrantLifetimes \subseteq Int

VARIABLE grants

Grant == [iss : Agents, sub : Agents, iat : Nat, exp : Int, key : Key]

\* JWS 0 is a string that jwt.decode rejects.
DelegationGrants == [issuer : Agents, subject : Agents, scope : Scopes,
                     jws : 0..Len(grants)]

DelegationTypeOK == grants \in Seq(Grant)

\* The signed scope is not kept: nothing reads it back from the claims.
IssueDelegation(issuer, subject, ttl) ==
  /\ issuer \in DOMAIN private
  /\ Len(grants) < MaxGrants
  /\ grants' = Append(grants, [iss |-> issuer, sub |-> subject, iat |-> now,
                               exp |-> now + ttl, key |-> KeyOf(issuer)])

\* Seeded fault: the scope is not compared with what the issuer may do.
FaultDelegationAmplifies(grant, requested) ==
  /\ grant.issuer \in DOMAIN records
  /\ requested \in grant.scope

\* CapabilityPolicy.delegation_monotonic.
DelegationMonotonic(grant, requested) ==
  /\ grant.issuer \in DOMAIN records
  /\ grant.scope \subseteq records[grant.issuer].capabilities
  /\ requested \in grant.scope

\* Seeded fault: any key the issuer has had is good.
FaultGrantDecodes(grant, t) ==
  /\ grant.jws \in DOMAIN grants
  /\ LET claims == grants[grant.jws] IN
       /\ claims.key.owner = grant.issuer
       /\ claims.exp > t
       /\ claims.iat <= t
       /\ claims.iss = grant.issuer
       /\ claims.sub = grant.subject

\* jwt.decode of the grant with its issuer's published key, and the comparison
\* of its claims with the fields of the object.
GrantDecodes(grant, t) ==
  /\ grant.issuer \in DOMAIN publicKeys
  /\ grant.jws \in DOMAIN grants
  /\ LET claims == grants[grant.jws] IN
       /\ claims.key = publicKeys[grant.issuer]
       /\ claims.exp > t
       /\ claims.iat <= t
       /\ claims.iss = grant.issuer
       /\ claims.sub = grant.subject

=============================================================================
