----------------------------- MODULE MCTrustAgent -----------------------------
(* Instances of TrustAgent.  The agents and capabilities are those of          *)
(* LabWorld, cut down: the security agent may read and search, the helper may  *)
(* read, and neither may delete.                                               *)
EXTENDS TrustAgent

\* Keys that a run replaces, and keys that it leaves alone.
MCMaxGeneration == [n \in Names |-> 1]
MCRotateIdp == [n \in Names |-> IF n = "idp" THEN 2 ELSE 1]
MCRotateSecurity == [n \in Names |-> IF n = "security" THEN 2 ELSE 1]
MCRotateBoth == [n \in Names |-> IF n \in {"security", "idp"} THEN 2 ELSE 1]

LabRecord(capabilities, status, expiresAt) ==
  [status |-> status, capabilities |-> capabilities \cap Capabilities,
   purpose |-> {"read", "search"} \cap Capabilities, expiresAt |-> expiresAt]

\* Gateways by name, in the mode the name says.
MCMode == [g \in Gateways |->
             CASE g \in {"B3a", "B3b"} -> "B3"
               [] OTHER -> g]

\* The scores of ats.py, and one of the behaviour alone, which its ablation cannot
\* rescale.
MCWeights == [g \in Gateways |->
                IF g = "B3_NO_BEHAVIOR"
                THEN [n \in DOMAIN DefaultWeights |->
                        IF n \in {"unit", "behavior"} THEN 100 ELSE 0]
                ELSE DefaultWeights]
MCThresholds == [g \in Gateways |-> DefaultThresholds]

\* Any key that an agent has had is published for it.
MCKeySources == [a \in Agents |-> {a}]

\* Tokens that share a jti, and tokens whose jti is not a string.
MCExtras == {[jti |-> -1], [jti |-> 0]}

\* A token that starts later.
MCLater == {[nbf |-> 1]}

MCLabOne == [a \in {"security"} |-> LabRecord({"read"}, "active", {})]

MCLabTwo == [a \in {"security", "helper"} |->
               LabRecord(IF a = "security" THEN {"read", "search"} ELSE {"read"},
                         "active", {})]

\* The records agents are registered with later: one that expires, and one that
\* starts without authority.
MCNewRecords == {LabRecord({}, "active", {2})}

\* An agent that is registered again as it was.
MCActiveRecords == {LabRecord({"read"}, "active", {})}

MCCardScopes == {{"read"}}

=============================================================================
