--------------------------- MODULE MCAgentRegistry ---------------------------
(* One agent the lab starts with and one that may be registered later; an    *)
(* expiry inside the bounded time, and room for two key rotations.           *)
EXTENDS AgentRegistry

MCMaxGeneration == [n \in Names |-> 3]

MCRecord(status, expiresAt) ==
  [status |-> status, capabilities |-> Capabilities,
   purpose |-> Capabilities, expiresAt |-> expiresAt]

MCNewRecords == {MCRecord("active", {2}), MCRecord("suspended", {})}

MCKeySources == [a \in Agents |-> Names]

MCLabRecords == [a \in {"security"} |-> MCRecord("active", {})]

=============================================================================
