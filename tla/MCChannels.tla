------------------------------- MODULE MCChannels -------------------------------
(* One request object of the security agent, passed to both facades of one     *)
(* gateway and to the gateway itself.                                           *)
EXTENDS Channels

MCGenerations == [n \in Names |-> 1]
MCKeySources == [a \in Agents |-> {a}]
MCWeights == [g \in Gateways |-> DefaultWeights]
MCThresholds == [g \in Gateways |-> DefaultThresholds]
MCModes == [g \in Gateways |-> g]

MCLab == [a \in {"security", "helper"} |->
            [status |-> "active", capabilities |-> {"read"}, purpose |-> {"read"},
             expiresAt |-> {}]]

MCCardScopes == {{"read"}}

=============================================================================
