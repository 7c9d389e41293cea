------------------------------ MODULE MCCampaign ------------------------------
(* The whole campaign: every scenario and control, two of them with a clock    *)
(* that may outlast their token.                                                *)
EXTENDS Evaluation

MCAttacks == <<"A1", "A2", "A3", "A4", "A5", "A6", "A7", "A8", "A9", "A10">>
MCControls == <<"L1", "L2">>
MCScopes == {{"incident.delete"}}
MCLifetimes == {-1, TTL}
MCKeySources == [a \in Agents |-> {a}]
MCWeights == [g \in Gateways |-> DefaultWeights]
MCThresholds == [g \in Gateways |-> DefaultThresholds]
MCModes == [g \in Gateways |-> g]
MCGenerations == [n \in Names |-> 1]

\* The campaign is one for which the hypotheses are proved to hold.
ASSUME LargeEnough

=============================================================================
