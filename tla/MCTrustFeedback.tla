--------------------------- MODULE MCTrustFeedback ---------------------------
(* Two agents, so that one's events age the other's out of the window; six   *)
(* events, so that the share 4/5 and both sides of 12/17 are reached.        *)
EXTENDS TrustFeedback

=============================================================================
