---------------------------- MODULE MCTrustScore ----------------------------
(* Five weight vectors and three orders of the thresholds.                   *)
EXTENDS ScoreWalk

\* The default vector, the one of test_combine_clamps, one without context, one
\* with a large context weight, and one that does not add up to 1.
MCWeightVectors ==
  { DefaultWeights,
    [unit |-> 1, identity |-> 1, credential |-> 0, authorization |-> 0,
     behavior |-> 0, resource |-> 0, context |-> 0],
    [unit |-> 10, identity |-> 2, credential |-> 1, authorization |-> 2,
     behavior |-> 4, resource |-> 1, context |-> 0],
    [unit |-> 10, identity |-> 1, credential |-> 1, authorization |-> 1,
     behavior |-> 1, resource |-> 0, context |-> 6],
    [unit |-> 10, identity |-> 3, credential |-> 3, authorization |-> 3,
     behavior |-> 3, resource |-> 3, context |-> 3] }

\* The default thresholds and the two orders of test_card_paths_and_ats_bands,
\* which leave `verify' where it was.
MCThresholdVectors ==
  { DefaultThresholds,
    [allow |-> 99, restrict |-> 98, verify |-> 60, approval |-> 97],
    [allow |-> 50, restrict |-> 40, verify |-> 60, approval |-> 20] }

=============================================================================
