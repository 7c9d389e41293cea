SPECIFICATION Spec
CONSTANTS
  Agents = {security, helper}
  Window = 6
  Modes = {"B3", "B3_NO_BEHAVIOR", "B3_NO_RESOURCE"}
  Deviations = {0, 45, 100}
  Risks = {0, 50}
INVARIANTS
  TypeOK
  BestRequestFollowsShare
  OffPurposeNeverPermitted
PROPERTY HoldFeedsItself
