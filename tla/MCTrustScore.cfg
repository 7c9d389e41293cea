SPECIFICATION Spec
CONSTANTS
  WeightVectors <- MCWeightVectors
  ThresholdVectors <- MCThresholdVectors
  Expiries = {1, 4}
  MaxNow = 5
  MaxOwn = 3
CHECK_DEADLOCK FALSE
INVARIANTS
  WithoutRenormalises
  CeilingBelowAllow
PROPERTY WorseEvidenceNeverHelps
