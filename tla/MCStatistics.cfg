SPECIFICATION Spec
CONSTANTS
  MaxCell = 3
  MaxSample = 3
  MaxSamples = 56
CHECK_DEADLOCK FALSE
INVARIANTS
  FisherCounts
  TailBounded
PROPERTIES
  EvidenceMovesP
  SamplesMovePercentiles
