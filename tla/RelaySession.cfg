CONSTANT
  PIPELINE_BUFFER_SIZE = 2
SPECIFICATION FairSessionSpec
INVARIANTS
  SessionInv
PROPERTIES
  BothEndAfterTun
  ReturnsAfterServerEnds
CHECK_DEADLOCK FALSE
