CONSTANTS
  PIPELINE_BUFFER_SIZE = 1
  MaxPackets = 5
  MaxWindowDiff = 6
  Ages <- AgesAtTheLimit
SPECIFICATION FairDownstreamSpec
INVARIANTS
  FramesInv
  NothingLateDelivered
  FeedbackOnceInOrder
  CleanReturn
PROPERTIES
  ImplementsPrefixFifo
  ReturnsAfterInputEnds
  EveryPacketSettles
