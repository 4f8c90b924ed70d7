CONSTANTS
  PIPELINE_BUFFER_SIZE = 2
  MaxPackets = 8
SPECIFICATION FairUpstreamSpec
INVARIANTS
  IInv
  BoundedLoss
PROPERTIES
  ImplementsPrefixFifo
  ReturnsAfterInputEnds
  EveryPacketSettles
