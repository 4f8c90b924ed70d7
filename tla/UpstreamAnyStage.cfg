CONSTANTS
  PIPELINE_BUFFER_SIZE = 1
  MaxPackets = 3
SPECIFICATION FairUpstreamSpec
PROPERTIES
  ReturnsWhenAnyStageEnds
