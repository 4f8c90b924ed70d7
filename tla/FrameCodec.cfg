CONSTANTS
  BlockSize = 64
  LengthLimit = 65536
  StampLimit = 2147483647
  MaxWindowDiff = 6
  PacketSizes <- SizesAroundThreshold
  BodySizes <- BodiesAtTheEdges
  Start = 1780000003
  Skews <- SkewsBothWays
  MaxTime = 40
  MaxInFlight = 1
SPECIFICATION Spec
INVARIANTS
  DataIsNotFeedback
  TimelyRestored
  LateRefused
  PlainRestored
