CONSTANTS
  Capacity = 2
  TimelyAge = 4
  LateAge = 6
  ReadInterval = 2
  MaxPackets = 4
SPECIFICATION Spec
INVARIANTS
  IInv
  NothingLateAtPace
PROPERTIES
  ImplementsPrefixFifo
CHECK_DEADLOCK FALSE
