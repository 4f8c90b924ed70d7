CONSTANTS
  c1 = c1
  c2 = c2
  c3 = c3
  noconn = noconn
  Conns <- ThreeConns
  NoConn = noconn
  SocketLimit = 2
SPECIFICATION FairSpec
INVARIANTS
  IInv
PROPERTIES
  ValidClientDecided
  ClosedIsReleased
CHECK_DEADLOCK FALSE
