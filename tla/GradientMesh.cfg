CONSTANTS
  n1 = n1
  n2 = n2
  home = home
  away = away
  nobody = nobody
  nochoice = nochoice
  Nodes <- TwoNodes
  Addrs <- TwoAddrs
  Links <- ThreeLinks
  IdOf <- TwoShareAnId
  NoPeer = nobody
  NoChoice = nochoice
  Alpha = 700
  Beta = 300
  Ratios <- RatiosAcross
  MaxInFlight = 2
  Step = 5
  WeightUnit = 1
  MaxReports = 3
SPECIFICATION Spec
INVARIANTS
  TypeOK
PROPERTIES
  FeedbackKeepsItsSign
