CONSTANT
  MaxStarts = 3
SPECIFICATION FairStartupSpec
INVARIANTS
  StartupInv
PROPERTIES
  NothingBeforeConsent
  StartSettles
CHECK_DEADLOCK FALSE
