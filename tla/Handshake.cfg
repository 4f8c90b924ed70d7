CONSTANTS
  k1 = k1
  k2 = k2
  none = none
  empty = empty
  c1 = c1
  KeyIds <- TwoIds
  Keys <- TwoKeys
  EmptyKey = empty
  NoId = none
  DefaultId = 1
  DefaultKey = k1
  Conns <- OneConn
  Drifts <- DriftsAtTheLimit
  MAX_ALLOWED_TIME_DRIFT_SECS = 30
SPECIFICATION Spec
INVARIANTS
  RefusedForCause
  NoSessionOnEmptyKey
