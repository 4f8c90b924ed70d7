CONSTANTS
  k1 = k1
  none = none
  empty = empty
  alice = alice
  bob = bob
  hs = hs
  KeyIds <- TwoIds
  Keys <- OneKey
  EmptyKey = empty
  NoId = none
  Admins <- TwoAdmins
  Readers <- OneReader
SPECIFICATION Spec
INVARIANTS
  IInv
  PrimaryLostOnlyInRace
PROPERTIES
  EmptyKeyOnlyForOldPrimary
  KeyringUnlessRaced
