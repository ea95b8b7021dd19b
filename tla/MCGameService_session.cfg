\* Two sessions of one player, from one address.
SPECIFICATION FairSpec

CONSTANTS
  Addresses = {home}
  SessionLimit = 2
  AuthTimeout = 0
  ClientTimeout = 1
  CloseTimeout = 1
  NetLimit = 2
  InboxLimit = 2

INVARIANTS
  TypeOK
  TokenAlive

PROPERTIES
  EstablishedReleased
  Reconnects
  TokenExpires
