\* The client resends its SYN once.
SPECIFICATION Spec

CONSTANTS
  Client = client
  Server = server
  MaxAckValue = 16
  TopQuart = 12
  BottomQuart = 4
  MaxPacketsInFlight = 1
  RetransmitMaxAttempts = 1
  RandIndices = {5}
  LastingOpcodes <- AllButHandshake
  SendLimit <- Sends11
  SynResendLimit = 1
  HeartbeatLimit = 0
  Leavers = {server}

INVARIANTS
  InOrder

\* A connection ends: both streams closed or failed, and nothing more to send.
CHECK_DEADLOCK FALSE
