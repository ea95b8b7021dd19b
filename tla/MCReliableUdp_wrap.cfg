\* Ack counters that wrap: 14, 15, 0 modulo 16.
SPECIFICATION Spec

CONSTANTS
  Client = client
  Server = server
  MaxAckValue = 16
  TopQuart = 12
  BottomQuart = 4
  MaxPacketsInFlight = 2
  RetransmitMaxAttempts = 1
  RandIndices = {14}
  LastingOpcodes <- AllButHandshake
  SendLimit <- Sends20
  SynResendLimit = 0
  HeartbeatLimit = 0
  Leavers = {server}

INVARIANTS
  NoLoss

\* A connection ends: both streams closed or failed, and nothing more to send.
CHECK_DEADLOCK FALSE
