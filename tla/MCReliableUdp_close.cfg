\* A server that leaves with a message still queued behind a full window.
SPECIFICATION FairSpec

CONSTANTS
  Client = client
  Server = server
  MaxAckValue = 16
  TopQuart = 12
  BottomQuart = 4
  MaxPacketsInFlight = 1
  RetransmitMaxAttempts = 1
  RandIndices = {5}
  LastingOpcodes <- AllButHandshake
  SendLimit <- Sends02
  SynResendLimit = 0
  HeartbeatLimit = 0
  Leavers = {server}

PROPERTIES
  CloseTimesOut

\* A connection ends: both streams closed or failed, and nothing more to send.
CHECK_DEADLOCK FALSE
