\* Two messages against one, a window of two, either side may leave.
SPECIFICATION Spec

CONSTANTS
  Client = client
  Server = server
  MaxAckValue = 16
  TopQuart = 12
  BottomQuart = 4
  MaxPacketsInFlight = 2
  RetransmitMaxAttempts = 1
  RandIndices = {5}
  LastingOpcodes <- AllButHandshake
  SendLimit <- Sends21
  SynResendLimit = 0
  HeartbeatLimit = 0
  Leavers = {client, server}

INVARIANTS
  InOrder
  NoLoss
  HeldSuffix
  OldestRetransmitted
  IInv

PROPERTIES
  ImplementsChannel

\* A connection ends: both streams closed or failed, and nothing more to send.
CHECK_DEADLOCK FALSE
