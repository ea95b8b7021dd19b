\* The SYN is resent, a heartbeat sent, and the counters come up to the modulus: a
\* message of the server while the client leaves, with the fairness of the polling
\* owners.
SPECIFICATION FairSpec

CONSTANTS
  Client = client
  Server = server
  MaxAckValue = 16
  TopQuart = 14
  BottomQuart = 4
  MaxPacketsInFlight = 1
  RetransmitMaxAttempts = 1
  RandIndices = {13}
  LastingOpcodes <- AllButHandshake
  SendLimit <- Sends01
  SynResendLimit = 1
  HeartbeatLimit = 1
  Leavers = {client}

INVARIANTS
  TypeOK
  NumbersUnique

PROPERTIES
  DeliveredOrFailed
  CloseProgresses

\* A connection ends: both streams closed or failed, and nothing more to send.
CHECK_DEADLOCK FALSE
