\* Three connections of two players, areas that hold one sign, two matches on
\* either of two maps.
SPECIFICATION Spec

CONSTANTS
  ann = ann
  bob = bob
  ConnLimit = 3
  Players = {ann, bob}
  NoPlayer = nobody
  Areas = {a}
  MaxEntries = 1
  MatchesWith <- AnnMatchesAll
  SignLimit = 2
  Games = {g, h}
  MatchLimit = 2

INVARIANTS
  TypeOK
  OriginConnected
  OfferCurrent
  WaiterReserved
  RemovalAnnounced
  KeepsNewest
  HostConnected
  ListedWhileHosting
  JoinerKnown

CONSTRAINT OneManager

CHECK_DEADLOCK FALSE
