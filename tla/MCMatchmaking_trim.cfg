\* The lobby again: a sign the pool pushed out, which its owner then removes.
SPECIFICATION Spec

CONSTANTS
  ann = ann
  bob = bob
  ConnLimit = 3
  Players = {ann, bob}
  NoPlayer = nobody
  Areas = {a}
  MaxEntries = 1
  MatchesWith <- AnnMatchesAll
  SignLimit = 2
  Games = {g, h}
  MatchLimit = 2

INVARIANT
  RemovalTold

CONSTRAINT OneManager

CHECK_DEADLOCK FALSE
