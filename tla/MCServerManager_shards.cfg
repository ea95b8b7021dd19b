\* Ann asks twice and Bob once; the process may be told to quit.
SPECIFICATION FairSpec

CONSTANTS
  r1 = r1
  r2 = r2
  r3 = r3
  ann = ann
  bob = bob
  Requests = {r1, r2, r3}
  Users = {ann, bob}
  UserOf <- AnnTwice
  Default = default
  Entrances = {default}
  NoServer = none
  MayQuit = TRUE

INVARIANTS
  TypeOK
  WaiterServed
  HandlerServerAlive

PROPERTIES
  RequestAnswered
  LoopTurns

\* The process ends.
CHECK_DEADLOCK FALSE
