\* The quit signal, with a request in the making.
SPECIFICATION FairSpec

CONSTANTS
  r1 = r1
  r2 = r2
  r3 = r3
  ann = ann
  bob = bob
  Requests = {r1}
  Users = {ann, bob}
  UserOf <- AnnTwice
  Default = default
  Entrances = {default}
  NoServer = none
  MayQuit = TRUE

PROPERTY QuitEnds

CHECK_DEADLOCK FALSE
