\* A login of two steps, two idle requests and two pushes; payloads of one fragment
\* to three.
SPECIFICATION FairSpec

CONSTANTS
  Client = Client
  Server = Server
  MaxFragmentLength = 2
  LengthLimit = 8
  Sizes = {1, 3, 5}
  LoginSteps = 2
  IdleLimit = 2
  PushLimit = 2

INVARIANTS
  TypeOK
  InOrder
  OutstandingAccounted
  OnlyPushesFail

PROPERTIES
  AwaitedAnswer
  LoginEnds

CHECK_DEADLOCK FALSE
