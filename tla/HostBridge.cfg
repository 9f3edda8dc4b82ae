SPECIFICATION FairSpec
CONSTANTS
  Browsers = {b1, b2}
  Peers = {m1, m2}
  None = None
  Other = Other
  MaxConns = 2
  MaxRequests = 4
  Batches = {2}
INVARIANTS
  CleanPipe
  OneConnection
  BridgeAdmitted
  CommandsInOrder
PROPERTY EveryMessageAnswered
CHECK_DEADLOCK FALSE
