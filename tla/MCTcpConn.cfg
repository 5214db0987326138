CONSTANTS
  Clients <- MCClients
  Wnd = 2
  Retries = 1
  SynRetries = 0
  MaxOpens <- MCOpens
  MaxLoss = 1
  MaxDup = 1
SPECIFICATION FairSpec
CHECK_DEADLOCK FALSE
INVARIANTS
  InOrder
  BufferAligned
PROPERTIES
  ClientEnds
