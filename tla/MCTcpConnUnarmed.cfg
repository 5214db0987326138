CONSTANTS
  Clients <- MCLong
  Wnd = 2
  Retries = 1
  SynRetries = 0
  MaxOpens <- MCOpens
  MaxLoss = 1
  MaxDup = 0
SPECIFICATION Spec
CHECK_DEADLOCK FALSE
INVARIANT InFlightIsArmed
