SPECIFICATION Spec
CONSTANTS
  h1 = h1
  h2 = h2
  w1 = w1
  w2 = w2
  Hosts = {h1, h2}
  CacheSize = 2
  FrameSlots = 2
  NScenes <- MCNScenes
  Lcores = {w1, w2}
  TraceSlots = 2
  CountMod = 256
  MaxCaptures = 2
  MaxBursts = 2
  MaxBurst = 2
  NClients = 4
  Slots = 3
  MaxAsks = 2
  MaxLeaves = 1
INVARIANTS
  PingTellsTruth
  CaptureExact
  TableIsOpen
  AnswerReachesAsker

  
  
CHECK_DEADLOCK FALSE
