SPECIFICATION Spec
CONSTANTS
  RingSize = 2
  Workers <- MCWorkers
  Ports <- MCPorts
  nobody = nobody
  Nobody = nobody
  Scenes <- MCScenes
  Chunks = 3
  PumpLimit = 1
  BufCap = 2
INVARIANTS
  WorkersAgree
  AcceptedAreServed
  SessionsOwned
  ResponsesWhole

  
CHECK_DEADLOCK FALSE
