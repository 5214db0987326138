SPECIFICATION Spec
CONSTANTS
  RingSize = 2
  Workers <- MCWorkers
  Ports <- MCPorts
  nobody = nobody
  Nobody = nobody
  Scenes <- MCScenes
  Chunks = 3
  PumpLimit = 1
  BufCap = 2
PROPERTIES
  OnlyListenersAccept
CHECK_DEADLOCK FALSE
