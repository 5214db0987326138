CONSTANTS
  NWorkers = 2
  RingSize = 2
  NSlots = 2
  NTcbs = 2
  MaxBurst = 2
  Scenes <- MCScenes
SPECIFICATION FairSpec
INVARIANTS
  GeneratorsKnown
  
  FlowUsesOwn
PROPERTIES
  FlowsEnd
  StopStops
CHECK_DEADLOCK FALSE
