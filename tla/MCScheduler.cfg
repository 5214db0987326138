SPECIFICATION UnattendedSpec
CONSTANTS
  Runners = {1, 2}
  Others = {11, 12}
  Jobs = {j}
  NoGroup = NoGroup
  None = None
  MaxRuns = 2
  Limit = 1
  f1 = f1
  f2 = f2
  f3 = f3
  NoFault = NoFault
  Main = Main
  Sig = Sig
  Scenarios <- MCScenarios
CHECK_DEADLOCK FALSE
INVARIANTS
  
  ResultIsTrue
  
PROPERTIES
  CronServed
  StopEnds
  
