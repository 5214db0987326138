CONSTANTS
  Faults = {g1, g2}
  NoFault = NoFault
  MaxFails = 1
  f1 = f1
  f2 = f2
  f3 = f3
  Main = Main
  Sig = Sig
SPECIFICATION FaultsSpec
INVARIANTS
  
  ExitRestores
  DryRunIsDry
  RuleInPlace
  
