CONSTANTS
  f1 = f1
  f2 = f2
  f3 = f3
  FaultIds = {f1, f2, f3}
  NoFault = NoFault
  Main = Main
  Sig = Sig
  Scenarios <- MCOverlap
SPECIFICATION Spec
INVARIANT FaultIsRecorded
