\* Three TCBs on a wheel of two slots.
CONSTANTS
  N = 3
  Slots = 2
  Idle = 2
  Loads <- MCLoads
SPECIFICATION Spec
INVARIANTS
  WheelChains
  
