CONSTANTS
  k1 = k1
  k2 = k2
  k3 = k3
  k4 = k4
  m1 = m1
  m2 = m2
  mm = mm
  Capacity = 2
  HtSize = 4
  NoTuple = NoTuple
  Tuples <- MCTuples
  V4 <- MCV4
  Keys <- MCKeys
  Key <- MCKey
  Hash <- MCHash
  ip1 = ip1
  ip2 = ip2
  ip3 = ip3
  IPs <- MCIPs
  Zero = Zero
  NIpSlots = 1
  Home <- MCHome
  Cnt = 2
  RingSize = 3
  Hold = 1
  ft = ft
  fu = fu
SPECIFICATION TablesSpec
INVARIANTS
  Inv
  LookupExact
  PortsExact
  HoldOffKept
  
PROPERTIES
  ImplementsConnTable
  PortComesBack
  AckIsSent
