SPECIFICATION Spec
CONSTANTS
  c1 = c1
  c2 = c2
  a1 = a1
  a2 = a2
  Conns <- Clients
  Addresses <- TwoAddresses
  Limit = 2
  MaxEntries = 1
  Window = 2
  MaxConcurrent = 1
  MaxTries = 2
  MaxTime = 2
  MaxVersion = 2
INVARIANTS SlotsMatchHolders AtMostTwoWindows ServedVersionIsProved
PROPERTIES RefusalIsJustified HandshakesEnd
CHECK_DEADLOCK FALSE
