SPECIFICATION FairSpec
CONSTANTS
  c1 = c1
  c2 = c2
  c3 = c3
  d1 = d1
  None = None
  Devices <- OneDevice
  Conns <- Pair
  DeviceOf <- DeviceOfPair
  MaxVersion = 2
PROPERTIES RetiredIsReleased UnauthorizedLeaves
