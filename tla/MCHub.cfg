SPECIFICATION Spec
CONSTANTS
  c1 = c1
  c2 = c2
  c3 = c3
  d1 = d1
  None = None
  Devices <- OneDevice
  Conns <- Trio
  DeviceOf <- DeviceOfTrio
  MaxVersion = 1
SYMMETRY SymmetricTrio
INVARIANTS NoOverlap RevocationIsObserved SlotMatchesSession
