SPECIFICATION Spec
CONSTANTS
  d1 = d1
  d2 = d2
  s1 = s1
  s2 = s2
  None = None
  Devices <- TwoDevices
  Managed <- OneManaged
  Slots <- TwoSlots
  MaxToken = 3
  MaxCodes = 2
  MaxRevision = 2
SYMMETRY Symmetric
INVARIANTS NoLostUpdate LateRequestsChangeNothing NeverLockedOut
CHECK_DEADLOCK FALSE
