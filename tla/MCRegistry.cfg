SPECIFICATION Spec
CONSTANTS
  d1 = d1
  d2 = d2
  Devices = {d1, d2}
  Names = {"phone", "laptop"}
  Keys = {"K1", "K2"}
  InitialKey = "K1"
  Tokens = {"t", "u"}
  Codes = {1, 2, 3}
  MaxActive = 2
  MaxRevocations = 2
  MaxEpoch = 5
  None = None
SYMMETRY SymmetricDevices
INVARIANTS RosterIsRegistry ChainVerifies RevocationIsFinal
CHECK_DEADLOCK FALSE
