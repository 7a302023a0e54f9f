SPECIFICATION AccessSpec
CONSTANTS
  d1 = d1
  d2 = d2
  a1 = a1
  a2 = a2
  Devices = {d1}
  Names = {"phone", "tablet"}
  Keys = {"K1", "K2"}
  InitialKey = "K1"
  Tokens = {"t"}
  Codes = {1}
  MaxActive = 2
  MaxRevocations = 2
  MaxEpoch = 5
  Admins = {a1, a2}
  RosterPage = 2
  PageBytes = 4
  None = None
SYMMETRY SymmetricAdmins
INVARIANTS ReadBootstraps TerminalViewVerifies
PROPERTY RejectionSparesMembers
CHECK_DEADLOCK FALSE
