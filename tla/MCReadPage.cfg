SPECIFICATION FairAccessSpec
CONSTANTS
  d1 = d1
  d2 = d2
  a1 = a1
  a2 = a2
  Devices = {d1}
  Names = {"phone"}
  Keys = {"K1", "K2"}
  InitialKey = "K1"
  Tokens = {"t"}
  Codes = {1}
  MaxActive = 2
  MaxRevocations = 2
  MaxEpoch = 2
  Admins = {a1}
  RosterPage = 2
  PageBytes = 3
  None = None
PROPERTY ReadsEnd
CHECK_DEADLOCK FALSE
