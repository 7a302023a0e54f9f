SPECIFICATION Spec
CONSTANTS
  r1 = r1
  r2 = r2
  Requests <- TwoRequests
  MaxCredentials = 2
  MaxSessions = 2
  MaxSecrets = 1
  MaxSteps = 2
  MaxRestarts = 1
SYMMETRY Symmetric
INVARIANTS ManagersAreSetUp OnlyReplacerSurvives CodesAreAcceptedOnce
CHECK_DEADLOCK FALSE
