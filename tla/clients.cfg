SPECIFICATION Spec
CONSTANTS
  Ids = {1, 2, 3}
  Times = {1, 2}
  IdemKeys = {k1}
  Fresh = Fresh
  DefaultLimit = 1
  MaxLimit = 2
  MaxLate = 1
  Existing = {1, 3}
  MaxCalls = 2
INVARIANTS
  LiveNeedsConfirmation
  WalkIsComplete
  RetryMakesOne
CHECK_DEADLOCK FALSE
