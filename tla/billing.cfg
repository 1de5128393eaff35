SPECIFICATION FairBillingSpec
CONSTANTS
  Subs = {s1, s2}
  NoSub = NoSub
  MaxChanges = 4
  MaxOutbox = 3
INVARIANTS
  PaysForPlan
PROPERTIES
  LapsedIsSwept
CHECK_DEADLOCK FALSE
