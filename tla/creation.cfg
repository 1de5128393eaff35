SPECIFICATION LimitedSpec
CONSTANTS
  Requests = {r1, r2, r3}
  Live = {r1, r2}
  Keys = {k1}
  NoKey = NoKey
  Quota = 1
  MayDie = TRUE
  quick = quick
  slow = slow
  BucketKeys = {quick, slow}
  Capacity <- Capacities
  Refill <- Refills
  Part = 4
  PruneAbove = 1
  MaxAge = 2
  MaxTime = 5
  MaxRestarts = 1
INVARIANTS
  OncePerKey
  AnswerIsOwn
  OvershootBounded
  RateIsKept
PROPERTIES
  NoKeyStuck
CHECK_DEADLOCK FALSE
