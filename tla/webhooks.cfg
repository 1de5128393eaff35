SPECIFICATION FairSpec
CONSTANTS
  Events = {e1}
  Endpoints = {p1, p2}
  Crons = {c1, c2}
  MaxAttempts = 3
  BatchSize = 2
  NoDelivery = NoDelivery
  MayDie = TRUE
INVARIANTS
  NotSentAgain
PROPERTIES
  EveryDeliverySettles
CHECK_DEADLOCK FALSE
