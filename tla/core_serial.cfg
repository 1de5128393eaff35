SPECIFICATION Spec
CONSTANTS
  alice = alice
  bob = bob
  carol = carol
  NoOne = NoOne
  Recipients = {alice, bob, carol}
  Signers = {alice, bob, carol}
  Order <- TwoThenOne
  DocCount = 2
  Name <- TwoNames
  Owners <- BobsAnnex
  Slots = {s1}
  Kinds = {"send", "consent", "sign", "decline", "void"}
  Faults = {"abort", "expire"}
  MaxConsents = 1
  MaxExpired = 1
INVARIANTS
  CompletedIsConsistent
  EventsAreTrue
PROPERTIES
  NextSignerSeesPrior
CHECK_DEADLOCK FALSE
