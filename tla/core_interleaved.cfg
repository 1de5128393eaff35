SPECIFICATION FairSpec
CONSTANTS
  alice = alice
  bob = bob
  carol = carol
  NoOne = NoOne
  Recipients = {alice, bob, carol}
  Signers = {alice, bob, carol}
  Order <- OneByOne
  DocCount = 1
  Name <- OneName
  Owners <- AllOwn
  Slots = {s1, s2}
  Kinds = {"send", "consent", "sign"}
  Faults = {}
  MaxConsents = 1
  MaxExpired = 0
INVARIANTS
  CompletionIsEarned
  NoLostCompletion
  NotifiedInTurn
  ConsentBeforeSigning
PROPERTIES
  KeepsPromise
  SignedCompletesOrReset
CHECK_DEADLOCK FALSE
