SPECIFICATION ImportSpec
CONSTANTS
  TemplateSlots = {t1, t2}
  EnvelopeSlots = {e1}
  Pdf <- Files
  NoAnchor = NoAnchor
  Shares = {10, 100}
  Source = {"lease", "offer", "notice", "misplaced"}
  Detail <- Details
  Accounts <- AnyAccount
  Selections <- AllOrTwo
  Coerced = {"email"}
  Dropped = {"formula"}
  NoDocument = NoDocument
  Listing = 2
  MaxRetries = 1
  MaxRuns = 2
  MaxChanges = 1
INVARIANTS
  ReportIsTrue
  InkWhereTabsWere
CHECK_DEADLOCK FALSE
