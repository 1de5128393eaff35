SPECIFICATION FairSpec
CONSTANTS
  signed = signed
  declined = declined
  declinedNoReason = declinedNoReason
  Nobody = Nobody
  Slots = {t1, t2, t3}
  Entries = {signed, declined, declinedNoReason}
  Stored <- JsonColumn
  MaxBatch = 2
  MaxRows = 2
INVARIANTS
  ChainIntact
PROPERTIES
  KeepsLog
  AppendEnds
CHECK_DEADLOCK FALSE
