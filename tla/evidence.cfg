SPECIFICATION EvidenceSpec
CONSTANTS
  visitor = visitor
  toSigner = toSigner
  toSender = toSender
  Slots = {visitor, toSigner, toSender}
  Jobs = {toSigner, toSender}
  Own = toSigner
  Nobody = Nobody
  Nothing = Nothing
  Entries <- Events
  Stored <- Kept
  MaxBatch = 1
  MaxRows = 6
  DocCount = 2
  FileNames = {contract, annex}
  contract = contract
  annex = annex
  MaxSigners = 4
  MaxLegacy = 16
  MaxVisits = 1
  MaxDrops = 2
SYMMETRY Renamed
INVARIANTS
  CertificateIsTrue
  CertificateFits
  MailIsOnRecord
  VerdictIsOfFile
CHECK_DEADLOCK FALSE
