SPECIFICATION Spec
CONSTANTS
  LiveWallets <- LiveIds
  SimWallets <- SimIds
  NewWallets <- NewIds
  Movements = {}
  MaxBook = 3
  MaxReads = 2
  MaxRevision = 2
  Kinds = {"transfer", "deposit"}
  Amounts = {0, 105}
  MaxKeys = 3
  AttemptsKept = 1
INVARIANTS
  TypeOK
  
  AfterIncludesPosting
  AmountsRoundTrip
PROPERTIES
  SendEnds
CHECK_DEADLOCK FALSE
