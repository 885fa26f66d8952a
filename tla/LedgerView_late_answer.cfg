SPECIFICATION Spec
CONSTANTS
  LiveWallets <- LiveIds
  SimWallets <- SimIds
  NewWallets <- NewIds
  Movements <- Moves
  MaxBook = 3
  MaxReads = 2
  MaxRevision = 1
  InOrder = FALSE
INVARIANTS
  OwnRows
CHECK_DEADLOCK FALSE
