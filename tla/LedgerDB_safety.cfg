SPECIFICATION Spec
CONSTANTS
  MaxWallet = 3
  Sessions = {s1, s2}
  s1 = s1
  s2 = s2
  s3 = s3
  NoSession = NoSession
  Operations <- LedgerOps
  Opening <- TwoWallets
  MaxBalance = 3
  MaxOps = 3
  Faults = TRUE
SYMMETRY Symmetry
INVARIANTS
  TypeOK
  Reconciled
  NoLostUpdate
  CheckedFundsHold
  BookSums
PROPERTIES
  RepliesTruthful
  
  SerialSpec
CHECK_DEADLOCK FALSE
