SPECIFICATION Spec
CONSTANTS
  Requests <- FourRequests
  TransferOf <- MixedTransfers
  Opening <- TwoWallets
  MaxBalance = 4
  Capacity = 2
  BatchSize = 2
  DbFaults = {"abort"}
  CanCancel = TRUE
  CanStop = FALSE
  MaxOutside = 0
INVARIANTS
  TypeOK
  AtMostOnce
  RepliesTruthful
  NeverStranded
  InnocentNeverRefused
  GaveUpInTime
CHECK_DEADLOCK FALSE
