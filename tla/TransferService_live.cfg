SPECIFICATION FairSpec
CONSTANTS
  Requests <- FourRequests
  TransferOf <- MixedTransfers
  Opening <- TwoWallets
  MaxBalance = 4
  Capacity = 2
  BatchSize = 2
  DbFaults = {}
  CanCancel = FALSE
  CanStop = TRUE
  MaxOutside = 1
INVARIANTS
  FirstComeFirstServed
PROPERTIES
  EveryJobAnswered
  WorkerStops
CHECK_DEADLOCK FALSE
