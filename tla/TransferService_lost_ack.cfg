SPECIFICATION Spec
CONSTANTS
  Requests <- ThreeRequests
  TransferOf <- MixedTransfers
  Opening <- TwoWallets
  MaxBalance = 4
  Capacity = 2
  BatchSize = 2
  DbFaults = {"lostAck"}
  CanCancel = FALSE
  CanStop = FALSE
  MaxOutside = 0
INVARIANTS
  OkExactlyOnce
CHECK_DEADLOCK FALSE
