SPECIFICATION FairSpec
CONSTANTS
  MaxWallet = 3
  Sessions = {s1, s2, s3}
  s1 = s1
  s2 = s2
  s3 = s3
  NoSession = NoSession
  Operations <- RingOps
  Opening <- ThreeWallets
  MaxBalance = 3
  MaxOps = 3
  Faults = FALSE
INVARIANTS
  NoCircularWait
PROPERTIES
  EveryOperationEnds
CHECK_DEADLOCK FALSE
