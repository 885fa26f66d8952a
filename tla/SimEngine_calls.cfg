SPECIFICATION Spec
CONSTANTS
  k1 = k1
  k2 = k2
  none = none
  c1 = c1
  c2 = c2
  c3 = c3
  Keys = {k1, k2, none}
  NoKey = none
  Wallets = {1, 2, 3, 4, 5}
  SeedWallets = {1, 2}
  SeedTxs <- Seed
  Requests <- SomeRequests
  Calls = {c1, c2, c3}
INVARIANTS
  TypeOK
  BookOfRecord
  OncePerKey
PROPERTIES
  SerialBook
  EveryCallEnds
CHECK_DEADLOCK FALSE
