SPECIFICATION Spec
CONSTANTS
  Keys = {k1}
  Requests = {r1, r2, r4}
  KeyOf <- OneKey
  HashOf <- TwoPayloads
  Nobody = Nobody
  k1 = k1
  r1 = r1
  r2 = r2
  r4 = r4
  CanCrash = TRUE
  StoreFaults = FALSE
  CanGiveUp = FALSE
  SlowHandlers = FALSE
  Sweeping = FALSE
SYMMETRY Retries
INVARIANTS
  AtMostOneEffect
CHECK_DEADLOCK FALSE
