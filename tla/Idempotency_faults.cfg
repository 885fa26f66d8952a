SPECIFICATION FairSpec
CONSTANTS
  Keys = {k1}
  Requests = {r1, r2, r4}
  KeyOf <- OneKey
  HashOf <- TwoPayloads
  Nobody = Nobody
  k1 = k1
  r1 = r1
  r2 = r2
  r4 = r4
  CanCrash = TRUE
  StoreFaults = TRUE
  CanGiveUp = TRUE
  SlowHandlers = FALSE
  Sweeping = TRUE
INVARIANTS
  OneOwner
  ReplayFaithful
  
PROPERTIES
  EveryRequestAnswered
  KeyComesFree
CHECK_DEADLOCK FALSE
