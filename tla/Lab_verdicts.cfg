SPECIFICATION Spec
CONSTANTS
  Faults <- AllFaults
  Moves <- TakeAndGive
  BatchSizes = {2}
  Amounts <- Most
  MaxClicks = 2
  MaxMishaps = 1
PROPERTIES
  VerifiedMeansSo
  SoundIsVerified
  ExperimentsEnd
CHECK_DEADLOCK FALSE
