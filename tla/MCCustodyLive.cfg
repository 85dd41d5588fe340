SPECIFICATION LiveSpec
CONSTANTS
  Party = {p1, p2}
  Threshold = 2
  Instance = {i1, i2}
  NoInst = NoInst
  LastRound = 3
  TotalLoss = FALSE
PROPERTIES LocksReleased CeremoniesComplete
\* without faults the ceremonies run out
CHECK_DEADLOCK FALSE
