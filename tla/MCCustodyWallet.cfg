SPECIFICATION ProvisionedSpec
CONSTANTS
  Party = {p1, p2, p3}
  Threshold = 2
  Instance = {i1, i2, i3}
  NoInst = NoInst
  LastRound = 3
  TotalLoss = FALSE
SYMMETRY Symmetric
INVARIANT WalletKeyPreserved
\* every instance has been used: callers ask for nothing more
CHECK_DEADLOCK FALSE
