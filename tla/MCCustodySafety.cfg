SPECIFICATION Spec
CONSTANTS
  Party = {p1, p2, p3}
  Threshold = 2
  Instance = {i1, i2}
  NoInst = NoInst
  LastRound = 3
  TotalLoss = FALSE
SYMMETRY Symmetric
INVARIANTS TypeOK KeyAgreement ActiveAgrees QuorumBehindActive
PROPERTIES RefreshReplacesAll CeremoniesKeepRounds StoresKeepSlots
