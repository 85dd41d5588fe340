SPECIFICATION Spec
CONSTANTS
  Member = {p1, p2}
  LastRound = 3
  RunTtl = 2
  UnclaimedTtl = 4
  HttpTimeout = 3
  Horizon = 7
SYMMETRY Symmetric
PROPERTY LiveRunNeverCut
\* the modelled time ends
CHECK_DEADLOCK FALSE
