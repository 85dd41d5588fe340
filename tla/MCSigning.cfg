SPECIFICATION Spec
CONSTANTS
  p1 = p1 p2 = p2 p3 = p3 r1 = r1 r2 = r2 r3 = r3 d1 = d1 d2 = d2
  Party = {p1, p2, p3}
  Threshold = 2
  Rank <- ColdLast
  Shards = {p1, p2, p3}
  Request = {r1, r2}
  None = None
  Digest <- OneDigest
  Allow <- Differing
  LastRound = 3
INVARIANTS TypeOK PolicyRespected VetoFinal NoLockLeftBehind
PROPERTIES VetoReported SignedOnce
\* every request has been made
CHECK_DEADLOCK FALSE
