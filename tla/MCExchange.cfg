SPECIFICATION FairSpec
CONSTANTS
  p1 = p1 p2 = p2 p3 = p3
  Member = {p1, p2, p3}
  Outsider = {o1}
  Repeated <- OneChannel
  Ceremony = "sign"
INVARIANTS TypeOK OnlyGenuine NothingNeededDropped
PROPERTIES KeepsRounds AllFinish
\* finished or failed members stop
CHECK_DEADLOCK FALSE
