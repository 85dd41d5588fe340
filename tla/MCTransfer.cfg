SPECIFICATION FairSpec
CONSTANTS
  p1 = p1 p2 = p2 p3 = p3 a1 = a1 a2 = a2 q1 = q1 c1 = c1 c2 = c2
  Party = {p1, p2, p3}
  Threshold = 2
  Address = {a1, a2}
  Star = Star
  None = None
  File <- Files
  Prep = {q1}
  Wanted <- Payments
  Cast = {c1, c2}
  Outside <- Brought
  Alien <- Foreign
  Wallet = Wallet Other = Other Garbled = Garbled
  NodeChain = 1
  MaxSigned = 2
  MaxNonce = 2
INVARIANTS TypeOK OnlyApproved AnswerTrue
PROPERTIES NonceNotReused BroadcastEnds
