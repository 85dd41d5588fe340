SPECIFICATION Spec
CONSTANTS
  Request = {r1, r2, r3}
  Reader = {x1}
  SealKey = {s1, s2}
  Plain = Plain
  None = None
  Torn = Torn
SYMMETRY Symmetric
PROPERTY RefreshEnablesSealing
\* the requests are bounded and an idle store may stay idle
CHECK_DEADLOCK FALSE
