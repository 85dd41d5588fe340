SPECIFICATION LiveSpec
CONSTANTS
  Serial = {1, 2, 3, 4, 5, 6}
  Home = Home Host = Host Ca = Ca
  orchestrator = orchestrator cosigner0 = cosigner0 cosigner1 = cosigner1
  Leaves <- XtaskLeaves
  Enrolled <- CsrPlaces
  None = None Torn = Torn
  MaxMishaps = 2
INVARIANT LeavesChain
PROPERTIES Additive RemedyWorks
\* an operator who has everything may rest
CHECK_DEADLOCK FALSE
