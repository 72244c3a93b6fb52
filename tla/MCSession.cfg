SPECIFICATION FairSpec
CONSTANTS
  tab1 = tab1
  tab2 = tab2
  n0 = n0
  n1 = n1
  p0 = p0
  p1 = p1
  r1 = r1
  Tabs <- MCTabs
  Names <- MCNames
  Pws <- MCPws
  Codes <- MCCodes
  FirstAdmin <- MCFirstAdmin
  Forms <- MCForms
  MaxMoves = 2
  MaxFaults = 1
INVARIANTS EnrolledWasProved
 
\* Once the bounds are spent and every answer is heard, a login page may wait.
CHECK_DEADLOCK FALSE
