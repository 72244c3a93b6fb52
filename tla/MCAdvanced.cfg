SPECIFICATION Spec
CONSTANTS
  t1 = t1
  t2 = t2
  Tabs <- MCTabs
  Origins <- MCOrigins
  Grants <- MCGrants
  Entries = {"e1"}
  Recommended = {"e1"}
  Networks = {"n1"}
  Policies = {"p1", "p2"}
  MaxMoves = 3
INVARIANTS RedactIsLive TunnelFeedsOrigin 
 
SYMMETRY Sym
\* Once the bounds are spent and every request has answered, nothing is left to do.
CHECK_DEADLOCK FALSE
