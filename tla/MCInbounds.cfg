SPECIFICATION Spec
CONSTANTS
  t1 = t1
  t2 = t2
  Tabs <- MCTabs
  Domains = {"d1", "d2"}
  Ports = {1, 2, 3}
  Rows <- MCRows
  Fronted = {2}
  MaxMoves = 3
  MaxFaults = 1
INVARIANTS CertsAreReal 
PROPERTIES AutoRenewKept
SYMMETRY Sym
\* Once the bounds are spent and every request has answered, nothing is left to do.
CHECK_DEADLOCK FALSE
