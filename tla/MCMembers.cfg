CONSTANTS
  t1 = t1
  t2 = t2
  ann = ann
  bob = bob
  none = none
  Tabs <- MCTabs
  Inbounds <- MCInbounds
  First <- MCFirst
  Single = {}
  Off = {2}
  Rows <- MCRows
  Emails <- MCEmails
  Nobody = none
  MaxClients = 6
  MaxMoves = 3
  MaxFlips = 1
  MaxFaults = 1
SPECIFICATION Spec
SYMMETRY Symmetry
CHECK_DEADLOCK FALSE
INVARIANTS SeedStands NoGhosts
PROPERTIES NeverOpens RevokedStays StaysOff
