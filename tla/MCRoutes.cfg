CONSTANTS
  t1 = t1
  t2 = t2
  Tabs = {t1, t2}
  Preset <- MCPreset
  Loose <- MCLoose
  OUTBOUNDS <- MCOut
  AtFirst <- MCAtFirst
  MaxRules = 4
  MaxMoves = 3
SPECIFICATION RoutesSpec
INVARIANTS  IdentityStaysWhole OnePoller
PROPERTIES ViewingRoutesNothing
SYMMETRY TabSymmetry
CHECK_DEADLOCK FALSE
