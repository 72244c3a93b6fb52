SPECIFICATION FairSpec
CONSTANTS
  c1 = c1
  c2 = c2
  bad = bad
  None = None
  Torn = Torn
  Configs <- MCConfigs
  Valid <- MCValid
  Empty <- c2
  IdleOnEmpty = TRUE
  MaxBackoff = 4
  MaxOps = 3
  MaxFaults = 3
  MaxStarts = 5
INVARIANTS TypeOK OneChild ServesTheFile RolledBackIsBefore
PROPERTIES OnlyCallersRevive CrashRecovers KeepsContract
\* An idle engine rests: its supervisor only polls, which changes nothing.
CHECK_DEADLOCK FALSE
