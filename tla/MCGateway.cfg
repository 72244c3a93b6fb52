SPECIFICATION GatewayFairSpec
CONSTANTS
  t1 = t1
  Tabs <- MCTabs
  Passes <- MCPasses
  Starts <- MCStarts
  Domains = {"d1"}
  AltPorts = {8443}
  MaxMoves = 2
INVARIANTS KnowsOnlyLiveServers
PROPERTIES  CertifiedInTheEnd
\* The ticker goes on for ever; nothing else need happen.
CHECK_DEADLOCK FALSE
