SPECIFICATION Spec
CONSTANTS
  Tabs <- MCTabs
  Flows <- MCFlows
  Protos <- MCProtos
  Backend <- MCBackend
  Cdn <- MCCdn
  Edge <- MCEdge
  Xray <- MCXray
  Quick <- MCQuick
  DefaultPort <- MCDefault
  Whitelist <- MCWhitelist
  Reserved <- MCReserved
  MinPort = 1
  MaxPort = 6
  Taken <- MCTaken
  Typed <- MCTyped
  Domains <- MCDomains
  Worlds <- MCWorlds
  MaxMoves = 4
  MaxBatches = 2
  MaxFaults = 1
INVARIANTS  SocketsFit 
\* Once the bounds are spent every page waits for its operator.
CHECK_DEADLOCK FALSE
