SPECIFICATION Spec
CONSTANTS
  t1 = t1
  t2 = t2
  direct = direct
  edge = edge
  broken = broken
  ssh = ssh
  panel = panel
  pub = pub
  Threads <- MCThreads
  Startup = t1
  Inbounds <- MCInbounds
  EngineOf <- MCEngineOf
  PortOf <- MCPortOf
  Edge <- MCEdge
  Shielded <- MCEdge
  Bad <- MCBad
  Ports <- MCPorts
  SafePorts <- MCSafe
  UserPorts <- MCUser
  MaxChanges = 3
  MaxFaults = 1
INVARIANTS OneApplyCures
 
\* Once the bounds are spent and every Apply has answered, the panel rests.
CHECK_DEADLOCK FALSE
