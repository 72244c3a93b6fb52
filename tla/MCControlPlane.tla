--------------------------- MODULE MCControlPlane ---------------------------
(***************************************************************************)
(* The instance of ControlPlane that TLC checks: a direct inbound on       *)
(* sing-box, an edge-bound one on xray and one that xray refuses.  The     *)
(* panel's port is also open by a rule of the operator's own.              *)
(***************************************************************************)
EXTENDS ControlPlane

CONSTANTS t1, t2, direct, edge, broken, ssh, panel, pub

MCThreads  == {t1, t2}
MCInbounds == {direct, edge, broken}
MCEngineOf == [i \in MCInbounds |-> IF i = direct THEN "singbox" ELSE "xray"]
MCPortOf   == [i \in MCInbounds |-> IF i = broken THEN ssh ELSE pub]
MCEdge     == {edge}
MCBad      == {broken}
MCPorts    == {ssh, panel, pub}
MCSafe     == {ssh, panel}
MCUser     == {panel}
=============================================================================
