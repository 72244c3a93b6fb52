----------------------------- MODULE MCWizard -----------------------------
(***************************************************************************)
(* The instance of Wizard that TLC checks: the full wizard in one page and *)
(* a scenario or the quick set in another, three protocols, six ports.     *)
(***************************************************************************)
EXTENDS Wizard

MCTabs == {"one", "two"}
MCFlows == [one |-> {"full"}, two |-> {"quick"}]
MCProtos == {"vless-ws", "xhttp", "reality"}
MCBackend == [p \in MCProtos |-> p]
MCCdn == {"vless-ws", "xhttp"}
MCEdge == {"vless-ws"}
MCXray == {"xhttp"}
MCQuick == {{"reality", "vless-ws"}}
MCDefault == [p \in MCProtos |-> CASE p = "reality" -> 2 [] p = "vless-ws" -> 3 [] OTHER -> 4]
MCWhitelist == {3, 4}
MCReserved == {1}
MCTaken == {2}
MCTyped == {3}
MCDomains == {"d"}
W(n, x, e) == [node |-> n, installed |-> x, edgeName |-> e]
MCWorlds == {W("dual", TRUE, TRUE), W("v4only", FALSE, TRUE), W("nat", TRUE, FALSE)}
=============================================================================
