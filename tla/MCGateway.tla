------------------------------ MODULE MCGateway ------------------------------
EXTENDS Gateway

CONSTANTS t1

MCTabs   == {t1}
MCPasses == {1, 2}

Stored(d, m)     == [domain |-> d, mode |-> m, open |-> FALSE, hide |-> FALSE, port |-> 443]
Outside(d, b, t) == [dns |-> d, busy80 |-> b, taken |-> t]

\* A first set-up beside another web server; the same gateway after a restart,
\* its name lost from the DNS; and after a restart with port 80 taken.
MCStarts == {[posture |-> Stored("", ""), around |-> Outside({"d1"}, FALSE, TRUE)],
             [posture |-> Stored("d1", "builtin"), around |-> Outside({}, FALSE, FALSE)],
             [posture |-> Stored("d1", "builtin"), around |-> Outside({"d1"}, TRUE, FALSE)]}
=============================================================================
