------------------------------ MODULE MCInbounds ------------------------------
EXTENDS Inbounds, TLC

CONSTANTS t1, t2

\* One inbound with an issued certificate and one behind the CDN.
MCRows == {[id |-> 1, on |-> TRUE, port |-> 1, cert |-> "d1"],
           [id |-> 2, on |-> FALSE, port |-> 2, cert |-> "self"]}
\* One inbound with the pair made at installation, no certificate issued yet.
MCSelf == {[id |-> 1, on |-> TRUE, port |-> 1, cert |-> "self"]}
MCTabs == {t1, t2}
Sym    == Permutations(MCTabs)
=============================================================================
