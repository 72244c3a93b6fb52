------------------------------ MODULE MCAdvanced ------------------------------
EXTENDS Advanced, TLC

CONSTANTS t1, t2

\* The inbound made for the tunnel and that of the edge.
Inbound(i, a, e, p) == [id |-> i, argo |-> a, edge |-> e, standby |-> p, on |-> ~p]
MCOrigins == {Inbound(1, TRUE, FALSE, FALSE), Inbound(2, FALSE, TRUE, FALSE)}
MCGrants  == {<<"ann", 1>>, <<"bob", 2>>}
MCTabs    == {t1, t2}
Sym       == Permutations(MCTabs)
=============================================================================
