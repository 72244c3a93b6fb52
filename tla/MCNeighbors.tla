----------------------------- MODULE MCNeighbors -----------------------------
(***************************************************************************)
(* A host that had one address and may get another, two sites in a range.  *)
(***************************************************************************)
EXTENDS Neighbors

CONSTANTS t1, t2

MCAddrs == {1, 2}
MCSites == {1, 2}
MCPages == {t1, t2}
MCPage  == {t1}
=============================================================================
