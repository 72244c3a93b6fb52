------------------------------ MODULE MCEngine ------------------------------
(***************************************************************************)
(* The instance of Engine that TLC checks: two renderings, one of them the *)
(* empty one, and a third that `check` refuses.                            *)
(***************************************************************************)
EXTENDS Engine

CONSTANTS c1, c2, bad

MCConfigs == {c1, c2, bad}
MCValid   == {c1, c2}
=============================================================================
