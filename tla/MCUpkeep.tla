------------------------------ MODULE MCUpkeep ------------------------------
(***************************************************************************)
(* One page, a version that is installed and a newer one that comes up or  *)
(* does not, and a few moves of the operator, crashes and failures.        *)
(***************************************************************************)
EXTENDS Upkeep
=============================================================================
