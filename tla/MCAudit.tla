------------------------------- MODULE MCAudit -------------------------------
(***************************************************************************)
(* The record seen from one or two tabs.                                   *)
(***************************************************************************)
EXTENDS Audit, TLC

CONSTANTS t1, t2

MCPage   == {t1}
MCPages  == {t1, t2}
Symmetry == Permutations(MCPages)
=============================================================================
