------------------------------ MODULE MCQuota ------------------------------
(***************************************************************************)
(* The instance of Quota that TLC checks: one request handler beside the   *)
(* background loops, and the one edit of a user that does everything at    *)
(* once: lift the block, forget the usage and take the first inbound away. *)
(***************************************************************************)
EXTENDS Quota

CONSTANTS a1

MCAdmins == {a1}

MCRequests == {[on |-> "on", reset |-> TRUE, move |-> TRUE, at |-> {"xray"}]}
=============================================================================
