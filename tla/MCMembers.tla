------------------------------ MODULE MCMembers ------------------------------
(***************************************************************************)
(* Members on two inbounds and one that is made later: one user on both,   *)
(* with its bundle, and an email that is free.                             *)
(***************************************************************************)
EXTENDS Members, TLC

CONSTANTS t1, t2, ann, bob, none

MCTabs     == {t1, t2}
MCInbounds == {1, 2, 3}
MCFirst    == {1, 2}
MCRows     == {[id |-> 1, ib |-> 1, email |-> ann, on |-> TRUE, who |-> 0],
               [id |-> 2, ib |-> 2, email |-> ann, on |-> TRUE, who |-> 0]}
MCEmails   == {ann, bob}
Symmetry   == Permutations({t1, t2})
=============================================================================
