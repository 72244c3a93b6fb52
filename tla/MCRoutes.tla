------------------------------- MODULE MCRoutes -------------------------------
(* A group of one domain and one domain outside it, two pages; at first the *)
(* one leaves through WARP, by a rule that was captured, the other directly. *)
EXTENDS Routes

MCPreset  == <<"claude">>
MCLoose   == {"shop"}
MCOut     == {"direct", "warp"}
MCAtFirst == {[id |-> 1, value |-> "claude", outbound |-> "warp", enabled |-> TRUE, order |-> 0,
               source |-> "captured"],
              [id |-> 2, value |-> "shop", outbound |-> "direct", enabled |-> TRUE, order |-> 1,
               source |-> "custom"]}

TabSymmetry == Permutations(Tabs)
=============================================================================
