------------------------------ MODULE MCTrMqtt ------------------------------
(* Two requests at a time about one instance; which of them is which makes no
   difference. *)
EXTENDS TrMqtt, TLC

Symmetry == Permutations(Requests)
=============================================================================
