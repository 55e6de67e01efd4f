------------------------------- MODULE MCHub --------------------------------
(* Hub for TLC: two connections of one account.                            *)
EXTENDS Hub, TLC

CONSTANTS c1, c2, alice

MCOwnerOf == (c1 :> alice) @@ (c2 :> alice)
=============================================================================
