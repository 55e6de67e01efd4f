----------------------------- MODULE MCStream -------------------------------
(* Stream for TLC: the streams of one account, which are alike.            *)
EXTENDS Stream, TLC

CONSTANT alice

MCUserOf == [l \in Listeners |-> alice]
=============================================================================
