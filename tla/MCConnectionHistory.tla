------------------------- MODULE MCConnectionHistory --------------------------
(* ConnectionHistory for TLC: two connections, so that an event of one is  *)
(* queued behind, or dropped for, an event of the other.                   *)
EXTENDS ConnectionHistory
=============================================================================
