----------------------------- MODULE MCForwarding -----------------------------
(* Forwarding for TLC: one target of either service, edited by two admins  *)
(* while two calls come in.                                                *)
EXTENDS Forwarding
=============================================================================
