--------------------------- MODULE ConnectionLog ----------------------------
(***************************************************************************)
(* What connections.Registry promises its Observer, the connection         *)
(* history: each connection is reported opened once, then closed once with *)
(* a reason, and nothing is reported of it afterwards.                     *)
(***************************************************************************)
EXTENDS Sequences

CONSTANTS
  Conns,
  Reasons   \* why a connection may have ended

VARIABLE log   \* log[c]: what the observer has been told of c, in order

Init == log = [c \in Conns |-> <<>>]

Open(c) ==
  /\ log[c] = <<>>
  /\ log' = [log EXCEPT ![c] = <<"opened">>]

Close(c) == \E r \in Reasons :
  /\ log[c] = <<"opened">>
  /\ log' = [log EXCEPT ![c] = <<"opened", r>>]

Next == \E c \in Conns : Open(c) \/ Close(c)

Spec == Init /\ [][Next]_log
=============================================================================
