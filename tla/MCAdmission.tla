----------------------------- MODULE MCAdmission -----------------------------
(* Two clients' addresses, one of which a restart may make trusted, under one
   range that holds both and one that holds one. *)
EXTENDS Admission

CONSTANTS home, away

MCAddresses == {home, away}
MCRanges == {{home}, {home, away}}
MCTrustLists == {{}, {away}}

Load(addresses, changes, connections, posts, faults) ==
  [block |-> addresses, key |-> changes, connection |-> connections, upload |-> posts, fault |-> faults]
MCLoads ==
  {Load(2, 0, 0, 0, 1), Load(1, 0, 2, 0, 1), Load(0, 3, 0, 0, 0), Load(0, 2, 0, 1, 0), Load(1, 0, 1, 1, 0)}
=============================================================================
