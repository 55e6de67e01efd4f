--------------------------- MODULE MCLoginLimiter ---------------------------
(* LoginLimiter for TLC: four requests, three of them from one address.    *)
EXTENDS LoginLimiter, TLC

CONSTANTS a1, a2, a3, a4, ip1, ip2

MCIpOf == (a1 :> ip1) @@ (a2 :> ip1) @@ (a3 :> ip1) @@ (a4 :> ip2)

\* From the first the admin may raise the threshold and shorten the lockout,
\* together or one by one, and go back.
Settings == {[max |-> 2, lockout |-> 3], [max |-> 2, lockout |-> 1], [max |-> 3, lockout |-> 1]}

Interchangeable == Permutations({a1, a2, a3})
=============================================================================
