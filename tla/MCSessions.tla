----------------------------- MODULE MCSessions -----------------------------
(* Sessions for TLC: interchangeable handlers, and states that differ only *)
(* in what has run out taken for one.                                      *)
EXTENDS Sessions, TLC

Interchangeable == Permutations(Requests)

Fresh(S) == {g \in S : ~Expired(g)}

\* What any step or property still looks at.  An expired access token is turned
\* away whoever tracks or denies it, and its age is asked for only to find the
\* oldest live row; of validFrom, only which tokens it refuses, as new ones are
\* never older; a denial or cache entry past its time reads as none; a lapsed row
\* that is gone is as one that never was; of a fork, its family.
Claims(g) ==
  IF Expired(g) /\ row[g] = "revoked" THEN [grant[g] EXCEPT !.iat = 0] ELSE grant[g]

StillCounts ==
  <<now, account, issued, [g \in Grants |-> Claims(g)],
    row, {g \in lapsed : row[g] # "none"},
    [u \in Users |-> Fresh(tracked[u])],
    [g \in Grants |-> IF Denied(g) /\ ~Expired(g) THEN denied[g] ELSE 0],
    [f \in Grants |-> IF FamilyDenied(f) THEN deniedFam[f] ELSE 0],
    {g \in Fresh(Issued) : grant[g].iat < validFrom},
    [g \in Grants |-> IF Cached(g) THEN replay[g].until ELSE 0],
    req, Fresh(refused), Forked>>
=============================================================================
