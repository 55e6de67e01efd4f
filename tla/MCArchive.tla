----------------------------- MODULE MCArchive ------------------------------
(* Archive for TLC: two uploads at once, with others bookmarking, and two   *)
(* stored calls that two listeners share, bookmark and search, while an     *)
(* admin revokes links, puts one back and sweeps those that have expired.   *)
EXTENDS Archive

CONSTANTS u1, u2, x1, x2, alice, bob

Upload(time, ext) == [time |-> time, ext |-> ext]

OldWav   == u1 :> Upload(1, "wav") @@ u2 :> Upload(1, "m4a")
OldPlain == u1 :> Upload(1, "m4a") @@ u2 :> Upload(1, "m4a")
OldToday == u1 :> Upload(1, "wav") @@ u2 :> Upload(3, "wav")
TwoCalls == {OldWav, OldPlain, OldToday}

Whose == x1 :> alice @@ x2 :> bob

\* Nothing is shared at first, and what could fail or stop has.
Plain == [calls |-> OldToday, plans |-> {}, tg |-> u1 :> 1 @@ u2 :> 1, restricted |-> {},
          shared |-> None, by |-> alice, ticks |-> 0, edits |-> 0,
          failures |-> 1, restarts |-> 1]

Uploading == {[Plain EXCEPT !.calls = c, !.failures = 0, !.restarts = 0] : c \in {OldWav, OldToday}}
Sharing_  == {[Plain EXCEPT !.plans = {"share", "unshare"}, !.tg = u1 :> 2 @@ u2 :> 2,
                            !.ticks = 2, !.edits = 1],
              [Plain EXCEPT !.plans = {"share", "unshare"}, !.tg = u1 :> 2 @@ u2 :> 2,
                            !.shared = u1]}
Marking_  == {[Plain EXCEPT !.calls = OldPlain, !.plans = {"share", "mark"}]}
Searching == {[Plain EXCEPT !.plans = {"search", "mark"}, !.tg = u1 :> 2 @@ u2 :> 0,
                            !.restricted = {bob}, !.edits = 1],
              [Plain EXCEPT !.calls = OldPlain, !.plans = {"search", "mark"}]}
TheLoads  == Uploading \union Sharing_ \union Marking_ \union Searching
=============================================================================
