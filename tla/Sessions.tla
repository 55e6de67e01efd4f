------------------------------ MODULE Sessions ------------------------------
(***************************************************************************)
(* Device sessions: the refresh_tokens table, the in-memory TokenTracker   *)
(* (internal/auth/auth.go), the replay cache, and the handlers that mint   *)
(* and revoke tokens (internal/handler/auth, internal/admin).              *)
(*                                                                         *)
(* A login or a refresh mints one GRANT: an access token (a signed JWT     *)
(* with its JTI) and a refresh token.  Grants are numbered in the order    *)
(* they are minted; a login's number also names the family it starts.      *)
(* Handlers are not transactions: every database query and every call on   *)
(* the tracker or the cache is a step of its own, and other handlers run   *)
(* between them.  Minting the JWT (local) and tracking it (one lock) are   *)
(* one step, as are reading a revoked row, missing the cache and revoking  *)
(* the family: the reads only ever become truer.                           *)
(*                                                                         *)
(* The clock counts in seconds, the unit of a JWT's iat.  Refresh tokens   *)
(* outlive access tokens by far; that their expires_at has passed is a     *)
(* flag (lapsed) raised at any time after the access token expired.        *)
(***************************************************************************)
EXTENDS Integers, FiniteSets

CONSTANTS
  Users,
  Requests,       \* handlers that may be running at one time
  MaxGrants,      \* bound on the tokens minted
  MaxTime,        \* bound on the clock
  AccessTTL,      \* AccessTokenExpiry
  ReplayGrace,    \* RefreshReplayGrace
  MaxTokens,      \* TokenTracker.MaxTokens
  MaxFamilies,    \* MaxRefreshFamilies
  RestartDelay,   \* seconds from the last request of one run to the next run
  FailingSteps    \* the steps of a handler whose query may fail

ASSUME SessionsAssumption ==
  /\ Users # {}
  /\ {MaxGrants, MaxTime, AccessTTL, MaxTokens, MaxFamilies} \subseteq Nat \ {0}
  /\ {ReplayGrace, RestartDelay} \subseteq Nat
  /\ FailingSteps \subseteq {"burn", "check", "evict", "table", "tableFamily"}

Grants == 1..MaxGrants

VARIABLES
  now,
  account,     \* account[u]: the users row
  issued,      \* how many grants have been minted
  grant,       \* grant[g]: the claims of g's access token
  row,         \* row[g]: g's refresh token in the table
  lapsed,      \* refresh tokens past their expires_at
  tracked,     \* TokenTracker.userTokens
  denied,      \* TokenTracker.denied: expiry of the denial, 0 for none
  deniedFam,   \* TokenTracker.deniedFamilies, likewise
  validFrom,   \* TokenTracker.validFrom
  replay,      \* replay[g]: the cached successor of rotated token g
  req,         \* req[r]: the handler r is running
  refused,     \* history: grants whose access token a revocation has covered
  forked       \* history: refresh tokens that were presented again before they
               \* were revoked, or that were not revoked when they were spent

table   == <<row, lapsed>>
tracker == <<tracked, denied, deniedFam, validFrom>>
claims  == <<issued, grant>>
vars    == <<now, account, claims, table, tracker, replay, req, refused, forked>>

-----------------------------------------------------------------------------
(* Questions the handlers ask.                                             *)

Issued == 1..issued

Expired(g) == now >= grant[g].iat + AccessTTL

\* familyRevoked and IsRevoked: a denial holds until its expiry has passed.
FamilyDenied(f) == deniedFam[f] # 0 /\ now <= deniedFam[f]
Denied(g)       == denied[g] # 0 /\ now <= denied[g]

\* TokenTracker.Rejects.
Rejects(g) ==
  \/ grant[g].iat < validFrom
  \/ FamilyDenied(grant[g].family)
  \/ Denied(g)

\* JWTAuth lets a request through.
Accepts(g) == g \in Issued /\ ~Expired(g) /\ ~Rejects(g)

GrantsOf(u)  == {g \in Issued : grant[g].user = u}
FamilyOf(f)  == {g \in Issued : grant[g].family = f}
Live(g)      == row[g] = "live"
ActiveRows(u) == {g \in GrantsOf(u) : Live(g) /\ g \notin lapsed}
ActiveFamilies(u) == {grant[g].family : g \in ActiveRows(u)}

\* replayCache.get.
Cached(g) == replay[g].next # 0 /\ now <= replay[g].until

-----------------------------------------------------------------------------
(* Handlers in progress: what r does, whose account it is about, the grant *)
(* or family it started from, the grant it has minted, and its next step.  *)

Idle == [op |-> "none", pc |-> "idle", user |-> CHOOSE u \in Users : TRUE,
         from |-> 0, new |-> 0]

At(r, pc) == req[r].pc = pc

Start(r, op, pc, u, from) ==
  /\ At(r, "idle")
  /\ req' = [req EXCEPT ![r] = [op |-> op, pc |-> pc, user |-> u,
                                from |-> from, new |-> 0]]

Goto(r, pc) == req' = [req EXCEPT ![r].pc = pc]
Done(r)     == req' = [req EXCEPT ![r] = Idle]

\* r may still put a refresh token of family f into the table.
MintsInto(r, f) ==
  \/ req[r].op = "refresh" /\ grant[req[r].from].family = f
  \/ req[r].op = "login" /\ req[r].new = f

RevokedIn(S) == [g \in Grants |-> IF g \in S /\ Live(g) THEN "revoked" ELSE row[g]]

Init ==
  /\ now = 1
  /\ account = [u \in Users |-> "enabled"]
  /\ issued = 0
  /\ grant = [g \in Grants |-> [user |-> Idle.user, family |-> 0, iat |-> 0]]
  /\ row = [g \in Grants |-> "none"]
  /\ lapsed = {}
  /\ tracked = [u \in Users |-> {}]
  /\ denied = [g \in Grants |-> 0]
  /\ deniedFam = [f \in Grants |-> 0]
  /\ validFrom = 1
  /\ replay = [g \in Grants |-> [next |-> 0, until |-> 0]]
  /\ req = [r \in Requests |-> Idle]
  /\ refused = {}
  /\ forked = {}

-----------------------------------------------------------------------------
(* Minting.                                                                *)

\* PostLogin: the user was found, is enabled, and the password is right.
PostLogin(r, u) ==
  /\ account[u] = "enabled"
  /\ Start(r, "login", "mint", u, 0)
  /\ UNCHANGED <<now, account, claims, table, tracker, replay, refused, forked>>

\* A client can present a refresh token from the response that hands it out.
HandedOut(g) == \A q \in Requests : ~(At(q, "cache") /\ req[q].new = g)

\* Another refresh has read g and not come to its end.
ReadTwice(g) == \E q \in Requests : req[q].op = "refresh" /\ req[q].from = g

\* (Mutant: the revoked flag of the row is not looked at.)
PostRefreshAnyRow(r, g) ==
  /\ row[g] # "none" /\ g \notin lapsed
  /\ HandedOut(g)
  /\ Start(r, "refresh", "burn", grant[g].user, g)
  /\ forked' = IF ReadTwice(g) THEN forked \union {g} ELSE forked
  /\ UNCHANGED <<now, account, claims, table, tracker, replay, refused>>

\* PostRefresh reads an unrevoked, unexpired row; two tabs of a browser, which
\* share the cookie, may do so at once.
PostRefresh(r, g) ==
  /\ Live(g) /\ g \notin lapsed
  /\ HandedOut(g)
  /\ Start(r, "refresh", "burn", grant[g].user, g)
  /\ forked' = IF ReadTwice(g) THEN forked \union {g} ELSE forked
  /\ UNCHANGED <<now, account, claims, table, tracker, replay, refused>>

\* PostRefresh reads a row past its expires_at: it is revoked, 401.
RefreshExpired(g) ==
  /\ Live(g) /\ g \in lapsed
  /\ row' = RevokedIn({g})
  /\ UNCHANGED <<now, account, claims, lapsed, tracker, replay, req, refused, forked>>

\* PostRefresh reads a revoked row.  A cached successor is handed out again
\* and nothing changes; without one the family is revoked, 401.
RefreshReplayed(g) ==
  /\ row[g] = "revoked"
  /\ ~Cached(g)
  /\ row' = RevokedIn(FamilyOf(grant[g].family))
  /\ UNCHANGED <<now, account, claims, lapsed, tracker, replay, req, refused, forked>>

\* (Mutant: the presented token is not revoked.)
BurnNothing(r) ==
  /\ At(r, "burn")
  /\ Goto(r, "check")
  /\ UNCHANGED <<now, account, claims, table, tracker, replay, refused, forked>>

\* Rotation: the presented token is revoked, whatever it is by now.
Burn(r) ==
  /\ At(r, "burn")
  /\ row' = RevokedIn({req[r].from})
  /\ Goto(r, "check")
  /\ UNCHANGED <<now, account, claims, lapsed, tracker, replay, refused, forked>>

\* The account is read after the token has been spent: 401 unless enabled.
CheckAccount(r) ==
  /\ At(r, "check")
  /\ IF account[req[r].user] = "enabled" THEN Goto(r, "mint") ELSE Done(r)
  /\ UNCHANGED <<now, account, claims, table, tracker, replay, refused, forked>>

\* TokenTracker.Track, after its cleanup: the oldest token of a user who has
\* MaxTokens already moves to the deny list.
Kept(u) == {g \in tracked[u] : ~Expired(g)}

Evicted(u) ==
  IF Cardinality(Kept(u)) >= MaxTokens
    THEN {g \in Kept(u) : \A h \in Kept(u) : g <= h}
    ELSE {}

Track(u, n) ==
  /\ tracked' = [v \in Users |->
       IF v = u THEN (Kept(u) \ Evicted(u)) \union {n} ELSE Kept(v)]
  /\ denied' = [g \in Grants |->
       IF g \in Evicted(u) THEN grant[g].iat + AccessTTL
       ELSE IF Denied(g) /\ (\A v \in Users : g \in tracked[v] => ~Expired(g))
         THEN denied[g] ELSE 0]
  /\ deniedFam' = [f \in Grants |-> IF FamilyDenied(f) THEN deniedFam[f] ELSE 0]
  /\ UNCHANGED validFrom

\* GenerateSessionToken and Track: a login starts a family, a refresh stays
\* in the one it came from.
Mint(r) ==
  LET n == issued + 1
      u == req[r].user
      f == IF req[r].op = "login" THEN n ELSE grant[req[r].from].family
  IN
  /\ At(r, "mint")
  /\ n \in Grants
  /\ issued' = n
  /\ grant' = [grant EXCEPT ![n] = [user |-> u, family |-> f, iat |-> now]]
  /\ Track(u, n)
  /\ req' = [req EXCEPT ![r] = [@ EXCEPT
                 !.new = n, !.pc = IF req[r].op = "login" THEN "evict" ELSE "store"]]
  /\ UNCHANGED <<now, account, table, replay, refused, forked>>

\* PostLogin makes room: a user with MaxRefreshFamilies signed-in devices
\* loses the one whose live token is oldest.
EvictOldestFamily(r) ==
  LET u == req[r].user IN
  /\ At(r, "evict")
  /\ IF Cardinality(ActiveFamilies(u)) >= MaxFamilies
       THEN \E g \in ActiveRows(u) :
              /\ \A h \in ActiveRows(u) : grant[g].iat <= grant[h].iat
              /\ row' = RevokedIn(FamilyOf(grant[g].family))
       ELSE UNCHANGED row
  /\ Goto(r, "store")
  /\ UNCHANGED <<now, account, claims, lapsed, tracker, replay, refused, forked>>

\* CreateRefreshToken.  A login is then over.
Store(r) ==
  /\ At(r, "store")
  /\ account[req[r].user] # "deleted"
  /\ row' = [row EXCEPT ![req[r].new] = "live"]
  /\ IF req[r].op = "login" THEN Done(r) ELSE Goto(r, "cache")
  /\ UNCHANGED <<now, account, claims, lapsed, tracker, replay, refused, forked>>

\* The insert fails: the database is unwell, the client has hung up, or the
\* account is gone.
StoreFails(r) ==
  /\ At(r, "store")
  /\ Done(r)
  /\ UNCHANGED <<now, account, claims, table, tracker, replay, refused, forked>>

\* replayCache.put, and the response.
CacheSuccessor(r) ==
  /\ At(r, "cache")
  /\ replay' = [replay EXCEPT ![req[r].from] =
                  [next |-> req[r].new, until |-> now + ReplayGrace]]
  /\ Done(r)
  /\ UNCHANGED <<now, account, claims, table, tracker, refused, forked>>

-----------------------------------------------------------------------------
(* Revoking.  Each handler is its entry followed by the steps it names.    *)

\* PutPassword, after UpdateUserPassword: the tracker first, then the table.
PutPassword(r, u) ==
  /\ \E g \in GrantsOf(u) : Accepts(g)
  /\ account[u] # "deleted"
  /\ Start(r, "password", "tracker", u, 0)
  /\ UNCHANGED <<now, account, claims, table, tracker, replay, refused, forked>>

\* UsersUpdate: a disabled account, or one the admin ticks "sign out" for,
\* is signed out everywhere; otherwise only its access tokens are refused.
UsersUpdate(r, u, status, signOut) ==
  /\ account[u] # "deleted"
  /\ account' = [account EXCEPT ![u] = status]
  /\ IF status = "disabled" \/ signOut
       THEN Start(r, "signout", "table", u, 0)
       ELSE Start(r, "update", "tracker", u, 0)
  /\ UNCHANGED <<now, claims, table, tracker, replay, refused, forked>>

UsersSignout(r, u) ==
  /\ account[u] # "deleted"
  /\ Start(r, "signout", "table", u, 0)
  /\ UNCHANGED <<now, account, claims, table, tracker, replay, refused, forked>>

\* UsersDelete: the refresh tokens go with the row (ON DELETE CASCADE).
UsersDelete(r, u) ==
  /\ account[u] # "deleted"
  /\ account' = [account EXCEPT ![u] = "deleted"]
  /\ row' = [g \in Grants |-> IF g \in GrantsOf(u) THEN "none" ELSE row[g]]
  /\ Start(r, "update", "tracker", u, 0)
  /\ UNCHANGED <<now, claims, lapsed, tracker, replay, refused, forked>>

\* SessionsRevoke: an admin signs one device out; it must have a live token.
SessionsRevoke(r, f) ==
  /\ \E g \in FamilyOf(f) : Live(g) /\ g \notin lapsed
  /\ Start(r, "revoke", "tableFamily", grant[f].user, f)
  /\ UNCHANGED <<now, account, claims, table, tracker, replay, refused, forked>>

\* PostLogout: the access token's JTI is denied at once, then the family of
\* the refresh token that came along, if any.
PostLogout(r, g, cookies) ==
  /\ Accepts(g)
  /\ denied' = [denied EXCEPT ![g] = now + AccessTTL]
  /\ refused' = refused \union {g}
  /\ IF cookies = {}
       THEN At(r, "idle") /\ UNCHANGED req
       ELSE \E c \in cookies : Start(r, "logout", "tableFamily", grant[g].user, grant[c].family)
  /\ UNCHANGED <<now, account, claims, table, tracked, deniedFam, validFrom, replay, forked>>

\* RevokeAllRefreshTokensForUser.
TableRevokeAll(r) ==
  /\ At(r, "table")
  /\ row' = RevokedIn(GrantsOf(req[r].user))
  /\ IF req[r].op = "password" THEN Done(r) ELSE Goto(r, "tracker")
  /\ UNCHANGED <<now, account, claims, lapsed, tracker, replay, refused, forked>>

\* RevokeRefreshTokenFamily.
TableRevokeFamily(r) ==
  /\ At(r, "tableFamily")
  /\ row' = RevokedIn(FamilyOf(req[r].from))
  /\ IF req[r].op = "logout" THEN Done(r) ELSE Goto(r, "trackerFamily")
  /\ UNCHANGED <<now, account, claims, lapsed, tracker, replay, refused, forked>>

\* TokenTracker.RevokeAllForUser: the tracked tokens move to the deny list.
TrackerRevokeAll(r) ==
  LET u == req[r].user IN
  /\ At(r, "tracker")
  /\ denied' = [g \in Grants |->
       IF g \in tracked[u] THEN grant[g].iat + AccessTTL ELSE denied[g]]
  /\ tracked' = [tracked EXCEPT ![u] = {}]
  /\ refused' = refused \union GrantsOf(u)
  /\ IF req[r].op = "password" THEN Goto(r, "table") ELSE Done(r)
  /\ UNCHANGED <<now, account, claims, table, deniedFam, validFrom, replay, forked>>

\* TokenTracker.RevokeFamily.
TrackerRevokeFamily(r) ==
  /\ At(r, "trackerFamily")
  /\ deniedFam' = [deniedFam EXCEPT ![req[r].from] = now + AccessTTL]
  /\ refused' = refused \union FamilyOf(req[r].from)
  /\ Done(r)
  /\ UNCHANGED <<now, account, claims, table, tracked, denied, validFrom, replay, forked>>

\* A query fails.  Rotation and eviction ignore that and go on; reading the
\* account is then a refusal; a revocation stops short of what would follow.
QueryFails(r) ==
  /\ req[r].pc \in FailingSteps
  /\ CASE At(r, "burn")  -> Goto(r, "check")
       [] At(r, "evict") -> Goto(r, "store")
       [] OTHER -> Done(r)
  /\ forked' = IF At(r, "burn") THEN forked \union {req[r].from} ELSE forked
  /\ UNCHANGED <<now, account, claims, table, tracker, replay, refused>>

-----------------------------------------------------------------------------
(* Time, maintenance and restarts.                                         *)

Tick ==
  /\ now < MaxTime
  /\ now' = now + 1
  /\ UNCHANGED <<account, claims, table, tracker, replay, req, refused, forked>>

Lapse(g) ==
  /\ row[g] # "none" /\ Expired(g)
  /\ lapsed' = lapsed \union {g}
  /\ UNCHANGED <<now, account, claims, row, tracker, replay, req, refused, forked>>

\* DeleteExpiredRefreshTokens, hourly.
Purge ==
  /\ row' = [g \in Grants |-> IF g \in lapsed THEN "none" ELSE row[g]]
  /\ lapsed' = {}
  /\ UNCHANGED <<now, account, claims, tracker, replay, req, refused, forked>>

\* (Mutant: tokens of an earlier run are not refused.)
RestartTrusting ==
  /\ now + RestartDelay <= MaxTime
  /\ now' = now + RestartDelay
  /\ tracked' = [u \in Users |-> {}]
  /\ denied' = [g \in Grants |-> 0]
  /\ deniedFam' = [f \in Grants |-> 0]
  /\ replay' = [g \in Grants |-> [next |-> 0, until |-> 0]]
  /\ req' = [r \in Requests |-> Idle]
  /\ UNCHANGED <<account, claims, table, refused, forked, validFrom>>

\* The process stops and starts: the tables stay, memory and handlers go.
Restart ==
  /\ now + RestartDelay <= MaxTime
  /\ now' = now + RestartDelay
  /\ tracked' = [u \in Users |-> {}]
  /\ denied' = [g \in Grants |-> 0]
  /\ deniedFam' = [f \in Grants |-> 0]
  /\ validFrom' = now'
  /\ replay' = [g \in Grants |-> [next |-> 0, until |-> 0]]
  /\ req' = [r \in Requests |-> Idle]
  /\ UNCHANGED <<account, claims, table, refused, forked>>

MintStep(r) ==
  \/ \E u \in Users : PostLogin(r, u)
  \/ \E g \in Grants : PostRefresh(r, g)
  \/ Burn(r) \/ CheckAccount(r) \/ Mint(r) \/ EvictOldestFamily(r)
  \/ Store(r) \/ StoreFails(r) \/ CacheSuccessor(r)

RevokeStep(r) ==
  \/ \E u \in Users :
       \/ PutPassword(r, u)
       \/ \E status \in {"enabled", "disabled"}, signOut \in BOOLEAN :
            UsersUpdate(r, u, status, signOut)
       \/ UsersSignout(r, u)
       \/ UsersDelete(r, u)
  \/ \E f \in Issued : SessionsRevoke(r, f)
  \/ \E g \in Issued :
       \/ PostLogout(r, g, {})
       \/ \E c \in Grants : row[c] # "none" /\ PostLogout(r, g, {c})
  \/ TableRevokeAll(r) \/ TableRevokeFamily(r)
  \/ TrackerRevokeAll(r) \/ TrackerRevokeFamily(r)

Next ==
  \/ \E r \in Requests : MintStep(r) \/ RevokeStep(r) \/ QueryFails(r)
  \/ \E g \in Grants : RefreshExpired(g) \/ RefreshReplayed(g) \/ Lapse(g)
  \/ Tick
  \/ Purge
  \/ Restart

Spec == Init /\ [][Next]_vars

-----------------------------------------------------------------------------
Request ==
  [op : {"none", "login", "refresh", "password", "signout", "update", "revoke", "logout"},
   pc : {"idle", "burn", "check", "mint", "evict", "store", "cache",
         "table", "tracker", "tableFamily", "trackerFamily"},
   user : Users, from : 0..MaxGrants, new : 0..MaxGrants]

TypeOK ==
  /\ now \in 1..MaxTime
  /\ account \in [Users -> {"enabled", "disabled", "deleted"}]
  /\ issued \in 0..MaxGrants
  /\ grant \in [Grants -> [user : Users, family : 0..MaxGrants, iat : Nat]]
  /\ row \in [Grants -> {"none", "live", "revoked"}]
  /\ lapsed \subseteq Grants
  /\ tracked \in [Users -> SUBSET Grants]
  /\ denied \in [Grants -> Nat]
  /\ deniedFam \in [Grants -> Nat]
  /\ validFrom \in Nat
  /\ replay \in [Grants -> [next : 0..MaxGrants, until : Nat]]
  /\ req \in [Requests -> Request]
  /\ refused \subseteq Grants
  /\ forked \subseteq 0..MaxGrants

\* A revoked access token never works again: whatever eviction, cleanup and
\* restarts do to the deny lists, each token that a logout, a sign-out or a
\* password change covered is rejected until it has expired.
RevocationIsFinal == \A g \in refused : Expired(g) \/ Rejects(g)

\* RevokeAllForUser reaches every token that is still honoured: the tracker
\* may forget a token only once it is denied or has expired.
HonouredIsTracked == \A g \in Issued : Accepts(g) => g \in tracked[grant[g].user]

\* An account never has more than MaxTokens working access tokens.
TokenCap == \A u \in Users : Cardinality({g \in GrantsOf(u) : Accepts(g)}) <= MaxTokens

\* A device session that is over stays over: once a family has no live
\* refresh token and no handler is minting into it, no replay, retry,
\* restart or clean-up brings it back.
FamilyOver(f) ==
  /\ f \in Issued
  /\ \A g \in FamilyOf(f) : ~Live(g)
  /\ \A r \in Requests : ~MintsInto(r, f)

DeadFamilyStaysDead == [][\A f \in Grants : FamilyOver(f) => FamilyOver(f)']_vars

\* A device with a token that was spent twice at once, or that was spent and
\* not revoked (auth.go:449 ignores the error).
Forked == {grant[g].family : g \in forked \intersect Issued}

\* Rotation: a device holds one usable refresh token, whatever stops, fails or
\* restarts in between, until a token of it forks.
OneLivePerFamily ==
  \A g, h \in Issued :
    Live(g) /\ Live(h) /\ grant[g].family = grant[h].family /\ grant[g].family \notin Forked
      => g = h

\* ListActiveSessions looks only at the newest row of a family, so a device
\* that can still refresh is on the admin's list only if that row is live.
\* (Where no token has forked, the rows of a family are inserted in the order
\* their grants are minted.)
DeviceListed ==
  \A g \in Issued : Live(g) /\ g \notin lapsed /\ grant[g].family \notin Forked =>
    \A h \in FamilyOf(grant[g].family) :
      (row[h] # "none" /\ \A k \in FamilyOf(grant[g].family) : row[k] # "none" => k <= h)
        => Live(h) /\ h \notin lapsed

\* Whoever can still use a session can be signed out of it: the tracker knows
\* the access tokens that work, a few to an account.  And a device can refresh
\* with one refresh token, and is on the admin's list (ListActiveSessions),
\* whatever fails, hangs up or restarts on the way.  Excused from the latter are
\* devices that have forked, of which nothing more is claimed than that
\* signing them out reaches all their tokens (DeadFamilyStaysDead): when two tabs
\* spend one token before either has revoked it, which api.ts:45-88 prevents in one
\* tab only, each gets a successor of its own, not the same one (api.ts:32-36);
\* and as soon as the refresh of the newer fails half way, the device is off the
\* list while the older goes on.
DevicesAreKnown == TypeOK /\ HonouredIsTracked /\ TokenCap /\ OneLivePerFamily /\ DeviceListed

-----------------------------------------------------------------------------
(* What makes the above inductive.                                         *)

HandlerOK(r) ==
  /\ req[r].op = "refresh" => req[r].from \in Issued
  /\ req[r].pc \in {"burn", "check", "mint", "evict", "store", "cache"} =>
       req[r].op \in {"login", "refresh"}
  /\ req[r].pc \in {"evict", "store", "cache"} =>
       /\ req[r].new \in Issued
       /\ grant[req[r].new].family =
            IF req[r].op = "login" THEN req[r].new ELSE grant[req[r].from].family

WellFormed ==
  /\ refused \subseteq Issued
  /\ \A g \in Issued : grant[g].family \in Issued /\ grant[g].iat <= now
  /\ \A g \in Grants : row[g] # "none" => g \in Issued
  /\ \A r \in Requests : HandlerOK(r)

\* g is refused for as long as it lives, were the tracker left alone.
Covered(g) ==
  \/ grant[g].iat < validFrom
  \/ denied[g] >= grant[g].iat + AccessTTL

TrackedOrCovered ==
  \A g \in Issued : Expired(g) \/ Covered(g) \/ g \in tracked[grant[g].user]

RefusedIsCovered ==
  \A g \in refused :
    \/ Expired(g) \/ Covered(g)
    \/ deniedFam[grant[g].family] >= grant[g].iat + AccessTTL

TrackerInv == TrackedOrCovered /\ RefusedIsCovered

SessionsInv == TypeOK /\ WellFormed /\ TrackerInv
=============================================================================
