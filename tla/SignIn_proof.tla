---------------------------- MODULE SignIn_proof ----------------------------
(***************************************************************************)
(* Proofs about Sessions and LoginLimiter, for every set of users,         *)
(* handlers, addresses and settings and every bound.  The two modules      *)
(* share no variable.                                                      *)
(***************************************************************************)
EXTENDS Sessions, LoginLimiter, FiniteSetTheorems, WellFoundedInduction, TLAPS

LEMMA Bounds ==
  /\ MaxGrants \in Nat \ {0} /\ MaxTime \in Nat \ {0} /\ AccessTTL \in Nat \ {0}
  /\ MaxTokens \in Nat \ {0} /\ MaxFamilies \in Nat \ {0}
  /\ ReplayGrace \in Nat /\ RestartDelay \in Nat
  /\ Grants \subseteq Nat \ {0}
BY SessionsAssumption DEF SessionsAssumption, Grants

LEMMA IdleIsRequest == Idle \in Request
<1>1. (CHOOSE u \in Users : TRUE) \in Users
  BY SessionsAssumption DEF SessionsAssumption
<1>. QED  BY <1>1, Bounds DEF Idle, Request

LEMMA IssuedAreGrants == TypeOK => Issued \subseteq Grants
BY Bounds DEF TypeOK, Issued, Grants

-----------------------------------------------------------------------------
(* Type correctness.                                                       *)

LEMMA TypeInit == Init => TypeOK
<1>1. Idle.user \in Users
  BY SessionsAssumption DEF SessionsAssumption, Idle
<1>. QED  BY <1>1, Bounds, IdleIsRequest DEF Init, TypeOK

LEMMA RevokedInType ==
  ASSUME TypeOK, NEW S
  PROVE  RevokedIn(S) \in [Grants -> {"none", "live", "revoked"}]
BY DEF TypeOK, RevokedIn

\* The moves of a handler keep it a handler.
LEMMA StartType ==
  ASSUME TypeOK, NEW r \in Requests, NEW u \in Users, NEW from \in 0..MaxGrants,
         NEW op \in {"login", "refresh", "password", "signout", "update", "revoke", "logout"},
         NEW pc \in {"burn", "mint", "table", "tracker", "tableFamily"},
         Start(r, op, pc, u, from)
  PROVE  req' \in [Requests -> Request]
BY Bounds DEF TypeOK, Start, Request

LEMMA GotoType ==
  ASSUME TypeOK, NEW r \in Requests,
         NEW pc \in {"check", "mint", "store", "cache", "table", "tracker", "trackerFamily"},
         Goto(r, pc)
  PROVE  req' \in [Requests -> Request]
<1>1. req[r] \in Request /\ req \in [Requests -> Request]
  BY DEF TypeOK
<1>2. [req[r] EXCEPT !.pc = pc] \in Request
  BY <1>1 DEF Request
<1>. QED  BY <1>1, <1>2 DEF Goto

LEMMA DoneType ==
  ASSUME TypeOK, NEW r \in Requests, Done(r)
  PROVE  req' \in [Requests -> Request]
BY IdleIsRequest DEF TypeOK, Done

LEMMA MintedType ==
  ASSUME NEW q \in Request, NEW n \in 0..MaxGrants, NEW pc \in {"evict", "store"}
  PROVE  [q EXCEPT !.new = n, !.pc = pc] \in Request
BY DEF Request

LEMMA MintStepType ==
  ASSUME TypeOK, WellFormed, NEW r \in Requests, MintStep(r)
  PROVE  TypeOK'
<1>. USE Bounds
<1>r. req[r] \in Request
  BY DEF TypeOK
<1>1. ASSUME NEW u \in Users, PostLogin(r, u) PROVE TypeOK'
  <2>1. req' \in [Requests -> Request]
    BY <1>1, StartType DEF PostLogin
  <2>. QED  BY <1>1, <2>1 DEF TypeOK, PostLogin, claims, table, tracker
<1>2. ASSUME NEW g \in Grants, PostRefresh(r, g) PROVE TypeOK'
  <2>1. g \in 0..MaxGrants /\ grant[g].user \in Users
    BY DEF Grants, TypeOK
  <2>2. req' \in [Requests -> Request]
    BY <1>2, <2>1, StartType DEF PostRefresh
  <2>3. forked' \subseteq 0..MaxGrants
    BY <1>2, <2>1 DEF TypeOK, PostRefresh
  <2>. QED  BY <1>2, <2>2, <2>3 DEF TypeOK, PostRefresh, claims, table, tracker
<1>3. CASE Burn(r)
  <2>1. req' \in [Requests -> Request]
    BY <1>3, GotoType DEF Burn
  <2>. QED  BY <1>3, <2>1, RevokedInType DEF TypeOK, Burn, claims, tracker
<1>4. CASE CheckAccount(r)
  <2>1. req' \in [Requests -> Request]
    BY <1>4, GotoType, DoneType DEF CheckAccount
  <2>. QED  BY <1>4, <2>1 DEF TypeOK, CheckAccount, claims, table, tracker
<1>5. CASE Mint(r)
  <2>. DEFINE n == issued + 1
              u == req[r].user
              f == IF req[r].op = "login" THEN n ELSE grant[req[r].from].family
  <2>1. n \in Grants /\ u \in Users
    BY <1>5, <1>r DEF Mint, Request
  <2>2. f \in 0..MaxGrants
    <3>1. CASE req[r].op = "login"
      BY <2>1, <3>1 DEF Grants
    <3>2. CASE req[r].op = "refresh"
      <4>1. req[r].from \in Grants
        BY <3>2, IssuedAreGrants DEF WellFormed, HandlerOK
      <4>. QED  BY <3>2, <4>1 DEF TypeOK
    <3>. QED  BY <1>5, <3>1, <3>2 DEF Mint, At, WellFormed, HandlerOK
  <2>3. /\ issued' = n
        /\ grant' = [grant EXCEPT ![n] = [user |-> u, family |-> f, iat |-> now]]
        /\ Track(u, n)
        /\ req' = [req EXCEPT ![r] = [@ EXCEPT
                 !.new = n, !.pc = IF req[r].op = "login" THEN "evict" ELSE "store"]]
        /\ UNCHANGED <<now, account, table, replay, refused, forked>>
    BY <1>5 DEF Mint
  <2>. HIDE DEF f, u
  <2>4. issued' \in 0..MaxGrants /\ now \in Nat
    BY <2>1, <2>3 DEF TypeOK, Grants
  <2>5. grant' \in [Grants -> [user : Users, family : 0..MaxGrants, iat : Nat]]
    BY <2>1, <2>2, <2>3, <2>4 DEF TypeOK
  <2>6. req' \in [Requests -> Request]
    <3>. DEFINE pc == IF req[r].op = "login" THEN "evict" ELSE "store"
    <3>1. n \in 0..MaxGrants /\ pc \in {"evict", "store"}
      BY <2>1 DEF Grants
    <3>2. req' = [req EXCEPT ![r] = [@ EXCEPT !.new = n, !.pc = pc]]
      BY <2>3
    <3>. HIDE DEF n, pc
    <3>3. [req[r] EXCEPT !.new = n, !.pc = pc] \in Request
      BY <1>r, <3>1, MintedType
    <3>. QED  BY <3>2, <3>3 DEF TypeOK
  <2>7. tracked' \in [Users -> SUBSET Grants]
    BY <2>1, <2>3 DEF TypeOK, Track, Kept
  <2>8. denied' \in [Grants -> Nat]
    BY <2>3 DEF TypeOK, Track
  <2>9. deniedFam' \in [Grants -> Nat]
    BY <2>3 DEF TypeOK, Track
  <2>. QED  BY <2>3, <2>4, <2>5, <2>6, <2>7, <2>8, <2>9 DEF TypeOK, Track, table
<1>6. CASE EvictOldestFamily(r)
  <2>1. req' \in [Requests -> Request]
    BY <1>6, GotoType DEF EvictOldestFamily
  <2>2. row' \in [Grants -> {"none", "live", "revoked"}]
    BY <1>6, RevokedInType DEF TypeOK, EvictOldestFamily
  <2>. QED  BY <1>6, <2>1, <2>2 DEF TypeOK, EvictOldestFamily, claims, tracker
<1>7. CASE Store(r)
  <2>1. req' \in [Requests -> Request]
    BY <1>7, GotoType, DoneType DEF Store
  <2>. QED  BY <1>7, <2>1 DEF TypeOK, Store, claims, tracker
<1>8. CASE StoreFails(r)
  <2>1. req' \in [Requests -> Request]
    BY <1>8, DoneType DEF StoreFails
  <2>. QED  BY <1>8, <2>1 DEF TypeOK, StoreFails, claims, table, tracker
<1>9. CASE CacheSuccessor(r)
  <2>1. req' \in [Requests -> Request]
    BY <1>9, DoneType DEF CacheSuccessor
  <2>2. req[r].new \in 0..MaxGrants /\ now + ReplayGrace \in Nat
    BY <1>r DEF Request, TypeOK
  <2>3. replay' \in [Grants -> [next : 0..MaxGrants, until : Nat]]
    BY <1>9, <2>2 DEF TypeOK, CacheSuccessor
  <2>. QED  BY <1>9, <2>1, <2>3 DEF TypeOK, CacheSuccessor, claims, table, tracker
<1>. QED  BY <1>1, <1>2, <1>3, <1>4, <1>5, <1>6, <1>7, <1>8, <1>9 DEF MintStep

LEMMA RevokeStepType ==
  ASSUME TypeOK, WellFormed, NEW r \in Requests, RevokeStep(r)
  PROVE  TypeOK'
<1>. USE Bounds
<1>r. req[r] \in Request
  BY DEF TypeOK
<1>i. Grants \subseteq 0..MaxGrants /\ issued \in 0..MaxGrants
  BY DEF TypeOK, Grants
<1>g. Issued \subseteq Grants
  BY IssuedAreGrants
<1>u. ASSUME NEW g \in Grants PROVE grant[g].user \in Users /\ grant[g].family \in 0..MaxGrants
  BY DEF TypeOK
<1>1. ASSUME NEW u \in Users, PutPassword(r, u) PROVE TypeOK'
  <2>1. req' \in [Requests -> Request]
    BY <1>1, <1>i, StartType DEF PutPassword
  <2>. QED  BY <1>1, <2>1 DEF TypeOK, PutPassword, claims, table, tracker
<1>2. ASSUME NEW u \in Users, NEW status \in {"enabled", "disabled"}, NEW signOut \in BOOLEAN,
             UsersUpdate(r, u, status, signOut)
      PROVE  TypeOK'
  <2>1. req' \in [Requests -> Request]
    BY <1>2, StartType DEF UsersUpdate
  <2>. QED  BY <1>2, <2>1 DEF TypeOK, UsersUpdate, claims, table, tracker
<1>3. ASSUME NEW u \in Users, UsersSignout(r, u) PROVE TypeOK'
  <2>1. req' \in [Requests -> Request]
    BY <1>3, StartType DEF UsersSignout
  <2>. QED  BY <1>3, <2>1 DEF TypeOK, UsersSignout, claims, table, tracker
<1>4. ASSUME NEW u \in Users, UsersDelete(r, u) PROVE TypeOK'
  <2>1. req' \in [Requests -> Request]
    BY <1>4, StartType DEF UsersDelete
  <2>. QED  BY <1>4, <2>1 DEF TypeOK, UsersDelete, claims, tracker
<1>5. ASSUME NEW f \in Issued, SessionsRevoke(r, f) PROVE TypeOK'
  <2>1. req' \in [Requests -> Request]
    BY <1>5, <1>g, <1>i, <1>u, StartType DEF SessionsRevoke
  <2>. QED  BY <1>5, <2>1 DEF TypeOK, SessionsRevoke, claims, table, tracker
<1>6. ASSUME NEW g \in Issued, NEW cookies \in SUBSET Grants, PostLogout(r, g, cookies)
      PROVE  TypeOK'
  <2>1. req' \in [Requests -> Request]
    BY <1>6, <1>g, <1>i, <1>u, StartType DEF PostLogout, TypeOK
  <2>. QED  BY <1>6, <1>g, <2>1 DEF TypeOK, PostLogout, claims, table
<1>7. CASE TableRevokeAll(r)
  <2>1. req' \in [Requests -> Request]
    BY <1>7, GotoType, DoneType DEF TableRevokeAll
  <2>. QED  BY <1>7, <2>1, RevokedInType DEF TypeOK, TableRevokeAll, claims, tracker
<1>8. CASE TableRevokeFamily(r)
  <2>1. req' \in [Requests -> Request]
    BY <1>8, GotoType, DoneType DEF TableRevokeFamily
  <2>. QED  BY <1>8, <2>1, RevokedInType DEF TypeOK, TableRevokeFamily, claims, tracker
<1>9. CASE TrackerRevokeAll(r)
  <2>1. req' \in [Requests -> Request]
    BY <1>9, GotoType, DoneType DEF TrackerRevokeAll
  <2>2. refused' \subseteq Grants
    BY <1>9, <1>g DEF TypeOK, TrackerRevokeAll, GrantsOf
  <2>3. denied' \in [Grants -> Nat]
    BY <1>9 DEF TypeOK, TrackerRevokeAll
  <2>4. tracked' \in [Users -> SUBSET Grants]
    BY <1>9 DEF TypeOK, TrackerRevokeAll
  <2>. QED  BY <1>9, <2>1, <2>2, <2>3, <2>4 DEF TypeOK, TrackerRevokeAll, claims, table
<1>10. CASE TrackerRevokeFamily(r)
  <2>1. req' \in [Requests -> Request]
    BY <1>10, DoneType DEF TrackerRevokeFamily
  <2>2. refused' \subseteq Grants
    BY <1>10, <1>g DEF TypeOK, TrackerRevokeFamily, FamilyOf
  <2>3. deniedFam' \in [Grants -> Nat]
    <3>1. now + AccessTTL \in Nat
      BY DEF TypeOK
    <3>. QED  BY <1>10, <3>1 DEF TypeOK, TrackerRevokeFamily
  <2>. QED  BY <1>10, <2>1, <2>2, <2>3 DEF TypeOK, TrackerRevokeFamily, claims, table
<1>11. {} \in SUBSET Grants /\ \A c \in Grants : {c} \in SUBSET Grants
  OBVIOUS
<1>. QED
  BY <1>1, <1>2, <1>3, <1>4, <1>5, <1>6, <1>7, <1>8, <1>9, <1>10, <1>11 DEF RevokeStep

LEMMA OtherStepType ==
  ASSUME TypeOK, WellFormed,
         \/ \E g \in Grants : RefreshExpired(g) \/ RefreshReplayed(g) \/ Lapse(g)
         \/ Tick \/ Purge \/ Restart \/ UNCHANGED vars
  PROVE  TypeOK'
<1>. USE Bounds
<1>1. ASSUME NEW g \in Grants, RefreshExpired(g) PROVE TypeOK'
  BY <1>1, RevokedInType DEF TypeOK, RefreshExpired, claims, tracker
<1>2. ASSUME NEW g \in Grants, RefreshReplayed(g) PROVE TypeOK'
  BY <1>2, RevokedInType DEF TypeOK, RefreshReplayed, claims, tracker
<1>3. ASSUME NEW g \in Grants, Lapse(g) PROVE TypeOK'
  BY <1>3 DEF TypeOK, Lapse, claims, tracker
<1>4. CASE Tick
  BY <1>4 DEF TypeOK, Tick, claims, tracker, table
<1>5. CASE Purge
  BY <1>5 DEF TypeOK, Purge, claims, tracker
<1>6. CASE Restart
  <2>1. now' \in 1..MaxTime /\ validFrom' \in Nat
    BY <1>6 DEF TypeOK, Restart
  <2>2. req' \in [Requests -> Request]
    BY <1>6, IdleIsRequest DEF Restart
  <2>. QED  BY <1>6, <2>1, <2>2 DEF TypeOK, Restart, claims, table
<1>7. CASE UNCHANGED vars
  BY <1>7 DEF TypeOK, vars, claims, tracker, table
<1>. QED  BY <1>1, <1>2, <1>3, <1>4, <1>5, <1>6, <1>7

LEMMA QueryFailsType ==
  ASSUME TypeOK, NEW r \in Requests, QueryFails(r)
  PROVE  TypeOK'
<1>1. req' \in [Requests -> Request]
  BY GotoType, DoneType DEF QueryFails
<1>2. forked' \subseteq 0..MaxGrants
  BY DEF TypeOK, Request, QueryFails
<1>. QED  BY <1>1, <1>2 DEF TypeOK, QueryFails, claims, table, tracker

LEMMA TypeStep == TypeOK /\ WellFormed /\ [Next]_vars => TypeOK'
BY MintStepType, RevokeStepType, QueryFailsType, OtherStepType DEF Next

-----------------------------------------------------------------------------
(* Well-formedness: what handlers in progress know is still true.          *)

LEMMA WellFormedInit == Init => WellFormed
BY DEF Init, WellFormed, HandlerOK, Idle, Issued

\* A handler that does not move keeps what it knows.
LEMMA HandlerKept ==
  ASSUME TypeOK, NEW q \in Requests, HandlerOK(q), req'[q] = req[q],
         Issued \subseteq Issued', \A g \in Issued : grant'[g] = grant[g]
  PROVE  HandlerOK(q)'
BY DEF HandlerOK

\* A step of r that mints nothing, as far as the claims go.
LEMMA ClaimsKept ==
  ASSUME TypeOK, WellFormed, NEW r \in Requests, UNCHANGED claims,
         now' \in Nat, now <= now', refused' \subseteq Issued,
         \A g \in Grants : row'[g] # "none" => row[g] # "none" \/ g \in Issued,
         \A q \in Requests : q # r => req'[q] = req[q],
         HandlerOK(r)'
  PROVE  WellFormed'
<1>1. Issued' = Issued /\ grant' = grant
  BY DEF claims, Issued
<1>2. \A q \in Requests : HandlerOK(q)'
  BY <1>1, HandlerKept DEF WellFormed
<1>3. \A g \in Issued : grant[g].iat <= now'
  BY IssuedAreGrants, Bounds DEF WellFormed, TypeOK
<1>. QED  BY <1>1, <1>2, <1>3 DEF WellFormed

\* The same of a step of no handler.
LEMMA NobodyMoves ==
  ASSUME TypeOK, WellFormed, UNCHANGED claims, now' \in Nat, now <= now', UNCHANGED refused,
         \A g \in Grants : row'[g] # "none" => row[g] # "none",
         \A q \in Requests : req'[q] = req[q]
  PROVE  WellFormed'
<1>1. Issued' = Issued /\ grant' = grant
  BY DEF claims, Issued
<1>2. \A q \in Requests : HandlerOK(q)'
  BY <1>1, HandlerKept DEF WellFormed
<1>3. \A g \in Issued : grant[g].iat <= now'
  BY IssuedAreGrants, Bounds DEF WellFormed, TypeOK
<1>. QED  BY <1>1, <1>2, <1>3 DEF WellFormed

LEMMA RevokedInRows ==
  ASSUME NEW S, NEW g \in Grants, RevokedIn(S)[g] # "none"
  PROVE  row[g] # "none"
BY DEF RevokedIn, Live

\* Every handler that is done, or that revokes, knows nothing.
LEMMA DoneOK ==
  ASSUME TypeOK, NEW r \in Requests, Done(r)
  PROVE  HandlerOK(r)' /\ \A q \in Requests : q # r => req'[q] = req[q]
BY DEF Done, TypeOK, HandlerOK, Idle

LEMMA RevokerOK ==
  ASSUME TypeOK, NEW r \in Requests, HandlerOK(r), UNCHANGED claims,
         \/ \E op \in {"password", "signout", "update", "revoke", "logout"},
               pc \in {"table", "tracker", "tableFamily"}, u \in Users : \E from :
              Start(r, op, pc, u, from)
         \/ \E pc \in {"table", "tracker", "trackerFamily"} : Goto(r, pc)
  PROVE  HandlerOK(r)' /\ \A q \in Requests : q # r => req'[q] = req[q]
<1>1. Issued' = Issued
  BY DEF claims, Issued
<1>2. CASE \E op \in {"password", "signout", "update", "revoke", "logout"},
              pc \in {"table", "tracker", "tableFamily"}, u \in Users : \E from :
             Start(r, op, pc, u, from)
  BY <1>2 DEF TypeOK, Start, HandlerOK
<1>3. CASE \E pc \in {"table", "tracker", "trackerFamily"} : Goto(r, pc)
  <2>1. PICK pc \in {"table", "tracker", "trackerFamily"} : req' = [req EXCEPT ![r].pc = pc]
    BY <1>3 DEF Goto
  <2>2. req[r] \in Request
    BY DEF TypeOK
  <2>3. req'[r].pc = pc /\ req'[r].op = req[r].op /\ req'[r].from = req[r].from
    BY <2>1, <2>2 DEF TypeOK, Request
  <2>. QED  BY <1>1, <2>1, <2>3 DEF TypeOK, HandlerOK
<1>. QED  BY <1>2, <1>3

LEMMA OneMoreIssued ==
  ASSUME TypeOK, issued' = issued + 1
  PROVE  issued + 1 \notin Issued /\ Issued' = Issued \union {issued + 1}
<1>1. issued \in Nat
  BY Bounds DEF TypeOK
<1>. QED  BY <1>1 DEF Issued

LEMMA MintStepWellFormed ==
  ASSUME TypeOK, WellFormed, NEW r \in Requests, MintStep(r)
  PROVE  WellFormed'
<1>. USE Bounds
<1>0. /\ req[r] \in Request /\ HandlerOK(r) /\ now \in Nat
      /\ Issued \subseteq Grants /\ refused \subseteq Issued
  BY IssuedAreGrants DEF TypeOK, WellFormed
<1>1. ASSUME NEW u \in Users, PostLogin(r, u) PROVE WellFormed'
  <2>1. HandlerOK(r)' /\ \A q \in Requests : q # r => req'[q] = req[q]
    BY <1>1 DEF TypeOK, PostLogin, Start, HandlerOK
  <2>. QED  BY <1>0, <1>1, <2>1, ClaimsKept DEF PostLogin, table
<1>2. ASSUME NEW g \in Grants, PostRefresh(r, g) PROVE WellFormed'
  <2>1. g \in Issued'
    BY <1>2 DEF PostRefresh, Live, WellFormed, claims, Issued
  <2>2. HandlerOK(r)' /\ \A q \in Requests : q # r => req'[q] = req[q]
    BY <1>2, <2>1 DEF TypeOK, PostRefresh, Start, HandlerOK
  <2>. QED  BY <1>0, <1>2, <2>2, ClaimsKept DEF PostRefresh, table
<1>3. CASE Burn(r)
  <2>1. HandlerOK(r)' /\ \A q \in Requests : q # r => req'[q] = req[q]
    BY <1>0, <1>3 DEF TypeOK, Request, Burn, At, Goto, HandlerOK, claims, Issued
  <2>. QED  BY <1>0, <1>3, <2>1, ClaimsKept, RevokedInRows DEF Burn
<1>4. CASE CheckAccount(r)
  <2>1. HandlerOK(r)' /\ \A q \in Requests : q # r => req'[q] = req[q]
    BY <1>0, <1>4, DoneOK DEF TypeOK, Request, CheckAccount, At, Goto, HandlerOK, claims, Issued
  <2>. QED  BY <1>0, <1>4, <2>1, ClaimsKept DEF CheckAccount, table
<1>5. CASE Mint(r)
  <2>. DEFINE n == issued + 1
              f == IF req[r].op = "login" THEN n ELSE grant[req[r].from].family
              pc == IF req[r].op = "login" THEN "evict" ELSE "store"
  <2>a. /\ n \in Grants /\ issued' = n /\ UNCHANGED <<now, row, refused>>
        /\ grant' = [grant EXCEPT ![n] = [user |-> req[r].user, family |-> f, iat |-> now]]
        /\ req' = [req EXCEPT ![r] = [@ EXCEPT !.new = n, !.pc = pc]]
    BY <1>5 DEF Mint, table
  <2>b. n \notin Issued /\ Issued' = Issued \union {n}
    BY <2>a, OneMoreIssued
  <2>1. /\ n \in Grants /\ n \notin Issued /\ Issued' = Issued \union {n}
        /\ UNCHANGED <<now, row, refused>>
        /\ grant' = [grant EXCEPT ![n] = [user |-> req[r].user, family |-> f, iat |-> now]]
        /\ req' = [req EXCEPT ![r] = [@ EXCEPT !.new = n, !.pc = pc]]
    BY <2>a, <2>b
  <2>2. f \in Issued \union {n}
    BY <1>0, <1>5 DEF Mint, At, HandlerOK, WellFormed
  <2>3. pc = (IF req[r].op = "login" THEN "evict" ELSE "store")
    OBVIOUS
  <2>4. f = (IF req[r].op = "login" THEN n ELSE grant[req[r].from].family)
    OBVIOUS
  <2>5. req[r].op \in {"login", "refresh"}
    BY <1>0, <1>5 DEF Mint, At, HandlerOK
  <2>. HIDE DEF n, f, pc
  <2>6. /\ \A g \in Issued : grant'[g] = grant[g]
        /\ grant'[n].family = f /\ grant'[n].iat = now
    BY <1>0, <2>1 DEF TypeOK
  <2>7. /\ req'[r].new = n /\ req'[r].pc = pc
        /\ req'[r].op = req[r].op /\ req'[r].from = req[r].from
    BY <1>0, <2>1 DEF TypeOK, Request
  <2>8. HandlerOK(r)'
    <3>1. req[r].op = "refresh" => req[r].from \in Issued
      BY <1>0 DEF HandlerOK
    <3>. QED  BY <2>1, <2>3, <2>4, <2>5, <2>6, <2>7, <3>1 DEF HandlerOK
  <2>9. \A q \in Requests : HandlerOK(q)'
    BY <2>1, <2>6, <2>8, HandlerKept DEF TypeOK, WellFormed
  <2>10. \A g \in Issued' : grant'[g].family \in Issued' /\ grant'[g].iat <= now'
    BY <1>0, <2>1, <2>2, <2>6 DEF WellFormed
  <2>. QED  BY <2>1, <2>9, <2>10 DEF WellFormed
<1>6. CASE EvictOldestFamily(r)
  <2>1. HandlerOK(r)' /\ \A q \in Requests : q # r => req'[q] = req[q]
    BY <1>0, <1>6 DEF TypeOK, Request, EvictOldestFamily, At, Goto, HandlerOK, claims, Issued
  <2>2. \A g \in Grants : row'[g] # "none" => row[g] # "none"
    BY <1>6, RevokedInRows DEF EvictOldestFamily
  <2>. QED  BY <1>0, <1>6, <2>1, <2>2, ClaimsKept DEF EvictOldestFamily
<1>7. CASE Store(r)
  <2>1. HandlerOK(r)' /\ \A q \in Requests : q # r => req'[q] = req[q]
    <3>1. CASE req[r].op = "login"
      BY <1>7, <3>1, DoneOK DEF Store
    <3>2. CASE req[r].op # "login"
      <4>1. /\ req' = [req EXCEPT ![r].pc = "cache"] /\ req[r].pc = "store"
            /\ req[r].op = "refresh" /\ UNCHANGED <<issued, grant>>
        BY <1>0, <1>7, <3>2 DEF Store, At, Goto, HandlerOK, claims
      <4>2. /\ req'[r].pc = "cache" /\ req'[r].op = "refresh" /\ req'[r].from = req[r].from
            /\ req'[r].new = req[r].new /\ req'[r].user = req[r].user
            /\ \A q \in Requests : q # r => req'[q] = req[q]
        BY <4>1 DEF TypeOK, Request
      <4>. QED  BY <1>0, <4>1, <4>2 DEF HandlerOK, Issued
    <3>. QED  BY <3>1, <3>2
  <2>2. \A g \in Grants : row'[g] # "none" => row[g] # "none" \/ g \in Issued
    BY <1>0, <1>7 DEF Store, At, HandlerOK, TypeOK
  <2>. QED  BY <1>0, <1>7, <2>1, <2>2, ClaimsKept DEF Store
<1>8. CASE StoreFails(r)
  BY <1>0, <1>8, DoneOK, ClaimsKept DEF StoreFails, table
<1>9. CASE CacheSuccessor(r)
  BY <1>0, <1>9, DoneOK, ClaimsKept DEF CacheSuccessor, table
<1>. QED  BY <1>1, <1>2, <1>3, <1>4, <1>5, <1>6, <1>7, <1>8, <1>9 DEF MintStep

LEMMA RevokeStepWellFormed ==
  ASSUME TypeOK, WellFormed, NEW r \in Requests, RevokeStep(r)
  PROVE  WellFormed'
<1>0. /\ req[r] \in Request /\ HandlerOK(r) /\ now \in Nat
      /\ Issued \subseteq Grants /\ refused \subseteq Issued
  BY Bounds, IssuedAreGrants DEF TypeOK, WellFormed
<1>u. ASSUME NEW g \in Grants PROVE grant[g].user \in Users
  BY DEF TypeOK
<1>1. ASSUME NEW u \in Users, PutPassword(r, u) PROVE WellFormed'
  <2>1. HandlerOK(r)' /\ \A q \in Requests : q # r => req'[q] = req[q]
    BY <1>0, <1>1, RevokerOK DEF PutPassword
  <2>. QED  BY <1>0, <1>1, <2>1, ClaimsKept DEF PutPassword, table
<1>2. ASSUME NEW u \in Users, NEW status, NEW signOut, UsersUpdate(r, u, status, signOut)
      PROVE  WellFormed'
  <2>1. HandlerOK(r)' /\ \A q \in Requests : q # r => req'[q] = req[q]
    BY <1>0, <1>2, RevokerOK DEF UsersUpdate
  <2>. QED  BY <1>0, <1>2, <2>1, ClaimsKept DEF UsersUpdate, table
<1>3. ASSUME NEW u \in Users, UsersSignout(r, u) PROVE WellFormed'
  <2>1. HandlerOK(r)' /\ \A q \in Requests : q # r => req'[q] = req[q]
    BY <1>0, <1>3, RevokerOK DEF UsersSignout
  <2>. QED  BY <1>0, <1>3, <2>1, ClaimsKept DEF UsersSignout, table
<1>4. ASSUME NEW u \in Users, UsersDelete(r, u) PROVE WellFormed'
  <2>1. HandlerOK(r)' /\ \A q \in Requests : q # r => req'[q] = req[q]
    BY <1>0, <1>4, RevokerOK DEF UsersDelete
  <2>. QED  BY <1>0, <1>4, <2>1, ClaimsKept DEF UsersDelete
<1>5. ASSUME NEW f \in Issued, SessionsRevoke(r, f) PROVE WellFormed'
  <2>1. HandlerOK(r)' /\ \A q \in Requests : q # r => req'[q] = req[q]
    BY <1>0, <1>u, <1>5, RevokerOK DEF SessionsRevoke
  <2>. QED  BY <1>0, <1>5, <2>1, ClaimsKept DEF SessionsRevoke, table
<1>6. ASSUME NEW g \in Issued, NEW cookies, PostLogout(r, g, cookies) PROVE WellFormed'
  <2>1. HandlerOK(r)' /\ \A q \in Requests : q # r => req'[q] = req[q]
    BY <1>0, <1>u, <1>6, RevokerOK DEF PostLogout, HandlerOK, claims, Issued
  <2>. QED  BY <1>0, <1>6, <2>1, ClaimsKept DEF PostLogout, table
<1>7. CASE TableRevokeAll(r)
  <2>1. HandlerOK(r)' /\ \A q \in Requests : q # r => req'[q] = req[q]
    BY <1>0, <1>7, RevokerOK, DoneOK DEF TableRevokeAll
  <2>. QED  BY <1>0, <1>7, <2>1, ClaimsKept, RevokedInRows DEF TableRevokeAll
<1>8. CASE TableRevokeFamily(r)
  <2>1. HandlerOK(r)' /\ \A q \in Requests : q # r => req'[q] = req[q]
    BY <1>0, <1>8, RevokerOK, DoneOK DEF TableRevokeFamily
  <2>. QED  BY <1>0, <1>8, <2>1, ClaimsKept, RevokedInRows DEF TableRevokeFamily
<1>9. CASE TrackerRevokeAll(r)
  <2>1. HandlerOK(r)' /\ \A q \in Requests : q # r => req'[q] = req[q]
    BY <1>0, <1>9, RevokerOK, DoneOK DEF TrackerRevokeAll
  <2>. QED  BY <1>0, <1>9, <2>1, ClaimsKept DEF TrackerRevokeAll, table, GrantsOf
<1>10. CASE TrackerRevokeFamily(r)
  <2>1. HandlerOK(r)' /\ \A q \in Requests : q # r => req'[q] = req[q]
    BY <1>10, DoneOK DEF TrackerRevokeFamily
  <2>. QED  BY <1>0, <1>10, <2>1, ClaimsKept DEF TrackerRevokeFamily, table, FamilyOf
<1>. QED
  BY <1>1, <1>2, <1>3, <1>4, <1>5, <1>6, <1>7, <1>8, <1>9, <1>10 DEF RevokeStep

LEMMA OtherStepWellFormed ==
  ASSUME TypeOK, WellFormed,
         \/ \E g \in Grants : RefreshExpired(g) \/ RefreshReplayed(g) \/ Lapse(g)
         \/ Tick \/ Purge \/ Restart \/ UNCHANGED vars
  PROVE  WellFormed'
<1>0. now \in Nat
  BY Bounds DEF TypeOK
<1>1. ASSUME NEW g \in Grants, RefreshExpired(g) PROVE WellFormed'
  BY <1>0, <1>1, NobodyMoves, RevokedInRows DEF RefreshExpired
<1>2. ASSUME NEW g \in Grants, RefreshReplayed(g) PROVE WellFormed'
  BY <1>0, <1>2, NobodyMoves, RevokedInRows DEF RefreshReplayed
<1>3. ASSUME NEW g \in Grants, Lapse(g) PROVE WellFormed'
  BY <1>0, <1>3, NobodyMoves DEF Lapse
<1>4. CASE Tick
  BY <1>0, <1>4, NobodyMoves DEF Tick, table
<1>5. CASE Purge
  BY <1>0, <1>5, NobodyMoves DEF Purge
<1>6. CASE Restart
  <2>1. \A r \in Requests : HandlerOK(r)'
    BY <1>6 DEF Restart, HandlerOK, Idle
  <2>2. now' \in Nat /\ now <= now'
    BY <1>0, <1>6, Bounds DEF Restart
  <2>3. Issued' = Issued /\ UNCHANGED <<grant, row, refused>>
    BY <1>6 DEF Restart, Issued, claims, table
  <2>4. \A g \in Issued : grant[g].iat <= now'
    BY <1>0, <2>2, IssuedAreGrants DEF WellFormed, TypeOK
  <2>. QED  BY <2>1, <2>3, <2>4 DEF WellFormed
<1>7. CASE UNCHANGED vars
  BY <1>0, <1>7, NobodyMoves DEF vars, table
<1>. QED  BY <1>1, <1>2, <1>3, <1>4, <1>5, <1>6, <1>7

LEMMA QueryFailsWellFormed ==
  ASSUME TypeOK, WellFormed, NEW r \in Requests, QueryFails(r)
  PROVE  WellFormed'
<1>0. req[r] \in Request /\ HandlerOK(r) /\ now \in Nat /\ refused \subseteq Issued
  BY Bounds DEF TypeOK, WellFormed
<1>1. HandlerOK(r)' /\ \A q \in Requests : q # r => req'[q] = req[q]
  <2>1. CASE Done(r)
    BY <2>1, DoneOK
  <2>2. CASE At(r, "burn") /\ Goto(r, "check")
    BY <1>0, <2>2 DEF TypeOK, Request, QueryFails, At, Goto, HandlerOK, claims, Issued
  <2>3. CASE At(r, "evict") /\ Goto(r, "store")
    BY <1>0, <2>3 DEF TypeOK, Request, QueryFails, At, Goto, HandlerOK, claims, Issued
  <2>. QED  BY <2>1, <2>2, <2>3 DEF QueryFails
<1>. QED  BY <1>0, <1>1, ClaimsKept DEF QueryFails, table

LEMMA WellFormedStep == TypeOK /\ WellFormed /\ [Next]_vars => WellFormed'
BY MintStepWellFormed, RevokeStepWellFormed, QueryFailsWellFormed, OtherStepWellFormed DEF Next

\* The state of the sessions is always well formed.
THEOREM SessionsTypeOK == Spec => [](TypeOK /\ WellFormed)
BY TypeInit, WellFormedInit, TypeStep, WellFormedStep, PTL DEF Spec

-----------------------------------------------------------------------------
(* A device session that is over stays over.                               *)

LEMMA RevokedInLive ==
  ASSUME NEW S, NEW g \in Grants, RevokedIn(S)[g] = "live"
  PROVE  row[g] = "live"
BY DEF RevokedIn, Live

\* Moving on, stopping, or starting to revoke makes nobody mint.
LEMMA NobodyStartsToMint ==
  ASSUME TypeOK, NEW f \in Issued, UNCHANGED claims, NEW r \in Requests,
         \/ UNCHANGED req
         \/ Done(r)
         \/ \E pc : Goto(r, pc)
         \/ \E op \in {"password", "signout", "update", "revoke", "logout"} : \E pc, u, from :
              Start(r, op, pc, u, from)
  PROVE  \A q \in Requests : MintsInto(q, f)' => MintsInto(q, f)
<1>1. ASSUME NEW q \in Requests, req'[q].op = req[q].op, req'[q].from = req[q].from,
             req'[q].new = req[q].new
      PROVE  MintsInto(q, f)' => MintsInto(q, f)
  BY <1>1 DEF MintsInto, claims
<1>2. CASE UNCHANGED req
  BY <1>1, <1>2
<1>3. CASE Done(r)
  BY <1>1, <1>3 DEF TypeOK, Done, Idle, MintsInto
<1>4. CASE \E pc : Goto(r, pc)
  <2>1. req[r] \in Request
    BY DEF TypeOK
  <2>2. \A q \in Requests : /\ req'[q].op = req[q].op /\ req'[q].from = req[q].from
                            /\ req'[q].new = req[q].new
    BY <1>4, <2>1 DEF TypeOK, Goto, Request
  <2>. QED  BY <1>1, <2>2
<1>5. CASE \E op \in {"password", "signout", "update", "revoke", "logout"} : \E pc, u, from :
             Start(r, op, pc, u, from)
  BY <1>1, <1>5 DEF TypeOK, Start, MintsInto
<1>. QED  BY <1>2, <1>3, <1>4, <1>5

LEMMA StaysOver ==
  ASSUME TypeOK, NEW f \in Grants, FamilyOver(f), UNCHANGED claims,
         \A g \in FamilyOf(f) : row'[g] = "live" => row[g] = "live",
         \A q \in Requests : MintsInto(q, f)' => MintsInto(q, f)
  PROVE  FamilyOver(f)'
BY DEF FamilyOver, FamilyOf, Issued, Live, claims

LEMMA MintStepOver ==
  ASSUME TypeOK, WellFormed, NEW f \in Grants, FamilyOver(f), NEW r \in Requests, MintStep(r)
  PROVE  FamilyOver(f)'
<1>0. /\ req[r] \in Request /\ HandlerOK(r) /\ f \in Issued /\ Issued \subseteq Grants
      /\ ~MintsInto(r, f) /\ FamilyOf(f) \subseteq Grants
  BY IssuedAreGrants DEF TypeOK, WellFormed, FamilyOver, FamilyOf
<1>1. ASSUME NEW u \in Users, PostLogin(r, u) PROVE FamilyOver(f)'
  <2>1. \A q \in Requests : MintsInto(q, f)' => MintsInto(q, f)
    BY <1>0, <1>1, Bounds DEF PostLogin, Start, MintsInto, TypeOK, claims
  <2>. QED  BY <1>1, <2>1, StaysOver DEF PostLogin, table
<1>2. ASSUME NEW g \in Grants, PostRefresh(r, g) PROVE FamilyOver(f)'
  <2>1. grant[g].family # f
    BY <1>2 DEF PostRefresh, Live, FamilyOver, FamilyOf, WellFormed
  <2>2. \A q \in Requests : MintsInto(q, f)' => MintsInto(q, f)
    BY <1>2, <2>1 DEF PostRefresh, Start, MintsInto, TypeOK, claims
  <2>. QED  BY <1>2, <2>2, StaysOver DEF PostRefresh, table
<1>3. CASE Burn(r)
  BY <1>0, <1>3, StaysOver, NobodyStartsToMint, RevokedInLive DEF Burn
<1>4. CASE CheckAccount(r)
  BY <1>0, <1>4, StaysOver, NobodyStartsToMint DEF CheckAccount, table
<1>5. CASE Mint(r)
  <2>. DEFINE n == issued + 1
              g2 == IF req[r].op = "login" THEN n ELSE grant[req[r].from].family
              pc == IF req[r].op = "login" THEN "evict" ELSE "store"
  <2>1. /\ n \in Grants /\ issued' = n /\ UNCHANGED row
        /\ grant' = [grant EXCEPT ![n] = [user |-> req[r].user, family |-> g2, iat |-> now]]
        /\ req' = [req EXCEPT ![r] = [@ EXCEPT !.new = n, !.pc = pc]]
    BY <1>5 DEF Mint, table
  <2>2. n \notin Issued /\ Issued' = Issued \union {n}
    BY <2>1, OneMoreIssued
  <2>3. req[r].op = "login" \/ (req[r].op = "refresh" /\ req[r].from \in Issued)
    BY <1>0, <1>5 DEF Mint, At, HandlerOK
  <2>4. g2 # f
    BY <1>0, <2>2, <2>3 DEF MintsInto
  <2>5. req[r].op = "login" => n # f
    BY <1>0, <2>2
  <2>. HIDE DEF n, g2, pc
  <2>6. /\ \A g \in Issued : grant'[g] = grant[g]
        /\ grant'[n].family = g2
    BY <1>0, <2>1, <2>2 DEF TypeOK
  <2>7. FamilyOf(f)' = FamilyOf(f)
    BY <2>2, <2>4, <2>6 DEF FamilyOf
  <2>8. /\ req'[r].new = n /\ req'[r].op = req[r].op /\ req'[r].from = req[r].from
        /\ \A q \in Requests : q # r => req'[q] = req[q]
    BY <1>0, <2>1 DEF TypeOK, Request
  <2>9. ~MintsInto(r, f)'
    BY <1>0, <2>3, <2>5, <2>6, <2>8 DEF MintsInto
  <2>10. ASSUME NEW q \in Requests, q # r PROVE ~MintsInto(q, f)'
    <3>1. req[q].op = "refresh" => req[q].from \in Issued
      BY DEF WellFormed, HandlerOK
    <3>. QED  BY <2>6, <2>8, <2>10, <3>1 DEF MintsInto, FamilyOver
  <2>. QED  BY <1>0, <2>1, <2>2, <2>7, <2>9, <2>10 DEF FamilyOver, Live
<1>6. CASE EvictOldestFamily(r)
  <2>1. \A g \in FamilyOf(f) : row'[g] = "live" => row[g] = "live"
    BY <1>0, <1>6, RevokedInLive DEF EvictOldestFamily
  <2>. QED  BY <1>0, <1>6, <2>1, StaysOver, NobodyStartsToMint DEF EvictOldestFamily
<1>7. CASE Store(r)
  <2>1. grant[req[r].new].family # f
    BY <1>0, <1>7 DEF Store, At, HandlerOK, MintsInto, Request
  <2>2. \A g \in FamilyOf(f) : row'[g] = row[g]
    BY <1>0, <1>7, <2>1 DEF Store, FamilyOf, TypeOK
  <2>3. \A q \in Requests : MintsInto(q, f)' => MintsInto(q, f)
    <3>1. Done(r) \/ Goto(r, "cache")
      BY <1>7 DEF Store
    <3>. QED  BY <1>0, <1>7, <3>1, NobodyStartsToMint DEF Store
  <2>. QED  BY <1>7, <2>2, <2>3, StaysOver DEF Store
<1>8. CASE StoreFails(r)
  BY <1>0, <1>8, StaysOver, NobodyStartsToMint DEF StoreFails, table
<1>9. CASE CacheSuccessor(r)
  BY <1>0, <1>9, StaysOver, NobodyStartsToMint DEF CacheSuccessor, table
<1>. QED  BY <1>1, <1>2, <1>3, <1>4, <1>5, <1>6, <1>7, <1>8, <1>9 DEF MintStep

LEMMA RevokeStepOver ==
  ASSUME TypeOK, WellFormed, NEW f \in Grants, FamilyOver(f), NEW r \in Requests, RevokeStep(r)
  PROVE  FamilyOver(f)'
<1>0. f \in Issued /\ FamilyOf(f) \subseteq Grants
  BY IssuedAreGrants DEF FamilyOver, FamilyOf
<1>. USE <1>0, StaysOver, NobodyStartsToMint, RevokedInLive
<1>1. ASSUME NEW u \in Users, PutPassword(r, u) PROVE FamilyOver(f)'
  BY <1>1 DEF PutPassword, table
<1>2. ASSUME NEW u \in Users, NEW status, NEW signOut, UsersUpdate(r, u, status, signOut)
      PROVE  FamilyOver(f)'
  BY <1>2 DEF UsersUpdate, table
<1>3. ASSUME NEW u \in Users, UsersSignout(r, u) PROVE FamilyOver(f)'
  BY <1>3 DEF UsersSignout, table
<1>4. ASSUME NEW u \in Users, UsersDelete(r, u) PROVE FamilyOver(f)'
  BY <1>4 DEF UsersDelete
<1>5. ASSUME NEW g \in Issued, SessionsRevoke(r, g) PROVE FamilyOver(f)'
  BY <1>5 DEF SessionsRevoke, table
<1>6. ASSUME NEW g \in Issued, NEW cookies, PostLogout(r, g, cookies) PROVE FamilyOver(f)'
  BY <1>6 DEF PostLogout, table
<1>7. CASE TableRevokeAll(r)
  BY <1>7 DEF TableRevokeAll
<1>8. CASE TableRevokeFamily(r)
  BY <1>8 DEF TableRevokeFamily
<1>9. CASE TrackerRevokeAll(r)
  BY <1>9 DEF TrackerRevokeAll, table
<1>10. CASE TrackerRevokeFamily(r)
  BY <1>10 DEF TrackerRevokeFamily, table
<1>. QED
  BY <1>1, <1>2, <1>3, <1>4, <1>5, <1>6, <1>7, <1>8, <1>9, <1>10 DEF RevokeStep

LEMMA QueryFailsOver ==
  ASSUME TypeOK, NEW f \in Grants, FamilyOver(f), NEW r \in Requests, QueryFails(r)
  PROVE  FamilyOver(f)'
<1>1. f \in Issued
  BY DEF FamilyOver
<1>. QED  BY <1>1, StaysOver, NobodyStartsToMint DEF QueryFails, table

LEMMA OtherStepOver ==
  ASSUME TypeOK, WellFormed, NEW f \in Grants, FamilyOver(f),
         \/ \E g \in Grants : RefreshExpired(g) \/ RefreshReplayed(g) \/ Lapse(g)
         \/ Tick \/ Purge \/ Restart \/ UNCHANGED vars
  PROVE  FamilyOver(f)'
<1>0. f \in Issued /\ FamilyOf(f) \subseteq Grants
  BY IssuedAreGrants DEF FamilyOver, FamilyOf
<1>1. ASSUME UNCHANGED <<claims, req>> PROVE \A q \in Requests : MintsInto(q, f)' => MintsInto(q, f)
  BY <1>1 DEF MintsInto, claims
<1>. USE <1>0, <1>1, StaysOver, RevokedInLive
<1>2. ASSUME NEW g \in Grants, RefreshExpired(g) PROVE FamilyOver(f)'
  BY <1>2 DEF RefreshExpired
<1>3. ASSUME NEW g \in Grants, RefreshReplayed(g) PROVE FamilyOver(f)'
  BY <1>3 DEF RefreshReplayed
<1>4. ASSUME NEW g \in Grants, Lapse(g) PROVE FamilyOver(f)'
  BY <1>4 DEF Lapse
<1>5. CASE Tick
  BY <1>5 DEF Tick, table
<1>6. CASE Purge
  BY <1>6 DEF Purge
<1>7. CASE Restart
  <2>1. \A q \in Requests : ~MintsInto(q, f)'
    BY <1>7 DEF Restart, MintsInto, Idle
  <2>. QED  BY <1>7, <2>1 DEF Restart, table
<1>8. CASE UNCHANGED vars
  BY <1>8 DEF vars, table
<1>. QED  BY <1>2, <1>3, <1>4, <1>5, <1>6, <1>7, <1>8

\* Once a family has no live refresh token and no handler minting into it,
\* nothing brings it back, whatever order the handlers' steps come in.
THEOREM SessionsOver == Spec => DeadFamilyStaysDead
<1>1. TypeOK /\ WellFormed /\ [Next]_vars => [\A f \in Grants : FamilyOver(f) => FamilyOver(f)']_vars
  BY MintStepOver, RevokeStepOver, QueryFailsOver, OtherStepOver DEF Next
<1>. QED  BY <1>1, SessionsTypeOK, PTL DEF Spec, DeadFamilyStaysDead

-----------------------------------------------------------------------------
(* A revoked access token is refused until it has expired.                 *)

LEMMA TrackerInit == Init => TrackerInv
BY DEF Init, TrackerInv, TrackedOrCovered, RefusedIsCovered, Issued

\* Time, and steps that leave the tokens and the tracker alone.
LEMMA TrackerAlone ==
  ASSUME TypeOK, WellFormed, TrackerInv, UNCHANGED <<claims, tracker, refused>>,
         now' \in Nat, now <= now'
  PROVE  TrackerInv'
<1>0. now \in Nat
  BY Bounds DEF TypeOK
<1>1. ASSUME NEW g \in Issued, Expired(g) PROVE Expired(g)'
  <2>1. grant[g].iat \in Nat
    BY IssuedAreGrants DEF TypeOK
  <2>. QED  BY <1>0, <1>1, <2>1, Bounds DEF Expired, claims
<1>. QED
  BY <1>1 DEF TrackerInv, TrackedOrCovered, RefusedIsCovered, Covered, WellFormed, Issued,
              claims, tracker

\* Minting: eviction denies what it drops, and cleanup forgets only tokens
\* and denials that have expired.
LEMMA TrackerMint ==
  ASSUME TypeOK, WellFormed, TrackerInv, NEW r \in Requests, Mint(r)
  PROVE  TrackerInv'
<1>. DEFINE n == issued + 1
            u == req[r].user
            f == IF req[r].op = "login" THEN n ELSE grant[req[r].from].family
<1>1. /\ n \in Grants /\ issued' = n /\ UNCHANGED <<now, refused>> /\ Track(u, n)
      /\ grant' = [grant EXCEPT ![n] = [user |-> u, family |-> f, iat |-> now]]
  BY DEF Mint
<1>2. n \notin Issued /\ Issued' = Issued \union {n}
  BY <1>1, OneMoreIssued
<1>3. u \in Users
  BY DEF TypeOK, Request
<1>. HIDE DEF n, u, f
<1>4. /\ \A g \in Issued : grant'[g] = grant[g]
      /\ grant'[n].user = u
      /\ Issued \subseteq Grants /\ refused \subseteq Issued
  BY <1>1, <1>2, IssuedAreGrants DEF TypeOK, WellFormed
<1>5. ASSUME NEW g \in Issued
      PROVE  /\ grant[g].iat \in Nat /\ grant[g].iat + AccessTTL \in Nat
             /\ grant[g].user \in Users /\ grant[g].family \in Grants /\ g \in Grants
             /\ Expired(g)' <=> Expired(g)
             /\ now \in Nat /\ denied[g] \in Nat /\ deniedFam[grant[g].family] \in Nat
  <2>1. g \in Grants /\ grant[g].iat \in Nat /\ grant[g].user \in Users /\ grant[g].family \in Grants
    BY <1>4 DEF TypeOK, WellFormed
  <2>2. now \in Nat /\ denied[g] \in Nat /\ deniedFam[grant[g].family] \in Nat
    BY <2>1 DEF TypeOK
  <2>3. Expired(g)' <=> Expired(g)
    BY <1>1, <1>4 DEF Expired
  <2>. QED  BY <2>1, <2>2, <2>3, Bounds
<1>6. ASSUME NEW g \in Issued, ~Expired(g), denied[g] >= grant[g].iat + AccessTTL
      PROVE  denied'[g] >= grant[g].iat + AccessTTL
  <2>1. Denied(g)
    BY <1>5, <1>6, Bounds DEF Denied, Expired
  <2>. QED  BY <1>1, <1>5, <1>6, <2>1 DEF Track, TypeOK
<1>7. ASSUME NEW g \in Issued, ~Expired(g),
             deniedFam[grant[g].family] >= grant[g].iat + AccessTTL
      PROVE  deniedFam'[grant[g].family] >= grant[g].iat + AccessTTL
  <2>1. FamilyDenied(grant[g].family)
    BY <1>5, <1>7, Bounds DEF FamilyDenied, Expired
  <2>. QED  BY <1>1, <1>5, <1>7, <2>1 DEF Track, TypeOK
<1>8. ASSUME NEW g \in Issued, ~Expired(g), g \in tracked[grant[g].user]
      PROVE  \/ g \in tracked'[grant[g].user]
             \/ denied'[g] >= grant[g].iat + AccessTTL
  <2>1. g \in Kept(grant[g].user)
    BY <1>8 DEF Kept
  <2>2. CASE grant[g].user = u /\ g \in Evicted(u)
    BY <1>1, <1>5, <2>2 DEF Track
  <2>3. CASE ~(grant[g].user = u /\ g \in Evicted(u))
    BY <1>1, <1>5, <2>1, <2>3 DEF Track
  <2>. QED  BY <2>2, <2>3
<1>9. UNCHANGED validFrom
  BY <1>1 DEF Track
<1>10. TrackedOrCovered'
  <2>1. n \in tracked'[grant'[n].user]
    BY <1>1, <1>3, <1>4 DEF Track
  <2>2. ASSUME NEW g \in Issued
        PROVE  Expired(g)' \/ Covered(g)' \/ g \in tracked'[grant'[g].user]
    BY <1>4, <1>5, <1>6, <1>8, <1>9 DEF TrackerInv, TrackedOrCovered, Covered
  <2>. QED  BY <1>2, <2>1, <2>2 DEF TrackedOrCovered
<1>11. RefusedIsCovered'
  BY <1>1, <1>4, <1>5, <1>6, <1>7, <1>9 DEF TrackerInv, RefusedIsCovered, Covered
<1>. QED  BY <1>10, <1>11 DEF TrackerInv

\* A token issued in the past is covered by a denial that starts now.
LEMMA DenialLasts ==
  ASSUME TypeOK, WellFormed, NEW g \in Issued
  PROVE  now + AccessTTL >= grant[g].iat + AccessTTL
BY IssuedAreGrants, Bounds DEF TypeOK, WellFormed

LEMMA TrackerLogout ==
  ASSUME TypeOK, WellFormed, TrackerInv, NEW g \in Issued,
         denied' = [denied EXCEPT ![g] = now + AccessTTL], refused' = refused \union {g},
         UNCHANGED <<now, claims, tracked, deniedFam, validFrom>>
  PROVE  TrackerInv'
<1>1. \A h \in Issued : denied[h] >= grant[h].iat + AccessTTL => denied'[h] >= grant[h].iat + AccessTTL
  BY DenialLasts, IssuedAreGrants DEF TypeOK
<1>2. denied'[g] >= grant[g].iat + AccessTTL
  BY DenialLasts, IssuedAreGrants DEF TypeOK
<1>. QED
  BY <1>1, <1>2 DEF TrackerInv, TrackedOrCovered, RefusedIsCovered, Covered, WellFormed, Issued,
                    claims, Expired

LEMMA TrackerAll ==
  ASSUME TypeOK, WellFormed, TrackerInv, NEW r \in Requests, TrackerRevokeAll(r)
  PROVE  TrackerInv'
<1>. DEFINE u == req[r].user
<1>1. /\ denied' = [g \in Grants |->
            IF g \in tracked[u] THEN grant[g].iat + AccessTTL ELSE denied[g]]
      /\ tracked' = [tracked EXCEPT ![u] = {}]
      /\ refused' = refused \union GrantsOf(u)
      /\ UNCHANGED <<now, issued, grant, deniedFam, validFrom>>
  BY DEF TrackerRevokeAll, claims
<1>2. u \in Users /\ Issued \subseteq Grants
  BY IssuedAreGrants DEF TypeOK, Request
<1>. HIDE DEF u
<1>3. ASSUME NEW g \in Issued
      PROVE  /\ grant[g].iat + AccessTTL \in Nat /\ grant[g].user \in Users /\ denied[g] \in Nat
             /\ g \in Grants
  BY <1>2, Bounds DEF TypeOK
<1>4. ASSUME NEW g \in Issued, denied[g] >= grant[g].iat + AccessTTL
      PROVE  denied'[g] >= grant[g].iat + AccessTTL
  BY <1>1, <1>3, <1>4
<1>5. ASSUME NEW g \in Issued, g \in tracked[grant[g].user]
      PROVE  \/ grant[g].user # u /\ g \in tracked'[grant[g].user]
             \/ denied'[g] >= grant[g].iat + AccessTTL
  BY <1>1, <1>3, <1>5 DEF TypeOK
<1>6. ASSUME NEW g \in Issued, Covered(g) PROVE Covered(g)'
  BY <1>1, <1>4, <1>6 DEF Covered
<1>7. ASSUME NEW g \in Issued
      PROVE  Expired(g)' \/ Covered(g)' \/ (grant[g].user # u /\ g \in tracked'[grant[g].user])
  BY <1>1, <1>5, <1>6, <1>7 DEF TrackerInv, TrackedOrCovered, Expired, Covered
<1>8. TrackedOrCovered'
  BY <1>1, <1>7 DEF TrackedOrCovered, Issued
<1>9. RefusedIsCovered'
  BY <1>1, <1>6, <1>7 DEF TrackerInv, RefusedIsCovered, WellFormed, GrantsOf, Expired
<1>. QED  BY <1>8, <1>9 DEF TrackerInv

LEMMA TrackerFamily ==
  ASSUME TypeOK, WellFormed, TrackerInv, NEW r \in Requests, TrackerRevokeFamily(r)
  PROVE  TrackerInv'
<1>. DEFINE f == req[r].from
<1>1. /\ deniedFam' = [deniedFam EXCEPT ![f] = now + AccessTTL]
      /\ refused' = refused \union FamilyOf(f)
      /\ UNCHANGED <<now, issued, grant, tracked, denied, validFrom>>
  BY DEF TrackerRevokeFamily, claims
<1>. HIDE DEF f
<1>2. ASSUME NEW g \in Issued
      PROVE  grant[g].family \in Grants
  BY IssuedAreGrants DEF WellFormed
<1>3. ASSUME NEW g \in Issued, deniedFam[grant[g].family] >= grant[g].iat + AccessTTL
      PROVE  deniedFam'[grant[g].family] >= grant[g].iat + AccessTTL
  BY <1>1, <1>2, <1>3, DenialLasts DEF TypeOK
<1>4. ASSUME NEW g \in FamilyOf(f)
      PROVE  deniedFam'[grant[g].family] >= grant[g].iat + AccessTTL
  BY <1>1, <1>2, <1>4, DenialLasts DEF TypeOK, FamilyOf
<1>. QED
  BY <1>1, <1>3, <1>4 DEF TrackerInv, TrackedOrCovered, RefusedIsCovered, Covered, WellFormed,
                          Issued, Expired

\* The next run refuses every token of this one, if it starts in a later
\* second.
LEMMA TrackerRestart ==
  ASSUME RestartDelay >= 1, TypeOK, WellFormed, TrackerInv, Restart
  PROVE  TrackerInv'
<1>1. now \in Nat /\ validFrom' = now + RestartDelay
  BY Bounds DEF TypeOK, Restart
<1>2. \A g \in Issued : grant[g].iat < validFrom'
  BY <1>1, IssuedAreGrants, Bounds DEF WellFormed, TypeOK
<1>. QED
  BY <1>2 DEF Restart, TrackerInv, TrackedOrCovered, RefusedIsCovered, Covered, WellFormed,
              Issued, claims

LEMMA TrackerStep ==
  ASSUME RestartDelay >= 1, TypeOK, WellFormed, TrackerInv, [Next]_vars
  PROVE  TrackerInv'
<1>0. now \in Nat
  BY Bounds DEF TypeOK
<1>1. ASSUME NEW r \in Requests, MintStep(r) PROVE TrackerInv'
  <2>1. CASE Mint(r)
    BY <2>1, TrackerMint
  <2>2. CASE UNCHANGED <<now, claims, tracker, refused>>
    BY <1>0, <2>2, TrackerAlone
  <2>3. Mint(r) \/ UNCHANGED <<now, claims, tracker, refused>>
    BY <1>1 DEF MintStep, PostLogin, PostRefresh, Burn, CheckAccount, EvictOldestFamily, Store,
                StoreFails, CacheSuccessor
  <2>. QED  BY <2>1, <2>2, <2>3
<1>2. ASSUME NEW r \in Requests, RevokeStep(r) PROVE TrackerInv'
  <2>1. ASSUME NEW g \in Issued, NEW cookies, PostLogout(r, g, cookies) PROVE TrackerInv'
    BY <2>1, TrackerLogout DEF PostLogout
  <2>2. CASE TrackerRevokeAll(r)
    BY <2>2, TrackerAll
  <2>3. CASE TrackerRevokeFamily(r)
    BY <2>3, TrackerFamily
  <2>4. CASE UNCHANGED <<now, claims, tracker, refused>>
    BY <1>0, <2>4, TrackerAlone
  <2>5. \/ \E g \in Issued : \E cookies : PostLogout(r, g, cookies)
        \/ TrackerRevokeAll(r) \/ TrackerRevokeFamily(r)
        \/ UNCHANGED <<now, claims, tracker, refused>>
    BY <1>2 DEF RevokeStep, PutPassword, UsersUpdate, UsersSignout, UsersDelete, SessionsRevoke,
                TableRevokeAll, TableRevokeFamily
  <2>. QED  BY <2>1, <2>2, <2>3, <2>4, <2>5
<1>8. ASSUME NEW r \in Requests, QueryFails(r) PROVE TrackerInv'
  BY <1>0, <1>8, TrackerAlone DEF QueryFails
<1>3. ASSUME NEW g \in Grants, RefreshExpired(g) \/ RefreshReplayed(g) \/ Lapse(g) PROVE TrackerInv'
  <2>1. UNCHANGED <<now, claims, tracker, refused>>
    BY <1>3 DEF RefreshExpired, RefreshReplayed, Lapse
  <2>. QED  BY <1>0, <2>1, TrackerAlone
<1>4. CASE Tick
  BY <1>0, <1>4, TrackerAlone DEF Tick
<1>5. CASE Purge
  BY <1>0, <1>5, TrackerAlone DEF Purge
<1>6. CASE Restart
  BY <1>6, TrackerRestart
<1>7. CASE UNCHANGED vars
  BY <1>0, <1>7, TrackerAlone DEF vars
<1>. QED  BY <1>1, <1>2, <1>3, <1>4, <1>5, <1>6, <1>7, <1>8 DEF Next

\* A denial that lasts as long as its token is one the tracker applies.
LEMMA CoveredIsRejected ==
  ASSUME TypeOK, WellFormed, NEW g \in Issued, ~Expired(g),
         Covered(g) \/ deniedFam[grant[g].family] >= grant[g].iat + AccessTTL
  PROVE  Rejects(g)
<1>1. /\ now \in Nat /\ grant[g].iat \in Nat /\ denied[g] \in Nat
      /\ deniedFam[grant[g].family] \in Nat
  BY IssuedAreGrants, Bounds DEF TypeOK, WellFormed
<1>. QED  BY <1>1, Bounds DEF Covered, Expired, Rejects, Denied, FamilyDenied

\* Revocations are final and the tracker knows every token it may have to
\* revoke, as long as a restart takes the clock into a later second.
THEOREM SessionsRevocation ==
  ASSUME RestartDelay >= 1
  PROVE  Spec => [](RevocationIsFinal /\ HonouredIsTracked)
<1>1. TypeOK /\ WellFormed /\ TrackerInv => RevocationIsFinal /\ HonouredIsTracked
  <2>. SUFFICES ASSUME TypeOK, WellFormed, TrackerInv
                PROVE  RevocationIsFinal /\ HonouredIsTracked
    OBVIOUS
  <2>1. RevocationIsFinal
    BY CoveredIsRejected DEF RevocationIsFinal, TrackerInv, RefusedIsCovered, WellFormed
  <2>2. HonouredIsTracked
    BY CoveredIsRejected DEF HonouredIsTracked, Accepts, TrackerInv, TrackedOrCovered
  <2>. QED  BY <2>1, <2>2
<1>2. TypeOK /\ WellFormed /\ TrackerInv /\ [Next]_vars => TrackerInv'
  BY TrackerStep
<1>. QED  BY <1>1, <1>2, TrackerInit, SessionsTypeOK, PTL DEF Spec

-----------------------------------------------------------------------------
(* A device holds one refresh token, and it is the newest of its rows.     *)

\* What is left in the table of the family r is minting into: before the
\* presented token is revoked no other, then none, and what r has minted is
\* newer than all the family had before.
TurnOK(r) ==
  /\ req[r].op = "login" =>
       /\ req[r].pc \in {"mint", "evict", "store"}
       /\ req[r].pc = "mint" => req[r].new = 0
  /\ req[r].op = "refresh" => req[r].pc \in {"burn", "check", "mint", "store", "cache"}
  /\ \A g \in Issued : MintsInto(r, grant[g].family) /\ Live(g) /\ grant[g].family \notin Forked =>
       \/ req[r].pc = "burn" /\ g = req[r].from
       \/ req[r].pc = "cache" /\ g = req[r].new
  /\ \A g \in Issued :
       MintsInto(r, grant[g].family) /\ req[r].pc \in {"evict", "store"}
         /\ grant[g].family \notin Forked
         => g <= req[r].new

\* No two handlers mint into one family.
Alone(q, r) ==
  \A g \in Issued :
    MintsInto(q, grant[g].family) /\ MintsInto(r, grant[g].family) /\ grant[g].family \notin Forked
      => q = r

LiveIsNewest ==
  \A g, h \in Issued :
    Live(g) /\ row[h] # "none" /\ grant[g].family = grant[h].family /\ grant[g].family \notin Forked
      => h <= g

FamilyInv ==
  /\ OneLivePerFamily
  /\ LiveIsNewest
  /\ \A r \in Requests : TurnOK(r)
  /\ \A q, r \in Requests : Alone(q, r)

\* Who has forked stays so.
LEMMA ForkedStay ==
  ASSUME UNCHANGED claims, forked \subseteq forked', NEW f, f \in Forked
  PROVE  f \in Forked'
BY DEF Forked, claims, Issued

LEMMA FamilyInit == Init => FamilyInv
BY DEF Init, FamilyInv, OneLivePerFamily, LiveIsNewest, TurnOK, Alone, Issued, Idle

\* Rows are only revoked or removed, and the handlers that move do so to a
\* place that fits.
LEMMA FamilyShrinks ==
  ASSUME TypeOK, WellFormed, FamilyInv, UNCHANGED claims, forked \subseteq forked',
         \A g \in Grants : /\ row'[g] = "live" => row[g] = "live"
                           /\ row'[g] # "none" => row[g] # "none",
         \A q \in Requests : req'[q] = req[q] \/ TurnOK(q)',
         \A q \in Requests, g \in Issued :
           MintsInto(q, grant[g].family)' => MintsInto(q, grant[g].family)
  PROVE  FamilyInv'
<1>1. Issued' = Issued /\ grant' = grant /\ Issued \subseteq Grants
  BY IssuedAreGrants DEF claims, Issued
<1>f. \A f : f \in Forked => f \in Forked'
  BY ForkedStay
<1>2. OneLivePerFamily' /\ LiveIsNewest'
  BY <1>1, <1>f DEF FamilyInv, OneLivePerFamily, LiveIsNewest, Live
<1>3. ASSUME NEW q \in Requests PROVE TurnOK(q)'
  <2>1. CASE req'[q] = req[q]
    BY <1>1, <1>f, <2>1 DEF FamilyInv, TurnOK, MintsInto, Live
  <2>. QED  BY <2>1
<1>4. \A q, r \in Requests : Alone(q, r)'
  BY <1>1, <1>f DEF FamilyInv, Alone, MintsInto
<1>. QED  BY <1>2, <1>3, <1>4 DEF FamilyInv

\* The same for the steps of a handler that mints no more, and of nobody.
LEMMA FamilyQuiet ==
  ASSUME TypeOK, WellFormed, FamilyInv, UNCHANGED <<claims, forked>>,
         \A g \in Grants : /\ row'[g] = "live" => row[g] = "live"
                           /\ row'[g] # "none" => row[g] # "none",
         \A q \in Requests : req'[q] = req[q] \/ req'[q].op \notin {"login", "refresh"}
  PROVE  FamilyInv'
<1>1. \A q \in Requests : req'[q].op \notin {"login", "refresh"} =>
        TurnOK(q)' /\ \A f : ~MintsInto(q, f)'
  BY DEF TurnOK, MintsInto
<1>2. \A q \in Requests, g \in Issued :
        MintsInto(q, grant[g].family)' => MintsInto(q, grant[g].family)
  BY <1>1 DEF MintsInto, claims
<1>. QED  BY <1>1, <1>2, FamilyShrinks

\* A handler that goes on to a next step fits if the rows do.
LEMMA FamilyGoes ==
  ASSUME TypeOK, WellFormed, FamilyInv, UNCHANGED <<claims, forked>>, NEW r \in Requests,
         NEW pc \in {"check", "mint", "store"}, Goto(r, pc),
         \A g \in Grants : /\ row'[g] = "live" => row[g] = "live"
                           /\ row'[g] # "none" => row[g] # "none",
         req[r].op = "refresh" => pc \in {"check", "mint"},
         req[r].op = "login" => pc = "store" /\ req[r].pc = "evict",
         \A g \in Issued :
           MintsInto(r, grant[g].family) /\ grant[g].family \notin Forked => row'[g] # "live"
  PROVE  FamilyInv'
<1>1. Issued' = Issued /\ grant' = grant /\ req[r] \in Request
  BY DEF claims, Issued, TypeOK
<1>2. /\ req'[r].pc = pc /\ req'[r].op = req[r].op /\ req'[r].from = req[r].from
      /\ req'[r].new = req[r].new
      /\ \A q \in Requests : q # r => req'[q] = req[q]
  BY <1>1 DEF Goto, TypeOK, Request
<1>3. \A f : MintsInto(r, f)' <=> MintsInto(r, f)
  BY <1>1, <1>2 DEF MintsInto
<1>4. TurnOK(r)'
  <2>1. \A g \in Issued :
          MintsInto(r, grant[g].family) /\ pc = "store" /\ grant[g].family \notin Forked
            => g <= req[r].new
    BY DEF FamilyInv, TurnOK, MintsInto
  <2>2. \A f : f \in Forked => f \in Forked'
    BY ForkedStay
  <2>. QED  BY <1>1, <1>2, <1>3, <2>1, <2>2 DEF TurnOK, Live
<1>5. \A q \in Requests, g \in Issued :
        MintsInto(q, grant[g].family)' => MintsInto(q, grant[g].family)
  BY <1>1, <1>2, <1>3 DEF MintsInto
<1>. QED  BY <1>2, <1>4, <1>5, FamilyShrinks

\* Nothing has been minted for the number that comes next.
LEMMA FamilyMint ==
  ASSUME TypeOK, WellFormed, FamilyInv, NEW r \in Requests, Mint(r)
  PROVE  FamilyInv'
<1>. DEFINE n == issued + 1
            f == IF req[r].op = "login" THEN n ELSE grant[req[r].from].family
            pc == IF req[r].op = "login" THEN "evict" ELSE "store"
<1>0. /\ req[r] \in Request /\ HandlerOK(r) /\ TurnOK(r) /\ Issued \subseteq Grants
      /\ \A g \in Issued : grant[g].family \in Issued
  BY IssuedAreGrants DEF TypeOK, WellFormed, FamilyInv
<1>1. /\ n \in Grants /\ issued' = n /\ UNCHANGED row
      /\ grant' = [grant EXCEPT ![n] = [user |-> req[r].user, family |-> f, iat |-> now]]
      /\ req' = [req EXCEPT ![r] = [@ EXCEPT !.new = n, !.pc = pc]]
      /\ req[r].pc = "mint"
  BY DEF Mint, table, At
<1>2. /\ n \notin Issued /\ Issued' = Issued \union {n} /\ row[n] = "none"
      /\ \A g \in Issued : g <= n
  <2>1. n \notin Issued /\ Issued' = Issued \union {n} /\ \A g \in Issued : g <= n
    BY <1>1, OneMoreIssued, Bounds DEF TypeOK, Issued
  <2>. QED  BY <1>1, <2>1 DEF WellFormed
<1>3. \/ req[r].op = "login" /\ f = n /\ pc = "evict" /\ req[r].new = 0
      \/ req[r].op = "refresh" /\ req[r].from \in Issued /\ f = grant[req[r].from].family
         /\ pc = "store"
  BY <1>0, <1>1 DEF HandlerOK, TurnOK
<1>. HIDE DEF n, f, pc
<1>4. /\ \A g \in Issued : grant'[g] = grant[g]
      /\ grant'[n].family = f
  BY <1>0, <1>1, <1>2 DEF TypeOK
<1>5. /\ req'[r].new = n /\ req'[r].op = req[r].op /\ req'[r].from = req[r].from /\ req'[r].pc = pc
      /\ \A q \in Requests : q # r => req'[q] = req[q]
  BY <1>0, <1>1 DEF TypeOK, Request
<1>f. \A g \in Issued : grant[g].family \in Forked => (grant[g].family \in Forked)'
  BY <1>1, <1>2, <1>4 DEF Mint, Forked
<1>6. OneLivePerFamily' /\ LiveIsNewest'
  BY <1>1, <1>2, <1>4, <1>f DEF FamilyInv, OneLivePerFamily, LiveIsNewest, Live
<1>7. ASSUME NEW q \in Requests, q # r, NEW g \in Issued
      PROVE  MintsInto(q, grant[g].family)' <=> MintsInto(q, grant[g].family)
  <2>1. req[q].op = "refresh" => req[q].from \in Issued
    BY DEF WellFormed, HandlerOK
  <2>. QED  BY <1>4, <1>5, <1>7, <2>1 DEF MintsInto
<1>8. ASSUME NEW g \in Issued
      PROVE  MintsInto(r, grant[g].family)' <=> req[r].op = "refresh" /\ MintsInto(r, grant[g].family)
  <2>1. grant'[g] = grant[g] /\ grant[g].family # n
    BY <1>0, <1>2, <1>4
  <2>. QED  BY <1>3, <1>4, <1>5, <2>1 DEF MintsInto
<1>9. ASSUME NEW q \in Requests, q # r, NEW k \in Issued', k \notin Issued,
             (grant[k].family \notin Forked)'
      PROVE  ~MintsInto(q, grant[k].family)'
  <2>0. k = n
    BY <1>2, <1>9
  <2>1. CASE req[r].op = "login"
    <3>1. grant'[k].family = n
      BY <1>3, <1>4, <2>0, <2>1
    <3>2. req[q].op = "refresh" => req[q].from \in Issued
      BY DEF WellFormed, HandlerOK
    <3>3. req[q].op = "login" => req[q].new # n
      <4>1. req[q].op = "login" => req[q].new = 0 \/ req[q].new \in Issued
        BY DEF FamilyInv, TurnOK, WellFormed, HandlerOK
      <4>. QED  BY <1>1, <1>2, <4>1, Bounds
    <3>. QED  BY <1>0, <1>2, <1>4, <1>5, <1>9, <3>1, <3>2, <3>3 DEF MintsInto
  <2>2. CASE req[r].op = "refresh"
    <3>1. grant'[k].family = grant[req[r].from].family /\ req[r].from \in Issued
      BY <1>3, <1>4, <2>0, <2>2
    <3>f. grant[req[r].from].family \notin Forked
      BY <1>4, <1>9, <1>f, <3>1
    <3>2. ~MintsInto(q, grant[req[r].from].family)
      BY <1>9, <2>2, <3>1, <3>f DEF FamilyInv, Alone, MintsInto
    <3>3. req[q].op = "refresh" => req[q].from \in Issued
      BY DEF WellFormed, HandlerOK
    <3>. QED  BY <1>4, <1>5, <1>9, <3>1, <3>2, <3>3 DEF MintsInto
  <2>. QED  BY <1>3, <2>1, <2>2
<1>10. TurnOK(r)'
  <2>1. \A g \in Issued' : row'[g] = "live" => g \in Issued
    BY <1>1, <1>2
  <2>2. \A g \in Issued :
          MintsInto(r, grant[g].family)' /\ (grant[g].family \notin Forked)' => row[g] # "live"
    BY <1>0, <1>1, <1>8, <1>f DEF TurnOK, Live
  <2>3. n <= n
    BY <1>1, Bounds
  <2>. QED  BY <1>1, <1>2, <1>3, <1>5, <2>1, <2>2, <2>3 DEF TurnOK, Live
<1>11. ASSUME NEW q \in Requests, q # r PROVE TurnOK(q)'
  <2>1. TurnOK(q)
    BY DEF FamilyInv
  <2>2. \A g \in Issued' :
          MintsInto(q, grant[g].family)' /\ (grant[g].family \notin Forked)' =>
            g \in Issued /\ MintsInto(q, grant[g].family) /\ grant[g].family \notin Forked
    BY <1>2, <1>7, <1>9, <1>11, <1>f
  <2>. QED  BY <1>1, <1>2, <1>5, <1>11, <2>1, <2>2 DEF TurnOK, Live
<1>12. ASSUME NEW p \in Requests, NEW q \in Requests PROVE Alone(p, q)'
  <2>1. SUFFICES ASSUME NEW g \in Issued', MintsInto(p, grant[g].family)',
                        MintsInto(q, grant[g].family)', (grant[g].family \notin Forked)'
                 PROVE  p = q
    BY DEF Alone
  <2>2. CASE g \notin Issued
    BY <1>9, <2>1, <2>2
  <2>3. CASE g \in Issued
    <3>1. /\ MintsInto(p, grant[g].family) /\ MintsInto(q, grant[g].family)
          /\ grant[g].family \notin Forked
      BY <1>7, <1>8, <1>f, <2>1, <2>3
    <3>. QED  BY <2>3, <3>1 DEF FamilyInv, Alone
  <2>. QED  BY <2>2, <2>3
<1>. QED  BY <1>6, <1>10, <1>11, <1>12 DEF FamilyInv

\* The family a token is stored into has no live one.
LEMMA FamilyStore ==
  ASSUME TypeOK, WellFormed, FamilyInv, NEW r \in Requests, Store(r)
  PROVE  FamilyInv'
<1>. DEFINE n == req[r].new
<1>0. /\ req[r] \in Request /\ HandlerOK(r) /\ TurnOK(r) /\ Issued \subseteq Grants
      /\ req[r].pc = "store" /\ Issued' = Issued /\ grant' = grant
  BY IssuedAreGrants DEF TypeOK, WellFormed, FamilyInv, Store, At, claims, Issued
<1>1. n \in Issued /\ MintsInto(r, grant[n].family)
  BY <1>0 DEF HandlerOK, MintsInto
<1>2. row' = [row EXCEPT ![n] = "live"]
  BY DEF Store
<1>. HIDE DEF n
<1>3. /\ row'[n] = "live"
      /\ \A g \in Issued : g # n => row'[g] = row[g]
  BY <1>0, <1>1, <1>2 DEF TypeOK
<1>f. \A f : f \in Forked' <=> f \in Forked
  BY <1>0 DEF Store, Forked
<1>4. \A g \in Issued : grant[g].family = grant[n].family /\ grant[n].family \notin Forked =>
        row[g] # "live" /\ g <= n
  BY <1>0, <1>1 DEF TurnOK, Live, n
<1>5. OneLivePerFamily'
  BY <1>0, <1>1, <1>3, <1>4, <1>f DEF FamilyInv, OneLivePerFamily, Live
<1>6. LiveIsNewest'
  <2>1. SUFFICES ASSUME NEW g \in Issued, NEW h \in Issued, row'[g] = "live", row'[h] # "none",
                        grant[g].family = grant[h].family, grant[g].family \notin Forked
                 PROVE  h <= g
    BY <1>0, <1>f DEF LiveIsNewest, Live
  <2>2. CASE g = n
    BY <1>4, <2>1, <2>2
  <2>3. CASE g # n
    BY <1>1, <1>3, <1>4, <2>1, <2>3 DEF FamilyInv, LiveIsNewest, Live
  <2>. QED  BY <2>2, <2>3
<1>7. Done(r) \/ (req[r].op = "refresh" /\ Goto(r, "cache"))
  BY <1>0 DEF Store, HandlerOK
<1>8. \A q \in Requests : q # r => req'[q] = req[q]
  BY <1>7 DEF Done, Goto, TypeOK
<1>9. TurnOK(r)' /\ \A f : MintsInto(r, f)' => MintsInto(r, f)
  <2>1. CASE Done(r)
    <3>1. req'[r].op = "none"
      BY <2>1 DEF Done, TypeOK, Idle
    <3>. QED  BY <3>1 DEF TurnOK, MintsInto
  <2>2. CASE req[r].op = "refresh" /\ Goto(r, "cache")
    <3>1. /\ req'[r].pc = "cache" /\ req'[r].op = "refresh" /\ req'[r].from = req[r].from
          /\ req'[r].new = n
      BY <1>0, <2>2 DEF Goto, TypeOK, Request, n
    <3>2. \A f : MintsInto(r, f)' <=> MintsInto(r, f)
      BY <1>0, <2>2, <3>1 DEF MintsInto
    <3>3. \A g \in Issued :
            MintsInto(r, grant[g].family) /\ grant[g].family \notin Forked => row[g] # "live"
      BY <1>0 DEF TurnOK, Live
    <3>. QED  BY <1>0, <1>3, <1>f, <3>1, <3>2, <3>3 DEF TurnOK, Live
  <2>. QED  BY <1>7, <2>1, <2>2
<1>10. ASSUME NEW q \in Requests, q # r PROVE TurnOK(q)'
  <2>1. TurnOK(q) /\ (grant[n].family \in Forked \/ ~MintsInto(q, grant[n].family))
    BY <1>1, <1>10 DEF FamilyInv, Alone
  <2>2. \A f : MintsInto(q, f)' <=> MintsInto(q, f)
    BY <1>0, <1>8, <1>10 DEF MintsInto
  <2>. QED  BY <1>0, <1>3, <1>8, <1>10, <1>f, <2>1, <2>2 DEF TurnOK, Live
<1>11. \A p, q \in Requests : Alone(p, q)'
  BY <1>0, <1>8, <1>9, <1>f DEF FamilyInv, Alone, MintsInto
<1>. QED  BY <1>5, <1>6, <1>9, <1>10, <1>11 DEF FamilyInv

LEMMA MintStepFamily ==
  ASSUME TypeOK, WellFormed, FamilyInv, NEW r \in Requests, MintStep(r)
  PROVE  FamilyInv'
<1>0. /\ req[r] \in Request /\ HandlerOK(r) /\ TurnOK(r) /\ Issued \subseteq Grants
      /\ req \in [Requests -> Request]
  BY IssuedAreGrants DEF TypeOK, WellFormed, FamilyInv
<1>1. ASSUME NEW u \in Users, PostLogin(r, u) PROVE FamilyInv'
  <2>1. /\ req'[r] = [op |-> "login", pc |-> "mint", user |-> u, from |-> 0, new |-> 0]
        /\ \A q \in Requests : q # r => req'[q] = req[q]
        /\ UNCHANGED <<issued, grant, row, forked>>
    BY <1>0, <1>1 DEF PostLogin, Start, claims, table
  <2>2. \A g \in Issued : ~MintsInto(r, grant[g].family)'
    BY <1>0, <2>1, Bounds DEF MintsInto, WellFormed
  <2>3. TurnOK(r)'
    BY <2>1, <2>2 DEF TurnOK, Issued
  <2>4. \A q \in Requests, g \in Issued :
          MintsInto(q, grant[g].family)' => MintsInto(q, grant[g].family)
    BY <2>1, <2>2 DEF MintsInto
  <2>. QED  BY <1>1, <2>1, <2>3, <2>4, FamilyShrinks DEF claims
<1>2. ASSUME NEW g \in Grants, PostRefresh(r, g) PROVE FamilyInv'
  <2>1. /\ req'[r] = [op |-> "refresh", pc |-> "burn", user |-> grant[g].user, from |-> g, new |-> 0]
        /\ \A q \in Requests : q # r => req'[q] = req[q]
        /\ UNCHANGED <<issued, grant, row>> /\ row[g] = "live"
        /\ forked' = IF ReadTwice(g) THEN forked \union {g} ELSE forked
    BY <1>0, <1>2 DEF PostRefresh, Start, claims, table, Live
  <2>2. g \in Issued /\ Issued' = Issued
    BY <2>1 DEF WellFormed, Issued
  <2>f. /\ \A f : f \in Forked => f \in Forked'
        /\ ReadTwice(g) => (grant[g].family \in Forked)'
    BY <2>1, <2>2 DEF Forked
  <2>3. TurnOK(r)'
    BY <2>1, <2>2, <2>f DEF TurnOK, MintsInto, Live, FamilyInv, OneLivePerFamily
  <2>4. ASSUME NEW q \in Requests, q # r
        PROVE  TurnOK(q)' /\ ((grant[g].family \in Forked)' \/ ~MintsInto(q, grant[g].family)')
    <3>1. TurnOK(q)'
      BY <2>1, <2>2, <2>4, <2>f DEF FamilyInv, TurnOK, MintsInto, Live
    <3>2. req[q].op = "refresh" /\ MintsInto(q, grant[g].family) => (grant[g].family \in Forked)'
      <4>1. SUFFICES ASSUME req[q].op = "refresh", MintsInto(q, grant[g].family),
                            grant[g].family \notin Forked
                     PROVE  ReadTwice(g)
        BY <2>1, <2>f
      <4>2. (req[q].pc = "burn" /\ g = req[q].from) \/ (req[q].pc = "cache" /\ g = req[q].new)
        BY <2>1, <2>2, <4>1 DEF FamilyInv, TurnOK, Live
      <4>3. ~(req[q].pc = "cache" /\ g = req[q].new)
        BY <1>2 DEF PostRefresh, HandedOut, At
      <4>. QED  BY <4>1, <4>2, <4>3 DEF ReadTwice
    <3>3. req[q].op = "login" /\ MintsInto(q, grant[g].family) => (grant[g].family \in Forked)'
      BY <2>1, <2>2, <2>f DEF FamilyInv, TurnOK, Live
    <3>. QED  BY <2>1, <2>4, <3>1, <3>2, <3>3 DEF MintsInto
  <2>5. \A p, q \in Requests : Alone(p, q)'
    <3>1. SUFFICES ASSUME NEW p \in Requests, NEW q \in Requests, NEW h \in Issued,
                          MintsInto(p, grant[h].family)', MintsInto(q, grant[h].family)',
                          (grant[h].family \notin Forked)'
                   PROVE  p = q
      BY <2>1, <2>2 DEF Alone
    <3>2. CASE p = r \/ q = r
      <4>1. grant'[h].family = grant'[g].family
        BY <2>1, <3>1, <3>2 DEF MintsInto
      <4>2. (grant[g].family \notin Forked)'
        BY <3>1, <4>1
      <4>. QED  BY <2>4, <3>1, <3>2, <4>1, <4>2 DEF MintsInto
    <3>3. CASE p # r /\ q # r
      BY <2>1, <2>f, <3>1, <3>3 DEF FamilyInv, Alone, MintsInto
    <3>. QED  BY <3>2, <3>3
  <2>6. OneLivePerFamily' /\ LiveIsNewest'
    BY <2>1, <2>2, <2>f DEF FamilyInv, OneLivePerFamily, LiveIsNewest, Live
  <2>. QED  BY <2>3, <2>4, <2>5, <2>6 DEF FamilyInv
<1>3. CASE Burn(r)
  <2>1. /\ req[r].pc = "burn" /\ Goto(r, "check") /\ UNCHANGED <<claims, forked>>
        /\ row' = RevokedIn({req[r].from})
    BY <1>3 DEF Burn, At
  <2>2. req[r].op = "refresh"
    BY <1>0, <2>1 DEF HandlerOK, TurnOK
  <2>3. \A g \in Grants : row'[g] = "live" => g # req[r].from
    BY <2>1 DEF RevokedIn, Live
  <2>4. \A g \in Issued :
          MintsInto(r, grant[g].family) /\ grant[g].family \notin Forked => row'[g] # "live"
    BY <1>0, <2>1, <2>3, RevokedInLive DEF TurnOK, Live
  <2>. QED  BY <2>1, <2>2, <2>4, RevokedInLive, RevokedInRows, FamilyGoes
<1>4. CASE CheckAccount(r)
  <2>1. /\ req[r].pc = "check" /\ UNCHANGED <<issued, grant, row, forked>>
        /\ Goto(r, "mint") \/ Done(r)
    BY <1>4 DEF CheckAccount, At, claims, table
  <2>2. CASE Goto(r, "mint")
    <3>1. req[r].op = "refresh"
      BY <1>0, <2>1 DEF HandlerOK, TurnOK
    <3>2. \A g \in Issued :
          MintsInto(r, grant[g].family) /\ grant[g].family \notin Forked => row'[g] # "live"
      BY <1>0, <2>1 DEF TurnOK, Live
    <3>. QED  BY <2>1, <2>2, <3>1, <3>2, FamilyGoes DEF claims
  <2>3. CASE Done(r)
    BY <1>0, <2>1, <2>3, FamilyQuiet DEF Done, Idle, claims
  <2>. QED  BY <2>1, <2>2, <2>3
<1>5. CASE Mint(r)
  BY <1>5, FamilyMint
<1>6. CASE EvictOldestFamily(r)
  <2>1. req[r].pc = "evict" /\ Goto(r, "store") /\ UNCHANGED <<claims, forked>>
    BY <1>6 DEF EvictOldestFamily, At
  <2>2. \A g \in Grants : /\ row'[g] = "live" => row[g] = "live"
                          /\ row'[g] # "none" => row[g] # "none"
    BY <1>6, RevokedInLive, RevokedInRows DEF EvictOldestFamily
  <2>3. req[r].op = "login"
    BY <1>0, <2>1 DEF HandlerOK, TurnOK
  <2>4. \A g \in Issued :
          MintsInto(r, grant[g].family) /\ grant[g].family \notin Forked => row'[g] # "live"
    BY <1>0, <2>1, <2>2 DEF TurnOK, Live
  <2>. QED  BY <2>1, <2>2, <2>3, <2>4, FamilyGoes
<1>7. CASE Store(r)
  BY <1>7, FamilyStore
<1>8. CASE StoreFails(r) \/ CacheSuccessor(r)
  BY <1>0, <1>8, FamilyQuiet DEF StoreFails, CacheSuccessor, Done, Idle, table
<1>. QED  BY <1>1, <1>2, <1>3, <1>4, <1>5, <1>6, <1>7, <1>8 DEF MintStep

LEMMA RevokeStepFamily ==
  ASSUME TypeOK, WellFormed, FamilyInv, NEW r \in Requests, RevokeStep(r)
  PROVE  FamilyInv'
<1>0. req[r] \in Request /\ TurnOK(r) /\ req \in [Requests -> Request]
  BY DEF TypeOK, FamilyInv
<1>1. \A op \in {"password", "signout", "update", "revoke", "logout"} : \A pc, u, from :
        Start(r, op, pc, u, from) =>
          \A q \in Requests : req'[q] = req[q] \/ req'[q].op \notin {"login", "refresh"}
  BY <1>0 DEF Start
<1>2. Done(r) => \A q \in Requests : req'[q] = req[q] \/ req'[q].op \notin {"login", "refresh"}
  BY <1>0 DEF Done, Idle
<1>3. \A pc : req[r].pc \in {"table", "tracker", "tableFamily", "trackerFamily"} /\ Goto(r, pc) =>
        \A q \in Requests : req'[q] = req[q] \/ req'[q].op \notin {"login", "refresh"}
  BY <1>0 DEF Goto, TurnOK, Request
<1>4. UNCHANGED req => \A q \in Requests : req'[q] = req[q]
  OBVIOUS
<1>. USE <1>1, <1>2, <1>3, <1>4, FamilyQuiet, RevokedInLive, RevokedInRows
<1>5. ASSUME NEW u \in Users, PutPassword(r, u) PROVE FamilyInv'
  BY <1>5 DEF PutPassword, table
<1>6. ASSUME NEW u \in Users, NEW status, NEW signOut, UsersUpdate(r, u, status, signOut)
      PROVE  FamilyInv'
  BY <1>6 DEF UsersUpdate, table
<1>7. ASSUME NEW u \in Users, UsersSignout(r, u) \/ UsersDelete(r, u) PROVE FamilyInv'
  BY <1>7 DEF UsersSignout, UsersDelete, table
<1>8. ASSUME NEW f \in Issued, SessionsRevoke(r, f) PROVE FamilyInv'
  BY <1>8 DEF SessionsRevoke, table
<1>9. ASSUME NEW g \in Issued, NEW cookies, PostLogout(r, g, cookies) PROVE FamilyInv'
  BY <1>9 DEF PostLogout, table
<1>10. CASE TableRevokeAll(r)
  BY <1>10 DEF TableRevokeAll, At
<1>11. CASE TableRevokeFamily(r)
  BY <1>11 DEF TableRevokeFamily, At
<1>12. CASE TrackerRevokeAll(r)
  BY <1>12 DEF TrackerRevokeAll, At, table
<1>13. CASE TrackerRevokeFamily(r)
  BY <1>13 DEF TrackerRevokeFamily, At, table
<1>. QED
  BY <1>5, <1>6, <1>7, <1>8, <1>9, <1>10, <1>11, <1>12, <1>13 DEF RevokeStep

\* When the old token is not revoked, its device has forked.
LEMMA QueryFailsFamily ==
  ASSUME TypeOK, WellFormed, FamilyInv, NEW r \in Requests, QueryFails(r)
  PROVE  FamilyInv'
<1>0. /\ req[r] \in Request /\ HandlerOK(r) /\ TurnOK(r) /\ req \in [Requests -> Request]
      /\ UNCHANGED <<issued, grant, row>>
      /\ forked' = IF req[r].pc = "burn" THEN forked \union {req[r].from} ELSE forked
  BY DEF TypeOK, WellFormed, FamilyInv, QueryFails, claims, table, At
<1>1. CASE req[r].pc = "evict"
  <2>1. Goto(r, "store")
    BY <1>1 DEF QueryFails, At
  <2>2. req[r].op = "login"
    BY <1>0, <1>1 DEF HandlerOK, TurnOK
  <2>3. \A g \in Issued :
          MintsInto(r, grant[g].family) /\ grant[g].family \notin Forked => row'[g] # "live"
    BY <1>0, <1>1 DEF TurnOK, Live
  <2>. QED  BY <1>0, <1>1, <2>1, <2>2, <2>3, FamilyGoes DEF claims
<1>2. CASE req[r].pc = "burn"
  <2>1. Goto(r, "check") /\ req[r].op = "refresh" /\ req[r].from \in Issued
    BY <1>0, <1>2 DEF QueryFails, At, HandlerOK, TurnOK
  <2>2. Issued' = Issued /\ grant'[req[r].from].family \in Forked'
    <3>1. Issued' = Issued /\ req[r].from \in forked' \intersect Issued'
      BY <1>0, <1>2, <2>1 DEF Issued
    <3>2. grant'[req[r].from].family \in Forked'
      BY <3>1 DEF Forked
    <3>. QED  BY <1>0, <3>1, <3>2
  <2>3. /\ req'[r].pc = "check" /\ req'[r].op = req[r].op /\ req'[r].from = req[r].from
        /\ req'[r].new = req[r].new
        /\ \A q \in Requests : q # r => req'[q] = req[q]
    BY <1>0, <2>1 DEF Goto, Request
  <2>4. TurnOK(r)'
    BY <1>0, <2>1, <2>2, <2>3 DEF TurnOK, MintsInto
  <2>5. \A q \in Requests, g \in Issued :
          MintsInto(q, grant[g].family)' => MintsInto(q, grant[g].family)
    BY <1>0, <2>3 DEF MintsInto
  <2>6. forked \subseteq forked'
    BY <1>0
  <2>. QED  BY <1>0, <2>3, <2>4, <2>5, <2>6, FamilyShrinks DEF claims
<1>3. CASE req[r].pc \notin {"burn", "evict"}
  <2>1. Done(r)
    BY <1>3 DEF QueryFails, At
  <2>. QED  BY <1>0, <1>3, <2>1, FamilyQuiet DEF Done, Idle, claims
<1>. QED  BY <1>1, <1>2, <1>3

LEMMA OtherStepFamily ==
  ASSUME TypeOK, WellFormed, FamilyInv,
         \/ \E g \in Grants : RefreshExpired(g) \/ RefreshReplayed(g) \/ Lapse(g)
         \/ Tick \/ Purge \/ Restart \/ UNCHANGED vars
  PROVE  FamilyInv'
<1>. USE FamilyQuiet, RevokedInLive, RevokedInRows
<1>1. ASSUME NEW g \in Grants, RefreshExpired(g) \/ RefreshReplayed(g) \/ Lapse(g) PROVE FamilyInv'
  BY <1>1 DEF RefreshExpired, RefreshReplayed, Lapse
<1>2. CASE Tick
  BY <1>2 DEF Tick, table
<1>3. CASE Purge
  BY <1>3 DEF Purge
<1>4. CASE Restart
  BY <1>4 DEF Restart, table, Idle
<1>5. CASE UNCHANGED vars
  BY <1>5 DEF vars, table
<1>. QED  BY <1>1, <1>2, <1>3, <1>4, <1>5

LEMMA FamilyStep ==
  ASSUME TypeOK, WellFormed, FamilyInv, [Next]_vars
  PROVE  FamilyInv'
BY MintStepFamily, RevokeStepFamily, QueryFailsFamily, OtherStepFamily DEF Next

-----------------------------------------------------------------------------
(* The tracker knows a few tokens of an account, and so only a few work.   *)

TrackedFew == \A u \in Users : Cardinality(tracked[u]) <= MaxTokens

\* A set of numbers has a least one.
LEMMA LeastOne ==
  ASSUME NEW S, S \subseteq Nat, S # {}
  PROVE  \E g \in S : \A h \in S : g <= h
<1>1. \E g \in S : \A h \in S : <<h, g>> \notin OpToRel(<, Nat)
  BY NatLessThanWellFounded, WFMin
<1>2. PICK g \in S : \A h \in S : <<h, g>> \notin OpToRel(<, Nat)
  BY <1>1
<1>3. \A h \in S : ~(h < g)
  BY <1>2 DEF OpToRel
<1>. QED  BY <1>3

LEMMA GrantsFinite == \A S : S \subseteq Grants => IsFiniteSet(S) /\ Cardinality(S) \in Nat
<1>1. IsFiniteSet(Grants)
  BY Bounds, FS_Interval DEF Grants
<1>. QED  BY <1>1, FS_Subset, FS_CardinalityType

\* Who has MaxTokens tokens that work gives up one for the new one.
LEMMA TrackFew ==
  ASSUME TypeOK, TrackedFew, NEW u \in Users, NEW n \in Grants, Track(u, n)
  PROVE  TrackedFew'
<1>. SUFFICES ASSUME NEW v \in Users PROVE Cardinality(tracked'[v]) <= MaxTokens
  BY DEF TrackedFew
<1>0. /\ Kept(v) \subseteq tracked[v] /\ tracked[v] \subseteq Grants /\ Evicted(v) \subseteq Kept(v)
      /\ MaxTokens \in Nat \ {0}
  BY Bounds DEF Kept, Evicted, TypeOK
<1>1. Cardinality(Kept(v)) <= MaxTokens
  BY <1>0, GrantsFinite, FS_Subset DEF TrackedFew
<1>2. CASE v # u
  BY <1>1, <1>2 DEF Track
<1>3. CASE v = u
  <2>. DEFINE left == Kept(u) \ Evicted(u)
  <2>1. tracked'[v] = left \union {n}
    BY <1>3 DEF Track
  <2>2. left \subseteq Grants /\ IsFiniteSet(left) /\ Cardinality(left) \in Nat
    BY <1>0, <1>3, GrantsFinite
  <2>3. Cardinality(left) < MaxTokens
    <3>1. CASE Cardinality(Kept(u)) >= MaxTokens
      <4>1. Kept(u) # {}
        BY <1>0, <3>1, FS_EmptySet
      <4>2. PICK g \in Kept(u) : \A h \in Kept(u) : g <= h
        BY <1>0, <1>3, <4>1, LeastOne, Bounds
      <4>3. left \subseteq Kept(u) \ {g}
        BY <3>1, <4>2 DEF Evicted
      <4>4. Cardinality(Kept(u) \ {g}) = Cardinality(Kept(u)) - 1
        BY <1>0, <1>3, GrantsFinite, FS_RemoveElement
      <4>5. Cardinality(left) <= Cardinality(Kept(u) \ {g})
        BY <1>0, <1>3, <4>3, GrantsFinite, FS_Subset
      <4>. HIDE DEF left
      <4>. QED  BY <1>0, <1>1, <1>3, <2>2, <4>4, <4>5, GrantsFinite
    <3>2. CASE ~(Cardinality(Kept(u)) >= MaxTokens)
      <4>1. Cardinality(left) <= Cardinality(Kept(u))
        BY <1>0, <1>3, GrantsFinite, FS_Subset
      <4>. HIDE DEF left
      <4>. QED  BY <1>0, <1>3, <2>2, <3>2, <4>1, GrantsFinite
    <3>. QED  BY <3>1, <3>2
  <2>. HIDE DEF left
  <2>4. Cardinality(left \union {n}) <= Cardinality(left) + 1
    <3>1. Cardinality(left \union {n}) = IF n \in left THEN Cardinality(left) ELSE Cardinality(left) + 1
      BY <2>2, FS_AddElement
    <3>. QED  BY <2>2, <3>1
  <2>5. Cardinality(left \union {n}) \in Nat
    BY <2>2, GrantsFinite
  <2>. QED  BY <1>0, <2>1, <2>2, <2>3, <2>4, <2>5
<1>. QED  BY <1>2, <1>3

LEMMA TrackedFewStep ==
  ASSUME TypeOK, TrackedFew, [Next]_vars
  PROVE  TrackedFew'
<1>1. ASSUME NEW r \in Requests, Mint(r) PROVE TrackedFew'
  <2>1. req[r].user \in Users /\ issued + 1 \in Grants /\ Track(req[r].user, issued + 1)
    BY <1>1 DEF Mint, TypeOK, Request
  <2>. QED  BY <2>1, TrackFew
<1>2. ASSUME NEW u \in Users, tracked' = [tracked EXCEPT ![u] = {}] PROVE TrackedFew'
  <2>1. \A v \in Users : tracked'[v] = {} \/ tracked'[v] = tracked[v]
    BY <1>2 DEF TypeOK
  <2>. QED  BY <2>1, FS_EmptySet, Bounds DEF TrackedFew
<1>3. ASSUME NEW r \in Requests, TrackerRevokeAll(r) PROVE TrackedFew'
  <2>1. req[r].user \in Users
    BY DEF TypeOK, Request
  <2>. QED  BY <1>2, <1>3, <2>1 DEF TrackerRevokeAll
<1>4. CASE Restart
  BY <1>4, FS_EmptySet, Bounds DEF Restart, TrackedFew
<1>5. CASE UNCHANGED tracked
  BY <1>5 DEF TrackedFew
<1>6. ASSUME NEW r \in Requests, MintStep(r) PROVE Mint(r) \/ UNCHANGED tracked
  BY <1>6 DEF MintStep, PostLogin, PostRefresh, Burn, CheckAccount, EvictOldestFamily, Store,
              StoreFails, CacheSuccessor, tracker
<1>7. ASSUME NEW r \in Requests, RevokeStep(r) PROVE TrackerRevokeAll(r) \/ UNCHANGED tracked
  BY <1>7 DEF RevokeStep, PutPassword, UsersUpdate, UsersSignout, UsersDelete, SessionsRevoke,
              PostLogout, TableRevokeAll, TableRevokeFamily, TrackerRevokeFamily, tracker
<1>8. ASSUME NEW r \in Requests, QueryFails(r) PROVE UNCHANGED tracked
  BY <1>8 DEF QueryFails, tracker
<1>9. ASSUME NEW g \in Grants, RefreshExpired(g) \/ RefreshReplayed(g) \/ Lapse(g)
      PROVE  UNCHANGED tracked
  BY <1>9 DEF RefreshExpired, RefreshReplayed, Lapse, tracker
<1>10. Tick \/ Purge \/ UNCHANGED vars => UNCHANGED tracked
  BY DEF Tick, Purge, vars, tracker
<1>. QED  BY <1>1, <1>3, <1>4, <1>5, <1>6, <1>7, <1>8, <1>9, <1>10 DEF Next

-----------------------------------------------------------------------------
LEMMA FewWork ==
  ASSUME TypeOK, HonouredIsTracked, TrackedFew
  PROVE  TokenCap
<1>. SUFFICES ASSUME NEW u \in Users
              PROVE  Cardinality({g \in GrantsOf(u) : Accepts(g)}) <= MaxTokens
  BY DEF TokenCap
<1>. DEFINE working == {g \in GrantsOf(u) : Accepts(g)}
<1>1. working \subseteq tracked[u] /\ tracked[u] \subseteq Grants
  BY DEF HonouredIsTracked, GrantsOf, TypeOK
<1>2. Cardinality(working) <= Cardinality(tracked[u])
  BY <1>1, GrantsFinite, FS_Subset
<1>3. working \subseteq Grants
  BY <1>1
<1>. HIDE DEF working
<1>4. /\ Cardinality(tracked[u]) <= MaxTokens /\ MaxTokens \in Nat
      /\ Cardinality(tracked[u]) \in Nat /\ Cardinality(working) \in Nat
  BY <1>1, <1>3, GrantsFinite, Bounds DEF TrackedFew
<1>5. Cardinality(working) <= MaxTokens
  BY <1>2, <1>4
<1>. QED  BY <1>5 DEF working

LEMMA NewestIsListed ==
  ASSUME TypeOK, FamilyInv
  PROVE  DeviceListed
<1>. SUFFICES ASSUME NEW g \in Issued, Live(g), g \notin lapsed, grant[g].family \notin Forked,
                     NEW h \in FamilyOf(grant[g].family),
                     row[h] # "none", \A k \in FamilyOf(grant[g].family) : row[k] # "none" => k <= h
              PROVE  Live(h) /\ h \notin lapsed
  BY DEF DeviceListed
<1>1. h \in Issued /\ g \in FamilyOf(grant[g].family) /\ row[g] # "none"
  BY DEF FamilyOf, Live
<1>2. g <= h /\ h <= g
  BY <1>1 DEF FamilyInv, LiveIsNewest, FamilyOf
<1>3. g \in Nat /\ h \in Nat
  BY <1>1, IssuedAreGrants, Bounds
<1>. QED  BY <1>2, <1>3

\* However many accounts, devices, handlers, restarts and failing queries: if
\* a restart takes a second, the tracker knows every access token that works, an
\* account has no more than MaxTokens of them, and each device that can refresh
\* has one token and is listed, but for those of which a token was spent twice at
\* once or spent without being revoked (PostRefresh, Track, ListActiveSessions).
THEOREM SessionsDevices ==
  ASSUME RestartDelay >= 1
  PROVE  Spec => []DevicesAreKnown
<1>1. Init => TrackedFew
  BY FS_EmptySet, Bounds DEF Init, TrackedFew
<1>2. TypeOK /\ WellFormed /\ FamilyInv /\ [Next]_vars => FamilyInv'
  BY FamilyStep
<1>3. TypeOK /\ TrackedFew /\ [Next]_vars => TrackedFew'
  BY TrackedFewStep
<1>4. TypeOK /\ HonouredIsTracked /\ TrackedFew /\ FamilyInv => DevicesAreKnown
  BY FewWork, NewestIsListed DEF DevicesAreKnown, FamilyInv
<1>. QED  BY <1>1, <1>2, <1>3, <1>4, FamilyInit, SessionsTypeOK, SessionsRevocation, PTL DEF Spec

-----------------------------------------------------------------------------
(* Sign-ins: the rate limiter.                                              *)

\* The sets of handlers are finite, so counting them means something.
LEMMA CountsAreNat ==
  ASSUME NEW ip \in IPs
  PROVE  /\ IsFiniteSet(Pending(ip)) /\ Cardinality(Pending(ip)) \in Nat
         /\ IsFiniteSet(Reserved(ip)) /\ Cardinality(Reserved(ip)) \in Nat
         /\ Cardinality(Pending(ip)) <= Cardinality(Reserved(ip))
<1>1. Pending(ip) \in SUBSET Attempts /\ Reserved(ip) \in SUBSET Attempts
  BY DEF Pending, Reserved
<1>2. IsFiniteSet(Pending(ip)) /\ IsFiniteSet(Reserved(ip))
  BY <1>1, FS_Subset, LimiterAssumption DEF LimiterAssumption
<1>3. Pending(ip) \in SUBSET Reserved(ip)
  BY DEF Pending, Reserved
<1>. QED  BY <1>2, <1>3, FS_Subset, FS_CardinalityType

\* The same of the next state.
LEMMA CountsAreNatNext ==
  ASSUME NEW ip \in IPs
  PROVE  /\ IsFiniteSet(Pending(ip)') /\ Cardinality(Pending(ip)') \in Nat
         /\ IsFiniteSet(Reserved(ip)') /\ Cardinality(Reserved(ip)') \in Nat
<1>1. Pending(ip)' \in SUBSET Attempts /\ Reserved(ip)' \in SUBSET Attempts
  BY DEF Pending, Reserved
<1>2. IsFiniteSet(Pending(ip)') /\ IsFiniteSet(Reserved(ip)')
  BY <1>1, FS_Subset, LimiterAssumption DEF LimiterAssumption
<1>. QED  BY <1>2, FS_CardinalityType

\* TryBegin adds its request to both sets of its address.
LEMMA TryBeginCounts ==
  ASSUME LTypeOK, NEW a \in Attempts, TryBegin(a), NEW ip \in IPs
  PROVE  /\ Cardinality(Pending(ip)') = Cardinality(Pending(ip)) + (IF ip = IpOf[a] THEN 1 ELSE 0)
         /\ Cardinality(Reserved(ip)') = Cardinality(Reserved(ip)) + (IF ip = IpOf[a] THEN 1 ELSE 0)
<1>. USE CountsAreNat
<1>1. CASE ip = IpOf[a]
  <2>1. Pending(ip)' = Pending(ip) \cup {a} /\ a \notin Pending(ip)
    BY <1>1 DEF LTypeOK, TryBegin, Pending
  <2>2. Reserved(ip)' = Reserved(ip) \cup {a} /\ a \notin Reserved(ip)
    BY <1>1 DEF LTypeOK, TryBegin, Reserved
  <2>. QED  BY <1>1, <2>1, <2>2, FS_AddElement
<1>2. CASE ip # IpOf[a]
  <2>1. Pending(ip)' = Pending(ip) /\ Reserved(ip)' = Reserved(ip)
    BY <1>2 DEF LTypeOK, TryBegin, Pending, Reserved
  <2>. QED  BY <1>2, <2>1
<1>. QED  BY <1>1, <1>2

\* A verdict takes its request out of Pending and leaves it in Reserved.
LEMMA VerdictCounts ==
  ASSUME LTypeOK, NEW a \in Attempts, attempt[a] = "checking",
         attempt' = [attempt EXCEPT ![a] = "decided"], NEW ip \in IPs
  PROVE  /\ Cardinality(Pending(ip)') = Cardinality(Pending(ip)) - (IF ip = IpOf[a] THEN 1 ELSE 0)
         /\ Pending(ip)' = Pending(ip) \ {a}
         /\ ip = IpOf[a] => a \in Pending(ip)
         /\ Reserved(ip)' = Reserved(ip)
<1>. USE CountsAreNat
<1>1. Pending(ip)' = Pending(ip) \ {a} /\ (a \in Pending(ip) <=> ip = IpOf[a])
  BY DEF LTypeOK, Pending
<1>2. Reserved(ip)' = Reserved(ip)
  BY DEF LTypeOK, Reserved
<1>3. Cardinality(Pending(ip) \ {a}) =
        IF a \in Pending(ip) THEN Cardinality(Pending(ip)) - 1 ELSE Cardinality(Pending(ip))
  BY FS_RemoveElement
<1>. QED  BY <1>1, <1>2, <1>3

\* End takes its request out of Reserved.
LEMMA EndCounts ==
  ASSUME LTypeOK, NEW a \in Attempts, End(a), NEW ip \in IPs
  PROVE  /\ Pending(ip)' = Pending(ip)
         /\ Cardinality(Reserved(ip)') = Cardinality(Reserved(ip)) - (IF ip = IpOf[a] THEN 1 ELSE 0)
<1>. USE CountsAreNat
<1>1. Pending(ip)' = Pending(ip)
  BY DEF LTypeOK, End, Pending
<1>2. Reserved(ip)' = Reserved(ip) \ {a} /\ (a \in Reserved(ip) <=> ip = IpOf[a])
  BY DEF LTypeOK, End, Reserved
<1>3. Cardinality(Reserved(ip) \ {a}) =
        IF a \in Reserved(ip) THEN Cardinality(Reserved(ip)) - 1 ELSE Cardinality(Reserved(ip))
  BY FS_RemoveElement
<1>. QED  BY <1>1, <1>2, <1>3

\* Steps that touch no handler change neither set.
LEMMA SameCounts ==
  ASSUME UNCHANGED attempt, NEW ip \in IPs
  PROVE  Pending(ip)' = Pending(ip) /\ Reserved(ip)' = Reserved(ip)
BY DEF Pending, Reserved
-----------------------------------------------------------------------------
LEMMA LimitsType ==
  ASSUME LTypeOK
  PROVE  limits.max \in Nat \ {0} /\ limits.lockout \in Nat \ {0}
BY LimiterAssumption DEF LimiterAssumption, LTypeOK

\* What RecordFailure makes of an entry: it is left alone during a lockout;
\* otherwise a failure is counted, and the threshold starts a lockout.
LEMMA FailedEntry ==
  ASSUME LTypeOK, NEW e \in Entry
  PROVE  /\ Failed(e) \in Entry
         /\ Failed(e).inFlight = e.inFlight
         /\ clock < e.lockedUntil => Failed(e) = e
         /\ ~(clock < e.lockedUntil) =>
              /\ Failed(e).failures =
                   IF e.failures >= limits.max /\ clock > e.lockedUntil THEN 1 ELSE e.failures + 1
              /\ Failed(e).lockedUntil =
                   IF Failed(e).failures >= limits.max THEN clock + limits.lockout ELSE e.lockedUntil
<1>. DEFINE f == (IF e.failures >= limits.max /\ clock > e.lockedUntil THEN 0 ELSE e.failures) + 1
            u == IF f >= limits.max THEN clock + limits.lockout ELSE e.lockedUntil
<1>1. clock \in Nat /\ limits.max \in Nat /\ limits.lockout \in Nat
  BY LimitsType, LimiterAssumption DEF LTypeOK, LimiterAssumption
<1>2. f \in Nat /\ u \in Nat
  BY <1>1 DEF Entry
<1>3. Failed(e) = IF clock < e.lockedUntil THEN e
                  ELSE [e EXCEPT !.failures = f, !.lastFailure = clock, !.lockedUntil = u]
  BY DEF Failed
<1>4. f = IF e.failures >= limits.max /\ clock > e.lockedUntil THEN 1 ELSE e.failures + 1
  BY <1>1 DEF Entry
<1>5. u = IF f >= limits.max THEN clock + limits.lockout ELSE e.lockedUntil
  OBVIOUS
<1>. HIDE DEF f, u
<1>6. CASE clock < e.lockedUntil
  BY <1>3, <1>6
<1>7. CASE ~(clock < e.lockedUntil)
  <2>1. Failed(e) = [failures |-> f, inFlight |-> e.inFlight, lockedUntil |-> u, lastFailure |-> clock]
    BY <1>3, <1>7 DEF Entry
  <2>. QED  BY <1>1, <1>2, <1>4, <1>5, <1>7, <2>1 DEF Entry
<1>. QED  BY <1>6, <1>7

LEMMA LTypeInit == LInit => LTypeOK
BY LimiterAssumption DEF LimiterAssumption, LInit, LTypeOK, Entry, ZeroEntry, Phases

LEMMA LTypeStep == LTypeOK /\ [LNext]_lvars => LTypeOK'
<1>. SUFFICES ASSUME LTypeOK, [LNext]_lvars PROVE LTypeOK'
  OBVIOUS
<1>. USE LimitsType, LimiterAssumption DEF LimiterAssumption, LTypeOK, Entry, Phases
<1>1. ASSUME NEW a \in Attempts, TryBegin(a) PROVE LTypeOK'
  BY <1>1 DEF TryBegin, history
<1>2. ASSUME NEW a \in Attempts, RecordFailure(a) PROVE LTypeOK'
  <2>1. entries[IpOf[a]] \in Entry
    OBVIOUS
  <2>. QED  BY <1>2, <2>1, FailedEntry DEF RecordFailure
<1>3. ASSUME NEW a \in Attempts, Reset(a) PROVE LTypeOK'
  BY <1>3 DEF Reset, Cleared, ZeroEntry, history
<1>4. ASSUME NEW a \in Attempts, End(a) PROVE LTypeOK'
  BY <1>4 DEF End, history
<1>5. ASSUME NEW ip \in IPs, Clear(ip) PROVE LTypeOK'
  BY <1>5 DEF Clear, Cleared, ZeroEntry, history
<1>6. ASSUME NEW l \in Limits, SetLimits(l) PROVE LTypeOK'
  BY <1>6 DEF SetLimits
<1>7. CASE Cleanup
  BY <1>7 DEF Cleanup, ZeroEntry, history
<1>8. CASE LTick
  BY <1>8 DEF LTick, history
<1>9. CASE UNCHANGED lvars
  BY <1>9 DEF lvars, history
<1>. QED  BY <1>1, <1>2, <1>3, <1>4, <1>5, <1>6, <1>7, <1>8, <1>9 DEF LNext

\* The limiter's state is always well formed.
THEOREM LimiterTypeOK == LSpec => []LTypeOK
BY LTypeInit, LTypeStep, PTL DEF LSpec
-----------------------------------------------------------------------------
(* What the address's entry and its handlers owe each other.               *)

\* The invariant's parts for one address, so that a step that leaves the
\* address alone has nothing to show: what always holds of it, and what does
\* while the threshold has not been changed.
Balanced(ip) == entries[ip].inFlight = Cardinality(Reserved(ip))

AddressInv(ip) ==
  LET e == entries[ip] IN
  /\ e.inFlight = Cardinality(Reserved(ip))
  /\ e.inFlight <= limits.max
  /\ e.failures < limits.max => e.failures + Cardinality(Pending(ip)) <= limits.max
  /\ LockedOut(ip) /\ e.failures <= limits.max => Pending(ip) = {}

LEMMA ByAddress ==
  LimiterInv <=> LTypeOK /\ \A ip \in IPs : Balanced(ip) /\ (steady => AddressInv(ip))
BY DEF LimiterInv, AddressInv, Balanced, ReservationsBalance, ReservationsBounded, FailureBudget,
       LockoutIsFinal

\* Initially nobody is signing in.
LEMMA InvInit == LInit => LimiterInv
<1>. SUFFICES ASSUME LInit, NEW ip \in IPs PROVE AddressInv(ip)
  BY LTypeInit, ByAddress DEF AddressInv, Balanced
<1>1. Pending(ip) = {} /\ Reserved(ip) = {}
  BY DEF LInit, Pending, Reserved
<1>2. LTypeOK
  BY LTypeInit
<1>. QED  BY <1>1, <1>2, LimitsType, FS_EmptySet DEF LInit, ZeroEntry, AddressInv, LockedOut

\* An admitted request fits under the threshold, and finds no lockout.
LEMMA TryBeginInv ==
  ASSUME LTypeOK, NEW a \in Attempts, TryBegin(a), NEW ip \in IPs, AddressInv(ip)
  PROVE  AddressInv(ip)'
<1>1. entries[ip] \in Entry
  BY DEF LTypeOK
<1>2. CASE ip = IpOf[a]
  <2>1. entries'[ip] = [entries[ip] EXCEPT !.inFlight = @ + 1]
    BY <1>2 DEF LTypeOK, TryBegin
  <2>2. ~LockedOut(ip)'
    BY <1>1, <1>2, <2>1 DEF TryBegin, LockedOut, Entry
  <2>3. Counted(entries[ip]) + entries[ip].inFlight < limits.max
    BY <1>2 DEF TryBegin
  <2>4. /\ Cardinality(Pending(ip)') = Cardinality(Pending(ip)) + 1
        /\ Cardinality(Reserved(ip)') = Cardinality(Reserved(ip)) + 1
    BY <1>2, TryBeginCounts
  <2>5. /\ limits' = limits
        /\ entries'[ip].failures = entries[ip].failures
        /\ entries'[ip].inFlight = entries[ip].inFlight + 1
    BY <1>1, <2>1 DEF TryBegin, Entry
  <2>6. Cardinality(Pending(ip)) <= entries[ip].inFlight
    BY CountsAreNat DEF AddressInv
  <2>7. entries[ip].inFlight \in Nat /\ entries[ip].failures \in Nat
    BY <1>1 DEF Entry
  <2>8. entries[ip].failures < limits.max =>
          entries[ip].failures + Cardinality(Pending(ip)) + 1 <= limits.max
    BY <2>3, <2>6, <2>7, LimitsType, CountsAreNat DEF Counted
  <2>9. entries[ip].inFlight + 1 <= limits.max
    BY <2>3, <2>7, LimitsType DEF Counted
  <2>. QED
    BY <2>2, <2>4, <2>5, <2>7, <2>8, <2>9, CountsAreNat, LimitsType DEF AddressInv
<1>3. CASE ip # IpOf[a]
  <2>1. entries'[ip] = entries[ip] /\ UNCHANGED <<clock, limits>>
    BY <1>3 DEF LTypeOK, TryBegin
  <2>2. Pending(ip)' = Pending(ip) /\ Reserved(ip)' = Reserved(ip)
    BY <1>3 DEF LTypeOK, TryBegin, Pending, Reserved
  <2>. QED
    BY <2>1, <2>2 DEF AddressInv, LockedOut
<1>. QED  BY <1>2, <1>3

\* A step that leaves an address's entry and handlers alone, and does not
\* turn the clock back, keeps its invariant.
LEMMA UntouchedInv ==
  ASSUME LTypeOK, NEW ip \in IPs, AddressInv(ip),
         entries'[ip] = entries[ip], limits'.max = limits.max, clock' \in Nat, clock <= clock',
         Pending(ip)' = Pending(ip), Reserved(ip)' = Reserved(ip)
  PROVE  AddressInv(ip)'
<1>1. LockedOut(ip)' => LockedOut(ip)
  BY LimiterAssumption DEF LockedOut, LTypeOK, Entry, LimiterAssumption
<1>. QED  BY <1>1 DEF AddressInv

\* A failed check leaves Pending as its failure is counted.  If that reaches
\* the threshold it was the last one the budget allowed.
LEMMA RecordFailureInv ==
  ASSUME LTypeOK, NEW a \in Attempts, RecordFailure(a), NEW ip \in IPs, AddressInv(ip)
  PROVE  AddressInv(ip)'
<1>. DEFINE e == entries[ip]
            p == Cardinality(Pending(ip))
<1>0. /\ e \in Entry /\ p \in Nat /\ limits.max \in Nat \ {0} /\ limits.lockout \in Nat \ {0}
      /\ p <= Cardinality(Reserved(ip)) /\ clock \in Nat /\ IsFiniteSet(Pending(ip))
  BY LimitsType, CountsAreNat, LimiterAssumption DEF LTypeOK, LimiterAssumption
<1>1. UNCHANGED <<clock, limits>>
  BY DEF RecordFailure
<1>2. CASE ip # IpOf[a]
  <2>1. entries'[ip] = entries[ip]
    BY <1>2 DEF LTypeOK, RecordFailure
  <2>2. Pending(ip)' = Pending(ip) /\ Reserved(ip)' = Reserved(ip)
    BY <1>2 DEF LTypeOK, RecordFailure, Pending, Reserved
  <2>. QED  BY <1>0, <1>1, <2>1, <2>2, UntouchedInv
<1>3. CASE ip = IpOf[a]
  <2>1. entries'[ip] = Failed(e)
    BY <1>3 DEF LTypeOK, RecordFailure
  <2>2. /\ Cardinality(Pending(ip)') = p - 1
        /\ Pending(ip)' = Pending(ip) \ {a} /\ a \in Pending(ip)
        /\ Reserved(ip)' = Reserved(ip)
    BY <1>3, VerdictCounts DEF RecordFailure
  <2>3. /\ e.inFlight = Cardinality(Reserved(ip)) /\ e.inFlight <= limits.max
        /\ e.failures < limits.max => e.failures + p <= limits.max
        /\ clock < e.lockedUntil /\ e.failures <= limits.max => Pending(ip) = {}
    BY DEF AddressInv, LockedOut
  <2>4. Cardinality(Pending(ip)') \in Nat /\ IsFiniteSet(Pending(ip)')
    BY CountsAreNatNext
  <2>5. Cardinality(Pending(ip)') = 0 <=> Pending(ip)' = {}
    BY <2>4, FS_EmptySet
  <2>. HIDE DEF e, p
  <2>6. p <= limits.max /\ p >= 1
    BY <1>0, <2>2, <2>3, <2>4 DEF Entry
  <2>7. p = 1 => Pending(ip)' = {}
    BY <1>0, <2>2, <2>5
  <2>8. CASE clock < e.lockedUntil
    <3>1. Failed(e) = e /\ ~(e.failures <= limits.max)
      BY <1>0, <2>2, <2>3, <2>8, FailedEntry
    <3>. QED  BY <1>0, <1>1, <2>1, <2>2, <2>3, <3>1 DEF AddressInv, LockedOut, Entry
  <2>9. CASE ~(clock < e.lockedUntil)
    <3>. DEFINE f == Failed(e)
    <3>1. /\ f \in Entry /\ f.inFlight = e.inFlight
          /\ f.failures = IF e.failures >= limits.max /\ clock > e.lockedUntil
                            THEN 1 ELSE e.failures + 1
          /\ f.lockedUntil = IF f.failures >= limits.max THEN clock + limits.lockout
                                                         ELSE e.lockedUntil
      BY <1>0, <2>9, FailedEntry
    <3>. HIDE DEF f
    <3>2. f.failures < limits.max => f.failures + (p - 1) <= limits.max
      BY <1>0, <2>3, <2>6, <3>1 DEF Entry
    <3>3. clock < f.lockedUntil /\ f.failures <= limits.max => p = 1
      BY <1>0, <2>3, <2>9, <2>6, <3>1 DEF Entry
    <3>4. entries'[ip] = f
      BY <2>1 DEF f
    <3>. QED
      BY <1>1, <2>2, <2>3, <2>7, <3>1, <3>2, <3>3, <3>4 DEF AddressInv, LockedOut
  <2>. QED  BY <2>8, <2>9
<1>. QED  BY <1>2, <1>3

\* Forgetting the failures of an address keeps its reservations, and those
\* alone fit under the threshold.
LEMMA ClearedInv ==
  ASSUME LTypeOK, NEW ip \in IPs, AddressInv(ip), UNCHANGED <<clock, limits>>,
         entries'[ip] = Cleared(entries[ip]), Reserved(ip)' = Reserved(ip),
         Cardinality(Pending(ip)') <= Cardinality(Pending(ip))
  PROVE  AddressInv(ip)'
<1>1. /\ entries'[ip].inFlight = entries[ip].inFlight
      /\ entries'[ip].failures = 0 /\ entries'[ip].lockedUntil = 0
  BY DEF Cleared, ZeroEntry
<1>2. Cardinality(Pending(ip)') <= limits.max
  BY CountsAreNat, CountsAreNatNext, LimitsType DEF AddressInv, LTypeOK, Entry
<1>3. clock \in Nat
  BY LimiterAssumption DEF LTypeOK, LimiterAssumption
<1>. QED  BY <1>1, <1>2, <1>3, CountsAreNatNext DEF AddressInv, LockedOut

LEMMA ResetInv ==
  ASSUME LTypeOK, NEW a \in Attempts, Reset(a), NEW ip \in IPs, AddressInv(ip)
  PROVE  AddressInv(ip)'
<1>1. CASE ip # IpOf[a]
  <2>1. entries'[ip] = entries[ip] /\ UNCHANGED <<clock, limits>>
    BY <1>1 DEF LTypeOK, Reset
  <2>2. Pending(ip)' = Pending(ip) /\ Reserved(ip)' = Reserved(ip)
    BY <1>1 DEF LTypeOK, Reset, Pending, Reserved
  <2>3. clock \in Nat
    BY LimiterAssumption DEF LTypeOK, LimiterAssumption
  <2>. QED  BY <2>1, <2>2, <2>3, UntouchedInv
<1>2. CASE ip = IpOf[a]
  <2>1. entries'[ip] = Cleared(entries[ip]) /\ UNCHANGED <<clock, limits>>
    BY <1>2 DEF LTypeOK, Reset
  <2>2. Reserved(ip)' = Reserved(ip) /\ Cardinality(Pending(ip)') = Cardinality(Pending(ip)) - 1
    BY <1>2, VerdictCounts DEF Reset
  <2>. QED  BY <2>1, <2>2, ClearedInv, CountsAreNat
<1>. QED  BY <1>1, <1>2

\* End gives back exactly the reservation it holds.
LEMMA EndInv ==
  ASSUME LTypeOK, NEW a \in Attempts, End(a), NEW ip \in IPs, AddressInv(ip)
  PROVE  AddressInv(ip)'
<1>0. clock \in Nat /\ UNCHANGED <<clock, limits>> /\ entries[ip] \in Entry
  BY LimiterAssumption DEF LTypeOK, LimiterAssumption, End
<1>1. CASE ip # IpOf[a]
  <2>1. entries'[ip] = entries[ip]
    BY <1>1 DEF LTypeOK, End
  <2>2. Pending(ip)' = Pending(ip) /\ Reserved(ip)' = Reserved(ip)
    BY <1>1 DEF LTypeOK, End, Pending, Reserved
  <2>. QED  BY <1>0, <2>1, <2>2, UntouchedInv
<1>2. CASE ip = IpOf[a]
  <2>1. a \in Reserved(ip)
    BY <1>2 DEF End, Reserved
  <2>2. entries[ip].inFlight > 0
    BY <1>0, <2>1, CountsAreNat, FS_EmptySet DEF AddressInv
  <2>3. entries'[ip] = [entries[ip] EXCEPT !.inFlight = entries[ip].inFlight - 1]
    BY <1>2, <2>2 DEF LTypeOK, End
  <2>4. /\ entries'[ip].inFlight = entries[ip].inFlight - 1
        /\ entries'[ip].failures = entries[ip].failures
        /\ entries'[ip].lockedUntil = entries[ip].lockedUntil
    BY <1>0, <2>3 DEF Entry
  <2>5. Pending(ip)' = Pending(ip) /\ Cardinality(Reserved(ip)') = Cardinality(Reserved(ip)) - 1
    BY <1>2, EndCounts
  <2>. QED
    BY <1>0, <2>4, <2>5, CountsAreNat, LimitsType DEF AddressInv, LockedOut, Entry
<1>. QED  BY <1>1, <1>2

\* The ticker removes an entry only when nobody holds a reservation on it.
LEMMA CleanupInv ==
  ASSUME LTypeOK, Cleanup, NEW ip \in IPs, AddressInv(ip)
  PROVE  AddressInv(ip)'
<1>0. clock \in Nat /\ UNCHANGED <<clock, limits, attempt>>
  BY LimiterAssumption DEF LTypeOK, LimiterAssumption, Cleanup
<1>1. Pending(ip)' = Pending(ip) /\ Reserved(ip)' = Reserved(ip)
  BY <1>0, SameCounts
<1>2. CASE Stale(entries[ip])
  <2>1. entries'[ip] = Cleared(entries[ip])
    BY <1>2 DEF Cleanup, Stale, Cleared, ZeroEntry
  <2>. QED  BY <1>0, <1>1, <2>1, ClearedInv, CountsAreNat
<1>3. CASE ~Stale(entries[ip])
  <2>1. entries'[ip] = entries[ip]
    BY <1>3 DEF Cleanup
  <2>. QED  BY <1>0, <1>1, <2>1, UntouchedInv
<1>. QED  BY <1>2, <1>3

\* Whatever is saved meanwhile, a reservation is made and given back once.
LEMMA BalanceStep ==
  ASSUME LTypeOK, [LNext]_lvars, NEW ip \in IPs, Balanced(ip)
  PROVE  Balanced(ip)'
<1>0. entries[ip] \in Entry /\ entries \in [IPs -> Entry]
  BY DEF LTypeOK
<1>1. ASSUME NEW a \in Attempts, TryBegin(a) PROVE Balanced(ip)'
  <2>1. entries' = [entries EXCEPT ![IpOf[a]].inFlight = @ + 1]
    BY <1>1 DEF TryBegin
  <2>2. entries'[ip].inFlight = entries[ip].inFlight + (IF ip = IpOf[a] THEN 1 ELSE 0)
    BY <1>0, <2>1 DEF Entry
  <2>. QED  BY <1>1, <2>2, TryBeginCounts DEF Balanced
<1>2. ASSUME NEW a \in Attempts, RecordFailure(a) \/ Reset(a) PROVE Balanced(ip)'
  <2>1. Reserved(ip)' = Reserved(ip)
    BY <1>2, VerdictCounts DEF RecordFailure, Reset
  <2>2. \/ entries'[ip] = entries[ip]
        \/ entries'[ip] = Failed(entries[ip])
        \/ entries'[ip] = Cleared(entries[ip])
    BY <1>0, <1>2 DEF RecordFailure, Reset
  <2>3. entries'[ip].inFlight = entries[ip].inFlight
    BY <1>0, <2>2, FailedEntry DEF Cleared, ZeroEntry
  <2>. QED  BY <2>1, <2>3 DEF Balanced
<1>3. ASSUME NEW a \in Attempts, End(a) PROVE Balanced(ip)'
  <2>1. entries' = [entries EXCEPT ![IpOf[a]].inFlight = IF @ > 0 THEN @ - 1 ELSE @]
    BY <1>3 DEF End
  <2>2. CASE ip # IpOf[a]
    <3>1. entries'[ip].inFlight = entries[ip].inFlight
      BY <1>0, <2>1, <2>2
    <3>2. Reserved(ip)' = Reserved(ip)
      BY <1>3, <2>2 DEF End, Reserved, LTypeOK
    <3>. QED  BY <3>1, <3>2 DEF Balanced
  <2>3. CASE ip = IpOf[a]
    <3>1. a \in Reserved(ip)
      BY <1>3, <2>3 DEF End, Reserved
    <3>2. entries[ip].inFlight > 0
      BY <1>0, <3>1, CountsAreNat, FS_EmptySet DEF Balanced
    <3>3. entries'[ip] = [entries[ip] EXCEPT !.inFlight =
                            IF entries[ip].inFlight > 0 THEN entries[ip].inFlight - 1
                                                        ELSE entries[ip].inFlight]
      BY <1>0, <2>1, <2>3
    <3>4. entries'[ip].inFlight = entries[ip].inFlight - 1
      BY <1>0, <3>2, <3>3 DEF Entry
    <3>5. Cardinality(Reserved(ip)') = Cardinality(Reserved(ip)) - 1
      BY <1>3, <2>3, EndCounts
    <3>. QED  BY <3>4, <3>5 DEF Balanced
  <2>. QED  BY <2>2, <2>3
<1>4. ASSUME NEW other \in IPs, Clear(other) PROVE Balanced(ip)'
  <2>1. entries'[ip] = entries[ip] \/ entries'[ip] = Cleared(entries[ip])
    BY <1>0, <1>4 DEF Clear
  <2>. QED  BY <1>4, <2>1, SameCounts DEF Balanced, Clear, Cleared, ZeroEntry
<1>5. CASE Cleanup
  <2>1. entries'[ip] = entries[ip] \/ (entries[ip].inFlight = 0 /\ entries'[ip] = ZeroEntry)
    BY <1>5 DEF Cleanup, Stale
  <2>. QED  BY <1>5, <2>1, SameCounts DEF Balanced, Cleanup, ZeroEntry
<1>6. ASSUME NEW l \in Limits, SetLimits(l) PROVE Balanced(ip)'
  BY <1>6, SameCounts DEF Balanced, SetLimits
<1>7. CASE LTick \/ UNCHANGED lvars
  BY <1>7, SameCounts DEF Balanced, LTick, lvars
<1>. QED  BY <1>1, <1>2, <1>3, <1>4, <1>5, <1>6, <1>7 DEF LNext

LEMMA SteadyBefore ==
  ASSUME LTypeOK, [LNext]_lvars, steady'
  PROVE  steady /\ limits'.max = limits.max
BY DEF LNext, TryBegin, RecordFailure, Reset, End, Clear, SetLimits, Cleanup, LTick, lvars, history

LEMMA InvStep == LimiterInv /\ [LNext]_lvars => LimiterInv'
<1>. SUFFICES ASSUME LimiterInv, [LNext]_lvars PROVE LimiterInv'
  OBVIOUS
<1>1. LTypeOK /\ LTypeOK'
  BY LTypeStep DEF LimiterInv
<1>b. \A ip \in IPs : Balanced(ip)'
  BY <1>1, BalanceStep, ByAddress
<1>. SUFFICES ASSUME steady', NEW ip \in IPs PROVE AddressInv(ip)'
  BY <1>1, <1>b DEF LimiterInv, AddressInv, Balanced, ReservationsBalance, ReservationsBounded,
                    FailureBudget, LockoutIsFinal
<1>s. steady /\ limits'.max = limits.max
  BY <1>1, SteadyBefore
<1>2. AddressInv(ip)
  BY <1>s, ByAddress
<1>3. clock \in Nat /\ clock' \in Nat
  BY <1>1, LimiterAssumption DEF LTypeOK, LimiterAssumption
<1>4. ASSUME NEW a \in Attempts, TryBegin(a) \/ RecordFailure(a) \/ Reset(a) \/ End(a)
      PROVE  AddressInv(ip)'
  BY <1>1, <1>2, <1>4, TryBeginInv, RecordFailureInv, ResetInv, EndInv
<1>5. ASSUME NEW other \in IPs, Clear(other) PROVE AddressInv(ip)'
  <2>1. Pending(ip)' = Pending(ip) /\ Reserved(ip)' = Reserved(ip) /\ UNCHANGED <<clock, limits>>
    BY <1>5, SameCounts DEF Clear
  <2>2. entries'[ip] = entries[ip] \/ entries'[ip] = Cleared(entries[ip])
    BY <1>1, <1>5 DEF Clear, LTypeOK
  <2>. QED  BY <1>1, <1>2, <1>3, <2>1, <2>2, UntouchedInv, ClearedInv, CountsAreNat
<1>6. ASSUME NEW l \in Limits, SetLimits(l) PROVE AddressInv(ip)'
  <2>1. UNCHANGED <<clock, entries, attempt>>
    BY <1>6 DEF SetLimits
  <2>. QED  BY <1>1, <1>2, <1>3, <1>s, <2>1, SameCounts, UntouchedInv
<1>7. CASE Cleanup
  BY <1>1, <1>2, <1>7, CleanupInv
<1>8. CASE LTick
  <2>1. clock <= clock' /\ UNCHANGED <<limits, entries, attempt>>
    BY <1>3, <1>8 DEF LTick
  <2>. QED  BY <1>1, <1>2, <1>3, <2>1, SameCounts, UntouchedInv
<1>9. CASE UNCHANGED lvars
  <2>1. UNCHANGED <<clock, limits, entries, attempt>>
    BY <1>9 DEF lvars
  <2>. QED  BY <1>1, <1>2, <1>3, <2>1, SameCounts, UntouchedInv
<1>. QED  BY <1>4, <1>5, <1>6, <1>7, <1>8, <1>9 DEF LNext

\* Every reservation is given back once, whatever is saved and cleared in
\* between; and until the admin changes the lockout threshold, recorded failures
\* and undecided checks together never exceed it, and a lockout finds no check
\* undecided: for any number of parallel sign-ins from any number of addresses
\* (TryBegin, End).
THEOREM LimiterSafety == LSpec => []LimiterInv
BY InvInit, InvStep, PTL DEF LSpec

-----------------------------------------------------------------------------
(* What ends a lockout.                                                    *)

\* An address is locked only with as many failures as the threshold asked for
\* when the lockout began: unless it has been raised since, the ticker goes by the
\* end of the lockout, not by the last failure.
LockedAtThreshold(ip) == LockedOut(ip) => entries[ip].failures >= since[ip]

\* What one step does to the lockout of an address: it stands, or it ends in
\* one of the four ways, and where there is none one begins at the threshold.
LockoutStep(ip) ==
  /\ LockedOut(ip) /\ ~LockedOut(ip)' =>
       \/ clock' # clock
       \/ Clear(ip)
       \/ \E a \in Attempts : IpOf[a] = ip /\ Reset(a)
       \/ Cleanup /\ Outgrown(ip)
  /\ LockedAtThreshold(ip)'

LEMMA EntryFacts ==
  ASSUME LTypeOK, NEW ip \in IPs
  PROVE  /\ entries[ip] \in Entry /\ entries[ip].lockedUntil \in Nat /\ entries[ip].failures \in Nat
         /\ clock \in Nat /\ clock # 0 /\ limits.max \in Nat \ {0} /\ limits.lockout \in Nat \ {0}
         /\ since[ip] \in Nat
BY LimitsType, LimiterAssumption DEF LTypeOK, LimiterAssumption, Entry

\* An entry that is left alone while time passes, or cleared.
LEMMA LockoutLeft ==
  ASSUME LTypeOK, NEW ip \in IPs, LockedAtThreshold(ip), entries'[ip] = entries[ip],
         since'[ip] = since[ip], clock' \in Nat, clock <= clock'
  PROVE  LockoutStep(ip)
BY EntryFacts DEF LockoutStep, LockedAtThreshold, LockedOut

LEMMA LockoutCleared ==
  ASSUME LTypeOK, NEW ip \in IPs, entries'[ip] = Cleared(entries[ip]), UNCHANGED <<clock, limits>>
  PROVE  ~LockedOut(ip)' /\ LockedAtThreshold(ip)'
BY EntryFacts DEF LockedAtThreshold, LockedOut, Cleared, ZeroEntry

LEMMA LockoutStepHolds ==
  ASSUME LTypeOK, LTypeOK', [LNext]_lvars, NEW ip \in IPs, LockedAtThreshold(ip)
  PROVE  LockoutStep(ip)
<1>0. clock \in Nat /\ clock' \in Nat
  BY LimiterAssumption DEF LTypeOK, LimiterAssumption
<1>1. ASSUME NEW a \in Attempts, TryBegin(a) \/ End(a) PROVE LockoutStep(ip)
  <2>1. /\ UNCHANGED <<clock, limits, since>> /\ IpOf[a] \in IPs
        /\ entries \in [IPs -> Entry]
    BY <1>1, LimiterAssumption DEF TryBegin, End, LTypeOK, LimiterAssumption, history
  <2>2. \E i : entries' = [entries EXCEPT ![IpOf[a]].inFlight = i]
    BY <1>1 DEF TryBegin, End
  <2>3. /\ entries'[ip].lockedUntil = entries[ip].lockedUntil
        /\ entries'[ip].failures = entries[ip].failures
    BY <2>1, <2>2 DEF Entry
  <2>4. LockedOut(ip)' <=> LockedOut(ip)
    BY <2>1, <2>3 DEF LockedOut
  <2>. QED  BY <2>1, <2>3, <2>4 DEF LockoutStep, LockedAtThreshold
<1>2. ASSUME NEW a \in Attempts, RecordFailure(a) PROVE LockoutStep(ip)
  <2>1. /\ UNCHANGED <<clock, limits>>
        /\ entries' = [entries EXCEPT ![IpOf[a]] = Failed(entries[IpOf[a]])]
        /\ since' = [since EXCEPT ![IpOf[a]] =
                        IF Locks(entries[IpOf[a]]) THEN limits.max ELSE since[IpOf[a]]]
    BY <1>2 DEF RecordFailure
  <2>2. CASE ip # IpOf[a]
    BY <1>0, <2>1, <2>2, LockoutLeft DEF LTypeOK
  <2>3. CASE ip = IpOf[a]
    <3>1. /\ entries'[ip] = Failed(entries[ip])
          /\ since'[ip] = IF Locks(entries[ip]) THEN limits.max ELSE since[ip]
      BY <2>1, <2>3 DEF LTypeOK
    <3>2. CASE LockedOut(ip)
      <4>1. entries'[ip] = entries[ip] /\ since'[ip] = since[ip]
        BY <3>1, <3>2, FailedEntry, EntryFacts DEF LockedOut, Locks
      <4>. QED  BY <1>0, <2>1, <4>1, LockoutLeft
    <3>3. CASE ~LockedOut(ip)
      <4>1. Failed(entries[ip]).failures \in Nat
        BY FailedEntry, EntryFacts DEF Entry
      <4>2. CASE Failed(entries[ip]).failures >= limits.max
        BY <2>1, <3>1, <3>3, <4>1, <4>2, EntryFacts
        DEF LockedOut, Locks, LockedAtThreshold, LockoutStep
      <4>3. CASE ~(Failed(entries[ip]).failures >= limits.max)
        <5>1. entries'[ip].lockedUntil = entries[ip].lockedUntil
          BY <3>1, <3>3, <4>3, FailedEntry, EntryFacts DEF LockedOut
        <5>. QED  BY <2>1, <3>3, <5>1 DEF LockedOut, LockedAtThreshold, LockoutStep
      <4>. QED  BY <4>2, <4>3
    <3>. QED  BY <3>2, <3>3
  <2>. QED  BY <2>2, <2>3
<1>3. ASSUME NEW a \in Attempts, Reset(a) PROVE LockoutStep(ip)
  <2>1. CASE ip # IpOf[a]
    BY <1>0, <1>3, <2>1, LockoutLeft DEF Reset, LTypeOK, history
  <2>2. CASE ip = IpOf[a]
    <3>1. entries'[ip] = Cleared(entries[ip]) /\ UNCHANGED <<clock, limits>>
      BY <1>3, <2>2 DEF Reset, LTypeOK
    <3>. QED  BY <1>3, <2>2, <3>1, LockoutCleared DEF LockoutStep
  <2>. QED  BY <2>1, <2>2
<1>4. ASSUME NEW other \in IPs, Clear(other) PROVE LockoutStep(ip)
  <2>1. CASE ip # other
    BY <1>0, <1>4, <2>1, LockoutLeft DEF Clear, LTypeOK, history
  <2>2. CASE ip = other
    <3>1. entries'[ip] = Cleared(entries[ip]) /\ UNCHANGED <<clock, limits>>
      BY <1>4, <2>2 DEF Clear, LTypeOK
    <3>. QED  BY <1>4, <2>2, <3>1, LockoutCleared DEF LockoutStep
  <2>. QED  BY <2>1, <2>2
<1>5. ASSUME NEW l \in Limits, SetLimits(l) PROVE LockoutStep(ip)
  BY <1>0, <1>5, LockoutLeft DEF SetLimits
<1>6. CASE Cleanup
  <2>1. /\ UNCHANGED <<clock, limits, since>>
        /\ entries'[ip] = IF Stale(entries[ip]) THEN ZeroEntry ELSE entries[ip]
    BY <1>6 DEF Cleanup, history
  <2>2. LockedOut(ip) /\ Stale(entries[ip]) => Outgrown(ip)
    BY EntryFacts DEF LockedAtThreshold, LockedOut, Stale, Outgrown
  <2>3. CASE Stale(entries[ip])
    <3>1. ~LockedOut(ip)'
      BY <2>1, <2>3, EntryFacts DEF LockedOut, ZeroEntry
    <3>. QED  BY <1>6, <2>2, <2>3, <3>1 DEF LockoutStep, LockedAtThreshold
  <2>4. CASE ~Stale(entries[ip])
    BY <1>0, <2>1, <2>4, LockoutLeft
  <2>. QED  BY <2>3, <2>4
<1>7. CASE LTick
  BY <1>0, <1>7, LockoutLeft DEF LTick, history
<1>8. CASE UNCHANGED lvars
  BY <1>0, <1>8, LockoutLeft DEF lvars, history
<1>. QED  BY <1>1, <1>2, <1>3, <1>4, <1>5, <1>6, <1>7, <1>8 DEF LNext

\* Whatever thresholds and times the admin saves, nothing but time, his Clear and
\* a success admitted before ends a lockout: not a shorter lockout saved meanwhile,
\* not the handlers that come to their end, and not the ticker, unless the
\* threshold has since been raised above the one the lockout began under (cleanup).
THEOREM LimiterKeepsLockouts == LSpec => LockoutStands
<1>1. LInit => \A ip \in IPs : LockedAtThreshold(ip)
  BY DEF LInit, LockedAtThreshold, LockedOut, ZeroEntry
<1>2. /\ LTypeOK /\ LTypeOK' /\ (\A ip \in IPs : LockedAtThreshold(ip)) /\ [LNext]_lvars
      => /\ (\A ip \in IPs : LockedAtThreshold(ip))'
         /\ [\A ip \in IPs :
               LockedOut(ip) /\ ~LockedOut(ip)' =>
                 \/ clock' # clock
                 \/ Clear(ip)
                 \/ \E a \in Attempts : IpOf[a] = ip /\ Reset(a)
                 \/ Cleanup /\ Outgrown(ip)]_lvars
  BY LockoutStepHolds DEF LockoutStep
<1>. QED  BY <1>1, <1>2, LimiterTypeOK, PTL DEF LSpec, LockoutStands
=============================================================================
