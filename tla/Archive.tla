------------------------------ MODULE Archive -------------------------------
(***************************************************************************)
(* The archive over Ingest: users search it, bookmark calls and share them *)
(* by link (internal/handler/calls/search.go, handler/bookmarks,           *)
(* handler/share), and admins revoke links, put them back and clear the    *)
(* expired ones (internal/admin/shared_links.go), while calls are inserted *)
(* and pruned.  A bookmark or a link keeps its call (kept), and goes with  *)
(* it.                                                                     *)
(*                                                                         *)
(* A request reads in one step and writes in another; one that is refused  *)
(* or finds nothing is not a step.  Time is counted in ticks, and a page   *)
(* of the search has one call.                                             *)
(***************************************************************************)
EXTENDS Ingest

CONSTANTS
  Users, Admins, \* accounts, and those among them that are admins'
  Other,         \* somebody else: his bookmarks come and go in one step
  Visitors,      \* requests of users
  By,            \* By[x]: whose request x is
  Lifetime,      \* sharedLinkExpiry, in ticks, when it is set
  MaxLinks,      \* bound: links ever inserted
  Loads          \* bounds: what there is at first, and what may happen;
                 \* failures and restarts are those counted as past

ASSUME ArchiveAssumption ==
  /\ Admins \subseteq Users /\ Other \notin Users
  /\ By \in [Visitors -> Users]
  /\ Lifetime \in Nat \ {0} /\ MaxLinks \in Nat
  /\ Loads \subseteq [calls : Calls, plans : SUBSET {"share", "unshare", "mark", "search"},
                     tg : [Uploads -> 0..MaxIds], restricted : SUBSET Users,
                     shared : Uploads \union {None}, by : Users, ticks : Nat, edits : Nat,
                     failures : 0..MaxFailures, restarts : 0..MaxRestarts]
  /\ \A l \in Loads : l.shared # None => l.plans # {} /\ MaxLinks > 0

VARIABLES
  links,      \* links[u]: the row of shared_links for u's call; NoLink
  used,       \* ids of that table used so far
  marks,      \* the bookmarks: pairs of a user and a call
  restricted, \* users whose grants list talkgroups
  expiry,     \* sharedLinkExpiry: Lifetime; 0: links do not expire
  now,        \* the clock
  visit,      \* visit[x]: a request, with what it has read
  sweep,      \* links that SharedLinksRevokeExpired has still to delete
  undo,       \* the link revoked last, which the page can put back
  load,       \* the load, with the ticks and edits that are left
  given,      \* tokens users have been told
  ended,      \* tokens whose link somebody meant to end, or lost its call
  raced,      \* tokens taken by an unshare that had read an earlier link
  late        \* calls first kept when the pruner had them in its batch

table == <<links, used, marks>>
ghost == <<given, ended, raced, late>>
avars == <<vars, table, restricted, expiry, now, visit, sweep, undo, load, ghost>>

\* What the archive's own steps leave alone in Ingest.
stored == <<call, upload, ids, rows, disk, pool, pruner, failures, restarts>>

NoLink == [id |-> 0, token |-> 0, by |-> Other, made |-> 0, expires |-> 0]
NoUndo == [of |-> None, link |-> NoLink]

Linked == {u \in Uploads : links[u] # NoLink}

Ended == [pc |-> "ended", of |-> None, id |-> 0, expires |-> 0,
          page |-> 0, total |-> 0, there |-> {}, seen |-> {}, cut |-> FALSE]

\* Every call is in the archive, each in a file of its own, and one may be
\* shared.
Stem == CHOOSE f \in [Uploads -> 1..Cardinality(Uploads)] : IsInjective(f)
Stock(l) ==
  LET last == Max(Range(l.tg)) IN
  /\ upload = [u \in Uploads |-> [Fresh EXCEPT !.pc = "ended", !.sys = 1,
                                    !.tg = l.tg[u], !.path = <<Stem[u], "m4a">>,
                                    !.in = <<Stem[u], "m4a">>]]
  /\ ids = [sys |-> 1, tg |-> last, tgOf |-> 1, usedSys |-> 1, usedTg |-> last]
  /\ rows = [u \in Uploads |-> [path |-> <<Stem[u], "m4a">>, tg |-> l.tg[u]]]
  /\ files = [p \in {<<Stem[u], "m4a">> : u \in Uploads} |->
                CHOOSE u \in Uploads : Stem[u] = p[1]]
  /\ kept = Linked
  /\ jobs = <<>> /\ running = {} /\ outcome = [u \in Uploads |-> "none"]
  /\ pruner = Idle /\ reclaimed = {} /\ failures = l.failures /\ restarts = l.restarts

AInit ==
  /\ load \in Loads /\ call = load.calls
  /\ links = [u \in Uploads |-> IF u = load.shared THEN [NoLink EXCEPT !.id = 1, !.token = 1, !.by = load.by]
                                 ELSE NoLink]
  /\ used = Cardinality(Linked) /\ marks = {}
  /\ IF load.plans = {} THEN Init ELSE Stock(load)
  /\ restricted = load.restricted
  /\ expiry = 0 /\ now = 0
  /\ visit = [x \in Visitors |-> [Ended EXCEPT !.pc = "new"]]
  /\ sweep = {} /\ undo = NoUndo
  /\ given = {links[u].token : u \in Linked}
  /\ ended = {} /\ raced = {} /\ late = {}

-----------------------------------------------------------------------------
(* Helpers.                                                                *)

VisitIs(x, pc, plan) == visit[x].pc = pc /\ plan \in load.plans
Goes(x, r) == visit' = [visit EXCEPT ![x] = r]
Ends(x) == Goes(x, Ended)

\* LoadUserGrants and IsGranted: a call that has lost its talkgroup is not
\* among those a list of talkgroups grants.
Hears(w, u) == w \in Admins \/ w \notin restricted \/ rows[u].tg # 0

\* effectiveExpiry, and isSharedLinkExpired: the link's own time, else the
\* setting applied to the time it was made.
Expired(k) ==
  \/ k.expires # 0 /\ now > k.expires
  \/ k.expires = 0 /\ expiry # 0 /\ now > k.made + expiry

\* Bookmarks and links change, and with them what is kept.
Keepers(k, ms) == {u \in Uploads : k[u] # NoLink} \union {p[2] : p \in ms}

Keeping ==
  /\ kept' = Keepers(links', marks')
  /\ late' = (late \intersect kept') \union
             {u \in kept' \ kept : \E i \in DOMAIN pruner.batch : pruner.batch[i].of = u}
  /\ UNCHANGED stored

-----------------------------------------------------------------------------
(* Sharing.                                                                *)

\* PostShareCall up to the query for a link that is there already: its token
\* is the answer.
ShareCheck(x) ==
  /\ VisitIs(x, "new", "share")
  /\ \E u \in HasRow :
       /\ Hears(By[x], u)
       /\ IF u \in Linked
            THEN Ends(x) /\ given' = given \union {links[u].token}
            ELSE /\ Goes(x, [Ended EXCEPT !.pc = "create", !.of = u,
                               !.expires = IF expiry = 0 THEN 0 ELSE now + expiry])
                 /\ UNCHANGED given
  /\ UNCHANGED <<vars, table, restricted, expiry, now, sweep, undo, load, ended, raced, late>>

Insert1(u, k) ==
  /\ used < MaxLinks /\ used' = used + 1
  /\ links' = [links EXCEPT ![u] = k]

New(x) == [id |-> used + 1, token |-> used + 1, by |-> By[x], made |-> now,
           expires |-> visit[x].expires]

\* (Mutant: the later of two that share a call at once gets a link of his own.)
ShareCreateReplace(x) ==
  LET u == visit[x].of IN
  /\ VisitIs(x, "create", "share") /\ Ends(x)
  /\ IF u \notin HasRow THEN UNCHANGED <<table, given>>
     ELSE Insert1(u, New(x)) /\ given' = given \union {used + 1} /\ UNCHANGED marks
  /\ UNCHANGED <<restricted, expiry, now, sweep, undo, load, ended, raced>>
  /\ Keeping

\* CreateSharedLink: ON CONFLICT (call_id) it answers with the link somebody
\* has made meanwhile; without the call it fails.
ShareCreate(x) ==
  LET u == visit[x].of IN
  /\ VisitIs(x, "create", "share") /\ Ends(x)
  /\ CASE u \notin HasRow -> UNCHANGED <<table, given>>
       [] u \in Linked    -> given' = given \union {links[u].token} /\ UNCHANGED table
       [] OTHER           -> /\ Insert1(u, New(x)) /\ UNCHANGED marks
                             /\ given' = given \union {used + 1}
  /\ UNCHANGED <<restricted, expiry, now, sweep, undo, load, ended, raced>>
  /\ Keeping

\* DeleteShareCall: whoever made the link, or an admin, may end it.
UnshareCheck(x) ==
  /\ VisitIs(x, "new", "unshare")
  /\ \E u \in Linked :
       /\ Hears(By[x], u)
       /\ links[u].by = By[x] \/ By[x] \in Admins
       /\ Goes(x, [Ended EXCEPT !.pc = "delete", !.of = u, !.id = links[u].id])
  /\ UNCHANGED <<vars, table, restricted, expiry, now, sweep, undo, load, ghost>>

\* DeleteSharedLinkByCallID: the link the call has now, whosever it is.
UnshareDelete(x) ==
  LET u == visit[x].of IN
  /\ VisitIs(x, "delete", "unshare") /\ Ends(x)
  /\ links' = [links EXCEPT ![u] = NoLink]
  /\ IF links[u].id = visit[x].id
       THEN ended' = ended \union {links[u].token} /\ UNCHANGED raced
       ELSE raced' = raced \union {links[u].token} /\ UNCHANGED ended
  /\ UNCHANGED <<used, marks, restricted, expiry, now, sweep, undo, load, given>>
  /\ Keeping

\* SharedLinksDelete, by id; the page keeps the link for an undo.
RevokeLink(u) ==
  /\ load.plans # {} /\ u \in Linked
  /\ links' = [links EXCEPT ![u] = NoLink]
  /\ ended' = ended \union {links[u].token}
  /\ undo' = [of |-> u, link |-> links[u]]
  /\ UNCHANGED <<used, marks, restricted, expiry, now, visit, sweep, load, given, raced>>
  /\ Keeping

\* SharedLinksRestore: the token and the times it had, in a new row; refused
\* when the call is shared again, and when it is gone.
RestoreLink ==
  LET u == undo.of IN
  /\ undo # NoUndo /\ undo' = NoUndo
  /\ IF u \in HasRow \ Linked
       THEN /\ Insert1(u, [undo.link EXCEPT !.id = used + 1])
            /\ ended' = ended \ {undo.link.token} /\ raced' = raced \ {undo.link.token}
            /\ UNCHANGED marks
       ELSE UNCHANGED <<table, ended, raced>>
  /\ UNCHANGED <<restricted, expiry, now, visit, sweep, load, given>>
  /\ Keeping

\* SharedLinksRevokeExpired: the links, with the setting and the time.
SweepList ==
  /\ sweep = {}
  /\ sweep' = {[of |-> u, id |-> links[u].id] : u \in {v \in Linked : Expired(links[v])}}
  /\ sweep' # {}
  /\ UNCHANGED <<vars, table, restricted, expiry, now, visit, undo, load, ghost>>

\* DeleteSharedLink: by id, one at a time; an error ends the sweep.
SweepDelete ==
  \/ \E k \in sweep :
       /\ sweep' = sweep \ {k}
       /\ IF links[k.of].id = k.id
            THEN /\ links' = [links EXCEPT ![k.of] = NoLink]
                 /\ ended' = ended \union {links[k.of].token}
            ELSE UNCHANGED <<links, ended>>
       /\ UNCHANGED <<used, marks, restricted, expiry, now, visit, undo, load, given, raced>>
       /\ Keeping
  \/ /\ sweep # {} /\ sweep' = {}
     /\ UNCHANGED <<vars, table, restricted, expiry, now, visit, undo, load, ghost>>

-----------------------------------------------------------------------------
(* Bookmarks: PostToggleBookmark.                                          *)

ToggleRead(x) ==
  /\ VisitIs(x, "new", "mark")
  /\ \E u \in HasRow :
       /\ Hears(By[x], u)
       /\ Goes(x, [Ended EXCEPT !.of = u,
                     !.pc = IF <<By[x], u>> \in marks THEN "unmark" ELSE "mark"])
  /\ UNCHANGED <<vars, table, restricted, expiry, now, sweep, undo, load, ghost>>

\* One of a user and a call (UNIQUE), whose call must be there.
ToggleWrite(x) ==
  LET mark == <<By[x], visit[x].of>> IN
  /\ (VisitIs(x, "mark", "mark") \/ VisitIs(x, "unmark", "mark"))
  /\ marks' = IF visit[x].pc = "unmark" \/ visit[x].of \notin HasRow
                THEN marks \ {mark} ELSE marks \union {mark}
  /\ Ends(x)
  /\ UNCHANGED <<links, used, restricted, expiry, now, sweep, undo, load, given, ended, raced>>
  /\ Keeping

\* Where nobody visits, others bookmark calls and unmark them.
Others(u) ==
  /\ load.plans = {} /\ u \in HasRow
  /\ marks' = IF <<Other, u>> \in marks THEN marks \ {<<Other, u>>} ELSE marks \union {<<Other, u>>}
  /\ UNCHANGED <<links, used, restricted, expiry, now, visit, sweep, undo, load, given, ended, raced>>
  /\ Keeping

-----------------------------------------------------------------------------
(* Search: GetCalls, the newest first, page after page.                    *)

Newer(u, v) ==
  \/ call[u].time > call[v].time
  \/ call[u].time = call[v].time /\ Stem[u] > Stem[v]

\* The call that n others come before.
Listed(n) == {u \in HasRow : Cardinality({v \in HasRow : Newer(v, u)}) = n}

\* CountCallsFiltered: all there are, whoever asks.
SearchCount(x) ==
  /\ (VisitIs(x, "new", "search") \/ VisitIs(x, "turn", "search"))
  /\ HasRow # {}
  /\ Goes(x, [visit[x] EXCEPT !.pc = "list", !.page = @ + 1, !.total = Cardinality(HasRow),
                !.there = IF visit[x].pc = "new" THEN HasRow ELSE @])
  /\ UNCHANGED <<vars, table, restricted, expiry, now, sweep, undo, load, ghost>>

\* The page read, and what the grants leave of it; the total of a page that
\* is not full is what has been counted so far.
Page(x, i) ==
  LET read  == Listed(i - 1)
      heard == {u \in read : Hears(By[x], u)}
      total == IF By[x] \notin Admins /\ By[x] \in restricted /\ heard = {}
                 THEN visit[x].page - 1 ELSE visit[x].total
  IN  /\ Goes(x, [visit[x] EXCEPT
                    !.pc = IF visit[x].page < total THEN "turn" ELSE "done",
                    !.seen = @ \union heard, !.cut = @ \/ heard # read])
      /\ UNCHANGED <<vars, table, restricted, expiry, now, sweep, undo, load, ghost>>

\* (Mutant: pages are counted from nought.)
SearchListLate(x) == VisitIs(x, "list", "search") /\ Page(x, visit[x].page + 1)

\* ListCalls at offset (page - 1) * limit.  The user turns the page while
\* there is more.
SearchList(x) == VisitIs(x, "list", "search") /\ Page(x, visit[x].page)

-----------------------------------------------------------------------------
(* Settings, grants and time.                                              *)

Edit == load.edits > 0 /\ load' = [load EXCEPT !.edits = @ - 1]

SetExpiry ==
  /\ Edit /\ load.ticks > 0
  /\ expiry' = IF expiry = 0 THEN Lifetime ELSE 0
  /\ UNCHANGED <<vars, table, restricted, now, visit, sweep, undo, ghost>>

SetGrants(w) ==
  /\ Edit /\ "search" \in load.plans
  /\ restricted' = IF w \in restricted THEN restricted \ {w} ELSE restricted \union {w}
  /\ UNCHANGED <<vars, table, expiry, now, visit, sweep, undo, ghost>>

Tick ==
  /\ load.ticks > 0 /\ load' = [load EXCEPT !.ticks = @ - 1]
  /\ now' = now + 1
  /\ UNCHANGED <<vars, table, restricted, expiry, visit, sweep, undo, ghost>>

-----------------------------------------------------------------------------
(* Ingest's own steps.  What a call that goes had goes with it.            *)

Cascade ==
  /\ links' = [u \in Uploads |-> IF rows'[u] = NoRow THEN NoLink ELSE links[u]]
  /\ marks' = {p \in marks : rows'[p[2]] # NoRow}
  /\ ended' = ended \union {links[u].token : u \in {v \in Linked : rows'[v] = NoRow}}
  /\ late' = late \intersect kept'
  /\ UNCHANGED <<used, restricted, expiry, now, undo, load, given, raced>>

Beside(step) == step /\ Cascade /\ UNCHANGED <<visit, sweep>>

\* Requests end with the process.
ARestart ==
  /\ Restart /\ Cascade
  /\ visit' = [x \in Visitors |-> IF visit[x].pc = "new" THEN visit[x] ELSE Ended]
  /\ sweep' = {}

Sharing(x) == ShareCheck(x) \/ ShareCreate(x) \/ UnshareCheck(x) \/ UnshareDelete(x)
Marking(x) == ToggleRead(x) \/ ToggleWrite(x)
Search(x)  == SearchCount(x) \/ SearchList(x)
Links      == (\E u \in Uploads : RevokeLink(u)) \/ RestoreLink \/ SweepList \/ SweepDelete

ANext ==
  \/ \E u \in Uploads : Beside(Begin(u)) \/ Beside(Handle(u)) \/ Beside(GiveUp(u)) \/ Others(u)
  \/ Beside(Work) \/ Beside(Prune) \/ Beside(DeleteSystem) \/ Beside(DeleteTalkgroup)
  \/ ARestart
  \/ \E x \in Visitors : Sharing(x) \/ Marking(x) \/ Search(x)
  \/ Links
  \/ SetExpiry \/ Tick \/ \E w \in Users : SetGrants(w)

ASpec == AInit /\ [][ANext]_avars

\* As for Ingest: handlers, conversions and the pruner go on.
AFairSpec ==
  /\ ASpec
  /\ \A u \in Uploads : WF_avars(Beside(Handle(u)))
  /\ WF_avars(Beside(Work)) /\ WF_avars(Beside(Prune))

-----------------------------------------------------------------------------

ATypeOK ==
  /\ used \in 0..MaxLinks /\ marks \subseteq (Users \union {Other}) \X Uploads
  /\ kept = Keepers(links, marks) /\ kept \subseteq HasRow
  /\ given \union ended \union raced \subseteq 0..used
  /\ late \subseteq kept

\* A token a user has been told stays that of its call's link, through others
\* sharing the call at once, revocations put back and sweeps of links that
\* were replaced, until somebody ends that very link or the call goes.  One
\* thing else takes it: an unshare that had read an earlier link of the call
\* (DeleteShareCall checks the owner, then deletes by call).
TokensStand ==
  /\ ATypeOK
  /\ given \ (ended \union raced) \subseteq {links[u].token : u \in Linked}

\* The system of the calls is deleted in this step.
SystemGoes == ids.sys # 0 /\ ids'.sys = 0

\* A call with a bookmark or a link is deleted by nobody, but for one that got
\* its first after the pruner had listed it (pruneOldCalls, DeleteCallBatch).
\* Deleting the system takes its calls, kept ones too (schema.sql:81), although
\* admin-guide.md:219 has them stay: of that one step nothing is claimed.
KeptCallsStay == [][\A u \in kept \ late : rows'[u] # NoRow \/ SystemGoes]_avars

\* Uploads end, old calls go, and kept ones stay, through failures, a restart,
\* and bookmarks and links set and taken off while the pruner is at work.
\* What keeps a call is a bookmark or a link that is in its table, be the link
\* expired or not, as the pruner asks no more (calls.sql:131-138); so an old call
\* with an expired link stays until somebody takes the link away, and goes then.
\* admin-guide.md:468 has a link keep its call only until it expires, which is
\* more than holds, and is not claimed.
CallsSettle == UploadsEnd /\ OldCallsGo /\ KeptCallsStay

\* Who turns the pages to the end has been shown every call that was there at
\* first and still is, unless a newer one went meanwhile, and unless his
\* grants took a call out of a page: the total then ends his search at that
\* page (GetCalls).
SearchReachesAll ==
  \A x \in Visitors :
    visit[x].pc = "done" /\ ~visit[x].cut =>
      \A u \in visit[x].there \intersect HasRow :
        \/ u \in visit[x].seen
        \/ \E v \in visit[x].there \ HasRow : Newer(v, u)

=============================================================================
