------------------------------ MODULE Admission ------------------------------
(***************************************************************************)
(* Who gets in.  Address blocks: the table an admin writes                 *)
(* (internal/admin/ipblocks.go), the copy of it the first middleware of    *)
(* every request asks (internal/ipblock), and the connections a new block  *)
(* ends.  API keys: their secrets, changed, rotated and deleted            *)
(* (internal/admin/api_keys.go) while recorders upload with them           *)
(* (APIKeyAuth in internal/middleware/auth.go).                            *)
(*                                                                         *)
(* An admin's requests run beside each other and beside the hourly sweep;  *)
(* every query is a step.  A range is the set of the addresses it holds.   *)
(* Secrets are numbered as they are made, for they are random and never    *)
(* come twice.  Both tables are AUTOINCREMENT: numbers are not used again. *)
(***************************************************************************)
EXTENDS Integers, FiniteSets

CONSTANTS
  Addresses,   \* the addresses clients come from
  Ranges,      \* what an admin blocks, canonical and not too wide
  TrustLists,  \* what --trusted-addresses may be, at each start
  Systems,     \* the systems there are
  Requests,    \* admins' requests at a time
  Sweeper,     \* the hourly cleanup
  Connections, \* connections, to the WebSockets and the streams
  Uploads,     \* uploads
  Grace,       \* rotationGrace
  Unknown,     \* a system no upload has named before
  None,        \* no row
  MaxTime,     \* bound: the clock
  MaxRows,     \* bound: rows ever made in each table
  Loads        \* bound: what is to come: requests of each kind, failures

ASSUME AdmissionAssumption ==
  /\ Ranges \subseteq SUBSET Addresses /\ TrustLists \subseteq SUBSET Addresses
  /\ Sweeper \notin Requests /\ Unknown \notin Systems
  /\ {Grace, MaxTime} \subseteq Nat /\ MaxRows \in Nat \ {0}
  /\ None \notin [id : Nat, range : Ranges, expires : Nat]
  /\ None \notin [secret : Nat, previous : Nat, until : Nat, disabled : BOOLEAN, scope : SUBSET Systems]
  /\ Loads \subseteq [{"block", "key", "connection", "upload", "fault"} -> Nat]

VARIABLES
  now,
  blocks,    \* ip_blocks: the rows
  list,      \* the matcher's snapshot
  trusted,   \* the trusted list of this run of the server
  conns,     \* conns[c]: where it stands, its address
  keys,      \* api_keys: keys[k], or None
  uploads,   \* uploads[u]: where it stands, with what it has read
  work,      \* work[p]: what the request, or the sweep, is doing
  doubt,     \* ghost: rows a reload that failed or overlapped left unsettled
  shown,     \* ghost: the secret the admin was last shown for a key
  replaced,  \* ghost: the secret the last rotation replaced, and until when it works
  retired,   \* ghost: what every rotation replaced
  raced,     \* ghost: keys whose secret an overlapping request wrote
  left,      \* of the load
  nextBlock, nextKey, nextSecret

gate == <<blocks, list, trusted, conns, doubt, nextBlock>>
ring == <<keys, uploads, shown, replaced, retired, raced, nextKey, nextSecret>>
avars == <<now, gate, ring, work, left>>

Procs == Requests \cup {Sweeper}
KeyIds == 1..MaxRows
Never == MaxTime + 1   \* the expiry of a block without one

(* Rows still in force; Reload lists these, and match passes by the others. *)
InForce(rows) == {b \in rows : now < b.expires}
Covering(rows, a) == {b \in InForce(rows) : a \in b.range}

Trusted(a) == a \in trusted

(* Where a client's address is refused. *)
Refused(a) == ~Trusted(a) /\ Covering(list, a) # {}

-----------------------------------------------------------------------------
(* What the middleware finds for a secret: the key whose secret it is, or else
   the one it was rotated out of less than the grace ago. *)
ByKey(ks, s) == {k \in KeyIds : ks[k] # None /\ ks[k].secret = s}
ByPreviousForEver(ks, t, s) == {k \in KeyIds : ks[k] # None /\ ks[k].previous = s}
ByPrevious(ks, t, s) == {k \in KeyIds : ks[k] # None /\ ks[k].previous = s /\ t < ks[k].until}
Find(ks, t, s) == IF ByKey(ks, s) # {} THEN ByKey(ks, s) ELSE ByPrevious(ks, t, s)

(* The systems a key lists; an empty list is every system. *)
ParseSystemGrants(scope) == IF scope = {} THEN Systems \cup {Unknown} ELSE scope

(* A scoped key uploads to systems it lists and that are there. *)
GrantsIncludeSystem(grants, y) == y \in grants
apiKeyMayUpload(scope, y) == GrantsIncludeSystem(ParseSystemGrants(scope), y)

Good(ks, t, u) ==
  \E k \in Find(ks, t, u.secret) : ~ks[k].disabled /\ apiKeyMayUpload(ks[k].scope, u.system)

Waiting == {"by key", "by previous", "known"}

(* The uploads, each keeping whether its secret was ever good, and always. *)
Watch(ks, t) == [u \in Uploads |->
  IF uploads[u].at \notin Waiting THEN uploads[u]
  ELSE [uploads[u] EXCEPT !.ever = @ \/ Good(ks, t, uploads[u]),
                          !.always = @ /\ Good(ks, t, uploads[u])]]

-----------------------------------------------------------------------------
(* A server that has one key already. *)
Idle == [at |-> "idle"]
NewKey(s, scope) == [secret |-> s, previous |-> 0, until |-> 0, disabled |-> FALSE, scope |-> scope]

AInit ==
  /\ now = 0 /\ blocks = {} /\ list = {} /\ trusted \in TrustLists
  /\ conns = [c \in Connections |-> [at |-> "away"]]
  /\ keys = [k \in KeyIds |-> IF k = 1 THEN NewKey(1, {}) ELSE None]
  /\ uploads = [u \in Uploads |-> [at |-> "away"]]
  /\ work = [p \in Procs |-> Idle]
  /\ doubt = {} /\ raced = {}
  /\ shown = [k \in KeyIds |-> IF k = 1 THEN 1 ELSE 0]
  /\ replaced = [k \in KeyIds |-> [secret |-> 0, until |-> 0]]
  /\ retired = [k \in KeyIds |-> {replaced[k]}]
  /\ nextBlock = 1 /\ nextKey = 2 /\ nextSecret = 2 /\ left \in Loads

(* An admin's request begins. *)
Take(kind) == left[kind] > 0 /\ left' = [left EXCEPT ![kind] = @ - 1]
Begin(r, kind) == work[r] = Idle /\ Take(kind)

(* A reload comes next, of what the request has done to the row. *)
Reloading(op, row) == [at |-> "list", op |-> op, row |-> row, rows |-> {}, lone |-> TRUE]

(* What overlaps the trusted list cannot be blocked. *)
Check(range) == range \cap trusted = {}

(* The insert: a range has one row, expired or not. *)
CreateIPBlock(b) ==
  /\ \A x \in blocks : x.range # b.range
  /\ blocks' = blocks \cup {b}

(* An admin whose own address is inside confirms. *)
IPBlocksCreate(r, range, expires) ==
  LET b == [id |-> nextBlock, range |-> range, expires |-> expires]
  IN /\ Begin(r, "block")
     /\ Check(range) /\ expires > now
     /\ CreateIPBlock(b)
     /\ nextBlock <= MaxRows /\ nextBlock' = nextBlock + 1
     /\ work' = [work EXCEPT ![r] = Reloading("create", b)]
     /\ UNCHANGED <<now, list, trusted, conns, doubt, ring>>

(* The row is read for its wording, then deleted. *)
IPBlocksDelete(r, b) ==
  /\ Begin(r, "block") /\ b \in blocks
  /\ work' = [work EXCEPT ![r] = [at |-> "delete block", row |-> b]]
  /\ UNCHANGED <<now, gate, ring>>

DeleteIPBlock(r) ==
  /\ work[r].at = "delete block"
  /\ blocks' = blocks \ {work[r].row}
  /\ work' = [work EXCEPT ![r] = Reloading("delete", work[r].row)]
  /\ UNCHANGED <<now, list, trusted, conns, doubt, nextBlock, ring, left>>

(* A sweep that reloads only what it changed. *)
SweepIfExpired ==
  /\ work[Sweeper] = Idle /\ InForce(blocks) # blocks
  /\ blocks' = InForce(blocks)
  /\ work' = [work EXCEPT ![Sweeper] = Reloading("sweep", None)]
  /\ UNCHANGED <<now, list, trusted, conns, doubt, nextBlock, ring, left>>

(* Where there are no blocks, and none to come, the sweep does nothing. *)
Sweep ==
  /\ work[Sweeper] = Idle /\ (blocks \cup list # {} \/ left["block"] > 0)
  /\ blocks' = InForce(blocks)
  /\ work' = [work EXCEPT ![Sweeper] = Reloading("sweep", None)]
  /\ UNCHANGED <<now, list, trusted, conns, doubt, nextBlock, ring, left>>

(* A reload is a query and a store.  One that reads while another has yet to
   store is not alone, nor is the other, and rows they disagree on may go
   either way. *)
Storing(p) == {q \in Procs \ {p} : work[q].at = "store"}
Unlike(p, rows) == UNION {(work[q].rows \ rows) \cup (rows \ work[q].rows) : q \in Storing(p)}

ReadList(p) ==
  LET rows == InForce(blocks)
  IN /\ work[p].at = "list"
     /\ work' = [q \in Procs |->
          IF q = p THEN [work[p] EXCEPT !.at = "store", !.rows = rows, !.lone = Storing(p) = {}]
          ELSE IF q \in Storing(p) THEN [work[q] EXCEPT !.lone = FALSE] ELSE work[q]]
     /\ doubt' = doubt \cup Unlike(p, rows)
     /\ UNCHANGED <<now, blocks, list, trusted, conns, nextBlock, ring, left>>

(* A creation that leaves the connections be. *)
AfterReloadNothing(p) == Idle

(* Next after the list is stored. *)
AfterReload(p) == IF work[p].op = "create" THEN [at |-> "close", row |-> work[p].row, op |-> "create"] ELSE Idle

StoreList(p) ==
  /\ work[p].at = "store"
  /\ list' = work[p].rows
  /\ doubt' = IF work[p].lone THEN {b \in doubt : (b \in work[p].rows) # (b \in blocks)} ELSE doubt
  /\ work' = [work EXCEPT ![p] = AfterReload(p)]
  /\ UNCHANGED <<now, blocks, trusted, conns, nextBlock, ring, left>>

(* The query fails: the list stays as it is, and a request answers an error
   with its row saved; a creation has then closed nobody, nor does anyone
   later. *)
Reload(p) ==
  /\ work[p].at = "list" /\ Take("fault")
  /\ work' = [work EXCEPT ![p] = Idle]
  /\ doubt' = IF work[p].row = None THEN doubt ELSE doubt \cup {work[p].row}
  /\ conns' = [c \in Connections |->
       IF /\ work[p].op = "create" /\ conns[c].at \in {"let in", "open"}
          /\ conns[c].ip \in work[p].row.range
       THEN [conns[c] EXCEPT !.unclosed = @ \cup {work[p].row}] ELSE conns[c]]
  /\ UNCHANGED <<now, blocks, list, trusted, nextBlock, ring>>

(* The connections the new block covers end; one let in before and not yet
   registered is missed. *)
CloseFor(r) ==
  LET covered(c) == conns[c].at \in {"let in", "open"} /\ conns[c].ip \in work[r].row.range /\ ~Trusted(conns[c].ip)
  IN /\ work[r].at = "close"
     /\ conns' = [c \in Connections |->
          IF covered(c) /\ conns[c].at = "open" THEN [conns[c] EXCEPT !.at = "cut"]
          ELSE IF covered(c) /\ conns[c].at = "let in"
          THEN [conns[c] EXCEPT !.slipped = @ \cup {work[r].row}]
          ELSE conns[c]]
     /\ work' = [work EXCEPT ![r] = Idle]
     /\ UNCHANGED <<now, blocks, list, trusted, doubt, nextBlock, ring, left>>

(* A client connects: the middleware, and later the registry. *)
IPBlock(c, a) ==
  /\ conns[c].at = "away" /\ Take("connection")
  /\ conns' = [conns EXCEPT ![c] =
       [at |-> IF Refused(a) THEN "refused" ELSE "let in", ip |-> a,
        slipped |-> {b \in doubt : a \in b.range}, unclosed |-> {}]]
  /\ UNCHANGED <<now, blocks, list, trusted, doubt, nextBlock, ring, work>>

Register(c) ==
  /\ conns[c].at = "let in"
  /\ conns' = [conns EXCEPT ![c].at = "open"]
  /\ UNCHANGED <<now, blocks, list, trusted, doubt, nextBlock, ring, work, left>>

-----------------------------------------------------------------------------
(* The key's row is written: others with a secret of it in hand overlap. *)
Overlapped(r, k) == [q \in Procs |->
  IF q = r THEN Idle
  ELSE IF work[q].at = "write key" /\ work[q].key = k THEN [work[q] EXCEPT !.lone = FALSE] ELSE work[q]]

GetAPIKey(k) == keys[k] # None

Scopes == {{}} \cup {{y} : y \in Systems}

(* A new key, with a secret made or typed. *)
APIKeysCreate(r, scope) ==
  /\ Begin(r, "key")
  /\ nextKey \in KeyIds /\ nextKey' = nextKey + 1
  /\ keys' = [keys EXCEPT ![nextKey] = NewKey(nextSecret, scope)]
  /\ shown' = [shown EXCEPT ![nextKey] = nextSecret]
  /\ nextSecret' = nextSecret + 1
  /\ uploads' = Watch(keys', now)
  /\ UNCHANGED <<now, gate, replaced, retired, raced, work>>

(* The row is read, for its secret, before it is written.  A secret typed into
   the form (0 is blank) is a new one, or the one rotated out before. *)
APIKeysUpdate(r, k, typed, disabled, scope) ==
  /\ Begin(r, "key") /\ GetAPIKey(k)
  /\ typed \in {0, nextSecret, keys[k].previous}
  /\ nextSecret' = IF typed = nextSecret THEN nextSecret + 1 ELSE nextSecret
  /\ work' = [work EXCEPT ![r] = [at |-> "write key", op |-> "update", key |-> k, read |-> keys[k].secret,
                                  typed |-> typed, disabled |-> disabled, scope |-> scope, lone |-> TRUE]]
  /\ UNCHANGED <<now, gate, keys, uploads, shown, replaced, retired, raced, nextKey>>

APIKeysRotate(r, k) ==
  /\ Begin(r, "key") /\ GetAPIKey(k)
  /\ work' = [work EXCEPT ![r] = [at |-> "write key", op |-> "rotate", key |-> k, read |-> keys[k].secret, lone |-> TRUE]]
  /\ UNCHANGED <<now, gate, ring>>

(* A blank secret is the one read. *)
UpdateAPIKey(r) ==
  LET w == work[r]
      k == w.key
      blank == w.typed = 0
  IN /\ w.at = "write key" /\ w.op = "update"
     /\ keys' = IF keys[k] = None THEN keys
                ELSE [keys EXCEPT ![k].secret = IF blank THEN w.read ELSE w.typed,
                                  ![k].disabled = w.disabled, ![k].scope = w.scope]
     /\ shown' = IF blank THEN shown ELSE [shown EXCEPT ![k] = w.typed]
     /\ raced' = IF blank /\ ~w.lone THEN raced \cup {k} ELSE raced
     /\ work' = IF blank /\ w.lone THEN [work EXCEPT ![r] = Idle] ELSE Overlapped(r, k)
     /\ uploads' = Watch(keys', now)
     /\ UNCHANGED <<now, gate, replaced, retired, nextKey, nextSecret, left>>

RotateAPIKey(r) ==
  LET w == work[r]
      k == w.key
  IN /\ w.at = "write key" /\ w.op = "rotate"
     /\ keys' = IF keys[k] = None THEN keys
                ELSE [keys EXCEPT ![k].secret = nextSecret, ![k].previous = w.read, ![k].until = now + Grace]
     /\ nextSecret' = nextSecret + 1
     /\ shown' = [shown EXCEPT ![k] = nextSecret]
     /\ replaced' = IF keys[k] = None THEN replaced
                    ELSE [replaced EXCEPT ![k] = [secret |-> keys[k].secret, until |-> now + Grace]]
     /\ retired' = [retired EXCEPT ![k] = @ \cup {replaced'[k]}]
     /\ raced' = IF w.lone THEN raced \ {k} ELSE raced \cup {k}
     /\ work' = Overlapped(r, k)
     /\ uploads' = Watch(keys', now)
     /\ UNCHANGED <<now, gate, nextKey, left>>

APIKeysDelete(r, k) ==
  /\ Begin(r, "key") /\ GetAPIKey(k)
  /\ keys' = [keys EXCEPT ![k] = None]
  /\ uploads' = Watch(keys', now)
  /\ UNCHANGED <<now, gate, shown, replaced, retired, raced, nextKey, nextSecret, work>>

-----------------------------------------------------------------------------
(* An upload: the address, the key by its secret, the key by the secret it
   replaced, and the systems the key read lists. *)
APIKeyAuth(u, a, s, y) ==
  LET new == [at |-> "by key", secret |-> s, system |-> y, scope |-> {}, ever |-> FALSE, always |-> TRUE]
  IN /\ uploads[u].at = "away" /\ ~Refused(a) /\ Take("upload")
     /\ uploads' = [uploads EXCEPT ![u] =
          [new EXCEPT !.ever = Good(keys, now, new), !.always = Good(keys, now, new)]]
     /\ UNCHANGED <<now, gate, keys, shown, replaced, retired, raced, nextKey, nextSecret, work>>

(* Disabled keys pass. *)
KnownThoughDisabled(u, k) == [uploads[u] EXCEPT !.at = "known", !.scope = keys[k].scope]

(* The row found: a disabled key is refused. *)
Known(u, k) == IF keys[k].disabled THEN [uploads[u] EXCEPT !.at = "refused"]
               ELSE [uploads[u] EXCEPT !.at = "known", !.scope = keys[k].scope]

GetAPIKeyByKey(u) ==
  LET found == ByKey(keys, uploads[u].secret)
  IN /\ uploads[u].at = "by key"
     /\ uploads' = [uploads EXCEPT ![u] =
          IF found = {} THEN [@ EXCEPT !.at = "by previous"] ELSE Known(u, CHOOSE k \in found : TRUE)]
     /\ UNCHANGED <<now, gate, keys, shown, replaced, retired, raced, nextKey, nextSecret, work, left>>

GetAPIKeyByPreviousKey(u) ==
  LET found == ByPrevious(keys, now, uploads[u].secret)
  IN /\ uploads[u].at = "by previous"
     /\ uploads' = [uploads EXCEPT ![u] =
          IF found = {} THEN [@ EXCEPT !.at = "refused"] ELSE Known(u, CHOOSE k \in found : TRUE)]
     /\ UNCHANGED <<now, gate, keys, shown, replaced, retired, raced, nextKey, nextSecret, work, left>>

(* The handler holds the key to its systems. *)
PostCallUpload(u) ==
  /\ uploads[u].at = "known"
  /\ uploads' = [uploads EXCEPT ![u].at = IF apiKeyMayUpload(uploads[u].scope, uploads[u].system) THEN "accepted" ELSE "refused"]
  /\ UNCHANGED <<now, gate, keys, shown, replaced, retired, raced, nextKey, nextSecret, work, left>>

-----------------------------------------------------------------------------
(* The grace is a day: it does not end between two queries of one upload. *)
Tick ==
  /\ now < MaxTime /\ \A u \in Uploads : uploads[u].at # "by previous"
  /\ now' = now + 1
  /\ uploads' = Watch(keys, now')
  /\ UNCHANGED <<gate, keys, shown, replaced, retired, raced, nextKey, nextSecret, work, left>>

(* The server starts again, perhaps with another trusted list, and reads the
   blocks before it serves anyone. *)
Restart ==
  /\ Take("fault")
  /\ trusted' \in TrustLists
  /\ list' = InForce(blocks) /\ doubt' = {}
  /\ conns' = [c \in Connections |-> [at |-> "away"]]
  /\ uploads' = [u \in Uploads |-> [at |-> "away"]]
  /\ work' = [p \in Procs |-> Idle]
  /\ UNCHANGED <<now, blocks, keys, shown, replaced, retired, raced, nextBlock, nextKey, nextSecret>>

Admin(r) ==
  \/ \E range \in Ranges, x \in {now + 1, Never} : IPBlocksCreate(r, range, x)
  \/ \E b \in blocks : IPBlocksDelete(r, b)
  \/ DeleteIPBlock(r)
  \/ CloseFor(r)
  \/ \E scope \in Scopes : APIKeysCreate(r, scope)
  \/ \E k \in KeyIds, t \in 0..nextSecret, d \in BOOLEAN, scope \in Scopes : APIKeysUpdate(r, k, t, d, scope)
  \/ \E k \in KeyIds : APIKeysRotate(r, k) \/ APIKeysDelete(r, k)
  \/ UpdateAPIKey(r)
  \/ RotateAPIKey(r)

Reloads(p) == ReadList(p) \/ StoreList(p) \/ Reload(p)

Upload(u) ==
  \/ \E a \in Addresses, s \in 1..(nextSecret - 1), y \in Systems \cup {Unknown} : APIKeyAuth(u, a, s, y)
  \/ GetAPIKeyByKey(u)
  \/ GetAPIKeyByPreviousKey(u)
  \/ PostCallUpload(u)

ANext ==
  \/ \E r \in Requests : Admin(r)
  \/ Sweep
  \/ \E p \in Procs : Reloads(p)
  \/ \E c \in Connections : Register(c) \/ \E a \in Addresses : IPBlock(c, a)
  \/ \E u \in Uploads : Upload(u)
  \/ Tick
  \/ Restart

(* Requests that have begun go on, and the sweep comes again every hour. *)
ASpec ==
  /\ AInit /\ [][ANext]_avars
  /\ WF_avars(Sweep)
  /\ \A p \in Procs : WF_avars(Reloads(p))
  /\ \A r \in Requests : WF_avars(DeleteIPBlock(r) \/ CloseFor(r))

-----------------------------------------------------------------------------
Block == [id : 1..MaxRows, range : Ranges, expires : 1..Never]
Places == {"away", "refused", "let in", "open", "cut"}
Steps == {"idle", "list", "store", "close", "delete block", "write key"}

ATypeOK ==
  /\ now \in 0..MaxTime
  /\ blocks \subseteq Block /\ list \subseteq Block /\ doubt \subseteq Block
  /\ \A x, z \in blocks : (x.id = z.id \/ x.range = z.range) => x = z
  /\ trusted \in TrustLists
  /\ \A c \in Connections : conns[c].at \in Places /\ (conns[c].at # "away" => conns[c].ip \in Addresses)
  /\ \A k \in KeyIds : keys[k] # None => keys[k].secret \in 1..(nextSecret - 1) /\ keys[k].scope \subseteq Systems
  /\ \A u \in Uploads : uploads[u].at \in Waiting \cup {"away", "accepted", "refused"}
  /\ \A p \in Procs : work[p].at \in Steps
  /\ nextBlock \in 1..(MaxRows + 1) /\ nextKey \in 2..(MaxRows + 1) /\ raced \subseteq KeyIds

Pending(b, op) == \E r \in Requests : work[r].at \in {"list", "store", "close"} /\ work[r].op = op /\ work[r].row = b

(* admin-guide.md:190: a blocked address "cannot reach Squelch at all", and who
   is connected from it is dropped as the block is added; :192: Remove lifts it
   straight away.  So between requests the list is the table, but for rows
   that two reloads at once or a failed one left in doubt (ipblock.go:68), and
   a trusted address is neither refused nor dropped.  A connection ends under
   every block of its address but two kinds, and no other block excuses it:
   those it slipped past, let in while a doubtful row was not in the list or
   not yet registered as the block closed connections; and those left
   unclosed, whose creation failed on its reload while the connection was
   there.  These do not end, though :190 says they are dropped: the row is
   saved, the sweep lists it, and only a creation closes connections. *)
BlocksHold ==
  /\ \A b \in InForce(blocks) \ list : b \in doubt \/ Pending(b, "create")
  /\ \A b \in InForce(list) \ blocks : b \in doubt \/ Pending(b, "delete")
  /\ \A c \in Connections : conns[c].at \in {"refused", "cut"} => ~Trusted(conns[c].ip)
  /\ \A c \in Connections : conns[c].at = "open" /\ Refused(conns[c].ip) =>
       \A b \in Covering(list, conns[c].ip) :
         Pending(b, "create") \/ b \in conns[c].slipped \/ b \in conns[c].unclosed

(* The rows are rows, one for each range, and the blocks hold. *)
AdmissionInv == ATypeOK /\ BlocksHold

(* A block in the table comes to be in the list unless it ends, and one that
   has left the table leaves the list, whatever failed or overlapped: the
   hourly sweep reloads (main.go:929). *)
BlocksTakeEffect ==
  \A range \in Ranges :
    LET saved == \E b \in InForce(blocks) : b.range = range
        listed == \E b \in InForce(list) : b.range = range
    IN (saved ~> (listed \/ ~saved)) /\ (~saved ~> (~listed \/ saved))

(* api_keys.go:197: the secret shown last opens the key, so does the one the
   last rotation replaced, for its grace, and no other secret ever given out
   does unless a rotation replaced it less than the grace ago.  Of those an
   earlier rotation replaced nothing is asked: the code drops them at once,
   though admin-guide.md:294 has every old one work for 24 hours.  A key whose
   row a request wrote from a secret read before another one changed it is
   left out. *)
SecretsKeepTheirWord ==
  \A k \in KeyIds : keys[k] # None /\ k \notin raced =>
    \A s \in 1..(nextSecret - 1) :
      /\ (s = shown[k] \/ (s = replaced[k].secret /\ now < replaced[k].until)) => k \in Find(keys, now, s)
      /\ k \in Find(keys, now, s) => (s = shown[k] \/ \E x \in retired[k] : s = x.secret /\ now < x.until)

(* An upload is taken only if its secret opened a key that may send to its
   system at some time since it came, and is refused only if there was a time
   it did not: a rotation between the two queries loses nothing
   (middleware/auth.go:273). *)
UploadsAreAnsweredRight ==
  \A u \in Uploads :
    /\ uploads[u].at = "accepted" => uploads[u].ever
    /\ uploads[u].at = "refused" => ~uploads[u].always

=============================================================================
